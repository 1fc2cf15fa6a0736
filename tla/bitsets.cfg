\* Words of two bits: two of them under a walk, four without, so that a range can
\* cover words between its ends; a word of four for the iterator; sizes that end
\* inside a word, on its end and one bit past it; eleven bits in bytes of two, which
\* makes three words of two bytes with one bit of slack; and enumerations of three
\* and four bits where int has four, so that some are promoted and others are not.
CONSTANTS
  kBitsCount = 2
  WalkedParts = 2
  WideParts = 4
  IteratorBits = 4
  MaxSize = 5
  bits_count = 11
  BitsPerByte = 2
  AllParts = {1, 2, 4, 8}
  UnderlyingBits = {3, 4}
  BitsOfInt = 4
SPECIFICATION Spec
INVARIANTS
  VisitsTheSetBits
  RangesAreFlat
  SlackStaysZero
  FlagsAreSets
PROPERTIES
  IteratesSetBits
  ImplementsBitVector
