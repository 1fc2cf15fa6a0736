\* Every nibble in turn takes six values, among zeros and among ones, in texts that
\* are whole or end before the first, the last or the closing character; types of
\* two, three and five bits; ranges of a three-bit type, in up to four pieces;
\* floating-point numbers up to two; elements of two bits; angles of all multiples
\* of 45 degrees, and residues modulo 17, where 3 is one over the root of 2; curves
\* through up to five points, and up to 60 points of the other kinds; windows of
\* one, three and four ticks; and every array of at most four elements over three
\* keys.
CONSTANTS
  Fills = {0, 15}
  Digits = {1, 2, 4, 8, 9, 10}
  Lengths = {0, 35, 36, 37}
  Widths = {2, 3, 5}
  BitsOfT = 3
  BitsOfInt = 5
  MaxRanges = 4
  MaxFloat = 2
  Amounts <- MCAmounts
  Shapes <- MCShapes
  Modulus = 4
  Samples = {1, 3}
  Prime = 17
  Diagonal = 3
  Degrees = {45, 180}
  MaxDegrees = 90
  Vectors <- MCVectors
  Coordinates = {0, 1, 3}
  MaxPoints = 5
  MaxSamples = 3
  MaxAsked = 60
  Undefined = Undefined
  Fps = {1, 2, 3}
  DefaultFps = 2
  Ticks <- MCTicks
  Second = 60
  RepSize = 256
  Keys = {1, 2, 3}
  MaxCount = 4
SPECIFICATION Spec
CHECK_DEADLOCK FALSE
INVARIANTS
  ConversionsKeepValues
  SplitsPartition
  NearestContained
  ProductLaws
  AliasedOperands
  TransformsCompose
PROPERTIES
  RoundTrip
  PointsAsAsked
  AverageOfTheWindow
  SortsByAdjacentSwaps
