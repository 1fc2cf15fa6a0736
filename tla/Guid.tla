--------------------------------- MODULE Guid ---------------------------------
(***************************************************************************)
(* edt::GUID (guid.hpp): formatting, and parsing of what was formatted, in *)
(* either case, with or without braces, and whole or cut short.  A part is *)
(* sixteen nibbles, least significant first, and a character its ASCII     *)
(* code.                                                                   *)
(***************************************************************************)
EXTENDS Integers, Sequences

CONSTANTS
  Fills, Digits,   \* the value of all nibbles but one, and of that one
  Lengths          \* how much may be left of a text

GuidAssumption == (Fills \cup Digits) \subseteq 0 .. 15 /\ Lengths \subseteq Nat

VARIABLES
  guid,
  text,        \* its text, as passed on: a sequence of characters
  parsed,      \* what Create(text) returned, guid before
  stage        \* where the text is, and how Create ended

vars == <<guid, text, parsed, stage>>

Dash == 45
Zero == 48
UpperA == 65
LowerA == 97

usualStringLength == 36
stringLengthWithBracers == usualStringLength + 2

Braces == <<123, 125>>

\* string/char_util.hpp
ToLower(s) == IF s \in UpperA .. UpperA + 25 THEN LowerA + s - UpperA ELSE s
ToUpper(s) == IF s \in LowerA .. LowerA + 25 THEN UpperA + s - LowerA ELSE s

HexToDec(symbol) ==
  LET s == ToLower(symbol) IN (IF s >= LowerA THEN 10 + s - LowerA ELSE s - Zero) % 256

\* The shift, in nibbles, of each character of the text; -1 for the dashes.
shifts ==
  << 7,  6,  5,  4,  3,  2,  1,  0, -1, 11, 10,  9,  8, -1, 15, 14, 13, 12, -1,
    17, 16, 19, 18, -1, 21, 20, 23, 22, 25, 24, 27, 26, 29, 28, 31, 30>>

GetChar(g, index) ==
  LET shift == shifts[index + 1]
      v == IF shift >= 16 THEN g.part2[shift % 16] ELSE g.part1[shift]
  IN IF shift < 0 THEN Dash ELSE IF v < 10 THEN Zero + v ELSE UpperA - 10 + v

ToCharArray(g) == [n \in 1 .. usualStringLength |-> GetChar(g, n - 1)]

\* Where in the text each byte of a part is read, least significant byte first.
part1_index == <<6, 4, 2, 0, 11, 9, 16, 14>>
part2_index == <<19, 21, 24, 26, 28, 30, 32, 34>>

\* Of two nibbles, bit by bit.
Or(a, b) ==
  LET Either(bit) == IF 1 \in {(a \div bit) % 2, (b \div bit) % 2} THEN bit ELSE 0
  IN Either(1) + Either(2) + Either(4) + Either(8)

\* h << 4 | l in a byte, the high nibble first in the text: a character that is no
\* digit is converted nonetheless, and reaches into both nibbles.
ParsePart(str, indexMap) ==
  LET h(n) == HexToDec(str[indexMap[n \div 2 + 1] + 1])
      l(n) == HexToDec(str[indexMap[n \div 2 + 1] + 2])
  IN [n \in 0 .. 15 |-> IF n % 2 = 0 THEN l(n) % 16 ELSE Or(h(n) % 16, l(n) \div 16)]

Parse(str) == [part1 |-> ParsePart(str, part1_index), part2 |-> ParsePart(str, part2_index)]

GUIDs ==
  LET Part == {[n \in 0 .. 15 |-> fill] : fill \in Fills}
      Other == {[part EXCEPT ![n] = v] : part \in Part, n \in 0 .. 15, v \in Digits}
  IN [part1 : Part, part2 : Other] \cup [part1 : Other, part2 : Part]

Init == guid \in GUIDs /\ text = <<>> /\ parsed = guid /\ stage = "unwritten"

Format ==
  /\ stage = "unwritten"
  /\ text' = ToCharArray(guid)
  /\ stage' = "written"
  /\ UNCHANGED <<guid, parsed>>

\* The text may have been changed before it is parsed.
Rewrite(changed) ==
  /\ stage = "written"
  /\ text' = changed
  /\ UNCHANGED <<guid, parsed, stage>>

Brace ==
  /\ Len(text) = usualStringLength /\ text[1] # Braces[1]
  /\ Rewrite(<<Braces[1]>> \o text \o <<Braces[2]>>)

Cut(length) == length < Len(text) /\ Rewrite(SubSeq(text, 1, length))

Returns(view) ==
  /\ stage = "written"
  /\ Len(view) >= usualStringLength
  /\ parsed' = Parse(view)
  /\ stage' = "returned"
  /\ UNCHANGED <<guid, text>>

Ends(how) == stage = "written" /\ stage' = how /\ UNCHANGED <<guid, text, parsed>>

\* Mutant: the braces are not skipped.
Create_KeepsBrace == Returns(text)

\* Any length but the usual one is taken to be that of the braced form: substr
\* throws if there is no first character to skip, and Parse reads past the end of
\* what substr found if that is too short.
Create ==
  IF Len(text) = usualStringLength THEN Returns(text)
  ELSE \/ Len(text) > usualStringLength /\ Returns(SubSeq(text, 2, stringLengthWithBracers - 1))
       \/ Len(text) = 0 /\ Ends("threw")
       \/ Len(text) \in 1 .. usualStringLength /\ Ends("read past the end")

Next ==
  \/ Format
  \/ Rewrite([n \in DOMAIN text |-> ToLower(text[n])])
  \/ Rewrite([n \in DOMAIN text |-> ToUpper(text[n])])
  \/ Brace
  \/ \E length \in Lengths : Cut(length)
  \/ Create

Spec == Init /\ [][Next]_vars

-----------------------------------------------------------------------------
\* Which texts still have all the digits of the GUID.
HasEveryDigit ==
  \/ Len(text) > usualStringLength
  \/ Len(text) = usualStringLength /\ text[1] # Braces[1]

\* What came of parsing: the GUID from a text that has all its digits; from another
\* one that is not it, an exception or a read past the end.
Restored ==
  CASE stage = "returned" -> ((parsed = guid) <=> HasEveryDigit)
    [] stage \in {"threw", "read past the end"} -> ~HasEveryDigit
    [] OTHER -> parsed = guid

\* The usual layout of a GUID in memory, stated without either table: three
\* groups of bytes written in reverse, two written in order, dashes between.
Groups == <<<<3, 2, 1, 0>>, <<5, 4>>, <<7, 6>>, <<8, 9>>, <<10, 11, 12, 13, 14, 15>>>>

ByteText(g, byte) ==
  LET part == IF byte < 8 THEN g.part1 ELSE g.part2
      Digit(v) == SubSeq(<<48, 49, 50, 51, 52, 53, 54, 55, 56, 57, 65, 66, 67, 68, 69, 70>>, v + 1, v + 1)
  IN Digit(part[2 * (byte % 8) + 1]) \o Digit(part[2 * (byte % 8)])

GroupText(g, group) ==
  LET text_[n \in 0 .. Len(group)] == IF n = 0 THEN <<>> ELSE text_[n - 1] \o ByteText(g, group[n])
  IN text_[Len(group)]

LayoutText(g) ==
  LET text_[n \in 1 .. Len(Groups)] ==
        IF n = 1 THEN GroupText(g, Groups[1]) ELSE text_[n - 1] \o <<Dash>> \o GroupText(g, Groups[n])
  IN text_[Len(Groups)]

\* Formatting and parsing are inverse, whatever case or spelling the text is in:
\* each carries a table of its own of where in the text a nibble is, and the text has
\* the usual layout.  That holds of a text that has lost its closing brace too, but
\* of no other that was cut: a braced text cut to the usual length is taken for a
\* GUID, which it is not.
RoundTrip == [][Restored' /\ (Format => text' = LayoutText(guid))]_vars
=============================================================================
