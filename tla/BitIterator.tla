----------------------------- MODULE BitIterator -----------------------------
(***************************************************************************)
(* edt::BitIterator (bitset/bit_iterator.hpp): an iterator over the set    *)
(* bits of a word it views, which the client may change between two calls. *)
(***************************************************************************)
EXTENDS BitWords

VARIABLES
  bitset_,    \* the word itself, *bitset_
  reported_,  \* every bit up to and including the one reported last
  result,     \* what Next() returned: {index}, or {} for nullopt
  returned,   \* the bits returned so far
  kept        \* the bits set ever since the iterator was made

vars == <<bitset_, reported_, result, returned, kept>>

LowestBit(w) == CHOOSE b \in w : \A c \in w : b <= c

\* The client writes the word.
Write(w) ==
  /\ bitset_' = w
  /\ kept' = kept \cap w
  /\ UNCHANGED <<reported_, result, returned>>

\* Mutant: only the reported bit itself is masked off.
NextBit_MasksOneBit ==
  LET remaining == bitset_ \ reported_ IN
    /\ UNCHANGED <<bitset_, kept>>
    /\ IF remaining = kEmptyMask
         THEN result' = {} /\ UNCHANGED <<reported_, returned>>
         ELSE /\ result' = {LowestBit(remaining)}
              /\ reported_' = {LowestBit(remaining)}
              /\ returned' = returned \cup {LowestBit(remaining)}

\* Next(): bit | (bit - 1) is every position up to that of bit.
NextBit ==
  LET remaining == bitset_ \ reported_ IN
    /\ UNCHANGED <<bitset_, kept>>
    /\ IF remaining = kEmptyMask
         THEN result' = {} /\ UNCHANGED <<reported_, returned>>
         ELSE /\ result' = {LowestBit(remaining)}
              /\ reported_' = 0 .. LowestBit(remaining)
              /\ returned' = returned \cup {LowestBit(remaining)}

Init ==
  /\ bitset_ \in Words
  /\ reported_ = kEmptyMask
  /\ result = {} /\ returned = {}
  /\ kept = bitset_

Next == NextBit \/ \E w \in Words : Write(w)

Spec == Init /\ [][Next]_vars

-----------------------------------------------------------------------------
TypeOK ==
  /\ bitset_ \in Words /\ reported_ \in Words
  /\ result \in SUBSET kFullMask
  /\ returned \in Words /\ kept \in Words

\* A call returns a bit that is set at that moment and lies above all those
\* returned before: edits of the word are observed, and no bit comes twice, even
\* one that was cleared and set again.  It returns none only when every bit that
\* stayed set has been returned.
IteratesSetBits ==
  [][NextBit => IF result' = {} THEN kept \subseteq returned
                ELSE \A b \in result' : b \in bitset_ /\ \A v \in returned : v < b]_vars

\* The inductive invariant: the bits behind the iterator are those up to the last
\* one returned, and none that stayed set was passed over.
BehindInv == reported_ = {b \in kFullMask : \E v \in returned : b <= v}
NothingMissed == kept \subseteq bitset_ /\ kept \cap reported_ \subseteq returned

IndInv == TypeOK /\ BehindInv /\ NothingMissed
=============================================================================
