---------------------------- MODULE BitsetAdapter ----------------------------
(***************************************************************************)
(* edt::BitsetAdapter (bitset/bitset_adapter.hpp): a view of PartsCount    *)
(* words as one flat bitset, and its walk over the set bits, whose         *)
(* callback may change the bits through the same view.                     *)
(***************************************************************************)
EXTENDS BitWords, Sequences

CONSTANT PartsCount

AdapterAssumption == PartsCount \in Nat \ {0}

Parts == 0 .. PartsCount - 1
Size == PartsCount * kBitsCount
Indices == 0 .. Size - 1

VARIABLES
  parts_,     \* the words
  walk,       \* where ForEachBitWithReturn is; "none", "done" or "stopped" outside
  part,       \* its word index
  word,       \* its copy of that word
  visited,    \* the bits it has called back with
  steady,     \* the bits that were set all through the walk
  ever        \* the bits that were set at some time during the walk

vars == <<parts_, walk, part, word, visited, steady, ever>>
cursor == <<walk, part, word, visited>>
history == <<visited, steady, ever>>

Walking == walk \in {"reading", "looking", "calling"}

-----------------------------------------------------------------------------
\* The client changes the bits, outside a walk or from the callback.
Store(parts) ==
  /\ ~Walking \/ walk = "calling"
  /\ parts_' = parts
  /\ steady' = IF Walking THEN steady \cap BitsOf(parts, Size) ELSE steady
  /\ ever' = IF Walking THEN ever \cup BitsOf(parts, Size) ELSE ever
  /\ UNCHANGED cursor

SetN(parts, begin, count, value) == SetRange(parts, begin, begin + count, value)
SetFirstN(parts, count, value) == SetRange(parts, 0, count, value)

\* Mutant: the range starts one bit too early.
SetLastN_OffByOne(parts, count, value) == SetRange(parts, IF count < Size THEN Size - count - 1 ELSE 0, Size, value)

SetLastN(parts, count, value) == SetRange(parts, Size - count, Size, value)
Fill(parts, value) == SetRange(parts, 0, Size, value)
SetMasked(parts, mask, value) == [parts EXCEPT ![0] = SetWordMasked(@, mask, value)]

-----------------------------------------------------------------------------
(* ForEachBitWithReturn; ForEachBit is the one whose callback never stops. *)

StartWalk ==
  /\ ~Walking
  /\ walk' = "reading" /\ part' = 0
  /\ visited' = <<>>
  /\ steady' = BitsOf(parts_, Size) /\ ever' = BitsOf(parts_, Size)
  /\ UNCHANGED <<parts_, word>>

ReadWord ==
  /\ walk = "reading"
  /\ part # PartsCount
  /\ walk' = "looking"
  /\ word' = parts_[part]
  /\ UNCHANGED <<parts_, part, history>>

LowestBit(w) == CHOOSE b \in w : \A c \in w : b <= c

\* Mutant: the inner loop looks at the word in the view, not at its copy.
CallBack_Rereads ==
  /\ walk = "looking"
  /\ word # kEmptyMask
  /\ parts_[part] # kEmptyMask
  /\ walk' = "calling"
  /\ visited' = Append(visited, part * kBitsCount + LowestBit(parts_[part]))
  /\ UNCHANGED <<parts_, part, word, steady, ever>>

CallBack ==
  /\ walk = "looking"
  /\ word # kEmptyMask
  /\ walk' = "calling"
  /\ visited' = Append(visited, part * kBitsCount + LowestBit(word))
  /\ UNCHANGED <<parts_, part, word, steady, ever>>

\* The callback returns true: the lowest bit of the copy is cleared.
Continue ==
  /\ walk = "calling"
  /\ walk' = "looking"
  /\ word' = word \ {LowestBit(word)}
  /\ UNCHANGED <<parts_, part, history>>

\* The callback returns false.
Stop ==
  /\ walk = "calling"
  /\ walk' = "stopped"
  /\ UNCHANGED <<parts_, part, word, history>>

NextPart ==
  /\ walk = "looking"
  /\ word = kEmptyMask
  /\ walk' = "reading"
  /\ part' = part + 1
  /\ UNCHANGED <<parts_, word, history>>

EndWalk ==
  /\ walk = "reading"
  /\ part = PartsCount
  /\ walk' = "done"
  /\ UNCHANGED <<parts_, part, word, history>>

-----------------------------------------------------------------------------
Init ==
  /\ parts_ = [p \in Parts |-> kEmptyMask]
  /\ walk = "none" /\ part = 0 /\ word = kEmptyMask
  /\ visited = <<>> /\ steady = {} /\ ever = {}

Walk == StartWalk \/ ReadWord \/ CallBack \/ Continue \/ Stop \/ NextPart \/ EndWalk

Change ==
  \E value \in BOOLEAN :
    \/ \E index \in Indices : Store(Set(parts_, index, value))
    \/ \E begin, end \in 0 .. Size : Store(SetRange(parts_, begin, end, value))
    \/ \E begin \in 0 .. Size : \E count \in 0 .. Size - begin : Store(SetN(parts_, begin, count, value))
    \/ \E count \in 0 .. Size : Store(SetFirstN(parts_, count, value))
    \/ \E count \in 0 .. Size : Store(SetLastN(parts_, count, value))
    \/ Store(Fill(parts_, value))
    \/ \E mask \in Words : Store(SetMasked(parts_, mask, value))

Next == Walk \/ Change

Spec == Init /\ [][Next]_vars

-----------------------------------------------------------------------------
TypeOK ==
  /\ parts_ \in [Parts -> Words]
  /\ walk \in {"none", "reading", "looking", "calling", "done", "stopped"}
  /\ part \in 0 .. PartsCount
  /\ word \in Words
  /\ visited \in Seq(Indices)
  /\ steady \in SUBSET Indices /\ ever \in SUBSET Indices

\* Over the whole view and across word boundaries, every operation assigns exactly
\* the bits it names - an index, a half-open range that may be empty, a number of
\* them from either end, all, a raw mask of the first word - and no other bit.
Assigns(parts, S, value) == BitsOf(parts, Size) = Assigned(BitsOf(parts_, Size), S, value)

RangesAreFlat ==
  \A value \in BOOLEAN :
    /\ \A i \in Indices : Assigns(Set(parts_, i, value), {i}, value)
    /\ \A b, e \in 0 .. Size : Assigns(SetRange(parts_, b, e, value), b .. e - 1, value)
    /\ \A n \in 0 .. Size :
         /\ Assigns(SetFirstN(parts_, n, value), {i \in Indices : i < n}, value)
         /\ Assigns(SetLastN(parts_, n, value), {i \in Indices : i >= Size - n}, value)
         /\ n + 2 <= Size => Assigns(SetN(parts_, n, 2, value), {n, n + 1}, value)
    /\ Assigns(Fill(parts_, value), Indices, value)
    /\ \A mask \in Words : Assigns(SetMasked(parts_, mask, value), mask, value)

\* Bits are visited lowest first, each at most once, whatever the callback does
\* to the words under the walk.
LowestFirst == \A i, j \in DOMAIN visited : i < j => visited[i] < visited[j]

\* A walk that is not stopped visits every bit that stayed set throughout, and
\* no bit that never was.
VisitsTheSetBits ==
  LET reached == {visited[i] : i \in DOMAIN visited}
  IN  reached \subseteq ever /\ (walk = "done" => steady \subseteq reached)
=============================================================================
