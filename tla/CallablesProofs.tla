--------------------------- MODULE CallablesProofs ---------------------------
(***************************************************************************)
(* What is proved of OnScopeLeave, Delegate, CallAndRethrow and the call   *)
(* helpers, as parts of Callables, for any number of callbacks, guards,    *)
(* delegates, messages and nested calls, and any sizes and arguments:      *)
(* while one of them moves the others rest.                                *)
(***************************************************************************)
EXTENDS Callables, FiniteSetTheorems, FunctionTheorems, SequenceTheorems, TLAPS

-----------------------------------------------------------------------------
(* OnScopeLeave.  Each callback runs once and the last first, as long as   *)
(* no guard is moved from twice.                                           *)

\* A step of the whole moves the guards as a step of theirs or not at all.
LEMMA ScopesStep == [Next]_vars => [Scopes!Next]_scopes
BY DEF Next, vars, scopes

Armory == [on_leave_ : Callbacks, empty_ : BOOLEAN]

GuardsTyped == guards \in Seq(Armory) /\ ran \in Seq(Callbacks)

Armed(i) == i \in DOMAIN guards /\ ~guards[i].empty_

\* No two guards would run the same callback, and none has run that is still held.
HeldOnce ==
  \A i, j \in DOMAIN guards :
    Armed(i) /\ Armed(j) /\ guards[i].on_leave_ = guards[j].on_leave_ => i = j

NotRunYet == \A i \in DOMAIN guards, k \in DOMAIN ran : Armed(i) => ran[k] # guards[i].on_leave_

\* What a moved-from guard gave away is still held, or has run.
PassedOn ==
  \A i \in DOMAIN guards :
    \/ \E j \in DOMAIN guards : Armed(j) /\ guards[j].on_leave_ = guards[i].on_leave_
    \/ \E k \in DOMAIN ran : ran[k] = guards[i].on_leave_

GuardsInv == GuardsTyped /\ HeldOnce /\ NotRunYet /\ Scopes!MovedFromGuardDoesNotRun /\ PassedOn

\* A sequence with one more element.
LEMMA Appended ==
  ASSUME NEW S, NEW s \in Seq(S), NEW e \in S
  PROVE  /\ Append(s, e) \in Seq(S) /\ Len(s) \in Nat /\ DOMAIN s = 1 .. Len(s)
         /\ DOMAIN Append(s, e) = 1 .. Len(s) + 1
         /\ Append(s, e)[Len(s) + 1] = e
         /\ \A n \in 1 .. Len(s) : Append(s, e)[n] = s[n]
  OBVIOUS

\* A sequence without its last element.
LEMMA WithoutLast ==
  ASSUME NEW S, NEW s \in Seq(S), s # <<>>
  PROVE  /\ Len(s) \in Nat \ {0} /\ DOMAIN s = 1 .. Len(s)
         /\ Scopes!Last(s) = s[Len(s)] /\ s[Len(s)] \in S
         /\ Scopes!Front(s) \in Seq(S) /\ DOMAIN Scopes!Front(s) = 1 .. Len(s) - 1
         /\ \A n \in 1 .. Len(s) - 1 : Scopes!Front(s)[n] = s[n]
<1>1. /\ Len(s) \in Nat \ {0} /\ DOMAIN s = 1 .. Len(s) /\ s[Len(s)] \in S
      /\ \A n \in 1 .. Len(s) - 1 : s[n] \in S
  OBVIOUS
<1>2. /\ SubSeq(s, 1, Len(s) - 1) \in Seq(S)
      /\ DOMAIN SubSeq(s, 1, Len(s) - 1) = 1 .. Len(s) - 1
      /\ \A n \in 1 .. Len(s) - 1 : SubSeq(s, 1, Len(s) - 1)[n] = s[n]
  BY <1>1
<1> QED BY <1>1, <1>2 DEF Scopes!Front, Scopes!Last

\* What holds of the guards and of what ran stays so as guards are made, moved from
\* and destroyed, the last ones first.
LEMMA GuardsInvHolds == Spec => []GuardsInv
<1> USE DEF Armed
<1>1. Scopes!Init => GuardsInv
  BY DEF Scopes!Init, GuardsInv, GuardsTyped, HeldOnce, NotRunYet, Scopes!MovedFromGuardDoesNotRun, PassedOn
<1>2. GuardsInv /\ [Scopes!Next]_scopes => GuardsInv'
  <2> SUFFICES ASSUME GuardsInv, [Scopes!Next]_scopes PROVE GuardsInv'
    OBVIOUS
  <2> USE DEF GuardsInv
  <2>1. ASSUME NEW c \in Callbacks, Scopes!Create(c) PROVE GuardsInv'
    <3> DEFINE g == Scopes!Guard(c)
    <3>1. g \in Armory /\ g.on_leave_ = c /\ g.empty_ = FALSE
      BY DEF Scopes!Guard, Armory
    <3>2. /\ guards' = Append(guards, g) /\ ran' = ran
          /\ \A i \in DOMAIN guards : guards[i].on_leave_ # c
          /\ \A k \in DOMAIN ran : ran[k] # c
      BY <2>1 DEF Scopes!Create, Scopes!Contains, GuardsTyped
    <3> HIDE DEF g
    <3>3. /\ guards' \in Seq(Armory) /\ Len(guards) \in Nat
          /\ DOMAIN guards = 1 .. Len(guards) /\ DOMAIN guards' = 1 .. Len(guards) + 1
          /\ guards'[Len(guards) + 1] = g
          /\ \A n \in 1 .. Len(guards) : guards'[n] = guards[n]
      BY <3>1, <3>2, Appended DEF GuardsTyped
    <3>4. GuardsTyped'
      BY <3>2, <3>3 DEF GuardsTyped
    <3>5. HeldOnce'
      BY <3>1, <3>2, <3>3 DEF HeldOnce
    <3>6. NotRunYet'
      BY <3>1, <3>2, <3>3 DEF NotRunYet
    <3>7. Scopes!MovedFromGuardDoesNotRun'
      BY <3>2 DEF Scopes!MovedFromGuardDoesNotRun
    <3>8. PassedOn'
      BY <3>1, <3>2, <3>3 DEF PassedOn
    <3> QED BY <3>4, <3>5, <3>6, <3>7, <3>8
  <2>2. ASSUME NEW m \in DOMAIN guards, Scopes!MoveConstruct(m) PROVE GuardsInv'
    <3> DEFINE c == guards[m].on_leave_
               g == Scopes!Guard(c)
               left == [guards EXCEPT ![m].empty_ = TRUE]
    <3>1. /\ guards[m] \in Armory /\ ~guards[m].empty_
          /\ guards' = Append(left, g) /\ ran' = ran
      <4>1. guards[m] \in Armory
        BY DEF GuardsTyped
      <4> HIDE DEF GuardsInv
      <4> QED BY <2>2, <4>1 DEF Scopes!MoveConstruct
    <3>2. c \in Callbacks /\ g \in Armory /\ g.on_leave_ = c /\ g.empty_ = FALSE
      BY <3>1 DEF Scopes!Guard, Armory
    <3>3. /\ left \in Seq(Armory) /\ Len(left) = Len(guards) /\ DOMAIN left = DOMAIN guards
          /\ left[m].on_leave_ = c /\ left[m].empty_
          /\ \A n \in DOMAIN guards : n # m => left[n] = guards[n]
      <4> DEFINE emptied == [guards[m] EXCEPT !.empty_ = TRUE]
      <4>1. emptied \in Armory /\ emptied.on_leave_ = c /\ emptied.empty_
        BY <3>1 DEF Armory
      <4>2. left = [guards EXCEPT ![m] = emptied]
        OBVIOUS
      <4> HIDE DEF emptied, left
      <4>3. guards \in Seq(Armory)
        BY DEF GuardsTyped
      <4> QED BY <4>1, <4>2, <4>3
    <3> HIDE DEF g, left
    <3>4. /\ guards' \in Seq(Armory) /\ Len(guards) \in Nat
          /\ DOMAIN guards = 1 .. Len(guards) /\ DOMAIN guards' = 1 .. Len(guards) + 1
          /\ guards'[Len(guards) + 1] = g
          /\ \A n \in 1 .. Len(guards) : guards'[n] = left[n]
      BY <3>1, <3>2, <3>3, Appended
    <3>5. /\ \A n \in DOMAIN guards : guards'[n].on_leave_ = guards[n].on_leave_
          /\ \A n \in DOMAIN guards : ~guards'[n].empty_ => ~guards[n].empty_ /\ n # m
      BY <3>3, <3>4
    <3>6. GuardsTyped'
      BY <3>1, <3>4 DEF GuardsTyped
    <3>7. HeldOnce'
      BY <3>1, <3>2, <3>4, <3>5 DEF HeldOnce
    <3>8. NotRunYet'
      BY <3>1, <3>2, <3>4, <3>5 DEF NotRunYet
    <3>9. Scopes!MovedFromGuardDoesNotRun'
      BY <3>1 DEF Scopes!MovedFromGuardDoesNotRun
    <3>10. PassedOn'
      <4>1. ASSUME NEW n \in DOMAIN guards'
            PROVE  \/ \E j \in DOMAIN guards' : Armed(j)' /\ guards'[j].on_leave_ = guards'[n].on_leave_
                   \/ \E k \in DOMAIN ran : ran[k] = guards'[n].on_leave_
        <5>1. CASE n = Len(guards) + 1 \/ guards'[n].on_leave_ = c
          BY <3>2, <3>4, <5>1
        <5>2. CASE n \in DOMAIN guards /\ guards'[n].on_leave_ # c
          <6>1. \/ \E j \in DOMAIN guards : Armed(j) /\ guards[j].on_leave_ = guards[n].on_leave_
                \/ \E k \in DOMAIN ran : ran[k] = guards[n].on_leave_
            BY <5>2 DEF PassedOn
          <6>2. CASE \E k \in DOMAIN ran : ran[k] = guards[n].on_leave_
            BY <3>5, <5>2, <6>2
          <6>3. ASSUME NEW j \in DOMAIN guards, Armed(j), guards[j].on_leave_ = guards[n].on_leave_
                PROVE  j \in DOMAIN guards' /\ Armed(j)' /\ guards'[j].on_leave_ = guards'[n].on_leave_
            <7>1. j # m
              BY <3>5, <5>2, <6>3
            <7> QED BY <3>3, <3>4, <3>5, <5>2, <6>3, <7>1
          <6> QED BY <6>1, <6>2, <6>3
        <5> QED BY <3>4, <5>1, <5>2
      <4> QED BY <3>1, <4>1 DEF PassedOn
    <3> QED BY <3>6, <3>7, <3>8, <3>9, <3>10
  <2>3. ASSUME Scopes!Destruct PROVE GuardsInv'
    <3> DEFINE top == Len(guards)
               c == guards[top].on_leave_
    <3>1. /\ top \in Nat \ {0} /\ DOMAIN guards = 1 .. top /\ guards[top] \in Armory
          /\ guards' \in Seq(Armory) /\ DOMAIN guards' = 1 .. top - 1
          /\ \A n \in 1 .. top - 1 : guards'[n] = guards[n]
          /\ ran' = IF guards[top].empty_ THEN ran ELSE Append(ran, c)
      BY <2>3, WithoutLast DEF Scopes!Destruct, GuardsTyped
    <3>2. c \in Callbacks
      BY <3>1 DEF Armory
    <3>3. CASE guards[top].empty_
      <4>1. ran' = ran
        BY <3>1, <3>3
      <4> HIDE DEF top, c
      <4>2. GuardsTyped' /\ HeldOnce' /\ NotRunYet' /\ Scopes!MovedFromGuardDoesNotRun'
        BY <3>1, <4>1 DEF GuardsTyped, HeldOnce, NotRunYet, Scopes!MovedFromGuardDoesNotRun
      <4>3. ASSUME NEW n \in DOMAIN guards'
            PROVE  \/ \E j \in DOMAIN guards' : Armed(j)' /\ guards'[j].on_leave_ = guards'[n].on_leave_
                   \/ \E k \in DOMAIN ran : ran[k] = guards'[n].on_leave_
        <5>1. n \in DOMAIN guards /\ guards'[n] = guards[n]
          BY <3>1
        <5>2. CASE \E k \in DOMAIN ran : ran[k] = guards[n].on_leave_
          BY <5>1, <5>2
        <5>3. ASSUME NEW j \in DOMAIN guards, Armed(j), guards[j].on_leave_ = guards[n].on_leave_
              PROVE  j \in DOMAIN guards' /\ Armed(j)' /\ guards'[j].on_leave_ = guards'[n].on_leave_
          <6>1. j # top
            BY <3>3, <5>3
          <6> QED BY <3>1, <5>1, <5>3, <6>1
        <5> QED BY <5>1, <5>2, <5>3 DEF PassedOn
      <4> QED BY <4>1, <4>2, <4>3 DEF PassedOn
    <3>4. CASE ~guards[top].empty_
      <4>1. /\ ran' \in Seq(Callbacks) /\ Len(ran) \in Nat
            /\ DOMAIN ran = 1 .. Len(ran) /\ DOMAIN ran' = 1 .. Len(ran) + 1
            /\ ran'[Len(ran) + 1] = c
            /\ \A n \in 1 .. Len(ran) : ran'[n] = ran[n]
        BY <3>1, <3>2, <3>4, Appended DEF GuardsTyped
      <4> HIDE DEF top, c
      <4>2. GuardsTyped'
        BY <3>1, <4>1 DEF GuardsTyped
      <4>3. HeldOnce'
        BY <3>1 DEF HeldOnce
      <4>4. NotRunYet'
        <5>1. \A i \in 1 .. top - 1 : Armed(i) => guards[i].on_leave_ # c
          BY <3>1, <3>4 DEF HeldOnce, c
        <5> QED BY <3>1, <4>1, <5>1 DEF NotRunYet
      <4>5. Scopes!MovedFromGuardDoesNotRun'
        <5>1. \A k \in 1 .. Len(ran) : ran[k] # c
          BY <3>1, <3>4, <4>1 DEF NotRunYet, c
        <5> QED BY <4>1, <5>1 DEF Scopes!MovedFromGuardDoesNotRun
      <4>6. PassedOn'
        <5> SUFFICES ASSUME NEW n \in 1 .. top - 1
                     PROVE  \/ \E j \in 1 .. top - 1 : ~guards'[j].empty_ /\ guards'[j].on_leave_ = guards'[n].on_leave_
                            \/ \E k \in 1 .. Len(ran) + 1 : ran'[k] = guards'[n].on_leave_
          BY <3>1, <4>1 DEF PassedOn
        <5>1. n \in DOMAIN guards /\ guards'[n] = guards[n]
          BY <3>1
        <5>2. CASE \E k \in DOMAIN ran : ran[k] = guards[n].on_leave_
          BY <4>1, <5>1, <5>2
        <5>3. CASE guards[n].on_leave_ = c
          BY <4>1, <5>1, <5>3
        <5>4. ASSUME NEW j \in DOMAIN guards, Armed(j), guards[j].on_leave_ = guards[n].on_leave_,
                     guards[n].on_leave_ # c
              PROVE  j \in 1 .. top - 1 /\ ~guards'[j].empty_ /\ guards'[j].on_leave_ = guards'[n].on_leave_
          <6>1. j # top
            BY <5>4 DEF c
          <6> QED BY <3>1, <5>1, <5>4, <6>1
        <5> QED BY <5>1, <5>2, <5>3, <5>4 DEF PassedOn
      <4> QED BY <4>2, <4>3, <4>4, <4>5, <4>6
    <3> QED BY <3>3, <3>4
  <2>4. CASE UNCHANGED scopes
    BY <2>4 DEF scopes, GuardsTyped, HeldOnce, NotRunYet, Scopes!MovedFromGuardDoesNotRun, PassedOn
  <2> QED BY <2>1, <2>2, <2>3, <2>4 DEF Scopes!Next
<1>3. Init => Scopes!Init
  BY DEF Init
<1> QED BY <1>1, <1>2, <1>3, ScopesStep, PTL DEF Spec

\* A set whose members are all equal has one of them, or none.
LEMMA AtMostOne ==
  ASSUME NEW S, \A x, y \in S : x = y
  PROVE  Cardinality(S) = IF S = {} THEN 0 ELSE 1
<1>1. CASE S = {}
  BY <1>1, FS_EmptySet
<1>2. CASE S # {}
  <2>1. PICK x \in S : TRUE
    BY <1>2
  <2>2. S = {x}
    BY <2>1
  <2> QED BY <1>2, <2>2, FS_Singleton
<1> QED BY <1>1, <1>2

\* Both instances of FiniteSets count alike.
LEMMA SameCardinality == \A S : Scopes!Cardinality(S) = Cardinality(S)
BY Zenon DEF Scopes!Cardinality, Cardinality

\* No callback runs twice: it is held by one guard, or it has run, not both.
LEMMA RunsOnceInEveryState == GuardsInv => Scopes!RunsExactlyOnce
<1> SUFFICES ASSUME GuardsInv, NEW c \in Scopes!Started
             PROVE  Cardinality(Scopes!Holders(c)) + Cardinality({k \in DOMAIN ran : ran[k] = c}) = 1
  BY SameCardinality DEF Scopes!RunsExactlyOnce
<1> DEFINE runs == {k \in DOMAIN ran : ran[k] = c}
<1>1. \A i : i \in Scopes!Holders(c) <=> i \in DOMAIN guards /\ Armed(i) /\ guards[i].on_leave_ = c
  <2>1. \A i \in DOMAIN guards : guards[i] \in Armory
    BY DEF GuardsInv, GuardsTyped
  <2>2. \A g \in Armory : g = Scopes!Guard(c) <=> ~g.empty_ /\ g.on_leave_ = c
    BY DEF Armory, Scopes!Guard
  <2> QED BY <2>1, <2>2 DEF Scopes!Holders, Armed
<1>2. \A k : k \in runs <=> k \in DOMAIN ran /\ ran[k] = c
  OBVIOUS
<1>3. Scopes!Holders(c) # {} \/ runs # {}
  <2>1. CASE Scopes!Contains(ran, c)
    BY <1>2, <2>1 DEF Scopes!Contains, GuardsInv, GuardsTyped
  <2>2. ASSUME NEW i \in DOMAIN guards, guards[i].on_leave_ = c PROVE Scopes!Holders(c) # {} \/ runs # {}
    BY <1>1, <1>2, <2>2 DEF GuardsInv, PassedOn
  <2> QED BY <2>1, <2>2 DEF Scopes!Started
<1>4. Scopes!Holders(c) = {} \/ runs = {}
  BY <1>1, <1>2 DEF GuardsInv, NotRunYet
<1> HIDE DEF runs
<1>5. Cardinality(Scopes!Holders(c)) = IF Scopes!Holders(c) = {} THEN 0 ELSE 1
  <2>1. \A i, j \in Scopes!Holders(c) : i = j
    BY <1>1 DEF GuardsInv, HeldOnce
  <2> QED BY <2>1, AtMostOne
<1>6. Cardinality(runs) = IF runs = {} THEN 0 ELSE 1
  <2>1. \A i, j \in runs : i = j
    BY <1>2 DEF GuardsInv, Scopes!MovedFromGuardDoesNotRun
  <2> QED BY <2>1, AtMostOne
<1>7. Cardinality(Scopes!Holders(c)) + Cardinality(runs) = 1
  BY <1>3, <1>4, <1>5, <1>6
<1> QED BY <1>7 DEF runs

\* Only the last guard runs, so no guard made after one that runs is armed.
LEMMA LastRunsFirst == GuardsInv /\ [Scopes!Next]_scopes => [Scopes!RunsLastFirst]_scopes
<1> SUFFICES ASSUME GuardsInv, Scopes!Next PROVE Scopes!RunsLastFirst
  OBVIOUS
<1>1. CASE (\E c \in Callbacks : Scopes!Create(c)) \/ (\E i \in DOMAIN guards : Scopes!MoveConstruct(i))
  BY <1>1 DEF Scopes!Create, Scopes!MoveConstruct, Scopes!RunsLastFirst
<1>2. CASE Scopes!Destruct
  <2> SUFFICES ASSUME NEW i \in DOMAIN guards, NEW j \in DOMAIN guards, i < j,
                      Armed(i), Armed(j), Scopes!Contains(ran', guards[i].on_leave_)
               PROVE  Scopes!Contains(ran, guards[i].on_leave_)
    BY DEF Scopes!RunsLastFirst, Armed
  <2> DEFINE top == Len(guards)
             c == guards[top].on_leave_
  <2>1. /\ top \in Nat \ {0} /\ DOMAIN guards = 1 .. top /\ guards[top] \in Armory
        /\ ran' = IF guards[top].empty_ THEN ran ELSE Append(ran, c)
    BY <1>2, WithoutLast DEF Scopes!Destruct, GuardsInv, GuardsTyped
  <2>2. CASE guards[top].empty_
    BY <2>1, <2>2
  <2>3. CASE ~guards[top].empty_
    <3>1. top \in DOMAIN guards /\ i # top
      BY <2>1
    <3>2. guards[i].on_leave_ # c
      BY <2>3, <3>1 DEF GuardsInv, HeldOnce, Armed
    <3>3. c \in Callbacks
      BY <2>1 DEF Armory
    <3> HIDE DEF top, c
    <3>4. /\ DOMAIN ran = 1 .. Len(ran) /\ Len(ran) \in Nat
          /\ ran' \in Seq(Callbacks) /\ DOMAIN ran' = 1 .. Len(ran) + 1
          /\ ran'[Len(ran) + 1] = c
          /\ \A n \in 1 .. Len(ran) : ran'[n] = ran[n]
      BY <2>1, <2>3, <3>3, Appended DEF GuardsInv, GuardsTyped
    <3>5. Len(ran') = Len(ran) + 1
      BY <3>4
    <3>6. PICK k \in 1 .. Len(ran) + 1 : ran'[k] = guards[i].on_leave_
      BY <3>5 DEF Scopes!Contains
    <3>7. k \in 1 .. Len(ran)
      BY <3>2, <3>4, <3>6
    <3> QED BY <3>4, <3>6, <3>7 DEF Scopes!Contains
  <2> QED BY <2>2, <2>3
<1> QED BY <1>1, <1>2 DEF Scopes!Next

\* However guards are moved around - none of them twice - each callback of an
\* OnScopeLeave runs exactly once, and the last guard's first.
THEOREM GuardsUndo == Spec => GuardsUndoOnce
<1>1. Spec => []Scopes!RunsExactlyOnce
  BY GuardsInvHolds, RunsOnceInEveryState, PTL
<1>2. Spec => [][Scopes!RunsLastFirst]_scopes
  BY GuardsInvHolds, LastRunsFirst, ScopesStep, PTL DEF Spec
<1> QED BY <1>1, <1>2, PTL DEF GuardsUndoOnce, Scopes!GuardsUndoOnce, Scopes!vars, scopes

-----------------------------------------------------------------------------
(* CallAndRethrow and PrintException: the whole context of what was thrown *)
(* is printed.                                                             *)

Levels == Messages \cup {unknown}
Lines == [depth : Nat, what : Levels]

LevelsTyped ==
  /\ frames \in Seq(Messages)
  /\ flight \in Seq(Levels) /\ printing \in Seq(Levels)
  /\ nesting_depth \in Nat
  /\ output \in Seq(Lines)
  /\ context \in Seq(Levels)

\* Only what was thrown can be something else than a std::exception, never what a
\* CallAndRethrow threw around it: it is the innermost level.
InnermostOnly(levels) == \A n \in 1 .. Len(levels) - 1 : levels[n] # unknown

\* The lines printed are the first levels of the context, one deeper each.
Printed == \A n \in 1 .. Len(output) : output[n] = Exceptions!Line(n - 1, context[n])

\* While an exception is on its way, the calls it has not left yet and the levels
\* it has got make up the context.
InFlight ==
  flight # <<>> =>
    /\ printing = <<>> /\ output = <<>> /\ InnermostOnly(flight)
    /\ Len(context) = Len(frames) + Len(flight)
    /\ \A n \in 1 .. Len(frames) : context[n] = frames[n]
    /\ \A n \in 1 .. Len(flight) : context[Len(frames) + n] = flight[n]

\* While it is printed, what was printed and what is left do.
InPrint ==
  printing # <<>> =>
    /\ flight = <<>> /\ InnermostOnly(printing)
    /\ nesting_depth = Len(output)
    /\ Len(context) = Len(output) + Len(printing)
    /\ \A n \in 1 .. Len(printing) : context[Len(output) + n] = printing[n]

Done == (printing = <<>> /\ output # <<>>) => Len(output) = Len(context)

LevelsInv == LevelsTyped /\ Printed /\ InFlight /\ InPrint /\ Done

\* A sequence of length zero is empty.
LEMMA EmptySequence ==
  ASSUME NEW S, NEW s \in Seq(S)
  PROVE  s = <<>> <=> Len(s) = 0
  OBVIOUS

\* A sequence without its first element.
LEMMA FirstLeaves ==
  ASSUME NEW S, NEW s \in Seq(S), s # <<>>
  PROVE  /\ Len(s) \in Nat \ {0} /\ s[1] \in S
         /\ Tail(s) \in Seq(S) /\ Len(Tail(s)) = Len(s) - 1
         /\ \A n \in 1 .. Len(s) - 1 : Tail(s)[n] = s[n + 1]
  OBVIOUS

\* A sequence without its last element, as a part of it.
LEMMA LastLeaves ==
  ASSUME NEW S, NEW s \in Seq(S), s # <<>>
  PROVE  /\ Len(s) \in Nat \ {0} /\ s[Len(s)] \in S
         /\ SubSeq(s, 1, Len(s) - 1) \in Seq(S)
         /\ Len(SubSeq(s, 1, Len(s) - 1)) = Len(s) - 1
         /\ \A n \in 1 .. Len(s) - 1 : SubSeq(s, 1, Len(s) - 1)[n] = s[n]
<1> DEFINE front == SubSeq(s, 1, Len(s) - 1)
<1>1. Len(s) \in Nat \ {0} /\ s[Len(s)] \in S /\ \A n \in 1 .. Len(s) - 1 : s[n] \in S
  OBVIOUS
<1>2. /\ front \in Seq(S)
      /\ Len(front) = IF 1 <= Len(s) - 1 THEN (Len(s) - 1) - 1 + 1 ELSE 0
      /\ \A n \in 1 .. (Len(s) - 1) - 1 + 1 : front[n] = s[1 + n - 1]
  <2>1. 1 \in Int /\ Len(s) - 1 \in Int
    BY <1>1
  <2> QED BY <1>1, <2>1, SubSeqProperties
<1> HIDE DEF front
<1>3. /\ Len(front) = Len(s) - 1
      /\ \A n \in 1 .. Len(s) - 1 : front[n] = s[n]
  <2>1. \A n \in 1 .. Len(s) - 1 : n \in 1 .. (Len(s) - 1) - 1 + 1 /\ 1 + n - 1 = n
    BY <1>1
  <2>2. Len(front) = Len(s) - 1
    <3>1. CASE Len(s) = 1
      <4>1. ~(1 <= Len(s) - 1) /\ Len(s) - 1 = 0
        BY <3>1
      <4> QED BY <1>2, <4>1
    <3>2. CASE Len(s) # 1
      <4>1. 1 <= Len(s) - 1 /\ (Len(s) - 1) - 1 + 1 = Len(s) - 1
        <5>1. \A k \in Nat \ {0} : k # 1 => 1 <= k - 1 /\ (k - 1) - 1 + 1 = k - 1
          OBVIOUS
        <5> QED BY <1>1, <3>2, <5>1, Zenon
      <4>2. Len(front) = (Len(s) - 1) - 1 + 1
        BY <1>2, <4>1
      <4> QED BY <4>1, <4>2
    <3> QED BY <3>1, <3>2
  <2>3. ASSUME NEW n \in 1 .. Len(s) - 1 PROVE front[n] = s[n]
    <3>1. front[n] = s[1 + n - 1]
      BY <1>2, <2>1
    <3> QED BY <2>1, <3>1
  <2> QED BY <2>2, <2>3
<1> QED BY <1>1, <1>2, <1>3 DEF front

\* Each level and each line keeps its place in the context.
LEMMA LevelsInvHolds == Spec => []LevelsInv
<1>0. Exceptions!ExceptionsAssumption
  BY CallablesAssumption
<1>1. Exceptions!Init => LevelsInv
  BY DEF Exceptions!Init, LevelsInv, LevelsTyped, Printed, InFlight, InPrint, Done
<1>2. LevelsInv /\ [Exceptions!Next]_exceptions => LevelsInv'
  <2> SUFFICES ASSUME LevelsInv, [Exceptions!Next]_exceptions PROVE LevelsInv'
    OBVIOUS
  <2> USE DEF LevelsInv, LevelsTyped
  <2>1. ASSUME NEW message \in Messages, Exceptions!Call(message) PROVE LevelsInv'
    BY <2>1 DEF Exceptions!Call, Exceptions!Running, Printed, InFlight, InPrint, Done
  <2>2. ASSUME Exceptions!Return PROVE LevelsInv'
    <3>1. SubSeq(frames, 1, Len(frames) - 1) \in Seq(Messages)
      BY <2>2, LastLeaves DEF Exceptions!Return
    <3> QED BY <2>2, <3>1 DEF Exceptions!Return, Exceptions!Running, Printed, InFlight, InPrint, Done
  <2>3. ASSUME NEW what \in Levels, Exceptions!Throw(what) PROVE LevelsInv'
    <3>1. /\ <<what>> \in Seq(Levels) /\ Len(<<what>>) = 1 /\ <<what>>[1] = what
          /\ Append(frames, what) \in Seq(Levels) /\ Len(Append(frames, what)) = Len(frames) + 1
          /\ Append(frames, what)[Len(frames) + 1] = what
          /\ \A n \in 1 .. Len(frames) : Append(frames, what)[n] = frames[n]
      BY DEF Levels
    <3> QED BY <2>3, <3>1 DEF Exceptions!Throw, Exceptions!Running, Printed, InFlight, InPrint, Done, InnermostOnly
  <2>4. ASSUME Exceptions!Rethrow PROVE LevelsInv'
    <3> DEFINE last == frames[Len(frames)]
               rest == SubSeq(frames, 1, Len(frames) - 1)
               levels == <<last>> \o flight
    <3>1. /\ Len(frames) \in Nat \ {0} /\ last \in Messages
          /\ rest \in Seq(Messages) /\ Len(rest) = Len(frames) - 1
          /\ \A n \in 1 .. Len(frames) - 1 : rest[n] = frames[n]
      BY <2>4, LastLeaves DEF Exceptions!Rethrow
    <3>2. /\ levels \in Seq(Levels) /\ Len(levels) = Len(flight) + 1 /\ levels[1] = last
          /\ \A n \in 2 .. Len(levels) : levels[n] = flight[n - 1]
      BY <3>1 DEF Levels
    <3>3. /\ flight # <<>> /\ flight' = levels /\ frames' = rest
          /\ UNCHANGED <<printing, nesting_depth, output, context>>
      BY <2>4 DEF Exceptions!Rethrow
    <3> HIDE DEF last, rest, levels
    <3>4. last # unknown
      BY <1>0, <3>1 DEF Exceptions!ExceptionsAssumption
    <3>5. InnermostOnly(levels)
      <4>1. InnermostOnly(flight) /\ Len(flight) \in Nat
        BY <3>3 DEF InFlight
      <4> SUFFICES ASSUME NEW n \in 1 .. Len(levels) - 1 PROVE levels[n] # unknown
        BY DEF InnermostOnly
      <4>2. CASE n = 1
        BY <3>2, <3>4, <4>2
      <4>3. CASE n # 1
        <5>1. n - 1 \in 1 .. Len(flight) - 1 /\ levels[n] = flight[n - 1]
          BY <3>2, <4>1, <4>3
        <5> QED BY <4>1, <5>1 DEF InnermostOnly
      <4> QED BY <4>2, <4>3
    <3>6. \A n \in 1 .. Len(levels) : context[Len(rest) + n] = levels[n]
      <4> TAKE n \in 1 .. Len(levels)
      <4>1. CASE n = 1
        BY <3>1, <3>2, <3>3, <4>1 DEF InFlight, last
      <4>2. CASE n # 1
        <5>1. n - 1 \in 1 .. Len(flight) /\ levels[n] = flight[n - 1]
          BY <3>2, <4>2
        <5>2. Len(rest) + n = Len(frames) + (n - 1)
          BY <3>1
        <5> QED BY <3>3, <5>1, <5>2 DEF InFlight
      <4> QED BY <4>1, <4>2
    <3>7. InFlight'
      <4>1. /\ printing' = <<>> /\ output' = <<>>
            /\ Len(context') = Len(frames) + Len(flight)
            /\ \A n \in 1 .. Len(frames) : context'[n] = frames[n]
        BY <3>3 DEF InFlight
      <4>2. Len(context') = Len(rest) + Len(levels)
        <5>1. Len(flight) \in Nat
          OBVIOUS
        <5> QED BY <3>1, <3>2, <4>1, <5>1
      <4>3. \A n \in 1 .. Len(rest) : context'[n] = rest[n]
        <5>1. \A n \in 1 .. Len(rest) : n \in 1 .. Len(frames) /\ rest[n] = frames[n]
          BY <3>1
        <5> QED BY <4>1, <5>1
      <4> QED BY <3>3, <3>5, <3>6, <4>1, <4>2, <4>3 DEF InFlight
    <3> QED BY <3>1, <3>2, <3>3, <3>7 DEF Printed, InFlight, InPrint, Done
  <2>5. ASSUME Exceptions!CatchAndPrint PROVE LevelsInv'
    <3>1. /\ Len(frames) \in Nat /\ Len(flight) \in Nat \ {0}
          /\ Len(context) = Len(frames) + Len(flight)
      BY <2>5 DEF Exceptions!CatchAndPrint, InFlight
    <3>2. /\ context' \in Seq(Levels) /\ Len(context') = Len(flight)
          /\ \A n \in 1 .. Len(flight) : context'[n] = context[Len(frames) + n]
      BY <2>5, <3>1 DEF Exceptions!CatchAndPrint
    <3> QED BY <2>5, <3>1, <3>2 DEF Exceptions!CatchAndPrint, Printed, InFlight, InPrint, Done
  <2>6. ASSUME NEW depth \in Nat, printing # <<>>,
               output' = Append(output, Exceptions!Line(nesting_depth, printing[1])),
               printing' = Tail(printing), nesting_depth' = depth,
               depth = nesting_depth + 1 \/ printing[1] = unknown,
               UNCHANGED <<frames, flight, context>>
        PROVE  LevelsInv'
    <3> DEFINE line == Exceptions!Line(nesting_depth, printing[1])
    <3>1. /\ Len(printing) \in Nat \ {0} /\ printing[1] \in Levels
          /\ printing' \in Seq(Levels) /\ Len(printing') = Len(printing) - 1
          /\ \A n \in 1 .. Len(printing) - 1 : printing'[n] = printing[n + 1]
      BY <2>6, FirstLeaves
    <3>2. line \in Lines
      BY <3>1 DEF Lines, Exceptions!Line
    <3> HIDE DEF line
    <3>3. /\ Len(output) \in Nat
          /\ output' \in Seq(Lines) /\ Len(output') = Len(output) + 1
          /\ output'[Len(output) + 1] = line
          /\ \A n \in 1 .. Len(output) : output'[n] = output[n]
      BY <2>6, <3>2 DEF line
    <3>4. /\ nesting_depth = Len(output) /\ flight = <<>>
          /\ Len(context) = Len(output) + Len(printing)
          /\ \A n \in 1 .. Len(printing) : context[Len(output) + n] = printing[n]
          /\ InnermostOnly(printing)
      BY <2>6 DEF InPrint
    <3>5. Printed'
      <4>1. line = Exceptions!Line(Len(output), context[Len(output) + 1])
        BY <3>1, <3>4 DEF line
      <4> SUFFICES ASSUME NEW n \in 1 .. Len(output') PROVE output'[n] = Exceptions!Line(n - 1, context[n])
        BY <2>6 DEF Printed
      <4>2. CASE n = Len(output) + 1
        BY <3>3, <4>1, <4>2
      <4>3. CASE n # Len(output) + 1
        <5>1. n \in 1 .. Len(output)
          BY <3>3, <4>3
        <5> QED BY <3>3, <5>1 DEF Printed
      <4> QED BY <4>2, <4>3
    <3>6. printing' # <<>> => printing[1] # unknown /\ InnermostOnly(printing')
      <4> SUFFICES ASSUME printing' # <<>> PROVE printing[1] # unknown /\ InnermostOnly(printing')
        OBVIOUS
      <4>1. Len(printing') \in Nat \ {0}
        BY <3>1, EmptySequence
      <4>2. printing[1] # unknown
        BY <3>1, <3>4, <4>1 DEF InnermostOnly
      <4>3. ASSUME NEW n \in 1 .. Len(printing') - 1 PROVE printing'[n] # unknown
        <5>1. n \in 1 .. Len(printing) - 1 /\ n + 1 \in 1 .. Len(printing) - 1
          BY <3>1, <4>1
        <5>2. printing'[n] = printing[n + 1]
          BY <3>1, <5>1
        <5> QED BY <3>4, <5>1, <5>2 DEF InnermostOnly
      <4> QED BY <4>2, <4>3 DEF InnermostOnly
    <3>7. \A n \in 1 .. Len(printing') : context[Len(output') + n] = printing'[n]
      <4> TAKE n \in 1 .. Len(printing')
      <4>1. n + 1 \in 1 .. Len(printing) /\ printing'[n] = printing[n + 1]
        BY <3>1
      <4>2. Len(output') + n = Len(output) + (n + 1)
        BY <3>3
      <4> QED BY <3>4, <4>1, <4>2
    <3>8. InPrint'
      BY <2>6, <3>1, <3>3, <3>4, <3>6, <3>7 DEF InPrint
    <3>9. Done'
      <4>1. printing' = <<>> => Len(printing') = 0
        OBVIOUS
      <4> QED BY <2>6, <3>1, <3>3, <3>4, <4>1 DEF Done
    <3> QED BY <2>6, <3>1, <3>3, <3>4, <3>5, <3>8, <3>9 DEF InFlight
  <2>7. ASSUME Exceptions!PrintLevel PROVE LevelsInv'
    <3>1. nesting_depth + 1 \in Nat
      OBVIOUS
    <3> QED BY <2>6, <2>7, <3>1 DEF Exceptions!PrintLevel
  <2>8. ASSUME Exceptions!PrintUnknown PROVE LevelsInv'
    BY <2>6, <2>8 DEF Exceptions!PrintUnknown
  <2>9. CASE UNCHANGED exceptions
    BY <2>9 DEF exceptions, Printed, InFlight, InPrint, Done
  <2> QED BY <2>1, <2>2, <2>3, <2>4, <2>5, <2>7, <2>8, <2>9 DEF Exceptions!Next, Levels
<1>3. Init => Exceptions!Init
  BY DEF Init
<1>4. [Next]_vars => [Exceptions!Next]_exceptions
  BY DEF Next, vars, exceptions
<1> QED BY <1>1, <1>2, <1>3, <1>4, PTL DEF Spec

\* Whatever is thrown however deep, what is printed names every call between the
\* handler and the throw, outermost first, each once and one level deeper than the
\* one before, and last the cause.
THEOREM EveryLevelIsPrinted == Spec => []PrintsEveryLevel
<1>1. LevelsInv => PrintsEveryLevel
  <2> SUFFICES ASSUME LevelsInv, printing = <<>>, output # <<>>
               PROVE  output = [n \in 1 .. Len(context) |-> Exceptions!Line(n - 1, context[n])]
    BY DEF PrintsEveryLevel, Exceptions!PrintsEveryLevel
  <2>1. output \in Seq(Lines) /\ Len(output) = Len(context) /\ DOMAIN output = 1 .. Len(context)
    BY DEF LevelsInv, LevelsTyped, Done
  <2>2. \A n \in 1 .. Len(context) : output[n] = Exceptions!Line(n - 1, context[n])
    BY <2>1 DEF LevelsInv, Printed
  <2>3. output = [n \in DOMAIN output |-> output[n]]
    BY <2>1
  <2> QED BY <2>1, <2>2, <2>3
<1> QED BY <1>1, LevelsInvHolds, PTL

-----------------------------------------------------------------------------
(* Delegate.                                                               *)

\* What the delegates do in a behaviour of the whole is a behaviour of theirs.
LEMMA DelegationBehaves == Spec => Delegation!Init /\ [][Delegation!Next]_delegation
<1>1. Init => Delegation!Init
  BY DEF Init
<1>2. [Next]_vars => [Delegation!Next]_delegation
  BY DEF Next, vars, delegation
<1> QED BY <1>1, <1>2, PTL DEF Spec

Thunks == Functions \cup Methods \cup {nullptr}
Instances == Objects \cup {nullptr}
Pairs == [function : Thunks, instance : Instances]

DelegatesTyped ==
  /\ instance_ \in [Delegates -> Instances]
  /\ function_ \in [Delegates -> Thunks]
  /\ alive \in SUBSET Objects
  /\ calls \in Seq(Pairs)

\* The delegates keep their types.
LEMMA DelegatesStayTyped == Spec => []DelegatesTyped
<1>1. Delegation!Init => DelegatesTyped
  BY DEF Delegation!Init, DelegatesTyped, Thunks, Instances
<1>2. DelegatesTyped /\ [Delegation!Next]_delegation => DelegatesTyped'
  <2> SUFFICES ASSUME DelegatesTyped, [Delegation!Next]_delegation PROVE DelegatesTyped'
    OBVIOUS
  <2> USE DEF DelegatesTyped, Thunks, Instances
  <2>1. ASSUME NEW d \in Delegates, NEW fn \in Functions, Delegation!BindFunction(d, fn) PROVE DelegatesTyped'
    BY <2>1 DEF Delegation!BindFunction
  <2>2. ASSUME NEW d \in Delegates, NEW object \in Objects, NEW method \in Methods,
               Delegation!BindMethod(d, object, method)
        PROVE  DelegatesTyped'
    BY <2>2 DEF Delegation!BindMethod
  <2>3. ASSUME NEW d \in Delegates, Delegation!Reset(d) PROVE DelegatesTyped'
    BY <2>3 DEF Delegation!Reset
  <2>4. ASSUME NEW d \in Delegates, NEW from \in Delegates, Delegation!Copy(d, from) PROVE DelegatesTyped'
    BY <2>4 DEF Delegation!Copy
  <2>5. ASSUME NEW d \in Delegates, Delegation!Invoke(d) PROVE DelegatesTyped'
    <3>1. [function |-> function_[d], instance |-> instance_[d]] \in Pairs
      BY DEF Pairs
    <3> QED BY <2>5, <3>1 DEF Delegation!Invoke, Delegation!Pair
  <2>6. ASSUME Delegation!Return PROVE DelegatesTyped'
    <3>1. Len(calls) \in Nat /\ Len(calls) # 0
      BY <2>6 DEF Delegation!Return
    <3>2. SubSeq(calls, 1, Len(calls) - 1) \in Seq(Pairs)
      BY <3>1
    <3> QED BY <2>6, <3>2 DEF Delegation!Return
  <2>7. ASSUME NEW object \in Objects, Delegation!Destroy(object) PROVE DelegatesTyped'
    BY <2>7 DEF Delegation!Destroy
  <2>8. CASE UNCHANGED delegation
    BY <2>8 DEF delegation
  <2> QED BY <2>1, <2>2, <2>3, <2>4, <2>5, <2>6, <2>7, <2>8 DEF Delegation!Next
<1> QED BY <1>1, <1>2, DelegationBehaves, PTL

-----------------------------------------------------------------------------
\* No delegate and no call in progress joins a thunk to an object of another class,
\* to none, or to one destroyed: whatever is bound, copied, reset or invoked from
\* inside a call.
THEOREM ThunksMatch == Spec => []ThunkMatchesInstance
<1>0. Delegation!DelegateAssumption
  BY CallablesAssumption
<1> USE DEF ThunkMatchesInstance
<1>1. Delegation!Init => Delegation!ThunkMatchesInstance
  BY <1>0 DEF Delegation!Init, Delegation!ThunkMatchesInstance, Delegation!WellTyped,
              Delegation!Pair, Delegation!DelegateAssumption
<1>2. DelegatesTyped /\ Delegation!ThunkMatchesInstance /\ [Delegation!Next]_delegation
        => Delegation!ThunkMatchesInstance'
  <2> SUFFICES ASSUME DelegatesTyped, Delegation!ThunkMatchesInstance, [Delegation!Next]_delegation
               PROVE  Delegation!ThunkMatchesInstance'
    OBVIOUS
  <2> USE DEF DelegatesTyped, Delegation!ThunkMatchesInstance, Delegation!WellTyped, Delegation!Pair
  <2>1. ASSUME NEW d \in Delegates, NEW fn \in Functions, Delegation!BindFunction(d, fn)
        PROVE  Delegation!ThunkMatchesInstance'
    BY <1>0, <2>1 DEF Delegation!BindFunction, Delegation!DelegateAssumption
  <2>2. ASSUME NEW d \in Delegates, NEW object \in Objects, NEW method \in Methods,
               Delegation!BindMethod(d, object, method)
        PROVE  Delegation!ThunkMatchesInstance'
    BY <2>2 DEF Delegation!BindMethod
  <2>3. ASSUME NEW d \in Delegates, Delegation!Reset(d) PROVE Delegation!ThunkMatchesInstance'
    BY <1>0, <2>3 DEF Delegation!Reset, Delegation!DelegateAssumption
  <2>4. ASSUME NEW d \in Delegates, NEW from \in Delegates, Delegation!Copy(d, from)
        PROVE  Delegation!ThunkMatchesInstance'
    BY <2>4 DEF Delegation!Copy
  <2>5. ASSUME NEW d \in Delegates, Delegation!Invoke(d) PROVE Delegation!ThunkMatchesInstance'
    BY <2>5 DEF Delegation!Invoke
  <2>6. ASSUME Delegation!Return PROVE Delegation!ThunkMatchesInstance'
    <3>1. Len(calls) \in Nat /\ Len(calls) # 0
      BY <2>6 DEF Delegation!Return
    <3>2. \A n \in DOMAIN calls' : n \in DOMAIN calls /\ calls'[n] = calls[n]
      BY <2>6, <3>1 DEF Delegation!Return
    <3> QED BY <2>6, <3>2 DEF Delegation!Return
  <2>7. ASSUME NEW object \in Objects, Delegation!Destroy(object) PROVE Delegation!ThunkMatchesInstance'
    <3>1. \A d \in Delegates : function_[d] \in Methods => instance_[d] # object
      BY <1>0, <2>7 DEF Delegation!Destroy, Delegation!BoundTo, Delegation!DelegateAssumption
    <3> QED BY <2>7, <3>1 DEF Delegation!Destroy
  <2>8. CASE UNCHANGED delegation
    BY <2>8 DEF delegation
  <2> QED BY <2>1, <2>2, <2>3, <2>4, <2>5, <2>6, <2>7, <2>8 DEF Delegation!Next
<1> QED BY <1>1, <1>2, DelegatesStayTyped, DelegationBehaves, PTL
-----------------------------------------------------------------------------
\* What a delegate is bound to, as the abstract specification has it.
TargetOf(d) == Delegation!Pair(function_[d], instance_[d])

\* A delegate is bound to a function, to a method with an object, or to nothing.
HoldsTarget == \A d \in Delegates : TargetOf(d) \in Delegation!Targets \cup {Delegation!Unbound}

\* Only whole targets are ever put into a delegate, copies included.
LEMMA AlwaysATarget == Spec => []HoldsTarget
<1> USE DEF HoldsTarget, TargetOf
<1>1. Delegation!Init => HoldsTarget
  BY DEF Delegation!Init, Delegation!Unbound
<1>2. DelegatesTyped /\ HoldsTarget /\ [Delegation!Next]_delegation => HoldsTarget'
  <2> SUFFICES ASSUME DelegatesTyped, HoldsTarget, [Delegation!Next]_delegation PROVE HoldsTarget'
    BY Zenon
  <2> USE DEF DelegatesTyped
  <2>1. ASSUME NEW d \in Delegates, NEW fn \in Functions, Delegation!BindFunction(d, fn) PROVE HoldsTarget'
    <3>1. Delegation!Pair(fn, nullptr) \in Delegation!Targets
      BY DEF Delegation!Targets
    <3> QED BY <2>1, <3>1 DEF Delegation!BindFunction
  <2>2. ASSUME NEW d \in Delegates, NEW object \in Objects, NEW method \in Methods,
               Delegation!BindMethod(d, object, method)
        PROVE  HoldsTarget'
    <3>1. Delegation!Pair(method, object) \in Delegation!Targets
      BY DEF Delegation!Targets
    <3> QED BY <2>2, <3>1 DEF Delegation!BindMethod
  <2>3. ASSUME NEW d \in Delegates, Delegation!Reset(d) PROVE HoldsTarget'
    BY <2>3 DEF Delegation!Reset, Delegation!Unbound
  <2>4. ASSUME NEW d \in Delegates, NEW from \in Delegates, Delegation!Copy(d, from) PROVE HoldsTarget'
    BY <2>4 DEF Delegation!Copy
  <2>5. CASE \/ \E d \in Delegates : Delegation!Invoke(d)
             \/ Delegation!Return
             \/ \E object \in Objects : Delegation!Destroy(object)
             \/ UNCHANGED delegation
    BY <2>5 DEF Delegation!Invoke, Delegation!Return, Delegation!Destroy, delegation
  <2> QED BY <2>1, <2>2, <2>3, <2>4, <2>5 DEF Delegation!Next
<1> QED BY <1>1, <1>2, DelegatesStayTyped, DelegationBehaves, PTL

\* The targets of all delegates, as the abstract specification has them.
Held == [d \in Delegates |-> Delegation!Pair(function_[d], instance_[d])]

\* A step that puts a target into one delegate and leaves the others alone.
LEMMA PutsATarget ==
  ASSUME NEW d \in Delegates, NEW t, TargetOf(d)' = t,
         \A other \in Delegates \ {d} : TargetOf(other)' = TargetOf(other)
  PROVE  Held' = [Held EXCEPT ![d] = t]
BY DEF Held, TargetOf

\* Every request to a delegate does what it says, from inside a call too, and a call
\* keeps the target it began with: every step of Delegate is the step of BoundTarget
\* for the same request, or leaves its variables unchanged.
THEOREM DelegatesHoldOneTarget == Spec => HoldsOneTarget
<1>1. Delegation!Init => Delegation!Promise!Init
  BY DEF Delegation!Init, Delegation!Promise!Init, Delegation!Pair, Delegation!Unbound
<1>2. DelegatesTyped /\ HoldsTarget /\ [Delegation!Next]_delegation
        => [Delegation!Promise!Next]_<<Held, calls, request>>
  <2> SUFFICES ASSUME DelegatesTyped, HoldsTarget, [Delegation!Next]_delegation
               PROVE  Delegation!Promise!Next \/ UNCHANGED <<Held, calls, request>>
    OBVIOUS
  <2> USE DEF DelegatesTyped
  <2>1. ASSUME NEW d \in Delegates, NEW fn \in Functions, Delegation!BindFunction(d, fn) PROVE Delegation!Promise!Next
    <3>1. Delegation!Pair(fn, nullptr) \in Delegation!Targets
      BY DEF Delegation!Targets
    <3>2. Held' = [Held EXCEPT ![d] = Delegation!Pair(fn, nullptr)]
      BY <2>1, PutsATarget DEF Delegation!BindFunction, TargetOf
    <3>3. Delegation!Promise!Bind(d, Delegation!Pair(fn, nullptr))
      BY <2>1, <3>2, Zenon DEF Delegation!BindFunction, Delegation!Promise!Bind, Held
    <3> QED BY <3>1, <3>3 DEF Delegation!Promise!Next
  <2>2. ASSUME NEW d \in Delegates, NEW object \in Objects, NEW method \in Methods,
               Delegation!BindMethod(d, object, method)
        PROVE  Delegation!Promise!Next
    <3>1. Delegation!Pair(method, object) \in Delegation!Targets
      BY DEF Delegation!Targets
    <3>2. Held' = [Held EXCEPT ![d] = Delegation!Pair(method, object)]
      BY <2>2, PutsATarget DEF Delegation!BindMethod, TargetOf
    <3>3. Delegation!Promise!Bind(d, Delegation!Pair(method, object))
      BY <2>2, <3>2, Zenon DEF Delegation!BindMethod, Delegation!Promise!Bind, Held
    <3> QED BY <3>1, <3>3 DEF Delegation!Promise!Next
  <2>3. ASSUME NEW d \in Delegates, Delegation!Reset(d) PROVE Delegation!Promise!Next
    <3>1. Held' = [Held EXCEPT ![d] = Delegation!Unbound]
      BY <2>3, PutsATarget DEF Delegation!Reset, TargetOf, Delegation!Unbound
    <3>2. Delegation!Promise!Reset(d)
      BY <2>3, <3>1, Zenon DEF Delegation!Reset, Delegation!Promise!Reset, Held
    <3> QED BY <3>2 DEF Delegation!Promise!Next
  <2>4. ASSUME NEW d \in Delegates, NEW from \in Delegates, Delegation!Copy(d, from) PROVE Delegation!Promise!Next
    <3>1. Held' = [Held EXCEPT ![d] = TargetOf(from)]
      BY <2>4, PutsATarget DEF Delegation!Copy, TargetOf
    <3>2. TargetOf(from) = Held[from]
      BY DEF TargetOf, Held
    <3>3. Delegation!Promise!Copy(d, from)
      BY <2>4, <3>1, <3>2, Zenon DEF Delegation!Copy, Delegation!Promise!Copy, Held
    <3> QED BY <3>3 DEF Delegation!Promise!Next
  <2>5. ASSUME NEW d \in Delegates, Delegation!Invoke(d) PROVE Delegation!Promise!Next
    <3>1. TargetOf(d) # Delegation!Unbound
      BY <2>5 DEF Delegation!Invoke, Delegation!IsBound, TargetOf, Delegation!Pair, Delegation!Unbound
    <3>2. Delegation!Promise!Invoke(d)
      BY <2>5, <3>1 DEF Delegation!Invoke, Delegation!Promise!Invoke, TargetOf, Delegation!Pair
    <3> QED BY <3>2 DEF Delegation!Promise!Next
  <2>6. ASSUME Delegation!Return PROVE Delegation!Promise!Next
    BY <2>6 DEF Delegation!Return, Delegation!Promise!Return, Delegation!Promise!Next
  <2>7. CASE (\E object \in Objects : Delegation!Destroy(object)) \/ UNCHANGED delegation
    BY <2>7 DEF Delegation!Destroy, delegation, Held
  <2> QED BY <2>1, <2>2, <2>3, <2>4, <2>5, <2>6, <2>7 DEF Delegation!Next
<1>3. DelegatesTyped /\ HoldsTarget /\ [Delegation!Next]_delegation
        => [Delegation!Promise!Next]_<<[d \in Delegates |-> Delegation!Pair(function_[d], instance_[d])], calls, request>>
  BY <1>2, Zenon DEF Held
<1> QED BY <1>1, <1>3, DelegatesStayTyped, AlwaysATarget, DelegationBehaves, PTL
        DEF HoldsOneTarget, Delegation!HoldsOneTarget, Delegation!Promise!Spec

-----------------------------------------------------------------------------
(* The call helpers, which are Helpers in Callables.                       *)

\* The operators on sets and sequences they use are the common ones.
LEMMA HelperOperators ==
  ASSUME NEW S, NEW s
  PROVE  /\ Helpers!Cardinality(S) = Cardinality(S)
         /\ Helpers!Last(s) = s[Len(s)]
<1>1. Helpers!Cardinality(S) = Cardinality(S)
  BY Zenon DEF Helpers!Cardinality, Cardinality
<1>2. Helpers!Last(s) = s[Len(s)]
  BY DEF Helpers!Last
<1> QED BY <1>1, <1>2

\* What can be passed to a function, and what a call of it leaves behind.
Passed == Int \cup (Int \X Int) \cup Results \cup {none, thrown}
Made == [argument : Passed, result : Results \cup {none, thrown}, began : Nat, ended : Nat]

Wraps == helper.name = "WrapFunction"
Measures == helper.name \in {"MeasureTime", "MeasureTime_AlwaysReturn"}
Threw == made # <<>> /\ made[Len(made)].result = thrown

\* What the helper was asked to call the function with, one after the other.
Asked ==
  CASE helper.name = "StaticFor" ->
         [n \in 1 .. helper.with[2] - helper.with[1] |-> helper.with[1] + n - 1]
    [] helper.name = "ArrayIndices2d" -> Helpers!ArrayIndices2d(helper.with[1], helper.with[2])
    [] OTHER -> helper.with

Request ==
  CASE helper.name = "none" -> helper = Helpers!Idle /\ pending = <<>> /\ made = <<>> /\ returned = <<>>
    [] helper.name = "StaticFor" ->
         /\ helper.with[1] \in Helpers!Sizes /\ helper.with[2] \in Helpers!Sizes
         /\ helper.with[1] <= helper.with[2]
    [] helper.name = "ArrayIndices2d" -> helper.with[1] \in Helpers!Sizes /\ helper.with[2] \in Helpers!Sizes
    [] helper.name = "CallForEachArg" -> TRUE
    [] OTHER -> (Wraps \/ Measures) /\ \E arg \in Results : helper.with = <<arg>>

HelpersTyped ==
  /\ pending \in Seq(Passed) /\ made \in Seq(Made) /\ Asked \in Seq(Passed)
  /\ clock \in Nat /\ t0 \in Nat
  /\ Request

\* An exception is the end.
OneThrow ==
  \A n \in 1 .. Len(made) : made[n].result = thrown => n = Len(made) /\ pending = <<>> /\ returned = <<>>

\* What was called and what is left are what was asked for.
CalledInOrder ==
  ~Wraps =>
    /\ Len(made) <= Len(Asked)
    /\ \A n \in 1 .. Len(made) : made[n].argument = Asked[n]
    /\ ~Threw => /\ Len(made) + Len(pending) = Len(Asked)
                 /\ \A n \in 1 .. Len(pending) : pending[n] = Asked[Len(made) + n]

\* The wrapper is called with what the target returned.
WrapperLast ==
  Wraps =>
    \/ made = <<>> /\ pending = helper.with
    \/ /\ Len(made) = 1 /\ made[1].argument = helper.with[1]
       /\ ~Threw => pending = <<made[1].result>>
    \/ /\ Len(made) = 2 /\ pending = <<>>
       /\ made[1].argument = helper.with[1] /\ made[2].argument = made[1].result

\* The clock is read before the call and after it.
Clocked ==
  Measures =>
    \/ made = <<>> /\ clock = t0
    \/ Len(made) = 1 /\ made[1].began = t0 /\ made[1].ended = clock /\ t0 <= clock

Answered ==
  returned # <<>> =>
    /\ helper # Helpers!Idle /\ pending = <<>> /\ ~Threw
    /\ Measures => returned = <<Helpers!Measured>>
    /\ Wraps => returned = <<made[Len(made)].result>>

HelpersInv == HelpersTyped /\ OneThrow /\ CalledInOrder /\ WrapperLast /\ Clocked /\ Answered

LEMMA HelpersConstants ==
  /\ thrown \notin Results /\ none \notin Results /\ thrown # none
  /\ SizeT \in Nat \ {0} /\ Period \in Nat \ {0}
  /\ MaxSize \in 0 .. SizeT - 1 /\ MaxArgs \in Nat /\ MaxTicks \in Nat /\ Helpers!Sizes = 0 .. MaxSize
  BY CallablesAssumption DEF Helpers!HelpersAssumption, Helpers!Sizes

\* The pairs are one for each number below the product of the sizes, as size_t has it.
LEMMA PairsOfIndices ==
  ASSUME NEW rows \in Nat, NEW columns \in Nat
  PROVE  /\ (rows * columns) % SizeT \in Nat
         /\ Helpers!ArrayIndices2d(rows, columns) \in Seq(Passed)
         /\ Len(Helpers!ArrayIndices2d(rows, columns)) = (rows * columns) % SizeT
         /\ \A n \in 1 .. (rows * columns) % SizeT :
              Helpers!ArrayIndices2d(rows, columns)[n] = <<(n - 1) \div columns, (n - 1) % columns>>
<1> DEFINE product == rows * columns
           count == product % SizeT
<1>1. product \in Nat
  OBVIOUS
<1> HIDE DEF product
<1>2. count \in Nat /\ (columns = 0 => count = 0)
  <2>1. SizeT \in Nat \ {0}
    BY HelpersConstants
  <2>2. product % SizeT \in Nat /\ 0 % SizeT = 0
    BY <1>1, <2>1
  <2>3. columns = 0 => product = 0
    BY DEF product
  <2> QED BY <2>2, <2>3
<1> HIDE DEF count
<1>3. ASSUME NEW n \in 1 .. count PROVE <<(n - 1) \div columns, (n - 1) % columns>> \in Passed
  <2>1. columns \in Nat \ {0} /\ n - 1 \in Nat
    BY <1>2, <1>3
  <2>2. (n - 1) \div columns \in Int /\ (n - 1) % columns \in Int
    BY <2>1
  <2> QED BY <2>2 DEF Passed
<1>4. Helpers!ArrayIndices2d(rows, columns) = [n \in 1 .. count |-> <<(n - 1) \div columns, (n - 1) % columns>>]
  BY DEF Helpers!ArrayIndices2d, Helpers!IndexPair, count, product
<1>5. [n \in 1 .. count |-> <<(n - 1) \div columns, (n - 1) % columns>>] \in [1 .. count -> Passed]
  BY <1>3
<1> DEFINE list == Helpers!ArrayIndices2d(rows, columns)
<1>6. list \in Seq(Passed) /\ Len(list) = count
  <2>1. list \in [1 .. count -> Passed]
    BY <1>4, <1>5
  <2> HIDE DEF list
  <2> QED BY <1>2, <2>1
<1> QED BY <1>2, <1>4, <1>6 DEF count, product

\* A helper that begins has made no call and has all of them to make.
LEMMA BeginKeeps ==
  ASSUME HelpersInv, helper = Helpers!Idle, UNCHANGED <<made, clock, returned>>, t0' = clock,
         pending' = Asked', Asked' \in Seq(Passed), Request', helper'.name # "none",
         Wraps' => Asked' = helper'.with
  PROVE  HelpersInv'
<1>1. made = <<>> /\ returned = <<>> /\ clock \in Nat
  BY DEF HelpersInv, HelpersTyped, Request, Helpers!Idle
<1>2. made' = <<>> /\ returned' = <<>> /\ Len(made') = 0 /\ 1 .. Len(made') = {} /\ Len(Asked') \in Nat
  BY <1>1
<1>3. HelpersTyped'
  BY <1>1, <1>2 DEF HelpersInv, HelpersTyped
<1>4. OneThrow'
  BY <1>2 DEF OneThrow
<1>5. CalledInOrder'
  BY <1>2 DEF CalledInOrder
<1>6. WrapperLast' /\ Clocked' /\ Answered'
  BY <1>2 DEF WrapperLast, Clocked, Answered
<1> QED BY <1>3, <1>4, <1>5, <1>6 DEF HelpersInv

LEMMA StaticForKeeps ==
  ASSUME HelpersInv, NEW a \in Helpers!Sizes, NEW b \in Helpers!Sizes, Helpers!StaticFor(a, b)
  PROVE  HelpersInv'
<1>1. /\ a <= b /\ helper = Helpers!Idle /\ helper' = [name |-> "StaticFor", with |-> <<a, b>>]
      /\ pending' = [n \in 1 .. b - a |-> a + n - 1] /\ t0' = clock /\ UNCHANGED <<made, clock, returned>>
  BY DEF Helpers!StaticFor, Helpers!Begin
<1>2. a \in Nat /\ b \in Nat
  BY HelpersConstants
<1>3. Asked' = [n \in 1 .. b - a |-> a + n - 1]
  BY <1>1 DEF Asked
<1>4. Asked' \in Seq(Passed)
  <2> DEFINE list == [n \in 1 .. b - a |-> a + n - 1]
             count == b - a
  <2>1. list \in [1 .. count -> Passed]
    BY <1>2 DEF Passed
  <2>2. count \in Nat
    BY <1>1, <1>2
  <2> HIDE DEF list, count
  <2>3. list \in Seq(Passed)
    BY <2>1, <2>2
  <2> QED BY <1>3, <2>3 DEF list
<1>5. Request' /\ helper'.name # "none" /\ ~Wraps'
  BY <1>1 DEF Request, Wraps
<1> QED BY <1>1, <1>3, <1>4, <1>5, BeginKeeps

LEMMA PairsKeep ==
  ASSUME HelpersInv, NEW a \in Helpers!Sizes, NEW b \in Helpers!Sizes, Helpers!ForEachIndexPair(a, b)
  PROVE  HelpersInv'
<1>1. /\ helper = Helpers!Idle /\ helper' = [name |-> "ArrayIndices2d", with |-> <<a, b>>]
      /\ pending' = Helpers!ArrayIndices2d(a, b) /\ t0' = clock /\ UNCHANGED <<made, clock, returned>>
  BY DEF Helpers!ForEachIndexPair, Helpers!Begin
<1>2. a \in Nat /\ b \in Nat
  BY HelpersConstants
<1>3. Asked' = Helpers!ArrayIndices2d(a, b)
  BY <1>1 DEF Asked
<1>4. Asked' \in Seq(Passed)
  BY <1>2, <1>3, PairsOfIndices
<1>5. Request' /\ helper'.name # "none" /\ ~Wraps'
  BY <1>1 DEF Request, Wraps
<1> QED BY <1>1, <1>3, <1>4, <1>5, BeginKeeps

LEMMA ForEachArgKeeps ==
  ASSUME HelpersInv, NEW args \in Helpers!SeqOf(Results, MaxArgs), Helpers!CallForEachArg(args)
  PROVE  HelpersInv'
<1>1. /\ helper = Helpers!Idle /\ helper' = [name |-> "CallForEachArg", with |-> args]
      /\ pending' = args /\ t0' = clock /\ UNCHANGED <<made, clock, returned>>
  BY DEF Helpers!CallForEachArg, Helpers!Begin
<1>2. PICK n \in 0 .. MaxArgs : args \in [1 .. n -> Results]
  BY DEF Helpers!SeqOf
<1>3. args \in Seq(Passed)
  <2>1. n \in Nat /\ args \in [1 .. n -> Passed]
    BY <1>2, HelpersConstants DEF Passed
  <2> QED BY <2>1
<1>4. Asked' = args
  BY <1>1 DEF Asked
<1>5. Request' /\ helper'.name # "none" /\ ~Wraps'
  BY <1>1 DEF Request, Wraps
<1> QED BY <1>1, <1>3, <1>4, <1>5, BeginKeeps

LEMMA OneCallKeeps ==
  ASSUME HelpersInv, NEW arg \in Results,
         Helpers!WrapFunction(arg) \/ Helpers!MeasureTime(arg) \/ Helpers!MeasureTime_AlwaysReturn(arg)
  PROVE  HelpersInv'
<1>1. PICK name \in {"WrapFunction", "MeasureTime", "MeasureTime_AlwaysReturn"} :
        /\ helper = Helpers!Idle /\ helper' = [name |-> name, with |-> <<arg>>]
        /\ pending' = <<arg>> /\ t0' = clock /\ UNCHANGED <<made, clock, returned>>
  BY DEF Helpers!WrapFunction, Helpers!MeasureTime, Helpers!MeasureTime_AlwaysReturn, Helpers!Begin
<1>2. Asked' = <<arg>> /\ helper'.with = <<arg>> /\ helper'.name = name
  BY <1>1 DEF Asked
<1>3. <<arg>> \in Seq(Passed)
  BY DEF Passed
<1>4. Request' /\ helper'.name # "none"
  BY <1>1, <1>2 DEF Request, Wraps, Measures
<1> QED BY <1>1, <1>2, <1>3, <1>4, BeginKeeps

\* What a call adds to the calls made, and what it leaves of those pending.
LEMMA OneMore ==
  ASSUME HelpersTyped, NEW r \in Results \cup {none, thrown}, NEW ticks \in 0 .. MaxTicks, Helpers!Invoke(r, ticks)
  PROVE  /\ Len(made) \in Nat /\ Len(made') = Len(made) + 1 /\ made' # <<>>
         /\ \A n \in 1 .. Len(made) : made'[n] = made[n]
         /\ made'[Len(made) + 1].argument = pending[1] /\ made'[Len(made) + 1].result = r
         /\ made'[Len(made) + 1].began = clock /\ made'[Len(made) + 1].ended = clock'
         /\ pending # <<>> /\ Len(pending) \in Nat \ {0} /\ pending[1] \in Passed
         /\ UNCHANGED <<helper, t0, returned>>
         /\ HelpersTyped'
         /\ pending' = Helpers!Left(r)
<1> DEFINE call == [argument |-> Head(pending), result |-> r, began |-> clock, ended |-> clock']
<1>1. /\ pending # <<>> /\ clock' = clock + ticks /\ made' = Append(made, call)
      /\ pending' = Helpers!Left(r) /\ UNCHANGED <<helper, t0, returned>>
  BY DEF Helpers!Invoke
<1>2. pending \in Seq(Passed) /\ made \in Seq(Made) /\ clock \in Nat
  BY DEF HelpersTyped
<1>3. ticks \in Nat
  BY HelpersConstants
<1>4. Head(pending) = pending[1] /\ pending[1] \in Passed /\ Len(pending) \in Nat \ {0} /\ Tail(pending) \in Seq(Passed)
  BY <1>1, <1>2
<1>5. call \in Made
  BY <1>1, <1>2, <1>3, <1>4 DEF Made
<1>6. /\ call.argument = pending[1] /\ call.result = r /\ call.began = clock /\ call.ended = clock'
  BY <1>4
<1> HIDE DEF call
<1>7. /\ made' \in Seq(Made) /\ Len(made) \in Nat /\ Len(made') = Len(made) + 1
      /\ made'[Len(made) + 1] = call /\ \A n \in 1 .. Len(made) : made'[n] = made[n]
  <2>1. /\ Append(made, call) \in Seq(Made) /\ Len(made) \in Nat /\ DOMAIN Append(made, call) = 1 .. Len(made) + 1
        /\ Append(made, call)[Len(made) + 1] = call /\ \A n \in 1 .. Len(made) : Append(made, call)[n] = made[n]
    BY <1>2, <1>5, Appended
  <2>2. Len(Append(made, call)) = Len(made) + 1
    BY <1>2, <1>5
  <2> QED BY <1>1, <2>1, <2>2
<1>8. made' # <<>>
  BY <1>7
<1>9. pending' \in Seq(Passed)
  <2>1. <<>> \in Seq(Passed) /\ <<r>> \in Seq(Passed)
    BY DEF Passed
  <2>2. Helpers!Left(r) \in {<<>>, <<r>>, Tail(pending)}
    BY DEF Helpers!Left
  <2> QED BY <1>1, <1>4, <2>1, <2>2
<1>10. Asked' = Asked
  BY <1>1 DEF Asked
<1>11. Request'
  <2>1. helper.name # "none"
    BY <1>1 DEF HelpersTyped, Request
  <2> QED BY <1>1, <2>1 DEF HelpersTyped, Request, Wraps, Measures
<1>12. HelpersTyped'
  BY <1>1, <1>2, <1>3, <1>7, <1>9, <1>10, <1>11 DEF HelpersTyped
<1> QED BY <1>1, <1>4, <1>6, <1>7, <1>8, <1>12

\* One call.
LEMMA InvokeKeeps ==
  ASSUME HelpersInv, NEW r \in Results \cup {none, thrown}, NEW ticks \in 0 .. MaxTicks, Helpers!Invoke(r, ticks)
  PROVE  HelpersInv'
<1> DEFINE count == Len(made)
<1>1. /\ count \in Nat /\ Len(made') = count + 1 /\ made' # <<>>
      /\ \A n \in 1 .. count : made'[n] = made[n]
      /\ made'[count + 1].argument = pending[1] /\ made'[count + 1].result = r
      /\ made'[count + 1].began = clock /\ made'[count + 1].ended = clock'
      /\ pending # <<>> /\ Len(pending) \in Nat \ {0}
      /\ UNCHANGED <<helper, t0, returned>>
      /\ HelpersTyped'
      /\ pending' = Helpers!Left(r)
  BY OneMore DEF HelpersInv
<1>2. clock' = clock + ticks /\ clock \in Nat /\ ticks \in Nat /\ pending \in Seq(Passed) /\ made \in Seq(Made)
  BY HelpersConstants DEF HelpersInv, HelpersTyped, Helpers!Invoke
<1>3. returned = <<>> /\ \A n \in 1 .. count : made[n].result # thrown
  BY <1>1 DEF HelpersInv, Answered, OneThrow
<1>4. r = thrown => pending' = <<>>
  BY <1>1 DEF Helpers!Left
<1>5. Threw' <=> r = thrown
  BY <1>1 DEF Threw
<1>6. ~Threw
  BY <1>2, <1>3 DEF Threw
<1>7. OneThrow'
  BY <1>1, <1>3, <1>4 DEF OneThrow
<1>8. CalledInOrder'
  <2> SUFFICES ASSUME ~Wraps PROVE CalledInOrder'
    BY <1>1 DEF CalledInOrder, Wraps
  <2>0. Asked' = Asked
    BY <1>1 DEF Asked
  <2>1. /\ count + Len(pending) = Len(Asked) /\ Asked' = Asked /\ Len(Asked) \in Nat
        /\ \A n \in 1 .. count : made[n].argument = Asked[n]
        /\ \A n \in 1 .. Len(pending) : pending[n] = Asked[count + n]
    <3>1. Len(Asked) \in Nat
      BY DEF HelpersInv, HelpersTyped
    <3> QED BY <1>6, <2>0, <3>1 DEF HelpersInv, CalledInOrder
  <2>2. pending[1] = Asked[count + 1]
    BY <1>1, <2>1
  <2>3. Len(made') <= Len(Asked) /\ \A n \in 1 .. Len(made') : made'[n].argument = Asked[n]
    BY <1>1, <2>1, <2>2
  <2>4. ASSUME r # thrown
        PROVE  /\ Len(made') + Len(pending') = Len(Asked)
               /\ \A n \in 1 .. Len(pending') : pending'[n] = Asked[Len(made') + n]
    <3>1. pending' = Tail(pending)
      BY <1>1, <2>4 DEF Helpers!Left, Helpers!Wrapping, Wraps
    <3>2. Len(Tail(pending)) = Len(pending) - 1 /\ \A n \in 1 .. Len(pending) - 1 : Tail(pending)[n] = pending[n + 1]
      BY <1>1, <1>2
    <3>3. \A n \in 1 .. Len(pending) - 1 : pending[n + 1] = Asked[count + (n + 1)]
      BY <1>1, <2>1
    <3>4. \A n \in 1 .. Len(pending) - 1 : count + (n + 1) = count + 1 + n
      BY <1>1
    <3> HIDE DEF count
    <3> QED BY <1>1, <2>1, <3>1, <3>2, <3>3, <3>4
  <2> QED BY <1>5, <2>1, <2>3, <2>4 DEF CalledInOrder
<1>9. WrapperLast'
  <2> SUFFICES ASSUME Wraps PROVE WrapperLast'
    BY <1>1 DEF WrapperLast, Wraps
  <2>1. CASE made = <<>>
    <3>1. pending = helper.with
      BY <2>1, <1>2 DEF HelpersInv, WrapperLast
    <3>2. r # thrown => pending' = <<r>>
      BY <1>1, <2>1 DEF Helpers!Left, Helpers!Wrapping, Wraps
    <3>3. count = 0
      BY <2>1
    <3> QED BY <1>1, <1>5, <3>1, <3>2, <3>3 DEF WrapperLast
  <2>2. CASE made # <<>>
    <3>1. count = 1 /\ made[1].argument = helper.with[1] /\ pending = <<made[1].result>>
      BY <1>1, <1>6, <2>2 DEF HelpersInv, WrapperLast
    <3>2. pending' \in {<<>>, Tail(pending)}
      BY <1>1, <2>2 DEF Helpers!Left
    <3>3. Tail(pending) = <<>> /\ pending[1] = made[1].result
      BY <3>1
    <3>4. pending' = <<>>
      BY <3>2, <3>3
    <3> QED BY <1>1, <3>1, <3>3, <3>4 DEF WrapperLast
  <2> QED BY <2>1, <2>2
<1>10. Clocked'
  <2> SUFFICES ASSUME Measures PROVE Clocked'
    BY <1>1 DEF Clocked, Measures
  <2>1. made = <<>>
    <3> SUFFICES ASSUME made # <<>> PROVE FALSE
      OBVIOUS
    <3>1. count = 1
      BY DEF HelpersInv, Clocked
    <3>2. ~Wraps /\ helper.name \notin {"none", "StaticFor", "ArrayIndices2d", "CallForEachArg"}
      BY DEF Measures, Wraps
    <3>3. \E arg \in Results : helper.with = <<arg>>
      BY <3>2 DEF HelpersInv, HelpersTyped, Request
    <3>4. Len(Asked) = 1
      BY <3>2, <3>3 DEF Asked
    <3>5. count + Len(pending) = 1
      BY <1>6, <3>2, <3>4 DEF HelpersInv, CalledInOrder
    <3> QED BY <1>1, <3>1, <3>5
  <2>2. clock = t0 /\ count = 0
    BY <2>1, <1>2 DEF HelpersInv, Clocked
  <2> QED BY <1>1, <1>2, <2>2 DEF Clocked
<1>11. Answered'
  BY <1>1, <1>3 DEF Answered
<1> QED BY <1>1, <1>7, <1>8, <1>9, <1>10, <1>11 DEF HelpersInv

LEMMA ReturnKeeps ==
  ASSUME HelpersInv, Helpers!Return
  PROVE  HelpersInv'
<1>1. /\ helper # Helpers!Idle /\ pending = <<>> /\ ~Helpers!Threw /\ returned = <<>>
      /\ UNCHANGED <<helper, pending, made, clock, t0>>
      /\ returned' = CASE Helpers!Measuring -> <<Helpers!Measured>>
                       [] Helpers!Wrapping -> <<Helpers!Last(made).result>>
                       [] OTHER -> <<none>>
  BY DEF Helpers!Return
<1>2. Helpers!Last(made) = made[Len(made)]
  BY HelperOperators
<1>3. ~Threw
  BY <1>1, <1>2 DEF Helpers!Threw, Threw
<1>4. Helpers!Measured' = Helpers!Measured
  BY <1>1 DEF Helpers!Measured, Helpers!Last, Helpers!Elapsed
<1>5. ~(Wraps /\ Measures)
  BY DEF Wraps, Measures
<1>6. Answered'
  <2>1. Measures => returned' = <<Helpers!Measured'>>
    <3>1. Measures => Helpers!Measuring /\ ~Helpers!Wrapping
      BY <1>5 DEF Helpers!Measuring, Helpers!Wrapping, Measures, Wraps
    <3>2. Measures => returned' = <<Helpers!Measured>>
      BY <1>1, <3>1
    <3> QED BY <1>4, <3>2
  <2>2. Wraps => returned' = <<made[Len(made)].result>>
    BY <1>1, <1>2, <1>5 DEF Helpers!Measuring, Helpers!Wrapping, Measures, Wraps
  <2> QED BY <1>1, <1>3, <2>1, <2>2 DEF Answered, Threw, Wraps, Measures
<1>7. HelpersTyped'
  <2>1. Request'
    <3>1. helper.name # "none"
      BY <1>1 DEF HelpersInv, HelpersTyped, Request
    <3> QED BY <1>1, <3>1 DEF HelpersInv, HelpersTyped, Request, Wraps, Measures
  <2> QED BY <1>1, <2>1 DEF HelpersInv, HelpersTyped, Asked
<1>8. OneThrow'
  <2>1. \A n \in 1 .. Len(made) : made[n].result # thrown
    <3>1. Len(made) \in Nat
      BY DEF HelpersInv, HelpersTyped
    <3>2. ASSUME NEW n \in 1 .. Len(made), made[n].result = thrown PROVE FALSE
      <4>1. n = Len(made) /\ made # <<>>
        BY <3>1, <3>2 DEF HelpersInv, OneThrow
      <4> QED BY <1>3, <3>2, <4>1 DEF Threw
    <3> QED BY <3>2
  <2> QED BY <1>1, <2>1 DEF OneThrow
<1>9. CalledInOrder' /\ WrapperLast' /\ Clocked'
  <2>1. UNCHANGED Asked /\ Wraps' = Wraps /\ Measures' = Measures /\ Threw' = Threw
    BY <1>1, Zenon DEF Asked, Wraps, Measures, Threw
  <2>2. CalledInOrder'
    BY <1>1, <2>1 DEF HelpersInv, CalledInOrder
  <2>3. WrapperLast' /\ Clocked'
    BY <1>1, <2>1 DEF HelpersInv, WrapperLast, Clocked
  <2> QED BY <2>2, <2>3
<1> QED BY <1>6, <1>7, <1>8, <1>9 DEF HelpersInv

\* A step of the whole is one of the helpers' or leaves them.
LEMMA HelpersStep == [Next]_vars => [component = "CallHelpers" /\ Helpers!Next]_helpers
BY DEF Next, vars, helpers

LEMMA HelpersInvHolds == Spec => []HelpersInv
<1>1. Init => HelpersInv
  <2> SUFFICES ASSUME Init PROVE HelpersInv
    OBVIOUS
  <2>1. /\ helper = Helpers!Idle /\ pending = <<>> /\ made = <<>> /\ returned = <<>> /\ t0 = 0
        /\ clock \in 0 .. Period - 1
    BY DEF Init, Helpers!Init
  <2>2. clock \in Nat /\ t0 \in Nat
    BY <2>1, HelpersConstants
  <2>3. helper.name = "none" /\ helper.with = <<>>
    BY <2>1 DEF Helpers!Idle
  <2>4. Asked = <<>>
    BY <2>3 DEF Asked
  <2>5. HelpersTyped
    BY <2>1, <2>2, <2>3, <2>4 DEF HelpersTyped, Request
  <2>6. ~Wraps /\ ~Measures
    BY <2>3 DEF Wraps, Measures
  <2>7. OneThrow /\ CalledInOrder /\ WrapperLast /\ Clocked /\ Answered
    BY <2>1, <2>4, <2>6 DEF OneThrow, CalledInOrder, WrapperLast, Clocked, Answered, Threw
  <2> QED BY <2>5, <2>7 DEF HelpersInv
<1>2. HelpersInv /\ [Next]_vars => HelpersInv'
  <2> SUFFICES ASSUME HelpersInv, [Next]_vars PROVE HelpersInv'
    OBVIOUS
  <2>1. CASE Helpers!Next
    <3>1. ASSUME NEW a \in Helpers!Sizes, NEW b \in Helpers!Sizes,
                 Helpers!StaticFor(a, b) \/ Helpers!ForEachIndexPair(a, b)
          PROVE  HelpersInv'
      BY <3>1, StaticForKeeps, PairsKeep
    <3>2. ASSUME NEW args \in Helpers!SeqOf(Results, MaxArgs), Helpers!CallForEachArg(args) PROVE HelpersInv'
      BY <3>2, ForEachArgKeeps
    <3>3. ASSUME NEW arg \in Results,
                 Helpers!WrapFunction(arg) \/ Helpers!MeasureTime(arg) \/ Helpers!MeasureTime_AlwaysReturn(arg)
          PROVE  HelpersInv'
      BY <3>3, OneCallKeeps
    <3>4. ASSUME NEW r \in Results \cup {none, thrown}, NEW ticks \in 0 .. MaxTicks, Helpers!Invoke(r, ticks)
          PROVE  HelpersInv'
      BY <3>4, InvokeKeeps
    <3>5. ASSUME Helpers!Return PROVE HelpersInv'
      BY <3>5, ReturnKeeps
    <3> QED BY <2>1, <3>1, <3>2, <3>3, <3>4, <3>5 DEF Helpers!Next
  <2>2. CASE UNCHANGED helpers
    <3>1. UNCHANGED <<helper, pending, made, clock, t0, returned>>
      BY <2>2 DEF helpers
    <3>2. /\ UNCHANGED Asked /\ Request' = Request /\ Wraps' = Wraps /\ Measures' = Measures
          /\ Threw' = Threw /\ UNCHANGED Helpers!Measured
      BY <3>1, Zenon DEF Asked, Request, Wraps, Measures, Threw, Helpers!Measured, Helpers!Elapsed, Helpers!Last
    <3>3. HelpersTyped' /\ OneThrow'
      BY <3>1, <3>2 DEF HelpersInv, HelpersTyped, OneThrow
    <3>4. CalledInOrder'
      BY <3>1, <3>2 DEF HelpersInv, CalledInOrder
    <3>5. WrapperLast' /\ Clocked'
      BY <3>1, <3>2 DEF HelpersInv, WrapperLast, Clocked
    <3>6. Answered'
      BY <3>1, <3>2 DEF HelpersInv, Answered
    <3> QED BY <3>3, <3>4, <3>5, <3>6 DEF HelpersInv
  <2> QED BY <2>1, <2>2, HelpersStep
<1> QED BY <1>1, <1>2, PTL DEF Spec

-----------------------------------------------------------------------------
(* Numbers and pairs of indices: a table of rows and columns, row by row.  *)

\* A number is so many whole units and what is short of one.
LEMMA WholeUnits ==
  ASSUME NEW unit \in Nat \ {0}, NEW n \in Nat
  PROVE  /\ n \div unit \in Nat /\ n % unit \in 0 .. unit - 1
         /\ n = (n \div unit) * unit + (n % unit)
         /\ (n \div unit) * unit <= n /\ n < (n \div unit + 1) * unit
<1> DEFINE q == n \div unit
           r == n % unit
<1>1. q \in Nat /\ r \in 0 .. unit - 1 /\ n = q * unit + r
  OBVIOUS
<1> HIDE DEF q, r
<1>2. q * unit \in Nat /\ (q + 1) * unit = q * unit + unit
  BY <1>1
<1>3. q * unit <= n /\ n < (q + 1) * unit
  BY <1>1, <1>2
<1> QED BY <1>1, <1>3 DEF q, r

\* More rows are at least one row more.
LEMMA MoreRows ==
  ASSUME NEW columns \in Nat, NEW a \in Nat, NEW b \in Nat, a < b
  PROVE  a * columns \in Nat /\ b * columns \in Nat /\ a * columns + columns <= b * columns
<1>1. PICK d \in Nat : b = a + 1 + d
  <2>1. b - a - 1 \in Nat /\ b = a + 1 + (b - a - 1)
    OBVIOUS
  <2> QED BY <2>1
<1>2. (a + 1 + d) * columns = a * columns + columns + d * columns
  OBVIOUS
<1>3. a * columns \in Nat /\ d * columns \in Nat /\ b * columns \in Nat
  OBVIOUS
<1> QED BY <1>1, <1>2, <1>3

Grid(rows, columns) == (0 .. rows - 1) \X (0 .. columns - 1)
Number(p, columns) == p[1] * columns + p[2]
PairOf(n, columns) == <<n \div columns, n % columns>>

\* The pairs of a table are numbered from 0 on, row by row.
LEMMA RowByRow ==
  ASSUME NEW rows \in Nat, NEW columns \in Nat
  PROVE  /\ \A p \in Grid(rows, columns) : Number(p, columns) \in 0 .. rows * columns - 1
         /\ \A n \in 0 .. rows * columns - 1 :
              PairOf(n, columns) \in Grid(rows, columns) /\ Number(PairOf(n, columns), columns) = n
         /\ \A p, q \in Grid(rows, columns) :
              /\ Helpers!Before(p, q) <=> Number(p, columns) < Number(q, columns)
              /\ Number(p, columns) = Number(q, columns) => p = q
<1>1. rows * columns \in Nat
  OBVIOUS
<1>2. ASSUME NEW p \in Grid(rows, columns)
      PROVE  /\ p[1] \in Nat /\ p[2] \in Nat /\ p = <<p[1], p[2]>> /\ p[1] < rows /\ p[2] < columns
             /\ Number(p, columns) = p[1] * columns + p[2] /\ p[1] * columns \in Nat
  <2>1. p[1] \in 0 .. rows - 1 /\ p[2] \in 0 .. columns - 1 /\ p = <<p[1], p[2]>>
    BY <1>2 DEF Grid
  <2>2. p[1] \in Nat /\ p[2] \in Nat /\ p[1] < rows /\ p[2] < columns
    BY <2>1
  <2>3. p[1] * columns \in Nat
    BY <2>2
  <2> QED BY <2>1, <2>2, <2>3 DEF Number
<1>3. ASSUME NEW p \in Grid(rows, columns) PROVE Number(p, columns) \in 0 .. rows * columns - 1
  BY <1>1, <1>2, <1>3, MoreRows
<1>4. ASSUME NEW n \in 0 .. rows * columns - 1
      PROVE  PairOf(n, columns) \in Grid(rows, columns) /\ Number(PairOf(n, columns), columns) = n
  <2>1. columns # 0
    BY <1>1, <1>4
  <2>2. n \in Nat /\ n < rows * columns
    BY <1>1, <1>4
  <2>3. n \div columns \in Nat /\ n % columns \in 0 .. columns - 1 /\ n = (n \div columns) * columns + (n % columns)
    BY <2>1, <2>2, WholeUnits
  <2>4. n \div columns < rows
    <3> DEFINE q == n \div columns
               r == n % columns
    <3>1. q \in Nat /\ r \in 0 .. columns - 1 /\ n = q * columns + r
      BY <2>3
    <3> HIDE DEF q, r
    <3>2. rows < q => rows * columns + columns <= q * columns
      BY <3>1, MoreRows
    <3>3. rows = q => rows * columns = q * columns
      OBVIOUS
    <3>4. q * columns \in Nat
      BY <3>1
    <3>5. q < rows
      BY <1>1, <2>2, <3>1, <3>2, <3>3, <3>4
    <3> QED BY <3>5 DEF q
  <2>5. PairOf(n, columns) \in Grid(rows, columns)
    BY <2>3, <2>4 DEF PairOf, Grid
  <2> QED BY <2>3, <2>5 DEF PairOf, Number
<1>5. ASSUME NEW p \in Grid(rows, columns), NEW q \in Grid(rows, columns)
      PROVE  /\ Helpers!Before(p, q) => Number(p, columns) < Number(q, columns)
             /\ p = q \/ Helpers!Before(p, q) \/ Helpers!Before(q, p)
  <2>1. /\ p[1] \in Nat /\ p[2] \in Nat /\ p[2] < columns /\ Number(p, columns) = p[1] * columns + p[2]
        /\ q[1] \in Nat /\ q[2] \in Nat /\ q[2] < columns /\ Number(q, columns) = q[1] * columns + q[2]
        /\ p[1] * columns \in Nat /\ q[1] * columns \in Nat
    BY <1>2
  <2>2. p[1] < q[1] => p[1] * columns + columns <= q[1] * columns
    BY <2>1, MoreRows
  <2>3. p[1] = q[1] => p[1] * columns = q[1] * columns
    OBVIOUS
  <2>4. Helpers!Before(p, q) => Number(p, columns) < Number(q, columns)
    <3> DEFINE pc == p[1] * columns
               qc == q[1] * columns
    <3>1. pc \in Nat /\ qc \in Nat /\ (p[1] < q[1] => pc + columns <= qc) /\ (p[1] = q[1] => pc = qc)
      BY <2>1, <2>2, <2>3
    <3>2. Number(p, columns) = pc + p[2] /\ Number(q, columns) = qc + q[2]
      BY <2>1
    <3> HIDE DEF pc, qc
    <3> QED BY <2>1, <3>1, <3>2 DEF Helpers!Before
  <2>5. p = q \/ Helpers!Before(p, q) \/ Helpers!Before(q, p)
    <3>1. p = <<p[1], p[2]>> /\ q = <<q[1], q[2]>>
      BY <1>2
    <3>2. (p[1] = q[1] /\ p[2] = q[2]) \/ Helpers!Before(p, q) \/ Helpers!Before(q, p)
      <4> DEFINE a == p[1]
                 b == p[2]
                 c == q[1]
                 d == q[2]
      <4>1. a \in Nat /\ b \in Nat /\ c \in Nat /\ d \in Nat
        BY <2>1
      <4> SUFFICES (a = c /\ b = d) \/ a < c \/ (a = c /\ b < d) \/ c < a \/ (c = a /\ d < b)
        BY Zenon DEF Helpers!Before
      <4> HIDE DEF a, b, c, d
      <4> QED BY <4>1
    <3>3. p[1] = q[1] /\ p[2] = q[2] => p = q
      BY <3>1
    <3> QED BY <3>2, <3>3
  <2> QED BY <2>4, <2>5
<1>6. ASSUME NEW p \in Grid(rows, columns), NEW q \in Grid(rows, columns)
      PROVE  /\ Helpers!Before(p, q) <=> Number(p, columns) < Number(q, columns)
             /\ Number(p, columns) = Number(q, columns) => p = q
  <2>1. Number(p, columns) \in Int /\ Number(q, columns) \in Int
    BY <1>1, <1>3
  <2>2. /\ Helpers!Before(p, q) => Number(p, columns) < Number(q, columns)
        /\ Helpers!Before(q, p) => Number(q, columns) < Number(p, columns)
        /\ p = q \/ Helpers!Before(p, q) \/ Helpers!Before(q, p)
    BY <1>5
  <2> QED BY <2>1, <2>2
<1> QED BY <1>3, <1>4, <1>6

\* From a number on, as many pairs are left as there are numbers.
LEMMA PairsAhead ==
  ASSUME NEW rows \in Nat, NEW columns \in Nat, NEW k \in 0 .. rows * columns,
         NEW ahead, ahead = {p \in Grid(rows, columns) : Number(p, columns) >= k}
  PROVE  /\ Cardinality(ahead) = rows * columns - k
         /\ k = rows * columns => ahead = {}
<1> DEFINE f == [p \in ahead |-> Number(p, columns)]
           last == rows * columns - 1
<1>1. rows * columns \in Nat /\ last \in Int /\ k \in Nat /\ k <= last + 1
  OBVIOUS
<1>2. \A p \in Grid(rows, columns) : Number(p, columns) \in 0 .. last
  BY RowByRow
<1>3. \A n \in 0 .. last : PairOf(n, columns) \in Grid(rows, columns) /\ Number(PairOf(n, columns), columns) = n
  BY RowByRow
<1>4. \A p, q \in Grid(rows, columns) : Number(p, columns) = Number(q, columns) => p = q
  BY RowByRow
<1>5. \A p : p \in ahead <=> p \in Grid(rows, columns) /\ Number(p, columns) >= k
  OBVIOUS
<1>6. rows * columns - k = last - k + 1 /\ (k = rows * columns => k > last)
  BY <1>1
<1> HIDE DEF last
<1>7. f \in Bijection(ahead, k .. last)
  <2>1. f \in [ahead -> k .. last]
    BY <1>1, <1>2, <1>5
  <2>2. \A p, q \in ahead : f[p] = f[q] => p = q
    BY <1>4, <1>5
  <2>3. \A n \in k .. last : \E p \in ahead : f[p] = n
    <3> SUFFICES ASSUME NEW n \in k .. last PROVE \E p \in ahead : f[p] = n
      OBVIOUS
    <3>1. n \in 0 .. last /\ n >= k
      BY <1>1
    <3>2. PairOf(n, columns) \in ahead /\ Number(PairOf(n, columns), columns) = n
      BY <1>3, <1>5, <3>1
    <3> QED BY <3>2
  <2> HIDE DEF f
  <2> QED BY <2>1, <2>2, <2>3, Fun_IsBij, Zenon
<1>8. IsFiniteSet(k .. last) /\ Cardinality(k .. last) = last - k + 1
  <2>1. IsFiniteSet(k .. last) /\ Cardinality(k .. last) = IF k > last THEN 0 ELSE last - k + 1
    BY <1>1, FS_Interval
  <2> QED BY <1>1, <2>1
<1>9. Cardinality(ahead) = Cardinality(k .. last)
  <2>1. ExistsBijection(ahead, k .. last)
    BY <1>7, Zenon DEF ExistsBijection
  <2>2. ExistsBijection(k .. last, ahead)
    BY <2>1, Fun_ExistsBijSymmetric
  <2>3. Cardinality(k .. last) = Cardinality(ahead)
    BY <1>8, <2>2, FS_Bijection
  <2> QED BY <2>3
<1>10. k > last => ahead = {}
  BY <1>1, <1>2, <1>5
<1> QED BY <1>6, <1>8, <1>9, <1>10

\* A table's index pairs come row by row.
LEMMA TableVisited ==
  ASSUME HelpersInv, helper.name = "ArrayIndices2d"
  PROVE  Helpers!VisitsRowMajor
<1> DEFINE rows == helper.with[1]
           columns == helper.with[2]
           count == Len(made)
           total == rows * columns
           grid == (0 .. rows - 1) \X (0 .. columns - 1)
           ahead == {p \in grid : \A n \in DOMAIN made : Helpers!Before(Helpers!Arguments[n], p)}
<1>1. rows \in Nat /\ columns \in Nat
  BY HelpersConstants DEF HelpersInv, HelpersTyped, Request
<1>2. total \in Nat /\ total % SizeT \in Nat /\ total % SizeT <= total
      /\ (total < SizeT => total % SizeT = total)
  <2>1. total \in Nat
    BY <1>1
  <2> HIDE DEF total
  <2>2. SizeT \in Nat \ {0}
    BY HelpersConstants
  <2> QED BY <2>1, <2>2
<1>3. ~Wraps /\ Asked = Helpers!ArrayIndices2d(rows, columns)
  BY DEF Wraps, Asked
<1>4. /\ Len(Asked) = total % SizeT
      /\ \A n \in 1 .. total % SizeT : Asked[n] = PairOf(n - 1, columns)
  BY <1>1, <1>3, PairsOfIndices DEF PairOf
<1>5. /\ count <= Len(Asked) /\ \A n \in 1 .. count : made[n].argument = Asked[n]
      /\ (~Threw => count + Len(pending) = Len(Asked))
  BY <1>3 DEF HelpersInv, CalledInOrder
<1>6. count \in Nat /\ DOMAIN made = 1 .. count
  BY DEF HelpersInv, HelpersTyped
<1>7. returned # <<>> => count = total % SizeT
  <2>1. returned # <<>> => ~Threw /\ Len(pending) = 0
    BY DEF HelpersInv, Answered
  <2> QED BY <1>4, <1>5, <1>6, <2>1
<1> HIDE DEF rows, columns, total, count
<1>8. \A n \in DOMAIN made : Helpers!Arguments[n] = PairOf(n - 1, columns)
  <2>1. \A n \in DOMAIN made : Helpers!Arguments[n] = made[n].argument
    BY DEF Helpers!Arguments
  <2> QED BY <1>2, <1>4, <1>5, <1>6, <2>1
<1>9. /\ \A p \in grid : Number(p, columns) \in 0 .. total - 1
      /\ \A n \in 0 .. total - 1 : PairOf(n, columns) \in grid /\ Number(PairOf(n, columns), columns) = n
      /\ \A p, q \in grid :
           /\ Helpers!Before(p, q) <=> Number(p, columns) < Number(q, columns)
           /\ Number(p, columns) = Number(q, columns) => p = q
  BY <1>1, RowByRow DEF Grid, total
<1> HIDE DEF grid
<1>10. \A n \in DOMAIN made :
         /\ Helpers!Arguments[n] \in grid /\ Number(Helpers!Arguments[n], columns) = n - 1
  <2> SUFFICES ASSUME NEW n \in DOMAIN made
               PROVE  Helpers!Arguments[n] \in grid /\ Number(Helpers!Arguments[n], columns) = n - 1
    OBVIOUS
  <2>1. n - 1 \in 0 .. total - 1
    BY <1>2, <1>4, <1>5, <1>6
  <2> QED BY <1>8, <1>9, <2>1
<1>11. \A m, n \in DOMAIN made : m < n => Helpers!Before(Helpers!Arguments[m], Helpers!Arguments[n])
  <2> SUFFICES ASSUME NEW m \in DOMAIN made, NEW n \in DOMAIN made, m < n
               PROVE  Helpers!Before(Helpers!Arguments[m], Helpers!Arguments[n])
    OBVIOUS
  <2>1. m - 1 < n - 1
    BY <1>6
  <2> QED BY <1>9, <1>10, <2>1
<1>12. ahead = {p \in grid : Number(p, columns) >= count}
  <2> SUFFICES ASSUME NEW p \in grid
               PROVE  (\A n \in DOMAIN made : Helpers!Before(Helpers!Arguments[n], p)) <=> Number(p, columns) >= count
    OBVIOUS
  <2>1. \A n \in DOMAIN made : Helpers!Before(Helpers!Arguments[n], p) <=> n - 1 < Number(p, columns)
    BY <1>9, <1>10
  <2>2. Number(p, columns) \in Nat
    BY <1>2, <1>9
  <2>3. Number(p, columns) >= count => \A n \in DOMAIN made : n - 1 < Number(p, columns)
    BY <1>6, <2>2
  <2>4. (\A n \in DOMAIN made : n - 1 < Number(p, columns)) => Number(p, columns) >= count
    <3>1. count = 0 \/ count \in DOMAIN made
      BY <1>6
    <3>2. count = 0 => Number(p, columns) >= count
      BY <2>2
    <3>3. ASSUME count \in DOMAIN made, \A n \in DOMAIN made : n - 1 < Number(p, columns)
          PROVE  Number(p, columns) >= count
      <4>1. count - 1 < Number(p, columns)
        BY <3>3
      <4> QED BY <1>6, <2>2, <4>1
    <3> QED BY <3>1, <3>2, <3>3
  <2> QED BY <2>1, <2>3, <2>4
<1> HIDE DEF ahead
<1>13. Cardinality(ahead) = total - count /\ (count = total => ahead = {})
  <2>1. count \in 0 .. total
    BY <1>2, <1>4, <1>5, <1>6
  <2> QED BY <1>1, <1>12, <2>1, PairsAhead DEF Grid, grid, total
<1>14. count + Helpers!Cardinality(ahead) = total
  BY <1>2, <1>6, <1>13, HelperOperators
<1>15. (returned # <<>> /\ total < SizeT) => ahead = {}
  BY <1>2, <1>7, <1>13
<1> QED BY <1>10, <1>11, <1>14, <1>15 DEF Helpers!VisitsRowMajor, rows, columns, total, count, grid, ahead

\* What a measuring helper that has returned has done.
LEMMA CallMeasured ==
  ASSUME HelpersInv, returned # <<>>, Measures
  PROVE  Helpers!MeasuresTheCall
<1>1. ~Wraps /\ Asked = helper.with /\ \E arg \in Results : helper.with = <<arg>>
  BY DEF Measures, Wraps, Asked, HelpersInv, HelpersTyped, Request
<1>2. Len(made) = 1 /\ made[1].argument = helper.with[1] /\ made \in Seq(Made)
  <2>1. ~Threw /\ pending = <<>>
    BY DEF HelpersInv, Answered
  <2>2. /\ Len(made) + Len(pending) = 1 /\ Len(made) \in Nat /\ made \in Seq(Made)
        /\ \A n \in 1 .. Len(made) : made[n].argument = helper.with[n]
    BY <1>1, <2>1 DEF HelpersInv, HelpersTyped, CalledInOrder
  <2>3. Len(pending) = 0 /\ Len(made) = 1 /\ 1 \in 1 .. Len(made)
    BY <2>1, <2>2
  <2> QED BY <2>2, <2>3
<1>3. Helpers!Arguments = helper.with
  <2>1. Helpers!Arguments = [n \in {1} |-> made[n].argument]
    BY <1>2 DEF Helpers!Arguments
  <2>2. PICK arg \in Results : helper.with = <<arg>>
    BY <1>1
  <2>3. Helpers!Arguments = <<made[1].argument>>
    BY <2>1
  <2> QED BY <1>2, <2>2, <2>3
<1>4. made[1].began = t0 /\ made[1].ended = clock /\ t0 <= clock /\ clock \in Nat /\ t0 \in Nat
  <2>1. made # <<>>
    BY <1>2
  <2> QED BY <2>1 DEF HelpersInv, HelpersTyped, Clocked
<1>5. returned = <<Helpers!Measured>> /\ Helpers!Last(made) = made[1]
  BY <1>2, HelperOperators DEF HelpersInv, Answered
<1> DEFINE time == Helpers!Elapsed
           took == clock - t0
<1>6. time * Period <= took /\ took < (time + 1) * Period
  <2>1. took \in Nat
    BY <1>4
  <2>2. Period \in Nat \ {0}
    BY HelpersConstants
  <2>3. time = took \div Period
    BY DEF Helpers!Elapsed
  <2> HIDE DEF took, time
  <2> QED BY <2>1, <2>2, <2>3, WholeUnits
<1> HIDE DEF time, took
<1>7. LET result == made[1].result IN
      Helpers!Measured =
        CASE result # none -> [tuple |-> TRUE, values |-> <<time, result>>]
          [] result = none /\ helper.name = "MeasureTime" -> [tuple |-> FALSE, values |-> <<time>>]
          [] OTHER -> [tuple |-> TRUE, values |-> <<time>>]
  BY <1>5 DEF Helpers!Measured, time
<1>8. /\ Head(returned[1].values) = time
      /\ Tail(returned[1].values) = IF made[1].result = none THEN <<>> ELSE <<made[1].result>>
      /\ ~returned[1].tuple => helper.name = "MeasureTime"
  <2>1. returned[1] = Helpers!Measured
    BY <1>5
  <2>2. CASE made[1].result # none
    <3>1. Helpers!Measured = [tuple |-> TRUE, values |-> <<time, made[1].result>>]
      BY <1>7, <2>2
    <3>2. Helpers!Measured.tuple /\ Helpers!Measured.values = <<time, made[1].result>>
      BY <3>1
    <3> QED BY <2>1, <2>2, <3>2
  <2>3. CASE made[1].result = none /\ helper.name = "MeasureTime"
    <3>1. Helpers!Measured = [tuple |-> FALSE, values |-> <<time>>]
      BY <1>7, <2>3
    <3>2. Helpers!Measured.values = <<time>>
      BY <3>1
    <3> QED BY <2>1, <2>3, <3>2
  <2>4. CASE made[1].result = none /\ helper.name # "MeasureTime"
    <3>1. Helpers!Measured = [tuple |-> TRUE, values |-> <<time>>]
      BY <1>7, <2>4
    <3>2. Helpers!Measured.tuple /\ Helpers!Measured.values = <<time>>
      BY <3>1
    <3> QED BY <2>1, <2>4, <3>2
  <2> QED BY <2>2, <2>3, <2>4
<1>9. made[1].ended - made[1].began = took
  BY <1>4 DEF took
<1> QED BY <1>3, <1>6, <1>8, <1>9 DEF Helpers!MeasuresTheCall

\* What the wrapper is called with, and what comes of it.
LEMMA WrapperCalled ==
  ASSUME HelpersInv, returned # <<>>, Wraps
  PROVE  Helpers!Arguments = <<helper.with[1], made[1].result>> /\ returned = <<made[2].result>>
<1>1. ~Threw /\ pending = <<>> /\ returned = <<made[Len(made)].result>>
  BY DEF HelpersInv, Answered
<1>2. PICK arg \in Results : helper.with = <<arg>>
  BY DEF Wraps, Measures, HelpersInv, HelpersTyped, Request
<1>3. /\ Len(made) = 2 /\ made[1].argument = helper.with[1] /\ made[2].argument = made[1].result
  BY <1>1, <1>2 DEF HelpersInv, WrapperLast
<1>4. DOMAIN made = 1 .. 2
  BY <1>3 DEF HelpersInv, HelpersTyped
<1>5. Helpers!Arguments = [n \in 1 .. 2 |-> made[n].argument]
  BY <1>4 DEF Helpers!Arguments
<1>6. Helpers!Arguments = <<made[1].argument, made[2].argument>>
  BY <1>5
<1> QED BY <1>1, <1>3, <1>6

\* The call helpers make the calls they were asked for, in order and each once, up to
\* one that throws; return what the last returned; and the time measured is the call's:
\* StaticFor, CallForEachArg, WrapFunction, MeasureTime and ArrayIndices2d.
THEOREM HelpersCallAsAsked == Spec => []CallsAsAsked
<1>1. HelpersInv => CallsAsAsked
  <2> SUFFICES ASSUME HelpersInv PROVE CallsAsAsked
    OBVIOUS
  <2>1. Len(made) \in Nat /\ DOMAIN made = 1 .. Len(made) /\ Asked \in Seq(Passed)
    BY DEF HelpersInv, HelpersTyped
  <2>2. \A n \in DOMAIN made : Helpers!Arguments[n] = made[n].argument
    BY DEF Helpers!Arguments
  <2>3. \A n \in DOMAIN made : made[n].result = thrown => n = Len(made) /\ returned = <<>>
    BY <2>1 DEF HelpersInv, OneThrow
  <2>4. helper.name = "ArrayIndices2d" => Helpers!VisitsRowMajor
    BY TableVisited
  <2>5. ~Wraps => /\ Len(made) <= Len(Asked) /\ \A n \in DOMAIN made : Helpers!Arguments[n] = Asked[n]
                  /\ returned # <<>> => Len(made) = Len(Asked)
    <3>1. returned # <<>> => ~Threw /\ Len(pending) = 0
      BY DEF HelpersInv, Answered
    <3> QED BY <2>1, <2>2, <3>1 DEF HelpersInv, CalledInOrder
  <2>6. ASSUME helper.name = "StaticFor"
        PROVE  /\ \A n \in DOMAIN made : Helpers!Arguments[n] = helper.with[1] + n - 1
               /\ returned # <<>> => Len(made) = helper.with[2] - helper.with[1]
    <3> DEFINE a == helper.with[1]
               b == helper.with[2]
               all == b - a
    <3>1. ~Wraps /\ Asked = [n \in 1 .. all |-> a + n - 1]
      BY <2>6 DEF Wraps, Asked
    <3>2. a \in Nat /\ b \in Nat /\ a <= b
      BY <2>6, HelpersConstants DEF HelpersInv, HelpersTyped, Request
    <3>3. all \in Nat
      BY <3>2
    <3> HIDE DEF all
    <3>4. DOMAIN Asked = 1 .. all /\ \A n \in 1 .. all : Asked[n] = a + n - 1
      BY <3>1
    <3>5. Len(Asked) = all
      BY <2>1, <3>3, <3>4
    <3>6. \A n \in DOMAIN made : Helpers!Arguments[n] = a + n - 1
      <4>1. \A n \in DOMAIN made : n \in 1 .. all
        <5>1. ~Wraps
          BY <3>1
        <5>2. Len(made) <= all
          BY <2>5, <3>5, <5>1
        <5> QED BY <2>1, <3>3, <5>2
      <4>2. \A n \in DOMAIN made : Helpers!Arguments[n] = Asked[n]
        BY <2>5, <3>1
      <4> QED BY <3>4, <4>1, <4>2
    <3> QED BY <2>5, <3>1, <3>5, <3>6 DEF all
  <2>7. ASSUME helper.name = "CallForEachArg", returned # <<>> PROVE Helpers!Arguments = helper.with
    <3>1. ~Wraps /\ Asked = helper.with
      BY <2>7 DEF Wraps, Asked
    <3>2. DOMAIN made = 1 .. Len(Asked) /\ \A n \in 1 .. Len(Asked) : Helpers!Arguments[n] = Asked[n]
      BY <2>1, <2>5, <2>7, <3>1
    <3>3. Helpers!Arguments = [n \in 1 .. Len(Asked) |-> Helpers!Arguments[n]]
      BY <3>2 DEF Helpers!Arguments
    <3>4. Asked = [n \in 1 .. Len(Asked) |-> Asked[n]]
      BY <2>1
    <3> HIDE DEF Helpers!Arguments
    <3> QED BY <3>1, <3>2, <3>3, <3>4
  <2>8. returned # <<>> =>
          CASE helper.name = "StaticFor" -> Len(made) = helper.with[2] - helper.with[1]
            [] helper.name = "CallForEachArg" -> Helpers!Arguments = helper.with
            [] Helpers!Wrapping ->
                 /\ Helpers!Arguments = <<helper.with[1], made[1].result>>
                 /\ returned = <<made[2].result>>
            [] Helpers!Measuring -> Helpers!MeasuresTheCall
            [] OTHER -> TRUE
    <3>1. Helpers!Wrapping = Wraps /\ Helpers!Measuring = Measures
      BY DEF Helpers!Wrapping, Wraps, Helpers!Measuring, Measures
    <3>2. CASE helper.name = "StaticFor"
      BY <2>6, <3>1, <3>2 DEF Wraps, Measures
    <3>3. CASE helper.name = "CallForEachArg"
      BY <2>7, <3>1, <3>3 DEF Wraps, Measures
    <3>4. CASE Wraps
      BY <3>1, <3>4, WrapperCalled DEF Wraps, Measures
    <3>5. CASE Measures
      BY <3>1, <3>5, CallMeasured DEF Wraps, Measures
    <3> QED BY <3>1, <3>2, <3>3, <3>4, <3>5
  <2> QED BY <2>3, <2>4, <2>6, <2>8 DEF CallsAsAsked, Helpers!CallsAsAsked
<1> QED BY <1>1, HelpersInvHolds, PTL

=============================================================================
