----------------------------- MODULE CallHelpers -----------------------------
(***************************************************************************)
(* What calls a function for its caller: edt::StaticFor                    *)
(* (template/static_for.hpp), edt::CallForEachArg and edt::WrapFunction    *)
(* (functional/), edt::MeasureTime (time/measure_time.hpp), and a loop     *)
(* over edt::ArrayIndices2d (ranges/array_indices2d.hpp).  The function    *)
(* takes its time, returns something, or throws.                           *)
(***************************************************************************)
EXTENDS Integers, SequencesExt

CONSTANTS
  Results,       \* what the function can return
  thrown,        \* it throws instead
  none,          \* it returns void
  SizeT,         \* values of std::size_t: sizes are counted modulo SizeT
  MaxSize,       \* bound on indices and sizes
  MaxArgs,       \* bound on the arguments of CallForEachArg
  Period,        \* ticks of the steady clock in one DurationType
  MaxTicks       \* bound on the clock

HelpersAssumption ==
  /\ thrown \notin Results /\ none \notin Results /\ thrown # none
  /\ SizeT \in Nat \ {0} /\ Period \in Nat \ {0}
  /\ MaxSize \in 0 .. SizeT - 1 /\ MaxArgs \in Nat /\ MaxTicks \in Nat

VARIABLES
  helper,        \* the helper asked for, and with what
  pending,       \* the arguments of the calls it has still to make
  made,          \* the calls made: [argument, result, began, ended]
  clock,
  t0,
  returned       \* what the helper gave back, or <<>>

vars == <<helper, pending, made, clock, t0, returned>>

Sizes == 0 .. MaxSize

Idle == [name |-> "none", with |-> <<>>]

\* Mutant: the stride is the number of rows.
IndexPair_ByRows(size_a, size_b, index) == <<index \div size_a, index % size_a>>

IndexPair(size_a, size_b, index) == <<index \div size_b, index % size_b>>

\* The view counts to the product, in size_t; the pairs are made as it is read.
ArrayIndices2d(size_a, size_b) ==
  [n \in 1 .. (size_a * size_b) % SizeT |-> IndexPair(size_a, size_b, n - 1)]

Begin(name, with, arguments) ==
  /\ helper = Idle
  /\ helper' = [name |-> name, with |-> with]
  /\ pending' = arguments /\ t0' = clock
  /\ UNCHANGED <<made, clock, returned>>

\* StaticFor's index sequence counts from zero, to which begin is added.
StaticFor(begin, end) ==
  /\ begin <= end
  /\ Begin("StaticFor", <<begin, end>>, [n \in 1 .. end - begin |-> begin + n - 1])

CallForEachArg(args) == Begin("CallForEachArg", args, args)

ForEachIndexPair(size_a, size_b) ==
  Begin("ArrayIndices2d", <<size_a, size_b>>, ArrayIndices2d(size_a, size_b))

WrapFunction(arg) == Begin("WrapFunction", <<arg>>, <<arg>>)

MeasureTime(arg) == Begin("MeasureTime", <<arg>>, <<arg>>)

MeasureTime_AlwaysReturn(arg) == Begin("MeasureTime_AlwaysReturn", <<arg>>, <<arg>>)

Measuring == helper.name \in {"MeasureTime", "MeasureTime_AlwaysReturn"}

Wrapping == helper.name = "WrapFunction"

\* What is left to call: nothing after an exception, and the wrapper once the
\* target has returned.
Left(result) ==
  CASE result = thrown -> <<>>
    [] result # thrown /\ Wrapping /\ made = <<>> -> <<result>>
    [] OTHER -> Tail(pending)

\* One call.  Time passes only while the function runs, and only where it is
\* measured; what it returns in a loop is discarded; and what is wrapped returns
\* something.
Invoke(result, ticks) ==
  /\ pending # <<>> /\ clock + ticks <= MaxTicks
  /\ ~Measuring => ticks = 0
  /\ (~Measuring /\ ~Wrapping) => result \in {none, thrown}
  /\ (Wrapping /\ made = <<>>) => result # none
  /\ clock' = clock + ticks
  /\ made' = Append(made, [argument |-> Head(pending), result |-> result,
                           began |-> clock, ended |-> clock'])
  /\ pending' = Left(result)
  /\ UNCHANGED <<helper, t0, returned>>

Threw == made # <<>> /\ Last(made).result = thrown

\* duration_cast drops what is short of a whole unit.
Elapsed == (clock - t0) \div Period

\* A tuple is made of the time and the result, the time alone being returned where
\* there is no result - as a tuple too, by MeasureTime_AlwaysReturn.
Measured ==
  LET result == Last(made).result IN
  CASE result # none -> [tuple |-> TRUE, values |-> <<Elapsed, result>>]
    [] result = none /\ helper.name = "MeasureTime" -> [tuple |-> FALSE, values |-> <<Elapsed>>]
    [] OTHER -> [tuple |-> TRUE, values |-> <<Elapsed>>]

Return ==
  /\ helper # Idle /\ pending = <<>> /\ ~Threw /\ returned = <<>>
  /\ returned' = CASE Measuring -> <<Measured>>
                   [] Wrapping -> <<Last(made).result>>
                   [] OTHER -> <<none>>
  /\ UNCHANGED <<helper, pending, made, clock, t0>>

Init ==
  /\ helper = Idle /\ pending = <<>> /\ made = <<>>
  /\ clock \in 0 .. Period - 1 /\ t0 = 0 /\ returned = <<>>

Next ==
  \/ \E a, b \in Sizes : StaticFor(a, b) \/ ForEachIndexPair(a, b)
  \/ \E args \in SeqOf(Results, MaxArgs) : CallForEachArg(args)
  \/ \E arg \in Results : WrapFunction(arg) \/ MeasureTime(arg) \/ MeasureTime_AlwaysReturn(arg)
  \/ \E result \in Results \cup {none, thrown}, ticks \in 0 .. MaxTicks : Invoke(result, ticks)
  \/ Return

Spec == Init /\ [][Next]_vars

-----------------------------------------------------------------------------
Arguments == [n \in DOMAIN made |-> made[n].argument]

Before(p, q) == p[1] < q[1] \/ (p[1] = q[1] /\ p[2] < q[2])

\* Row by row, every pair of indices once - and as many of them, from the first on,
\* as the product of the sizes leaves, where it does not fit size_t.
VisitsRowMajor ==
  LET rows == helper.with[1]
      columns == helper.with[2]
      ahead == {p \in (0 .. rows - 1) \X (0 .. columns - 1) :
                  \A n \in DOMAIN made : Before(Arguments[n], p)}
  IN /\ \A n \in DOMAIN made : Arguments[n] \in (0 .. rows - 1) \X (0 .. columns - 1)
     /\ \A m, n \in DOMAIN made : m < n => Before(Arguments[m], Arguments[n])
     /\ Len(made) + Cardinality(ahead) = rows * columns
     /\ (returned # <<>> /\ rows * columns < SizeT) => ahead = {}

\* The time says how long the call took, to a unit, and what came before it or
\* after is not counted.
MeasuresTheCall ==
  /\ Arguments = helper.with
  /\ LET took == made[1].ended - made[1].began
         time == Head(returned[1].values)
     IN /\ time * Period <= took
        /\ took < (time + 1) * Period
        /\ Tail(returned[1].values) = IF made[1].result = none THEN <<>> ELSE <<made[1].result>>
  /\ ~returned[1].tuple => helper.name = "MeasureTime"

\* Nothing is called after a call that threw, and nothing is returned then; a
\* helper that returns has made the calls asked for, in their order, each once, the
\* wrapper's with what the target returned; and the time measured is the call's.
CallsAsAsked ==
  /\ \A n \in DOMAIN made : made[n].result = thrown => (n = Len(made) /\ returned = <<>>)
  /\ helper.name = "ArrayIndices2d" => VisitsRowMajor
  /\ helper.name = "StaticFor" => \A n \in DOMAIN made : Arguments[n] = helper.with[1] + n - 1
  /\ returned # <<>> =>
       CASE helper.name = "StaticFor" -> Len(made) = helper.with[2] - helper.with[1]
         [] helper.name = "CallForEachArg" -> Arguments = helper.with
         [] Wrapping ->
              /\ Arguments = <<helper.with[1], made[1].result>>
              /\ returned = <<made[2].result>>
         [] Measuring -> MeasuresTheCall
         [] OTHER -> TRUE
=============================================================================
