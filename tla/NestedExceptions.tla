--------------------------- MODULE NestedExceptions ---------------------------
(***************************************************************************)
(* edt::CallAndRethrow (exception/call_and_rethrow.hpp), nested calls of   *)
(* which wrap what comes out of the innermost one level by level, and      *)
(* edt::PrintException (exception/print_exception.hpp), which unwraps it.  *)
(***************************************************************************)
EXTENDS Naturals, Sequences

CONSTANTS
  Messages,
  unknown,       \* an object thrown that is no std::exception
  MaxDepth       \* bound on the depth of nested calls

ExceptionsAssumption == unknown \notin Messages /\ MaxDepth \in Nat

VARIABLES
  frames,        \* the calls of CallAndRethrow in progress, outermost first: their messages
  flight,        \* the exception on its way: what() of each level, outermost first
  printing,      \* the levels PrintException has not come to yet
  nesting_depth,
  output,        \* the lines printed
  context        \* ghost: the messages in force where the exception was thrown, and its own

vars == <<frames, flight, printing, nesting_depth, output, context>>

Line(depth, what) == [depth |-> depth, what |-> what]

Init ==
  /\ frames = <<>> /\ flight = <<>> /\ printing = <<>>
  /\ nesting_depth = 0 /\ output = <<>> /\ context = <<>>

Running == flight = <<>> /\ printing = <<>>

Call(message) ==
  /\ Running /\ Len(frames) < MaxDepth
  /\ frames' = Append(frames, message)
  /\ output' = <<>> /\ context' = <<>>
  /\ UNCHANGED <<flight, printing, nesting_depth>>

\* f() returns, and so does CallAndRethrow.
Return ==
  /\ Running /\ frames # <<>>
  /\ frames' = SubSeq(frames, 1, Len(frames) - 1)
  /\ UNCHANGED <<flight, printing, nesting_depth, output, context>>

\* f() throws, by ThrowIfFailed or otherwise.
Throw(what) ==
  /\ Running /\ frames # <<>>
  /\ flight' = <<what>>
  /\ output' = <<>> /\ context' = Append(frames, what)
  /\ UNCHANGED <<frames, printing, nesting_depth>>

\* Mutant: the new exception replaces the one caught.
Rethrow_Replaces ==
  /\ flight # <<>> /\ frames # <<>>
  /\ flight' = <<frames[Len(frames)]>>
  /\ frames' = SubSeq(frames, 1, Len(frames) - 1)
  /\ UNCHANGED <<printing, nesting_depth, output, context>>

\* catch (...): what was caught is nested in a new exception with this call's message.
Rethrow ==
  /\ flight # <<>> /\ frames # <<>>
  /\ flight' = <<frames[Len(frames)]>> \o flight
  /\ frames' = SubSeq(frames, 1, Len(frames) - 1)
  /\ UNCHANGED <<printing, nesting_depth, output, context>>

\* A caller further out catches the std::exception before it leaves the remaining
\* calls, and has it printed.
CatchAndPrint ==
  /\ flight # <<>> /\ flight[1] # unknown
  /\ printing' = flight /\ nesting_depth' = 0
  /\ output' = <<>> /\ flight' = <<>>
  /\ context' = SubSeq(context, Len(frames) + 1, Len(context))
  /\ UNCHANGED frames

\* Mutant: the depth is not passed on.
PrintLevel_SameDepth ==
  /\ printing # <<>> /\ printing[1] # unknown
  /\ output' = Append(output, Line(nesting_depth, printing[1]))
  /\ printing' = Tail(printing)
  /\ UNCHANGED <<frames, flight, nesting_depth, context>>

\* PrintException, and its call of itself for the exception nested in this one.
PrintLevel ==
  /\ printing # <<>> /\ printing[1] # unknown
  /\ output' = Append(output, Line(nesting_depth, printing[1]))
  /\ printing' = Tail(printing) /\ nesting_depth' = nesting_depth + 1
  /\ UNCHANGED <<frames, flight, context>>

\* catch (...): the innermost object is no std::exception.
PrintUnknown ==
  /\ printing # <<>> /\ printing[1] = unknown
  /\ output' = Append(output, Line(nesting_depth, unknown))
  /\ printing' = Tail(printing)
  /\ UNCHANGED <<frames, flight, nesting_depth, context>>

Next ==
  \/ \E message \in Messages : Call(message)
  \/ Return
  \/ \E what \in Messages \cup {unknown} : Throw(what)
  \/ Rethrow
  \/ CatchAndPrint
  \/ PrintLevel
  \/ PrintUnknown

Spec == Init /\ [][Next]_vars

-----------------------------------------------------------------------------
\* Whatever is thrown however deep, what is printed names every call between the
\* handler and the throw, outermost first, each once and one level deeper than the
\* one before, and last the cause; nothing is lost on the way.
PrintsEveryLevel ==
  (printing = <<>> /\ output # <<>>) =>
    output = [n \in 1 .. Len(context) |-> Line(n - 1, context[n])]
=============================================================================
