--------------------------- MODULE FrameRateCounter ---------------------------
(***************************************************************************)
(* edt::FrameRateCounter (frame_rate_counter.hpp): the average duration of *)
(* the latest ticks, from a ring of ticks and their running sum.           *)
(***************************************************************************)
EXTENDS Integers, Sequences, Functions

CONSTANTS
  Fps,            \* the frame rates asked for
  DefaultFps,     \* 60
  Ticks,          \* the durations passed in
  Second,         \* one second in units of Duration: 10^9
  RepSize         \* the number of values of Duration's representation: 2^64

\* A rate of 0 divides by zero, in CalcDesiredFrameDuration and, the ring being
\* empty, in CalcAverageTick: the class leaves it to the caller not to ask for it.
\* Durations are signed, and the sum of a window must not overflow.
CounterAssumption ==
  /\ Fps \subseteq Nat \ {0} /\ DefaultFps \in Fps
  /\ Second \in Nat /\ RepSize \in Nat \ {0}
  /\ \E longest \in 0 .. RepSize :
       /\ Ticks \subseteq -longest .. longest
       /\ \A fps \in Fps : ((fps * 3) \div 2) * (2 * longest + 1) <= RepSize

VARIABLES
  tick_index_,
  tick_sum_,
  ticks_,                     \* the ring: a function from 0 .. ticks_.size() - 1
  desired_fps_,
  desired_frame_duration_,
  average,                    \* what the latest CalcAverageTick returned
  fed                         \* the latest ticks since SetDesiredFps, oldest first

vars == <<tick_index_, tick_sum_, ticks_, desired_fps_, desired_frame_duration_, average, fed>>

WindowFor(fps) == (fps * 3) \div 2

Window == WindowFor(desired_fps_)

\* tick_sum_ / ticks_.size(): the divisor is a size_t, so the sum is converted to
\* an unsigned representation before the division, and the quotient back after it.
Signed(v) == IF 2 * v >= RepSize THEN v - RepSize ELSE v
Divided(sum) == Signed((sum % RepSize) \div Window)

SetFps(fps) ==
  /\ desired_fps_' = fps
  /\ ticks_' = [i \in 0 .. WindowFor(fps) - 1 |-> 0]
  /\ tick_index_' = 0
  /\ tick_sum_' = 0
  /\ desired_frame_duration_' = Second \div fps

SetDesiredFps(fps) == SetFps(fps) /\ fed' = <<>> /\ UNCHANGED average

Latest(ticks) == IF Len(ticks) > Window THEN Tail(ticks) ELSE ticks

\* Mutant: the ring's last slot is never used.
CalcAverageTick_ShortRing(new_tick) ==
  /\ tick_sum_' = tick_sum_ - ticks_[tick_index_] + new_tick
  /\ ticks_' = [ticks_ EXCEPT ![tick_index_] = new_tick]
  /\ tick_index_' = IF tick_index_ + 1 >= Window - 1 THEN 0 ELSE tick_index_ + 1
  /\ average' = Divided(tick_sum_')
  /\ fed' = Latest(Append(fed, new_tick))
  /\ UNCHANGED <<desired_fps_, desired_frame_duration_>>

CalcAverageTick(new_tick) ==
  /\ tick_sum_' = tick_sum_ - ticks_[tick_index_] + new_tick
  /\ ticks_' = [ticks_ EXCEPT ![tick_index_] = new_tick]
  /\ tick_index_' = IF tick_index_ + 1 = Window THEN 0 ELSE tick_index_ + 1
  /\ average' = Divided(tick_sum_')
  /\ fed' = Latest(Append(fed, new_tick))
  /\ UNCHANGED <<desired_fps_, desired_frame_duration_>>

Init ==
  /\ desired_fps_ = DefaultFps
  /\ ticks_ = [i \in 0 .. WindowFor(DefaultFps) - 1 |-> 0]
  /\ tick_index_ = 0
  /\ tick_sum_ = 0
  /\ desired_frame_duration_ = Second \div DefaultFps
  /\ average = 0
  /\ fed = <<>>

Next ==
  \/ \E fps \in Fps : SetDesiredFps(fps)
  \/ \E tick \in Ticks : CalcAverageTick(tick)

Spec == Init /\ [][Next]_vars

-----------------------------------------------------------------------------
Total(ticks) == FoldFunction(LAMBDA tick, sum : tick + sum, 0, ticks)

\* Every tick enters the average with its full weight and leaves it after exactly
\* a window's worth of later ones; until the window is full, zeros make it up.
\* While a clock that stepped back makes the sum of the window negative, the average
\* is longer than any tick, unless the window is of one tick, which is returned as
\* it is; and it is right again once the sum is.
AverageOfTheWindow ==
  [][\A tick \in Ticks : CalcAverageTick(tick) =>
       LET total == Total(fed') IN
         IF total >= 0 THEN average' = total \div Window
         ELSE IF Window = 1 THEN average' = total
         ELSE \A n \in DOMAIN fed' : average' > fed'[n]]_vars
=============================================================================
