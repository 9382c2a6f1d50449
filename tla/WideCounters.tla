--------------------------- MODULE WideCounters ---------------------------
(***************************************************************************)
(* What the counters and the timer of the hart promise: three counters,    *)
(* each one number, of which cycle and instret count every instruction and *)
(* time counts ticks of a clock, and a timer that is pending from the tick *)
(* that reaches its deadline until software clears it.                     *)
(***************************************************************************)
EXTENDS Integers

CONSTANT Wide  \* the counters count modulo Wide

Value == 0 .. (Wide - 1)

VARIABLES
  cycle, instret, time,  \* the counters
  deadline,              \* the time the timer is set to
  pending,               \* the timer interrupt is pending
  instruction            \* the kind of the last instruction

vars == <<cycle, instret, time, deadline, pending, instruction>>

Init ==
  /\ cycle \in Value
  /\ instret \in Value
  /\ time \in Value
  /\ deadline \in Value
  /\ pending \in BOOLEAN
  /\ instruction = "plain"

\* An instruction that leaves the counters at c, i and t and the timer at d
\* and p has been executed: count it, and perhaps some ticks of the clock.
Count(c, i, t, d, p) ==
  /\ cycle' = (c + 1) % Wide
  /\ instret' = (i + 1) % Wide
  /\ deadline' = d
  /\ \E ticked \in BOOLEAN :
       /\ time' \in IF ticked THEN Value ELSE {t}
       /\ pending' = (p \/ (ticked /\ time' >= d))

Plain ==
  /\ instruction' = "plain"
  /\ Count(cycle, instret, time, deadline, pending)

SetTimer ==
  /\ instruction' = "set_timer"
  /\ \E d \in Value : Count(cycle, instret, time, d, FALSE)

WriteSip ==
  /\ instruction' = "sip"
  /\ \E p \in BOOLEAN : Count(cycle, instret, time, deadline, p)

\* One counter is written, and none of the others notices.
WriteCounter ==
  /\ instruction' = "counter"
  /\ \E v \in Value :
       \/ Count(v, instret, time, deadline, pending)
       \/ Count(cycle, v, time, deadline, pending)
       \/ Count(cycle, instret, v, deadline, pending)

Next == Plain \/ SetTimer \/ WriteSip \/ WriteCounter

Spec == Init /\ [][Next]_vars
=============================================================================
