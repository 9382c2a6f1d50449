----------------------------- MODULE Counters -----------------------------
(***************************************************************************)
(* Hart::incrementCounters and what software does to its state: the        *)
(* counter CSRs, each a pair of 32-bit halves, the timer of the SBI call   *)
(* set_timer and the host's clock.  stepInstruction is one step here: the  *)
(* effect of the instruction on this state, then incrementCounters.        *)
(* Instructions that throw end the emulation and are left out; which mode  *)
(* may execute what is the matter of Hart, here any software may be in the *)
(* mode that it needs.                                                     *)
(***************************************************************************)
EXTENDS Integers

CONSTANTS
  Word,             \* values of a half, 2^32 in the code
  Uint64,           \* values of the duration, 2^64 in the code
  timebasePeriod,   \* nanoseconds of a tick, 100 in main.cpp
  InitialCounters,  \* what a counter may start with
  TimerValues,      \* arguments of set_timer
  Immediates,       \* immediates of CSRRSI and CSRRCI on a counter
  Advances,         \* nanoseconds by which the host's clock moves on (or back)
  MaxElapsed        \* bound: the clock moves no further between two ticks

Half == 0 .. (Word - 1)
Pair == [lo : Half, hi : Half]
Wide == Word * Word

ASSUME CountersAssumption ==
  /\ Word \in Nat \ {0}
  /\ Uint64 \in Nat \ {0}
  /\ timebasePeriod \in Nat \ {0}
  /\ InitialCounters \subseteq Pair
  /\ TimerValues \subseteq 0 .. (Wide - 1)
  /\ Immediates \subseteq Half
  /\ Advances \subseteq Int
  /\ MaxElapsed \in Nat

VARIABLES
  csr,          \* the halves of the counters cycle, time and instret
  timeCompare,  \* the argument of the last set_timer, or 0
  stip,         \* the timer interrupt is pending in sip
  elapsed,      \* what the host's clock shows, minus lastTime
  instruction   \* history: the kind of the last instruction

vars == <<csr, timeCompare, stip, elapsed, instruction>>

Kinds == {"plain", "set_timer", "sip", "counter"}

TypeOK ==
  /\ csr \in [cycle : Pair, time : Pair, instret : Pair]
  /\ timeCompare \in 0 .. (Wide - 1)
  /\ stip \in BOOLEAN
  /\ elapsed \in Int
  /\ instruction \in Kinds

Init ==
  /\ csr \in [cycle   : InitialCounters,
              time    : InitialCounters,
              instret : InitialCounters]
  /\ timeCompare = 0
  /\ stip \in BOOLEAN
  /\ elapsed = 0
  /\ instruction = "plain"

-----------------------------------------------------------------------------
(* incrementCounters *)

\* The number that two halves stand for.
Joined(c) == c.hi * Word + c.lo
Split(v)  == [lo |-> v % Word, hi |-> v \div Word]

\* duration is unsigned.  The tick is none before timebasePeriod has
\* passed.  Ticks_Up is a form of it that counts a tick begun.
Ticks_Up(ns) == ((ns % Uint64) + timebasePeriod - 1) \div timebasePeriod

Ticks(ns) == (ns % Uint64) \div timebasePeriod

\* An increment that looks for the carry after it has been lost.
Incremented_CarryLate(c) ==
  [lo |-> (c.lo + 1) % Word,
   hi |-> IF (c.lo + 1) % Word = Word - 1 THEN (c.hi + 1) % Word ELSE c.hi]

Incremented_NoWrap(c) ==
  [lo |-> (c.lo + 1) % Word,
   hi |-> IF c.lo = Word - 1 THEN c.hi + 1 ELSE c.hi]

Incremented(c) ==
  [lo |-> (c.lo + 1) % Word,
   hi |-> IF c.lo = Word - 1 THEN (c.hi + 1) % Word ELSE c.hi]

\* lastTime set by every call, not only by a tick.
Remaining_Always(ns) == 0

\* A tick sets lastTime, and with it drops what duration had over.
Remaining(ns) == IF Ticks(ns) > 0 THEN 0 ELSE ns

\* After an instruction that leaves the counters at c, the timer at compare
\* and its interrupt at pending.
IncrementCounters(c, compare, pending) ==
  LET time == Split((Joined(c.time) + Ticks(elapsed)) % Wide)
  IN  /\ csr' = [cycle   |-> Incremented(c.cycle),
                 time    |-> time,
                 instret |-> Incremented(c.instret)]
      /\ timeCompare' = compare
      /\ stip' = (pending \/ (Ticks(elapsed) > 0 /\ Joined(time) >= compare))
      /\ elapsed' = Remaining(elapsed)

-----------------------------------------------------------------------------
(* Instructions *)

\* Every instruction that is none of the following.
Plain ==
  /\ instruction' = "plain"
  /\ IncrementCounters(csr, timeCompare, stip)

SetTimer ==
  /\ instruction' = "set_timer"
  /\ \E t \in TimerValues : IncrementCounters(csr, t, FALSE)

\* A CSR instruction of the supervisor on sip.
WriteSip ==
  /\ instruction' = "sip"
  /\ \E p \in BOOLEAN : IncrementCounters(csr, timeCompare, p)

\* The bits of a half that are 1.
Bits(h) == {i \in Half : (h \div 2^i) % 2 = 1}

\* CSRRSI and CSRRCI on a half of a counter: permissionCheck2 looks at the
\* register whose number is the immediate, and lets the write pass when
\* that register holds 0.
WriteCounter ==
  /\ instruction' = "counter"
  /\ \E name \in {"cycle", "time", "instret"}, half \in {"lo", "hi"},
        imm \in Immediates, new \in Half :
       /\ \/ Bits(new) = Bits(csr[name][half]) \cup Bits(imm)
          \/ Bits(new) = Bits(csr[name][half]) \ Bits(imm)
       /\ IncrementCounters([csr EXCEPT ![name][half] = new],
                            timeCompare, stip)

Step == Plain \/ SetTimer \/ WriteSip \/ WriteCounter

\* The host's clock, which is the wall clock, between two readings of it.
PassTime ==
  /\ \E ns \in Advances :
       /\ elapsed + ns \in (-MaxElapsed) .. MaxElapsed
       /\ elapsed' = elapsed + ns
  /\ UNCHANGED <<csr, timeCompare, stip, instruction>>

Next == Step \/ PassTime

Spec == Init /\ [][Next]_vars

\* main's loop goes on calling stepInstruction, and the clock does not stop.
FairSpec == Spec /\ WF_vars(Step) /\ WF_vars(PassTime)

-----------------------------------------------------------------------------
(* Properties *)

\* The halves, their carries by hand and the recomposed time behave as
\* three wide counters and a timer that compares with one of them.
WC == INSTANCE WideCounters WITH
        cycle    <- Joined(csr.cycle),
        instret  <- Joined(csr.instret),
        time     <- Joined(csr.time),
        deadline <- timeCompare,
        pending  <- stip

ImplementsWideCounters == WC!Spec

\* A deadline that has come makes the interrupt pending, also a deadline
\* that had passed when set_timer was called, and however often software
\* sets the timer or clears the interrupt; unless time or the deadline is
\* moved.
TimerFires ==
  Joined(csr.time) >= timeCompare ~> stip \/ Joined(csr.time) < timeCompare

\* The guest's time does not run ahead of the host's: when the clock shows no
\* less than at the last tick, a step moves time on by no more ticks than have
\* passed since.  About hart.cpp:601-616.  Of a clock that has been set back
\* nothing is said: the difference is then cast to unsigned.
TimeNotAhead ==
  [][instruction' # "counter" /\ elapsed >= 0 =>
       LET moved == (Joined(csr'.time) - Joined(csr.time)) % Wide
       IN  moved = 0 \/ moved * timebasePeriod <= elapsed]_vars
=============================================================================
