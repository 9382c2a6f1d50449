-------------------------- MODULE CountersProofs --------------------------
(***************************************************************************)
(* Theorems about Counters, for words and ticks of every size.             *)
(***************************************************************************)
EXTENDS Counters, Arithmetic

-----------------------------------------------------------------------------
(* Halves *)

LEMMA WideIsNat == Wide \in Nat \ {0} /\ Word \in Nat \ {0}
  BY CountersAssumption, SMT DEF Wide

\* Two halves are a number below Wide.
LEMMA JoinedInRange ==
  \A c \in Pair : Joined(c) \in 0 .. (Wide - 1)
<1> SUFFICES ASSUME NEW c \in Pair PROVE Joined(c) \in 0 .. (Wide - 1)
  OBVIOUS
<1>1. c.hi \in 0 .. (Word - 1) /\ c.lo \in 0 .. (Word - 1)
  BY DEF Pair, Half
<1>2. c.hi * Word <= (Word - 1) * Word
  BY <1>1, Monotone, WideIsNat
<1>3. (Word - 1) * Word = Wide - Word
  BY WideIsNat DEF Wide
<1>4. c.hi * Word \in Nat
  BY <1>1, WideIsNat
<1>5. \A p \in Nat : p <= Wide - Word => p + c.lo \in 0 .. (Wide - 1)
  BY <1>1, WideIsNat
<1>6. c.hi * Word <= Wide - Word
  BY <1>2, <1>3
<1> QED
  BY <1>4, <1>5, <1>6 DEF Joined

\* A number below Wide is split into two halves without a loss.
LEMMA SplitJoined ==
  \A v \in 0 .. (Wide - 1) : Split(v) \in Pair /\ Joined(Split(v)) = v
<1> SUFFICES ASSUME NEW v \in 0 .. (Wide - 1)
             PROVE  Split(v) \in Pair /\ Joined(Split(v)) = v
  OBVIOUS
<1> DEFINE q == v \div Word
<1>1. v \in Nat /\ v < Word * Word
  <2>1. v \in Nat /\ v < Wide
    BY WideIsNat
  <2> QED
    BY <2>1 DEF Wide
<1>2. q \in Nat /\ v % Word \in 0 .. (Word - 1) /\ v = Word * q + (v % Word)
  <2>1. v \in Nat /\ v \in Int /\ Word \in Nat \ {0}
    BY <1>1, WideIsNat
  <2>2. v % Word \in 0 .. (Word - 1) /\ v = Word * (v \div Word) + (v % Word)
    BY <2>1, DivMod
  <2>3. v \div Word \in Nat
    BY <2>1, QuotientNat
  <2> QED
    BY <2>2, <2>3
<1>3. q < Word
  <2>1. SUFFICES ASSUME Word <= q PROVE FALSE
    BY <1>2, WideIsNat
  <2>2. Word * Word <= q * Word
    BY <2>1, <1>2, WideIsNat, Monotone
  <2> QED
    BY <2>2, <1>1, <1>2, WideIsNat
<1>4. Split(v) \in Pair
  <2>1. q \in 0 .. (Word - 1)
    BY <1>2, <1>3, WideIsNat
  <2> QED
    BY <1>2, <2>1 DEF Split, Pair, Half
<1>5. Joined(Split(v)) = q * Word + (v % Word)
  BY DEF Joined, Split
<1> QED
  BY <1>2, <1>4, <1>5, WideIsNat

\* The carry made by hand is that of the number: the halves of a counter
\* count like one counter of twice the width.
LEMMA IncrementedCounts ==
  \A c \in Pair : /\ Incremented(c) \in Pair
                  /\ Joined(Incremented(c)) = (Joined(c) + 1) % Wide
<1> SUFFICES ASSUME NEW c \in Pair
             PROVE  /\ Incremented(c) \in Pair
                    /\ Joined(Incremented(c)) = (Joined(c) + 1) % Wide
  OBVIOUS
<1>1. c.hi \in 0 .. (Word - 1) /\ c.lo \in 0 .. (Word - 1)
  BY DEF Pair, Half
<1>2. Joined(c) \in 0 .. (Wide - 1)
  BY JoinedInRange
<1>3. CASE c.lo # Word - 1
  <2>1. (c.lo + 1) % Word = c.lo + 1
    BY <1>1, <1>3, ModSmall, WideIsNat
  <2>2. Incremented(c) = [lo |-> c.lo + 1, hi |-> c.hi]
    BY <1>3, <2>1 DEF Incremented
  <2>3. Incremented(c) \in Pair
    BY <1>1, <1>3, <2>2, WideIsNat DEF Pair, Half
  <2>4. Joined(Incremented(c)) = Joined(c) + 1
    BY <1>1, <2>2, WideIsNat DEF Joined
  <2>5. Joined(c) + 1 \in 0 .. (Wide - 1)
    BY <2>3, <2>4, JoinedInRange
  <2> QED
    BY <2>3, <2>4, <2>5, ModSmall, WideIsNat, <1>2
<1>4. CASE c.lo = Word - 1 /\ c.hi # Word - 1
  <2>1. (c.lo + 1) % Word = 0
    BY <1>4, DivMod, WideIsNat
  <2>2. (c.hi + 1) % Word = c.hi + 1
    BY <1>1, <1>4, ModSmall, WideIsNat
  <2>3. Incremented(c) = [lo |-> 0, hi |-> c.hi + 1]
    BY <1>4, <2>1, <2>2 DEF Incremented
  <2>4. Incremented(c) \in Pair
    BY <1>1, <1>4, <2>3, WideIsNat DEF Pair, Half
  <2>5. Joined(Incremented(c)) = Joined(c) + 1
    BY <1>1, <1>4, <2>3, WideIsNat DEF Joined
  <2>6. Joined(c) + 1 \in 0 .. (Wide - 1)
    BY <2>4, <2>5, JoinedInRange
  <2> QED
    BY <2>4, <2>5, <2>6, ModSmall, WideIsNat, <1>2
<1>5. CASE c.lo = Word - 1 /\ c.hi = Word - 1
  <2>1. (c.lo + 1) % Word = 0 /\ (c.hi + 1) % Word = 0
    BY <1>5, DivMod, WideIsNat
  <2>2. Incremented(c) = [lo |-> 0, hi |-> 0]
    BY <1>5, <2>1 DEF Incremented
  <2>3. Incremented(c) \in Pair /\ Joined(Incremented(c)) = 0
    BY <2>2, WideIsNat DEF Pair, Half, Joined
  <2>4. Joined(c) + 1 = Wide
    BY <1>5, WideIsNat DEF Joined, Wide
  <2>5. Wide % Wide = 0
    BY DivMod, WideIsNat
  <2> QED
    BY <2>3, <2>4, <2>5
<1> QED
  BY <1>3, <1>4, <1>5

-----------------------------------------------------------------------------
(* One step *)

LEMMA TicksNat == \A ns \in Int : Ticks(ns) \in Nat
  BY DivMod, QuotientNat, CountersAssumption DEF Ticks

Registers == [cycle : Pair, time : Pair, instret : Pair]

\* Whatever the instruction leaves behind, incrementCounters keeps the types
\* and does what the abstract counters do.
LEMMA IncrementCountersCounts ==
  ASSUME NEW c \in Registers, NEW compare \in 0 .. (Wide - 1),
         NEW pending \in BOOLEAN, elapsed \in Int,
         IncrementCounters(c, compare, pending)
  PROVE  /\ csr' \in Registers
         /\ timeCompare' \in 0 .. (Wide - 1)
         /\ stip' \in BOOLEAN
         /\ elapsed' \in Int
         /\ WC!Count(Joined(c.cycle), Joined(c.instret), Joined(c.time),
                     compare, pending)
<1> DEFINE ticks == Ticks(elapsed)
           sum   == Joined(c.time) + ticks
<1>1. ticks \in Nat /\ Joined(c.time) \in 0 .. (Wide - 1)
  BY TicksNat, JoinedInRange DEF Registers
<1>2. sum % Wide \in 0 .. (Wide - 1)
  <2>1. sum \in Int /\ Wide \in Nat \ {0}
    BY <1>1, WideIsNat
  <2> QED
    BY <2>1, DivMod
<1>3. Split(sum % Wide) \in Pair /\ Joined(Split(sum % Wide)) = sum % Wide
  BY <1>2, SplitJoined
<1>4. csr' = [cycle   |-> Incremented(c.cycle),
              time    |-> Split(sum % Wide),
              instret |-> Incremented(c.instret)]
  BY DEF IncrementCounters
<1>5. csr' \in Registers
  BY <1>3, <1>4, IncrementedCounts DEF Registers
<1>6. /\ Joined(csr'.cycle) = (Joined(c.cycle) + 1) % Wide
      /\ Joined(csr'.instret) = (Joined(c.instret) + 1) % Wide
      /\ Joined(csr'.time) = sum % Wide
  BY <1>3, <1>4, IncrementedCounts DEF Registers
<1>7. timeCompare' = compare
  BY DEF IncrementCounters
<1>8. stip' = (pending \/ (ticks > 0 /\ sum % Wide >= compare))
  BY <1>3 DEF IncrementCounters
<1>9. elapsed' \in Int
  BY DEF IncrementCounters, Remaining
<1>10. ticks = 0 => sum % Wide = Joined(c.time)
  BY <1>1, ModSmall, WideIsNat
<1>11. WC!Count(Joined(c.cycle), Joined(c.instret), Joined(c.time),
                compare, pending)
  <2>1. (ticks > 0) \in BOOLEAN
    OBVIOUS
  <2>2. Joined(csr'.time) \in IF ticks > 0 THEN WC!Value
                              ELSE {Joined(c.time)}
    <3>1. CASE ticks > 0
      BY <1>2, <1>6, <3>1 DEF WC!Value
    <3>2. CASE ~(ticks > 0)
      <4>1. ticks = 0
        BY <1>1, <3>2
      <4> QED
        BY <1>6, <1>10, <3>2, <4>1
    <3> QED
      BY <3>1, <3>2
  <2>3. stip' = (pending \/ (ticks > 0 /\ Joined(csr'.time) >= compare))
    BY <1>6, <1>8
  <2> QED
    BY <1>6, <1>7, <2>1, <2>2, <2>3 DEF WC!Count
<1>12. stip' \in BOOLEAN
  BY <1>8
<1> QED
  BY <1>5, <1>7, <1>9, <1>11, <1>12

\* Every instruction keeps the types and is one of the abstract ones.
LEMMA StepImplements ==
  ASSUME TypeOK, Step
  PROVE  TypeOK' /\ WC!Next
<1>1. /\ csr \in Registers /\ timeCompare \in 0 .. (Wide - 1)
      /\ stip \in BOOLEAN /\ elapsed \in Int
  BY DEF TypeOK, Registers
<1>2. CASE Plain
  <2>1. IncrementCounters(csr, timeCompare, stip) /\ instruction' = "plain"
    BY <1>2 DEF Plain
  <2> QED
    BY <1>1, <2>1, IncrementCountersCounts
    DEF TypeOK, Registers, Kinds, WC!Next, WC!Plain
<1>3. CASE SetTimer
  <2>1. PICK t \in TimerValues : IncrementCounters(csr, t, FALSE)
    BY <1>3 DEF SetTimer
  <2>2. instruction' = "set_timer" /\ t \in 0 .. (Wide - 1)
    BY <1>3, CountersAssumption DEF SetTimer
  <2> QED
    BY <1>1, <2>1, <2>2, IncrementCountersCounts
    DEF TypeOK, Registers, Kinds, WC!Next, WC!SetTimer, WC!Value
<1>4. CASE WriteSip
  <2>1. PICK p \in BOOLEAN : IncrementCounters(csr, timeCompare, p)
    BY <1>4 DEF WriteSip
  <2>2. instruction' = "sip"
    BY <1>4 DEF WriteSip
  <2> QED
    BY <1>1, <2>1, <2>2, IncrementCountersCounts
    DEF TypeOK, Registers, Kinds, WC!Next, WC!WriteSip
<1>5. CASE WriteCounter
  <2>1. PICK name \in {"cycle", "time", "instret"}, half \in {"lo", "hi"},
             new \in Half :
          IncrementCounters([csr EXCEPT ![name][half] = new],
                            timeCompare, stip)
    BY <1>5 DEF WriteCounter
  <2> DEFINE c == [csr EXCEPT ![name][half] = new]
  <2>2. c \in Registers
    BY <1>1 DEF Registers, Pair
  <2>3. instruction' = "counter"
    BY <1>5 DEF WriteCounter
  <2>4. /\ name # "cycle" => c.cycle = csr.cycle
        /\ name # "time" => c.time = csr.time
        /\ name # "instret" => c.instret = csr.instret
    BY <1>1 DEF Registers
  <2>5. /\ csr' \in Registers /\ timeCompare' \in 0 .. (Wide - 1)
        /\ stip' \in BOOLEAN /\ elapsed' \in Int
        /\ WC!Count(Joined(c.cycle), Joined(c.instret), Joined(c.time),
                    timeCompare, stip)
    BY <1>1, <2>1, <2>2, IncrementCountersCounts
  <2>6. /\ Joined(c.cycle) \in WC!Value /\ Joined(c.instret) \in WC!Value
        /\ Joined(c.time) \in WC!Value
    BY <2>2, JoinedInRange DEF WC!Value, Registers
  <2>7. WC!WriteCounter
    BY <2>3, <2>4, <2>5, <2>6 DEF WC!WriteCounter
  <2> QED
    BY <2>3, <2>5, <2>7 DEF TypeOK, Registers, Kinds, WC!Next
<1> QED
  BY <1>2, <1>3, <1>4, <1>5 DEF Step

-----------------------------------------------------------------------------
(* Theorems *)

\* The halves of the counters stay halves: no carry leaves 32 bits.
THEOREM CountersTypeCorrect == Spec => []TypeOK
<1>1. Init => TypeOK
  BY CountersAssumption, WideIsNat DEF Init, TypeOK, Kinds
<1>2. TypeOK /\ [Next]_vars => TypeOK'
  <2> SUFFICES ASSUME TypeOK, [Next]_vars PROVE TypeOK'
    OBVIOUS
  <2>1. CASE Step
    BY <2>1, StepImplements
  <2>2. CASE PassTime
    BY <2>2, CountersAssumption DEF PassTime, TypeOK
  <2>3. CASE UNCHANGED vars
    BY <2>3 DEF vars, TypeOK
  <2> QED
    BY <2>1, <2>2, <2>3 DEF Next
<1> QED
  BY <1>1, <1>2, PTL DEF Spec

\* Counters implements the abstract WideCounters, whatever the width of a
\* half is and whatever software writes.
THEOREM HalvesAreWide == Spec => ImplementsWideCounters
<1>1. Init => WC!Init
  <2> SUFFICES ASSUME Init PROVE WC!Init
    OBVIOUS
  <2>1. csr.cycle \in Pair /\ csr.time \in Pair /\ csr.instret \in Pair
    BY CountersAssumption DEF Init
  <2> QED
    BY <2>1, JoinedInRange, WideIsNat DEF Init, WC!Init, WC!Value
<1>2. TypeOK /\ [Next]_vars => [WC!Next]_(WC!vars)
  <2> SUFFICES ASSUME TypeOK, [Next]_vars PROVE [WC!Next]_(WC!vars)
    OBVIOUS
  <2>1. CASE Step
    BY <2>1, StepImplements
  <2>2. CASE PassTime
    BY <2>2 DEF PassTime, WC!vars
  <2>3. CASE UNCHANGED vars
    BY <2>3 DEF vars, WC!vars
  <2> QED
    BY <2>1, <2>2, <2>3 DEF Next
<1> QED
  BY <1>1, <1>2, CountersTypeCorrect, PTL
  DEF Spec, ImplementsWideCounters, WC!Spec

-----------------------------------------------------------------------------
(* The clock *)

\* Adding t modulo m moves a number by at most t, modulo m.
LEMMA MovedAtMost ==
  ASSUME NEW m \in Nat \ {0}, NEW v \in 0 .. (m - 1), NEW t \in Nat
  PROVE  /\ (((v + t) % m) - v) % m \in Nat
         /\ (((v + t) % m) - v) % m <= t
<1> DEFINE r == (v + t) % m
<1>1. v + t \in Int /\ v \in Nat /\ v < m
  OBVIOUS
<1>2. r \in 0 .. (m - 1)
  BY <1>1, DivMod
<1>3. r - v \in Int
  BY <1>1, <1>2
<1>4. (r - v) % m \in 0 .. (m - 1)
  BY <1>3, DivMod
<1>5. CASE t >= m
  BY <1>4, <1>5
<1>6. CASE t < m /\ v + t < m
  <2>1. r = v + t
    BY <1>1, <1>6, ModSmall
  <2>2. r - v = t
    BY <1>1, <2>1
  <2>3. (r - v) % m = t
    BY <1>6, <2>2, ModSmall
  <2> QED
    BY <2>3
<1>7. CASE t < m /\ v + t >= m
  <2>1. \A n \in Nat : n >= m /\ n < 2 * m => n % m = n - m
    BY SMT
  <2>2. r = v + t - m
    BY <1>1, <1>7, <2>1
  <2>3. r - v = t - m
    BY <1>1, <2>2
  <2>4. \A n \in Nat : n < m => (n - m) % m = n
    BY SMT
  <2>5. (r - v) % m = t
    BY <1>7, <2>3, <2>4
  <2> QED
    BY <2>5
<1> QED
  BY <1>4, <1>5, <1>6, <1>7

\* The guest's time never runs ahead of a clock that shows no less than at the
\* last tick, for every frequency and every width, and however the clock moves:
\* also after it has been set back and has caught up.
THEOREM NeverAhead == Spec => TimeNotAhead
<1> DEFINE moved == (Joined(csr'.time) - Joined(csr.time)) % Wide
           Due   == instruction' # "counter" /\ elapsed >= 0 =>
                      moved = 0 \/ moved * timebasePeriod <= elapsed
<1>1. ASSUME TypeOK, Step PROVE Due
  <2>1. SUFFICES ASSUME instruction' # "counter", elapsed >= 0 PROVE Due
    OBVIOUS
  <2>2. csr'.time = Split((Joined(csr.time) + Ticks(elapsed)) % Wide)
    BY <1>1, <2>1 DEF Step, Plain, SetTimer, WriteSip, WriteCounter,
                      IncrementCounters
  <2> DEFINE t == Ticks(elapsed)
             v == Joined(csr.time)
  <2>3. v \in 0 .. (Wide - 1) /\ t \in Nat /\ Wide \in Nat \ {0}
    BY <1>1, JoinedInRange, TicksNat, WideIsNat DEF TypeOK
  <2>4. (v + t) % Wide \in 0 .. (Wide - 1)
    <3>1. v + t \in Int
      BY <2>3
    <3> QED
      BY <2>3, <3>1, DivMod
  <2>5. moved = (((v + t) % Wide) - v) % Wide
    BY <2>2, <2>4, SplitJoined
  <2>6. moved \in Nat /\ moved <= t
    BY <2>3, <2>5, MovedAtMost
  <2>7. moved * timebasePeriod <= t * timebasePeriod
    BY <2>3, <2>6, Monotone, CountersAssumption
  <2>8. t * timebasePeriod <= elapsed
    <3> DEFINE duration == elapsed % Uint64
    <3>1. elapsed \in Nat /\ elapsed \in Int /\ Uint64 \in Nat \ {0}
          /\ timebasePeriod \in Nat \ {0}
      BY <1>1, <2>1, CountersAssumption DEF TypeOK
    <3>2. duration \in Nat /\ elapsed = Uint64 * (elapsed \div Uint64) + duration
      BY <3>1, DivMod
    <3>3. elapsed \div Uint64 \in Nat
      BY <3>1, QuotientNat
    <3>4. Uint64 * (elapsed \div Uint64) \in Nat
      BY <3>1, <3>3
    <3>5. duration <= elapsed
      BY <3>1, <3>2, <3>4
    <3>6. duration \in Int
      BY <3>2
    <3>7. /\ duration % timebasePeriod \in 0 .. (timebasePeriod - 1)
          /\ duration = timebasePeriod * (duration \div timebasePeriod)
                           + (duration % timebasePeriod)
      BY <3>1, <3>6, DivMod
    <3>8. t = duration \div timebasePeriod
      BY DEF Ticks
    <3>9. timebasePeriod * t <= duration
      BY <2>3, <3>1, <3>2, <3>7, <3>8
    <3>10. t * timebasePeriod = timebasePeriod * t
      BY <2>3, <3>1
    <3> QED
      BY <2>3, <3>1, <3>2, <3>5, <3>9, <3>10
  <2>9. moved * timebasePeriod \in Nat /\ t * timebasePeriod \in Nat
    BY <2>3, <2>6, CountersAssumption
  <2>10. elapsed \in Nat
    BY <1>1, <2>1 DEF TypeOK
  <2> QED
    BY <2>7, <2>8, <2>9, <2>10
<1>2. ASSUME TypeOK, csr' = csr PROVE Due
  <2>1. Joined(csr.time) \in 0 .. (Wide - 1)
    BY <1>2, JoinedInRange DEF TypeOK
  <2>2. Joined(csr'.time) - Joined(csr.time) = 0
    BY <1>2, <2>1
  <2>3. 0 % Wide = 0
    BY ModSmall, WideIsNat
  <2> QED
    BY <2>2, <2>3
<1>3. TypeOK /\ [Next]_vars => [Due]_vars
  <2> SUFFICES ASSUME TypeOK, [Next]_vars PROVE Due
    OBVIOUS
  <2>1. CASE Step
    BY <1>1, <2>1
  <2>2. CASE PassTime
    BY <1>2, <2>2 DEF PassTime
  <2>3. CASE UNCHANGED vars
    BY <1>2, <2>3 DEF vars
  <2> QED
    BY <2>1, <2>2, <2>3 DEF Next
<1> QED
  BY <1>3, CountersTypeCorrect, PTL DEF Spec, TimeNotAhead

-----------------------------------------------------------------------------
(* What a tick loses.  The instruction comes before the clock has moved     *)
(* further than the duration or time itself can show.                      *)

Soon == elapsed \in Nat /\ elapsed < Uint64 /\ elapsed < Wide * timebasePeriod

\* A step takes off the clock's account what it counts, and a tick also what
\* was left over of the division: that part is never counted.  A step with
\* no tick takes off nothing.
LosesTheRemainder ==
  [][csr' # csr /\ instruction' # "counter" /\ Soon =>
       LET moved == (Joined(csr'.time) - Joined(csr.time)) % Wide
       IN  elapsed - elapsed' =
             IF moved = 0 THEN 0
             ELSE moved * timebasePeriod + (elapsed % timebasePeriod)]_vars

\* Fewer ticks than time has values move it by as much as they are.
LEMMA MovedExactly ==
  ASSUME NEW v \in 0 .. (Wide - 1), NEW t \in Nat, t < Wide
  PROVE  (((v + t) % Wide) - v) % Wide = t
<1> DEFINE m == Wide
           r == (v + t) % m
<1>1. m \in Nat \ {0} /\ v \in Nat /\ v < m
  BY WideIsNat
<1> HIDE DEF m
<1>2. t < m
  BY DEF m
<1>3. \A n \in Nat : n < m => n % m = n
  BY <1>1, ModSmall
<1>4. CASE v + t < m
  <2>1. r = v + t
    BY <1>1, <1>3, <1>4
  <2>2. r - v = t
    BY <1>1, <2>1
  <2>3. (r - v) % m = t
    BY <1>2, <1>3, <2>2
  <2> QED
    BY <2>3 DEF m
<1>5. CASE v + t >= m
  <2>1. \A n \in Nat : n >= m /\ n < 2 * m => n % m = n - m
    BY <1>1, SMT
  <2>2. r = v + t - m
    BY <1>1, <1>2, <1>5, <2>1
  <2>3. r - v = t - m
    BY <1>1, <2>2
  <2>4. \A n \in Nat : n < m => (n - m) % m = n
    BY <1>1, SMT
  <2>5. (r - v) % m = t
    BY <1>2, <2>3, <2>4
  <2> QED
    BY <2>5 DEF m
<1> QED
  BY <1>1, <1>4, <1>5

\* How far the guest's time falls behind the clock: by the remainder of every
\* tick and by nothing else, as lastTime is set to the clock and not to the
\* end of the last whole tick (hart.cpp:604-616).  So time does not have the
\* frequency of main.cpp:66: a clock that is read 1.9 ticks after each tick
\* makes it run at little more than half of that.
THEOREM TicksLoseTheRemainder == Spec => LosesTheRemainder
<1> DEFINE moved == (Joined(csr'.time) - Joined(csr.time)) % Wide
           Due   == csr' # csr /\ instruction' # "counter" /\ Soon =>
                      elapsed - elapsed' =
                        IF moved = 0 THEN 0
                        ELSE moved * timebasePeriod + (elapsed % timebasePeriod)
<1>1. ASSUME TypeOK, Soon, Step, instruction' # "counter" PROVE Due
  <2> DEFINE t == Ticks(elapsed)
             v == Joined(csr.time)
  <2>1. /\ csr'.time = Split((v + t) % Wide)
        /\ elapsed' = Remaining(elapsed)
    BY <1>1 DEF Step, Plain, SetTimer, WriteSip, WriteCounter, IncrementCounters
  <2>2. v \in 0 .. (Wide - 1) /\ t \in Nat /\ Wide \in Nat \ {0}
    BY <1>1, JoinedInRange, TicksNat, WideIsNat DEF TypeOK
  <2>3. /\ elapsed \in Nat /\ elapsed < Uint64 /\ elapsed < Wide * timebasePeriod
        /\ timebasePeriod \in Nat \ {0} /\ Uint64 \in Nat \ {0}
    BY <1>1, CountersAssumption DEF Soon
  <2>4. elapsed % Uint64 = elapsed
    BY <2>3, ModSmall
  <2>5. t = elapsed \div timebasePeriod
    BY <2>4 DEF Ticks
  <2>6. /\ elapsed % timebasePeriod \in 0 .. (timebasePeriod - 1)
        /\ elapsed = timebasePeriod * (elapsed \div timebasePeriod)
                       + (elapsed % timebasePeriod)
    <3>1. elapsed \in Int
      BY <2>3
    <3> QED
      BY <2>3, <3>1, DivMod
  <2>7. /\ timebasePeriod * t = t * timebasePeriod
        /\ (t + 1) * timebasePeriod = t * timebasePeriod + timebasePeriod
        /\ t * timebasePeriod \in Nat
    BY <2>2, <2>3
  <2>8. /\ t * timebasePeriod <= elapsed
        /\ elapsed < (t + 1) * timebasePeriod
    BY <2>3, <2>5, <2>6, <2>7
  <2>9. t < Wide
    <3>1. SUFFICES ASSUME Wide <= t PROVE FALSE
      BY <2>2
    <3>2. Wide * timebasePeriod <= t * timebasePeriod
      BY <2>2, <2>3, <3>1, Monotone
    <3>3. Wide * timebasePeriod \in Nat
      BY <2>2, <2>3
    <3> QED
      BY <2>3, <2>7, <2>8, <3>2, <3>3
  <2>10. moved = t
    <3>1. v + t \in Int
      BY <2>2
    <3>2. (v + t) % Wide \in 0 .. (Wide - 1)
      BY <2>2, <3>1, DivMod
    <3>3. moved = (((v + t) % Wide) - v) % Wide
      BY <2>1, <3>2, SplitJoined
    <3> QED
      BY <2>2, <2>9, <3>3, MovedExactly
  <2>11. CASE t = 0
    BY <2>1, <2>3, <2>10, <2>11 DEF Remaining
  <2>12. CASE t > 0
    <3>1. elapsed' = 0
      BY <2>1, <2>12 DEF Remaining
    <3>2. elapsed = t * timebasePeriod + (elapsed % timebasePeriod)
      BY <2>5, <2>6, <2>7
    <3> QED
      BY <2>3, <2>10, <2>12, <3>1, <3>2
  <2> QED
    BY <2>2, <2>11, <2>12
<1>2. TypeOK /\ [Next]_vars => [Due]_vars
  <2> SUFFICES ASSUME TypeOK, Soon, [Next]_vars PROVE Due
    OBVIOUS
  <2>1. CASE Step
    BY <1>1, <2>1
  <2>2. CASE ~Step
    <3>1. csr' = csr
      BY <2>2 DEF Next, PassTime, vars
    <3> QED
      BY <3>1
  <2> QED
    BY <2>1, <2>2
<1> QED
  BY <1>2, CountersTypeCorrect, PTL DEF Spec, LosesTheRemainder
=============================================================================
