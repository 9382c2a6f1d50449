-------------------------- MODULE Sv32WalkProofs --------------------------
(***************************************************************************)
(* Theorems about the page-table walk, for tables of every size and every  *)
(* content of memory.                                                      *)
(***************************************************************************)
EXTENDS Sv32Walk, Sv32Proofs

-----------------------------------------------------------------------------
(* Type correctness, with what the walk never changes *)

Call ==
  /\ \A a \in DOMAIN mem : mem[a] \in PTE
  /\ hart.supervisorMode \in BOOLEAN
  /\ hart.satp.ppn \in Nat
  /\ va \in Addr
  /\ accessType \in AccessTypes

WalkInv == TypeOK /\ Call

LEMMA StartType ==
  ASSUME NEW h, h.satp.ppn \in Nat
  PROVE  WalkStart(h) \in WalkState
<1>1. \A m, n \in Nat : m * n \in Nat
  BY SMT
<1>2. (h.satp.ppn * PAGE_SIZE) % AddrSpace \in Addr
  BY <1>1, PageSizes, WrapsIntoAddr
<1>3. (h.satp.ppn * PAGE_SIZE) % AddrSpace \in 0 .. (4 * AddrSpace - 1)
  BY <1>2, PageSizes DEF Addr
<1>4. EmptyPte \in PTE
  BY PageSizes DEF EmptyPte, PTE
<1>5. 1 \in 0 .. UintMax
  BY Sv32Assumption
<1> QED
  BY <1>3, <1>4, <1>5 DEF WalkStart, WalkState

LEMMA VerdictType ==
  ASSUME NEW h, NEW pte, NEW at, NEW i
  PROVE  Verdict(h, pte, at, i) \in {"walking", "leaf", "fault"}
  BY DEF Verdict

LEMMA StepType ==
  ASSUME NEW m, \A a \in DOMAIN m : m[a] \in PTE,
         NEW h, NEW addr, NEW at, NEW w \in WalkState
  PROVE  WalkStep(m, h, addr, at, w) \in WalkState
<1> DEFINE pteAddr == PteAddr(addr, w)
<1> DEFINE pte == m[pteAddr]
<1> DEFINE verdict == Verdict(h, pte, at, w.i)
<1>1. CASE pteAddr \notin DOMAIN m
  BY <1>1 DEF WalkStep, WalkState
<1>2. CASE pteAddr \in DOMAIN m /\ verdict = "walking"
  <2>1. pte \in PTE
    BY <1>2
  <2>2. NextLevel(w.i) \in 0 .. UintMax
    BY Sv32Assumption DEF NextLevel, WalkState
  <2>3. (pte.ppn1 * PteCount + pte.ppn0) * PAGE_SIZE \in 0 .. (4 * AddrSpace - 1)
    BY <2>1, BaseOfEntry
  <2>4. WalkStep(m, h, addr, at, w)
          = [i      |-> NextLevel(w.i),
             base   |-> (pte.ppn1 * PteCount + pte.ppn0) * PAGE_SIZE,
             pte    |-> pte,
             status |-> "walking"]
    BY <1>2 DEF WalkStep
  <2> HIDE DEF pte
  <2> QED
    BY <2>1, <2>2, <2>3, <2>4 DEF WalkState
<1>3. CASE pteAddr \in DOMAIN m /\ verdict # "walking"
  <2>1. pte \in PTE /\ verdict \in {"leaf", "fault"}
    BY <1>3, VerdictType
  <2>2. WalkStep(m, h, addr, at, w) = [w EXCEPT !.pte = pte, !.status = verdict]
    BY <1>3 DEF WalkStep
  <2> HIDE DEF pte, verdict
  <2> QED
    BY <2>1, <2>2 DEF WalkState
<1> QED
  BY <1>1, <1>2, <1>3

\* The walk holds values of its C++ types, and the base it computes from an
\* entry always fits in the 34 bits of a physical address.
THEOREM WalkTypeCorrect == Spec => []TypeOK
<1>1. Init => WalkInv
  BY Sv32WalkAssumption, StartType DEF Init, WalkInv, TypeOK, Call
<1>2. WalkInv /\ [Next]_vars => WalkInv'
  <2> SUFFICES ASSUME WalkInv, [Next]_vars PROVE WalkInv'
    OBVIOUS
  <2>1. CASE Iterate
    <3>1. walk' \in WalkState
      BY <2>1, StepType DEF Iterate, WalkInv, TypeOK, Call
    <3> QED
      BY <2>1, <3>1 DEF Iterate, WalkInv, TypeOK, Call
  <2>2. CASE UNCHANGED vars
    BY <2>2 DEF vars, WalkInv, TypeOK, Call
  <2> QED
    BY <2>1, <2>2 DEF Next, Returned
<1>3. WalkInv => TypeOK
  BY DEF WalkInv
<1> QED
  BY <1>1, <1>2, <1>3, PTL DEF Spec

-----------------------------------------------------------------------------
(* No access without permission *)

LEMMA WalkInvariant == Spec => []WalkInv
<1>1. Init => WalkInv
  BY Sv32WalkAssumption, StartType DEF Init, WalkInv, TypeOK, Call
<1>2. WalkInv /\ [Next]_vars => Call'
  BY DEF WalkInv, Call, Next, Iterate, Returned, vars
<1> QED
  BY <1>1, <1>2, WalkTypeCorrect, PTL DEF WalkInv, Spec

\* What the code refuses is exactly what a valid leaf does not grant.
LEMMA RefusedIsNotGranted ==
  ASSUME Call, NEW pte, NEW i, ~Invalid(pte), IsLeaf(pte)
  PROVE  Refused(hart, pte, accessType, i)
           <=> ~(AT!Grants(pte) /\ (i = 1 => pte.ppn0 = 0))
<1>1. WrongKind(hart, pte, accessType) \/ Untouched(pte, accessType)
        <=> ~(/\ \/ accessType = "READ"
                      /\ \/ "R" \in pte.flags
                         \/ "X" \in pte.flags /\ "MXR" \in hart.sstatus
                 \/ accessType = "WRITE" /\ {"W", "D"} \subseteq pte.flags
                 \/ accessType = "EXECUTE" /\ "X" \in pte.flags
              /\ "A" \in pte.flags)
  BY DEF WrongKind, Untouched, Call, AccessTypes
<1>2. WrongMode(hart, pte, accessType)
        <=> ~(/\ ~hart.supervisorMode => "U" \in pte.flags
              /\ hart.supervisorMode /\ "U" \in pte.flags =>
                   accessType # "EXECUTE" /\ "SUM" \in hart.sstatus)
  BY DEF WrongMode, Call
<1> QED
  BY <1>1, <1>2 DEF Refused, AT!Grants

LEMMA ValidIsNotInvalid ==
  ASSUME NEW pte PROVE AT!Valid(pte) <=> ~Invalid(pte)
  BY DEF AT!Valid, Invalid

\* The shape of one iteration.
LEMMA StepCases ==
  ASSUME NEW m, NEW h, NEW addr, NEW at, NEW w \in WalkState
  PROVE  LET a == PteAddr(addr, w)
             g == WalkStep(m, h, addr, at, w)
         IN  \/ a \notin DOMAIN m /\ g.status = "throw"
             \/ /\ a \in DOMAIN m
                /\ g.status = Verdict(h, m[a], at, w.i)
                /\ g.pte = m[a]
                /\ g.i = IF g.status = "walking" THEN NextLevel(w.i) ELSE w.i
                /\ g.status = "walking" =>
                     g.base = (m[a].ppn1 * PteCount + m[a].ppn0) * PAGE_SIZE
  BY DEF WalkStep, WalkState

\* A translation never succeeds through an entry that does not grant the
\* access, whatever the tables look like.
THEOREM LeafIsPermitted == Spec => []LeafGrantsAccess
<1>1. Init => LeafGrantsAccess
  BY DEF Init, WalkStart, LeafGrantsAccess
<1>2. WalkInv /\ LeafGrantsAccess /\ [Next]_vars => LeafGrantsAccess'
  <2> SUFFICES ASSUME WalkInv, LeafGrantsAccess, [Next]_vars
               PROVE  LeafGrantsAccess'
    OBVIOUS
  <2>1. CASE Iterate
    <3> DEFINE pte == mem[PteAddr(va, walk)]
    <3> SUFFICES ASSUME walk'.status = "leaf"
                 PROVE  (AT!Valid(walk.pte) /\ AT!Grants(walk.pte))'
      BY DEF LeafGrantsAccess
    <3>1. walk'.pte = pte /\ Verdict(hart, pte, accessType, walk.i) = "leaf"
      BY <2>1, StepCases DEF Iterate, WalkInv, TypeOK
    <3> HIDE DEF pte
    <3>2. /\ ~Invalid(pte) /\ IsLeaf(pte)
          /\ ~Refused(hart, pte, accessType, walk.i)
      BY <3>1 DEF Verdict
    <3>3. AT!Valid(pte) /\ AT!Grants(pte)
      BY <3>2, RefusedIsNotGranted, ValidIsNotInvalid DEF WalkInv
    <3> QED
      BY <2>1, <3>1, <3>3 DEF Iterate, AT!Valid, AT!Grants
  <2>2. CASE UNCHANGED vars
    BY <2>2 DEF vars, LeafGrantsAccess, AT!Valid, AT!Grants
  <2> QED
    BY <2>1, <2>2 DEF Next, Returned
<1> QED
  BY <1>1, <1>2, WalkInvariant, PTL DEF Spec

-----------------------------------------------------------------------------
(* On two-level tables the walk implements AddressTranslation.  Its        *)
(* reachable states: at the root, at the table the root points to, or      *)
(* finished with the abstract answer.                                      *)

PointsOn(pte) == ~Invalid(pte) /\ ~IsLeaf(pte)

AtRoot ==
  /\ walk.status = "walking" /\ walk.i = 1
  /\ PteAddr(va, walk) = AT!TopAddr

AtTable ==
  /\ walk.status = "walking" /\ walk.i = 0
  /\ AT!TopAddr \in DOMAIN mem /\ PointsOn(AT!Top)
  /\ PteAddr(va, walk) = AT!LowAddr

Finished == walk.status # "walking"

TwoLevelInv ==
  /\ WalkInv
  /\ WellFormed
  /\ AtRoot \/ AtTable \/ Finished

\* The layouts of Sv32, as the abstract module sees them.
LEMMA SameLayout ==
  /\ AT!PTE_SIZE = 4 /\ PTE_SIZE = 4
  /\ AT!PAGE_SIZE = PAGE_SIZE
  /\ AT!Addr = Addr
  /\ AT!Vpn1(va) = Vpn1(va) /\ AT!Vpn0(va) = Vpn0(va)
  /\ AT!PageOffset(va) = PageOffset(va)
  /\ \A pte : AT!IsLeaf(pte) <=> IsLeaf(pte)
  /\ \A pa : AT!Mapped(pa) = Mapped(pa)
<1>1. AT!PTE_SIZE = 4 /\ PTE_SIZE = 4
  BY DEF AT!PTE_SIZE, PTE_SIZE
<1>2. AT!PAGE_SIZE = PAGE_SIZE
  BY <1>1 DEF AT!PAGE_SIZE, PAGE_SIZE
<1>3. AT!AddrSpace = AddrSpace
  BY <1>2 DEF AT!AddrSpace, AddrSpace
<1>4. AT!Addr = Addr
  BY <1>3 DEF AT!Addr, Addr
<1>5. /\ AT!Vpn1(va) = Vpn1(va) /\ AT!Vpn0(va) = Vpn0(va)
      /\ AT!PageOffset(va) = PageOffset(va)
  BY <1>2 DEF AT!Vpn1, AT!Vpn0, AT!PageOffset, Vpn1, Vpn0, PageOffset
<1>6. \A pte : AT!IsLeaf(pte) <=> IsLeaf(pte)
  BY DEF AT!IsLeaf, IsLeaf
<1>7. \A pa : AT!Mapped(pa) = Mapped(pa)
  BY DEF AT!Mapped, Mapped
<1> QED
  BY <1>1, <1>2, <1>4, <1>5, <1>6, <1>7

LEMMA WellFormedMeans ==
  WellFormed <=>
    /\ AT!TopAddr \in Addr
    /\ (AT!TopAddr \in DOMAIN mem /\ PointsOn(AT!Top)) =>
         /\ AT!LowAddr \in Addr
         /\ AT!LowAddr \in DOMAIN mem => ~PointsOn(AT!Low)
<1>1. \A pte : AT!Valid(pte) <=> ~Invalid(pte)
  BY ValidIsNotInvalid
<1> QED
  BY <1>1, SameLayout DEF WellFormed, AT!TwoLevel, PointsOn

\* The answer of Sv32, with the operators of this module.
LEMMA LookupCases ==
  /\ AT!TopAddr = hart.satp.ppn * PAGE_SIZE + 4 * Vpn1(va)
  /\ AT!LowAddr
       = (AT!Top.ppn1 * PteCount + AT!Top.ppn0) * PAGE_SIZE + 4 * Vpn0(va)
  /\ AT!Lookup =
       IF AT!TopAddr \notin DOMAIN mem THEN AT!Failure("throw")
       ELSE IF Invalid(AT!Top) THEN AT!Failure("fault")
       ELSE IF ~IsLeaf(AT!Top) THEN AT!LowAnswer
       ELSE IF AT!Grants(AT!Top) /\ AT!Top.ppn0 = 0
       THEN AT!Located(AT!Top.ppn1, Vpn0(va))
       ELSE AT!Failure("fault")
  /\ AT!LowAnswer =
       IF AT!LowAddr \notin DOMAIN mem THEN AT!Failure("throw")
       ELSE IF ~Invalid(AT!Low) /\ IsLeaf(AT!Low) /\ AT!Grants(AT!Low)
       THEN AT!Located(AT!Low.ppn1, AT!Low.ppn0)
       ELSE AT!Failure("fault")
<1>1. AT!TopAddr = hart.satp.ppn * PAGE_SIZE + 4 * Vpn1(va)
  BY SameLayout DEF AT!TopAddr
<1>2. AT!LowAddr
        = (AT!Top.ppn1 * PteCount + AT!Top.ppn0) * PAGE_SIZE + 4 * Vpn0(va)
  BY SameLayout DEF AT!LowAddr
<1>3. \A pte : AT!Valid(pte) <=> ~Invalid(pte)
  BY ValidIsNotInvalid
<1>4. AT!Lookup =
       IF AT!TopAddr \notin DOMAIN mem THEN AT!Failure("throw")
       ELSE IF Invalid(AT!Top) THEN AT!Failure("fault")
       ELSE IF ~IsLeaf(AT!Top) THEN AT!LowAnswer
       ELSE IF AT!Grants(AT!Top) /\ AT!Top.ppn0 = 0
       THEN AT!Located(AT!Top.ppn1, Vpn0(va))
       ELSE AT!Failure("fault")
  BY <1>3, SameLayout DEF AT!Lookup
<1>5. AT!LowAnswer =
       IF AT!LowAddr \notin DOMAIN mem THEN AT!Failure("throw")
       ELSE IF ~Invalid(AT!Low) /\ IsLeaf(AT!Low) /\ AT!Grants(AT!Low)
       THEN AT!Located(AT!Low.ppn1, AT!Low.ppn0)
       ELSE AT!Failure("fault")
  BY <1>3, SameLayout DEF AT!LowAnswer
<1> QED
  BY <1>1, <1>2, <1>4, <1>5

LEMMA WrapIsIdentity ==
  ASSUME NEW n \in Nat, NEW k \in Nat, n + k \in Addr
  PROVE  /\ (n + k) % AddrSpace = n + k
         /\ ((n % AddrSpace) + k) % AddrSpace = n + k
<1>1. n < AddrSpace /\ n + k < AddrSpace
  BY PageSizes DEF Addr
<1>2. \A a, m \in Nat : a < m => a % m = a
  BY SMT
<1>3. n % AddrSpace = n /\ (n + k) % AddrSpace = n + k
  BY <1>1, <1>2, PageSizes
<1> QED
  BY <1>3

LEMMA IndexTypes ==
  ASSUME NEW addr \in Addr
  PROVE  4 * Vpn1(addr) \in Nat /\ 4 * Vpn0(addr) \in Nat
<1>1. addr \in Nat
  BY PageSizes DEF Addr
<1>2. \A m, n \in Nat : m > 0 /\ n > 0 => m * n \in Nat /\ m * n > 0
  BY SMT
<1>3. \A n, m \in Nat : m > 0 => n \div m \in Nat /\ n % m \in Nat
  BY SMT
<1>4. PteCount * PAGE_SIZE \in Nat /\ PteCount * PAGE_SIZE > 0
  BY <1>2, PageSizes
<1>5. Vpn1(addr) \in Nat
  BY <1>1, <1>3, <1>4 DEF Vpn1
<1>6. Vpn0(addr) \in Nat
  BY <1>1, <1>3, PageSizes DEF Vpn0
<1> QED
  BY <1>5, <1>6

LEMMA StartsAtRoot ==
  ASSUME Call, WellFormed, walk = WalkStart(hart)
  PROVE  AtRoot
<1>1. \A m, n \in Nat : m * n \in Nat
  BY SMT
<1>2. hart.satp.ppn * PAGE_SIZE \in Nat
  BY <1>1, PageSizes DEF Call
<1>3. 4 * Vpn1(va) \in Nat
  BY IndexTypes DEF Call
<1>4. AT!TopAddr = hart.satp.ppn * PAGE_SIZE + 4 * Vpn1(va)
  BY LookupCases
<1>5. PteAddr(va, walk)
        = (((hart.satp.ppn * PAGE_SIZE) % AddrSpace) + 4 * Vpn1(va)) % AddrSpace
  BY DEF PteAddr, WalkStart, PTE_SIZE
<1>6. PteAddr(va, walk) = AT!TopAddr
  BY <1>2, <1>3, <1>4, <1>5, WrapIsIdentity, WellFormedMeans
<1> QED
  BY <1>6 DEF AtRoot, WalkStart

\* What follows the loop is what Located says of the leaf that was found.
LEMMA FinishLeaf ==
  ASSUME NEW w, w.status = "leaf"
  PROVE  Finish(va, w)
           = AT!Located(w.pte.ppn1, IF w.i = 1 THEN Vpn0(va) ELSE w.pte.ppn0)
<1> DEFINE frame == IF w.i = 1 THEN Vpn0(va) ELSE w.pte.ppn0
<1> DEFINE pa == (w.pte.ppn1 * PteCount + frame) * PAGE_SIZE + PageOffset(va)
<1>1. ResultBits(va, w) = pa
  BY DEF ResultBits
<1>2. AT!Located(w.pte.ppn1, frame)
        = IF pa = 0 THEN AT!Failure("fault")
          ELSE IF pa \in Addr THEN Mapped(pa)
          ELSE AT!Failure("throw")
  BY SameLayout DEF AT!Located
<1>3. Finish(va, w)
        = IF pa = 0 THEN [status |-> "fault", addr |-> va]
          ELSE IF pa \in Addr THEN Mapped(pa)
          ELSE [status |-> "throw", addr |-> va]
  BY <1>1 DEF Finish
<1> QED
  BY <1>2, <1>3 DEF AT!Failure

LEMMA FinishFailure ==
  ASSUME NEW w, NEW how \in {"fault", "throw"}, w.status = how
  PROVE  Finish(va, w) = AT!Failure(how)
  BY DEF Finish, AT!Failure

\* The iteration at the root answers, or goes to the table.
LEMMA RootStep ==
  ASSUME WalkInv, WellFormed, AtRoot, Iterate
  PROVE  \/ Finished' /\ Finish(va, walk') = AT!Lookup
         \/ AtTable'
<1> DEFINE a == AT!TopAddr
<1> DEFINE top == AT!Top
<1>1. walk \in WalkState /\ walk' = WalkStep(mem, hart, va, accessType, walk)
  BY DEF WalkInv, TypeOK, Iterate
<1>2. a = PteAddr(va, walk) /\ top = mem[a] /\ walk.i = 1
  BY DEF AtRoot, AT!Top
<1>3. CASE a \notin DOMAIN mem
  <2>1. walk'.status = "throw"
    BY <1>1, <1>2, <1>3, StepCases
  <2> QED
    BY <1>3, <2>1, FinishFailure, LookupCases DEF Finished
<1>4. CASE a \in DOMAIN mem
  <2>1. /\ walk'.status = Verdict(hart, top, accessType, 1)
        /\ walk'.pte = top
        /\ walk'.i = IF walk'.status = "walking" THEN NextLevel(1) ELSE 1
        /\ walk'.status = "walking" =>
             walk'.base = (top.ppn1 * PteCount + top.ppn0) * PAGE_SIZE
    BY <1>1, <1>2, <1>4, StepCases
  <2>2. CASE Invalid(top)
    <3>1. walk'.status = "fault"
      BY <2>1, <2>2 DEF Verdict
    <3>2. AT!Lookup = AT!Failure("fault")
      BY <1>4, <2>2, LookupCases
    <3> QED
      BY <3>1, <3>2, FinishFailure DEF Finished
  <2>3. CASE ~Invalid(top) /\ IsLeaf(top)
    <3>1. Refused(hart, top, accessType, 1)
            <=> ~(AT!Grants(top) /\ top.ppn0 = 0)
      BY <2>3, RefusedIsNotGranted DEF WalkInv
    <3>3. CASE Refused(hart, top, accessType, 1)
      <4>1. walk'.status = "fault"
        BY <2>1, <2>3, <3>3 DEF Verdict
      <4>2. AT!Lookup = AT!Failure("fault")
        BY <1>4, <2>3, <3>1, <3>3, LookupCases
      <4> QED
        BY <4>1, <4>2, FinishFailure DEF Finished
    <3>4. CASE ~Refused(hart, top, accessType, 1)
      <4>1. walk'.status = "leaf"
        BY <2>1, <2>3, <3>4 DEF Verdict
      <4>2. AT!Lookup = AT!Located(top.ppn1, Vpn0(va))
        BY <1>4, <2>3, <3>1, <3>4, LookupCases
      <4>3. Finish(va, walk') = AT!Located(top.ppn1, Vpn0(va))
        BY <2>1, <4>1, FinishLeaf
      <4> QED
        BY <4>1, <4>2, <4>3 DEF Finished
    <3> QED
      BY <3>3, <3>4
  <2>4. CASE ~Invalid(top) /\ ~IsLeaf(top)
    <3>1. /\ walk'.status = "walking" /\ walk'.i = 0
          /\ walk'.base = (top.ppn1 * PteCount + top.ppn0) * PAGE_SIZE
      BY <2>1, <2>4 DEF Verdict, NextLevel
    <3>2. PointsOn(top) /\ AT!LowAddr \in Addr
      BY <1>4, <2>4, WellFormedMeans DEF PointsOn
    <3>3. AT!LowAddr = walk'.base + 4 * Vpn0(va)
      BY <3>1, LookupCases
    <3>4. walk'.base \in Nat /\ 4 * Vpn0(va) \in Nat
      <4>1. top \in PTE
        BY <1>2, <1>4 DEF WalkInv, Call
      <4>2. walk'.base \in Nat
        BY <3>1, <4>1, BaseOfEntry, PageSizes
      <4> QED
        BY <4>2, IndexTypes DEF WalkInv, Call
    <3>5. PteAddr(va, walk') = (walk'.base + 4 * Vpn0(va)) % AddrSpace
      BY <3>1 DEF PteAddr, PTE_SIZE
    <3>6. PteAddr(va, walk') = AT!LowAddr
      BY <3>2, <3>3, <3>4, <3>5, WrapIsIdentity
    <3>7. UNCHANGED <<mem, hart, va, accessType>>
      BY DEF Iterate
    <3> QED
      BY <1>4, <3>1, <3>2, <3>6, <3>7
         DEF AtTable, PointsOn, AT!TopAddr, AT!Top, AT!LowAddr
  <2> QED
    BY <2>2, <2>3, <2>4
<1> QED
  BY <1>3, <1>4

\* The iteration at the table answers.
LEMMA TableStep ==
  ASSUME WalkInv, WellFormed, AtTable, Iterate
  PROVE  Finished' /\ Finish(va, walk') = AT!Lookup
<1> DEFINE a == AT!LowAddr
<1> DEFINE low == AT!Low
<1>1. walk \in WalkState /\ walk' = WalkStep(mem, hart, va, accessType, walk)
  BY DEF WalkInv, TypeOK, Iterate
<1>2. a = PteAddr(va, walk) /\ low = mem[a] /\ walk.i = 0
  BY DEF AtTable, AT!Low
<1>3. AT!Lookup = AT!LowAnswer
  BY LookupCases DEF AtTable, PointsOn
<1>4. CASE a \notin DOMAIN mem
  <2>1. walk'.status = "throw"
    BY <1>1, <1>2, <1>4, StepCases
  <2> QED
    BY <1>3, <1>4, <2>1, FinishFailure, LookupCases DEF Finished
<1>5. CASE a \in DOMAIN mem
  <2>1. /\ walk'.status = Verdict(hart, low, accessType, 0)
        /\ walk'.pte = low
        /\ walk'.status # "walking" => walk'.i = 0
    BY <1>1, <1>2, <1>5, StepCases
  <2>2. Invalid(low) \/ IsLeaf(low)
    BY <1>5, WellFormedMeans DEF AtTable, PointsOn
  <2>3. CASE Invalid(low)
    <3>1. walk'.status = "fault"
      BY <2>1, <2>3 DEF Verdict
    <3>2. AT!Lookup = AT!Failure("fault")
      BY <1>3, <1>5, <2>3, LookupCases
    <3> QED
      BY <3>1, <3>2, FinishFailure DEF Finished
  <2>4. CASE ~Invalid(low) /\ IsLeaf(low)
    <3>1. Refused(hart, low, accessType, 0) <=> ~AT!Grants(low)
      BY <2>4, RefusedIsNotGranted DEF WalkInv
    <3>3. CASE Refused(hart, low, accessType, 0)
      <4>1. walk'.status = "fault"
        BY <2>1, <2>4, <3>3 DEF Verdict
      <4>2. AT!Lookup = AT!Failure("fault")
        BY <1>3, <1>5, <3>1, <3>3, LookupCases
      <4> QED
        BY <4>1, <4>2, FinishFailure DEF Finished
    <3>4. CASE ~Refused(hart, low, accessType, 0)
      <4>1. walk'.status = "leaf"
        BY <2>1, <2>4, <3>4 DEF Verdict
      <4>2. AT!Lookup = AT!Located(low.ppn1, low.ppn0)
        BY <1>3, <1>5, <2>4, <3>1, <3>4, LookupCases
      <4>3. Finish(va, walk') = AT!Located(low.ppn1, low.ppn0)
        BY <2>1, <4>1, FinishLeaf
      <4> QED
        BY <4>1, <4>2, <4>3 DEF Finished
    <3> QED
      BY <3>3, <3>4
  <2> QED
    BY <2>2, <2>3, <2>4
<1> QED
  BY <1>4, <1>5

LEMMA TwoLevelInvInit == Init /\ WellFormed => TwoLevelInv
<1> SUFFICES ASSUME Init, WellFormed PROVE TwoLevelInv
  OBVIOUS
<1>1. WalkInv
  BY Sv32WalkAssumption, StartType DEF Init, WalkInv, TypeOK, Call
<1>2. AtRoot
  BY <1>1, StartsAtRoot DEF Init, WalkInv
<1> QED
  BY <1>1, <1>2 DEF TwoLevelInv

\* Every step of the walk is a step of the abstract answer, or none.
AnswerStep == [AT!Answer]_<<mem, hart, va, accessType,
  IF walk.status = "walking"
  THEN [status |-> "pending", addr |-> va] ELSE Finish(va, walk)>>

LEMMA ShapeStays ==
  UNCHANGED <<mem, hart, va, accessType>> => (WellFormed' <=> WellFormed)
BY DEF WellFormed, AT!TwoLevel, AT!Valid, AT!IsLeaf,
       AT!TopAddr, AT!LowAddr, AT!Top, AT!Low

LEMMA TwoLevelStep ==
  ASSUME TwoLevelInv, [Next]_vars
  PROVE  /\ WellFormed'
         /\ (AtRoot \/ AtTable \/ Finished)'
         /\ AnswerStep
<1>1. CASE Iterate
  <2>1. UNCHANGED <<mem, hart, va, accessType>> /\ walk.status = "walking"
    BY <1>1 DEF Iterate
  <2>2. WellFormed'
    BY <2>1, ShapeStays DEF TwoLevelInv
  <2>3. \/ Finished' /\ Finish(va, walk') = AT!Lookup
        \/ AtTable'
    BY <1>1, <2>1, RootStep, TableStep DEF TwoLevelInv, Finished
  <2>4. CASE Finished' /\ Finish(va, walk') = AT!Lookup
    <3>1. AT!Answer
      BY <2>1, <2>4 DEF AT!Answer, AT!Pending, AT!request, Finished
    <3> QED
      BY <2>2, <2>4, <3>1 DEF AnswerStep
  <2>5. CASE AtTable'
    <3>1. AnswerStep
      BY <2>1, <2>5 DEF AtTable, AnswerStep
    <3> QED
      BY <2>2, <2>5, <3>1
  <2> QED
    BY <2>3, <2>4, <2>5
<1>2. CASE UNCHANGED vars
  <2>1. UNCHANGED <<mem, hart, va, accessType, walk>>
    BY <1>2 DEF vars
  <2>2. WellFormed'
    BY <2>1, ShapeStays DEF TwoLevelInv
  <2>3. (AtRoot \/ AtTable \/ Finished)'
    BY <2>1 DEF TwoLevelInv, AtRoot, AtTable, Finished, PointsOn, Invalid,
       IsLeaf, PteAddr, AT!TopAddr, AT!LowAddr, AT!Top
  <2>4. AnswerStep
    BY <2>1 DEF AnswerStep
  <2> QED
    BY <2>2, <2>3, <2>4
<1> QED
  BY <1>1, <1>2 DEF Next, Returned

Reached == WalkInv /\ (WellFormed => AtRoot \/ AtTable \/ Finished)

LEMMA AnyStep ==
  ASSUME Reached, [Next]_vars
  PROVE  /\ WellFormed' => (AtRoot \/ AtTable \/ Finished)'
         /\ AnswerStep
<1>1. UNCHANGED <<mem, hart, va, accessType>>
  BY DEF Next, Iterate, Returned, vars
<1>2. CASE WellFormed
  BY <1>2, TwoLevelStep DEF Reached, TwoLevelInv
<1>3. CASE ~WellFormed
  <2>1. ~WellFormed'
    BY <1>1, <1>3, ShapeStays
  <2>2. CASE Iterate /\ walk'.status # "walking"
    <3>1. AT!Answer
      BY <1>1, <1>3, <2>2 DEF Iterate, WellFormed, AT!Answer, AT!Pending, AT!request
    <3> QED
      BY <2>1, <3>1 DEF AnswerStep
  <2>3. CASE Iterate /\ walk'.status = "walking"
    BY <1>1, <2>1, <2>3 DEF Iterate, AnswerStep
  <2>4. CASE UNCHANGED vars
    BY <2>1, <2>4 DEF vars, AnswerStep
  <2> QED
    BY <2>2, <2>3, <2>4 DEF Next, Returned
<1> QED
  BY <1>2, <1>3

\* translateAddress answers every request once, and on two-level tables in
\* 32-bit memory as Sv32 prescribes, for tables of any size and any content.
THEOREM WalkImplementsSv32 == Spec => ImplementsSv32
<1>1. Init => AT!Init
  BY DEF Init, WalkStart, AT!Init, AT!Pending
<1>2. Init => (WellFormed => AtRoot \/ AtTable \/ Finished)
  BY TwoLevelInvInit DEF TwoLevelInv
<1>3. Reached /\ [Next]_vars
        => (WellFormed => AtRoot \/ AtTable \/ Finished)' /\ AnswerStep
  BY AnyStep
<1>4. Spec => []Reached
  BY <1>2, <1>3, WalkInvariant, PTL DEF Spec, Reached
<1> QED
  BY <1>1, <1>3, <1>4, PTL DEF Spec, ImplementsSv32, AT!Spec, AnswerStep

\* A call with two-level tables makes at most two iterations: the first goes
\* down from the root or answers, the second answers.
THEOREM WalkDescends == Spec => TwoLevelWalkDescends
<1> DEFINE Descends == WellFormed => walk'.status # "walking" \/ walk'.i < walk.i
<1>1. Init => (WellFormed => AtRoot \/ AtTable \/ Finished)
  BY TwoLevelInvInit DEF TwoLevelInv
<1>2. Reached /\ [Next]_vars
        => (WellFormed => AtRoot \/ AtTable \/ Finished)' /\ [Descends]_vars
  <2>1. Reached /\ [Next]_vars => (WellFormed => AtRoot \/ AtTable \/ Finished)'
    BY AnyStep
  <2>2. ASSUME Reached, Next, WellFormed
        PROVE  [walk'.status # "walking" \/ walk'.i < walk.i]_vars
    <3>1. CASE Iterate /\ AtRoot
      <4>1. Finished' \/ AtTable'
        BY <2>2, <3>1, RootStep DEF Reached
      <4> QED
        BY <3>1, <4>1 DEF AtRoot, AtTable, Finished
    <3>2. CASE Iterate /\ AtTable
      BY <2>2, <3>2, TableStep DEF Reached, Finished
    <3>3. CASE Returned
      BY <3>3 DEF Returned
    <3> QED
      BY <2>2, <3>1, <3>2, <3>3 DEF Reached, Next, Iterate, Finished
  <2> QED
    BY <2>1, <2>2
<1>3. Spec => []Reached
  BY <1>1, <1>2, WalkInvariant, PTL DEF Spec, Reached
<1> QED
  BY <1>2, <1>3, PTL DEF Spec, TwoLevelWalkDescends

-----------------------------------------------------------------------------
(* The loop and the call.  The walk is the last of some number of the      *)
(* iterations that Translate makes MaxWalk of.                             *)

\* A walk that has ended has the outcome of the call as a whole.
AnswersAsTranslate ==
  walk.status # "walking" => Finish(va, walk) = Translate(mem, hart, va, accessType)

IsIteration ==
  \E n \in Nat : \E s : Iterations(s, mem, hart, va, accessType, n) /\ walk = s[n]

Called == WalkInv /\ hart.satp.mode = 1

LEMMA IsIterationStep == IsIteration /\ [Next]_vars => IsIteration'
<1> SUFFICES ASSUME IsIteration, [Next]_vars PROVE IsIteration'
  OBVIOUS
<1>1. UNCHANGED <<mem, hart, va, accessType>>
  BY DEF Next, Iterate, Returned, vars
<1>2. PICK n \in Nat : \E s : Iterations(s, mem, hart, va, accessType, n) /\ walk = s[n]
  BY DEF IsIteration
<1>3. CASE Iterate
  <2>0. PICK s : Iterations(s, mem, hart, va, accessType, n) /\ walk = s[n]
    BY <1>2
  <2>1. PICK g : /\ Iterations(g, mem, hart, va, accessType, n + 1)
                 /\ g[n + 1] = IF s[n].status # "walking" THEN s[n]
                               ELSE WalkStep(mem, hart, va, accessType, s[n])
    BY <2>0, IterationsGrow
  <2>2. walk' = g[n + 1] /\ n + 1 \in Nat
    BY <1>3, <2>0, <2>1 DEF Iterate
  <2> QED
    BY <1>1, <2>1, <2>2 DEF IsIteration
<1>4. CASE UNCHANGED walk
  BY <1>1, <1>2, <1>4 DEF IsIteration
<1> QED
  BY <1>3, <1>4 DEF Next, Returned, vars

LEMMA IterationAnswers == Called /\ IsIteration => AnswersAsTranslate
<1> SUFFICES ASSUME Called, IsIteration, walk.status # "walking"
             PROVE  Finish(va, walk) = Translate(mem, hart, va, accessType)
  BY DEF AnswersAsTranslate
<1>1. PICK n \in Nat : \E s : Iterations(s, mem, hart, va, accessType, n) /\ walk = s[n]
  BY DEF IsIteration
<1>2. /\ \A a \in DOMAIN mem : mem[a] \in PTE
      /\ hart.satp.ppn \in Nat /\ hart.satp.mode = 1 /\ va \in Addr
  BY DEF Called, WalkInv, Call
<1>3. PICK s : Iterations(s, mem, hart, va, accessType, n) /\ walk = s[n]
  BY <1>1
<1> QED
  BY <1>2, <1>3, EndsAsTranslate

LEMMA IterationInvariant == Spec => [](Called /\ IsIteration)
<1>1. Init /\ WalkInv => Called /\ IsIteration
  <2> SUFFICES ASSUME Init, WalkInv PROVE hart.satp.mode = 1 /\ IsIteration
    BY DEF Called
  <2>1. hart.satp.mode = 1
    BY Sv32WalkAssumption DEF Init
  <2>2. PICK s : Iterations(s, mem, hart, va, accessType, 0)
    BY IterationsExist
  <2>3. s[0] = WalkStart(hart)
    BY <2>2 DEF Iterations
  <2> QED
    BY <2>1, <2>2, <2>3 DEF Init, IsIteration
<1>2. Called /\ WalkInv' /\ [Next]_vars => Called'
  BY DEF Next, Iterate, Returned, vars, Called
<1> QED
  BY <1>1, <1>2, IsIterationStep, WalkInvariant, PTL DEF Spec

\* The bound of Translate, which is the model's and not the code's, cuts off
\* no walk that answers.
LEMMA LoopIsTranslate == Spec => []AnswersAsTranslate
  BY IterationInvariant, IterationAnswers, PTL

\* On two-level tables the call answers as Sv32 prescribes.
THEOREM TranslateIsSv32 ==
  Spec => [](Finished /\ WellFormed
               => Translate(mem, hart, va, accessType) = AT!Lookup)
<1> DEFINE Answered == Finished /\ WellFormed => Finish(va, walk) = AT!Lookup
<1>1. Init => Answered
  BY DEF Init, WalkStart, Finished
<1>2. Reached /\ Answered /\ [Next]_vars => Answered'
  <2> SUFFICES ASSUME Reached, Answered, [Next]_vars, Finished', WellFormed'
               PROVE  (Finish(va, walk) = AT!Lookup)'
    OBVIOUS
  <2>1. UNCHANGED <<mem, hart, va, accessType>>
    BY DEF Next, Iterate, Returned, vars
  <2>2. WellFormed /\ AT!Lookup' = AT!Lookup
    <3>1. WellFormed
      BY <2>1, ShapeStays
    <3>2. AT!Lookup' = AT!Lookup
      <4>1. AT!TopAddr' = AT!TopAddr /\ AT!Top' = AT!Top
        BY <2>1 DEF AT!TopAddr, AT!Top
      <4>2. AT!LowAddr' = AT!LowAddr /\ AT!Low' = AT!Low
        BY <2>1, <4>1 DEF AT!LowAddr, AT!Low
      <4>3. \A how : AT!Failure(how)' = AT!Failure(how)
        BY <2>1 DEF AT!Failure
      <4>4. \A i, j : AT!Located(i, j)' = AT!Located(i, j)
        BY <2>1, <4>3 DEF AT!Located
      <4>5. \A pte : AT!Grants(pte)' = AT!Grants(pte)
        BY <2>1 DEF AT!Grants
      <4>6. AT!LowAnswer' = AT!LowAnswer
        BY <2>1, <4>2, <4>3, <4>4, <4>5 DEF AT!LowAnswer, AT!Valid, AT!IsLeaf
      <4> QED
        BY <2>1, <4>1, <4>3, <4>4, <4>5, <4>6 DEF AT!Lookup, AT!Valid, AT!IsLeaf
    <3> QED
      BY <3>1, <3>2
  <2>3. CASE Iterate
    <3>1. Finish(va, walk') = AT!Lookup
      BY <2>2, <2>3, RootStep, TableStep DEF Reached, Finished, Iterate, AtTable
    <3> QED
      BY <2>1, <2>2, <3>1
  <2>4. CASE UNCHANGED walk
    BY <2>1, <2>2, <2>4 DEF Finished
  <2> QED
    BY <2>3, <2>4 DEF Next, Returned, vars
<1>3. Init => (WellFormed => AtRoot \/ AtTable \/ Finished)
  BY TwoLevelInvInit DEF TwoLevelInv
<1>4. Reached /\ [Next]_vars => (WellFormed => AtRoot \/ AtTable \/ Finished)'
  BY AnyStep
<1>5. Spec => []Reached
  BY <1>3, <1>4, WalkInvariant, PTL DEF Spec, Reached
<1>6. AnswersAsTranslate /\ Answered
        => (Finished /\ WellFormed
              => Translate(mem, hart, va, accessType) = AT!Lookup)
  BY DEF AnswersAsTranslate, Finished
<1> QED
  BY <1>1, <1>2, <1>5, <1>6, LoopIsTranslate, PTL DEF Spec
=============================================================================
