---------------------------- MODULE HartProofs ----------------------------
(***************************************************************************)
(* Theorems about Hart, for every table size, memory, entry point and set  *)
(* of values that software may write.                                      *)
(***************************************************************************)
EXTENDS HartProperties, Sv32Proofs

-----------------------------------------------------------------------------
(* translateAddress gives back an address of the guest's address space,    *)
(* whatever memory holds.                                                  *)
LEMMA TranslateType ==
  ASSUME NEW m, NEW h, NEW va \in Addr, NEW accessType
  PROVE  Translate(m, h, va, accessType) \in Outcome
<1>1. Mapped(va) \in Outcome
  BY DEF Mapped, Outcome
<1>2. ASSUME NEW w PROVE Finish(va, w) \in Outcome
  BY DEF Finish, Mapped, Outcome
<1> QED
  BY <1>1, <1>2 DEF Translate

-----------------------------------------------------------------------------
(* Type correctness *)

LEMMA StackBitsType ==
  ASSUME NEW bits \in SUBSET SstatusBits, NEW a, NEW b, NEW c
  PROVE  StackBits(bits, a, b, c) \in SUBSET SstatusBits
  BY DEF StackBits, SstatusBits

LEMMA VectorType ==
  ASSUME NEW stvec \in Stvec, NEW irq \in Irq
  PROVE  TrapVector(stvec) \in Addr /\ InterruptVector(stvec, irq) \in Addr
<1>1. stvec.base \in Nat
  BY DEF Stvec
<1>2. TrapVector(stvec) \in Addr
  BY <1>1, WrapsIntoAddr DEF TrapVector
<1>3. irq \in Nat
  BY DEF Irq, Ssi, Sti, Sei
<1>4. TrapVector(stvec) \in Nat
  BY <1>2, AddrIsNat
<1>5. \A a, b \in Nat : a + 4 * b \in Nat
  BY SMT
<1>6. TrapVector(stvec) + 4 * irq \in Nat
  BY <1>3, <1>4, <1>5
<1> QED
  BY <1>2, <1>6, WrapsIntoAddr DEF InterruptVector

LEMMA EnterTrapType ==
  ASSUME NEW h \in HartState, NEW target \in Addr,
         NEW cause \in [interrupt : BOOLEAN, exceptionCode : Nat],
         NEW tval \in Addr \cup {InstrBits}
  PROVE  EnterTrap(h, target, cause, tval) \in HartState
<1>1. h.sstatus \in SUBSET SstatusBits /\ h.pc \in Addr
  BY DEF HartState
<1>2. \A spp, spie : StackBits(h.sstatus, spp, spie, FALSE) \in SUBSET SstatusBits
  BY <1>1, StackBitsType
<1>3. ASSUME NEW bits \in SUBSET SstatusBits, NEW pc \in Addr
      PROVE  [h EXCEPT !.sstatus = bits,
                       !.supervisorMode = TRUE,
                       !.sepc = pc,
                       !.scause = cause,
                       !.stval = tval,
                       !.pc = target,
                       !.shouldIncrementPC = FALSE] \in HartState
  BY DEF HartState
<1> QED
  BY <1>1, <1>2, <1>3 DEF EnterTrap

LEMMA HandleExceptionType ==
  ASSUME NEW h \in HartState, NEW code \in Nat,
         NEW tval \in Addr \cup {InstrBits}
  PROVE  HandleException(h, code, tval) \in HartState
<1>1. h.stvec \in Stvec
  BY DEF HartState
<1>2. TrapVector(h.stvec) \in Addr
  BY <1>1, VectorType DEF Irq, Ssi
<1> QED
  BY <1>2, EnterTrapType DEF HandleException

LEMMA FirstOfType == \A irqs : FirstOf(irqs) \in Irq
  BY DEF FirstOf, Irq

LEMMA HandleInterruptsType ==
  ASSUME NEW h \in HartState
  PROVE  HandleInterrupts(h) \in HartState
<1> DEFINE irq == FirstOf(Serviceable(h))
<1>1. irq \in Irq /\ irq \in Nat
  BY FirstOfType DEF Irq, Ssi, Sti, Sei
<1>2. h.stvec \in Stvec
  BY DEF HartState
<1>3. InterruptVector(h.stvec, irq) \in Addr
  BY <1>1, <1>2, VectorType
<1>4. EnterTrap(h, InterruptVector(h.stvec, irq),
                [interrupt |-> TRUE, exceptionCode |-> irq], 0) \in HartState
  BY <1>1, <1>3, AddrIsNat, EnterTrapType
<1> QED
  BY <1>4 DEF HandleInterrupts

LEMMA CheckAlignmentType ==
  ASSUME NEW h \in HartState
  PROVE  CheckAlignment(h) \in HartState
<1>1. h.pc \in Addr
  BY DEF HartState
<1> QED
  BY <1>1, HandleExceptionType DEF CheckAlignment, InstrMisaligned

LEMMA SretType ==
  ASSUME NEW h \in HartState
  PROVE  Sret(h) \in HartState
<1>1. h.sstatus \in SUBSET SstatusBits /\ h.sepc \in Addr
  BY DEF HartState
<1>2. \A sie : StackBits(h.sstatus, FALSE, TRUE, sie) \in SUBSET SstatusBits
  BY <1>1, StackBitsType
<1>3. ("SPP" \in h.sstatus) \in BOOLEAN
  OBVIOUS
<1> QED
  BY <1>1, <1>2, <1>3 DEF Sret, HartState

LEMMA WrittenType ==
  ASSUME NEW h \in HartState, NEW csr, NEW written \in Written(h, csr)
  PROVE  written \in HartState
<1>1. CASE csr = "sstatus"
  BY <1>1, HartAssumption DEF Written, HartState
<1>2. CASE csr = "sie"
  BY <1>2, HartAssumption DEF Written, HartState
<1>3. CASE csr = "sip"
  BY <1>3, HartAssumption DEF Written, HartState
<1>4. CASE csr = "stvec"
  BY <1>4, HartAssumption DEF Written, HartState
<1>5. CASE csr = "sepc"
  BY <1>5, HartAssumption DEF Written, HartState
<1>6. CASE csr = "scause"
  BY <1>6, HartAssumption DEF Written, HartState
<1>7. CASE csr = "stval"
  BY <1>7, HartAssumption DEF Written, HartState
<1>8. CASE csr = "scounteren"
  BY <1>8, HartAssumption DEF Written, HartState
<1>9. CASE csr = "satp"
  BY <1>9, HartAssumption DEF Written, HartState
<1>10. CASE csr \notin {"sstatus", "sie", "sip", "stvec", "sepc", "scause",
                        "stval", "scounteren", "satp"}
  BY <1>10 DEF Written
<1> QED
  BY <1>1, <1>2, <1>3, <1>4, <1>5, <1>6, <1>7, <1>8, <1>9, <1>10

LEMMA AdvancedType ==
  ASSUME NEW h \in HartState
  PROVE  Advanced(h) \in HartState
<1>1. h.pc \in Nat
  BY AddrIsNat DEF HartState
<1>2. (h.pc + 4) % AddrSpace \in Addr
  BY <1>1, WrapsIntoAddr
<1> QED
  BY <1>2 DEF Advanced, HartState

LEMMA RetireType ==
  ASSUME NEW h \in HartState, Retire(h)
  PROVE  hart' \in HartState /\ stage' = "fetch"
<1>1. PICK sip \in {h.sip, h.sip \cup {Sti}} :
        hart' = [Advanced(h) EXCEPT !.sip = sip]
  BY DEF Retire
<1>2. Advanced(h) \in HartState
  BY AdvancedType
<1>3. sip \subseteq Irq
  BY DEF Irq, HartState
<1>4. hart' \in HartState
  BY <1>1, <1>2, <1>3 DEF HartState
<1> QED
  BY <1>4 DEF Retire

\* A step that ends in one of these ways leaves a well-typed state when the
\* hart it is given is well typed.
LEMMA EndsType ==
  ASSUME TypeOK, NEW h \in HartState
  PROVE  /\ Halt(h) => TypeOK'
         /\ Spin(h) => TypeOK'
         /\ Return(h) => TypeOK'
         /\ \A pa : WriteWord(pa) /\ Retire(h) => TypeOK'
<1>1. Halt(h) => TypeOK'
  BY DEF Halt, TypeOK
<1>2. Spin(h) => TypeOK'
  BY DEF Spin, TypeOK
<1>3. Return(h) => TypeOK'
  BY RetireType DEF Return, TypeOK
<1>4. ASSUME NEW pa, WriteWord(pa), Retire(h)
      PROVE  TypeOK'
  <2>1. mem' \in [Ram -> PTE]
    BY <1>4, HartAssumption DEF WriteWord, TypeOK
  <2> QED
    BY <1>4, <2>1, RetireType DEF WriteWord, TypeOK
<1> QED
  BY <1>1, <1>2, <1>3, <1>4
LEMMA FetchType ==
  ASSUME TypeOK, Fetch
  PROVE  TypeOK'
<1>1. Ready \in HartState
  BY CheckAlignmentType, HandleInterruptsType DEF Ready, TypeOK
<1>2. Ready.pc \in Addr
  BY <1>1 DEF HartState
<1>3. Trapped \in HartState
  BY <1>1, <1>2, HandleExceptionType DEF Trapped, InstrPageFault
<1>4. ASSUME NEW h \in HartState, Fetched(h)
      PROVE  TypeOK'
  <2>1. CASE /\ hart' = [h EXCEPT !.shouldIncrementPC = TRUE, !.loaded = {}]
             /\ stage' = "execute"
             /\ UNCHANGED <<mem, isRunning>>
    BY <2>1 DEF TypeOK, HartState
  <2>2. CASE Halt(h) \/ Spin(h)
    BY <2>2, EndsType
  <2> QED
    BY <1>4, <2>1, <2>2 DEF Fetched
<1>5. CASE Fetched(Ready) \/ Fetched(Trapped)
  BY <1>1, <1>3, <1>4, <1>5
<1>6. CASE Halt(Trapped)
  BY <1>3, <1>6, EndsType
<1> QED
  BY <1>5, <1>6 DEF Fetch

\* An exception of the current instruction keeps the state well typed.
LEMMA RaiseType ==
  ASSUME TypeOK, NEW code \in Nat, NEW tval \in Addr \cup {InstrBits},
         Return(HandleException(hart, code, tval))
  PROVE  TypeOK'
<1>1. HandleException(hart, code, tval) \in HartState
  BY HandleExceptionType DEF TypeOK
<1> QED
  BY <1>1, EndsType

LEMMA UnmappedType ==
  ASSUME TypeOK, NEW va \in DataAddrs, NEW accessType, NEW code \in Nat,
         Unmapped(va, accessType, code)
  PROVE  TypeOK'
<1>1. va \in Addr
  BY HartAssumption
<1>2. CASE Return(HandleException(hart, code, va))
  BY <1>1, <1>2, RaiseType
<1>3. CASE Halt(hart) \/ Spin(hart)
  BY <1>3, EndsType DEF TypeOK
<1> QED
  BY <1>2, <1>3 DEF Unmapped

LEMMA MisalignedType ==
  ASSUME TypeOK, NEW t \in Outcome, NEW code \in Nat, Misaligned(t, code)
  PROVE  TypeOK'
<1>1. t.addr \in Addr
  BY DEF Outcome
<1> QED
  BY <1>1, RaiseType DEF Misaligned

\* What an instruction that reads memory makes of the hart.
LEMMA LoadedPlain ==
  ASSUME hart \in HartState, NEW pa \in Ram
  PROVE  /\ Loaded(pa) \in HartState
         /\ [Loaded(pa) EXCEPT !.reservationSetValid = TRUE] \in HartState
         /\ Loaded(pa).loaded = {pa}
         /\ [Loaded(pa) EXCEPT !.reservationSetValid = TRUE].loaded = {pa}
<1>1. {pa} \in SUBSET Ram
  OBVIOUS
<1> QED
  BY <1>1 DEF Loaded, HartState

LEMMA MemoryAccessType ==
  ASSUME TypeOK, NEW va \in DataAddrs,
         Load(va) \/ Store(va) \/ LoadReserved(va) \/ Atomic(va)
  PROVE  TypeOK'
<1>1. va \in Addr
  BY HartAssumption
<1>2. hart \in HartState
  BY DEF TypeOK
<1>3. {LoadMisaligned, StoreMisaligned, LoadPageFault, StorePageFault} \subseteq Nat
  BY DEF LoadMisaligned, StoreMisaligned, LoadPageFault, StorePageFault
<1>4. \A accessType : Translate(mem, hart, va, accessType) \in Outcome
  BY <1>1, TranslateType
<1>5. ASSUME NEW pa \in Ram
      PROVE  /\ Loaded(pa) \in HartState
             /\ [Loaded(pa) EXCEPT !.reservationSetValid = TRUE] \in HartState
  BY <1>2, LoadedPlain
<1>6. [hart EXCEPT !.reservationSetValid = FALSE] \in HartState
  BY <1>2 DEF HartState
<1>7. \A accessType :
        /\ Unmapped(va, accessType, LoadPageFault) => TypeOK'
        /\ Unmapped(va, accessType, StorePageFault) => TypeOK'
  BY <1>3, UnmappedType
<1>8. \A accessType :
        /\ Misaligned(Translate(mem, hart, va, accessType), LoadMisaligned) => TypeOK'
        /\ Misaligned(Translate(mem, hart, va, accessType), StoreMisaligned) => TypeOK'
  BY <1>3, <1>4, MisalignedType
<1>9. /\ Return(HandleException(hart, LoadMisaligned, va)) => TypeOK'
      /\ Return(HandleException(hart, StoreMisaligned, va)) => TypeOK'
  BY <1>1, <1>3, RaiseType
<1>10. /\ Return(hart) => TypeOK'
       /\ Halt(hart) => TypeOK'
       /\ \A pa : WriteWord(pa) /\ Retire(hart) => TypeOK'
  BY <1>2, EndsType
<1>11. \A pa \in Ram :
         /\ Return(Loaded(pa)) => TypeOK'
         /\ Return([Loaded(pa) EXCEPT !.reservationSetValid = TRUE]) => TypeOK'
  BY <1>5, EndsType
<1>12. \A pa \in Ram : StoreConditional(pa) \/ AtomicUpdate(pa) => TypeOK'
  BY <1>5, <1>6, <1>10, EndsType DEF StoreConditional, AtomicUpdate
<1>13. CASE Load(va)
  BY <1>7, <1>8, <1>10, <1>11, <1>13 DEF Load
<1>14. CASE Store(va)
  BY <1>7, <1>8, <1>10, <1>14 DEF Store
<1>15. CASE LoadReserved(va)
  BY <1>7, <1>9, <1>10, <1>11, <1>15 DEF LoadReserved
<1>16. CASE Atomic(va)
  BY <1>7, <1>9, <1>10, <1>12, <1>16 DEF Atomic, AtomicAccess
<1> QED
  BY <1>13, <1>14, <1>15, <1>16

LEMMA CsrInstructionType ==
  ASSUME TypeOK, NEW csr, NEW writes, CsrInstruction(csr, writes)
  PROVE  TypeOK'
<1>1. hart \in HartState
  BY DEF TypeOK
<1>2. CASE Return(HandleException(hart, InstrIllegal, InstrBits))
  BY <1>2, RaiseType DEF InstrIllegal
<1>3. CASE \E h \in Written(hart, csr) : Return(h)
  BY <1>1, <1>3, WrittenType, EndsType
<1>4. CASE Halt(hart) \/ Return(hart)
  BY <1>1, <1>4, EndsType
<1> QED
  BY <1>2, <1>3, <1>4 DEF CsrInstruction

LEMMA ExecuteType ==
  ASSUME TypeOK, Execute
  PROVE  TypeOK'
<1>1. hart \in HartState
  BY DEF TypeOK
<1>2. CASE \E va \in DataAddrs :
             Load(va) \/ Store(va) \/ LoadReserved(va) \/ Atomic(va)
  BY <1>2, MemoryAccessType
<1>3. CASE Compute \/ Console
  BY <1>1, <1>3, EndsType DEF Compute, Console
<1>4. CASE Jump
  <2>1. PICK target \in JumpTargets :
          Return([hart EXCEPT !.pc = target, !.shouldIncrementPC = FALSE])
    BY <1>4 DEF Jump
  <2>2. [hart EXCEPT !.pc = target, !.shouldIncrementPC = FALSE] \in HartState
    BY <1>1, HartAssumption DEF HartState
  <2> QED
    BY <2>1, <2>2, EndsType
<1>5. CASE Undecodable \/ UnknownSbiCall
  BY <1>1, <1>5, EndsType DEF Undecodable, UnknownSbiCall
<1>6. CASE SupervisorReturn
  BY <1>1, <1>6, SretType, EndsType DEF SupervisorReturn
<1>7. CASE UserCall
  BY <1>7, AddrIsNat, RaiseType DEF UserCall, UserEcall
<1>8. CASE SetTimer
  <2>1. [hart EXCEPT !.sip = @ \ {Sti}] \in HartState
    BY <1>1 DEF HartState
  <2> QED
    BY <1>8, <2>1, EndsType DEF SetTimer
<1>9. CASE Shutdown
  BY <1>1, <1>9, RetireType DEF Shutdown, TypeOK
<1>10. CASE \E csr \in Csrs, writes \in BOOLEAN : CsrInstruction(csr, writes)
  BY <1>10, CsrInstructionType
<1> QED
  BY <1>2, <1>3, <1>4, <1>5, <1>6, <1>7, <1>8, <1>9, <1>10 DEF Execute

\* Whatever software does, the hart holds values of its C++ types: pc, sepc
\* and stval are 32-bit words, every CSR field keeps to its width.
THEOREM TypeCorrect == Spec => []TypeOK
<1>1. Init => TypeOK
  BY HartAssumption, AddrIsNat DEF Init, TypeOK, HartState
<1>2. TypeOK /\ [Next]_vars => TypeOK'
  <2> SUFFICES ASSUME TypeOK, [Next]_vars PROVE TypeOK'
    OBVIOUS
  <2>1. CASE Fetch
    BY <2>1, FetchType
  <2>2. CASE Execute
    BY <2>2, ExecuteType
  <2>3. CASE UNCHANGED vars
    BY <2>3 DEF TypeOK, vars
  <2> QED
    BY <2>1, <2>2, <2>3 DEF Next, Stopped
<1> QED
  BY <1>1, <1>2, PTL DEF Spec

-----------------------------------------------------------------------------
(* What a step does to the mode and to the trap registers.  Every step is  *)
(* of one of five kinds; the theorems below look at the kinds only.        *)

\* g keeps the supervisor's settings of h, and only the timer's interrupt
\* may become pending.
KeepsSettings(h, g) ==
  /\ g.stvec = h.stvec
  /\ g.satp = h.satp
  /\ g.sie = h.sie
  /\ g.scounteren = h.scounteren
  /\ h.sip \subseteq g.sip
  /\ g.sip \subseteq h.sip \cup {Sti}

\* g is h after one trap.
TrapEntry(h, g) ==
  /\ KeepsSettings(h, g)
  /\ g.supervisorMode = TRUE
  /\ g.sstatus = StackBits(h.sstatus, h.supervisorMode, "SIE" \in h.sstatus, FALSE)
  /\ g.sepc = h.pc
  /\ g.pc \in Vectors(h)

PageFaultEntry(h, g) ==
  /\ TrapEntry(h, g)
  /\ g.scause = [interrupt |-> FALSE, exceptionCode |-> InstrPageFault]

DoubleEntry(h, g) ==
  \E m \in HartState : TrapEntry(h, m) /\ PageFaultEntry(m, g)

\* g is h after SRET.
TrapExit(h, g) ==
  /\ KeepsSettings(h, g)
  /\ g.supervisorMode = ("SPP" \in h.sstatus)
  /\ g.sstatus = StackBits(h.sstatus, FALSE, TRUE, "SPIE" \in h.sstatus)
  /\ g.sepc = h.sepc /\ g.scause = h.scause /\ g.stval = h.stval
  /\ g.pc = h.sepc

\* g is h after an instruction that has nothing to do with traps.
NoTrap(h, g) ==
  /\ KeepsSettings(h, g)
  /\ g.supervisorMode = h.supervisorMode
  /\ g.sstatus = h.sstatus
  /\ g.sepc = h.sepc /\ g.scause = h.scause /\ g.stval = h.stval

\* g is h after the supervisor has written a CSR or set the timer: at most one
\* of the stack, the address on it and the vector.
OneWritten(h, g) ==
  \/ g.sepc = h.sepc /\ g.stvec = h.stvec
  \/ g.sstatus = h.sstatus /\ g.stvec = h.stvec
  \/ g.sepc = h.sepc /\ g.sstatus = h.sstatus

Supervision(h, g) ==
  /\ h.supervisorMode = TRUE /\ g.supervisorMode = TRUE
  /\ OneWritten(h, g)

Kinds(h, g) ==
  \/ NoTrap(h, g)
  \/ TrapEntry(h, g)
  \/ DoubleEntry(h, g)
  \/ TrapExit(h, g)
  \/ Supervision(h, g)

\* A trap to one of the vectors is an entry.
LEMMA EnterTrapIsEntry ==
  ASSUME NEW h \in HartState, NEW target \in Vectors(h), NEW cause, NEW tval
  PROVE  TrapEntry(h, EnterTrap(h, target, cause, tval))
<1> DEFINE g == EnterTrap(h, target, cause, tval)
<1>1. /\ g.pc = target
      /\ g.supervisorMode = TRUE
      /\ g.sstatus = StackBits(h.sstatus, h.supervisorMode,
                               "SIE" \in h.sstatus, FALSE)
      /\ g.sepc = h.pc
      /\ g.sie = h.sie /\ g.sip = h.sip
      /\ g.stvec = h.stvec /\ g.satp = h.satp
      /\ g.scounteren = h.scounteren
  BY DEF g, EnterTrap, HartState
<1> HIDE DEF g
<1>2. TrapEntry(h, g)
  BY <1>1 DEF TrapEntry, KeepsSettings
<1> QED
  BY <1>2 DEF g

LEMMA ExceptionIsEntry ==
  ASSUME NEW h \in HartState, NEW code, NEW tval
  PROVE  TrapEntry(h, HandleException(h, code, tval))
  BY EnterTrapIsEntry DEF HandleException, Vectors

\* The interrupts are off at the start of a handler.
LEMMA NoInterruptAfterTrap ==
  ASSUME NEW h \in HartState, NEW code, NEW tval
  PROVE  HandleInterrupts(HandleException(h, code, tval))
           = HandleException(h, code, tval)
<1> DEFINE g == HandleException(h, code, tval)
<1>1. /\ g.supervisorMode = TRUE
      /\ g.sstatus = StackBits(h.sstatus, h.supervisorMode,
                               "SIE" \in h.sstatus, FALSE)
  BY DEF g, HandleException, EnterTrap, HartState
<1> HIDE DEF g
<1>2. "SIE" \notin g.sstatus
  BY <1>1 DEF StackBits
<1>3. HandleInterrupts(g) = g
  BY <1>1, <1>2 DEF HandleInterrupts
<1> QED
  BY <1>3 DEF g

\* The interrupt that handleInterrupts takes, when it takes one.
InterruptTaken(h, g) ==
  LET irq == FirstOf(Serviceable(h))
  IN  /\ h.supervisorMode => "SIE" \in h.sstatus
      /\ Serviceable(h) # {}
      /\ g = EnterTrap(h, InterruptVector(h.stvec, irq),
                       [interrupt |-> TRUE, exceptionCode |-> irq], 0)

LEMMA ReadyCases ==
  ASSUME TypeOK
  PROVE  \/ Ready = hart
         \/ Ready = HandleException(hart, InstrMisaligned, hart.pc)
         \/ InterruptTaken(hart, Ready)
<1>1. hart \in HartState
  BY DEF TypeOK
<1>2. CASE hart.pc % 4 # 0
  BY <1>1, <1>2, NoInterruptAfterTrap DEF Ready, CheckAlignment
<1>3. CASE hart.pc % 4 = 0
  BY <1>3 DEF Ready, CheckAlignment, HandleInterrupts, InterruptTaken
<1> QED
  BY <1>2, <1>3

LEMMA ReadyIsEntry ==
  ASSUME TypeOK
  PROVE  Ready \in HartState /\ (Ready = hart \/ TrapEntry(hart, Ready))
<1>1. hart \in HartState
  BY DEF TypeOK
<1>2. Ready \in HartState
  BY <1>1, CheckAlignmentType, HandleInterruptsType DEF Ready
<1>3. InterruptVector(hart.stvec, FirstOf(Serviceable(hart))) \in Vectors(hart)
  BY FirstOfType DEF Vectors
<1>4. InterruptTaken(hart, Ready) => TrapEntry(hart, Ready)
  BY <1>1, <1>3, EnterTrapIsEntry DEF InterruptTaken
<1> QED
  BY <1>1, <1>2, <1>4, ReadyCases, ExceptionIsEntry

\* A fetch leaves the hart that asked for the instruction, but for
\* shouldIncrementPC and loaded.
FetchedBy(h) ==
  hart' \in {h, [h EXCEPT !.shouldIncrementPC = TRUE, !.loaded = {}]}

LEMMA FetchSteps ==
  ASSUME Fetch
  PROVE  FetchedBy(Ready) \/ FetchedBy(Trapped)
  BY DEF Fetch, Fetched, Halt, Spin, FetchedBy

LEMMA FetchKinds ==
  ASSUME TypeOK, Fetch
  PROVE  Kinds(hart, hart')
<1>1. /\ hart \in HartState
      /\ Ready \in HartState
      /\ Ready = hart \/ TrapEntry(hart, Ready)
  BY ReadyIsEntry DEF TypeOK
<1>2. CASE FetchedBy(Ready)
  <2>1. CASE Ready = hart
    BY <1>1, <1>2, <2>1
       DEF FetchedBy, Kinds, NoTrap, KeepsSettings, HartState
  <2>2. CASE TrapEntry(hart, Ready)
    <3>1. TrapEntry(hart, hart')
      BY <1>1, <1>2, <2>2
         DEF FetchedBy, TrapEntry, KeepsSettings, HartState
    <3> QED
      BY <3>1 DEF Kinds
  <2> QED
    BY <1>1, <2>1, <2>2
<1>3. CASE FetchedBy(Trapped)
  <2>1. PageFaultEntry(Ready, Trapped)
    <3>1. TrapEntry(Ready, Trapped)
      BY <1>1, ExceptionIsEntry DEF Trapped
    <3>2. Trapped.scause = [interrupt |-> FALSE, exceptionCode |-> InstrPageFault]
      BY <1>1 DEF Trapped, HandleException, EnterTrap, HartState
    <3> QED
      BY <3>1, <3>2 DEF PageFaultEntry
  <2>2. Trapped \in HartState
    BY <1>1, HandleExceptionType DEF Trapped, InstrPageFault, HartState
  <2>3. PageFaultEntry(Ready, hart')
    BY <1>3, <2>1, <2>2
       DEF FetchedBy, PageFaultEntry, TrapEntry, KeepsSettings, HartState
  <2>4. CASE Ready = hart
    BY <2>3, <2>4 DEF PageFaultEntry, Kinds
  <2>5. CASE TrapEntry(hart, Ready)
    BY <1>1, <2>3, <2>5 DEF Kinds, DoubleEntry
  <2> QED
    BY <1>1, <2>4, <2>5
<1> QED
  BY <1>2, <1>3, FetchSteps

\* What retiring adds to the hart it is given.
LEMMA RetireFields ==
  ASSUME NEW h \in HartState, Retire(h)
  PROVE  /\ hart'.supervisorMode = h.supervisorMode
         /\ hart'.sstatus = h.sstatus
         /\ hart'.sepc = h.sepc
         /\ hart'.scause = h.scause
         /\ hart'.stval = h.stval
         /\ KeepsSettings(h, hart')
         /\ hart'.loaded = h.loaded
         /\ ~h.shouldIncrementPC => hart'.pc = h.pc
  BY DEF Retire, Advanced, HartState, KeepsSettings

LEMMA RaiseKinds ==
  ASSUME TypeOK, NEW code \in Nat, NEW tval \in Addr \cup {InstrBits},
         Retire(HandleException(hart, code, tval))
  PROVE  TrapEntry(hart, hart')
<1> DEFINE g == HandleException(hart, code, tval)
<1>1. hart \in HartState /\ g \in HartState
  BY HandleExceptionType DEF TypeOK
<1>2. TrapEntry(hart, g) /\ g.shouldIncrementPC = FALSE
  BY <1>1, ExceptionIsEntry DEF HandleException, EnterTrap, HartState
<1>3. Retire(g)
  OBVIOUS
<1> HIDE DEF g
<1> QED
  BY <1>1, <1>2, <1>3, RetireFields DEF TrapEntry, KeepsSettings

\* An instruction that changes nothing but pc, memory and the reservation.
LEMMA PlainKinds ==
  ASSUME TypeOK, NEW h \in HartState, Retire(h), NoTrap(hart, h)
  PROVE  NoTrap(hart, hart')
  BY RetireFields DEF NoTrap, KeepsSettings

LEMMA HartIsPlain == TypeOK => hart \in HartState /\ NoTrap(hart, hart)
  BY DEF TypeOK, NoTrap, KeepsSettings

\* The hart at the end of an instruction that accesses memory.
MemoryKinds ==
  \/ hart' = hart
  \/ \E code \in Nat, tval \in Addr :
       Retire(HandleException(hart, code, tval))
  \/ Retire(hart)
  \/ \E h \in HartState : NoTrap(hart, h) /\ Retire(h)

LEMMA MemoryAccessKinds ==
  ASSUME TypeOK, NEW va \in DataAddrs,
         Load(va) \/ Store(va) \/ LoadReserved(va) \/ Atomic(va)
  PROVE  MemoryKinds
<1>1. va \in Addr
  BY HartAssumption
<1>2. {LoadMisaligned, StoreMisaligned, LoadPageFault, StorePageFault} \subseteq Nat
  BY DEF LoadMisaligned, StoreMisaligned, LoadPageFault, StorePageFault
<1>3. \A accessType : Translate(mem, hart, va, accessType).addr \in Addr
  BY <1>1, TranslateType DEF Outcome
<1>4. \A accessType :
        /\ Unmapped(va, accessType, LoadPageFault) => MemoryKinds
        /\ Unmapped(va, accessType, StorePageFault) => MemoryKinds
  BY <1>1, <1>2 DEF Unmapped, Return, Halt, Spin, MemoryKinds
<1>5. \A accessType :
        /\ Misaligned(Translate(mem, hart, va, accessType), LoadMisaligned)
             => MemoryKinds
        /\ Misaligned(Translate(mem, hart, va, accessType), StoreMisaligned)
             => MemoryKinds
  BY <1>2, <1>3 DEF Misaligned, Return, MemoryKinds
<1>6. /\ Return(hart) => MemoryKinds
      /\ Retire(hart) => MemoryKinds
      /\ Halt(hart) => MemoryKinds
  BY DEF Return, Halt, MemoryKinds
<1>7. /\ Return(HandleException(hart, LoadMisaligned, va)) => MemoryKinds
      /\ Return(HandleException(hart, StoreMisaligned, va)) => MemoryKinds
  BY <1>1, <1>2 DEF Return, MemoryKinds
<1>8. \A pa \in Ram :
        /\ Retire(Loaded(pa)) => MemoryKinds
        /\ Return(Loaded(pa)) => MemoryKinds
        /\ Return([Loaded(pa) EXCEPT !.reservationSetValid = TRUE])
             => MemoryKinds
  <2> SUFFICES ASSUME NEW pa \in Ram
               PROVE  /\ Retire(Loaded(pa)) => MemoryKinds
                      /\ Return(Loaded(pa)) => MemoryKinds
                      /\ Return([Loaded(pa) EXCEPT !.reservationSetValid = TRUE])
                           => MemoryKinds
    OBVIOUS
  <2> DEFINE g == [Loaded(pa) EXCEPT !.reservationSetValid = TRUE]
  <2>1. Loaded(pa) \in HartState /\ g \in HartState
    BY LoadedPlain DEF TypeOK
  <2>2. NoTrap(hart, Loaded(pa)) /\ NoTrap(hart, g)
    BY DEF TypeOK, Loaded, NoTrap, KeepsSettings, HartState
  <2> HIDE DEF g
  <2>3. Return(g) => MemoryKinds
    BY <2>1, <2>2 DEF Return, MemoryKinds
  <2>4. Retire(Loaded(pa)) => MemoryKinds
    BY <2>1, <2>2 DEF MemoryKinds
  <2> QED
    BY <2>3, <2>4 DEF Return, g
<1>9. \A pa \in Ram : StoreConditional(pa) \/ AtomicUpdate(pa) => MemoryKinds
  <2>1. /\ [hart EXCEPT !.reservationSetValid = FALSE] \in HartState
        /\ NoTrap(hart, [hart EXCEPT !.reservationSetValid = FALSE])
    BY DEF TypeOK, NoTrap, KeepsSettings, HartState
  <2>2. Retire([hart EXCEPT !.reservationSetValid = FALSE]) => MemoryKinds
    BY <2>1 DEF MemoryKinds
  <2> QED
    BY <1>6, <1>8, <2>2 DEF StoreConditional, AtomicUpdate
<1>10. CASE Load(va)
  BY <1>4, <1>5, <1>6, <1>8, <1>10 DEF Load
<1>11. CASE Store(va)
  BY <1>4, <1>5, <1>6, <1>11 DEF Store
<1>12. CASE LoadReserved(va)
  BY <1>4, <1>6, <1>7, <1>8, <1>12 DEF LoadReserved
<1>13. CASE Atomic(va)
  BY <1>4, <1>6, <1>7, <1>9, <1>13 DEF Atomic, AtomicAccess
<1> QED
  BY <1>10, <1>11, <1>12, <1>13

LEMMA WrittenKeepsMode ==
  ASSUME NEW h \in HartState, NEW csr, NEW written \in Written(h, csr)
  PROVE  /\ written.supervisorMode = h.supervisorMode
         /\ OneWritten(h, written)
         /\ written.loaded = h.loaded
<1>1. CASE csr = "sstatus"
  BY <1>1 DEF Written, HartState, OneWritten
<1>2. CASE csr = "sie"
  BY <1>2 DEF Written, HartState, OneWritten
<1>3. CASE csr = "sip"
  BY <1>3 DEF Written, HartState, OneWritten
<1>4. CASE csr = "stvec"
  BY <1>4 DEF Written, HartState, OneWritten
<1>5. CASE csr = "sepc"
  BY <1>5 DEF Written, HartState, OneWritten
<1>6. CASE csr = "scause"
  BY <1>6 DEF Written, HartState, OneWritten
<1>7. CASE csr = "stval"
  BY <1>7 DEF Written, HartState, OneWritten
<1>8. CASE csr = "scounteren"
  BY <1>8 DEF Written, HartState, OneWritten
<1>9. CASE csr = "satp"
  BY <1>9 DEF Written, HartState, OneWritten
<1>10. CASE csr \notin {"sstatus", "sie", "sip", "stvec", "sepc", "scause",
                        "stval", "scounteren", "satp"}
  BY <1>10 DEF Written, OneWritten
<1> QED
  BY <1>1, <1>2, <1>3, <1>4, <1>5, <1>6, <1>7, <1>8, <1>9, <1>10

\* The user writes no CSR.
LEMMA UserWritesNothing ==
  ASSUME NEW h, ~h.supervisorMode, NEW csr \in Csrs \ {"unknown"},
         ~Refuses(h, csr, TRUE)
  PROVE  FALSE
  BY DEF Refuses, Csrs, Counters, SupervisorCsrs

LEMMA CsrKinds ==
  ASSUME TypeOK, NEW csr \in Csrs, NEW writes \in BOOLEAN,
         CsrInstruction(csr, writes)
  PROVE  Kinds(hart, hart')
<1>1. hart \in HartState /\ NoTrap(hart, hart)
  BY HartIsPlain
<1>2. CASE Halt(hart) \/ Return(hart)
  BY <1>1, <1>2, PlainKinds DEF Halt, Return, Kinds
<1>3. CASE Return(HandleException(hart, InstrIllegal, InstrBits))
  BY <1>3, RaiseKinds DEF Return, Kinds, InstrIllegal
<1>4. CASE /\ csr # "unknown" /\ ~Refuses(hart, csr, writes) /\ writes
           /\ \E h \in Written(hart, csr) : Return(h)
  <2>1. hart.supervisorMode = TRUE
    BY <1>1, <1>4, UserWritesNothing DEF HartState
  <2>2. PICK h \in Written(hart, csr) : Return(h)
    BY <1>4
  <2>3. h \in HartState /\ h.supervisorMode = TRUE
        /\ OneWritten(hart, h)
    BY <1>1, <2>1, <2>2, WrittenType, WrittenKeepsMode
  <2>4. hart'.supervisorMode = TRUE
        /\ OneWritten(hart, hart')
    BY <2>2, <2>3, RetireFields DEF Return, OneWritten, KeepsSettings
  <2> QED
    BY <2>1, <2>4 DEF Kinds, Supervision
<1> QED
  BY <1>2, <1>3, <1>4 DEF CsrInstruction

LEMMA ExecuteKinds ==
  ASSUME TypeOK, Execute
  PROVE  Kinds(hart, hart')
<1>1. hart \in HartState /\ NoTrap(hart, hart)
  BY HartIsPlain
<1>2. CASE hart' = hart
  BY <1>1, <1>2 DEF Kinds
<1>3. CASE Retire(hart)
  BY <1>1, <1>3, PlainKinds DEF Kinds
<1>4. CASE \E code \in Nat, tval \in Addr :
             Retire(HandleException(hart, code, tval))
  BY <1>4, RaiseKinds DEF Kinds
<1>5. CASE \E va \in DataAddrs :
             Load(va) \/ Store(va) \/ LoadReserved(va) \/ Atomic(va)
  <2>1. MemoryKinds
    BY <1>5, MemoryAccessKinds
  <2>2. ASSUME NEW h \in HartState, NoTrap(hart, h), Retire(h)
        PROVE  Kinds(hart, hart')
    BY <2>2, PlainKinds DEF Kinds
  <2> QED
    BY <1>2, <1>3, <1>4, <2>1, <2>2 DEF MemoryKinds
<1>6. CASE Jump
  <2>1. PICK target \in JumpTargets :
          Retire([hart EXCEPT !.pc = target, !.shouldIncrementPC = FALSE])
    BY <1>6 DEF Jump, Return
  <2>2. /\ [hart EXCEPT !.pc = target, !.shouldIncrementPC = FALSE] \in HartState
        /\ NoTrap(hart, [hart EXCEPT !.pc = target, !.shouldIncrementPC = FALSE])
    BY <1>1, HartAssumption DEF HartState, NoTrap, KeepsSettings
  <2> QED
    BY <2>1, <2>2, PlainKinds DEF Kinds
<1>7. CASE SupervisorReturn
  <2>1. Sret(hart) \in HartState /\ Retire(Sret(hart))
    BY <1>1, <1>7, SretType DEF SupervisorReturn, Return
  <2>2. TrapExit(hart, Sret(hart)) /\ Sret(hart).shouldIncrementPC = FALSE
    BY <1>1 DEF TrapExit, KeepsSettings, Sret, HartState
  <2>3. TrapExit(hart, hart')
    BY <2>1, <2>2, RetireFields DEF TrapExit, KeepsSettings
  <2> QED
    BY <2>3 DEF Kinds
<1>8. CASE SetTimer
  <2>1. /\ [hart EXCEPT !.sip = @ \ {Sti}] \in HartState
        /\ [hart EXCEPT !.sip = @ \ {Sti}].supervisorMode = TRUE
        /\ [hart EXCEPT !.sip = @ \ {Sti}].sepc = hart.sepc
        /\ [hart EXCEPT !.sip = @ \ {Sti}].stvec = hart.stvec
        /\ Retire([hart EXCEPT !.sip = @ \ {Sti}])
    BY <1>1, <1>8 DEF SetTimer, Return, HartState
  <2>2. hart.supervisorMode = TRUE
    BY <1>1, <1>8 DEF SetTimer, HartState
  <2> QED
    BY <2>1, <2>2, RetireFields DEF Kinds, Supervision, OneWritten, KeepsSettings
<1>9. CASE UserCall
  BY <1>4, <1>9, AddrIsNat DEF UserCall, UserEcall, Return
<1>10. CASE Compute \/ Console \/ Shutdown \/ Undecodable \/ UnknownSbiCall
  BY <1>2, <1>3, <1>10
     DEF Compute, Console, Shutdown, Undecodable, UnknownSbiCall, Return, Halt
<1>11. CASE \E csr \in Csrs, writes \in BOOLEAN : CsrInstruction(csr, writes)
  BY <1>11, CsrKinds
<1> QED
  BY <1>5, <1>6, <1>7, <1>8, <1>9, <1>10, <1>11 DEF Execute

LEMMA StepKinds ==
  ASSUME TypeOK, [Next]_vars
  PROVE  Kinds(hart, hart')
<1>1. CASE UNCHANGED vars
  BY <1>1, HartIsPlain DEF vars, Kinds
<1> QED
  BY <1>1, FetchKinds, ExecuteKinds DEF Next, Stopped

-----------------------------------------------------------------------------
(* SPP is clear for as long as the hart is in user mode: with the types,   *)
(* the inductive invariant of everything below.                            *)
HartInv == TypeOK /\ UserSppClear

LEMMA HartInvStep == HartInv /\ [Next]_vars => UserSppClear'
<1> SUFFICES ASSUME TypeOK, UserSppClear, [Next]_vars
             PROVE  UserSppClear'
  BY DEF HartInv
<1>1. CASE NoTrap(hart, hart')
  BY <1>1 DEF NoTrap, UserSppClear
<1>2. CASE TrapEntry(hart, hart') \/ DoubleEntry(hart, hart')
  BY <1>2 DEF TrapEntry, DoubleEntry, PageFaultEntry, UserSppClear
<1>3. CASE TrapExit(hart, hart')
  BY <1>3 DEF TrapExit, StackBits, UserSppClear
<1>4. CASE Supervision(hart, hart')
  BY <1>4 DEF Supervision, UserSppClear
<1> QED
  BY <1>1, <1>2, <1>3, <1>4, StepKinds DEF Kinds

LEMMA HartInvariant == Spec => []HartInv
<1>1. Init => UserSppClear
  BY DEF Init, UserSppClear
<1> QED
  BY <1>1, HartInvStep, TypeCorrect, PTL DEF HartInv, Spec

\* A user program that executes SRET, which the hart does not forbid, stays
\* in user mode.
THEOREM UserStaysUser == Spec => []UserSppClear
  BY HartInvariant, PTL DEF HartInv

-----------------------------------------------------------------------------
(* Ways into supervisor mode *)

\* A step of the user ends in one of these ways.
LEMMA UserSteps ==
  ASSUME HartInv, [Next]_vars, ~hart.supervisorMode
  PROVE  \/ /\ NoTrap(hart, hart') \/ TrapExit(hart, hart')
            /\ ~hart'.supervisorMode
         \/ TrapEntry(hart, hart')
         \/ DoubleEntry(hart, hart')
<1>1. Kinds(hart, hart')
  BY StepKinds DEF HartInv
<1>2. NoTrap(hart, hart') => ~hart'.supervisorMode
  BY DEF NoTrap
<1>3. TrapExit(hart, hart') => ~hart'.supervisorMode
  BY DEF TrapExit, HartInv, UserSppClear
<1> QED
  BY <1>1, <1>2, <1>3 DEF Kinds, Supervision

LEMMA EntryFacts ==
  ASSUME NEW h, NEW g, TrapEntry(h, g)
  PROVE  /\ g.supervisorMode
         /\ "SIE" \notin g.sstatus
         /\ "SPP" \in g.sstatus <=> h.supervisorMode
         /\ "SPIE" \in g.sstatus <=> "SIE" \in h.sstatus
         /\ g.sstatus \cap {"SUM", "MXR"} = h.sstatus \cap {"SUM", "MXR"}
         /\ Vectors(g) = Vectors(h)
<1>1. g.sstatus = StackBits(h.sstatus, h.supervisorMode, "SIE" \in h.sstatus, FALSE)
  BY DEF TrapEntry
<1>2. /\ "SIE" \notin g.sstatus
      /\ "SPP" \in g.sstatus <=> h.supervisorMode
      /\ "SPIE" \in g.sstatus <=> "SIE" \in h.sstatus
      /\ g.sstatus \cap {"SUM", "MXR"} = h.sstatus \cap {"SUM", "MXR"}
  BY <1>1 DEF StackBits
<1>3. g.supervisorMode /\ g.stvec = h.stvec
  BY DEF TrapEntry, KeepsSettings
<1> QED
  BY <1>2, <1>3 DEF Vectors

\* Two traps in one step: the fetch of the handler's first instruction
\* faults, and what is saved is the vector and not the user's pc.
LEMMA DoubleEntryFacts ==
  ASSUME NEW h, NEW g, DoubleEntry(h, g)
  PROVE  /\ KeepsSettings(h, g)
         /\ g.supervisorMode
         /\ g.pc \in Vectors(h)
         /\ g.sepc \in Vectors(h)
         /\ "SIE" \notin g.sstatus
         /\ "SPIE" \notin g.sstatus
         /\ "SPP" \in g.sstatus
         /\ g.sstatus \cap {"SUM", "MXR"} = h.sstatus \cap {"SUM", "MXR"}
         /\ g.scause = [interrupt |-> FALSE, exceptionCode |-> InstrPageFault]
<1>1. PICK m \in HartState : TrapEntry(h, m) /\ PageFaultEntry(m, g)
  BY DEF DoubleEntry
<1>2. TrapEntry(m, g)
  BY <1>1 DEF PageFaultEntry
<1>3. /\ m.supervisorMode /\ "SIE" \notin m.sstatus
      /\ Vectors(m) = Vectors(h)
      /\ m.sstatus \cap {"SUM", "MXR"} = h.sstatus \cap {"SUM", "MXR"}
  BY <1>1, EntryFacts
<1>4. /\ g.supervisorMode /\ "SIE" \notin g.sstatus
      /\ "SPP" \in g.sstatus
      /\ "SPIE" \notin g.sstatus
      /\ g.sstatus \cap {"SUM", "MXR"} = m.sstatus \cap {"SUM", "MXR"}
  BY <1>2, <1>3, EntryFacts
<1>5. m.pc \in Vectors(h) /\ g.sepc = m.pc /\ g.pc \in Vectors(m)
  BY <1>1, <1>2 DEF TrapEntry
<1>6. KeepsSettings(h, g)
  BY <1>1, <1>2 DEF TrapEntry, KeepsSettings
<1>7. g.scause = [interrupt |-> FALSE, exceptionCode |-> InstrPageFault]
  BY <1>1 DEF PageFaultEntry
<1> QED
  BY <1>3, <1>4, <1>5, <1>6, <1>7

\* User code reaches supervisor mode at an address that stvec gives, with
\* interrupts off, whatever it executes.
THEOREM EntryAtVector == Spec => SupervisorEntersAtVector
<1>1. HartInv /\ [Next]_vars
        => [EntersSupervisor => /\ hart'.pc \in Vectors(hart)
                                /\ "SIE" \notin hart'.sstatus]_vars
  <2> SUFFICES ASSUME HartInv, [Next]_vars, EntersSupervisor
               PROVE  hart'.pc \in Vectors(hart) /\ "SIE" \notin hart'.sstatus
    OBVIOUS
  <2>1. CASE TrapEntry(hart, hart')
    BY <2>1, EntryFacts DEF TrapEntry
  <2>2. CASE DoubleEntry(hart, hart')
    BY <2>2, DoubleEntryFacts
  <2> QED
    BY <2>1, <2>2, UserSteps DEF EntersSupervisor
<1> QED
  BY <1>1, HartInvariant, PTL DEF SupervisorEntersAtVector, Spec

\* The trap remembers the user program it interrupts, or its handler could
\* not be fetched.
THEOREM ContextIsSaved == Spec => TrapSavesContext
<1> DEFINE Saved ==
      \/ /\ hart'.sepc = hart.pc
         /\ "SPP" \notin hart'.sstatus
         /\ "SPIE" \in hart'.sstatus <=> "SIE" \in hart.sstatus
      \/ /\ hart'.sepc \in Vectors(hart)
         /\ "SPP" \in hart'.sstatus
         /\ hart'.scause = [interrupt |-> FALSE,
                            exceptionCode |-> InstrPageFault]
<1>1. HartInv /\ [Next]_vars => [EntersSupervisor => Saved]_vars
  <2> SUFFICES ASSUME HartInv, [Next]_vars, EntersSupervisor
               PROVE  Saved
    OBVIOUS
  <2>1. CASE TrapEntry(hart, hart')
    <3>1. "SPP" \notin hart'.sstatus
      BY <2>1, EntryFacts DEF EntersSupervisor
    <3>2. "SPIE" \in hart'.sstatus <=> "SIE" \in hart.sstatus
      BY <2>1, EntryFacts
    <3> QED
      BY <2>1, <3>1, <3>2 DEF TrapEntry
  <2>2. CASE DoubleEntry(hart, hart')
    BY <2>2, DoubleEntryFacts
  <2> QED
    BY <2>1, <2>2, UserSteps DEF EntersSupervisor
<1> QED
  BY <1>1, HartInvariant, PTL DEF TrapSavesContext, Spec

\* No step in user mode touches what the supervisor has set up.
THEOREM SettingsAreKept == Spec => UserKeepsSettings
<1> DEFINE Kept ==
      ~hart.supervisorMode =>
        /\ Settings(hart') = Settings(hart)
        /\ ~hart'.supervisorMode => Report(hart') = Report(hart)
        /\ hart.sip \subseteq hart'.sip /\ hart'.sip \subseteq hart.sip \cup {Sti}
<1>1. HartInv /\ [Next]_vars => [Kept]_vars
  <2> SUFFICES ASSUME HartInv, [Next]_vars, ~hart.supervisorMode
               PROVE  Kept
    OBVIOUS
  <2>1. CASE NoTrap(hart, hart')
    BY <2>1 DEF NoTrap, KeepsSettings, Settings, Report
  <2>2. CASE TrapExit(hart, hart')
    <3>1. hart'.sstatus \cap {"SUM", "MXR"} = hart.sstatus \cap {"SUM", "MXR"}
      BY <2>2 DEF TrapExit, StackBits
    <3> QED
      BY <2>2, <3>1 DEF TrapExit, KeepsSettings, Settings, Report
  <2>3. CASE TrapEntry(hart, hart')
    BY <2>3, EntryFacts DEF TrapEntry, KeepsSettings, Settings
  <2>4. CASE DoubleEntry(hart, hart')
    BY <2>4, DoubleEntryFacts DEF KeepsSettings, Settings
  <2> QED
    BY <2>1, <2>2, <2>3, <2>4, UserSteps
<1> QED
  BY <1>1, HartInvariant, PTL DEF UserKeepsSettings, Spec

-----------------------------------------------------------------------------
(* The mode stack implements Privilege: each kind of step is one of its    *)
(* actions, or changes nothing it sees.                                    *)

\* hart and hart' in terms of the variables of Privilege.
LEMMA VectorsType ==
  ASSUME NEW h, h.stvec \in Stvec
  PROVE  Vectors(h) \subseteq Addr
<1>1. Ssi \in Irq
  BY DEF Irq
<1> QED
  BY <1>1, VectorType DEF Vectors

LEMMA StackTypes ==
  ASSUME HartInv, [Next]_vars
  PROVE  Stack!TypeOK /\ Stack!TypeOK'
<1>1. TypeOK /\ TypeOK'
  BY FetchType, ExecuteType DEF HartInv, Next, Stopped, vars, TypeOK
<1>2. \A bit, bits : (bit \in bits) \in BOOLEAN
  OBVIOUS
<1>3. Vectors(hart) \subseteq Addr /\ Vectors(hart') \subseteq Addr
  BY <1>1, VectorsType DEF TypeOK, HartState
<1> QED
  BY <1>1, <1>2, <1>3 DEF TypeOK, HartState, Stack!TypeOK

LEMMA StackStep ==
  ASSUME HartInv, [Next]_vars
  PROVE  [Stack!Next]_(Stack!vars)
<1>1. Stack!TypeOK /\ Stack!TypeOK'
  BY StackTypes
<1>2. hart.supervisorMode \in BOOLEAN /\ hart'.pc \in Addr /\ hart'.sepc \in Addr
  BY <1>1 DEF Stack!TypeOK
<1>3. CASE NoTrap(hart, hart')
  <2>1. Vectors(hart') = Vectors(hart)
    BY <1>3 DEF NoTrap, KeepsSettings, Vectors
  <2>2. Stack!Run
    BY <1>2, <1>3, <2>1 DEF NoTrap, Stack!Run, Stack!stack
  <2> QED
    BY <2>2 DEF Stack!Next
<1>4. CASE TrapEntry(hart, hart')
  <2>1. /\ hart'.supervisorMode = TRUE
        /\ ("SPP" \in hart'.sstatus) = hart.supervisorMode
        /\ ("SIE" \in hart'.sstatus) = FALSE
        /\ ("SPIE" \in hart'.sstatus) = ("SIE" \in hart.sstatus)
    BY <1>2, <1>4, EntryFacts
  <2>2. /\ hart'.sepc = hart.pc /\ hart'.pc \in Vectors(hart)
        /\ Vectors(hart') = Vectors(hart)
    BY <1>4, EntryFacts DEF TrapEntry
  <2>3. Stack!Trap
    BY <1>2, <2>1, <2>2 DEF Stack!Trap, Stack!Push
  <2> QED
    BY <2>3 DEF Stack!Next
<1>5. CASE DoubleEntry(hart, hart')
  <2>1. /\ hart'.supervisorMode = TRUE
        /\ ("SPP" \in hart'.sstatus) = TRUE
        /\ ("SIE" \in hart'.sstatus) = FALSE
        /\ ("SPIE" \in hart'.sstatus) = FALSE
    BY <1>2, <1>5, DoubleEntryFacts, StackTypes DEF Stack!TypeOK
  <2>2. /\ hart'.pc \in Vectors(hart) /\ hart'.sepc \in Vectors(hart)
        /\ Vectors(hart') = Vectors(hart)
    BY <1>5, DoubleEntryFacts DEF KeepsSettings, Vectors
  <2>3. Stack!NestedTrap
    BY <2>1, <2>2 DEF Stack!NestedTrap, Stack!Push
  <2> QED
    BY <2>3 DEF Stack!Next
<1>6. CASE TrapExit(hart, hart')
  <2>1. hart'.sstatus
          = StackBits(hart.sstatus, FALSE, TRUE, "SPIE" \in hart.sstatus)
    BY <1>6 DEF TrapExit
  <2>2. /\ hart'.supervisorMode = ("SPP" \in hart.sstatus)
        /\ ("SPP" \in hart'.sstatus) = FALSE
        /\ ("SIE" \in hart'.sstatus) = ("SPIE" \in hart.sstatus)
        /\ ("SPIE" \in hart'.sstatus) = TRUE
    BY <1>6, <2>1 DEF TrapExit, StackBits
  <2>3. /\ hart'.pc = hart.sepc /\ hart'.sepc = hart.sepc
        /\ Vectors(hart') = Vectors(hart)
    BY <1>6 DEF TrapExit, KeepsSettings, Vectors
  <2>4. Stack!Return
    BY <2>2, <2>3 DEF Stack!Return
  <2> QED
    BY <2>4 DEF Stack!Next
<1>7. CASE Supervision(hart, hart')
  <2>1. hart'.stvec = hart.stvec => Vectors(hart') = Vectors(hart)
    BY DEF Vectors
  <2>2. CASE hart'.sepc = hart.sepc /\ hart'.stvec = hart.stvec
    <3>1. Stack!WriteStatus
      BY <1>1, <1>7, <2>1, <2>2 DEF Supervision, Stack!WriteStatus
    <3> QED
      BY <3>1 DEF Stack!Next
  <2>3. CASE hart'.sstatus = hart.sstatus /\ hart'.stvec = hart.stvec
    <3>1. Stack!WriteEpc
      BY <1>1, <1>7, <2>1, <2>3 DEF Supervision, Stack!WriteEpc, Stack!stack
    <3> QED
      BY <3>1 DEF Stack!Next
  <2>4. CASE hart'.sepc = hart.sepc /\ hart'.sstatus = hart.sstatus
    <3>1. Stack!WriteHandlers
      BY <1>1, <1>7, <2>4 DEF Supervision, Stack!WriteHandlers, Stack!stack
    <3> QED
      BY <3>1 DEF Stack!Next
  <2> QED
    BY <1>7, <2>2, <2>3, <2>4 DEF Supervision, OneWritten
<1> QED
  BY <1>3, <1>4, <1>5, <1>6, <1>7, StepKinds DEF Kinds, HartInv

\* Whatever is executed, in either mode, traps go to the vectors and push, and
\* SRET pops, the pc, the mode and SIE, and nothing else raises the mode; a pc
\* that is lost has been replaced by a vector.
THEOREM ModeStack == Spec => ImplementsPrivilege
<1>1. Init => Stack!Init
  <2> SUFFICES ASSUME Init PROVE Stack!Init
    OBVIOUS
  <2>1. /\ hart.supervisorMode = TRUE /\ hart.pc \in Addr /\ hart.sepc \in Addr
        /\ hart.stvec \in Stvec
    BY HartAssumption DEF Init
  <2>2. \A bit, bits : (bit \in bits) \in BOOLEAN
    OBVIOUS
  <2> QED
    BY <2>1, <2>2, VectorsType DEF Stack!Init, Stack!TypeOK
<1>2. HartInv /\ [Next]_vars => [Stack!Next]_(Stack!vars)
  BY StackStep
<1> QED
  BY <1>1, <1>2, HartInvariant, PTL DEF Spec, Stack!Spec, ImplementsPrivilege

-----------------------------------------------------------------------------
(* Interrupts *)

LEMMA FirstIsOne ==
  ASSUME NEW irqs \in SUBSET Irq, irqs # {}
  PROVE  FirstOf(irqs) \in irqs
<1>1. CASE Ssi \in irqs \/ Sti \in irqs
  BY <1>1 DEF FirstOf
<1>2. CASE Ssi \notin irqs /\ Sti \notin irqs
  <2>1. irqs = {Sei}
    BY <1>2 DEF Irq
  <2> QED
    BY <1>2, <2>1 DEF FirstOf
<1> QED
  BY <1>1, <1>2

\* What a page fault in the fetch makes of the hart.
LEMMA FaultFields ==
  ASSUME Ready \in HartState, FetchedBy(Trapped)
  PROVE  /\ hart'.pc = TrapVector(Ready.stvec)
         /\ hart'.sepc = Ready.pc
         /\ hart'.scause = [interrupt |-> FALSE, exceptionCode |-> InstrPageFault]
<1>1. Trapped \in HartState
  BY HandleExceptionType DEF Trapped, InstrPageFault, HartState
<1>2. /\ Trapped.pc = TrapVector(Ready.stvec)
      /\ Trapped.sepc = Ready.pc
      /\ Trapped.scause = [interrupt |-> FALSE, exceptionCode |-> InstrPageFault]
  BY DEF Trapped, HandleException, EnterTrap, HartState
<1>3. /\ hart'.pc = Trapped.pc
      /\ hart'.sepc = Trapped.sepc
      /\ hart'.scause = Trapped.scause
  BY <1>1 DEF FetchedBy, HartState
<1> QED
  BY <1>2, <1>3

\* A fetch that begins with an interrupt due ends at its vector, or with the
\* vector in sepc.
LEMMA DueIsTaken ==
  ASSUME TypeOK, Fetch, Due(hart) # {}, hart.pc % 4 = 0
  PROVE  \E irq \in Due(hart) :
           Interrupted(hart, irq) \/ InterruptedAtFault(hart, irq)
<1> DEFINE irq == FirstOf(Serviceable(hart))
           cause == [interrupt |-> TRUE, exceptionCode |-> irq]
           g == EnterTrap(hart, InterruptVector(hart.stvec, irq), cause, 0)
<1>1. hart \in HartState /\ Ready \in HartState
  BY ReadyIsEntry DEF TypeOK
<1>2. Due(hart) = Serviceable(hart) /\ (hart.supervisorMode => "SIE" \in hart.sstatus)
  BY DEF Due, Serviceable
<1>3. Serviceable(hart) \in SUBSET Irq
  BY <1>1 DEF Serviceable, HartState
<1>4. irq \in Due(hart)
  BY <1>2, <1>3, FirstIsOne
<1>5. Ready = g
  BY <1>2 DEF Ready, CheckAlignment, HandleInterrupts
<1>6. /\ g.pc = InterruptVector(hart.stvec, irq)
      /\ g.sepc = hart.pc
      /\ g.scause = cause
      /\ g.stvec = hart.stvec
  BY <1>1 DEF EnterTrap, HartState
<1> HIDE DEF g
<1>7. CASE FetchedBy(Ready)
  <2>1. /\ hart'.pc = Ready.pc
        /\ hart'.sepc = Ready.sepc
        /\ hart'.scause = Ready.scause
    BY <1>1, <1>7 DEF FetchedBy, HartState
  <2>2. Interrupted(hart, irq)
    BY <1>5, <1>6, <2>1 DEF Interrupted
  <2> QED
    BY <1>4, <2>2
<1>8. CASE FetchedBy(Trapped)
  <2>1. InterruptedAtFault(hart, irq)
    BY <1>1, <1>5, <1>6, <1>8, FaultFields DEF InterruptedAtFault
  <2> QED
    BY <1>4, <2>1
<1> QED
  BY <1>7, <1>8, FetchSteps

\* A fetch that begins with none due takes none.
LEMMA NoneDueNoneTaken ==
  ASSUME TypeOK, Fetch, Due(hart) = {} \/ hart.pc % 4 # 0,
         hart'.scause.interrupt
  PROVE  /\ hart'.pc = hart.pc
         /\ hart'.scause = hart.scause
         /\ hart'.sepc = hart.sepc
<1>1. hart \in HartState /\ Ready \in HartState
  BY ReadyIsEntry DEF TypeOK
<1>2. FetchedBy(Ready)
  BY <1>1, FaultFields, FetchSteps
<1>3. /\ hart'.pc = Ready.pc
      /\ hart'.sepc = Ready.sepc
      /\ hart'.scause = Ready.scause
  BY <1>1, <1>2 DEF FetchedBy, HartState
<1>4. CASE hart.pc % 4 # 0
  <2>1. Ready = HandleException(hart, InstrMisaligned, hart.pc)
    BY <1>1, <1>4, NoInterruptAfterTrap DEF Ready, CheckAlignment
  <2>2. ~Ready.scause.interrupt
    BY <1>1, <2>1 DEF HandleException, EnterTrap, HartState
  <2> QED
    BY <1>3, <2>2
<1>5. CASE hart.pc % 4 = 0 /\ Due(hart) = {}
  <2>1. Ready = hart
    BY <1>5 DEF Ready, CheckAlignment, HandleInterrupts, Due, Serviceable
  <2> QED
    BY <1>3, <2>1
<1> QED
  BY <1>4, <1>5

\* Every fetch that begins with interrupts due takes one of them, and no other
\* fetch takes any, on every machine and for all software.
THEOREM InterruptsAreAsEnabled == Spec => InterruptsAsEnabled
<1> DEFINE Taken ==
      \E irq \in Due(hart) :
        Interrupted(hart, irq) \/ InterruptedAtFault(hart, irq)
           None ==
      hart'.scause.interrupt =>
        /\ hart'.pc = hart.pc
        /\ hart'.scause = hart.scause
        /\ hart'.sepc = hart.sepc
<1>1. TypeOK /\ [Next]_vars
        => [stage = "fetch" =>
              IF Due(hart) # {} /\ hart.pc % 4 = 0 THEN Taken ELSE None]_vars
  <2> SUFFICES ASSUME TypeOK, [Next]_vars, stage = "fetch", ~UNCHANGED vars
               PROVE  IF Due(hart) # {} /\ hart.pc % 4 = 0 THEN Taken ELSE None
    OBVIOUS
  <2>1. Fetch
    BY DEF Next, Execute, Stopped
  <2>2. CASE Due(hart) # {} /\ hart.pc % 4 = 0
    BY <2>1, <2>2, DueIsTaken
  <2>3. CASE Due(hart) = {} \/ hart.pc % 4 # 0
    BY <2>1, <2>3, NoneDueNoneTaken
  <2> QED
    BY <2>2, <2>3
<1> QED
  BY <1>1, TypeCorrect, PTL DEF InterruptsAsEnabled, Spec

-----------------------------------------------------------------------------
(* Page tables.  A fetch or a store that succeeds has found its leaf in    *)
(* the tables of satp: by induction over the iterations of a call.         *)

Pages == {PageOf(a) : a \in Ram}

\* An entry is read from the page of the table.
LEMMA EntryInTable ==
  ASSUME NEW va \in Addr, NEW w, NEW q \in Nat, w.base = q * PAGE_SIZE
  PROVE  PageOf(PteAddr(va, w)) = q % PageCount
<1> DEFINE v == IF w.i = 0 THEN Vpn0(va) ELSE Vpn1(va)
<1>1. v \in 0 .. (PteCount - 1)
  BY EntryOffset
<1> HIDE DEF v
<1>2. 4 * v \in 0 .. (PAGE_SIZE - 1)
  BY <1>1, PageSizes
<1>3. PageOf((q * PAGE_SIZE + 4 * v) % AddrSpace) = q % PageCount
  BY <1>2, PageWraps DEF PageOf
<1>4. PteAddr(va, w) = (q * PAGE_SIZE + 4 * v) % AddrSpace
  BY DEF PteAddr, PTE_SIZE, v
<1> QED
  BY <1>3, <1>4

LEMMA EntryNumber ==
  ASSUME NEW pte \in PTE
  PROVE  /\ pte.ppn1 \in Nat /\ pte.ppn0 \in 0 .. (PteCount - 1)
         /\ pte.ppn1 * PteCount + pte.ppn0 \in Nat
         /\ PageNamed(pte) = (pte.ppn1 * PteCount + pte.ppn0) % PageCount
<1>1. pte.ppn1 \in Nat /\ pte.ppn0 \in 0 .. (PteCount - 1)
  BY PageSizes DEF PTE
<1>2. pte.ppn1 * PteCount \in Nat /\ pte.ppn0 \in Nat
  BY <1>1, PageSizes
<1> QED
  BY <1>1, <1>2 DEF PageNamed, PageCount

-----------------------------------------------------------------------------
(* The tables *)

\* The least set of pages holds the root and goes on with every pointer.
LEMMA RootIsTable ==
  PageOf(WalkStart(hart).base) \in Pages => PageOf(WalkStart(hart).base) \in TablePages
  BY DEF TablePages, Pages

LEMMA PointersStayInTables ==
  ASSUME NEW e \in Ram, PageOf(e) \in TablePages,
         "V" \in mem[e].flags, ~IsLeaf(mem[e]), PageNamed(mem[e]) \in Pages
  PROVE  PageNamed(mem[e]) \in TablePages
  BY DEF TablePages, Pages

\* The walk stays in the tables, and a leaf comes from one.
InTables(w, accessType) ==
  /\ w = [i |-> w.i, base |-> w.base, pte |-> w.pte, status |-> w.status]
  /\ \E q \in Nat : /\ w.base = q * PAGE_SIZE
                    /\ q % PageCount \in Pages => q % PageCount \in TablePages
  /\ w.status = "leaf" =>
       \E e \in Ram : /\ PageOf(e) \in TablePages
                      /\ mem[e] = w.pte
                      /\ Verdict(hart, w.pte, accessType, w.i) = "leaf"

LEMMA StartInTables ==
  ASSUME TypeOK, NEW accessType
  PROVE  InTables(WalkStart(hart), accessType)
<1> DEFINE w == WalkStart(hart)
           q == hart.satp.ppn
<1>1. q \in Nat
  BY PageSizes DEF TypeOK, HartState, Satp
<1>2. w.base = (q * PAGE_SIZE + 0) % AddrSpace /\ w.status = "walking"
  BY <1>1, PageSizes DEF WalkStart
<1>3. w.base = (q % PageCount) * PAGE_SIZE + 0 /\ PageOf(w.base) = q % PageCount
  <2>1. 0 \in 0 .. (PAGE_SIZE - 1)
    BY PageSizes
  <2> QED
    BY <1>1, <1>2, <2>1, PageWraps DEF PageOf
<1>4. q % PageCount \in Nat /\ (q % PageCount) % PageCount = q % PageCount
  <2>1. q % PageCount \in 0 .. (PageCount - 1)
    <3>1. q \in Int /\ PageCount \in Nat \ {0}
      BY <1>1, PageSizes
    <3> HIDE DEF q
    <3> QED
      BY <3>1, DivMod
  <2> QED
    BY <2>1, PageSizes, ModSmall
<1>5. w.base = (q % PageCount) * PAGE_SIZE
  BY <1>3, <1>4, PageSizes
<1>6. w = [i |-> w.i, base |-> w.base, pte |-> w.pte, status |-> w.status]
  BY DEF WalkStart
<1>7. q % PageCount \in Pages => q % PageCount \in TablePages
  BY <1>3, RootIsTable
<1> HIDE DEF w, q
<1>8. InTables(w, accessType)
  BY <1>2, <1>4, <1>5, <1>6, <1>7 DEF InTables
<1> QED
  BY <1>8 DEF w

LEMMA StepInTables ==
  ASSUME TypeOK, NEW va \in Addr, NEW accessType, NEW w, InTables(w, accessType),
         w.status = "walking"
  PROVE  InTables(WalkStep(mem, hart, va, accessType, w), accessType)
<1> DEFINE a == PteAddr(va, w)
           g == WalkStep(mem, hart, va, accessType, w)
<1>1. PICK q \in Nat : /\ w.base = q * PAGE_SIZE
                       /\ q % PageCount \in Pages => q % PageCount \in TablePages
  BY DEF InTables
<1>2. w = [i |-> w.i, base |-> w.base, pte |-> w.pte, status |-> w.status]
  BY DEF InTables
<1>3. DOMAIN mem = Ram /\ \A e \in Ram : mem[e] \in PTE
  BY DEF TypeOK
<1>4. PageOf(a) = q % PageCount
  BY <1>1, EntryInTable
<1>5. a \in Ram => PageOf(a) \in TablePages
  BY <1>1, <1>4 DEF Pages
<1> HIDE DEF a
<1>6. CASE a \notin Ram
  <2>1. g = [w EXCEPT !.status = "throw"]
    BY <1>3, <1>6 DEF WalkStep, a
  <2>2. g = [i |-> w.i, base |-> w.base, pte |-> w.pte, status |-> "throw"]
    BY <1>2, <2>1
  <2> HIDE DEF g
  <2>3. InTables(g, accessType)
    BY <1>1, <2>2 DEF InTables
  <2> QED
    BY <2>3 DEF g
<1>7. CASE a \in Ram /\ Verdict(hart, mem[a], accessType, w.i) = "walking"
  <2> DEFINE n == mem[a].ppn1 * PteCount + mem[a].ppn0
  <2>1. g = [i |-> NextLevel(w.i), base |-> n * PAGE_SIZE,
             pte |-> mem[a], status |-> "walking"]
    BY <1>3, <1>7 DEF WalkStep, a
  <2>2. n \in Nat /\ n % PageCount = PageNamed(mem[a])
    BY <1>3, <1>7, EntryNumber
  <2>3. "V" \in mem[a].flags /\ ~IsLeaf(mem[a])
    BY <1>7 DEF Verdict, Invalid
  <2>4. n % PageCount \in Pages => n % PageCount \in TablePages
    BY <1>5, <1>7, <2>2, <2>3, PointersStayInTables
  <2> HIDE DEF g, n
  <2>5. InTables(g, accessType)
    BY <2>1, <2>2, <2>4 DEF InTables
  <2> QED
    BY <2>5 DEF g
<1>8. CASE a \in Ram /\ Verdict(hart, mem[a], accessType, w.i) # "walking"
  <2> DEFINE verdict == Verdict(hart, mem[a], accessType, w.i)
  <2>1. g = [w EXCEPT !.pte = mem[a], !.status = verdict]
    BY <1>3, <1>8 DEF WalkStep, a
  <2> HIDE DEF verdict
  <2>2. g = [i |-> w.i, base |-> w.base, pte |-> mem[a], status |-> verdict]
    BY <1>2, <2>1
  <2> HIDE DEF g
  <2>3. g.status = "leaf" =>
          /\ PageOf(a) \in TablePages /\ mem[a] = g.pte
          /\ Verdict(hart, g.pte, accessType, g.i) = "leaf"
    BY <1>5, <1>8, <2>2 DEF verdict
  <2>4. InTables(g, accessType)
    BY <1>1, <1>8, <2>2, <2>3 DEF InTables
  <2> QED
    BY <2>4 DEF g
<1> QED
  BY <1>6, <1>7, <1>8
-----------------------------------------------------------------------------
(* The call *)

\* The last iteration of every call is in the tables.
LEMMA TranslateWalks ==
  ASSUME TypeOK, NEW va \in Addr, NEW accessType, hart.satp.mode = 1
  PROVE  \E w : /\ InTables(w, accessType)
                /\ Translate(mem, hart, va, accessType) = Finish(va, w)
<1>1. MaxWalk \in Nat
  BY MaxWalkNat
<1>2. PICK s : /\ Iterations(s, mem, hart, va, accessType, MaxWalk)
               /\ Translate(mem, hart, va, accessType) = Finish(va, s[MaxWalk])
  BY TranslateIterates
<1>4. ASSUME NEW k \in 0 .. MaxWalk
      PROVE  s[k] = IF k = 0 THEN WalkStart(hart)
                    ELSE IF s[k - 1].status # "walking" THEN s[k - 1]
                    ELSE WalkStep(mem, hart, va, accessType, s[k - 1])
  BY <1>2 DEF Iterations
<1>5. ASSUME NEW k \in 1 .. MaxWalk, InTables(s[k - 1], accessType)
      PROVE  InTables(s[k], accessType)
  <2>1. s[k] = IF s[k - 1].status # "walking" THEN s[k - 1]
               ELSE WalkStep(mem, hart, va, accessType, s[k - 1])
    <3>1. k \in 0 .. MaxWalk /\ k # 0
      BY <1>1
    <3> QED
      BY <1>4, <3>1
  <2> QED
    BY <1>5, <2>1, StepInTables
<1>6. InTables(s[0], accessType)
  BY <1>1, <1>4, StartInTables
<1>7. InTables(s[MaxWalk], accessType)
  <2> DEFINE T == {n \in 0 .. MaxWalk : ~InTables(s[n], accessType)}
  <2> SUFFICES ASSUME T # {} PROVE FALSE
    BY <1>1
  <2>1. PICK n \in T : \A m \in T : ~(m < n)
    <3>1. T \subseteq Nat
      BY <1>1
    <3> HIDE DEF T
    <3> QED
      BY <3>1, Least
  <2>2. n # 0
    BY <1>6
  <2>3. n \in 1 .. MaxWalk /\ n - 1 \in 0 .. MaxWalk /\ n - 1 < n
    BY <1>1, <2>2
  <2>4. InTables(s[n - 1], accessType)
    BY <2>1, <2>3
  <2> QED
    BY <1>5, <2>3, <2>4
<1> QED
  BY <1>2, <1>7

-----------------------------------------------------------------------------
(* The address that a leaf gives lies in the page it maps. *)

LEMMA LeafCovers ==
  ASSUME NEW va \in Addr, NEW w, w.pte \in PTE, w.i = 1 => w.pte.ppn0 = 0,
         ResultBits(va, w) \in Addr
  PROVE  Covers(w.pte, ResultBits(va, w))
<1> DEFINE S == PAGE_SIZE
           P == PteCount
           a == w.pte.ppn1
           v == Vpn0(va)
           off == PageOffset(va)
           bits == ResultBits(va, w)
<1>1. S \in Nat \ {0} /\ P \in Nat \ {0}
  BY PageSizes
<1>2. a \in Nat /\ v \in 0 .. (P - 1) /\ off \in 0 .. (S - 1)
  BY EntryNumber, EntryOffset
<1>3. CASE w.i = 1
  <2> DEFINE r == v * S + off
  <2>1. bits = (a * P + v) * S + off
    BY <1>3 DEF ResultBits
  <2> HIDE DEF S, P, a, v, off, bits
  <2>2. r \in 0 .. (P * S - 1)
    <3>1. v * S <= (P - 1) * S
      <4>1. v \in Nat /\ P - 1 \in Nat /\ v <= P - 1
        BY <1>1, <1>2
      <4> QED
        BY <1>1, <4>1, Monotone
    <3>2. (P - 1) * S = P * S - S /\ v * S \in Nat /\ P * S \in Nat
      BY <1>1, <1>2
    <3> QED
      BY <1>1, <1>2, <3>1, <3>2
  <2>3. bits = a * (P * S) + r
    <3>1. (a * P + v) * S = a * (P * S) + v * S
      BY <1>1, <1>2
    <3>2. a * (P * S) \in Nat /\ v * S \in Nat
      BY <1>1, <1>2
    <3> QED
      BY <1>2, <2>1, <3>1, <3>2
  <2>4. bits \div (P * S) = a
    <3>1. P * S \in Nat \ {0}
      BY <1>1
    <3> HIDE DEF r
    <3> QED
      BY <1>2, <2>2, <2>3, <3>1, DivModUnique
  <2> QED
    BY <1>3, <2>4 DEF Covers, P, S, a, bits
<1>4. CASE w.i # 1
  <2> DEFINE q == w.pte.ppn1 * PteCount + w.pte.ppn0
  <2>1. bits = q * S + off
    BY <1>4 DEF ResultBits
  <2>2. q \in Nat /\ PageNamed(w.pte) = q % PageCount
    BY EntryNumber
  <2>3. bits % AddrSpace = bits
    <3>1. bits \in Nat /\ bits < AddrSpace
      BY AddrSpacePositive DEF Addr
    <3> HIDE DEF bits
    <3> QED
      BY <3>1, PageSizes, ModSmall
  <2>4. PageOf((q * S + off) % AddrSpace) = q % PageCount
    <3> HIDE DEF q, off
    <3> QED
      BY <1>2, <2>2, PageWraps DEF PageOf
  <2>5. PageOf(bits) = q % PageCount
    BY <2>1, <2>3, <2>4
  <2> HIDE DEF q
  <2> QED
    BY <2>2, <2>5 DEF Covers
<1> QED
  BY <1>3, <1>4

\* What a call that succeeds has found.
LEMMA LeafFound ==
  ASSUME TypeOK, NEW va \in Addr, NEW accessType, hart.satp.mode = 1,
         Translate(mem, hart, va, accessType).status = "ok"
  PROVE  \E e \in Ram : \E i :
           /\ PageOf(e) \in TablePages
           /\ Covers(mem[e], Translate(mem, hart, va, accessType).addr)
           /\ Verdict(hart, mem[e], accessType, i) = "leaf"
<1> DEFINE t == Translate(mem, hart, va, accessType)
<1>1. PICK w : InTables(w, accessType) /\ t = Finish(va, w)
  BY TranslateWalks
<1>2. /\ w.status = "leaf" /\ ResultBits(va, w) \in Addr
      /\ t.addr = ResultBits(va, w)
  BY <1>1 DEF Finish, Mapped
<1>3. PICK e \in Ram : /\ PageOf(e) \in TablePages
                       /\ mem[e] = w.pte
                       /\ Verdict(hart, w.pte, accessType, w.i) = "leaf"
  BY <1>1, <1>2 DEF InTables
<1>4. w.pte \in PTE
  BY <1>3 DEF TypeOK
<1>5. w.i = 1 => w.pte.ppn0 = 0
  BY <1>3 DEF Verdict, Refused
<1>6. Covers(w.pte, ResultBits(va, w))
  BY <1>2, <1>4, <1>5, LeafCovers
<1> HIDE DEF t
<1>7. Covers(mem[e], t.addr) /\ Verdict(hart, mem[e], accessType, w.i) = "leaf"
  BY <1>2, <1>3, <1>6
<1> QED
  BY <1>3, <1>7 DEF t

-----------------------------------------------------------------------------
(* Fetches *)

\* The permissions that a leaf which is not refused has.
LEMMA LeafFlags ==
  ASSUME NEW pte, NEW accessType, NEW i,
         Verdict(hart, pte, accessType, i) = "leaf"
  PROVE  /\ {"V", "A"} \subseteq pte.flags
         /\ ~hart.supervisorMode => "U" \in pte.flags
         /\ accessType = "EXECUTE" =>
              "X" \in pte.flags /\ (hart.supervisorMode => "U" \notin pte.flags)
         /\ accessType = "WRITE" =>
              /\ {"R", "W", "D"} \subseteq pte.flags
              /\ hart.supervisorMode /\ "SUM" \notin hart.sstatus
                   => "U" \notin pte.flags
         /\ accessType = "READ" =>
              /\ \/ "R" \in pte.flags
                 \/ "X" \in pte.flags /\ "MXR" \in hart.sstatus
              /\ hart.supervisorMode /\ "SUM" \notin hart.sstatus
                   => "U" \notin pte.flags
<1>1. ~Invalid(pte) /\ ~Refused(hart, pte, accessType, i)
  BY DEF Verdict
<1>2. ~WrongMode(hart, pte, accessType) /\ ~WrongKind(hart, pte, accessType)
      /\ ~Untouched(pte, accessType)
  BY <1>1 DEF Refused
<1> QED
  BY <1>1, <1>2 DEF Invalid, WrongMode, WrongKind, Untouched

LEMMA FetchLeaf ==
  ASSUME TypeOK, hart.satp.mode = 1, FetchOf(hart).status = "ok"
  PROVE  IF hart.supervisorMode
         THEN SomeSupervisorLeaf(FetchOf(hart).addr, {"V", "X", "A"})
         ELSE SomeLeaf(FetchOf(hart).addr, {"V", "X", "A", "U"})
<1>1. hart.pc \in Addr
  BY DEF TypeOK, HartState
<1>2. PICK e \in Ram : \E i :
        /\ PageOf(e) \in TablePages
        /\ Covers(mem[e], FetchOf(hart).addr)
        /\ Verdict(hart, mem[e], "EXECUTE", i) = "leaf"
  BY <1>1, LeafFound DEF FetchOf
<1>3. CASE hart.supervisorMode
  <2>1. {"V", "X", "A"} \subseteq mem[e].flags /\ "U" \notin mem[e].flags
    BY <1>2, <1>3, LeafFlags
  <2> QED
    BY <1>2, <1>3, <2>1 DEF SomeSupervisorLeaf
<1>4. CASE ~hart.supervisorMode
  <2>1. {"V", "X", "A", "U"} \subseteq mem[e].flags
    BY <1>2, <1>4, LeafFlags
  <2> QED
    BY <1>2, <1>4, <2>1 DEF SomeLeaf
<1> QED
  BY <1>3, <1>4

LEMMA WrapKeepsAlignment ==
  ASSUME NEW k \in Nat
  PROVE  (4 * k) % AddrSpace \in Nat /\ ((4 * k) % AddrSpace) % 4 = 0
<1> DEFINE m == PageCount * PteCount
           d == (4 * k) \div AddrSpace
           r == (4 * k) % AddrSpace
<1>1. m \in Nat /\ AddrSpace = 4 * m /\ AddrSpace \in Nat \ {0}
  <2>1. PageCount * (4 * PteCount) = 4 * (PageCount * PteCount)
    BY PageSizes
  <2> QED
    BY <2>1, PageSizes
<1>2. 4 * k \in Int
  OBVIOUS
<1> HIDE DEF m
<1>3. r \in Nat /\ d \in Int /\ 4 * k = AddrSpace * d + r
  <2> DEFINE n == 4 * k
  <2> HIDE DEF n
  <2>1. n % AddrSpace \in 0 .. (AddrSpace - 1) /\ n \div AddrSpace \in Int
        /\ n = AddrSpace * (n \div AddrSpace) + (n % AddrSpace)
    BY <1>1, <1>2, DivMod DEF n
  <2> QED
    BY <1>1, <2>1 DEF n
<1> HIDE DEF d, r
<1>4. r = 4 * (k - m * d) /\ m * d \in Int
  <2>1. (4 * m) * d = 4 * (m * d) /\ m * d \in Int
    BY <1>1, <1>3
  <2>2. 4 * k = 4 * (m * d) + r
    BY <1>1, <1>3, <2>1
  <2> QED
    BY <1>3, <2>1, <2>2
<1>5. r % 4 = 0
  BY <1>3, <1>4
<1> QED
  BY <1>3, <1>5 DEF r

LEMMA VectorsAligned ==
  ASSUME NEW stvec \in Stvec, NEW irq \in Nat
  PROVE  TrapVector(stvec) % 4 = 0 /\ InterruptVector(stvec, irq) % 4 = 0
<1>1. stvec.base \in Nat
  BY DEF Stvec
<1>2. TrapVector(stvec) \in Nat /\ TrapVector(stvec) % 4 = 0
  BY <1>1, WrapKeepsAlignment DEF TrapVector
<1> DEFINE k == TrapVector(stvec) \div 4
<1>3. k \in Nat /\ TrapVector(stvec) = 4 * k
  BY <1>2
<1>4. TrapVector(stvec) + 4 * irq = 4 * (k + irq) /\ k + irq \in Nat
  BY <1>3
<1>5. ((TrapVector(stvec) + 4 * irq) % AddrSpace) % 4 = 0
  BY <1>4, WrapKeepsAlignment
<1> QED
  BY <1>2, <1>5 DEF InterruptVector

\* No hart asks for an instruction at an address that is not aligned.
LEMMA FetchesAligned ==
  ASSUME TypeOK
  PROVE  Ready.pc % 4 = 0 /\ Trapped.pc % 4 = 0
<1>1. hart \in HartState /\ hart.stvec \in Stvec
  BY DEF TypeOK, HartState
<1>2. ASSUME NEW h \in HartState, NEW code, NEW tval
      PROVE  HandleException(h, code, tval).pc % 4 = 0
  <2>1. HandleException(h, code, tval).pc = TrapVector(h.stvec)
    BY DEF HandleException, EnterTrap, HartState
  <2>2. h.stvec \in Stvec
    BY DEF HartState
  <2> QED
    BY <2>1, <2>2, VectorsAligned
<1>3. ASSUME NEW h \in HartState, h.pc % 4 = 0
      PROVE  HandleInterrupts(h).pc % 4 = 0
  <2> DEFINE irq == FirstOf(Serviceable(h))
             g == EnterTrap(h, InterruptVector(h.stvec, irq),
                            [interrupt |-> TRUE, exceptionCode |-> irq], 0)
  <2>1. irq \in Nat
    BY FirstOfType DEF Irq, Ssi, Sti, Sei
  <2>2. g.pc = InterruptVector(h.stvec, irq)
    BY DEF EnterTrap, HartState
  <2>3. h.stvec \in Stvec
    BY DEF HartState
  <2>4. g.pc % 4 = 0
    BY <2>1, <2>2, <2>3, VectorsAligned
  <2> QED
    BY <1>3, <2>4 DEF HandleInterrupts
<1>4. CheckAlignment(hart) \in HartState /\ CheckAlignment(hart).pc % 4 = 0
  BY <1>1, <1>2, CheckAlignmentType DEF CheckAlignment
<1>5. Ready \in HartState
  BY ReadyIsEntry
<1> QED
  BY <1>2, <1>3, <1>4, <1>5 DEF Ready, Trapped

\* What is executed has been fetched, and is still where it was.
HasFetched ==
  stage = "execute" =>
    /\ hart.pc % 4 = 0
    /\ FetchOf(hart).status = "ok"
    /\ FetchOf(hart).addr \in Ram

\* shouldIncrementPC and loaded are nothing to a translation.
LEMMA FetchAgain ==
  ASSUME NEW h \in HartState, NEW m, NEW b
  PROVE  LET g == [h EXCEPT !.shouldIncrementPC = b, !.loaded = {}]
         IN  /\ g.pc = h.pc
             /\ Translate(m, g, g.pc, "EXECUTE") = Translate(m, h, h.pc, "EXECUTE")
<1> DEFINE g == [h EXCEPT !.shouldIncrementPC = b, !.loaded = {}]
<1>1. /\ g.pc = h.pc /\ g.satp = h.satp /\ g.sstatus = h.sstatus
      /\ g.supervisorMode = h.supervisorMode
  BY DEF HartState
<1> HIDE DEF g
<1>2. WalkStart(g) = WalkStart(h)
  BY <1>1 DEF WalkStart
<1>3. \A pte, i : Verdict(g, pte, "EXECUTE", i) = Verdict(h, pte, "EXECUTE", i)
  BY <1>1 DEF Verdict, Refused, WrongMode, WrongKind, Untouched
<1>4. \A w : WalkStep(m, g, h.pc, "EXECUTE", w) = WalkStep(m, h, h.pc, "EXECUTE", w)
  BY <1>3 DEF WalkStep
<1>5. Translate(m, g, h.pc, "EXECUTE") = Translate(m, h, h.pc, "EXECUTE")
  <2>1. CASE h.satp.mode = 0
    BY <1>1, <2>1 DEF Translate
  <2>2. CASE h.satp.mode = 1
    <3>1. PICK s : /\ Iterations(s, m, g, h.pc, "EXECUTE", MaxWalk)
                   /\ Translate(m, g, h.pc, "EXECUTE") = Finish(h.pc, s[MaxWalk])
      BY <1>1, <2>2, TranslateIterates
    <3>2. PICK t : /\ Iterations(t, m, h, h.pc, "EXECUTE", MaxWalk)
                   /\ Translate(m, h, h.pc, "EXECUTE") = Finish(h.pc, t[MaxWalk])
      BY <2>2, TranslateIterates
    <3>3. MaxWalk \in Nat
      BY MaxWalkNat
    <3>4. s[MaxWalk] = t[MaxWalk]
      BY <1>2, <1>4, <3>1, <3>2, <3>3, IterationsAgree
    <3> QED
      BY <3>1, <3>2, <3>4
  <2>3. h.satp.mode \in {0, 1}
    BY DEF HartState, Satp
  <2> QED
    BY <2>1, <2>2, <2>3
<1> QED
  BY <1>1, <1>5 DEF g

LEMMA ExecuteEnds ==
  ASSUME Execute
  PROVE  stage' # "execute" \/ UNCHANGED <<hart, mem, stage>>
  BY DEF Execute, Load, Store, LoadReserved, Atomic, AtomicAccess, Unmapped,
     Misaligned, StoreConditional, AtomicUpdate, Compute, Jump, Undecodable,
     SupervisorReturn, UserCall, SetTimer, Console, Shutdown, UnknownSbiCall,
     CsrInstruction, Return, Retire, Halt, Spin

LEMMA FetchedStep == TypeOK /\ HasFetched /\ [Next]_vars => HasFetched'
<1> SUFFICES ASSUME TypeOK, HasFetched, [Next]_vars, stage' = "execute"
             PROVE  /\ hart'.pc % 4 = 0
                    /\ FetchOf(hart)'.status = "ok"
                    /\ FetchOf(hart)'.addr \in Ram
  BY DEF HasFetched
<1>1. CASE Fetch
  <2>1. /\ Ready \in HartState /\ Ready.pc % 4 = 0
        /\ Trapped \in HartState /\ Trapped.pc % 4 = 0
    <3>1. Ready \in HartState
      BY ReadyIsEntry
    <3>2. Trapped \in HartState
      BY <3>1, HandleExceptionType DEF Trapped, InstrPageFault, HartState
    <3> QED
      BY <3>1, <3>2, FetchesAligned
  <2>2. PICK h \in {Ready, Trapped} :
          /\ FetchOf(h).status = "ok" /\ FetchOf(h).addr \in Ram
          /\ hart' = [h EXCEPT !.shouldIncrementPC = TRUE, !.loaded = {}]
          /\ mem' = mem
    BY <1>1 DEF Fetch, Fetched, Halt, Spin
  <2>3. h \in HartState /\ h.pc % 4 = 0
    BY <2>1, <2>2
  <2>4. hart'.pc = h.pc /\ FetchOf(hart)' = FetchOf(h)
    BY <2>2, <2>3, FetchAgain DEF FetchOf
  <2> QED
    BY <2>2, <2>3, <2>4
<1>2. CASE Execute
  <2>1. UNCHANGED <<hart, mem, stage>>
    BY <1>2, ExecuteEnds
  <2> QED
    BY <2>1 DEF HasFetched, FetchOf
<1>3. CASE UNCHANGED vars
  BY <1>3 DEF vars, HasFetched, FetchOf
<1> QED
  BY <1>1, <1>2, <1>3 DEF Next, Stopped

\* The hart executes nothing that the page tables do not let it execute in
\* the mode it is in, whatever the tables hold and however often software
\* has rewritten them, after a trap in the fetch too.
THEOREM FetchIsPermitted == Spec => []FetchPermitted
<1>1. Init => HasFetched
  BY DEF Init, HasFetched
<1>2. TypeOK /\ HasFetched => FetchPermitted
  BY FetchLeaf DEF FetchPermitted, HasFetched
<1> QED
  BY <1>1, <1>2, FetchedStep, TypeCorrect, PTL DEF Spec

-----------------------------------------------------------------------------
(* Interrupts that are due when an instruction is executed *)

\* Nothing is due at the start of a handler, nor when handleInterrupts took
\* nothing.
LEMMA NothingDue ==
  ASSUME TypeOK
  PROVE  Due(Ready) = {} /\ Due(Trapped) = {}
<1> DEFINE h == CheckAlignment(hart)
           irq == FirstOf(Serviceable(h))
           g == EnterTrap(h, InterruptVector(h.stvec, irq),
                          [interrupt |-> TRUE, exceptionCode |-> irq], 0)
<1>1. h \in HartState /\ Ready \in HartState
  BY CheckAlignmentType, ReadyIsEntry DEF TypeOK
<1>2. \A x, y : TrapEntry(x, y) => Due(y) = {}
  BY EntryFacts DEF Due
<1>3. TrapEntry(Ready, Trapped)
  BY <1>1, ExceptionIsEntry DEF Trapped
<1>4. TrapEntry(h, g)
  BY <1>1, FirstOfType, EnterTrapIsEntry DEF Vectors
<1>5. Ready = IF (h.supervisorMode => "SIE" \in h.sstatus) /\ Serviceable(h) # {}
              THEN g ELSE h
  BY DEF Ready, HandleInterrupts
<1> HIDE DEF h, g
<1>6. Due(Ready) = {}
  BY <1>2, <1>4, <1>5 DEF Due, Serviceable
<1> QED
  BY <1>2, <1>3, <1>6

LEMMA DueStep ==
  TypeOK /\ NoInterruptPassed /\ [Next]_vars => NoInterruptPassed'
<1> SUFFICES ASSUME TypeOK, NoInterruptPassed, [Next]_vars, stage' = "execute"
             PROVE  Due(hart') = {}
  BY DEF NoInterruptPassed, Due, Serviceable
<1>1. CASE Fetch
  <2>1. PICK h \in {Ready, Trapped} :
          hart' = [h EXCEPT !.shouldIncrementPC = TRUE, !.loaded = {}]
    BY <1>1 DEF Fetch, Fetched, Halt, Spin
  <2>2. Ready \in HartState
    BY ReadyIsEntry
  <2>3. h \in HartState
    BY <2>1, <2>2, HandleExceptionType DEF Trapped, InstrPageFault, HartState
  <2>4. Due(hart') = Due(h)
    BY <2>1, <2>3 DEF Due, Serviceable, HartState
  <2> QED
    BY <2>1, <2>4, NothingDue
<1>2. CASE Execute
  BY <1>2, ExecuteEnds DEF NoInterruptPassed
<1>3. CASE UNCHANGED vars
  BY <1>3 DEF vars, NoInterruptPassed
<1> QED
  BY <1>1, <1>2, <1>3 DEF Next, Stopped

\* The hart executes no instruction while an interrupt that it must take is
\* pending: neither the one that the interrupt came before, nor the first one
\* of a handler that a trap in the fetch led to.
THEOREM NoInterruptIsPassed == Spec => []NoInterruptPassed
<1>1. Init => NoInterruptPassed
  BY DEF Init, NoInterruptPassed
<1> QED
  BY <1>1, DueStep, TypeCorrect, PTL DEF Spec

-----------------------------------------------------------------------------
(* Stores *)

\* A word is in the page of each of its bytes.
LEMMA CoversWord ==
  ASSUME NEW pte, NEW pa \in Addr, Covers(pte, pa)
  PROVE  Covers(pte, Word(pa))
<1>1. ASSUME NEW n \in Nat \ {0}
      PROVE  Word(pa) \div (4 * n) = pa \div (4 * n)
  <2> DEFINE M == 4 * n
             d == pa \div M
             r == pa % M
  <2>1. M \in Nat \ {0} /\ pa \in Nat
    BY AddrIsNat
  <2> HIDE DEF M
  <2>2. d \in Nat /\ r \in 0 .. (M - 1) /\ pa = M * d + r
    <3>1. pa \in Int
      BY <2>1
    <3> QED
      BY <2>1, <3>1, DivMod, QuotientNat
  <2> HIDE DEF d, r
  <2>3. n * d \in Nat /\ M * d = 4 * (n * d)
    BY <2>2 DEF M
  <2>4. pa % 4 = r % 4
    BY <2>2, <2>3
  <2>5. r - (r % 4) \in 0 .. (M - 1)
    BY <2>1, <2>2
  <2>6. Word(pa) = d * M + (r - (r % 4))
    <3>1. d * M = M * d /\ M * d \in Nat
      BY <2>1, <2>2
    <3> QED
      BY <2>2, <2>4, <2>5, <3>1 DEF Word
  <2>7. Word(pa) \div M = d
    BY <2>1, <2>2, <2>5, <2>6, DivModUnique
  <2> QED
    BY <2>7 DEF d, M
<1>2. PageOf(Word(pa)) = PageOf(pa)
  BY <1>1, PageSizes DEF PageOf
<1>3. Word(pa) \div (PteCount * PAGE_SIZE) = pa \div (PteCount * PAGE_SIZE)
  <2>1. PteCount * PteCount \in Nat \ {0}
        /\ PteCount * PAGE_SIZE = 4 * (PteCount * PteCount)
    BY PageSizes
  <2> QED
    BY <1>1, <2>1
<1> QED
  BY <1>2, <1>3 DEF Covers

\* The steps that change memory.
LEMMA StoreMade ==
  ASSUME TypeOK, [Next]_vars, NEW a \in Ram, mem'[a] # mem[a]
  PROVE  \E va \in DataAddrs :
           LET t == Translate(mem, hart, va, "WRITE")
           IN  t.status = "ok" /\ (a = t.addr \/ a = Word(t.addr))
<1>1. mem' # mem
  OBVIOUS
<1>2. ASSUME NEW pa, WriteWord(pa) PROVE a = pa
  BY <1>2 DEF WriteWord, TypeOK
<1>3. PICK va \in DataAddrs : Store(va) \/ Atomic(va)
  BY <1>1 DEF Next, Fetch, Fetched, Stopped, vars, Execute, Load, LoadReserved,
     Unmapped, Misaligned, Compute, Jump, Undecodable,
     SupervisorReturn, UserCall, SetTimer, Console, Shutdown, UnknownSbiCall,
     CsrInstruction, Return, Halt, Spin
<1> DEFINE t == Translate(mem, hart, va, "WRITE")
<1>4. CASE Store(va)
  <2>1. t.status = "ok" /\ WriteWord(Word(t.addr))
    BY <1>1, <1>4 DEF Store, Unmapped, Misaligned, Return, Halt, Spin
  <2> QED
    BY <1>2, <2>1
<1>5. CASE Atomic(va)
  <2>1. t.status = "ok" /\ (StoreConditional(t.addr) \/ AtomicUpdate(t.addr))
    BY <1>1, <1>5 DEF Atomic, AtomicAccess, Unmapped, Return, Halt, Spin
  <2>2. WriteWord(t.addr)
    BY <1>1, <2>1 DEF StoreConditional, AtomicUpdate, Return
  <2> QED
    BY <1>2, <2>1, <2>2
<1> QED
  BY <1>3, <1>4, <1>5

LEMMA StoreIsPermitted ==
  ASSUME TypeOK, [Next]_vars, hart.satp.mode = 1, NEW a \in Ram, mem'[a] # mem[a]
  PROVE  IF ~hart.supervisorMode
         THEN SomeLeaf(a, {"V", "R", "W", "A", "D", "U"})
         ELSE IF "SUM" \in hart.sstatus
         THEN SomeLeaf(a, {"V", "R", "W", "A", "D"})
         ELSE SomeSupervisorLeaf(a, {"V", "R", "W", "A", "D"})
<1>1. PICK va \in DataAddrs :
        LET t == Translate(mem, hart, va, "WRITE")
        IN  t.status = "ok" /\ (a = t.addr \/ a = Word(t.addr))
  BY StoreMade
<1> DEFINE t == Translate(mem, hart, va, "WRITE")
<1>2. va \in Addr
  BY HartAssumption
<1>3. t.addr \in Addr
  BY <1>2, TranslateType DEF Outcome
<1>4. PICK e \in Ram : \E i :
        /\ PageOf(e) \in TablePages
        /\ Covers(mem[e], t.addr)
        /\ Verdict(hart, mem[e], "WRITE", i) = "leaf"
  BY <1>1, <1>2, LeafFound
<1>5. Covers(mem[e], a)
  BY <1>1, <1>3, <1>4, CoversWord
<1>6. /\ {"V", "R", "W", "A", "D"} \subseteq mem[e].flags
      /\ ~hart.supervisorMode => "U" \in mem[e].flags
      /\ hart.supervisorMode /\ "SUM" \notin hart.sstatus
           => "U" \notin mem[e].flags
  BY <1>4, LeafFlags
<1> QED
  BY <1>4, <1>5, <1>6 DEF SomeLeaf, SomeSupervisorLeaf

\* Memory changes only under an entry that permits the mode of the moment to
\* write there, through every instruction that stores, for tables and
\* memories of any size and content.
THEOREM StoresArePermitted == Spec => StoresPermitted
<1> DEFINE Permitted ==
      hart.satp.mode = 1 =>
        \A a \in Ram : mem'[a] # mem[a] =>
          IF ~hart.supervisorMode
          THEN SomeLeaf(a, {"V", "R", "W", "A", "D", "U"})
          ELSE IF "SUM" \in hart.sstatus
          THEN SomeLeaf(a, {"V", "R", "W", "A", "D"})
          ELSE SomeSupervisorLeaf(a, {"V", "R", "W", "A", "D"})
<1>1. TypeOK /\ [Next]_vars => [Permitted]_vars
  BY StoreIsPermitted
<1> QED
  BY <1>1, TypeCorrect, PTL DEF StoresPermitted, Spec

-----------------------------------------------------------------------------
(* Loads *)

LEMMA ReadLeaf ==
  ASSUME TypeOK, hart.satp.mode = 1, NEW va \in DataAddrs,
         NEW accessType \in {"READ", "WRITE"}, NEW pa,
         LET t == Translate(mem, hart, va, accessType)
         IN  t.status = "ok" /\ (pa = t.addr \/ pa = Word(t.addr))
  PROVE  Readable(pa)
<1> DEFINE t == Translate(mem, hart, va, accessType)
           kinds == IF "MXR" \in hart.sstatus THEN {"R", "X"} ELSE {"R"}
<1>1. va \in Addr
  BY HartAssumption
<1>2. t.addr \in Addr
  BY <1>1, TranslateType DEF Outcome
<1>3. PICK e \in Ram : \E i :
        /\ PageOf(e) \in TablePages
        /\ Covers(mem[e], t.addr)
        /\ Verdict(hart, mem[e], accessType, i) = "leaf"
  BY <1>1, LeafFound
<1>4. PICK kind \in kinds : kind \in mem[e].flags
  BY <1>3, LeafFlags
<1>5. /\ {"V", "A"} \subseteq mem[e].flags
      /\ ~hart.supervisorMode => "U" \in mem[e].flags
      /\ hart.supervisorMode /\ "SUM" \notin hart.sstatus
           => "U" \notin mem[e].flags
  BY <1>3, LeafFlags
<1>6. Covers(mem[e], pa)
  BY <1>2, <1>3, CoversWord
<1> HIDE DEF t, kinds
<1>7. IF ~hart.supervisorMode
      THEN SomeLeaf(pa, {"V", "A", "U", kind})
      ELSE IF "SUM" \in hart.sstatus
      THEN SomeLeaf(pa, {"V", "A", kind})
      ELSE SomeSupervisorLeaf(pa, {"V", "A", kind})
  BY <1>3, <1>4, <1>5, <1>6 DEF SomeLeaf, SomeSupervisorLeaf
<1> QED
  BY <1>4, <1>7 DEF kinds, Readable

LEMMA FetchKeepsSatp ==
  ASSUME TypeOK
  PROVE  \A h \in {Ready, Trapped} :
           h \in HartState /\ h.pc \in Addr /\ h.satp = hart.satp
<1>1. Ready \in HartState /\ (Ready = hart \/ TrapEntry(hart, Ready))
  BY ReadyIsEntry
<1>2. Trapped \in HartState /\ TrapEntry(Ready, Trapped)
  BY <1>1, HandleExceptionType, ExceptionIsEntry
     DEF Trapped, InstrPageFault, HartState
<1>3. Ready.satp = hart.satp /\ Trapped.satp = Ready.satp
  BY <1>1, <1>2 DEF TrapEntry, KeepsSettings
<1> QED
  BY <1>1, <1>2, <1>3 DEF HartState

\* The instruction to come has loaded nothing yet.
NothingLoaded == stage = "execute" => hart.loaded = {}

LEMMA LoadedStep == NothingLoaded /\ [Next]_vars /\ TypeOK => NothingLoaded'
<1> SUFFICES ASSUME TypeOK, NothingLoaded, [Next]_vars, stage' = "execute"
             PROVE  hart'.loaded = {}
  BY DEF NothingLoaded
<1>1. CASE Fetch
  <2>1. PICK h \in {Ready, Trapped} :
          hart' = [h EXCEPT !.shouldIncrementPC = TRUE, !.loaded = {}]
    BY <1>1 DEF Fetch, Fetched, Halt, Spin
  <2>2. h \in HartState
    BY FetchKeepsSatp
  <2> QED
    BY <2>1, <2>2 DEF HartState
<1>2. CASE Execute
  BY <1>2, ExecuteEnds DEF NothingLoaded
<1>3. CASE UNCHANGED vars
  BY <1>3 DEF vars, NothingLoaded
<1> QED
  BY <1>1, <1>2, <1>3 DEF Next, Stopped

\* A trap changes no register.
LEMMA TrapLoadsNothing ==
  ASSUME TypeOK, NEW code \in Nat, NEW tval \in Addr \cup {InstrBits},
         Return(HandleException(hart, code, tval))
  PROVE  hart'.loaded = hart.loaded
<1> DEFINE g == HandleException(hart, code, tval)
<1>1. g \in HartState /\ Retire(g)
  BY HandleExceptionType DEF TypeOK, Return
<1>2. g.loaded = hart.loaded
  BY DEF TypeOK, HandleException, EnterTrap, HartState
<1> HIDE DEF g
<1> QED
  BY <1>1, <1>2, RetireFields

\* The instructions that put data of memory into a register.
LEMMA LoadMade ==
  ASSUME TypeOK, NEW va \in DataAddrs, NEW pa, pa \in hart'.loaded,
         hart.loaded = {},
         Load(va) \/ Store(va) \/ LoadReserved(va) \/ Atomic(va)
  PROVE  \E accessType \in {"READ", "WRITE"} :
           LET t == Translate(mem, hart, va, accessType)
           IN  t.status = "ok" /\ (pa = t.addr \/ pa = Word(t.addr))
<1>1. va \in Addr /\ hart \in HartState
  BY HartAssumption DEF TypeOK
<1>2. {LoadMisaligned, StoreMisaligned, LoadPageFault, StorePageFault} \subseteq Nat
  BY DEF LoadMisaligned, StoreMisaligned, LoadPageFault, StorePageFault
<1>3. \A accessType : Translate(mem, hart, va, accessType).addr \in Addr
  BY <1>1, TranslateType DEF Outcome
<1>4. \A code \in Nat, tval \in Addr : ~Return(HandleException(hart, code, tval))
  BY TrapLoadsNothing
<1>5. ~Retire(hart) /\ ~Return(hart) /\ ~Halt(hart) /\ ~Spin(hart)
  BY <1>1, RetireFields DEF Return, Halt, Spin
<1>6. \A accessType, code :
        code \in Nat => ~Unmapped(va, accessType, code)
  BY <1>1, <1>4, <1>5 DEF Unmapped
<1>7. \A accessType, code :
        code \in Nat => ~Misaligned(Translate(mem, hart, va, accessType), code)
  BY <1>3, <1>4 DEF Misaligned
<1>8. ASSUME NEW a \in Ram
      PROVE  /\ Retire(Loaded(a)) => pa = a
             /\ Return(Loaded(a)) => pa = a
             /\ Return([Loaded(a) EXCEPT !.reservationSetValid = TRUE]) => pa = a
  BY <1>1, LoadedPlain, RetireFields DEF Return
<1>9. \A a : ~StoreConditional(a)
  <2>1. /\ [hart EXCEPT !.reservationSetValid = FALSE] \in HartState
        /\ [hart EXCEPT !.reservationSetValid = FALSE].loaded = hart.loaded
    BY <1>1 DEF HartState
  <2>2. ~Retire([hart EXCEPT !.reservationSetValid = FALSE])
    BY <2>1, RetireFields
  <2> QED
    BY <1>5, <2>2 DEF StoreConditional
<1>10. CASE Load(va)
  BY <1>2, <1>5, <1>6, <1>7, <1>8, <1>10 DEF Load
<1>11. CASE Store(va)
  BY <1>2, <1>5, <1>6, <1>7, <1>11 DEF Store
<1>12. CASE LoadReserved(va)
  BY <1>1, <1>2, <1>4, <1>5, <1>6, <1>8, <1>12 DEF LoadReserved
<1>13. CASE Atomic(va)
  BY <1>1, <1>2, <1>4, <1>5, <1>6, <1>8, <1>9, <1>13
     DEF Atomic, AtomicAccess, AtomicUpdate
<1> QED
  BY <1>10, <1>11, <1>12, <1>13

\* The other instructions do not.
LEMMA OthersLoadNothing ==
  ASSUME TypeOK, Execute, hart'.loaded # hart.loaded
  PROVE  \E va \in DataAddrs :
           Load(va) \/ Store(va) \/ LoadReserved(va) \/ Atomic(va)
<1>1. hart \in HartState
  BY DEF TypeOK
<1>2. ASSUME NEW h \in HartState, h.loaded = hart.loaded
      PROVE  ~Retire(h) /\ ~Return(h) /\ ~Halt(h)
  BY <1>2, RetireFields DEF Return, Halt
<1>3. ~Retire(hart) /\ ~Return(hart) /\ ~Halt(hart)
  BY <1>1, <1>2
<1>4. ~Jump
  <2> SUFFICES ASSUME NEW target \in JumpTargets
               PROVE  ~Return([hart EXCEPT !.pc = target,
                                           !.shouldIncrementPC = FALSE])
    BY DEF Jump
  <2> DEFINE g == [hart EXCEPT !.pc = target, !.shouldIncrementPC = FALSE]
  <2>1. g \in HartState /\ g.loaded = hart.loaded
    BY <1>1, HartAssumption DEF HartState
  <2> HIDE DEF g
  <2>2. ~Return(g)
    BY <1>2, <2>1
  <2> QED
    BY <2>2 DEF g
<1>5. ~SupervisorReturn
  <2>1. Sret(hart).loaded = hart.loaded
    BY <1>1 DEF Sret, HartState
  <2> QED
    BY <1>1, <1>2, <2>1, SretType DEF SupervisorReturn
<1>6. ~UserCall
  BY AddrIsNat, TrapLoadsNothing DEF UserCall, UserEcall
<1>7. ~SetTimer
  <2>1. /\ [hart EXCEPT !.sip = @ \ {Sti}] \in HartState
        /\ [hart EXCEPT !.sip = @ \ {Sti}].loaded = hart.loaded
    BY <1>1 DEF HartState
  <2> QED
    BY <1>2, <2>1 DEF SetTimer
<1>8. \A csr \in Csrs, writes \in BOOLEAN : ~CsrInstruction(csr, writes)
  <2>1. ~Return(HandleException(hart, InstrIllegal, InstrBits))
    BY TrapLoadsNothing DEF InstrIllegal
  <2>2. \A csr : \A h \in Written(hart, csr) : ~Return(h)
    BY <1>1, <1>2, WrittenType, WrittenKeepsMode
  <2> QED
    BY <1>3, <2>1, <2>2 DEF CsrInstruction
<1>9. ~Compute /\ ~Undecodable /\ ~Console /\ ~Shutdown /\ ~UnknownSbiCall
  BY <1>3 DEF Compute, Undecodable, Console, Shutdown, UnknownSbiCall
<1> QED
  BY <1>4, <1>5, <1>6, <1>7, <1>8, <1>9 DEF Execute

LEMMA LoadIsPermitted ==
  ASSUME TypeOK, NothingLoaded, [Next]_vars, stage = "execute",
         hart.satp.mode = 1, NEW pa \in hart'.loaded
  PROVE  Readable(pa)
<1>1. hart.loaded = {} /\ Execute
  BY DEF NothingLoaded, Next, Fetch, Stopped, vars
<1>2. PICK va \in DataAddrs :
        Load(va) \/ Store(va) \/ LoadReserved(va) \/ Atomic(va)
  BY <1>1, OthersLoadNothing
<1> QED
  BY <1>1, <1>2, LoadMade, ReadLeaf

\* No load, LR.W or read-modify-write gives a register data of a page that the
\* tables do not let the mode of the moment read, with SUM and MXR as they are.
THEOREM LoadsArePermitted == Spec => LoadsPermitted
<1>1. Init => NothingLoaded
  BY DEF Init, NothingLoaded
<1>2. TypeOK /\ NothingLoaded /\ [Next]_vars
        => [stage = "execute" /\ hart.satp.mode = 1 =>
              \A pa \in hart'.loaded : Readable(pa)]_vars
  BY LoadIsPermitted
<1> QED
  BY <1>1, <1>2, LoadedStep, TypeCorrect, PTL DEF LoadsPermitted, Spec

-----------------------------------------------------------------------------
(* Walks that end *)

\* The second iteration of a walk reads the entry that the first one's points
\* to, and the walk goes on only if that one points on.
LEMMA ShallowWalkEnds ==
  ASSUME TypeOK, ~DeepTables, NEW h, h.satp = hart.satp, NEW va \in Addr,
         NEW accessType, NEW v, NEW w,
         v = WalkStep(mem, h, va, accessType, WalkStart(h)),
         v.status = "walking",
         w = WalkStep(mem, h, va, accessType, v)
  PROVE  w.status # "walking"
<1> DEFINE u == WalkStart(h)
           root == PageOf(u.base)
           a == PteAddr(va, u)
           n == mem[a].ppn1 * PteCount + mem[a].ppn0
           b == PteAddr(va, v)
<1> SUFFICES ASSUME w.status = "walking" PROVE FALSE
  OBVIOUS
<1>1. DOMAIN mem = Ram /\ \A e \in Ram : mem[e] \in PTE
  BY DEF TypeOK
<1>2. u.i = 1 /\ u.status = "walking" /\ u = WalkStart(hart)
  BY DEF WalkStart
<1>3. PageOf(a) = root
  <2>1. h.satp.ppn \in Nat
    BY PageSizes DEF TypeOK, HartState, Satp
  <2>2. Numbered(u)
    BY <2>1, StartNumbered
  <2>3. PICK q \in Nat : u.base = q * PAGE_SIZE
    BY <2>2 DEF Numbered
  <2>4. u.base \in Addr
    <3>1. h.satp.ppn * PAGE_SIZE \in Nat
      BY <2>1, PageSizes
    <3> QED
      BY <3>1, WrapsIntoAddr DEF WalkStart
  <2>5. u.base % AddrSpace = u.base
    <3>1. u.base \in Nat /\ u.base < AddrSpace
      BY <2>4, AddrSpacePositive DEF Addr
    <3> HIDE DEF u
    <3> QED
      BY <3>1, PageSizes, ModSmall
  <2>6. (q * PAGE_SIZE + 0) % AddrSpace = u.base
    BY <2>3, <2>5, PageSizes
  <2>7. root = q % PageCount
    <3>1. 0 \in 0 .. (PAGE_SIZE - 1)
      BY PageSizes
    <3> QED
      BY <2>6, <3>1, PageWraps DEF PageOf
  <2> HIDE DEF u
  <2> QED
    BY <2>3, <2>7, EntryInTable
<1> HIDE DEF u, root, a
<1>4. /\ a \in Ram
      /\ Verdict(h, mem[a], accessType, u.i) = "walking"
      /\ v.base = n * PAGE_SIZE
  <2>1. v = WalkStep(mem, h, va, accessType, u)
    BY DEF u
  <2>2. a \in Ram
    <3>1. SUFFICES ASSUME a \notin Ram PROVE FALSE
      OBVIOUS
    <3>2. v = [u EXCEPT !.status = "throw"]
      BY <1>1, <2>1, <3>1 DEF WalkStep, a
    <3>3. v.status # "walking"
      BY <3>2 DEF u, WalkStart
    <3> QED
      BY <3>3
  <2>3. Verdict(h, mem[a], accessType, u.i) = "walking"
    <3>1. SUFFICES ASSUME Verdict(h, mem[a], accessType, u.i) # "walking"
                   PROVE  FALSE
      OBVIOUS
    <3>2. v = [u EXCEPT !.pte = mem[a],
                        !.status = Verdict(h, mem[a], accessType, u.i)]
      BY <1>1, <2>1, <2>2, <3>1 DEF WalkStep, a
    <3>3. v.status # "walking"
      BY <3>1, <3>2 DEF u, WalkStart
    <3> QED
      BY <3>3
  <2> QED
    BY <1>1, <2>1, <2>2, <2>3 DEF WalkStep, a
<1>5. Points(mem[a])
  BY <1>4 DEF Points, Verdict
<1>6. n \in Nat /\ PageNamed(mem[a]) = n % PageCount
  BY <1>1, <1>4, EntryNumber
<1> HIDE DEF n
<1>7. PageOf(b) = PageNamed(mem[a])
  BY <1>4, <1>6, EntryInTable
<1> HIDE DEF b
<1>8. b \in Ram /\ Verdict(h, mem[b], accessType, v.i) = "walking"
  <2>1. v = [i |-> v.i, base |-> v.base, pte |-> v.pte, status |-> v.status]
    BY <1>1, <1>4 DEF WalkStep, a, u
  <2>2. b \in Ram
    <3>1. SUFFICES ASSUME b \notin Ram PROVE FALSE
      OBVIOUS
    <3>2. w = [v EXCEPT !.status = "throw"]
      BY <1>1, <3>1 DEF WalkStep, b
    <3>3. w.status # "walking"
      BY <2>1, <3>2
    <3> QED
      BY <3>3
  <2>3. SUFFICES ASSUME Verdict(h, mem[b], accessType, v.i) # "walking"
                 PROVE  FALSE
    BY <2>2
  <2>4. w = [v EXCEPT !.pte = mem[b],
                      !.status = Verdict(h, mem[b], accessType, v.i)]
    BY <1>1, <2>2, <2>3 DEF WalkStep, b
  <2>5. w.status # "walking"
    BY <2>1, <2>3, <2>4
  <2> QED
    BY <2>5
<1>9. Points(mem[b])
  BY <1>8 DEF Points, Verdict
<1>10. PageOf(a) = PageOf(WalkStart(hart).base)
  BY <1>2, <1>3 DEF root
<1> QED
  BY <1>4, <1>5, <1>7, <1>8, <1>9, <1>10 DEF DeepTables

\* How an iteration ends.
LEMMA StepStatus ==
  ASSUME NEW m, NEW h, NEW va, NEW accessType, NEW w, w.status = "walking",
         w = [i |-> w.i, base |-> w.base, pte |-> w.pte, status |-> w.status]
  PROVE  LET g == WalkStep(m, h, va, accessType, w)
         IN  /\ g = [i |-> g.i, base |-> g.base, pte |-> g.pte, status |-> g.status]
             /\ g.status \in {"walking", "leaf", "fault", "throw"}
<1> DEFINE a == PteAddr(va, w)
           verdict == Verdict(h, m[a], accessType, w.i)
           g == WalkStep(m, h, va, accessType, w)
<1>1. verdict \in {"walking", "leaf", "fault"}
  BY DEF Verdict
<1>2. CASE a \notin DOMAIN m
  <2>1. g = [w EXCEPT !.status = "throw"]
    BY <1>2 DEF WalkStep
  <2>2. g = [i |-> w.i, base |-> w.base, pte |-> w.pte, status |-> "throw"]
    BY <2>1
  <2> QED
    BY <2>2
<1>3. CASE a \in DOMAIN m /\ verdict = "walking"
  BY <1>3 DEF WalkStep
<1>4. CASE a \in DOMAIN m /\ verdict # "walking"
  <2>1. g = [w EXCEPT !.pte = m[a], !.status = verdict]
    BY <1>4 DEF WalkStep
  <2> HIDE DEF verdict
  <2>2. g = [i |-> w.i, base |-> w.base, pte |-> m[a], status |-> verdict]
    BY <2>1
  <2> HIDE DEF g
  <2> QED
    BY <1>1, <2>2 DEF g
<1> QED
  BY <1>2, <1>3, <1>4

\* A call returns or throws unless the tables are deep.
LEMMA ShallowReturns ==
  ASSUME TypeOK, ~DeepTables, NEW h \in HartState, h.satp = hart.satp,
         NEW va \in Addr, NEW accessType
  PROVE  Translate(mem, h, va, accessType).status # "spin"
<1>1. CASE h.satp.mode = 0
  BY <1>1 DEF Translate, Mapped
<1>2. CASE h.satp.mode = 1
  <2>1. PICK s : /\ Iterations(s, mem, h, va, accessType, MaxWalk)
                 /\ Translate(mem, h, va, accessType) = Finish(va, s[MaxWalk])
    BY <1>2, TranslateIterates
  <2>2. MaxWalk \in Nat /\ MaxWalk >= 2
    <3>1. (UintMax + 1) * PageCount >= UintMax + 1
      BY PageSizes, Sv32Assumption, Monotone, SMT
    <3> QED
      BY <3>1, MaxWalkNat, Sv32Assumption
  <2>3. \A k \in 0 .. MaxWalk :
          s[k] = IF k = 0 THEN WalkStart(h)
                 ELSE IF s[k - 1].status # "walking" THEN s[k - 1]
                 ELSE WalkStep(mem, h, va, accessType, s[k - 1])
    BY <2>1 DEF Iterations
  <2>4. s[0] = WalkStart(h)
    BY <2>2, <2>3
  <2>5. s[1] = WalkStep(mem, h, va, accessType, s[0])
    <3>1. s[0].status = "walking" /\ 1 \in 0 .. MaxWalk
      BY <2>2, <2>4 DEF WalkStart
    <3> QED
      BY <2>3, <3>1
  <2>6. /\ s[1] = [i |-> s[1].i, base |-> s[1].base,
                   pte |-> s[1].pte, status |-> s[1].status]
        /\ s[1].status \in {"walking", "leaf", "fault", "throw"}
    BY <2>4, <2>5, StepStatus DEF WalkStart
  <2>7. PICK k \in {1, 2} : s[k].status \in {"leaf", "fault", "throw"}
    <3>1. CASE s[1].status # "walking"
      BY <2>6, <3>1
    <3>2. CASE s[1].status = "walking"
      <4>1. s[2] = WalkStep(mem, h, va, accessType, s[1])
        <5>1. 2 \in 0 .. MaxWalk
          BY <2>2
        <5> QED
          BY <2>3, <3>2, <5>1
      <4>2. s[2].status # "walking"
        BY <2>4, <2>5, <3>2, <4>1, ShallowWalkEnds
      <4>3. s[2].status \in {"walking", "leaf", "fault", "throw"}
        BY <2>6, <3>2, <4>1, StepStatus
      <4> QED
        BY <4>2, <4>3
    <3> QED
      BY <3>1, <3>2
  <2>8. s[MaxWalk] = s[k]
    <3>1. k \in 0 .. MaxWalk /\ MaxWalk \in k .. MaxWalk
      BY <2>2
    <3> QED
      BY <2>1, <2>2, <2>7, <3>1, IterationsFreeze
  <2> QED
    BY <2>1, <2>7, <2>8 DEF Finish, Mapped
<1> QED
  BY <1>1, <1>2 DEF HartState, Satp

\* The harts that a fetch asks for have the satp of the hart.
\* No instruction of any program hangs the machine while the page tables are
\* those of Sv32, on however many pages and with whatever entries.
THEOREM ShallowTablesReturn == Spec => OnlyDeepTablesSpin
<1>1. TypeOK /\ [Next]_vars
        => [stage # "spinning" /\ stage' = "spinning" => DeepTables]_vars
  <2> SUFFICES ASSUME TypeOK, [Next]_vars, stage # "spinning",
                      stage' = "spinning", ~DeepTables
               PROVE  FALSE
    OBVIOUS
  <2>1. hart \in HartState
    BY DEF TypeOK
  <2>2. ASSUME NEW va \in DataAddrs, NEW accessType
        PROVE  Translate(mem, hart, va, accessType).status # "spin"
    <3>1. va \in Addr
      BY HartAssumption
    <3> QED
      BY <2>1, <3>1, ShallowReturns
  <2>3. ASSUME NEW h \in {Ready, Trapped} PROVE FetchOf(h).status # "spin"
    <3>1. h \in HartState /\ h.pc \in Addr /\ h.satp = hart.satp
      BY FetchKeepsSatp
    <3> QED
      BY <3>1, ShallowReturns DEF FetchOf
  <2>4. ~Fetch
    BY <2>3 DEF Fetch, Fetched, Halt
  <2>5. \A va \in DataAddrs : \A accessType, fault : ~Unmapped(va, accessType, fault)
    BY <2>2 DEF Unmapped, Return, Retire, Halt
  <2>6. ASSUME NEW va \in DataAddrs
        PROVE  ~(Load(va) \/ Store(va) \/ LoadReserved(va) \/ Atomic(va))
    BY <2>5 DEF Load, Store, LoadReserved, Atomic, AtomicAccess,
       StoreConditional, AtomicUpdate, Misaligned, Return, Retire, Halt
  <2>7. ~Execute
    BY <2>6 DEF Execute, Compute, Jump, Undecodable, SupervisorReturn,
       UserCall, SetTimer, Console, Shutdown, UnknownSbiCall, CsrInstruction,
       Return, Retire, Halt
  <2> QED
    BY <2>4, <2>7 DEF Next, Stopped, vars
<1> QED
  BY <1>1, TypeCorrect, PTL DEF OnlyDeepTablesSpin, Spec

-----------------------------------------------------------------------------
(* Confinement: the tables are a least set of pages, so whoever changes no *)
(* word of them changes neither which they are nor what they map.          *)

\* The sets of pages that hold the root and the tables pointed to from them.
Holdings(m, root) ==
  {P \in SUBSET Pages :
     /\ root \in Pages => root \in P
     /\ \A e \in Ram :
          /\ PageOf(e) \in P
          /\ "V" \in m[e].flags /\ ~IsLeaf(m[e])
          /\ PageNamed(m[e]) \in Pages
          => PageNamed(m[e]) \in P}

Tables(m, root) == {p \in Pages : \A P \in Holdings(m, root) : p \in P}

LEMMA TablesHold ==
  ASSUME NEW m, NEW root
  PROVE  Tables(m, root) \in Holdings(m, root)
<1> DEFINE T == Tables(m, root)
<1>1. T \in SUBSET Pages /\ (root \in Pages => root \in T)
  BY DEF Tables, Holdings
<1>2. ASSUME NEW e \in Ram, PageOf(e) \in T, "V" \in m[e].flags, ~IsLeaf(m[e]),
             PageNamed(m[e]) \in Pages
      PROVE  PageNamed(m[e]) \in T
  BY <1>2 DEF Tables, Holdings
<1> HIDE DEF T
<1>3. T \in Holdings(m, root)
  BY <1>1, <1>2 DEF Holdings
<1> QED
  BY <1>3 DEF T

\* A memory with the same words in the tables has the same tables.
LEMMA TablesStay ==
  ASSUME NEW m, NEW n, NEW root,
         \A e \in Ram : PageOf(e) \in Tables(m, root) => n[e] = m[e]
  PROVE  Tables(n, root) = Tables(m, root)
<1> DEFINE T == Tables(m, root)
           U == Tables(n, root)
<1>1. T \in Holdings(m, root) /\ U \in Holdings(n, root)
  BY TablesHold
<1>2. \A P \in Holdings(m, root) : T \subseteq P
  BY DEF Tables
<1>3. \A P \in Holdings(n, root) : U \subseteq P
  BY DEF Tables
<1>4. \A e \in Ram : PageOf(e) \in T => n[e] = m[e]
  OBVIOUS
<1> HIDE DEF T, U
<1>5. T \in Holdings(n, root)
  BY <1>1, <1>4 DEF Holdings
<1>6. U \subseteq T
  BY <1>3, <1>5
<1>7. U \in Holdings(m, root)
  BY <1>1, <1>4, <1>6 DEF Holdings
<1>8. T \subseteq U
  BY <1>2, <1>7
<1> QED
  BY <1>6, <1>8 DEF T, U

LEMMA SatpKept ==
  ASSUME HartInv, [Next]_vars, ~hart.supervisorMode
  PROVE  hart'.satp = hart.satp
<1>1. NoTrap(hart, hart') \/ TrapExit(hart, hart') \/ TrapEntry(hart, hart')
        => hart'.satp = hart.satp
  BY DEF NoTrap, TrapExit, TrapEntry, KeepsSettings
<1>2. DoubleEntry(hart, hart') => hart'.satp = hart.satp
  BY DoubleEntryFacts DEF KeepsSettings
<1> QED
  BY <1>1, <1>2, UserSteps

\* A step of a user that cannot write to the tables.
LEMMA ConfinedStep ==
  ASSUME HartInv, [Next]_vars, ~hart.supervisorMode, Confined
  PROVE  /\ Confined'
         /\ UserWritable' = UserWritable
         /\ \A a \in Ram : mem'[a] # mem[a] => a \in UserWritable
<1>1. TypeOK /\ hart.satp.mode = 1
  BY DEF HartInv, Confined
<1>2. \A a \in Ram : mem'[a] # mem[a] => a \in UserWritable
  BY <1>1, StoreIsPermitted DEF UserWritable
<1>3. \A e \in Ram : PageOf(e) \in TablePages => mem'[e] = mem[e]
  BY <1>2 DEF Confined
<1>4. hart'.satp = hart.satp
  BY SatpKept
<1>5. TablePages' = TablePages
  <2> DEFINE root == PageOf(WalkStart(hart).base)
  <2>1. TablePages = Tables(mem, root)
    BY DEF TablePages, Tables, Holdings, Pages
  <2>2. WalkStart(hart)' = WalkStart(hart)
    BY <1>4 DEF WalkStart
  <2>3. TablePages' = Tables(mem', root)
    BY <2>2 DEF TablePages, Tables, Holdings, Pages
  <2> HIDE DEF root
  <2> QED
    BY <1>3, <2>1, <2>3, TablesStay
<1>6. \A a, flags : SomeLeaf(a, flags)' <=> SomeLeaf(a, flags)
  BY <1>3, <1>5 DEF SomeLeaf
<1>7. UserWritable' = UserWritable
  BY <1>6 DEF UserWritable
<1>8. Confined'
  BY <1>4, <1>5, <1>7 DEF Confined
<1> QED
  BY <1>2, <1>7, <1>8

\* A user program whose tables are out of its reach can neither change them
\* nor any other word that they do not give it, by whatever it executes.
THEOREM UserIsConfined == Spec => UserStaysConfined
<1>1. HartInv /\ [Next]_vars =>
        [/\ ~hart.supervisorMode
         /\ mem' # mem \/ hart'.satp # hart.satp
         /\ Confined
         => /\ Confined'
            /\ UserWritable' = UserWritable
            /\ \A a \in Ram : mem'[a] # mem[a] => a \in UserWritable]_vars
  BY ConfinedStep
<1> QED
  BY <1>1, HartInvariant, PTL DEF UserStaysConfined, Spec
=============================================================================
