------------------------------- MODULE Hart -------------------------------
(***************************************************************************)
(* Hart::stepInstruction: privilege modes, traps, interrupts, CSR writes,  *)
(* memory accesses through the page tables, and the end of the emulation.  *)
(*                                                                         *)
(* A call of stepInstruction is two steps of the model, "fetch" (line 28   *)
(* to line 43 of hart.cpp) and "execute" (the rest), joined by stage.      *)
(* Which instruction a word holds is not modelled: an execute step may be  *)
(* any instruction with any register contents, so the guest, kernel and    *)
(* user programs alike, is any software at all.  Of registers only the     *)
(* origin of loaded data is kept; a CSR is the fields that the hart reads. *)
(***************************************************************************)
EXTENDS Sv32

CONSTANTS
  Ram,               \* word-aligned physical addresses with a handler
  InitialMemories,   \* what the loader may have put there
  Entry,             \* the pc given to the constructor
  JumpTargets,       \* addresses that software jumps to or puts in sepc, stval
  DataAddrs,         \* addresses that software loads from and stores to
  StoreWords,        \* words that a store may leave in memory
  SstatusValues,     \* values that software writes to sstatus,
  InterruptSets,     \* to sie and sip,
  StvecValues,       \* to stvec,
  ScounterenValues,  \* to scounteren,
  ScauseValues,      \* to scause
  SatpValues,        \* and to satp
  InstrBits          \* the bits of an illegal instruction, for stval

\* Interrupt numbers: supervisor software, timer and external.
Ssi == 1
Sti == 5
Sei == 9
Irq == {Ssi, Sti, Sei}

SstatusBits == {"SIE", "SPIE", "SPP", "SUM", "MXR"}

Stvec == [mode : 0 .. 3, base : 0 .. (PteCount * PteCount * PteCount - 1)]
Satp  == [mode : 0 .. 1, ppn : 0 .. (4 * PteCount * PteCount - 1)]

\* Of the general-purpose registers only what a load puts in rd is kept: the
\* words of memory, one or none, that the last instruction has read into it.
HartState ==
  [pc                  : Addr,
   supervisorMode      : BOOLEAN,
   shouldIncrementPC   : BOOLEAN,
   reservationSetValid : BOOLEAN,
   sstatus             : SUBSET SstatusBits,
   sie                 : SUBSET Irq,
   sip                 : SUBSET Irq,
   stvec               : Stvec,
   sepc                : Addr,
   scause              : [interrupt : BOOLEAN, exceptionCode : Nat],
   stval               : Addr \cup {InstrBits},
   scounteren          : SUBSET {"CY", "TM", "IR"},
   satp                : Satp,
   loaded              : SUBSET Ram]

ASSUME HartAssumption ==
  /\ Ram \subseteq Addr
  /\ InitialMemories \subseteq [Ram -> PTE]
  /\ StoreWords \subseteq PTE
  /\ Entry \in Addr
  /\ JumpTargets \subseteq Addr
  /\ DataAddrs \subseteq Addr
  /\ SstatusValues \subseteq SUBSET SstatusBits
  /\ InterruptSets \subseteq SUBSET Irq
  /\ StvecValues \subseteq Stvec
  /\ ScounterenValues \subseteq SUBSET {"CY", "TM", "IR"}
  /\ ScauseValues \subseteq [interrupt : BOOLEAN, exceptionCode : Nat]
  /\ SatpValues \subseteq Satp

VARIABLES
  hart,       \* the members of Hart and the CSRs, a record of HartState
  mem,        \* the words in Ram
  stage,      \* "fetch", "execute", or "spinning" in a walk without end
  isRunning   \* of main.cpp: the loop of main goes on

vars == <<hart, mem, stage, isRunning>>

TypeOK ==
  /\ hart \in HartState
  /\ mem \in [Ram -> PTE]
  /\ stage \in {"fetch", "execute", "spinning"}
  /\ isRunning \in BOOLEAN

\* csr is a member without an initializer of an object on main's stack: a
\* CSR starts with any value it can hold.
Init ==
  /\ hart \in [pc                  : {Entry},
               supervisorMode      : {TRUE},
               shouldIncrementPC   : {FALSE},
               reservationSetValid : {FALSE},
               sstatus             : SstatusValues,
               sie                 : InterruptSets,
               sip                 : InterruptSets,
               stvec               : StvecValues,
               sepc                : JumpTargets,
               scause              : ScauseValues,
               stval               : JumpTargets,
               scounteren          : ScounterenValues,
               satp                : SatpValues,
               loaded              : {{}}]
  /\ mem \in InitialMemories
  /\ stage = "fetch"
  /\ isRunning = TRUE

-----------------------------------------------------------------------------
(* Traps *)

\* The bits of sstatus with SPP, SPIE and SIE set to the conditions given.
StackBits(bits, spp, spie, sie) ==
  (bits \ {"SPP", "SPIE", "SIE"})
    \cup (IF spp THEN {"SPP"} ELSE {})
    \cup (IF spie THEN {"SPIE"} ELSE {})
    \cup (IF sie THEN {"SIE"} ELSE {})

\* A trap entry that moves the pc before it saves it.
EnterTrap_PcFirst(h, target, cause, tval) ==
  [h EXCEPT !.sstatus = StackBits(@, h.supervisorMode, "SIE" \in @, FALSE),
            !.supervisorMode = TRUE,
            !.sepc = target,
            !.scause = cause,
            !.stval = tval,
            !.pc = target,
            !.shouldIncrementPC = FALSE]

\* A trap entry that clears SIE before it saves it.
EnterTrap_ClearsFirst(h, target, cause, tval) ==
  [h EXCEPT !.sstatus = StackBits(@, h.supervisorMode, FALSE, FALSE),
            !.supervisorMode = TRUE,
            !.sepc = h.pc,
            !.scause = cause,
            !.stval = tval,
            !.pc = target,
            !.shouldIncrementPC = FALSE]

\* A trap entry after which the pc is incremented.
EnterTrap_Increments(h, target, cause, tval) ==
  [h EXCEPT !.sstatus = StackBits(@, h.supervisorMode, "SIE" \in @, FALSE),
            !.supervisorMode = TRUE,
            !.sepc = h.pc,
            !.scause = cause,
            !.stval = tval,
            !.pc = target]

\* What handleException and handleInterrupts do alike: remember the mode,
\* SIE and the pc, and go to target in supervisor mode with SIE clear.
EnterTrap(h, target, cause, tval) ==
  [h EXCEPT !.sstatus = StackBits(@, h.supervisorMode, "SIE" \in @, FALSE),
            !.supervisorMode = TRUE,
            !.sepc = h.pc,
            !.scause = cause,
            !.stval = tval,
            !.pc = target,
            !.shouldIncrementPC = FALSE]

InstrMisaligned == 0
InstrIllegal    == 2
LoadMisaligned  == 4
StoreMisaligned == 6
UserEcall       == 8
InstrPageFault  == 12
LoadPageFault   == 13
StorePageFault  == 15

TrapVector(stvec) == (4 * stvec.base) % AddrSpace

HandleException(h, code, tval) ==
  EnterTrap(h, TrapVector(h.stvec),
            [interrupt |-> FALSE, exceptionCode |-> code], tval)

\* An interrupt that is pending, enabled or not.
Serviceable_Pending(h) == h.sip

Serviceable(h) == h.sip \cap h.sie

\* Software before timer before external.
FirstOf(irqs) ==
  IF Ssi \in irqs THEN Ssi ELSE IF Sti \in irqs THEN Sti ELSE Sei

InterruptVector(stvec, irq) ==
  IF stvec.mode = 1 THEN (TrapVector(stvec) + 4 * irq) % AddrSpace
  ELSE TrapVector(stvec)

\* Interrupt entry that forgets, or overrates, SIE.
HandleInterrupts_IgnoresSie(h) ==
  LET irq == FirstOf(Serviceable(h))
  IN  IF Serviceable(h) # {}
      THEN EnterTrap(h, InterruptVector(h.stvec, irq),
                     [interrupt |-> TRUE, exceptionCode |-> irq], 0)
      ELSE h

HandleInterrupts_NeedsSie(h) ==
  IF "SIE" \in h.sstatus THEN HandleInterrupts_IgnoresSie(h) ELSE h

\* The user is always interrupted, the supervisor when it has set SIE.
HandleInterrupts(h) ==
  LET irq == FirstOf(Serviceable(h))
  IN  IF (h.supervisorMode => "SIE" \in h.sstatus) /\ Serviceable(h) # {}
      THEN EnterTrap(h, InterruptVector(h.stvec, irq),
                     [interrupt |-> TRUE, exceptionCode |-> irq], 0)
      ELSE h

\* A return that leaves in SPP the mode it comes from, as a trap does.
Sret_SavesMode(h) ==
  [h EXCEPT !.supervisorMode = "SPP" \in h.sstatus,
            !.sstatus = StackBits(@, h.supervisorMode, TRUE, "SPIE" \in @),
            !.pc = h.sepc,
            !.shouldIncrementPC = FALSE]

\* The case SRET.  There is no test of the mode it is executed in.
Sret(h) ==
  [h EXCEPT !.supervisorMode = "SPP" \in h.sstatus,
            !.sstatus = StackBits(@, FALSE, TRUE, "SPIE" \in @),
            !.pc = h.sepc,
            !.shouldIncrementPC = FALSE]

-----------------------------------------------------------------------------
(* How a call of stepInstruction ends *)

\* An EmulatorException reaches main's loop, which stops.
Halt(h) ==
  /\ hart' = h
  /\ isRunning' = FALSE
  /\ UNCHANGED <<mem, stage>>

\* translateAddress does not return.
Spin(h) ==
  /\ hart' = h
  /\ stage' = "spinning"
  /\ UNCHANGED <<mem, isRunning>>

\* A pc that does not wrap at 2^32.
Advanced_NoWrap(h) ==
  IF h.shouldIncrementPC THEN [h EXCEPT !.pc = @ + 4] ELSE h

Advanced(h) ==
  IF h.shouldIncrementPC THEN [h EXCEPT !.pc = (@ + 4) % AddrSpace] ELSE h

\* The lines after the switch.  Of incrementCounters the hart only sees
\* that a tick of the clock may make the timer interrupt pending.
Retire(h) ==
  /\ \E sip \in {h.sip, h.sip \cup {Sti}} :
       hart' = [Advanced(h) EXCEPT !.sip = sip]
  /\ stage' = "fetch"

Return(h) == Retire(h) /\ UNCHANGED <<mem, isRunning>>

-----------------------------------------------------------------------------
(* The first half of stepInstruction *)

CheckAlignment(h) ==
  IF h.pc % 4 # 0 THEN HandleException(h, InstrMisaligned, h.pc) ELSE h

\* The hart that asks for an instruction, and the one that asks for the
\* first instruction of the handler after a page fault.
Ready   == HandleInterrupts(CheckAlignment(hart))
Trapped == HandleException(Ready, InstrPageFault, Ready.pc)

FetchOf(h) == Translate(mem, h, h.pc, "EXECUTE")

Fetched(h) ==
  LET at == FetchOf(h)
  IN  \/ /\ at.status = "ok"
         /\ at.addr \in Ram
         /\ hart' = [h EXCEPT !.shouldIncrementPC = TRUE, !.loaded = {}]
         /\ stage' = "execute"
         /\ UNCHANGED <<mem, isRunning>>
      \/ /\ at.status = "throw" \/ (at.status = "ok" /\ at.addr \notin Ram)
         /\ Halt(h)
      \/ at.status = "spin" /\ Spin(h)

Fetch ==
  /\ isRunning /\ stage = "fetch"
  /\ \/ Fetched(Ready)
     \/ /\ FetchOf(Ready).status = "fault"
        /\ \/ Fetched(Trapped)
           \/ FetchOf(Trapped).status = "fault" /\ Halt(Trapped)

-----------------------------------------------------------------------------
(* Loads, stores and atomics *)

Word(pa) == pa - (pa % 4)

\* The ways in which translateAddress does not give an address.
Unmapped(va, accessType, code) ==
  LET t == Translate(mem, hart, va, accessType)
  IN  \/ t.status = "fault" /\ Return(HandleException(hart, code, va))
      \/ t.status = "throw" /\ Halt(hart)
      \/ t.status = "spin" /\ Spin(hart)

\* A halfword or word must be aligned, a byte is: the test is made on the
\* translated address, and that is the address put in stval.
Misaligned(t, code) ==
  /\ t.status = "ok"
  /\ \E size \in {2, 4} : t.addr % size # 0
  /\ Return(HandleException(hart, code, t.addr))

\* rd gets data of the word at pa.
Loaded(pa) == [hart EXCEPT !.loaded = {pa}]

\* A load that is judged as a fetch is.
Load_AsFetch(va) ==
  LET t == Translate(mem, hart, va, "EXECUTE")
  IN  \/ Unmapped(va, "EXECUTE", LoadPageFault)
      \/ Misaligned(t, LoadMisaligned)
      \/ t.status = "ok" /\ Word(t.addr) \in Ram /\ Return(Loaded(Word(t.addr)))
      \/ t.status = "ok" /\ Word(t.addr) \notin Ram /\ Halt(hart)

Load(va) ==
  LET t == Translate(mem, hart, va, "READ")
  IN  \/ Unmapped(va, "READ", LoadPageFault)
      \/ Misaligned(t, LoadMisaligned)
      \/ t.status = "ok" /\ Word(t.addr) \in Ram /\ Return(Loaded(Word(t.addr)))
      \/ t.status = "ok" /\ Word(t.addr) \notin Ram /\ Halt(hart)

\* Any store instruction can leave any word of StoreWords where it writes.
WriteWord(pa) ==
  /\ \E word \in StoreWords : mem' = [mem EXCEPT ![pa] = word]
  /\ UNCHANGED isRunning

Store(va) ==
  LET t == Translate(mem, hart, va, "WRITE")
  IN  \/ Unmapped(va, "WRITE", StorePageFault)
      \/ Misaligned(t, StoreMisaligned)
      \/ t.status = "ok" /\ Word(t.addr) \in Ram
           /\ WriteWord(Word(t.addr)) /\ Retire(hart)
      \/ t.status = "ok" /\ Word(t.addr) \notin Ram /\ Halt(hart)

LoadReserved(va) ==
  LET t == Translate(mem, hart, va, "READ")
  IN  IF va % 4 # 0
      THEN Return(HandleException(hart, LoadMisaligned, va))
      ELSE \/ Unmapped(va, "READ", LoadPageFault)
           \/ t.status = "ok" /\ t.addr \in Ram
                /\ Return([Loaded(t.addr) EXCEPT !.reservationSetValid = TRUE])
           \/ t.status = "ok" /\ t.addr \notin Ram /\ Halt(hart)

\* SC.W without a reservation writes nothing.
StoreConditional(pa) ==
  IF hart.reservationSetValid
  THEN WriteWord(pa) /\ Retire([hart EXCEPT !.reservationSetValid = FALSE])
  ELSE Return(hart)

\* The read-modify-write instructions give rd the word from before.
AtomicUpdate(pa) == WriteWord(pa) /\ Retire(Loaded(pa))

\* SC.W and the read-modify-write instructions.
AtomicAccess(va, accessType) ==
  LET t == Translate(mem, hart, va, accessType)
  IN  IF va % 4 # 0
      THEN Return(HandleException(hart, StoreMisaligned, va))
      ELSE \/ Unmapped(va, accessType, StorePageFault)
           \/ t.status = "ok" /\ t.addr \in Ram
                /\ (StoreConditional(t.addr) \/ AtomicUpdate(t.addr))
           \/ t.status = "ok" /\ t.addr \notin Ram /\ Halt(hart)

Atomic_AsRead(va) == AtomicAccess(va, "READ")

Atomic(va) == AtomicAccess(va, "WRITE")

-----------------------------------------------------------------------------
(* Jumps and the instructions that only compute *)

\* OP, OP_IMM, OP_UI, OP_FENCE, WFI, SFENCE and branches not taken.
Compute == Return(hart)

\* Taken branches, JAL and JALR.
Jump == \E target \in JumpTargets :
  Return([hart EXCEPT !.pc = target, !.shouldIncrementPC = FALSE])

\* An instruction that the decoder or the switch does not know.
Undecodable == Halt(hart)

-----------------------------------------------------------------------------
(* The case SYSTEM *)

SupervisorReturn == Return(Sret(hart))

UserCall ==
  /\ ~hart.supervisorMode
  /\ Return(HandleException(hart, UserEcall, 0))

\* An ECALL of the supervisor calls the SBI that the emulator implements.
SetTimer ==
  /\ hart.supervisorMode
  /\ Return([hart EXCEPT !.sip = @ \ {Sti}])

Console ==
  /\ hart.supervisorMode
  /\ Return(hart)

Shutdown ==
  /\ hart.supervisorMode
  /\ Retire(hart)
  /\ isRunning' = FALSE
  /\ UNCHANGED mem

UnknownSbiCall ==
  /\ hart.supervisorMode
  /\ Halt(hart)

\* The CSRs of CSRAddress.  Each counter (a cycle and cycleh, time and
\* timeh, instret and instreth pair) is named by its bit of scounteren;
\* "unknown" stands for every other number, which is also what EBREAK and
\* SINVAL_VMA run into.
Counters       == {"CY", "TM", "IR"}
SupervisorCsrs == {"sstatus", "sie", "sip", "stvec", "sepc", "scause",
                   "stval", "scounteren", "satp", "sscratch"}
Csrs           == Counters \cup SupervisorCsrs \cup {"unknown"}

\* A refusal that does not depend on the mode.
Refuses_AnyMode(h, csr, writes) ==
  \/ csr \in Counters \ h.scounteren
  \/ writes /\ csr \in Counters

\* scounteren may keep the user from a counter, the CSRs of the supervisor
\* are not the user's, and a write of a counter is refused.  (CSRRSI and
\* CSRRCI test a register instead of their immediate and may let it pass:
\* here that is a write that changes nothing, writes = FALSE.)
Refuses(h, csr, writes) ==
  \/ ~h.supervisorMode /\ csr \in Counters \ h.scounteren
  \/ ~h.supervisorMode /\ csr \in SupervisorCsrs
  \/ writes /\ csr \in Counters

\* The harts that a write of the CSR may leave; sscratch is not modelled.
Written(h, csr) ==
  CASE csr = "sstatus"    -> {[h EXCEPT !.sstatus = v] : v \in SstatusValues}
    [] csr = "sie"        -> {[h EXCEPT !.sie = v] : v \in InterruptSets}
    [] csr = "sip"        -> {[h EXCEPT !.sip = v] : v \in InterruptSets}
    [] csr = "stvec"      -> {[h EXCEPT !.stvec = v] : v \in StvecValues}
    [] csr = "sepc"       -> {[h EXCEPT !.sepc = v] : v \in JumpTargets}
    [] csr = "scause"     -> {[h EXCEPT !.scause = v] : v \in ScauseValues}
    [] csr = "stval"      -> {[h EXCEPT !.stval = v] : v \in JumpTargets}
    [] csr = "scounteren" ->
         {[h EXCEPT !.scounteren = v] : v \in ScounterenValues}
    [] csr = "satp"       -> {[h EXCEPT !.satp = v] : v \in SatpValues}
    [] OTHER              -> {h}

CsrInstruction(csr, writes) ==
  IF csr = "unknown" THEN Halt(hart)
  ELSE IF Refuses(hart, csr, writes)
  THEN Return(HandleException(hart, InstrIllegal, InstrBits))
  ELSE IF writes THEN \E h \in Written(hart, csr) : Return(h)
  ELSE Return(hart)

-----------------------------------------------------------------------------
Execute ==
  /\ isRunning /\ stage = "execute"
  /\ \/ \E va \in DataAddrs :
          \/ Load(va)
          \/ Store(va)
          \/ LoadReserved(va)
          \/ Atomic(va)
     \/ Compute
     \/ Jump
     \/ Undecodable
     \/ SupervisorReturn
     \/ UserCall
     \/ SetTimer
     \/ Console
     \/ Shutdown
     \/ UnknownSbiCall
     \/ \E csr \in Csrs, writes \in BOOLEAN : CsrInstruction(csr, writes)

\* main has left its loop, or a step of it does not end.
Stopped ==
  /\ ~isRunning \/ stage = "spinning"
  /\ UNCHANGED vars

Next == Fetch \/ Execute \/ Stopped

Spec == Init /\ [][Next]_vars

\* The hart runs on the only thread of the program, in a loop that nothing
\* leaves but isRunning: as long as it has not stopped it goes on to the next
\* step.  This is the weak fairness of Fetch and of Execute, each of which is
\* enabled whenever its stage is reached and isRunning holds.
FairSpec ==
  /\ Spec
  /\ []<>(~isRunning \/ stage # "fetch") \/ []<><<Fetch>>_vars
  /\ []<>(~isRunning \/ stage # "execute") \/ []<><<Execute>>_vars
=============================================================================
