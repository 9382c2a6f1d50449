-------------------------- MODULE HartProperties --------------------------
(***************************************************************************)
(* What the guest's kernel relies on: properties of Hart.                  *)
(***************************************************************************)
EXTENDS Hart

-----------------------------------------------------------------------------
(* Privilege modes *)

\* The addresses that stvec gives for traps.
Vectors(h) ==
  {TrapVector(h.stvec)} \cup {InterruptVector(h.stvec, irq) : irq \in Irq}

Stack == INSTANCE Privilege WITH
           Address        <- Addr,
           handlers       <- Vectors(hart),
           pc             <- hart.pc,
           epc            <- hart.sepc,
           supervisor     <- hart.supervisorMode,
           fromSupervisor <- "SPP" \in hart.sstatus,
           enabled        <- "SIE" \in hart.sstatus,
           wereEnabled    <- "SPIE" \in hart.sstatus

\* The mode, the stack in sstatus, sepc and stvec behave as Privilege says:
\* whatever instruction is executed in either mode, user code reaches
\* supervisor mode by a trap only; a trap, from either mode, goes to an address
\* of stvec and remembers the pc, the mode and the SIE that it interrupted, and
\* only a second trap at that address replaces them, which leaves the address
\* in sepc to tell; SRET goes back to them, and nothing but the supervisor's
\* writes of sstatus, sepc and stvec comes between.
ImplementsPrivilege == Stack!Spec

\* SRET does not look at the mode it is executed in.  What keeps a user
\* program from returning itself into supervisor mode is that SPP is 0 for
\* as long as the hart is in user mode.
UserSppClear == ~hart.supervisorMode => "SPP" \notin hart.sstatus

EntersSupervisor == ~hart.supervisorMode /\ hart'.supervisorMode

\* The user chooses neither where supervisor mode begins, nor to begin it
\* with interrupts enabled: every way into supervisor mode ends at one of
\* the addresses stvec gives, with SIE clear.
SupervisorEntersAtVector ==
  [][EntersSupervisor => /\ hart'.pc \in Vectors(hart)
                         /\ "SIE" \notin hart'.sstatus]_vars

\* A trap from user mode leaves sepc, SPP and SPIE such that SRET resumes
\* the user program, unless the handler's own first instruction cannot be
\* fetched: then the fault at the vector has replaced the user's context.
TrapSavesContext ==
  [][EntersSupervisor =>
       \/ /\ hart'.sepc = hart.pc
          /\ "SPP" \notin hart'.sstatus
          /\ "SPIE" \in hart'.sstatus <=> "SIE" \in hart.sstatus
       \/ /\ hart'.sepc \in Vectors(hart)
          /\ "SPP" \in hart'.sstatus
          /\ hart'.scause = [interrupt |-> FALSE,
                             exceptionCode |-> InstrPageFault]]_vars

\* The fields of the hart that decide what the user may do and who is told
\* of its traps, and those that tell it.
Settings(h) ==
  <<h.stvec, h.satp, h.sie, h.scounteren, h.sstatus \cap {"SUM", "MXR"}>>
Report(h) == <<h.sepc, h.scause, h.stval>>

\* No step of the user changes the supervisor's settings; the registers
\* that describe the last trap change only by the next one; and of the
\* pending interrupts the user can only see the timer's appear.
UserKeepsSettings ==
  [][~hart.supervisorMode =>
       /\ Settings(hart') = Settings(hart)
       /\ ~hart'.supervisorMode => Report(hart') = Report(hart)
       /\ hart.sip \subseteq hart'.sip /\ hart'.sip \subseteq hart.sip \cup {Sti}]_vars

-----------------------------------------------------------------------------
(* Interrupts *)

\* What the hart must be interrupted by.
Due(h) ==
  IF h.supervisorMode => "SIE" \in h.sstatus THEN h.sip \cap h.sie ELSE {}

\* The hart after the trap of an interrupt, and after that trap and the page
\* fault of its handler's first instruction.
Interrupted(h, irq) ==
  /\ hart'.pc = InterruptVector(h.stvec, irq)
  /\ hart'.sepc = h.pc
  /\ hart'.scause = [interrupt |-> TRUE, exceptionCode |-> irq]

InterruptedAtFault(h, irq) ==
  /\ hart'.pc = TrapVector(h.stvec)
  /\ hart'.sepc = InterruptVector(h.stvec, irq)
  /\ hart'.scause = [interrupt |-> FALSE, exceptionCode |-> InstrPageFault]

\* A call that begins with interrupts due, at an aligned pc, takes one of them:
\* its handler is entered with the interrupted pc in sepc and the interrupt in
\* scause, or its vector is in sepc and the fault there in scause.  A call that
\* begins with none due, those pending but not enabled or held back by SIE
\* included, takes none.
InterruptsAsEnabled ==
  [][stage = "fetch" =>
       IF Due(hart) # {} /\ hart.pc % 4 = 0
       THEN \E irq \in Due(hart) :
              Interrupted(hart, irq) \/ InterruptedAtFault(hart, irq)
       ELSE hart'.scause.interrupt =>
              /\ hart'.pc = hart.pc
              /\ hart'.scause = hart.scause
              /\ hart'.sepc = hart.sepc]_vars

\* No instruction is executed past an interrupt: at the moment a fetch has
\* ended, after whatever traps it took, nothing that is enabled is pending,
\* and what becomes pending by an instruction is seen by the next fetch.
NoInterruptPassed == stage = "execute" => Due(hart) = {}

\* A user program cannot hold off an interrupt that the supervisor has
\* enabled, whatever it executes and whatever SIE is.
UserIsInterrupted ==
  ~hart.supervisorMode /\ Serviceable(hart) # {}
    ~> hart.supervisorMode \/ ~isRunning \/ stage = "spinning"

-----------------------------------------------------------------------------
(* Memory *)

\* The page of an address, and the page an entry points or maps to; like
\* the code, without the two bits that a 32-bit address does not have.
PageOf(pa)    == pa \div PAGE_SIZE
PageNamed(pte) == (pte.ppn1 * PteCount + pte.ppn0) % (PteCount * PteCount)

\* The pages of the page tables of satp: the least set of pages that holds
\* the root and, with a table, the tables its entries point to.
TablePages ==
  LET Pages     == {PageOf(a) : a \in Ram}
      Closed(P) == \A e \in Ram :
                     /\ PageOf(e) \in P
                     /\ "V" \in mem[e].flags /\ ~IsLeaf(mem[e])
                     /\ PageNamed(mem[e]) \in Pages
                     => PageNamed(mem[e]) \in P
      Holding   == {P \in SUBSET Pages :
                      /\ PageOf(WalkStart(hart).base) \in Pages
                           => PageOf(WalkStart(hart).base) \in P
                      /\ Closed(P)}
  IN  {p \in Pages : \A P \in Holding : p \in P}

\* The page, or superpage, a leaf entry maps to holds the address.
Covers(pte, pa) ==
  \/ PageNamed(pte) = PageOf(pa)
  \/ pte.ppn0 = 0 /\ pte.ppn1 = pa \div (PteCount * PAGE_SIZE)

SomeLeaf(pa, flags) ==
  \E e \in Ram : /\ flags \subseteq mem[e].flags
                 /\ Covers(mem[e], pa)
                 /\ PageOf(e) \in TablePages

SomeSupervisorLeaf(pa, flags) ==
  \E e \in Ram : /\ flags \subseteq mem[e].flags
                 /\ "U" \notin mem[e].flags
                 /\ Covers(mem[e], pa)
                 /\ PageOf(e) \in TablePages

\* An instruction is executed only from an aligned word of memory, and with
\* paging on only from a page that an entry of the page tables makes
\* executable for the mode the hart is in, after whatever traps the fetch
\* has taken.
FetchPermitted ==
  stage = "execute" =>
    LET at == FetchOf(hart)
    IN  /\ hart.pc % 4 = 0
        /\ at.status = "ok" /\ at.addr \in Ram
        /\ hart.satp.mode = 1 =>
             IF hart.supervisorMode
             THEN SomeSupervisorLeaf(at.addr, {"V", "X", "A"})
             ELSE SomeLeaf(at.addr, {"V", "X", "A", "U"})

\* With paging on, memory changes only under an entry of the page tables that
\* makes it writable and is marked dirty: a user page for the user, and for
\* the supervisor a page of its own unless SUM lets it write user pages.
StoresPermitted ==
  [][hart.satp.mode = 1 =>
       \A a \in Ram : mem'[a] # mem[a] =>
         IF ~hart.supervisorMode
         THEN SomeLeaf(a, {"V", "R", "W", "A", "D", "U"})
         ELSE IF "SUM" \in hart.sstatus
         THEN SomeLeaf(a, {"V", "R", "W", "A", "D"})
         ELSE SomeSupervisorLeaf(a, {"V", "R", "W", "A", "D"})]_vars

\* The mode of the hart, with SUM and MXR, may read the page of pa.
Readable(pa) ==
  \E kind \in IF "MXR" \in hart.sstatus THEN {"R", "X"} ELSE {"R"} :
    IF ~hart.supervisorMode
    THEN SomeLeaf(pa, {"V", "A", "U", kind})
    ELSE IF "SUM" \in hart.sstatus
    THEN SomeLeaf(pa, {"V", "A", kind})
    ELSE SomeSupervisorLeaf(pa, {"V", "A", kind})

\* With paging on, no load, LR.W or read-modify-write instruction gives its
\* register data but of a page that an entry of the page tables makes readable,
\* or executable if MXR is set: a user page for the user, and for the
\* supervisor a page of its own unless SUM lets it read user pages.
LoadsPermitted ==
  [][stage = "execute" /\ hart.satp.mode = 1 =>
       \A pa \in hart'.loaded : Readable(pa)]_vars

\* The words that the page tables let the user write to.
UserWritable == {a \in Ram : SomeLeaf(a, {"V", "R", "W", "A", "D", "U"})}

\* The supervisor has turned paging on and kept the tables to itself.
Confined ==
  /\ hart.satp.mode = 1
  /\ LET tables == TablePages
     IN  \A a \in UserWritable : PageOf(a) \notin tables

\* A user program that begins confined stays so, until a trap and through it:
\* it changes no word that it was not given, and what it was given does not
\* grow or shrink, whatever it stores where it may.  About all the steps from
\* one SRET to the next trap, of which each keeps what the next relies on.
\* Both depend on memory and satp only, so on no step that changes neither.
UserStaysConfined ==
  [][/\ ~hart.supervisorMode
     /\ mem' # mem \/ hart'.satp # hart.satp
     /\ Confined
     => /\ Confined'
        /\ UserWritable' = UserWritable
        /\ \A a \in Ram : mem'[a] # mem[a] => a \in UserWritable]_vars

\* An entry that a walk follows to a table.
Points(pte) == ~Invalid(pte) /\ ~IsLeaf(pte)

\* A table that an entry of the root points to has an entry that points on,
\* which Sv32 takes for a page fault.
DeepTables ==
  \E e, f \in Ram : /\ Points(mem[e]) /\ Points(mem[f])
                    /\ PageOf(e) = PageOf(WalkStart(hart).base)
                    /\ PageOf(f) = PageNamed(mem[e])

\* The loop of translateAddress has no bound, but only tables of three levels
\* or more, aliases of the two included, keep it from returning: with others
\* no fetch, load or store of any program hangs the machine.
OnlyDeepTablesSpin ==
  [][stage # "spinning" /\ stage' = "spinning" => DeepTables]_vars

-----------------------------------------------------------------------------
(* What the README says and the code does not do: "fully supports the user *)
(* (U) and supervisor (S) modes of the RV32 privileged architecture".      *)

\* sstatus belongs to the supervisor: no step inside user mode changes it,
\* SRET being illegal there.
UserKeepsSstatus ==
  [][~hart.supervisorMode /\ ~hart'.supervisorMode =>
       hart'.sstatus = hart.sstatus]_vars
=============================================================================
