# Verification of the RV32IMA emulator in TLA+

The emulator in `src/` boots Linux on one emulated RISC-V hart with user (U)
and supervisor (S) modes, Sv32 paging, an SBI implemented by the emulator
itself and 128 MiB of memory. This directory holds TLA+ models of it, the TLC
configurations that check them on small machines, and TLAPS proofs that hold
for machines of every size. Paths below are relative to `src/src/` unless they
start with `src/`.

Run `tlc -config X.cfg M` for the configuration `X.cfg` of the module `M` named
in the table of runs, and `tlapm` on the modules named `...Proofs` and on
`Arithmetic.tla` for the proofs.

## 1. The system

The program has one thread. `main` loads three images into memory, builds a
`Hart` and calls `Hart::stepInstruction` until `isRunning` is false; a call
that throws an `EmulatorException` also ends the loop. What is concurrent is
the guest: at any instruction an interrupt or a fault may switch between user
program and kernel, and the kernel may rewrite the page tables, the trap vector
and the interrupt enables that the next instruction depends on. What makes the
emulator correct is what it does between one instruction and the next, for
every program.

| Component | State | Operations | Interacts with | Correct when |
|---|---|---|---|---|
| Address translation (`rv32/hart.cpp:694-768`, `rv32/vmem.hpp`) | locals `i`, `base`, `pte`, `result` | `translateAddress` | reads tables through the memory map, `satp`, `sstatus`, mode | it ends, with the page Sv32 gives, and loses no permission check |
| Traps, interrupts, privilege (`hart.cpp:27-44, 449-491, 593-598, 629-692`) | `pc`, `supervisorMode`, `shouldIncrementPC`, CSRs | `handleException`, `handleInterrupts`, `SRET`, `ECALL` | every instruction, `stvec`, `sie`, `sip` | user code enters S mode only by a trap, at the vector, and can be resumed |
| Loads, stores, AMO (`hart.cpp:47-114, 175-276`) | memory, `reservationSetValid` | the LOAD, STORE and AMO cases | translation, memory map, traps | memory changes only where the page tables permit it |
| CSR file and access checks (`rv32/csr.hpp`, `hart.cpp:500-574`) | the CSRs | `operator[]`, `getAccessType`, CSRRx | traps | the user changes no supervisor setting |
| Counters and timer (`hart.cpp:465-467, 600-627`) | `cycle`, `time`, `instret` pairs, `timeCompare`, `lastTime` | `incrementCounters`, `set_timer` | host clock, `sip.stip` | counters count without a lost carry, a timer fires when due |
| SBI (`hart.cpp:462-481`) | - | timer, putchar, getchar, shutdown | callbacks of `main.cpp` | returns to the caller, stops on shutdown |
| Arithmetic and branches (`hart.cpp:115-174, 277-445, 576-588`) | registers | OP, OP_IMM, OP_UI, M extension | - | result of the ISA, also at overflow and division by 0 |
| Decoder (`rv32/decoder.cpp`, `rv32/instruction.hpp`) | - | `decodeOpcode`, immediates | throws `DecoderException` | one opcode per word, unknown words refused |
| Memory map and memory (`mem_map_manager.cpp`, `basic_memory.cpp`) | `handlers`, `memoryArray` | read/write of byte, halfword, word | throws without a handler | a word reads back as written |
| Main loop and loader (`main.cpp`) | `isRunning` | `loadMemory`, `main` | hart callbacks | stops on shutdown and on a throw |
| Console, exceptions, bit fields | - | `emulatorPutchar`, `emulatorGetchar` | terminal | - |

Hard to test, and therefore what the properties aim at (`PROJECT.json` lists
each hazard at its line): two traps in one call, where the second overwrites
the context the first one saved; `SRET` in user mode, which nothing in its case
prevents; the order of assignments at a trap entry; interrupts that race each
other and the enables; permission checks that hold only together; a page-table
walk that is not bounded by its loop condition; page tables rewritten between
two accesses; 34-bit addresses in 32-bit arithmetic; CSRs with indeterminate
values at power-up; an exception in the middle of an instruction; counters in
two halves, and a clock of the host that the guest's time is derived from; a
register or a CSR read on the wrong side of its write, when source and
destination are the same; words that are four accesses to bytes, perhaps in two
memories; a reservation that forgets its address; the corner cases of division
and of signed products; immediates scattered over a word.

## 2. The modules

| Module | What it is |
|---|---|
| `Sv32` | Operators for `translateAddress`: layouts, checks, one iteration of the loop, the whole call (`Translate`) |
| `AddressTranslation` | Abstract: a request is answered once, from the two entries of a two-level table |
| `Sv32Walk` | The loop as a state machine, one iteration per step, on arbitrary memory |
| `Privilege` | Abstract: the one-level stack of modes, interrupt enables and addresses |
| `Hart` | `stepInstruction` and everything it calls, as a state machine |
| `HartProperties` | The properties of `Hart` |
| `WideCounters` | Abstract: three counters, each one number, and a timer |
| `Counters` | `incrementCounters` and what software does to its state, with the host's clock |
| `MemoryMap` | Operators for `MemoryMapManager` and `BasicMemory` |
| `FlatMemory` | Abstract: one memory of bytes, accessed in one piece |
| `Accesses` | `main` up to the hart's start, then the LOAD, STORE and AMO cases on the memory map |
| `Zicsr` | Abstract: a CSR instruction is one exchange, or a trap |
| `CsrAccess` | The SYSTEM case with registers and values |
| `Decode` | Operators for `decodeOpcode` and the immediates |
| `Rv32im` | Abstract: what the ISA says of the computing instructions and of all encodings |
| `Instructions` | Fetch, decode and the OP, OP_IMM, OP_UI, BRANCH and JUMP cases |
| `MCSv32Walk`, `MCHart`, `MCCounters`, `MCAccesses`, `MCCsrAccess`, `MCInstructions` | Small machines for TLC |
| `Arithmetic`, `Sv32Proofs` | Lemmas: division; pages, the iterations of a walk and their bound |
| `Sv32WalkProofs`, `HartProofs`, `CountersProofs`, `AccessesProofs`, `CsrProofs`, `InstructionsProofs` | Theorems and proofs |

The modules divide one program by what is visible. `Hart` has the control of an
instruction (mode, traps, translation) and leaves values open; `Accesses`,
`CsrAccess` and `Instructions` have registers and values and leave modes and
traps open, so that each admits what the others may do between two of its
instructions. They meet in the lines they share: an access that `Hart` lets
through is the access of `Accesses` at the translated address, a CSR instruction
that `Hart` refuses is a `Refuse` of `CsrAccess`, and `Throw` is `Halt`.

### Sv32 and Sv32Walk

`walk` holds the locals of the loop. `WalkStart` is lines 700-705, `WalkStep`
one iteration (705-755) and `Finish` what follows the loop (757-767). The
parameter `PteCount` is the number of entries of a table (1024 in the code) and
all layouts follow from it: pages have `4 * PteCount` bytes, an address has `4
* PteCount^3` values, a physical page number has two bits more than an address
needs. `UintMax` is where the unsigned `i` goes below 0. Callers have paging
on: without it the function returns in line 697, before the loop. Arithmetic
that the code does in 32 bits is taken modulo `AddrSpace`. Memory is a function
on the word addresses that have a handler, each word seen as a page-table entry
(flags and the two page-number fields); the G and RSW bits are not read by the
code and left out.

`Translate` is the same call as one operator for the hart: it iterates
`WalkStep` until the walk ends, or `MaxWalk` times. What an iteration does
depends on `i` and on the base modulo 2^32 alone, and there are
`(UintMax + 1) * PteCount^2` such pairs, so a walk that is still going on by
then has been in one state twice and never returns. The bound is that large
because a walk below level 0 need not be lost: after 2^32 iterations `i` is 0
again, and the entry read then may be another one, and a leaf. The outcome of a
walk that outlives the bound is `"spin"`, besides `"ok"`, `"fault"` (the
function returned false) and `"throw"`. The bound is the model's own: no line of
the code has one. A lemma of `Sv32WalkProofs`, `LoopIsTranslate`, says that it
cuts off no walk of `Sv32Walk` that answers.

### Hart

A call of `stepInstruction` is two steps. `Fetch` is lines 27-44: the alignment
trap, the interrupt, translation of the pc, and, after a page fault, the trap
and the second attempt at the vector. `Execute` is the rest: one instruction
and, in `Retire`, the increment of the pc and `incrementCounters`. The variable
`stage` says which half comes next; the split exposes the state in which an
instruction has been fetched, and nothing runs in between.

The program in memory is not interpreted. An `Execute` step may be any
instruction with any operands, so every sequence of instructions that a guest
could execute is a behaviour, and the properties hold for malicious user
programs and careless kernels alike. General-purpose registers are therefore
left out, except for where in memory the data came from that the last
instruction has left in its register (`loaded`, which no guard reads), and the
instructions that only compute are one action, `Compute`.
The other actions keep the control of their case: `Load`, `Store`,
`LoadReserved`, `Atomic` (translation, alignment before or after it, page
fault, missing memory, reservation), `Jump`, `SupervisorReturn`, `UserCall`,
the SBI calls, `CsrInstruction`, and `Undecodable` for the throws of the
decoder. An action that throws is `Halt`: `main`'s catch clause ends the loop.

CSRs are records or sets of the fields the hart reads: `sstatus` is the set of
its bits that are 1, `sie`, `sip` and `scounteren` likewise. A CSR write puts
any value of a constant set into the CSR, which is coarser than the set and
clear forms. Registers the hart only stores (`sscratch`, the counters) have no
state here. `incrementCounters`, which `Counters` models, appears as a timer
interrupt that may become pending after any instruction, whatever the clock and
`timeCompare` are.

`Init` gives every CSR any value of its set, because `csr` has no initializer
(`rv32/hart.hpp:111`) and the `Hart` lives on `main`'s stack. The mode, `pc`
and the two flags start as their initializers say.

### Counters

A step of `Counters` is one call of `stepInstruction` as this part of the state
sees it: what the instruction does to the counters, `timeCompare` and
`sip.stip`, then `IncrementCounters`, lines 600-627 as a whole. `Plain` is every
instruction that touches none of these, `SetTimer` the SBI call, `WriteSip` a
CSR instruction of the supervisor on `sip`, and `WriteCounter` the `CSRRSI` and
`CSRRCI` that pass the check of line 560 because a register is 0. Which mode
may execute what is left to `Hart`, so every instruction may come at any time.

A counter is a record of its two halves in `Half`, the values below `Word`
(2^32). `elapsed` is the difference of the host's clock and `lastTime`, before
its conversion to an unsigned number; `PassTime` is the environment, which moves
the clock by any amount of `Advances`, and `Remaining` the assignment to
`lastTime`. `timebasePeriod`, `Word` and the range `Uint64` of the duration are
independent constants. `Advances` may hold negative numbers, as the clock is the
wall clock. `instruction` is a history variable, read by properties only.

`Hart` and `Counters` share `sip.stip` and nothing else that the hart reads: in
`Hart` any instruction may make it pending, which is every behaviour of
`Counters` and more, so what is shown of `Hart` does not depend on the clock.

### MemoryMap and Accesses

`handlers` is the list of `MemoryMapManager`, each a record of base, size and
`memoryArray`. `GetHandler` is the first that owns an address, with the sum of
base and size modulo 2^32 as in line 45; halfwords are two bytes and words two
halfwords, each byte with a search of its own, and the address of each modulo
2^32. `WriteByte` without a handler leaves memory as it is and the instruction
throws, so a store over the end of a memory writes what lies inside it first.

`Accesses` begins with `main`: `RegisterHandler` (`main` registers one memory,
the model any list), `LoadMemory` for each image, with the comparison of line 41
and the assertion of `writeByte` that `Fits` stands for, `GiveUp` for the
returns and the abort, and `Start`. Then software makes accesses. The code of
the LOAD, STORE and AMO cases is one action per kind; `With` is `setRegister`,
which clears x0. Addresses are physical and aligned, since alignment traps are
`Hart`'s. Bytes have `Byte` values (256), words `Byte^4`.

Between two accesses `Software` computes with registers and may go on with
another thread. No line of the code clears the reservation then: `SC.W` alone
does (`hart.cpp:213`), so the flag of one thread is there for the next. What
the guest's kernel does about it is the meaning of `PairedSoftware`: after an
`LR.W` it does not go on with another thread before an `SC.W` has been made, by
the thread or by the kernel itself. The kernel's may be of any word, and its rd
is x0; a thread's is of the word of its last `LR.W`, as the ISA demands of
software that wants it to succeed. Without `PairedSoftware` software does
neither. `linked` is a history variable with the thread and word of the last
`LR.W` and whether another thread has written there since.

`FlatMemory` has no handlers. Its step takes memory and its next value as
bound variables, `\E m \in {memory}, new \in {memory'}`, so that under the
refinement mapping the flat memory is computed once for a step.

### CsrAccess

Registers, CSRs, the mode, and one action for an instruction that is refused,
before or after rd is written, and one for an instruction that is carried out.
`Software` is everything else between two CSR instructions: it changes
registers and the mode. The CSRs with fields that the hart uses are in `Hart`;
here all CSRs are words, of which `scounteren` is looked at. `URO` and `SRW` are
all those of `getAccessType`, and `TrapCsrs` the four that a trap writes
(`sstatus`, `sepc`, `scause`, `stval`), with values that are `Hart`'s and free
here.

`Zicsr` says what a CSR instruction may do to all this. Besides the ISA's
exchange and its trap it has two actions for what this hart does otherwise, no
larger than the code makes them: `TrapAfterRead` (`hart.cpp:528`, rd is written
before the check of the write) and `OverlookedWrite` (line 560).

### Decode and Instructions

An instruction is a record of the six fields of the R format, from which
`instruction.hpp`'s other bit fields are regrouped. `Decode` follows
`decodeOpcode` case by case, its fall-through from the privileged encodings to
`CSRRW` included, and a `DecoderException` is the result `Unknown`.
`Instructions` fetches any word of `Words`, decodes it and executes it, on
registers of `XLEN` bits. The types that compute are modelled in full. `Other`
stands for the rest, which have their own modules: they may leave a value in
rd, go on or go to the address 0 (for a trap or `SRET`). The words that
`decodeOpcode` refuses do not all end the emulation, since some types do not
ask it first: `OP_FENCE` never does and goes on whatever its funct3 is
(`Fence`), and a load or store of an unknown width that page-faults traps
before it is decoded (`FaultUndecoded`). `Throw` is what is left.

## 3. What TLC checks

| Run | Module | Properties | Distinct states |
|---|---|---|---|
| `walk` | `MCSv32Walk` | `TypeOK`, `LeafGrantsAccess`, `ImplementsSv32`, `TwoLevelWalkDescends`, `TwoLevelWalkTerminates` | 845055 |
| `hart_interrupts` | `MCHart` | `TypeOK`, `UserSppClear`, `NoInterruptPassed`, `ImplementsPrivilege`, `SupervisorEntersAtVector`, `TrapSavesContext`, `UserKeepsSettings`, `InterruptsAsEnabled`, `UserIsInterrupted` | 170479 |
| `hart_paging` | `MCHart` | `FetchPermitted`, `LoadsPermitted`, `StoresPermitted`, `OnlyDeepTablesSpin`, `UserStaysConfined` | 1309900 |
| `counters` | `MCCounters` | `TypeOK`, `ImplementsWideCounters`, `TimeNotAhead`, `TimerFires` | 11712 |
| `accesses` | `MCAccesses` | `TypeOK`, `ImagesIntact`, `AtomicsAsNamed`, `ImplementsFlatMemory`, `ScOnlyAfterItsLr`, `LoadsAsNamed` | 3095 |
| `csr` | `MCCsrAccess` | `TypeOK`, `ImplementsZicsr`, `ExchangesAsNamed`, `UserKeptToGranted` | 5632 |
| `instructions` | `MCInstructions` | `TypeOK`, `ImmediatesRight`, `ImplementsRv32im` | 424192 |

Five more runs show where the code departs from what the repository says of
it (section 6).

**Bounds of the walk.** Tables of two entries, 32 addresses, a root, a second
table and a data page. The two entries of a page are equal, so a memory is a
pair of entries, and these take every combination of flags with pointers to
the next table, back to the root, to missing memory and beyond 32 bits. That
reaches every branch of the loop at both levels, a cycle of each length that
two tables allow, and an alias of every kind. A third table, whose entries
differ, has a walk go below level 0 and come back with an answer when `i`, of
which `UintMax` is 7, has wrapped. Callers take both modes and all
values of SUM and MXR. Larger tables add no branch; the proofs cover them.

**Bounds of the hart.** Two machines. On the interrupt machine paging is on,
with one table that does not change: a superpage of the kernel below, one of
the user above. The kernel sets `sstatus` to SIE, SPIE or neither, and `sie`
and `sip` to nothing, the external interrupt or all three; the timer may also
become pending after any instruction, and `set_timer` clears it. So the
external interrupt is due alone, the timer with and without it, and the
software interrupt with the external one, with and without the timer; the
software interrupt without the external one is not among them. Three values of
`stvec` give the handlers: a direct one; the same with a vector table, whose
entry for the timer lies in the user's page, so that the interrupt and the page
fault of its vector are two traps of one call; and a direct one in the user's
page, where every trap faults twice and ends the emulation. Software jumps to
the user's page and to a misaligned address, and its accesses reach a page of
each mode.

On the paging machine interrupts are off and `sstatus` starts as nothing, SUM
or MXR, which software sets at any time; software turns paging on and off and
stores to the user's page and to the page-table entry that maps it. That entry
begins as a clean, an execute-only or a kernel-only entry, one that maps the
table itself and so leaves the user unconfined, or a pointer to nowhere, and
becomes a full entry or a pointer by a store. One of its two vectors lies in the
user's page. `UintMax` is 2 on both, so that a walk below level 0 wraps soon.
`InterruptSets`, `SstatusValues` and the other constants name these bounds. No
bound cuts a behaviour short: the state spaces are finite because the values
are.

**Bounds of the counters.** Halves of one bit, with every initial value of every
counter and every deadline: all carries and wraps of both halves in all
combinations, also right after one half was written. A tick is two nanoseconds
and `MaxElapsed` is five, so a call sees no tick,
one, or two at once, with and without a remainder. `MaxElapsed` says that the
host executes an instruction before the clock has moved further; what a tick
does depends on the quotient and remainder of `elapsed` only, which these values
exhaust up to the width of `time`. The clock only moves on in these runs; what
happens when it is set back is said in section 6.

**Bounds of the accesses.** Bytes of one bit and words of four, twelve
addresses. The second memory begins inside the first and has one byte of its
own, so that reads and writes find their bytes in the one or the other, and a
word or halfword lies in both, or half outside. Two images, of every size from
nothing to the memory's, the second beginning inside the first, are accepted,
refused and found not to fit. Two threads and one register besides x0 give
every operand to every AMO operation, signs and overflow included, and every
interleaving of an `LR.W`, a store of the other thread and an `SC.W`. Threads
are symmetric. The run of `AMOSWAP` has a third register. That of the
reservation has one thread, two words and no pairing, so what it shows needs no
switch.

**Bounds of the CSRs.** Words of two bits, three registers and three CSRs: the
high half of a counter, `scounteren`, whose bit decides on it, and `sepc`,
which traps write. Every initial value, both modes, all six forms and all
equalities of rd, rs1 and x0 occur, and so do both departures that `Zicsr`
names.

**Bounds of the instructions.** Words of four bits, on which signed and
unsigned comparison, overflow of sum, product and quotient, shifts by every
amount and division by zero differ as they do on 32, over all values of two
registers. Programs hold every opcode of the computing types with rd equal to a
source or not, branches and jumps back, ahead and to misaligned addresses,
every funct3 of loads and stores, every funct5 of the atomics, the privileged
encodings, fences and a reserved funct3 of theirs, and reserved words.
Immediates keep their full 32 bits, with every bit once 1 and once 0.

**Fairness.** `Spec` of `Sv32Walk` and `FairSpec` of `Hart` assume weak
fairness of an iteration, of `Fetch` and of `Execute`. They are steps of the
program's only thread, which waits for nothing (`getch` is in nodelay mode), so
a step that can be made is made as long as the host runs the process.
`FairSpec` of `Hart` is written out (a half of the call is reached and left
again and again, or not reached, or the machine has stopped); both halves can
be executed whenever they are reached, so this is their weak fairness, and it
spares TLC the test. No fairness is assumed of the guest: which instruction
comes is never fair. `FairSpec` of `Counters` assumes that instructions go on
being executed, whichever they are, and that the host's clock goes on: a
stopped clock ticks no timer. The modules of the instructions state no
fairness; what they promise is safety.

## 4. Properties

Of the walk: a leaf that is returned is valid and grants the access, also when
the loop has left the two levels (`LeafGrantsAccess`); on two-level tables the
loop is the two-entry lookup of `AddressTranslation`, with its order of faults
and throws (`ImplementsSv32`), and ends (`TwoLevelWalkTerminates`), as each
iteration answers or goes down a level (`TwoLevelWalkDescends`).

Of the hart: the mode, the enable bits, the pc and `sepc` refine `Privilege`
(`ImplementsPrivilege`), which says that user code reaches supervisor mode by a
trap only, that a trap, from either mode, pushes the pc it interrupts unless
the vector itself traps, and that a return goes back to the one pushed. `SRET`
does not look at the mode, so this rests on `UserSppClear`. Supervisor mode
begins at an address of `stvec` with SIE clear (`SupervisorEntersAtVector`). A
trap saves what `SRET` needs, unless the vector itself page-faults, in which
case `sepc` names the vector and SPP says supervisor, so that the kernel can
tell (`TrapSavesContext`). The user changes none of the supervisor's settings
(`UserKeepsSettings`). A call that begins with interrupts due takes one of
them, through its vector or through the fault that its vector meets, and a call
that begins with none due takes none (`InterruptsAsEnabled`, which says nothing
of the order among several; section 6 does). None that must be taken is passed
by an instruction, after a fault in the fetch neither (`NoInterruptPassed`),
and a user program cannot hold them off (`UserIsInterrupted`; the emulator may
stop or spin first). Instructions are fetched, and memory is changed, only
under an entry that permits it to the mode of that moment, with the tables, SUM
and `satp` of that moment (`FetchPermitted`, `StoresPermitted`); and the data
that a load, an `LR.W` or another atomic leaves in its register comes from a
page that is readable in this sense, MXR included (`LoadsPermitted`). These
search the page tables reachable from `satp` for a permitting entry instead of
following the walk, so they do not repeat its checks. A user whose tables give
it no page of the tables themselves keeps this so: it changes no entry, no
`satp` and no word that they do not let it write, until and through its next
trap (`UserStaysConfined`). And only a second-level entry that points on, which
Sv32 takes for a fault, keeps a fetch, load or store from returning
(`OnlyDeepTablesSpin`).

Of the counters: the halves, their carries and the recomposed `time` are wide
counters, and the timer is pending from the tick that reaches its deadline
until software clears it, with `set_timer` and the tick in one call
(`ImplementsWideCounters`). As long as the clock has not been set back behind
the last tick, the guest's time does not get ahead of the host's
(`TimeNotAhead`); that it falls behind is in section 6. The comparison is only
made on a tick and `set_timer` clears what is pending, and still a deadline
that has passed fires (`TimerFires`).

Of memory: what `loadMemory` has accepted is in memory to its last byte, though
it compares the size of a file and not its end (`ImagesIntact`: the assertion of
`writeByte` is what it rests on). The bytes behind the handlers are one flat
memory under accesses of every size, and each instruction changes the one
register it names (`ImplementsFlatMemory`). This abstraction lets an access
extend or combine as any access does. `LoadsAsNamed` adds that each load gives
the register it names the bytes at its address with the sign that its own name
says, and `AtomicsAsNamed` that each atomic does what its own name says. An
`SC.W` that reports success follows its thread's `LR.W` of the same word, with
no write of another thread between (`ScOnlyAfterItsLr`), if software pairs them
and the kernel makes an `SC.W` between threads: the hart itself keeps neither
address nor thread, and section 6 shows what happens without.

Of CSR instructions, over any software: each is one of four things, in one piece
and with operands from before (`ImplementsZicsr`): the exchange of a register
and a CSR, where the ISA permits it; the trap that changes no register, where it
does not; the trap of a write to a counter that may be read, which comes after
rd has received it; or the write of such a counter that is overlooked because a
register holds 0. Each form does the exchange
of its own name, with its own operand, and no other (`ExchangesAsNamed`). In
user mode a CSR instruction shows nothing but a counter that `scounteren`
grants, also when it traps after writing rd, and changes nothing but such a
counter, unless it traps, which changes the CSRs of the trap
(`UserKeptToGranted`).

Of the instructions: encodings, immediates, results and targets are the ISA's.
`Rv32im` states encodings as a table of masks, immediates bit by bit, and
results by what they satisfy (a quotient by the division equation, a product by
its remainder modulo a power of two), not by the algorithms of the code
(`ImplementsRv32im`, `ImmediatesRight`).

## 5. What is proved

Every theorem holds for machines of any size, the code's included. The proofs
assume what the modules state of their constants and nothing else; TLC evaluates
each assumption on its machine.

- `Sv32Assumption`, `Sv32WalkAssumption`, `HartAssumption`,
  `CountersAssumption`, `CsrAccessAssumption`: sizes are positive, and the
  constant sets contain values of the right type. The callers of a walk have
  paging on (`satp.mode` is 1), as above.
- `MemoryMapAssumption`: bytes have at least two values and there are at least
  four addresses. `AccessesAssumption` adds that no memory and no image that
  `main` registers or loads reaches the end of the address space; section 6
  says what happens there.
- `InstructionsAssumption`: `Word` is `2^XLEN` and a multiple of 8, programs use
  registers that there are, and shift amounts that fit in them, which is no
  restriction for 32 bits.
- `PowersAssumption`: `2^k` is positive and `2^(i+j) = 2^i * 2^j`, laws of the
  exponent that the provers do not have.

| Theorem | States |
|---|---|
| `Sv32WalkProofs!WalkTypeCorrect` | `Spec => []TypeOK` |
| `Sv32WalkProofs!LeafIsPermitted` | `Spec => []LeafGrantsAccess` |
| `Sv32WalkProofs!WalkImplementsSv32` | `Spec => ImplementsSv32` |
| `Sv32WalkProofs!WalkDescends` | `Spec => TwoLevelWalkDescends` |
| `Sv32WalkProofs!TranslateIsSv32` | `Spec =>` always, on well-formed tables, `Translate` is the lookup of `AddressTranslation` |
| `HartProofs!TypeCorrect` | `Spec => []TypeOK` |
| `HartProofs!UserStaysUser` | `Spec => []UserSppClear` |
| `HartProofs!ModeStack` | `Spec => ImplementsPrivilege` |
| `HartProofs!EntryAtVector` | `Spec => SupervisorEntersAtVector` |
| `HartProofs!ContextIsSaved` | `Spec => TrapSavesContext` |
| `HartProofs!SettingsAreKept` | `Spec => UserKeepsSettings` |
| `HartProofs!InterruptsAreAsEnabled` | `Spec => InterruptsAsEnabled` |
| `HartProofs!NoInterruptIsPassed` | `Spec => []NoInterruptPassed` |
| `HartProofs!FetchIsPermitted` | `Spec => []FetchPermitted` |
| `HartProofs!StoresArePermitted` | `Spec => StoresPermitted` |
| `HartProofs!LoadsArePermitted` | `Spec => LoadsPermitted` |
| `HartProofs!ShallowTablesReturn` | `Spec => OnlyDeepTablesSpin` |
| `HartProofs!UserIsConfined` | `Spec => UserStaysConfined` |
| `CountersProofs!CountersTypeCorrect` | `Spec => []TypeOK` |
| `CountersProofs!HalvesAreWide` | `Spec => ImplementsWideCounters` |
| `CountersProofs!NeverAhead` | `Spec => TimeNotAhead` |
| `CountersProofs!TicksLoseTheRemainder` | `Spec => LosesTheRemainder` |
| `AccessesProofs!AccessesTypeCorrect` | `Spec => []TypeOK` |
| `AccessesProofs!ScPairs` | `Spec => ScOnlyAfterItsLr`, if `PairedSoftware` |
| `AccessesProofs!ImagesAreLoaded` | `Spec => []ImagesIntact` |
| `AccessesProofs!MemoryIsFlat` | `Spec => ImplementsFlatMemory`, without `AMOSWAP` |
| `AccessesProofs!LoadsAreAsNamed` | `Spec => LoadsAsNamed` |
| `AccessesProofs!AtomicsAreAsNamed` | `Spec => []AtomicsAsNamed` |
| `CsrProofs!CsrTypeCorrect` | `Spec => []TypeOK` |
| `CsrProofs!CsrAccessImplementsZicsr` | `Spec => ImplementsZicsr` |
| `CsrProofs!ExchangesAsNamedProved` | `Spec => ExchangesAsNamed` |
| `CsrProofs!UserReachesGranted` | `Spec => UserKeptToGranted` |
| `InstructionsProofs!InstructionsTypeCorrect` | `Spec => []TypeOK` |
| `InstructionsProofs!ImmediatesAlwaysRight` | `Spec => []ImmediatesRight` |
| `InstructionsProofs!InstructionsImplementRv32im` | `Spec => ImplementsRv32im` |

The hypotheses on `PairedSoftware` and `AMOSWAP` are not decoration: each has a
run in section 6 without it. `LosesTheRemainder` states what the code does about
the remainder of a tick and is no property of a run.

*The walk.* `LeafGrantsAccess` is not inductive without types, and is with
them: a leaf is the outcome of one `Verdict`. For the refinement the invariant
`TwoLevelInv` says that the walk is at the root, at the table that the top
entry names, or finished with the answer of the abstract lookup; well-formed
tables exclude a third level. The abstract answer changes once, in the step
that finishes.

*The bound of a walk.* That a walk which outlives `MaxWalk` never returns is a
pigeonhole: each iteration has a pair of `i` and a page below `(UintMax + 1) *
PteCount^2`, by `PairsAreCounted` the pairs are numbered, so by `TwoAlike` two
of `MaxWalk + 1` iterations agree, and a sequence that follows from its last
member and has one twice repeats itself (`LoopsForEver`). An iteration of the
machine is an element of that sequence (`IterationInvariant`), hence the lemma
`LoopIsTranslate`, which is about the model alone: machine and operator iterate
one `WalkStep`, and differ in the bound. With the refinement it gives
`TranslateIsSv32`: the call that `Hart` makes is Sv32's on well-formed tables.

*The hart.* `UserSppClear` is inductive together with `TypeOK` (`HartInv`): a
trap sets SPP and leaves the hart in supervisor mode, `SRET` clears SPP, and
only the supervisor writes `sstatus`, which needs `Refuses`. The lemma
`StepKinds` classifies every step as one of: no trap, one trap entry, two trap
entries (a fault at the vector), a return, or a step inside supervisor mode; it
needs the invariant to know that a return in user mode stays in user mode. The
refinement and the three action properties about traps then follow kind by kind, without
looking at instructions again.

*Fetches and stores.* `FetchPermitted` and `StoresPermitted` are about all of
`Translate`, whose iterations are a recursive function: `IterationsExist` says
that there is one (the least length without one cannot be), and
`IterationsAgree` that it is one. `InTables` is kept by every iteration: the
base is a page of the tables of `satp`, if it is memory at all, also below
level 0, and a leaf was read from such a page and not refused. `LeafCovers` is
the arithmetic of pages and superpages, and `LeafFound` the result for a call.
For stores that is all; for fetches the invariant `HasFetched` adds that
between the two halves of a call the translation is still the one that was
made, and `FetchesAligned` that every vector is aligned. Loads are like stores,
action by action, with the case of `READ` in `LeafFlags`, where MXR decides,
and that of `WRITE` for the atomics, since a writable page is a readable one; a
fetch leaves nothing in `loaded` (`NothingLoaded`).

*Confinement and hangs.* The tables of `satp` are the least set of pages closed
under pointers. `TablesHold` says that there is one, for any memory, and
`TablesStay` that memories alike on the pages of the one have the same: of two
least sets, each contains the other. A confined user writes outside the tables
(`StoreIsPermitted`), keeps `satp` (`SatpKept`, by `StepKinds`), and so keeps
the tables, and with them what it may write. `ShallowWalkEnds` is two
iterations: the first reads an entry of the root, the second one that cannot
point on.

*Interrupts.* `NothingDue` says that a fetch half ends with nothing due,
whatever it took on its way: an alignment trap comes before the test for
interrupts and a page fault after it, and a trap, once taken, has cleared SIE
in supervisor mode. `NoInterruptPassed` is then inductive. For
`InterruptsAsEnabled` a call is taken apart into the alignment trap, the
interrupt and the page fault of what is then fetched: with one due at an aligned
pc the first does not happen and the second does, and with none due neither
trap leaves an interrupt in `scause`.

*The counters.* `TypeOK` is inductive. The refinement rests on
`IncrementedCounts`: the two halves after the carry by hand, joined, are the
number before plus one modulo `Wide`, by the division theorem and the two cases
of the low half. It needs only that the halves are in range, for any `Word`.
`SplitJoined` does the same for the recomposed time. For `NeverAhead`, with
`elapsed >= 0` in the property, the quotient times the period is at most what
has elapsed. `TicksLoseTheRemainder` asks in its statement that the instruction
comes before the clock has moved further than the duration or `time` can show;
then time moves by exactly the quotient (`MovedExactly`), and what the step
takes off `elapsed` beyond that is the remainder.

*Memory.* `AccessesProofs` begins with what a search and an access do, before
any state machine: `GetHandler`, the least index that owns the address, exists
by the lemma `Least` of `Arithmetic` (a set of naturals has a least element);
`OwnedPlace` says that an address determines its handler and offset, whatever
overlaps; `Changes(old, new, places)` that a write keeps all ranges and all
bytes elsewhere, and it composes, so a word is four of them. `WriteDigits` and
`ReadDigits` then say that a word leaves and takes its digits to the base
`Byte`. `MemoryIsFlat` maps each action by these. `ScPairs` is not inductive by
itself; `LinkKept` says that in paired software, while the flag is set, the last
`LR.W` was the running thread's and its word is intact, which a switch of
threads keeps because it comes after an `SC.W`. `LoadsAreAsNamed` compares the
bytes read, as a number to the base `Byte`, with the number that the sign
extension makes of them. `ImagesIntact` needs `BootShape`: no image is
registered before the memories are, and their sizes are the devices', so that
`Fits` covers the whole image.

*CSR instructions.* Types are the invariant. Each form is an exchange by its
own case; that the refusals of the code are those of `Zicsr` is a comparison of
conditions, in which the two departures are the cases that remain: a refused
write after rd was written, and an accepted one that the ISA refuses. For
`UserKeptToGranted`: what a user gets past the check of a write is refused to
it by the check of the CSR's class, unless that is a counter it may read.

*Instructions.* `ImplementsRv32im` is a refinement with the identity mapping,
opcode by opcode. The decoder is compared with the table of encodings name by
name, in groups by the fields they look at. Immediates are numbers on one side
and sums of the word's bits on the other: `FieldBits` writes a field as the sum
of its bits, and `TotalIs` unfolds the sum of 31 weights, whose recursive
definition exists by `Least`. Results are unique solutions of what the ISA
demands: `DivModUniqueInt` for sums and products modulo a power of two,
`QuotientDivides` for a quotient that rounds towards zero with a remainder of
the dividend's sign, `SignedHighHalf` for the upper word of a signed product,
`ShiftIsResult` for shifts.

*Only model-checked.* `TwoLevelWalkTerminates`, `UserIsInterrupted` and
`TimerFires`, which are liveness properties under fairness, out of the prover's
reach.

## 6. Where the code departs from what is said of it

| Run | Property | The code |
|---|---|---|
| `walk_cycle` | `WalkTerminates` | `hart.cpp:705`: `i >= 0` is always true of an unsigned `i`; a pointer at level 0 continues the walk with `vpn1`, and can go on for ever on a cycle |
| `hart_user_sret` | `UserKeepsSstatus` | `hart.cpp:449`: `SRET` in user mode is executed |
| `sc_reservation` | `ScOnlyAfterItsLr` | `hart.cpp:210`: the reservation is a flag without an address, and an `SC.W` stores after an `LR.W` of another word |
| `amoswap` | `ImplementsFlatMemory` | `hart.cpp:221`: `AMOSWAP.W` writes the old word to rs2 besides rd |
| `csr_readonly` | `ReadOnlyKept` | `hart.cpp:560`: `CSRRSI` and `CSRRCI` are refused by the value of a register and not by the immediate, so they can write a counter |

Each is quoted with the line of the repository it contradicts in
`PROJECT.json`. `UserSppClear` shows that the second does not give the user
supervisor mode, and `LeafGrantsAccess` that the first loses no permission
check while it runs; `OnlyDeepTablesSpin` that tables of two levels are safe
from it, and `UserKeptToGranted` which CSRs the last one reaches from user mode.

Two more departures contradict what the repository says, without a run of their
own, since each is plain from one line; no property of a run hides them or rests
on them:

- `hart.cpp:656-664`: of several interrupts due the hart takes the software
  interrupt before the timer's, and that before the external one. The
  privileged architecture, which `src/README.md:6` says is fully supported,
  takes the external interrupt first, then the software interrupt, then the
  timer's. `FirstOf` does as the code, and `InterruptsAsEnabled` leaves the
  order open.
- `hart.cpp:604-616`: each tick drops the remainder of the duration, so the
  guest's time falls behind by up to a tick at each, and runs at little more
  than half its rate if every call finds almost two ticks. It is announced to
  the guest as 10 MHz (`src/linux/emu.dts:29`, `timebase-frequency =
  <0x989680>`, and `main.cpp:66`). How much is lost is the theorem
  `TicksLoseTheRemainder`.

Other departures from the ISA are denied by no line of the repository in
particular, and have no run; the models carry them out as the code does:

- `hart.cpp:213`: nothing but an `SC.W` clears the reservation, a trap or a
  switch of processes neither. `ScOnlyAfterItsLr` rests on a kernel that makes
  an `SC.W` of its own before it goes on with another thread.
- `hart.cpp:757`: a translation to physical address 0 is taken for a failed
  walk. `AddressTranslation` says so too; there is no memory at 0.
- `hart.cpp:602`: the difference of two readings of the wall clock is made
  unsigned. When the clock is set back behind the last tick, the guest's time
  jumps by about `2^64 / timebasePeriod` ticks. `Counters` has such clocks and
  the theorems hold with them, but `TimeNotAhead` is silent at such a step; the
  run, which also checks `TimerFires`, has a clock that only moves on.
- `hart.cpp:703`: 34-bit physical addresses of tables are taken modulo 2^32, so
  a table beyond 4 GiB is read at an alias. `ImplementsSv32` is about tables
  inside 32 bits.
- `hart.cpp:590`: errors of a user program (an unknown instruction, memory that
  does not exist) stop the emulator instead of trapping into the kernel.
- `hart.cpp:60-68`: alignment of loads and stores is tested after translation,
  and `stval` is the translated address.
- `hart.cpp:528`: rd is written before the check of the write, so a CSR
  instruction that traps for a read-only CSR has changed a register
  (`TrapAfterRead` of `Zicsr`). From user mode the register has then got a
  counter that the user may read (`UserKeptToGranted`).
- `hart.cpp:539, 546`: `CSRRS` and `CSRRC` on a counter are refused by what the
  register holds, where the ISA goes by its number: with a register other than
  x0 that holds 0 they read the counter and do not trap (`OverlookedWrite`,
  here without an effect on the counter).
- `hart.cpp:587`: `OP_FENCE` is not decoded, and every funct3 of it is a fence;
  a load or store of an unknown width translates its address before it is
  decoded (`hart.cpp:50, 89`), so it may trap for a page fault and not stop the
  emulator.
- `mem_map_manager.cpp:45`: a handler that ends at 2^32 has `lastAddr` 0 and
  owns no address. No memory that `main` registers ends there.
- `decoder.cpp:226`: some reserved SYSTEM encodings are executed as `CSRRW`,
  which the ISA allows.

## 7. What is left

Modelled first was what the isolation of kernel and user rests on, then memory,
CSR values and the instructions. What could still be added:

1. One machine composed of `Hart` and `Accesses` with virtual addresses, in
   which the reservation lives through traps.
2. The registers a0 and a1 of SBI calls, with the characters of the console.

## 8. Not modelled

Terminal I/O, the images and the device tree, the build files, and formatting
of messages: no state of the system depends on them. The start arguments of the
program and the reading of files are left out of `main`, and the characters and
the answer registers of SBI calls out of the hart. `asid` and the fields `xs`,
`fs`, `vs`, `ube` and `sd` of `sstatus` and the reserved bits are stored and
never read. Names of registers and opcodes serve messages only.
