------------------------------ MODULE MCHart ------------------------------
(***************************************************************************)
(* Two instances of Hart on a machine of 32 addresses: pages of 8 bytes,   *)
(* with no memory in page 0 as on the real machine.  One has fixed page    *)
(* tables and lets software do what it likes to the interrupts; the other  *)
(* keeps the interrupts off and lets it do what it likes to a page table.  *)
(***************************************************************************)
EXTENDS HartProperties

Entries(flags, ppn) ==
  [flags |-> flags, ppn1 |-> ppn \div PteCount, ppn0 |-> ppn % PteCount]

-----------------------------------------------------------------------------
(* Interrupts: paging is on, with one fixed table at 8 and 12.  It maps     *)
(* addresses 0 to 15, where the kernel and its table are, by a superpage   *)
(* of the kernel, and 16 to 31 by a superpage of the user.  Handlers: 8    *)
(* for all traps; 8 with a vector table whose entry for the timer, 28, is  *)
(* in the user's page, so that a page fault follows the interrupt; or 16,  *)
(* in the user's page, where every trap ends the emulation.  14 is a       *)
(* misaligned jump, and 4 and 13 are data of the kernel, 29 of the user.   *)

IntRam           == {8, 12, 16, 28}
KernelPages      == Entries({"V", "R", "W", "X", "A", "D"}, 0)
UserPages        == Entries({"V", "R", "W", "X", "U", "A", "D"}, 2)
IntMemories      == {[a \in IntRam |-> CASE a = 8  -> KernelPages
                                         [] a = 12 -> UserPages
                                         [] OTHER  -> EmptyPte]}
IntJumpTargets   == {14, 16}
IntDataAddrs     == {4, 29}
IntStoreWords    == {EmptyPte}
IntSstatus       == {{}, {"SIE"}, {"SPIE"}}
IntInterruptSets == {{}, {Sei}, {Ssi, Sti, Sei}}
IntStvec         == {[mode |-> 0, base |-> 2], [mode |-> 0, base |-> 4],
                     [mode |-> 1, base |-> 2]}
IntScounteren    == {{"TM"}}
IntScause        == {[interrupt |-> FALSE, exceptionCode |-> UserEcall]}
IntSatp          == {[mode |-> 1, ppn |-> 1]}

-----------------------------------------------------------------------------
(* Paging: page 1 is the root and page 2 a second table.  The root sends   *)
(* addresses 0 to 15 through the second table and 16 to 31, where the      *)
(* kernel runs, to the first 16 bytes by a superpage of the kernel.        *)
(* Software stores to the entry of the user's page, at 16 with paging off, *)
(* and to the user's page, at address 0 of the user and 24 with paging     *)
(* off.  A second stvec has the handler in the user's page.  The user's    *)
(* entry may also map the second table itself, and a user with such an     *)
(* entry is not confined.                                                  *)

UserLeaf   == Entries({"V", "R", "W", "X", "U", "A", "D"}, 3)
CleanLeaf  == Entries({"V", "R", "W", "U", "A"}, 3)
CodeLeaf   == Entries({"V", "X", "U", "A"}, 3)
SelfLeaf   == Entries({"V", "R", "W", "X", "U", "A", "D"}, 2)
KernelLeaf == Entries({"V", "R", "W", "X", "A", "D"}, 2)
KernelTop  == Entries({"V", "R", "W", "X", "A", "D"}, 0)
ToTable    == Entries({"V"}, 2)
ToNowhere  == Entries({"V"}, 0)

PagRam      == {8, 12, 16, 24, 28}
Memory(low) == [a \in PagRam |-> CASE a = 8  -> ToTable
                                  [] a = 12 -> KernelTop
                                  [] a = 16 -> low
                                  [] a = 24 -> ToTable
                                  [] OTHER  -> EmptyPte]
PagMemories ==
  {Memory(low) :
     low \in {CleanLeaf, CodeLeaf, SelfLeaf, KernelLeaf, ToNowhere}}

PagJumpTargets   == {0, 24}
PagDataAddrs     == {0, 16}
PagStoreWords    == {UserLeaf, ToTable}
PagSstatus       == {{}, {"SUM"}, {"MXR"}}
PagInterruptSets == {{}}
PagStvec         == {[mode |-> 0, base |-> 0], [mode |-> 0, base |-> 6]}
PagScounteren    == {{}}
PagScause        == {[interrupt |-> FALSE, exceptionCode |-> UserEcall]}
PagSatp          == {[mode |-> 0, ppn |-> 1], [mode |-> 1, ppn |-> 1]}
=============================================================================
