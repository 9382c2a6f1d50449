------------------------------- MODULE Sv32 -------------------------------
(***************************************************************************)
(* Address translation of the hart: Hart::translateAddress and the bit     *)
(* layouts of vmem.hpp.  A page-table entry is a record of its flag bits   *)
(* and its two page-number fields; memory is a function from the           *)
(* word-aligned physical addresses that have a handler to the word stored  *)
(* there, every word being looked at as a page-table entry.                *)
(*                                                                         *)
(* The module holds operators only.  Sv32Walk runs the loop of             *)
(* translateAddress as a state machine, Hart uses Translate as one call.   *)
(***************************************************************************)
EXTENDS Integers

CONSTANTS
  PteCount,  \* entries of one page table, 2^10 in the code
  UintMax    \* largest uint32_t, 2^32 - 1 in the code

ASSUME Sv32Assumption ==
  /\ PteCount \in Nat \ {0}
  /\ UintMax \in Nat
  /\ UintMax > 1

-----------------------------------------------------------------------------
(* Layouts.  With PteCount = 2^10 these are the constants of vmem.hpp.     *)

PTE_SIZE  == 4
PAGE_SIZE == PTE_SIZE * PteCount

\* The values of a uint32_t used as an address.
AddrSpace == PteCount * PteCount * PAGE_SIZE
Addr      == 0 .. (AddrSpace - 1)

Vpn1(va)       == va \div (PteCount * PAGE_SIZE)
Vpn0(va)       == (va \div PAGE_SIZE) % PteCount
PageOffset(va) == va % PAGE_SIZE

\* ppn1 has two bits more than an index: a physical address has 34 bits.
PTE == [flags : SUBSET {"V", "R", "W", "X", "U", "A", "D"},
        ppn1  : 0 .. (4 * PteCount - 1),
        ppn0  : 0 .. (PteCount - 1)]

EmptyPte == [flags |-> {}, ppn1 |-> 0, ppn0 |-> 0]

AccessTypes == {"READ", "WRITE", "EXECUTE"}

-----------------------------------------------------------------------------
(* What the loop decides about one entry.  h is the hart: its privilege    *)
(* mode, the set of the sstatus bits that are 1, and satp.                 *)

Invalid(pte) ==
  \/ "V" \notin pte.flags
  \/ "R" \notin pte.flags /\ "W" \in pte.flags

IsLeaf(pte) == "R" \in pte.flags \/ "X" \in pte.flags

\* The privilege checks of a leaf entry, and a form of them that forgets
\* the SUM bit.
WrongMode_IgnoresSum(h, pte, accessType) ==
  IF h.supervisorMode
  THEN "U" \in pte.flags /\ accessType = "EXECUTE"
  ELSE "U" \notin pte.flags

WrongMode(h, pte, accessType) ==
  \/ ~h.supervisorMode /\ "U" \notin pte.flags
  \/ h.supervisorMode /\ "U" \in pte.flags
        /\ (accessType = "EXECUTE" \/ "SUM" \notin h.sstatus)

\* A form of the next checks without the one on the X bit.
WrongKind_NoExecute(h, pte, accessType) ==
  \/ accessType = "WRITE" /\ "W" \notin pte.flags
  \/ accessType = "READ" /\ "R" \notin pte.flags
        /\ ("MXR" \notin h.sstatus \/ "X" \notin pte.flags)

\* The read, write and execute checks; MXR lets a read use the X bit.
WrongKind(h, pte, accessType) ==
  \/ accessType = "WRITE" /\ "W" \notin pte.flags
  \/ accessType = "EXECUTE" /\ "X" \notin pte.flags
  \/ accessType = "READ" /\ "R" \notin pte.flags
        /\ ("MXR" \notin h.sstatus \/ "X" \notin pte.flags)

\* The A and D bits are left to the guest to set.
Untouched_IgnoresDirty(pte, accessType) == "A" \notin pte.flags

Untouched(pte, accessType) ==
  "A" \notin pte.flags \/ (accessType = "WRITE" /\ "D" \notin pte.flags)

\* Every reason for which a leaf entry found at level i is refused.
Refused(h, pte, accessType, i) ==
  \/ WrongMode(h, pte, accessType)
  \/ WrongKind(h, pte, accessType)
  \/ i = 1 /\ pte.ppn0 # 0
  \/ Untouched(pte, accessType)

Verdict(h, pte, accessType, i) ==
  IF Invalid(pte) THEN "fault"
  ELSE IF ~IsLeaf(pte) THEN "walking"
  ELSE IF Refused(h, pte, accessType, i) THEN "fault" ELSE "leaf"

-----------------------------------------------------------------------------
(* The loop.  Its state: the counter i, the base of the table to read, the *)
(* last entry read and whether the loop goes on, left with a leaf, with    *)
(* false, or by the exception that readWord throws for an address without  *)
(* a handler.                                                              *)

WalkState == [i      : 0 .. UintMax,
              base   : 0 .. (4 * AddrSpace - 1),
              pte    : PTE,
              status : {"walking", "leaf", "fault", "throw"}]

\* satp.ppn * PAGE_SIZE is a product of two uint32_t, kept modulo 2^32.
WalkStart(h) ==
  [i      |-> 1,
   base   |-> (h.satp.ppn * PAGE_SIZE) % AddrSpace,
   pte    |-> EmptyPte,
   status |-> "walking"]

\* The argument of readWord is a uint32_t.
PteAddr(va, w) ==
  (w.base + PTE_SIZE * (IF w.i = 0 THEN Vpn0(va) ELSE Vpn1(va))) % AddrSpace

\* --i on a signed counter.
NextLevel_Signed(i) == i - 1

\* --i on an unsigned counter.
NextLevel(i) == IF i = 0 THEN UintMax ELSE i - 1

\* An iteration that goes down a level and stays at the same table.
WalkStep_SameTable(mem, h, va, accessType, w) ==
  LET pteAddr == PteAddr(va, w)
      verdict == Verdict(h, mem[pteAddr], accessType, w.i)
  IN  IF pteAddr \notin DOMAIN mem
      THEN [w EXCEPT !.status = "throw"]
      ELSE IF verdict = "walking"
      THEN [w EXCEPT !.i = NextLevel(@), !.pte = mem[pteAddr]]
      ELSE [w EXCEPT !.pte = mem[pteAddr], !.status = verdict]

WalkStep(mem, h, va, accessType, w) ==
  LET pteAddr == PteAddr(va, w)
      pte     == mem[pteAddr]
      verdict == Verdict(h, pte, accessType, w.i)
  IN  IF pteAddr \notin DOMAIN mem
      THEN [w EXCEPT !.status = "throw"]
      ELSE IF verdict = "walking"
      THEN [i      |-> NextLevel(w.i),
            base   |-> (pte.ppn1 * PteCount + pte.ppn0) * PAGE_SIZE,
            pte    |-> pte,
            status |-> "walking"]
      ELSE [w EXCEPT !.pte = pte, !.status = verdict]

-----------------------------------------------------------------------------
(* The result of translateAddress: true with the new value of addr, false  *)
(* with addr untouched, an EmulatorException, or no return.                *)

Outcome == [status : {"ok", "fault", "throw", "spin"}, addr : Addr]

Mapped(pa) == [status |-> "ok", addr |-> pa]

\* result.bits, 34 bits wide: a leaf at level 1 is a superpage.
ResultBits(va, w) ==
  (w.pte.ppn1 * PteCount + (IF w.i = 1 THEN Vpn0(va) ELSE w.pte.ppn0))
     * PAGE_SIZE + PageOffset(va)

\* What follows the loop.
Finish(va, w) ==
  LET bits == ResultBits(va, w)
  IN  IF w.status = "leaf"
      THEN IF bits = 0 THEN [status |-> "fault", addr |-> va]
           ELSE IF bits \in Addr THEN Mapped(bits)
           ELSE [status |-> "throw", addr |-> va]
      ELSE IF w.status \in {"fault", "throw"}
      THEN [status |-> w.status, addr |-> va]
      ELSE [status |-> "spin", addr |-> va]

\* The loop has no bound; this one is the model's, for Hart, where a call is
\* one step.  What the loop does next depends on i and on the base modulo 2^32
\* alone, so a walk that outlives this many iterations has been in one state
\* twice and never ends.  It may well be below level 0 for long and still
\* answer: after 2^32 iterations i is 0 again.
MaxWalk == (UintMax + 1) * (PteCount * PteCount)

Translate(mem, h, va, accessType) ==
  LET walk[k \in 0 .. MaxWalk] ==
        IF k = 0 THEN WalkStart(h)
        ELSE LET w == walk[k - 1]
             IN  IF w.status # "walking" THEN w
                 ELSE WalkStep(mem, h, va, accessType, w)
  IN  IF h.satp.mode = 0 THEN Mapped(va) ELSE Finish(va, walk[MaxWalk])
=============================================================================
