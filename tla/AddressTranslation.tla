------------------------ MODULE AddressTranslation ------------------------
(***************************************************************************)
(* What Sv32 translation promises, stated without a loop: a request is     *)
(* answered once, with the entry that two levels of tables hold for the    *)
(* virtual address, if it grants the access.  Written from the entry's     *)
(* point of view (what an access needs) where translateAddress lists what  *)
(* refuses it.                                                             *)
(***************************************************************************)
EXTENDS Sv32

VARIABLES mem, hart, va, accessType, answer

request == <<mem, hart, va, accessType>>

Pending == [status |-> "pending", addr |-> va]

-----------------------------------------------------------------------------
Valid(pte) == "V" \in pte.flags /\ ("W" \in pte.flags => "R" \in pte.flags)

\* An entry grants an access when it has the access's permission, was
\* marked accessed (and dirty for a write), and belongs to the right mode.
Grants(pte) ==
  /\ \/ accessType = "READ"
          /\ \/ "R" \in pte.flags
             \/ "X" \in pte.flags /\ "MXR" \in hart.sstatus
     \/ accessType = "WRITE" /\ {"W", "D"} \subseteq pte.flags
     \/ accessType = "EXECUTE" /\ "X" \in pte.flags
  /\ "A" \in pte.flags
  /\ ~hart.supervisorMode => "U" \in pte.flags
  /\ hart.supervisorMode /\ "U" \in pte.flags =>
        accessType # "EXECUTE" /\ "SUM" \in hart.sstatus

Failure(how) == [status |-> how, addr |-> va]

\* Physical address 0 never has a handler on this machine and is refused
\* as an unmapped page.
Located(ppn1, ppn0) ==
  LET pa == (ppn1 * PteCount + ppn0) * PAGE_SIZE + PageOffset(va)
  IN  CASE pa = 0                     -> Failure("fault")
        [] pa \in Addr /\ pa # 0      -> Mapped(pa)
        [] OTHER                      -> Failure("throw")

\* The addresses of the two entries, as 34-bit physical addresses.
TopAddr  == hart.satp.ppn * PAGE_SIZE + PTE_SIZE * Vpn1(va)
Top      == mem[TopAddr]
LowAddr  ==
  (Top.ppn1 * PteCount + Top.ppn0) * PAGE_SIZE + PTE_SIZE * Vpn0(va)
Low      == mem[LowAddr]

LowAnswer ==
  IF LowAddr \notin DOMAIN mem THEN Failure("throw")
  ELSE IF Valid(Low) /\ IsLeaf(Low) /\ Grants(Low)
  THEN Located(Low.ppn1, Low.ppn0)
  ELSE Failure("fault")

Lookup ==
  IF TopAddr \notin DOMAIN mem THEN Failure("throw")
  ELSE IF ~Valid(Top) THEN Failure("fault")
  ELSE IF ~IsLeaf(Top) THEN LowAnswer
  ELSE IF Grants(Top) /\ Top.ppn0 = 0
  THEN Located(Top.ppn1, Vpn0(va))
  ELSE Failure("fault")

-----------------------------------------------------------------------------
Init == answer = Pending

\* Sv32's tables have two levels and lie in 32-bit memory: the top entry may
\* point to a table, the low one may not.
TwoLevel ==
  /\ TopAddr \in Addr
  /\ (TopAddr \in DOMAIN mem /\ Valid(Top) /\ ~IsLeaf(Top)) =>
       /\ LowAddr \in Addr
       /\ (LowAddr \in DOMAIN mem /\ Valid(Low)) => IsLeaf(Low)

\* On tables of another shape any answer will do, but only one.
Answer ==
  /\ answer = Pending
  /\ TwoLevel => answer' = Lookup
  /\ UNCHANGED request

Spec == Init /\ [][Answer]_<<mem, hart, va, accessType, answer>>
=============================================================================
