----------------------------- MODULE CsrAccess -----------------------------
(***************************************************************************)
(* The CSR instructions in stepInstruction (hart.cpp:498-574), with the    *)
(* registers and the values of CSRs.  Between two of them software does    *)
(* what it likes with registers and modes.  What a trap writes to its CSRs *)
(* is Hart's matter, and any value here; the counting of the counters is   *)
(* Counters', and they are read and written by CSR instructions only.      *)
(***************************************************************************)
EXTENDS Integers

CONSTANTS
  XLEN,       \* bits of a register, 32 in the code
  Word,       \* values of a register
  Registers,  \* numbers of registers, with 0
  CsrNames    \* the CSRs that software uses

URO == {"cycle", "time", "instret", "cycleh", "timeh", "instreth"}
SRW == {"sstatus", "sie", "stvec", "scounteren", "sscratch",
        "sepc", "scause", "stval", "sip", "satp"}

\* The CSRs that handleException writes.
TrapCsrs == {"sstatus", "sepc", "scause", "stval"}

\* The fields cy, tm and ir.
CounterBit == [c \in URO |-> CASE c \in {"cycle", "cycleh"} -> 0
                               [] c \in {"time", "timeh"} -> 1
                               [] c \in {"instret", "instreth"} -> 2]

ASSUME CsrAccessAssumption ==
  /\ XLEN \in Nat
  /\ Word = 2^XLEN
  /\ Word \in Nat \ {0}
  /\ Registers \subseteq 0 .. (Word - 1)
  /\ 0 \in Registers
  /\ CsrNames \subseteq URO \cup SRW
  /\ "scounteren" \in CsrNames
  /\ \A c \in CsrNames \cap URO : CounterBit[c] \in 0 .. (XLEN - 1)

VARIABLES
  gpr,
  csr,
  supervisorMode,
  phase  \* "ready" for a CSR instruction, "done" with it, or "stopped"

vars == <<gpr, csr, supervisorMode, phase>>

WordValue == 0 .. (Word - 1)
CsrOps    == {"CSRRW", "CSRRS", "CSRRC", "CSRRWI", "CSRRSI", "CSRRCI"}

TypeOK ==
  /\ gpr \in [Registers -> WordValue]
  /\ gpr[0] = 0
  /\ csr \in [CsrNames -> WordValue]
  /\ supervisorMode \in BOOLEAN
  /\ phase \in {"ready", "done", "stopped"}

Init ==
  /\ gpr \in [Registers -> WordValue]
  /\ gpr[0] = 0
  /\ csr \in [CsrNames -> WordValue]
  /\ supervisorMode = TRUE
  /\ phase = "ready"

-----------------------------------------------------------------------------
\* A setRegister that does not clear x0.
With_KeepsZero(g, rd, v) == [g EXCEPT ![rd] = v]

\* setRegister, on registers g.
With(g, rd, v) == [g EXCEPT ![rd] = v, ![0] = 0]

\* The bits of every word that are 1.
BitsOf == [v \in WordValue |-> {i \in 0 .. (XLEN - 1) : (v \div 2^i) % 2 = 1}]
Bits(v) == BitsOf[v]

\* Checks of scounteren that forget the high halves of the counters.
Refused_LowHalves(c) ==
  /\ ~supervisorMode
  /\ \/ c \in SRW
     \/ /\ c \in {"cycle", "time", "instret"}
        /\ CounterBit[c] \notin Bits(csr["scounteren"])

\* readcheck, and the checks of scounteren.
Refused(c) ==
  /\ ~supervisorMode
  /\ \/ c \in SRW
     \/ c \in URO /\ CounterBit[c] \notin Bits(csr["scounteren"])

\* permissionCheck1 and permissionCheck2.  The second looks at what the
\* register rs1 holds, in the forms with an immediate too, where rs1 is the
\* immediate.
ReadOnly(op, c, rs1) ==
  /\ c \in URO
  /\ op \in {"CSRRW", "CSRRWI"} \/ gpr[rs1] # 0

Operand(op, rs1) ==
  IF op \in {"CSRRWI", "CSRRSI", "CSRRCI"} THEN rs1 ELSE gpr[rs1]

\* What op writes, in a set of its own.
Results(op, old, x) ==
  CASE op \in {"CSRRW", "CSRRWI"} -> {x}
    [] op \in {"CSRRS", "CSRRSI"} ->
         {v \in WordValue : Bits(v) = Bits(old) \cup Bits(x)}
    [] op \in {"CSRRC", "CSRRCI"} ->
         {v \in WordValue : Bits(v) = Bits(old) \ Bits(x)}

\* What traps and returns write, a value of Hart's.
TrapsWrite ==
  \E new \in [TrapCsrs \cap CsrNames -> WordValue] :
    csr' = [c \in CsrNames |-> IF c \in TrapCsrs THEN new[c] ELSE csr[c]]

\* handleException, as far as this state goes.
Illegal == supervisorMode' = TRUE /\ TrapsWrite

\* The refusals before rd is written, and after.
Refuse(op, c, rd, rs1) ==
  /\ phase = "ready"
  /\ \/ Refused(c) /\ UNCHANGED gpr
     \/ /\ ~Refused(c)
        /\ ReadOnly(op, c, rs1)
        /\ gpr' = With(gpr, rd, csr[c])
  /\ Illegal
  /\ phase' = "done"

\* rs1 is read before rd is written.
Access_OperandAfterRd(op, c, rd, rs1) ==
  /\ phase = "ready"
  /\ ~Refused(c)
  /\ ~ReadOnly(op, c, rs1)
  /\ gpr' = With(gpr, rd, csr[c])
  /\ \E new \in Results(op, csr[c], IF op \in {"CSRRWI", "CSRRSI", "CSRRCI"}
                                    THEN rs1 ELSE gpr'[rs1]) :
       csr' = [csr EXCEPT ![c] = new]
  /\ phase' = "done"
  /\ UNCHANGED supervisorMode

Access(op, c, rd, rs1) ==
  /\ phase = "ready"
  /\ ~Refused(c)
  /\ ~ReadOnly(op, c, rs1)
  /\ gpr' = With(gpr, rd, csr[c])
  /\ \E new \in Results(op, csr[c], Operand(op, rs1)) :
       csr' = [csr EXCEPT ![c] = new]
  /\ phase' = "done"
  /\ UNCHANGED supervisorMode

\* getAccessType throws for any other CSR, whatever the mode.
UnknownCsr ==
  /\ phase = "ready"
  /\ phase' = "stopped"
  /\ UNCHANGED <<gpr, csr, supervisorMode>>

\* Instructions of other kinds, interrupts and returns.
Software ==
  /\ phase = "done"
  /\ phase' = "ready"
  /\ gpr' \in {g \in [Registers -> WordValue] : g[0] = 0}
  /\ supervisorMode' \in BOOLEAN
  /\ TrapsWrite

CsrInstruction ==
  \E op \in CsrOps, c \in CsrNames, rd, rs1 \in Registers :
    Refuse(op, c, rd, rs1) \/ Access(op, c, rd, rs1)

Next == CsrInstruction \/ UnknownCsr \/ Software

Spec == Init /\ [][Next]_vars

-----------------------------------------------------------------------------
(* Properties *)

\* With any software, a CSR instruction is one of four things, each in one
\* piece and with the operand as it was before: the exchange that the ISA
\* permits; its trap; or one of the two departures that Zicsr names, the trap
\* that leaves a counter's value in rd and the write to a counter that is
\* overlooked because a register holds 0.  About the order of reading,
\* checking and writing in hart.cpp:500-571, and the checks of mode and
\* scounteren, which nothing gets past.
ZicsrSpec == INSTANCE Zicsr WITH Counters <- URO

ImplementsZicsr == ZicsrSpec!Spec

\* Each CSR instruction that is carried out does the ISA's exchange of its
\* own name and registers: rd gets the old value, the CSR what the operand
\* before the instruction makes of it, also when rd is rs1, rd is x0, or the
\* CSR is the one that permits.  About hart.cpp:498-571.  (The condition on
\* gpr is Access's own, and spares TLC the other instructions.)
ExchangesAsNamed ==
  [][\A c \in CsrNames, rd \in Registers :
       phase = "ready" /\ gpr' = With(gpr, rd, csr[c])
         => \A op \in CsrOps, rs1 \in Registers :
              Access(op, c, rd, rs1) => ZicsrSpec!Exchange(op, c, rd, rs1)]_vars

\* The counters that scounteren lets the user read.
Granted == {c \in CsrNames \cap URO : CounterBit[c] \in Bits(csr["scounteren"])}

\* Whatever software does, the writes that the checks overlook and the traps
\* that come after the read included: a CSR instruction of the user shows it
\* no CSR but a counter that the supervisor grants it, and changes no other,
\* unless by a trap, which changes the trap's own.  About the checks in three
\* places of hart.cpp:500-571, each of which one operation or another gets
\* past.
UserKeptToGranted ==
  [][~supervisorMode /\ phase = "ready" =>
       /\ \A c \in CsrNames :
            csr'[c] # csr[c] => c \in Granted \/ (c \in TrapCsrs /\ supervisorMode')
       /\ \A r \in Registers :
            gpr'[r] # gpr[r] => \E c \in Granted : gpr'[r] = csr[c]]_vars

\* No instruction changes a counter, which is read-only (csr.hpp:155).
ReadOnlyKept ==
  [][\A c \in CsrNames \cap URO : csr'[c] = csr[c]]_vars
=============================================================================
