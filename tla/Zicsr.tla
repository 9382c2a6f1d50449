------------------------------- MODULE Zicsr -------------------------------
(***************************************************************************)
(* What the CSR instructions promise: one of them either is permitted, and *)
(* exchanges a register and a CSR in one piece, or traps and changes       *)
(* neither.  Whether it is permitted depends on the mode, on scounteren    *)
(* and on the instruction, not on what a register holds.  Two actions say  *)
(* where this hart departs from that, and how far.                         *)
(***************************************************************************)
EXTENDS Integers

CONSTANTS XLEN, Word, Registers, CsrNames, CsrOps,
          Counters,    \* the CSRs that may only be read
          TrapCsrs,    \* the CSRs that a trap writes
          CounterBit   \* the bit of scounteren for each counter

VARIABLES
  gpr,
  csr,
  supervisorMode,
  phase   \* "ready" for a CSR instruction, "done" with it, or "stopped"

Bit(v, i) == (v \div 2^i) % 2 = 1

\* CSRRS and CSRRC with x0, and their immediate forms with 0, write nothing.
Writes(op, rs1) == op \in {"CSRRW", "CSRRWI"} \/ rs1 # 0

Readable(c) ==
  supervisorMode \/ (c \in Counters /\ Bit(csr["scounteren"], CounterBit[c]))

Permitted(op, c, rs1) ==
  Readable(c) /\ (c \in Counters => ~Writes(op, rs1))

\* Bit by bit, what op makes of a CSR and its operand x.
Makes(op, old, x, new) ==
  \A i \in 0 .. (XLEN - 1) :
    Bit(new, i) <=> CASE op \in {"CSRRW", "CSRRWI"} -> Bit(x, i)
                      [] op \in {"CSRRS", "CSRRSI"} -> Bit(old, i) \/ Bit(x, i)
                      [] op \in {"CSRRC", "CSRRCI"} -> Bit(old, i) /\ ~Bit(x, i)

Operand(op, rs1) ==
  IF op \in {"CSRRWI", "CSRRSI", "CSRRCI"} THEN rs1 ELSE gpr[rs1]

Init ==
  /\ gpr \in [Registers -> 0 .. (Word - 1)]
  /\ gpr[0] = 0
  /\ csr \in [CsrNames -> 0 .. (Word - 1)]
  /\ supervisorMode = TRUE
  /\ phase = "ready"

\* rd receives the old value of c.
Receives(rd, c) == gpr' = [gpr EXCEPT ![rd] = IF rd = 0 THEN 0 ELSE csr[c]]

\* c becomes what op makes of it, and no other CSR changes.
Becomes(op, c, rs1) ==
  /\ UNCHANGED supervisorMode
  /\ csr' = [csr EXCEPT ![c] = csr'[c]]
  /\ csr'[c] \in 0 .. (Word - 1)
  /\ Makes(op, csr[c], Operand(op, rs1), csr'[c])

Exchange(op, c, rd, rs1) == Receives(rd, c) /\ Becomes(op, c, rs1)

TrapsWrite ==
  /\ csr' \in [CsrNames -> 0 .. (Word - 1)]
  /\ \A c \in CsrNames \ TrapCsrs : csr'[c] = csr[c]

EnterTrap == supervisorMode' = TRUE /\ TrapsWrite

Trap == EnterTrap /\ UNCHANGED gpr

\* A departure: the trap of a write to a counter that may be read comes after
\* rd has received the counter.
TrapAfterRead(c) == c \in Counters /\ Readable(c) /\ EnterTrap

\* A departure: a write to a counter that may be read is overlooked when the
\* register of the number rs1 holds 0.
OverlookedWrite(op, c, rs1) ==
  /\ c \in Counters /\ Readable(c)
  /\ op \notin {"CSRRW", "CSRRWI"}
  /\ gpr[rs1] = 0
  /\ Becomes(op, c, rs1)

CsrInstruction ==
  /\ phase = "ready"
  /\ phase' = "done"
  /\ \/ \E c \in CsrNames, rd \in Registers :
          /\ Receives(rd, c)
          /\ \/ TrapAfterRead(c)
             \/ \E op \in CsrOps, rs1 \in Registers :
                  \/ Permitted(op, c, rs1) /\ Becomes(op, c, rs1)
                  \/ OverlookedWrite(op, c, rs1)
     \/ Trap /\ \E op \in CsrOps, c \in CsrNames, rs1 \in Registers :
                   ~Permitted(op, c, rs1)

\* Everything else that software does, with the traps that it meets.
Software ==
  /\ phase = "done"
  /\ phase' = "ready"
  /\ gpr' \in [Registers -> 0 .. (Word - 1)]
  /\ gpr'[0] = 0
  /\ supervisorMode' \in BOOLEAN
  /\ TrapsWrite

\* A CSR that does not exist.
Stop ==
  /\ phase = "ready"
  /\ phase' = "stopped"
  /\ UNCHANGED <<gpr, csr, supervisorMode>>

Next == CsrInstruction \/ Software \/ Stop

Spec == Init /\ [][Next]_<<gpr, csr, supervisorMode, phase>>
=============================================================================
