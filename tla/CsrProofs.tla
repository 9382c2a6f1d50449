----------------------------- MODULE CsrProofs -----------------------------
(***************************************************************************)
(* Proofs about CsrAccess, for every width, every set of registers and     *)
(* every set of CSRs.                                                      *)
(***************************************************************************)
EXTENDS CsrAccess, TLAPS

LEMMA WithType ==
  ASSUME NEW g \in [Registers -> WordValue], NEW rd \in Registers,
         NEW v \in WordValue
  PROVE  /\ With(g, rd, v) \in [Registers -> WordValue]
         /\ With(g, rd, v)[0] = 0
BY CsrAccessAssumption DEF With, WordValue

\* setRegister on registers with x0 = 0, as the ISA has it.
LEMMA WithIsWrite ==
  ASSUME NEW g \in [Registers -> WordValue], g[0] = 0, NEW rd \in Registers,
         NEW v \in WordValue
  PROVE  With(g, rd, v) = [g EXCEPT ![rd] = IF rd = 0 THEN 0 ELSE v]
BY CsrAccessAssumption DEF With

LEMMA ResultsInRange ==
  ASSUME NEW op \in CsrOps, NEW old \in WordValue, NEW x \in WordValue,
         NEW new \in Results(op, old, x)
  PROVE  new \in WordValue
BY DEF Results, CsrOps

LEMMA OperandInRange ==
  ASSUME TypeOK, NEW op \in CsrOps, NEW rs1 \in Registers
  PROVE  Operand(op, rs1) \in WordValue
BY CsrAccessAssumption DEF TypeOK, Operand, WordValue

LEMMA TrapsWriteType ==
  ASSUME TypeOK, TrapsWrite
  PROVE  /\ csr' \in [CsrNames -> WordValue]
         /\ \A c \in CsrNames \ TrapCsrs : csr'[c] = csr[c]
<1>1. PICK new \in [TrapCsrs \cap CsrNames -> WordValue] :
        csr' = [c \in CsrNames |-> IF c \in TrapCsrs THEN new[c] ELSE csr[c]]
  BY DEF TrapsWrite
<1> QED
  BY <1>1 DEF TypeOK

LEMMA RefuseType ==
  ASSUME TypeOK, NEW op \in CsrOps, NEW c \in CsrNames, NEW rd \in Registers,
         NEW rs1 \in Registers, Refuse(op, c, rd, rs1)
  PROVE  TypeOK'
<1>1. csr[c] \in WordValue
  BY DEF TypeOK
<1>2. gpr' = gpr \/ gpr' = With(gpr, rd, csr[c])
  <2>1. CASE Refused(c)
    BY <2>1 DEF Refuse
  <2>2. CASE ~Refused(c)
    BY <2>2 DEF Refuse
  <2> QED
    BY <2>1, <2>2
<1>3. gpr' \in [Registers -> WordValue] /\ gpr'[0] = 0
  <2>1. gpr \in [Registers -> WordValue] /\ gpr[0] = 0
    BY DEF TypeOK
  <2>2. /\ With(gpr, rd, csr[c]) \in [Registers -> WordValue]
        /\ With(gpr, rd, csr[c])[0] = 0
    BY <1>1, <2>1, WithType
  <2> QED
    BY <1>2, <2>1, <2>2
<1>4. /\ csr' \in [CsrNames -> WordValue]
      /\ supervisorMode' = TRUE /\ phase' = "done"
  BY TrapsWriteType DEF Refuse, Illegal
<1> QED
  BY <1>3, <1>4 DEF TypeOK

LEMMA TypeStep == TypeOK /\ [Next]_vars => TypeOK'
<1> SUFFICES ASSUME TypeOK, [Next]_vars PROVE TypeOK'
  OBVIOUS
<1>1. ASSUME NEW op \in CsrOps, NEW c \in CsrNames, NEW rd \in Registers,
             NEW rs1 \in Registers, Refuse(op, c, rd, rs1)
      PROVE  TypeOK'
  BY <1>1, RefuseType
<1>2. ASSUME NEW op \in CsrOps, NEW c \in CsrNames, NEW rd \in Registers,
             NEW rs1 \in Registers, Access(op, c, rd, rs1)
      PROVE  TypeOK'
  <2>1. csr[c] \in WordValue
    BY DEF TypeOK
  <2>2. gpr' \in [Registers -> WordValue] /\ gpr'[0] = 0
    BY <1>2, <2>1, WithType DEF TypeOK, Access
  <2>3. PICK new \in Results(op, csr[c], Operand(op, rs1)) :
          csr' = [csr EXCEPT ![c] = new]
    BY <1>2 DEF Access
  <2>4. new \in WordValue
    BY <2>1, OperandInRange, ResultsInRange
  <2>5. csr' \in [CsrNames -> WordValue]
    BY <2>3, <2>4 DEF TypeOK
  <2> QED
    BY <1>2, <2>2, <2>5 DEF TypeOK, Access
<1>3. CASE UnknownCsr
  BY <1>3 DEF UnknownCsr, TypeOK
<1>4. CASE Software
  BY <1>4, TrapsWriteType DEF Software, TypeOK
<1>5. CASE UNCHANGED vars
  BY <1>5 DEF vars, TypeOK
<1> QED
  BY <1>1, <1>2, <1>3, <1>4, <1>5 DEF Next, CsrInstruction

\* CSRs and registers stay words and x0 stays 0, whatever software does.
THEOREM CsrTypeCorrect == Spec => []TypeOK
<1>1. Init => TypeOK
  BY DEF Init, TypeOK
<1> QED
  BY <1>1, TypeStep, PTL DEF Spec

-----------------------------------------------------------------------------
(* What the user can do with any CSR instruction *)

LEMMA NotRefusedIsGranted ==
  ASSUME ~supervisorMode, NEW c \in CsrNames, ~Refused(c)
  PROVE  c \in Granted
BY CsrAccessAssumption DEF Refused, Granted

\* rd gets the old value, or x0 nothing.
LEMMA WithChanges ==
  ASSUME NEW g \in [Registers -> WordValue], g[0] = 0, NEW rd \in Registers,
         NEW v \in WordValue, NEW r \in Registers, With(g, rd, v)[r] # g[r]
  PROVE  With(g, rd, v)[r] = v
BY CsrAccessAssumption DEF With

\* For any software, the user's CSR instructions reach no CSR but the counters
\* it is granted: the supervisor's are safe from the checks that go wrong.
THEOREM UserReachesGranted == Spec => UserKeptToGranted
<1> DEFINE Kept ==
      ~supervisorMode /\ phase = "ready" =>
        /\ \A c \in CsrNames :
             csr'[c] # csr[c] => c \in Granted \/ (c \in TrapCsrs /\ supervisorMode')
        /\ \A r \in Registers :
             gpr'[r] # gpr[r] => \E c \in Granted : gpr'[r] = csr[c]
<1>1. TypeOK /\ [Next]_vars => [Kept]_vars
  <2> SUFFICES ASSUME TypeOK, [Next]_vars, ~supervisorMode, phase = "ready"
               PROVE  Kept
    OBVIOUS
  <2>1. /\ gpr \in [Registers -> WordValue] /\ gpr[0] = 0
        /\ \A c \in CsrNames : csr[c] \in WordValue
    BY DEF TypeOK
  <2>2. ASSUME NEW c \in CsrNames, NEW rd \in Registers, ~Refused(c),
               gpr' = With(gpr, rd, csr[c]),
               \A d \in CsrNames :
                 csr'[d] # csr[d] => d = c \/ (d \in TrapCsrs /\ supervisorMode')
        PROVE  Kept
    <3>1. c \in Granted
      BY <2>2, NotRefusedIsGranted
    <3>2. \A r \in Registers : gpr'[r] # gpr[r] => gpr'[r] = csr[c]
      BY <2>1, <2>2, WithChanges
    <3> QED
      BY <2>2, <3>1, <3>2
  <2>3. CASE gpr' = gpr /\ csr' = csr
    BY <2>3
  <2>4. ASSUME NEW op \in CsrOps, NEW c \in CsrNames, NEW rd \in Registers,
               NEW rs1 \in Registers, Refuse(op, c, rd, rs1)
        PROVE  Kept
    <3>1. \A d \in CsrNames :
            csr'[d] # csr[d] => d \in TrapCsrs /\ supervisorMode'
      BY <2>4, TrapsWriteType DEF Refuse, Illegal
    <3>2. CASE Refused(c)
      <4>1. gpr' = gpr
        BY <2>4, <3>2 DEF Refuse
      <4> QED
        BY <3>1, <4>1
    <3>3. CASE ~Refused(c)
      BY <2>2, <2>4, <3>1, <3>3 DEF Refuse
    <3> QED
      BY <3>2, <3>3
  <2>5. ASSUME NEW op \in CsrOps, NEW c \in CsrNames, NEW rd \in Registers,
               NEW rs1 \in Registers, Access(op, c, rd, rs1)
        PROVE  Kept
    <3>1. PICK new : csr' = [csr EXCEPT ![c] = new]
      BY <2>5 DEF Access
    <3>2. \A d \in CsrNames : csr'[d] # csr[d] => d = c
      BY <3>1 DEF TypeOK
    <3> QED
      BY <2>2, <2>5, <3>2 DEF Access
  <2>6. CASE UnknownCsr \/ UNCHANGED vars
    BY <2>3, <2>6 DEF UnknownCsr, vars
  <2>7. ~Software
    BY DEF Software
  <2> HIDE DEF Kept
  <2> QED
    BY <2>4, <2>5, <2>6, <2>7 DEF Next, CsrInstruction
<1> QED
  BY <1>1, CsrTypeCorrect, PTL DEF Spec, UserKeptToGranted

-----------------------------------------------------------------------------
(* The refinement *)

LEMMA BitsAre ==
  ASSUME NEW v \in WordValue, NEW i \in 0 .. (XLEN - 1)
  PROVE  i \in Bits(v) <=> ZicsrSpec!Bit(v, i)
BY DEF Bits, BitsOf, ZicsrSpec!Bit

\* What the hart refuses before it reads is what may not be read.
LEMMA RefusedUnreadable ==
  ASSUME TypeOK, NEW c \in CsrNames
  PROVE  Refused(c) <=> ~ZicsrSpec!Readable(c)
<1>1. c \in URO \cup SRW /\ URO \cap SRW = {}
  BY CsrAccessAssumption DEF URO, SRW
<1>2. ASSUME c \in URO
      PROVE  CounterBit[c] \notin Bits(csr["scounteren"])
               <=> ~ZicsrSpec!Bit(csr["scounteren"], CounterBit[c])
  <2>1. CounterBit[c] \in 0 .. (XLEN - 1) /\ csr["scounteren"] \in WordValue
    BY <1>2, CsrAccessAssumption DEF TypeOK
  <2> HIDE DEF CounterBit
  <2> QED
    BY <2>1, BitsAre
<1> QED
  BY <1>1, <1>2 DEF Refused, ZicsrSpec!Readable

\* The later checks refuse only what the ISA refuses, as x0 holds 0; and what
\* they let pass although the ISA refuses it has a register rs1 that holds 0.
LEMMA LaterChecks ==
  ASSUME TypeOK, NEW op \in CsrOps, NEW c \in CsrNames, NEW rs1 \in Registers,
         ZicsrSpec!Readable(c)
  PROVE  /\ ReadOnly(op, c, rs1) => c \in URO /\ ~ZicsrSpec!Permitted(op, c, rs1)
         /\ ~ReadOnly(op, c, rs1) =>
              \/ ZicsrSpec!Permitted(op, c, rs1)
              \/ c \in URO /\ op \notin {"CSRRW", "CSRRWI"} /\ gpr[rs1] = 0
BY DEF TypeOK, ReadOnly, ZicsrSpec!Permitted, ZicsrSpec!Writes

LEMMA BitsOfUnion ==
  ASSUME NEW v \in WordValue, NEW old \in WordValue, NEW x \in WordValue,
         NEW i \in 0 .. (XLEN - 1)
  PROVE  /\ Bits(v) = Bits(old) \cup Bits(x) =>
              (ZicsrSpec!Bit(v, i) <=> ZicsrSpec!Bit(old, i) \/ ZicsrSpec!Bit(x, i))
         /\ Bits(v) = Bits(old) \ Bits(x) =>
              (ZicsrSpec!Bit(v, i) <=> ZicsrSpec!Bit(old, i) /\ ~ZicsrSpec!Bit(x, i))
<1>1. \A w \in WordValue : i \in Bits(w) <=> ZicsrSpec!Bit(w, i)
  BY BitsAre
<1> QED
  BY <1>1

\* The sets of bits that the code combines are what the ISA says bit by bit.
LEMMA ResultsAreMade ==
  ASSUME NEW op \in CsrOps, NEW old \in WordValue, NEW x \in WordValue,
         NEW new \in Results(op, old, x)
  PROVE  ZicsrSpec!Makes(op, old, x, new)
<1>1. CASE op \in {"CSRRW", "CSRRWI"}
  <2>1. new = x
    BY <1>1 DEF Results
  <2> QED
    BY <1>1, <2>1 DEF ZicsrSpec!Makes
<1>2. CASE op \in {"CSRRS", "CSRRSI"}
  <2>1. new \in WordValue /\ Bits(new) = Bits(old) \cup Bits(x)
    BY <1>2 DEF Results
  <2> QED
    BY <1>2, <2>1, BitsOfUnion DEF ZicsrSpec!Makes
<1>3. CASE op \in {"CSRRC", "CSRRCI"}
  <2>1. new \in WordValue /\ Bits(new) = Bits(old) \ Bits(x)
    BY <1>3 DEF Results
  <2> QED
    BY <1>3, <2>1, BitsOfUnion DEF ZicsrSpec!Makes
<1> QED
  BY <1>1, <1>2, <1>3 DEF CsrOps

LEMMA IllegalTraps ==
  ASSUME TypeOK, Illegal PROVE ZicsrSpec!EnterTrap
BY TrapsWriteType DEF Illegal, ZicsrSpec!EnterTrap, ZicsrSpec!TrapsWrite, WordValue

LEMMA ReadReceives ==
  ASSUME TypeOK, NEW c \in CsrNames, NEW rd \in Registers,
         gpr' = With(gpr, rd, csr[c])
  PROVE  ZicsrSpec!Receives(rd, c)
<1>1. csr[c] \in WordValue /\ gpr \in [Registers -> WordValue] /\ gpr[0] = 0
  BY DEF TypeOK
<1> QED
  BY <1>1, WithIsWrite DEF ZicsrSpec!Receives

LEMMA RefuseTraps ==
  ASSUME TypeOK, NEW op \in CsrOps, NEW c \in CsrNames,
         NEW rd \in Registers, NEW rs1 \in Registers, Refuse(op, c, rd, rs1)
  PROVE  \/ ZicsrSpec!Trap /\ ~ZicsrSpec!Permitted(op, c, rs1)
         \/ ZicsrSpec!Receives(rd, c) /\ ZicsrSpec!TrapAfterRead(c)
<1>1. ZicsrSpec!EnterTrap
  BY IllegalTraps DEF Refuse
<1>2. CASE Refused(c)
  <2>1. ~ZicsrSpec!Permitted(op, c, rs1)
    BY <1>2, RefusedUnreadable DEF ZicsrSpec!Permitted
  <2>2. gpr' = gpr
    BY <1>2 DEF Refuse
  <2> QED
    BY <1>1, <2>1, <2>2 DEF ZicsrSpec!Trap
<1>3. CASE ~Refused(c)
  <2>1. ReadOnly(op, c, rs1) /\ gpr' = With(gpr, rd, csr[c])
    BY <1>3 DEF Refuse
  <2>2. ZicsrSpec!Readable(c) /\ c \in URO
    BY <1>3, <2>1, RefusedUnreadable DEF ReadOnly
  <2> QED
    BY <1>1, <2>1, <2>2, ReadReceives DEF ZicsrSpec!TrapAfterRead
<1> QED
  BY <1>2, <1>3

LEMMA AccessExchanges ==
  ASSUME TypeOK, NEW op \in CsrOps, NEW c \in CsrNames,
         NEW rd \in Registers, NEW rs1 \in Registers, Access(op, c, rd, rs1)
  PROVE  ZicsrSpec!Exchange(op, c, rd, rs1)
<1>1. csr[c] \in WordValue /\ csr \in [CsrNames -> WordValue]
  BY DEF TypeOK
<1>2. ZicsrSpec!Receives(rd, c)
  BY ReadReceives DEF Access
<1>3. PICK new \in Results(op, csr[c], Operand(op, rs1)) :
        csr' = [csr EXCEPT ![c] = new]
  BY DEF Access
<1>4. new \in WordValue
  BY <1>1, OperandInRange, ResultsInRange
<1>5. ZicsrSpec!Makes(op, csr[c], Operand(op, rs1), new)
  BY <1>1, OperandInRange, ResultsAreMade
<1>6. Operand(op, rs1) = ZicsrSpec!Operand(op, rs1)
  BY DEF Operand, ZicsrSpec!Operand
<1>7. csr'[c] = new /\ csr' = [csr EXCEPT ![c] = csr'[c]]
  BY <1>1, <1>3
<1>8. supervisorMode' = supervisorMode
  BY DEF Access
<1>9. ZicsrSpec!Becomes(op, c, rs1)
  BY <1>4, <1>5, <1>6, <1>7, <1>8 DEF ZicsrSpec!Becomes, WordValue
<1> QED
  BY <1>2, <1>9 DEF ZicsrSpec!Exchange

\* Each instruction that is carried out is the exchange of its name, whatever
\* software does.
THEOREM ExchangesAsNamedProved == Spec => ExchangesAsNamed
<1> DEFINE Named == \A c \in CsrNames, rd \in Registers :
                      phase = "ready" /\ gpr' = With(gpr, rd, csr[c])
                        => \A op \in CsrOps, rs1 \in Registers :
                             Access(op, c, rd, rs1)
                               => ZicsrSpec!Exchange(op, c, rd, rs1)
<1>1. TypeOK => Named
  BY AccessExchanges
<1>2. TypeOK /\ [Next]_vars => [Named]_vars
  BY <1>1
<1> HIDE DEF Named
<1>3. Spec => [][Named]_vars
  BY <1>2, CsrTypeCorrect, PTL DEF Spec
<1> QED
  BY <1>3 DEF Named, ExchangesAsNamed

\* For every width and every set of CSRs, and whatever software does, a CSR
\* instruction is an exchange, a trap, or one of the two departures that
\* Zicsr names: no third way past the checks, and no other trace of a refused
\* instruction.
THEOREM CsrAccessImplementsZicsr == Spec => ImplementsZicsr
<1>1. Init => ZicsrSpec!Init
  BY DEF Init, ZicsrSpec!Init, WordValue
<1>2. TypeOK /\ [Next]_vars
        => [ZicsrSpec!Next]_<<gpr, csr, supervisorMode, phase>>
  <2> SUFFICES ASSUME TypeOK, [Next]_vars
               PROVE  [ZicsrSpec!Next]_<<gpr, csr, supervisorMode, phase>>
    OBVIOUS
  <2>1. ASSUME NEW op \in CsrOps, NEW c \in CsrNames, NEW rd \in Registers,
               NEW rs1 \in Registers, Refuse(op, c, rd, rs1)
        PROVE  ZicsrSpec!CsrInstruction
    <3>1. \/ ZicsrSpec!Trap /\ ~ZicsrSpec!Permitted(op, c, rs1)
          \/ ZicsrSpec!Receives(rd, c) /\ ZicsrSpec!TrapAfterRead(c)
      BY <2>1, RefuseTraps
    <3>2. phase = "ready" /\ phase' = "done"
      BY <2>1 DEF Refuse
    <3> QED
      BY <3>1, <3>2 DEF ZicsrSpec!CsrInstruction
  <2>2. ASSUME NEW op \in CsrOps, NEW c \in CsrNames, NEW rd \in Registers,
               NEW rs1 \in Registers, Access(op, c, rd, rs1)
        PROVE  ZicsrSpec!CsrInstruction
    <3>1. ZicsrSpec!Receives(rd, c) /\ ZicsrSpec!Becomes(op, c, rs1)
      BY <2>2, AccessExchanges DEF ZicsrSpec!Exchange
    <3>3. \/ ZicsrSpec!Permitted(op, c, rs1)
          \/ ZicsrSpec!OverlookedWrite(op, c, rs1)
      <4>1. ~Refused(c) /\ ~ReadOnly(op, c, rs1)
        BY <2>2 DEF Access
      <4> QED
        BY <3>1, <4>1, RefusedUnreadable, LaterChecks DEF ZicsrSpec!OverlookedWrite
    <3>2. phase = "ready" /\ phase' = "done"
      BY <2>2 DEF Access
    <3> QED
      BY <3>1, <3>2, <3>3 DEF ZicsrSpec!CsrInstruction
  <2>3. CASE UnknownCsr
    BY <2>3 DEF UnknownCsr, ZicsrSpec!Next, ZicsrSpec!Stop
  <2>4. CASE Software
    <3>1. ZicsrSpec!Software
      BY <2>4, TrapsWriteType DEF Software, ZicsrSpec!Software,
                                  ZicsrSpec!TrapsWrite, WordValue
    <3> QED
      BY <3>1 DEF ZicsrSpec!Next
  <2>5. CASE UNCHANGED vars
    BY <2>5 DEF vars
  <2> QED
    BY <2>1, <2>2, <2>3, <2>4, <2>5 DEF Next, CsrInstruction, ZicsrSpec!Next
<1> QED
  BY <1>1, <1>2, CsrTypeCorrect, PTL DEF Spec, ImplementsZicsr, ZicsrSpec!Spec
=============================================================================
