---------------------------- MODULE Instructions ----------------------------
(***************************************************************************)
(* The instructions that compute and branch: OP, OP_IMM, OP_UI, BRANCH and *)
(* JUMP in stepInstruction, from the fetched word to the registers and the *)
(* pc.  A program is any sequence of Words.  What instructions of the      *)
(* other types do to this state is in Accesses, CsrAccess and Hart; here   *)
(* they are decoded, and may write a register.                             *)
(***************************************************************************)
EXTENDS Decode

CONSTANTS
  XLEN,       \* bits of a register, 32 in the code
  Word,       \* values of a register
  Registers,  \* numbers of registers, with 0
  Words,      \* the instructions that programs consist of
  OtherResults  \* what an instruction of another type may leave in rd

\* The registers that an instruction of these types names.
Reads(instr) ==
  CASE decodeInstructionType(instr) \in {"OP", "BRANCH"} -> {instr.rs1, instr.rs2}
    [] decodeInstructionType(instr) = "OP_IMM" -> {instr.rs1}
    [] decodeOpcode(instr) = "JALR" -> {instr.rs1}
    [] OTHER -> {}

NoDestination == {"BRANCH", "STORE", "OP_FENCE", Unknown}

ASSUME InstructionsAssumption ==
  /\ XLEN \in Nat \ {0}
  /\ Word = 2^XLEN
  /\ Word \in Nat \ {0}
  /\ Word % 8 = 0
  /\ Registers \subseteq Nat
  /\ 0 \in Registers
  /\ Words \subseteq Instruction
  /\ Words # {}
  /\ \A w \in Words :
       /\ Reads(w) \subseteq Registers
       /\ decodeInstructionType(w) \notin NoDestination => w.rd \in Registers
       /\ decodeOpcode(w) \in {"SLLI", "SRLI", "SRAI"} => w.rs2 < XLEN
  /\ OtherResults \subseteq 0 .. (Word - 1)

\* What arithmetic has as laws and the provers do not know.
ASSUME PowersAssumption ==
  /\ \A k \in 0 .. XLEN : 2^k \in Nat \ {0}
  /\ \A i, j \in 0 .. XLEN : i + j <= XLEN => 2^(i + j) = 2^i * 2^j

VARIABLES
  pc,
  gpr,
  instr,   \* the word fetched
  opcode,  \* what it is decoded as
  stage    \* "fetch", "execute" or "stopped"

vars == <<pc, gpr, instr, opcode, stage>>

WordValue == 0 .. (Word - 1)

\* Between two instructions there is none; a fixed word stands for that.
NoInstruction == CHOOSE w \in Words : TRUE

TypeOK ==
  /\ pc \in WordValue
  /\ gpr \in [Registers -> WordValue]
  /\ gpr[0] = 0
  /\ instr \in Words
  /\ opcode = IF stage = "fetch" THEN Unknown ELSE decodeOpcode(instr)
  /\ stage \in {"fetch", "execute", "stopped"}

Init ==
  /\ pc = 0
  /\ gpr = [r \in Registers |-> 0]
  /\ instr = NoInstruction
  /\ opcode = Unknown
  /\ stage = "fetch"

-----------------------------------------------------------------------------
(* Results *)

Int32(v) == IF 2 * v < Word THEN v ELSE v - Word

Flag(b) == IF b THEN 1 ELSE 0

Bits(v) == {i \in 0 .. (XLEN - 1) : (v \div 2^i) % 2 = 1}

WithBits(bits) == {v \in WordValue : Bits(v) = bits}

\* The division of C++, which rounds towards 0; b is not 0.
Quotient(a, b) ==
  LET Size(v) == IF v < 0 THEN -v ELSE v
      q == Size(a) \div Size(b)
  IN  IF (a < 0) = (b < 0) THEN q ELSE -q

Remainder(a, b) == a - b * Quotient(a, b)

MostNegative == Word \div 2
AllOnes      == Word - 1

\* The most negative number by -1 has a case of its own: C++ leaves that
\* quotient, which is out of range, undefined.
Divide(op, a, b) ==
  CASE op = "DIV"  -> (CASE a = MostNegative /\ b = AllOnes -> a
                         [] b = 0 -> AllOnes
                         [] OTHER -> Quotient(Int32(a), Int32(b)) % Word)
    [] op = "DIVU" -> IF b # 0 THEN a \div b ELSE AllOnes
    [] op = "REM"  -> (CASE a = MostNegative /\ b = AllOnes -> 0
                         [] b = 0 -> a
                         [] OTHER -> Remainder(Int32(a), Int32(b)) % Word)
    [] op = "REMU" -> IF b # 0 THEN a % b ELSE a

\* The 64-bit products are unsigned when they are shifted.
HighHalf(product) == (product % (Word * Word)) \div Word

Multiply(op, a, b) ==
  CASE op = "MUL"    -> (a * b) % Word
    [] op = "MULH"   -> HighHalf(Int32(a) * Int32(b))
    [] op = "MULHSU" -> HighHalf(Int32(a) * b)
    [] op = "MULHU"  -> HighHalf(a * b)

Shift(op, a, shamt) ==
  CASE op = "SLL" -> (a * 2^shamt) % Word
    [] op = "SRL" -> a \div 2^shamt
    [] op = "SRA" -> (Int32(a) \div 2^shamt) % Word

\* What an OP instruction writes, in a set of its own.
Results(op, a, b) ==
  CASE op = "ADD"  -> {(a + b) % Word}
    [] op = "SUB"  -> {(a - b) % Word}
    [] op = "SLT"  -> {Flag(Int32(a) < Int32(b))}
    [] op = "SLTU" -> {Flag(a < b)}
    [] op = "XOR"  -> WithBits((Bits(a) \ Bits(b)) \cup (Bits(b) \ Bits(a)))
    [] op = "OR"   -> WithBits(Bits(a) \cup Bits(b))
    [] op = "AND"  -> WithBits(Bits(a) \cap Bits(b))
    [] op \in {"SLL", "SRL", "SRA"} -> {Shift(op, a, b % XLEN)}
    [] op \in {"MUL", "MULH", "MULHSU", "MULHU"} -> {Multiply(op, a, b)}
    [] op \in {"DIV", "DIVU", "REM", "REMU"} -> {Divide(op, a, b)}

\* The same with an immediate for the second operand.
Plain(op) ==
  CASE op = "ADDI" -> "ADD"   [] op = "SLTI" -> "SLT" [] op = "SLTIU" -> "SLTU"
    [] op = "XORI" -> "XOR"   [] op = "ORI"  -> "OR"  [] op = "ANDI"  -> "AND"
    [] op = "SLLI" -> "SLL"   [] op = "SRLI" -> "SRL" [] op = "SRAI"  -> "SRA"

\* The shifts take their amount from the field rs2.
ResultsWithImmediate(w, op, a) ==
  IF op \in {"SLLI", "SRLI", "SRAI"}
  THEN {Shift(Plain(op), a, w.rs2)}
  ELSE Results(Plain(op), a, ImmediateI(w) % Word)

Taken(op, a, b) ==
  CASE op = "BEQ"  -> a = b
    [] op = "BNE"  -> a # b
    [] op = "BLT"  -> Int32(a) < Int32(b)
    [] op = "BGE"  -> Int32(a) >= Int32(b)
    [] op = "BLTU" -> a < b
    [] op = "BGEU" -> a >= b

-----------------------------------------------------------------------------
(* stepInstruction *)

\* A setRegister that does not clear x0.
With_KeepsZero(g, rd, v) == [g EXCEPT ![rd] = v]

\* setRegister, on registers g.
With(g, rd, v) == [g EXCEPT ![rd] = v, ![0] = 0]

\* A pc that is not aligned traps (in Hart), here to the address 0.
Realign ==
  /\ stage = "fetch"
  /\ pc % 4 # 0
  /\ pc' = 0
  /\ UNCHANGED <<gpr, instr, opcode, stage>>

Fetch ==
  /\ stage = "fetch"
  /\ pc % 4 = 0
  /\ instr' \in Words
  /\ opcode' = decodeOpcode(instr')
  /\ stage' = "execute"
  /\ UNCHANGED <<pc, gpr>>

\* The case of the type, which need not ask for the opcode.
Enters(type) ==
  /\ stage = "execute"
  /\ decodeInstructionType(instr) = type
  /\ stage' = "fetch"
  /\ instr' = NoInstruction
  /\ opcode' = Unknown

Executes(type) == Enters(type) /\ opcode # Unknown

Next4 == pc' = (pc + 4) % Word

Op ==
  /\ Executes("OP")
  /\ \E v \in Results(opcode, gpr[instr.rs1], gpr[instr.rs2]) :
       gpr' = With(gpr, instr.rd, v)
  /\ Next4

OpImm ==
  /\ Executes("OP_IMM")
  /\ \E v \in ResultsWithImmediate(instr, opcode, gpr[instr.rs1]) :
       gpr' = With(gpr, instr.rd, v)
  /\ Next4

OpUi ==
  /\ Executes("OP_UI")
  /\ gpr' = With(gpr, instr.rd,
                 (ImmediateU(instr) + (IF opcode = "AUIPC" THEN pc ELSE 0)) % Word)
  /\ Next4

Branch ==
  /\ Executes("BRANCH")
  /\ pc' = IF Taken(opcode, gpr[instr.rs1], gpr[instr.rs2])
           THEN (pc + ImmediateB(instr)) % Word
           ELSE (pc + 4) % Word
  /\ UNCHANGED gpr

\* The last bit cleared.
Even(v) == 2 * (v \div 2)

\* rd is written before rs1 is read.
Jump_LinkFirst ==
  /\ Executes("JUMP")
  /\ gpr' = With(gpr, instr.rd, (pc + 4) % Word)
  /\ pc' = IF opcode = "JAL" THEN (pc + ImmediateJ(instr)) % Word
           ELSE Even((gpr'[instr.rs1] + ImmediateI(instr)) % Word)

Jump ==
  /\ Executes("JUMP")
  /\ gpr' = With(gpr, instr.rd, (pc + 4) % Word)
  /\ pc' = IF opcode = "JAL" THEN (pc + ImmediateJ(instr)) % Word
           ELSE Even((gpr[instr.rs1] + ImmediateI(instr)) % Word)

\* On to the next instruction, or to the address 0, which stands for where a
\* trap or SRET leads.
Other ==
  /\ \/ /\ \E type \in {"LOAD", "AMO", "SYSTEM"} : Executes(type)
        /\ \E v \in OtherResults : gpr' = With(gpr, instr.rd, v)
     \/ Executes("STORE") /\ UNCHANGED gpr
  /\ Next4 \/ pc' = 0

\* A load or a store translates its address before it is decoded: one that
\* is none of the known traps all the same when that page faults.
FaultUndecoded ==
  /\ Enters("LOAD") \/ Enters("STORE")
  /\ opcode = Unknown
  /\ pc' = 0
  /\ UNCHANGED gpr

\* Never decoded further: every funct3 is a fence.
Fence ==
  /\ Enters("OP_FENCE")
  /\ UNCHANGED gpr
  /\ Next4

\* A DecoderException, or one that an instruction of another type throws,
\* ends the emulation.
Throw ==
  /\ stage = "execute"
  /\ \/ opcode = Unknown /\ decodeInstructionType(instr) # "OP_FENCE"
     \/ decodeInstructionType(instr) \in {"LOAD", "STORE", "AMO", "SYSTEM"}
  /\ stage' = "stopped"
  /\ UNCHANGED <<pc, gpr, instr, opcode>>

Next ==
  \/ Realign \/ Fetch
  \/ Op \/ OpImm \/ OpUi \/ Branch \/ Jump \/ Other \/ FaultUndecoded \/ Fence
  \/ Throw

Spec == Init /\ [][Next]_vars

-----------------------------------------------------------------------------
(* Properties *)

\* An instruction of RV32IM does to registers and pc what the ISA says, at
\* overflow, division by zero and every sign of the operands too, and each
\* encoding of RV32IMA with Zicsr, Zifencei and S mode is decoded as what
\* it is.  About decoder.cpp, instruction.hpp and hart.cpp:115-445, 576-588.
ISA == INSTANCE Rv32im

ImplementsRv32im == ISA!Spec

\* The immediates regrouped from the fields are those of the ISA's formats,
\* with their sign, in their whole width.  About instruction.hpp:29-79.
ImmediatesRight ==
  CASE decodeInstructionType(instr) \in {"OP_IMM", "LOAD"} ->
         ImmediateI(instr) = ISA!Immediate(instr, "I")
    [] decodeInstructionType(instr) = "STORE" ->
         ImmediateS(instr) = ISA!Immediate(instr, "S")
    [] decodeInstructionType(instr) = "BRANCH" ->
         ImmediateB(instr) = ISA!Immediate(instr, "B")
    [] decodeInstructionType(instr) = "OP_UI" ->
         ImmediateU(instr) = ISA!Immediate(instr, "U")
    [] decodeInstructionType(instr) = "JUMP" ->
         /\ ImmediateJ(instr) = ISA!Immediate(instr, "J")
         /\ ImmediateI(instr) = ISA!Immediate(instr, "I")
    [] OTHER -> TRUE
=============================================================================
