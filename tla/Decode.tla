------------------------------- MODULE Decode -------------------------------
(***************************************************************************)
(* decodeInstructionType, decodeOpcode and the immediates of Instruction.  *)
(* An instruction is a record of the six fields of its register format,    *)
(* which the fields of the other formats regroup.  Immediates are signed   *)
(* integers; the code has them modulo 2^32.                                *)
(***************************************************************************)
EXTENDS Integers, Sequences

Instruction == [opcode : 0 .. 127, rd : 0 .. 31, funct3 : 0 .. 7,
                rs1 : 0 .. 31, rs2 : 0 .. 31, funct7 : 0 .. 127]

\* What stands for a DecoderException.
Unknown == "unknown"

decodeInstructionType(instr) ==
  CASE instr.opcode = 3          -> "LOAD"
    [] instr.opcode = 35         -> "STORE"
    [] instr.opcode = 99         -> "BRANCH"
    [] instr.opcode \in {103, 111} -> "JUMP"
    [] instr.opcode = 47         -> "AMO"
    [] instr.opcode = 19         -> "OP_IMM"
    [] instr.opcode = 51         -> "OP"
    [] instr.opcode = 115        -> "SYSTEM"
    [] instr.opcode \in {55, 23} -> "OP_UI"
    [] instr.opcode = 15         -> "OP_FENCE"
    [] OTHER                     -> Unknown

-----------------------------------------------------------------------------
(* Immediates *)

SignExtended(n, width) == IF 2 * n >= width THEN n - width ELSE n

ImmediateI(instr) == SignExtended(32 * instr.funct7 + instr.rs2, 4096)
ImmediateS(instr) == SignExtended(32 * instr.funct7 + instr.rd, 4096)

\* Bits 11 and 12 of the immediate taken for each other.
ImmediateB_Swapped(instr) ==
  SignExtended(4096 * (instr.rd % 2) + 2048 * (instr.funct7 \div 64)
                 + 32 * (instr.funct7 % 64) + 2 * (instr.rd \div 2), 8192)

ImmediateB(instr) ==
  LET imm_12   == instr.funct7 \div 64
      imm_10_5 == instr.funct7 % 64
      imm_4_1  == instr.rd \div 2
      imm_11   == instr.rd % 2
  IN  SignExtended(4096 * imm_12 + 2048 * imm_11 + 32 * imm_10_5 + 2 * imm_4_1,
                   8192)

ImmediateU(instr) ==
  4096 * SignExtended(8192 * instr.funct7 + 256 * instr.rs2
                        + 8 * instr.rs1 + instr.funct3, 1048576)

ImmediateJ(instr) ==
  LET imm_20    == instr.funct7 \div 64
      imm_10_1  == 16 * (instr.funct7 % 64) + (instr.rs2 \div 2)
      imm_11    == instr.rs2 % 2
      imm_19_12 == 8 * instr.rs1 + instr.funct3
  IN  SignExtended(1048576 * imm_20 + 4096 * imm_19_12 + 2048 * imm_11
                     + 2 * imm_10_1, 2097152)

-----------------------------------------------------------------------------
(* decodeOpcode *)

DecodeAmo(instr) ==
  LET funct5 == instr.funct7 \div 4
  IN  CASE funct5 = 2  -> "LR_W"
        [] funct5 = 3  -> "SC_W"
        [] funct5 = 1  -> "AMOSWAP_W"
        [] funct5 = 0  -> "AMOADD_W"
        [] funct5 = 4  -> "AMOXOR_W"
        [] funct5 = 12 -> "AMOAND_W"
        [] funct5 = 8  -> "AMOOR_W"
        [] funct5 = 16 -> "AMOMIN_W"
        [] funct5 = 20 -> "AMOMAX_W"
        [] funct5 = 24 -> "AMOMINU_W"
        [] funct5 = 28 -> "AMOMAXU_W"
        [] OTHER -> Unknown

\* The two forms that bit 30 tells apart.
ByFunct7(instr, plain, other) ==
  CASE instr.funct7 = 0  -> plain
    [] instr.funct7 = 32 -> other
    [] OTHER -> Unknown

DecodeOpImm(instr) ==
  IF instr.funct3 = 5
  THEN ByFunct7(instr, "SRLI", "SRAI")
  ELSE <<"ADDI", "SLLI", "SLTI", "SLTIU", "XORI", Unknown, "ORI", "ANDI">>
         [instr.funct3 + 1]

\* Any odd funct7 is the M extension; only ADD, SUB, SRL and SRA look at the
\* other bits.
DecodeOp(instr) ==
  CASE instr.funct7 % 2 = 1 ->
         <<"MUL", "MULH", "MULHSU", "MULHU", "DIV", "DIVU", "REM", "REMU">>
           [instr.funct3 + 1]
    [] instr.funct7 % 2 = 0 /\ instr.funct3 = 0 -> ByFunct7(instr, "ADD", "SUB")
    [] instr.funct7 % 2 = 0 /\ instr.funct3 = 5 -> ByFunct7(instr, "SRL", "SRA")
    [] OTHER ->
         <<Unknown, "SLL", "SLT", "SLTU", "XOR", Unknown, "OR", "AND">>
           [instr.funct3 + 1]

\* funct3 0 with another funct7 falls through to CSRRW.
DecodePrivileged(instr) ==
  CASE ImmediateI(instr) = 0   -> "ECALL"
    [] ImmediateI(instr) = 1   -> "EBREAK"
    [] ImmediateI(instr) = 258 -> "SRET"
    [] ImmediateI(instr) = 261 -> "WFI"
    [] instr.funct7 = 9  -> "SFENCE_VMA"
    [] instr.funct7 = 11 -> "SINVAL_VMA"
    [] instr.funct7 = 12 ->
         CASE instr.rs2 = 0 -> "SFENCE_W_INVAL"
           [] instr.rs2 = 1 -> "SFENCE_INVAL_IR"
           [] OTHER -> Unknown
    [] OTHER -> "CSRRW"

DecodeSystem(instr) ==
  IF instr.funct3 = 0
  THEN DecodePrivileged(instr)
  ELSE <<"CSRRW", "CSRRS", "CSRRC", Unknown, "CSRRWI", "CSRRSI", "CSRRCI">>
         [instr.funct3]

decodeOpcode(instr) ==
  LET type == decodeInstructionType(instr)
  IN  CASE type = "LOAD" ->
             <<"LB", "LH", "LW", Unknown, "LBU", "LHU", Unknown, Unknown>>
               [instr.funct3 + 1]
        [] type = "STORE" ->
             IF instr.funct3 < 3 THEN <<"SB", "SH", "SW">>[instr.funct3 + 1]
             ELSE Unknown
        [] type = "BRANCH" ->
             <<"BEQ", "BNE", Unknown, Unknown, "BLT", "BGE", "BLTU", "BGEU">>
               [instr.funct3 + 1]
        [] type = "JUMP"   -> IF instr.opcode = 103 THEN "JALR" ELSE "JAL"
        [] type = "AMO"    -> DecodeAmo(instr)
        [] type = "OP_IMM" -> DecodeOpImm(instr)
        [] type = "OP"     -> DecodeOp(instr)
        [] type = "SYSTEM" -> DecodeSystem(instr)
        [] type = "OP_UI"  -> IF instr.opcode = 55 THEN "LUI" ELSE "AUIPC"
        [] type = "OP_FENCE" ->
             IF instr.funct3 < 2 THEN <<"FENCE", "FENCE_I">>[instr.funct3 + 1]
             ELSE Unknown
        [] OTHER -> Unknown
=============================================================================
