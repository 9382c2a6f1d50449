------------------------------- MODULE Rv32im -------------------------------
(***************************************************************************)
(* What the unprivileged instructions of the ISA that compute and branch   *)
(* promise: by encodings in their masks, immediates bit by bit, and        *)
(* results by what they satisfy as signed and unsigned integers.  A word   *)
(* that the ISA reserves may do anything to one register and the pc, or    *)
(* stop.                                                                   *)
(***************************************************************************)
EXTENDS Integers, Sequences

CONSTANTS XLEN, Word, Registers, Words

VARIABLES pc, gpr, instr, opcode, stage

Value  == 0 .. (Word - 1)
Bit(n, k) == (n \div 2^k) % 2

\* Bit k of a fetched word w.
WordBit(w, k) ==
  CASE k \in  0 ..  6 -> Bit(w.opcode, k)
    [] k \in  7 .. 11 -> Bit(w.rd, k - 7)
    [] k \in 12 .. 14 -> Bit(w.funct3, k - 12)
    [] k \in 15 .. 19 -> Bit(w.rs1, k - 15)
    [] k \in 20 .. 24 -> Bit(w.rs2, k - 20)
    [] k \in 25 .. 31 -> Bit(w.funct7, k - 25)

-----------------------------------------------------------------------------
(* Encodings *)

\* The opcodes of each major opcode and funct3, in the order of funct3, and
\* those that funct7 tells apart; "none" is what this table does not name.
ByFunct3 ==
  [LOAD   |-> [major |-> 3,  names |-> <<"LB", "LH", "LW", "none", "LBU", "LHU">>],
   STORE  |-> [major |-> 35, names |-> <<"SB", "SH", "SW">>],
   BRANCH |-> [major |-> 99, names |-> <<"BEQ", "BNE", "none", "none", "BLT", "BGE",
                                         "BLTU", "BGEU">>],
   JALR   |-> [major |-> 103, names |-> <<"JALR">>],
   OP_IMM |-> [major |-> 19, names |-> <<"ADDI", "none", "SLTI", "SLTIU", "XORI",
                                         "none", "ORI", "ANDI">>],
   SYSTEM |-> [major |-> 115, names |-> <<"none", "CSRRW", "CSRRS", "CSRRC", "none",
                                          "CSRRWI", "CSRRSI", "CSRRCI">>],
   FENCE  |-> [major |-> 15, names |-> <<"FENCE", "FENCE_I">>]]

ByFunct7 ==
  {<<19, 1, 0, "SLLI">>, <<19, 5, 0, "SRLI">>, <<19, 5, 32, "SRAI">>,
   <<51, 0, 0, "ADD">>, <<51, 0, 32, "SUB">>, <<51, 1, 0, "SLL">>,
   <<51, 2, 0, "SLT">>, <<51, 3, 0, "SLTU">>, <<51, 4, 0, "XOR">>,
   <<51, 5, 0, "SRL">>, <<51, 5, 32, "SRA">>, <<51, 6, 0, "OR">>,
   <<51, 7, 0, "AND">>, <<51, 0, 1, "MUL">>, <<51, 1, 1, "MULH">>,
   <<51, 2, 1, "MULHSU">>, <<51, 3, 1, "MULHU">>, <<51, 4, 1, "DIV">>,
   <<51, 5, 1, "DIVU">>, <<51, 6, 1, "REM">>, <<51, 7, 1, "REMU">>}

\* funct5 and name.
Atomics ==
  {<<0, "AMOADD_W">>, <<1, "AMOSWAP_W">>, <<2, "LR_W">>, <<3, "SC_W">>,
   <<4, "AMOXOR_W">>, <<8, "AMOOR_W">>, <<12, "AMOAND_W">>, <<16, "AMOMIN_W">>,
   <<20, "AMOMAX_W">>, <<24, "AMOMINU_W">>, <<28, "AMOMAXU_W">>}

\* funct7, rs2 and name; SFENCE.VMA and SINVAL.VMA take any rs2.
Privileged == {<<0, 0, "ECALL">>, <<0, 1, "EBREAK">>, <<8, 2, "SRET">>,
               <<8, 5, "WFI">>, <<12, 0, "SFENCE_W_INVAL">>,
               <<12, 1, "SFENCE_INVAL_IR">>}

LargeNames(w) ==
  {row[2] : row \in {row \in {<<55, "LUI">>, <<23, "AUIPC">>, <<111, "JAL">>} :
                       row[1] = w.opcode}}

Funct3Names(w) ==
  {ByFunct3[row].names[w.funct3 + 1] :
     row \in {row \in DOMAIN ByFunct3 :
                /\ w.opcode = ByFunct3[row].major
                /\ w.funct3 + 1 \in DOMAIN ByFunct3[row].names}} \ {"none"}

Funct7Names(w) ==
  {row[4] : row \in {row \in ByFunct7 :
                       row = <<w.opcode, w.funct3, w.funct7, row[4]>>}}

AtomicNames(w) ==
  {row[2] : row \in {row \in Atomics :
                       /\ w.opcode = 47 /\ w.funct3 = 2
                       /\ row[1] = w.funct7 \div 4
                       /\ row[2] = "LR_W" => w.rs2 = 0}}

PrivilegedNames(w) ==
  {row[3] : row \in {row \in Privileged :
                       /\ w.opcode = 115 /\ w.funct3 = 0
                       /\ w.rd = 0 /\ w.rs1 = 0
                       /\ row = <<w.funct7, w.rs2, row[3]>>}}

FenceNames(w) ==
  {row[2] : row \in {row \in {<<9, "SFENCE_VMA">>, <<11, "SINVAL_VMA">>} :
                       /\ w.opcode = 115 /\ w.funct3 = 0 /\ w.rd = 0
                       /\ row[1] = w.funct7}}

\* The opcode of a word, in a set of its own, or no opcode.
NamesOf(w) ==
  LargeNames(w) \cup Funct3Names(w) \cup Funct7Names(w)
    \cup AtomicNames(w) \cup PrivilegedNames(w) \cup FenceNames(w)

-----------------------------------------------------------------------------
(* Immediates *)

\* Bit k of the immediate of a format, for k below 31; bit 31 of the word is
\* the sign.
ImmediateBit(w, format, k) ==
  CASE format = "I" -> WordBit(w, IF k <= 10 THEN 20 + k ELSE 31)
    [] format = "S" -> WordBit(w, CASE k <= 4 -> 7 + k
                                    [] k \in 5 .. 10 -> 20 + k
                                    [] OTHER -> 31)
    [] format = "B" -> IF k = 0 THEN 0
                       ELSE WordBit(w, CASE k \in 1 .. 4 -> 7 + k
                                         [] k \in 5 .. 10 -> 20 + k
                                         [] k = 11 -> 7
                                         [] OTHER -> 31)
    [] format = "U" -> IF k < 12 THEN 0 ELSE WordBit(w, k)
    [] format = "J" -> IF k = 0 THEN 0
                       ELSE WordBit(w, CASE k \in 1 .. 10 -> 20 + k
                                         [] k = 11 -> 20
                                         [] k \in 12 .. 19 -> k
                                         [] OTHER -> 31)

\* The sum of a function on 0 .. 30.
Total(weights) ==
  LET sum[k \in 0 .. 31] == IF k = 0 THEN 0 ELSE sum[k - 1] + weights[k - 1]
  IN  sum[31]

\* In two's complement a negative number is -1 minus the bits that are 0.
Immediate(w, format) ==
  LET negative == WordBit(w, 31) = 1
      total == Total([k \in 0 .. 30 |->
                        IF (ImmediateBit(w, format, k) = 1) = negative
                        THEN 0 ELSE 2^k])
  IN  IF negative THEN -1 - total ELSE total

-----------------------------------------------------------------------------
(* Results *)

Signed(v)  == IF 2 * v < Word THEN v ELSE v - Word
Abs(n)     == IF n < 0 THEN -n ELSE n
Same(v, n) == (v - n) % Word = 0

\* Division that rounds towards 0: the remainder has the sign of x.
Divides(x, y, q) ==
  LET r == x - q * y
  IN  /\ Abs(r) < Abs(y)
      /\ r # 0 => (r < 0 <=> x < 0)

Quotients == -Word .. Word

\* v is what name makes of a and b.
IsResult(name, a, b, v) ==
  LET shamt == b % XLEN
  IN  CASE name = "ADD"  -> Same(v, a + b)
        [] name = "SUB"  -> Same(v, a - b)
        [] name = "SLT"  -> v = IF Signed(a) < Signed(b) THEN 1 ELSE 0
        [] name = "SLTU" -> v = IF a < b THEN 1 ELSE 0
        [] name = "XOR"  -> \A k \in 0 .. (XLEN - 1) :
                              Bit(v, k) = 1 <=> Bit(a, k) # Bit(b, k)
        [] name = "OR"   -> \A k \in 0 .. (XLEN - 1) :
                              Bit(v, k) = 1 <=> Bit(a, k) = 1 \/ Bit(b, k) = 1
        [] name = "AND"  -> \A k \in 0 .. (XLEN - 1) :
                              Bit(v, k) = 1 <=> Bit(a, k) = 1 /\ Bit(b, k) = 1
        [] name = "SLL"  -> \A k \in 0 .. (XLEN - 1) :
                              Bit(v, k) = IF k < shamt THEN 0 ELSE Bit(a, k - shamt)
        [] name = "SRL"  -> \A k \in 0 .. (XLEN - 1) :
                              Bit(v, k) = IF k + shamt < XLEN THEN Bit(a, k + shamt)
                                          ELSE 0
        [] name = "SRA"  -> \A k \in 0 .. (XLEN - 1) :
                              Bit(v, k) = IF k + shamt < XLEN THEN Bit(a, k + shamt)
                                          ELSE Bit(a, XLEN - 1)
        [] name = "MUL"    -> Same(v, a * b)
        [] name = "MULH"   -> \E low \in Value :
                                Signed(v) * Word + low = Signed(a) * Signed(b)
        [] name = "MULHSU" -> \E low \in Value :
                                Signed(v) * Word + low = Signed(a) * b
        [] name = "MULHU"  -> \E low \in Value : v * Word + low = a * b
        [] name = "DIV"    -> IF b = 0 THEN Signed(v) = -1
                              ELSE \E q \in Quotients :
                                     /\ Divides(Signed(a), Signed(b), q)
                                     /\ Same(v, q)
        [] name = "REM"    -> IF b = 0 THEN v = a
                              ELSE \E q \in Quotients :
                                     /\ Divides(Signed(a), Signed(b), q)
                                     /\ Same(v, Signed(a) - q * Signed(b))
        [] name = "DIVU"   -> IF b = 0 THEN Signed(v) = -1 ELSE Divides(a, b, v)
        [] name = "REMU"   -> IF b = 0 THEN v = a
                              ELSE \E q \in Quotients :
                                     Divides(a, b, q) /\ v = a - q * b

Branches(name, a, b) ==
  CASE name = "BEQ"  -> a = b
    [] name = "BNE"  -> ~(a = b)
    [] name = "BLT"  -> Signed(a) < Signed(b)
    [] name = "BGE"  -> ~(Signed(a) < Signed(b))
    [] name = "BLTU" -> a < b
    [] name = "BGEU" -> ~(a < b)

WithImmediate == [ADDI |-> "ADD", SLTI |-> "SLT", SLTIU |-> "SLTU",
                  XORI |-> "XOR", ORI |-> "OR", ANDI |-> "AND",
                  SLLI |-> "SLL", SRLI |-> "SRL", SRAI |-> "SRA"]

-----------------------------------------------------------------------------
(* Steps *)

Gets(rd, v) == gpr' = [gpr EXCEPT ![rd] = IF rd = 0 THEN 0 ELSE v]

Goes(target) == pc' \in Value /\ Same(pc', target)

Compute ==
  /\ instr.opcode = 51
  /\ \E v \in Value :
       /\ Gets(instr.rd, v)
       /\ IsResult(opcode, gpr[instr.rs1], gpr[instr.rs2], v)
  /\ Goes(pc + 4)

\* A shift by an immediate takes its low five bits.
ComputeImmediate ==
  /\ instr.opcode = 19
  /\ \E v \in Value :
       /\ Gets(instr.rd, v)
       /\ IsResult(WithImmediate[opcode], gpr[instr.rs1],
                   IF opcode \in {"SLLI", "SRLI", "SRAI"}
                   THEN Immediate(instr, "I") % 32
                   ELSE Immediate(instr, "I") % Word, v)
  /\ Goes(pc + 4)

LoadUpper ==
  /\ opcode \in {"LUI", "AUIPC"}
  /\ \E v \in Value :
       /\ Gets(instr.rd, v)
       /\ Same(v, Immediate(instr, "U") + (IF opcode = "LUI" THEN 0 ELSE pc))
  /\ Goes(pc + 4)

Branch ==
  /\ instr.opcode = 99
  /\ UNCHANGED gpr
  /\ Goes(IF Branches(opcode, gpr[instr.rs1], gpr[instr.rs2])
          THEN pc + Immediate(instr, "B") ELSE pc + 4)

JumpAndLink ==
  /\ opcode \in {"JAL", "JALR"}
  /\ \E link \in Value : Same(link, pc + 4) /\ Gets(instr.rd, link)
  /\ IF opcode = "JAL"
     THEN Goes(pc + Immediate(instr, "J"))
     ELSE LET target == gpr[instr.rs1] + Immediate(instr, "I")
          IN  Goes(target - (target % 2))

\* A fence orders accesses, which one hart makes in order.
Fence ==
  /\ opcode \in {"FENCE", "FENCE_I"}
  /\ UNCHANGED gpr
  /\ Goes(pc + 4)

\* Loads, stores, atomics and instructions of the system.
Other ==
  /\ instr.opcode \in {3, 35, 47, 115}
  /\ \E rd \in Registers, v \in Value : Gets(rd, v)
  /\ pc' \in Value

Execute ==
  /\ stage = "execute"
  /\ stage' = "fetch"
  /\ \/ /\ NamesOf(instr) # {}
        /\ \/ Compute \/ ComputeImmediate \/ LoadUpper
           \/ Branch \/ JumpAndLink \/ Fence \/ Other
     \/ /\ NamesOf(instr) = {}
        /\ \E rd \in Registers, v \in Value : Gets(rd, v)
        /\ pc' \in Value

\* Loads, stores, atomics and instructions of the system may find no memory
\* or no register of the system.
Stop ==
  /\ stage = "execute"
  /\ NamesOf(instr) = {} \/ instr.opcode \in {3, 35, 47, 115}
  /\ stage' = "stopped"
  /\ UNCHANGED <<pc, gpr, instr, opcode>>

Fetch ==
  /\ stage = "fetch"
  /\ pc % 4 = 0
  /\ instr' \in Words
  /\ NamesOf(instr') # {} => opcode' \in NamesOf(instr')
  /\ stage' = "execute"
  /\ UNCHANGED <<pc, gpr>>

Realign ==
  /\ stage = "fetch"
  /\ pc % 4 # 0
  /\ pc' \in Value
  /\ UNCHANGED <<gpr, instr, opcode, stage>>

Init ==
  /\ pc = 0
  /\ gpr = [r \in Registers |-> 0]
  /\ stage = "fetch"

Next == Execute \/ Stop \/ Fetch \/ Realign

Spec == Init /\ [][Next]_<<pc, gpr, instr, opcode, stage>>
=============================================================================
