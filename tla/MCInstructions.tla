--------------------------- MODULE MCInstructions ---------------------------
(* Words of four bits and two registers besides x0.  Programs consist of   *)
(* every opcode of the computing types, over operands that are the same    *)
(* register, different ones and the destination; of every funct3 of the    *)
(* other types; and of words that the ISA reserves.                        *)
EXTENDS Instructions

MCRegisters == {0, 1, 2}

MCOps == [opcode : {51}, rd : {0, 2}, funct3 : 0 .. 7, rs1 : {1}, rs2 : {1, 2},
          funct7 : {0, 1, 32}]

MCOpImms == [opcode : {19}, rd : {2}, funct3 : 0 .. 7, rs1 : {1}, rs2 : {1, 3},
             funct7 : {0, 32, 127}]

\* Offsets 8, 2056 and -4.
MCBranches ==
  {[opcode |-> 99, rd |-> o.rd, funct3 |-> f, rs1 |-> 1, rs2 |-> 2,
    funct7 |-> o.funct7] :
     o \in {[rd |-> 8, funct7 |-> 0], [rd |-> 9, funct7 |-> 0],
            [rd |-> 29, funct7 |-> 127]},
     f \in 0 .. 7}

\* Formats whose fields are regrouped: every bit of the immediate is 1 in
\* one word and 0 in another.
MCJumps ==
  [opcode : {111}, rd : {1}, funct3 : {2, 5}, rs1 : {10, 21}, rs2 : {10, 21},
   funct7 : {21, 106}]
    \cup [opcode : {103}, rd : {1}, funct3 : {0}, rs1 : {1}, rs2 : {8, 21},
          funct7 : {0, 127}]

MCUppers ==
  [opcode : {23, 55}, rd : {0, 2}, funct3 : {2, 5}, rs1 : {21}, rs2 : {10},
   funct7 : {21, 106}]

\* One word or more of each opcode of the other types.
MCOthers ==
  [opcode : {3, 35}, rd : {2}, funct3 : 0 .. 7, rs1 : {1}, rs2 : {21},
   funct7 : {42, 85}]
    \cup [opcode : {47}, rd : {1}, funct3 : {2}, rs1 : {1}, rs2 : {0},
          funct7 : {4 * k : k \in 0 .. 31}]
    \cup [opcode : {115}, rd : {0}, funct3 : {0}, rs1 : {0}, rs2 : {0, 1, 2, 5},
          funct7 : {0, 8, 9, 11, 12, 24}]
    \cup [opcode : {115}, rd : {1}, funct3 : 0 .. 7, rs1 : {1}, rs2 : {0},
          funct7 : {10}]
    \cup [opcode : {15, 127}, rd : {0}, funct3 : 0 .. 2, rs1 : {0}, rs2 : {0},
          funct7 : {0}]

MCWords == UNION {MCOps, MCOpImms, MCBranches, MCJumps, MCUppers, MCOthers}
=============================================================================
