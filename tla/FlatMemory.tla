---------------------------- MODULE FlatMemory ----------------------------
(***************************************************************************)
(* What loads, stores and atomics promise: one memory of bytes, from       *)
(* addresses to values, which every access takes or changes in one piece,  *)
(* and registers, of which an instruction changes at most the one it       *)
(* names.  There is no handler, no order of bytes and no reservation here, *)
(* and what an instruction computes is said by what its result satisfies.  *)
(***************************************************************************)
EXTENDS Integers

CONSTANTS AddrSpace, Byte, XLEN, Registers, Addrs, AmoOps,
          Regions  \* sets of addresses, those of each memory

VARIABLES
  memory,  \* the bytes, a function on the addresses that have memory
  gpr,     \* the registers
  phase    \* "boot", "software", "access" (just made) or "stopped"

Values(n) == CASE n = 1 -> Byte
               [] n = 2 -> Byte * Byte
               [] n = 4 -> Byte * Byte * Byte * Byte
Value(n)  == 0 .. (Values(n) - 1)

Places(addr, n) == {(addr + k) % AddrSpace : k \in 0 .. (n - 1)}

\* The n bytes of m from addr on are those of v, the lowest first.
Holds(m, addr, n, v) ==
  /\ v % Byte = m[addr % AddrSpace]
  /\ n >= 2 => (v \div Byte) % Byte = m[(addr + 1) % AddrSpace]
  /\ n = 4 =>
       /\ (v \div (Byte * Byte)) % Byte = m[(addr + 2) % AddrSpace]
       /\ v \div (Byte * Byte * Byte) = m[(addr + 3) % AddrSpace]

\* new differs from m at most in these places.
SameOutside(m, new, places) ==
  /\ DOMAIN new = DOMAIN m
  /\ \A a \in DOMAIN m \ places : new[a] = m[a]

Put(m, new, addr, n, v) ==
  Holds(new, addr, n, v) /\ SameOutside(m, new, Places(addr, n))

Gets(rd, v) == gpr' = [gpr EXCEPT ![rd] = IF rd = 0 THEN 0 ELSE v]

Extended(v, n, signed) ==
  IF signed /\ 2 * v >= Values(n) THEN v + Values(4) - Values(n) ELSE v

-----------------------------------------------------------------------------
\* The number that n bytes of value v stand for in two's complement.
SignedOf(v, n) == IF 2 * v < Values(n) THEN v ELSE v - Values(n)
Signed(v)      == SignedOf(v, 4)

Width(op) == CASE op \in {"LB", "LBU"} -> 1
               [] op \in {"LH", "LHU"} -> 2
               [] op = "LW" -> 4

\* rd, and no other register, gets the number that is at addr: LB, LH and LW
\* take it as a signed one, LBU and LHU as an unsigned one.
LoadAsNamed(op, m, addr, rd) ==
  \E v \in Value(4), x \in Value(Width(op)) :
    /\ Gets(rd, v)
    /\ Holds(m, addr, Width(op), x)
    /\ IF op \in {"LBU", "LHU"} THEN v = x ELSE Signed(v) = SignedOf(x, Width(op))

Bits(v)   == {i \in 0 .. (XLEN - 1) : (v \div 2^i) % 2 = 1}

\* new is what op makes of the old word and the operand x.
Makes(op, old, x, new) ==
  CASE op = "AMOSWAP" -> new = x
    [] op = "AMOADD"  -> (old + x - new) % Values(4) = 0
    [] op = "AMOXOR"  -> Bits(new) = (Bits(old) \cup Bits(x))
                                       \ (Bits(old) \cap Bits(x))
    [] op = "AMOAND"  -> Bits(new) = Bits(old) \cap Bits(x)
    [] op = "AMOOR"   -> Bits(new) = Bits(old) \cup Bits(x)
    [] op = "AMOMIN"  -> /\ new \in {old, x}
                         /\ \A v \in {old, x} : Signed(new) <= Signed(v)
    [] op = "AMOMAX"  -> /\ new \in {old, x}
                         /\ \A v \in {old, x} : Signed(new) >= Signed(v)
    [] op = "AMOMINU" -> new \in {old, x} /\ new <= old /\ new <= x
    [] op = "AMOMAXU" -> new \in {old, x} /\ new >= old /\ new >= x

-----------------------------------------------------------------------------
Init ==
  /\ memory = [a \in {} |-> 0]
  /\ gpr = [r \in Registers |-> 0]
  /\ phase = "boot"

\* A memory is added, and filled with zeros.
Extend ==
  /\ phase = "boot"
  /\ \E region \in Regions : DOMAIN memory' = DOMAIN memory \cup region
  /\ memory' = [a \in DOMAIN memory' |->
                  IF a \in DOMAIN memory THEN memory[a] ELSE 0]
  /\ UNCHANGED <<gpr, phase>>

\* Memory is filled from images.
Fill ==
  /\ phase = "boot"
  /\ DOMAIN memory' = DOMAIN memory
  /\ \A a \in DOMAIN memory : memory'[a] \in Value(1)
  /\ UNCHANGED <<gpr, phase>>

\* Software begins or goes on, with registers of its own.
Resume ==
  /\ phase \in {"boot", "access"}
  /\ phase' = "software"
  /\ gpr' \in [Registers -> Value(4)]
  /\ gpr'[0] = 0
  /\ UNCHANGED memory

\* The accesses take a memory m to a memory new.
Load(m, addr, n, rd) ==
  \E v \in Value(n), signed \in BOOLEAN :
    Gets(rd, Extended(v, n, signed)) /\ Holds(m, addr, n, v)

Store(m, new, addr, n, rs2) ==
  UNCHANGED gpr /\ Put(m, new, addr, n, gpr[rs2] % Values(n))

\* A store-conditional does what a store does, or nothing, and says which.
StoreConditional(m, new, addr, rd, rs2) ==
  \/ Gets(rd, 0) /\ Put(m, new, addr, 4, gpr[rs2])
  \/ Gets(rd, 1) /\ new = m

Amo(m, new, addr, rd, rs2) ==
  \E old \in Value(4) :
    /\ Gets(rd, old)
    /\ Holds(m, addr, 4, old)
    /\ \E v \in Value(4) :
         /\ Put(m, new, addr, 4, v)
         /\ \E op \in AmoOps : Makes(op, old, gpr[rs2], v)

Access(m, new) ==
  /\ phase = "software"
  /\ phase' = "access"
  /\ \E addr \in Addrs, n \in {1, 2, 4}, r \in Registers :
       /\ Places(addr, n) \subseteq DOMAIN m
       /\ \/ new = m /\ Load(m, addr, n, r)
          \/ Store(m, new, addr, n, r)
          \/ /\ n = 4
             /\ \E rs2 \in Registers : \/ StoreConditional(m, new, addr, r, rs2)
                                       \/ Amo(m, new, addr, r, rs2)

\* The emulation ends: before the hart runs, or with an access to an address
\* without memory, when some of the places it names may have been written.
Stop(m, new) ==
  /\ phase # "stopped"
  /\ phase' = "stopped"
  /\ UNCHANGED gpr
  /\ \/ phase = "boot" /\ new = m
     \/ \E addr \in Addrs, n \in {1, 2, 4} :
          /\ ~(Places(addr, n) \subseteq DOMAIN m)
          /\ SameOutside(m, new, Places(addr, n))

Next ==
  \/ Extend
  \/ Fill
  \/ Resume
  \/ \E m \in {memory}, new \in {memory'} : Access(m, new) \/ Stop(m, new)

Spec == Init /\ [][Next]_<<memory, gpr, phase>>
=============================================================================
