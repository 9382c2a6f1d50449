----------------------------- MODULE MemoryMap -----------------------------
(***************************************************************************)
(* MemoryMapManager and BasicMemory: arrays of bytes behind a list of      *)
(* handlers, which is searched in the order of registration for every      *)
(* single byte.  Halfwords and words are read and written byte by byte,    *)
(* the byte with the lowest address first.                                 *)
(***************************************************************************)
EXTENDS Integers, Sequences

CONSTANTS
  AddrSpace,  \* addresses, 2^32 in the code
  Byte        \* values of a byte, 256 in the code

ASSUME MemoryMapAssumption ==
  /\ AddrSpace \in Nat
  /\ AddrSpace >= 4
  /\ Byte \in Nat
  /\ Byte >= 2

Addr      == 0 .. (AddrSpace - 1)
ByteValue == 0 .. (Byte - 1)

-----------------------------------------------------------------------------
(* BasicMemory *)

Handler(h) ==
  /\ DOMAIN h = {"base", "size", "memoryArray"}
  /\ h.base \in Addr
  /\ h.size \in Nat
  /\ h.memoryArray \in [0 .. (h.size - 1) -> ByteValue]

\* The array is made by make_unique, which sets it to 0.
BasicMemory(base, size) ==
  [base |-> base, size |-> size, memoryArray |-> [o \in 0 .. (size - 1) |-> 0]]

\* The assertion in readByte and writeByte.
InBounds(h, addr) == addr >= h.base /\ addr < (h.base + h.size) % AddrSpace

-----------------------------------------------------------------------------
(* MemoryMapManager *)

\* lastAddr is a uint32_t: that of a handler that ends with the address
\* space is 0, and the handler owns no address.
Owns(h, addr) ==
  LET lastAddr == (h.base + h.size) % AddrSpace
  IN  h.base <= addr /\ addr < lastAddr

HasHandler(handlers, addr) ==
  \E i \in DOMAIN handlers : Owns(handlers[i], addr)

\* The first in the list.
GetHandler(handlers, addr) ==
  CHOOSE i \in DOMAIN handlers :
    /\ Owns(handlers[i], addr)
    /\ \A j \in DOMAIN handlers : j < i => ~Owns(handlers[j], addr)

\* The k-th address after addr, as uint32_t.
After(addr, k) == (addr + k) % AddrSpace

\* Each of n bytes has a handler: nothing is thrown on the way.
Backed(handlers, addr, n) ==
  \A k \in 0 .. (n - 1) : HasHandler(handlers, After(addr, k))

ReadByte(handlers, addr) ==
  LET h == handlers[GetHandler(handlers, addr)]
  IN  h.memoryArray[addr - h.base]

\* The bytes that an access can reach, as one function.
MemoryOf(handlers) ==
  [a \in {a \in Addr : HasHandler(handlers, a)} |-> ReadByte(handlers, a)]

\* A write to an address without a handler throws, and what would follow it
\* is not done.
WriteByte(handlers, addr, byte) ==
  IF HasHandler(handlers, addr)
  THEN LET i == GetHandler(handlers, addr)
       IN  [handlers EXCEPT ![i].memoryArray[addr - handlers[i].base] = byte]
  ELSE handlers

-----------------------------------------------------------------------------
(* Halfwords and words *)

Half == Byte * Byte
Word == Half * Half

ReadHalfword(handlers, addr) ==
  ReadByte(handlers, addr) + Byte * ReadByte(handlers, After(addr, 1))

\* The halves the other way round.
ReadWord_Swapped(handlers, addr) ==
  ReadHalfword(handlers, After(addr, 2)) + Half * ReadHalfword(handlers, addr)

ReadWord(handlers, addr) ==
  ReadHalfword(handlers, addr) + Half * ReadHalfword(handlers, After(addr, 2))

WriteHalfword(handlers, addr, v) ==
  LET byte0 == v % Byte
      byte1 == (v \div Byte) % Byte
  IN  IF HasHandler(handlers, addr)
      THEN WriteByte(WriteByte(handlers, addr, byte0), After(addr, 1), byte1)
      ELSE handlers

WriteWord(handlers, addr, v) ==
  LET half0 == v % Half
      half1 == (v \div Half) % Half
  IN  IF Backed(handlers, addr, 2)
      THEN WriteHalfword(WriteHalfword(handlers, addr, half0),
                         After(addr, 2), half1)
      ELSE WriteHalfword(handlers, addr, half0)

Read(handlers, addr, n) ==
  CASE n = 1 -> ReadByte(handlers, addr)
    [] n = 2 -> ReadHalfword(handlers, addr)
    [] n = 4 -> ReadWord(handlers, addr)

Write(handlers, addr, n, v) ==
  CASE n = 1 -> WriteByte(handlers, addr, v % Byte)
    [] n = 2 -> WriteHalfword(handlers, addr, v % Half)
    [] n = 4 -> WriteWord(handlers, addr, v)
=============================================================================
