--------------------------- MODULE AccessesProofs ---------------------------
(***************************************************************************)
(* Proofs about MemoryMap and Accesses, for bytes of every size, every     *)
(* address space, every list of memories and images and every set of       *)
(* threads.  First: behind any list of handlers, whether they overlap or   *)
(* leave gaps, reads and writes of every size are those of one function    *)
(* from addresses to bytes.                                                *)
(***************************************************************************)
EXTENDS Accesses, Arithmetic

LEMMA Sizes == /\ Byte \in Nat \ {0} /\ Half \in Nat \ {0} /\ Word \in Nat \ {0}
               /\ AddrSpace \in Nat \ {0} /\ AddrSpace >= 4
BY MemoryMapAssumption DEF Half, Word

-----------------------------------------------------------------------------
(* The search for a handler *)

HandlerSet ==
  UNION {[base : Addr, size : {n}, memoryArray : [0 .. (n - 1) -> ByteValue]]
           : n \in Nat}

Listed(memories) == memories \in Seq(HandlerSet)

LEMMA HandlerSetIs == \A h \in HandlerSet : Handler(h)
<1> SUFFICES ASSUME NEW n \in Nat,
                    NEW h \in [base : Addr, size : {n},
                               memoryArray : [0 .. (n - 1) -> ByteValue]]
             PROVE  Handler(h)
  BY DEF HandlerSet
<1> QED
  BY DEF Handler

LEMMA ListedHandlers ==
  ASSUME NEW memories, Listed(memories)
  PROVE  /\ DOMAIN memories = 1 .. Len(memories)
         /\ DOMAIN memories \subseteq Nat
         /\ \A i \in DOMAIN memories :
              memories[i] \in HandlerSet /\ Handler(memories[i])
<1>1. memories \in Seq(HandlerSet)
  BY DEF Listed
<1>2. DOMAIN memories = 1 .. Len(memories) /\ Len(memories) \in Nat
  BY <1>1
<1>3. \A i \in DOMAIN memories : memories[i] \in HandlerSet
  BY <1>1, <1>2
<1> QED
  BY <1>2, <1>3, HandlerSetIs

IsFirst(memories, addr, i) ==
  /\ i \in DOMAIN memories
  /\ Owns(memories[i], addr)
  /\ \A j \in DOMAIN memories : j < i => ~Owns(memories[j], addr)

LEMMA FirstIsUnique ==
  ASSUME NEW memories, DOMAIN memories \subseteq Nat, NEW addr,
         NEW i, IsFirst(memories, addr, i), NEW j, IsFirst(memories, addr, j)
  PROVE  i = j
<1>1. i \in Nat /\ j \in Nat /\ ~(i < j) /\ ~(j < i)
  BY DEF IsFirst
<1> QED
  BY <1>1

\* getHandler finds the first handler of the list that owns the address.
LEMMA GetHandlerFinds ==
  ASSUME NEW memories, DOMAIN memories \subseteq Nat, NEW addr,
         HasHandler(memories, addr)
  PROVE  IsFirst(memories, addr, GetHandler(memories, addr))
<1> DEFINE T == {i \in DOMAIN memories : Owns(memories[i], addr)}
<1>1. T \subseteq Nat /\ T # {}
  BY DEF HasHandler
<1>2. PICK i \in T : \A j \in T : ~(j < i)
  BY <1>1, Least
<1>3. \E k \in DOMAIN memories :
        /\ Owns(memories[k], addr)
        /\ \A j \in DOMAIN memories : j < k => ~Owns(memories[j], addr)
  BY <1>2
<1> QED
  BY <1>3 DEF GetHandler, IsFirst

\* Handlers that keep their places keep their addresses.
SameRanges(old, new) ==
  /\ DOMAIN new = DOMAIN old
  /\ \A i \in DOMAIN old : new[i].base = old[i].base /\ new[i].size = old[i].size

LEMMA SameSearch ==
  ASSUME NEW old, NEW new, SameRanges(old, new), NEW addr
  PROVE  /\ HasHandler(new, addr) <=> HasHandler(old, addr)
         /\ \A i : IsFirst(new, addr, i) <=> IsFirst(old, addr, i)
<1>1. \A i \in DOMAIN old : Owns(new[i], addr) <=> Owns(old[i], addr)
  BY DEF SameRanges, Owns
<1>2. DOMAIN new = DOMAIN old
  BY DEF SameRanges
<1> QED
  BY <1>1, <1>2 DEF HasHandler, IsFirst

\* The place of a byte in the array of a handler that owns it.
LEMMA OwnedPlace ==
  ASSUME NEW h, Handler(h), NEW addr \in Addr, Owns(h, addr)
  PROVE  addr - h.base \in 0 .. (h.size - 1)
<1>1. h.base \in Nat /\ h.size \in Nat /\ addr \in Nat /\ h.base <= addr
  BY Sizes DEF Handler, Addr, Owns
<1>2. addr < (h.base + h.size) % AddrSpace
  BY DEF Owns
<1>3. (h.base + h.size) % AddrSpace <= h.base + h.size
  <2>1. h.base + h.size \in Nat /\ h.base + h.size \in Int
    BY <1>1
  <2>2. (h.base + h.size) \div AddrSpace \in Nat
    BY <2>1, Sizes, QuotientNat
  <2>3. AddrSpace * ((h.base + h.size) \div AddrSpace) \in Nat
    BY <2>2, Sizes
  <2>4. /\ (h.base + h.size) % AddrSpace \in 0 .. (AddrSpace - 1)
        /\ h.base + h.size = AddrSpace * ((h.base + h.size) \div AddrSpace)
                               + ((h.base + h.size) % AddrSpace)
    BY <2>1, Sizes, DivMod
  <2> QED
    BY <2>1, <2>3, <2>4, Sizes
<1>4. (h.base + h.size) % AddrSpace \in Int
  <2>1. h.base + h.size \in Int
    BY <1>1
  <2> QED
    BY <2>1, Sizes, DivMod
<1> QED
  BY <1>1, <1>2, <1>3, <1>4

LEMMA ReadByteInRange ==
  ASSUME NEW memories, Listed(memories), NEW addr \in Addr,
         HasHandler(memories, addr)
  PROVE  ReadByte(memories, addr) \in ByteValue
<1> DEFINE i == GetHandler(memories, addr)
<1>1. i \in DOMAIN memories /\ Owns(memories[i], addr)
  BY GetHandlerFinds, ListedHandlers DEF IsFirst
<1>2. Handler(memories[i])
  BY <1>1, ListedHandlers
<1>3. addr - memories[i].base \in 0 .. (memories[i].size - 1)
  BY <1>1, <1>2, OwnedPlace
<1> QED
  BY <1>2, <1>3 DEF ReadByte, Handler

-----------------------------------------------------------------------------
(* Writing *)

\* From old to new only bytes at these places have changed.
Changes(old, new, places) ==
  /\ Listed(new)
  /\ SameRanges(old, new)
  /\ \A a \in Addr : HasHandler(old, a) /\ a \notin places
                       => ReadByte(new, a) = ReadByte(old, a)

LEMMA ChangesNothing ==
  ASSUME NEW memories, Listed(memories), NEW places
  PROVE  Changes(memories, memories, places)
BY DEF Changes, SameRanges

LEMMA ChangesCompose ==
  ASSUME NEW h1, NEW h2, NEW h3, NEW s1, NEW s2,
         Changes(h1, h2, s1), Changes(h2, h3, s2)
  PROVE  Changes(h1, h3, s1 \cup s2)
<1>1. Listed(h3) /\ SameRanges(h1, h3)
  BY DEF Changes, SameRanges
<1>2. \A a \in Addr : HasHandler(h1, a) => HasHandler(h2, a)
  BY SameSearch DEF Changes
<1>3. ASSUME NEW a \in Addr, HasHandler(h1, a), a \notin s1 \cup s2
      PROVE  ReadByte(h3, a) = ReadByte(h1, a)
  BY <1>2, <1>3 DEF Changes
<1> QED
  BY <1>1, <1>3 DEF Changes

LEMMA ChangesMore ==
  ASSUME NEW h1, NEW h2, NEW s1, NEW s2, Changes(h1, h2, s1), s1 \subseteq s2
  PROVE  Changes(h1, h2, s2)
BY DEF Changes

\* A write of a byte changes what a read of the same address finds, and no
\* other; it finds its handler exactly when a read does.
LEMMA WriteByteChanges ==
  ASSUME NEW memories, Listed(memories), NEW addr \in Addr,
         NEW byte \in ByteValue
  PROVE  /\ Changes(memories, WriteByte(memories, addr, byte), {addr})
         /\ HasHandler(memories, addr)
              => ReadByte(WriteByte(memories, addr, byte), addr) = byte
<1> DEFINE new == WriteByte(memories, addr, byte)
<1>1. CASE ~HasHandler(memories, addr)
  <2>1. new = memories
    BY <1>1 DEF WriteByte
  <2> QED
    BY <1>1, <2>1, ChangesNothing
<1>2. CASE HasHandler(memories, addr)
  <2> DEFINE i == GetHandler(memories, addr)
             o == addr - memories[i].base
  <2>1. IsFirst(memories, addr, i)
    BY <1>2, GetHandlerFinds, ListedHandlers
  <2>2. i \in DOMAIN memories /\ Handler(memories[i])
    BY <2>1, ListedHandlers DEF IsFirst
  <2>3. o \in 0 .. (memories[i].size - 1)
    BY <2>1, <2>2, OwnedPlace DEF IsFirst
  <2>4. new = [memories EXCEPT ![i].memoryArray[o] = byte]
    BY <1>2 DEF WriteByte
  <2> HIDE DEF i, new
  <2>5. DOMAIN new = DOMAIN memories
    BY <2>4
  <2>6. \A j \in DOMAIN memories : j # i => new[j] = memories[j]
    BY <2>4
  <2>7. new[i] = [memories[i] EXCEPT !.memoryArray =
                    [memories[i].memoryArray EXCEPT ![o] = byte]]
    BY <2>2, <2>4
  <2>8. /\ DOMAIN new[i] = {"base", "size", "memoryArray"}
        /\ new[i].base = memories[i].base
        /\ new[i].size = memories[i].size
        /\ new[i].memoryArray = [memories[i].memoryArray EXCEPT ![o] = byte]
    BY <2>2, <2>7 DEF Handler
  <2>9. Handler(new[i])
    BY <2>2, <2>3, <2>8 DEF Handler
  <2>10. Listed(new)
    <3>1. new[i] \in HandlerSet
      <4>1. memories[i] \in HandlerSet
        BY <2>2, ListedHandlers
      <4>2. PICK n \in Nat : memories[i] \in
              [base : Addr, size : {n}, memoryArray : [0 .. (n - 1) -> ByteValue]]
        BY <4>1 DEF HandlerSet
      <4>3. [memories[i].memoryArray EXCEPT ![o] = byte]
              \in [0 .. (n - 1) -> ByteValue]
        BY <4>2
      <4>4. new[i] \in
              [base : Addr, size : {n}, memoryArray : [0 .. (n - 1) -> ByteValue]]
        BY <2>7, <4>2, <4>3
      <4> QED
        BY <4>4 DEF HandlerSet
    <3>2. new \in [1 .. Len(memories) -> HandlerSet]
      BY <2>4, <2>5, <2>6, <3>1, ListedHandlers
    <3>3. Len(memories) \in Nat
      BY DEF Listed
    <3> QED
      BY <3>2, <3>3 DEF Listed
  <2>11. SameRanges(memories, new)
    BY <2>5, <2>6, <2>8 DEF SameRanges
  <2>12. ASSUME NEW a \in Addr, HasHandler(memories, a)
         PROVE  ReadByte(new, a) = IF a = addr THEN byte
                                   ELSE ReadByte(memories, a)
    <3> DEFINE k == GetHandler(memories, a)
    <3>1. IsFirst(memories, a, k)
      BY <2>12, GetHandlerFinds, ListedHandlers
    <3>2. GetHandler(new, a) = k
      <4>1. HasHandler(new, a) /\ IsFirst(new, a, k)
        BY <2>11, <2>12, <3>1, SameSearch
      <4>2. IsFirst(new, a, GetHandler(new, a))
        BY <2>10, <4>1, GetHandlerFinds, ListedHandlers
      <4> QED
        BY <2>10, <4>1, <4>2, FirstIsUnique, ListedHandlers
    <3>3. ReadByte(new, a) = new[k].memoryArray[a - new[k].base]
      BY <3>2 DEF ReadByte
    <3>4. ReadByte(memories, a) = memories[k].memoryArray[a - memories[k].base]
      BY DEF ReadByte
    <3>5. k \in DOMAIN memories
      BY <3>1 DEF IsFirst
    <3>6. CASE k # i
      <4>1. a # addr
        BY <3>6 DEF i
      <4> QED
        BY <2>6, <3>3, <3>4, <3>5, <3>6, <4>1
    <3>7. CASE k = i
      <4>1. ReadByte(new, a) =
              [memories[i].memoryArray EXCEPT ![o] = byte][a - memories[i].base]
        BY <2>8, <3>3, <3>7
      <4>2. a - memories[i].base \in DOMAIN memories[i].memoryArray
        BY <2>2, <3>1, <3>7, OwnedPlace DEF IsFirst, Handler
      <4>3. (a - memories[i].base = o) <=> a = addr
        BY <2>2, Sizes DEF Handler, Addr
      <4> QED
        BY <3>4, <3>7, <4>1, <4>2, <4>3
    <3> QED
      BY <3>6, <3>7
  <2> QED
    BY <1>2, <2>10, <2>11, <2>12 DEF Changes, new
<1> QED
  BY <1>1, <1>2

-----------------------------------------------------------------------------
(* Halfwords and words *)

\* The four places of a word are different addresses, also where they wrap.
LEMMA Places ==
  ASSUME NEW addr \in Addr
  PROVE  /\ After(addr, 0) = addr
         /\ \A k \in 0 .. 3 : After(addr, k) \in Addr
         /\ \A k, l \in 0 .. 3 : k # l => After(addr, k) # After(addr, l)
         /\ After(After(addr, 2), 1) = After(addr, 3)
<1>1. addr \in 0 .. (AddrSpace - 1) /\ AddrSpace \in Nat /\ AddrSpace >= 4
  BY Sizes DEF Addr
<1>2. \A n \in Nat : n < AddrSpace => n % AddrSpace = n
  BY <1>1, ModSmall
<1>3. \A n \in Nat : n < AddrSpace => (n + AddrSpace) % AddrSpace = n
  <2>1. \A n \in Nat : n < AddrSpace => 1 * AddrSpace + n = n + AddrSpace
    BY <1>1
  <2>2. \A n \in Nat : n < AddrSpace => (1 * AddrSpace + n) % AddrSpace = n
    BY <1>1, DivModUnique
  <2> QED
    BY <2>1, <2>2
<1>4. \A k \in 0 .. 3 :
        After(addr, k) = IF addr + k < AddrSpace THEN addr + k
                         ELSE addr + k - AddrSpace
  <2> SUFFICES ASSUME NEW k \in 0 .. 3
               PROVE  After(addr, k) = IF addr + k < AddrSpace THEN addr + k
                                       ELSE addr + k - AddrSpace
    OBVIOUS
  <2>1. CASE addr + k < AddrSpace
    BY <1>1, <1>2, <2>1 DEF After
  <2>2. CASE addr + k >= AddrSpace
    <3>1. /\ addr + k - AddrSpace \in Nat
          /\ addr + k - AddrSpace < AddrSpace
          /\ (addr + k - AddrSpace) + AddrSpace = addr + k
      BY <1>1, <2>2
    <3>2. ((addr + k - AddrSpace) + AddrSpace) % AddrSpace = addr + k - AddrSpace
      BY <1>3, <3>1
    <3> QED
      BY <1>1, <2>2, <3>1, <3>2 DEF After
  <2> QED
    BY <1>1, <2>1, <2>2
<1>5. \A k \in 0 .. 3 : After(addr, k) \in Addr
  BY <1>1, <1>4 DEF Addr
<1>6. After(After(addr, 2), 1) = After(addr, 3)
  <2> DEFINE b == After(addr, 2)
  <2>1. b = IF addr + 2 < AddrSpace THEN addr + 2 ELSE addr + 2 - AddrSpace
    BY <1>4
  <2>2. After(addr, 3) = IF addr + 3 < AddrSpace THEN addr + 3
                         ELSE addr + 3 - AddrSpace
    BY <1>4
  <2>3. After(b, 1) = IF b + 1 < AddrSpace THEN b + 1 ELSE 0
    <3>1. b \in 0 .. (AddrSpace - 1)
      BY <1>5 DEF Addr
    <3> HIDE DEF b
    <3>2. CASE b + 1 < AddrSpace
      BY <1>2, <3>1, <3>2 DEF After
    <3>3. CASE b + 1 >= AddrSpace
      <4>1. b + 1 = 0 + AddrSpace
        BY <1>1, <3>1, <3>3
      <4>2. (0 + AddrSpace) % AddrSpace = 0
        BY <1>1, <1>3
      <4> QED
        BY <1>1, <4>1, <4>2 DEF After
    <3> QED
      BY <1>1, <3>1, <3>2, <3>3
  <2> HIDE DEF b
  <2>4. After(b, 1) = After(addr, 3)
    BY <1>1, <2>1, <2>2, <2>3
  <2> QED
    BY <2>4 DEF b
<1> QED
  BY <1>1, <1>4, <1>5, <1>6

\* What the bytes of a number of n bytes are, the lowest first.
Digit(v, k) ==
  CASE k = 0 -> v % Byte
    [] k = 1 -> (v \div Byte) % Byte
    [] k = 2 -> (v \div (Byte * Byte)) % Byte
    [] k = 3 -> v \div (Byte * Byte * Byte)

Values(n) == CASE n = 1 -> Byte [] n = 2 -> Half [] n = 4 -> Word

LEMMA WordDigits ==
  ASSUME NEW c0 \in ByteValue, NEW c1 \in ByteValue, NEW c2 \in ByteValue,
         NEW c3 \in ByteValue,
         NEW v, v = (c0 + Byte * c1) + Half * (c2 + Byte * c3)
  PROVE  /\ v \in 0 .. (Word - 1)
         /\ Digit(v, 0) = c0 /\ Digit(v, 1) = c1
         /\ Digit(v, 2) = c2 /\ Digit(v, 3) = c3
<1> DEFINE w == Compose(Byte, c0, c1, c2, c3)
<1>1. v = w
  BY DEF Half, Compose
<1>2. /\ c0 \in 0 .. (Byte - 1) /\ c1 \in 0 .. (Byte - 1)
      /\ c2 \in 0 .. (Byte - 1) /\ c3 \in 0 .. (Byte - 1)
      /\ Byte \in Nat \ {0}
  BY Sizes DEF ByteValue
<1>3. /\ w \in 0 .. ((Byte * Byte) * (Byte * Byte) - 1)
      /\ w % Byte = c0
      /\ (w \div Byte) % Byte = c1
      /\ (w \div (Byte * Byte)) % Byte = c2
      /\ w \div (Byte * Byte * Byte) = c3
  BY <1>2, FourDigits
<1> QED
  BY <1>1, <1>3 DEF Digit, Half, Word

\* A read puts the bytes together, the lowest address lowest.
LEMMA ReadDigits ==
  ASSUME NEW memories, Listed(memories), NEW addr \in Addr,
         NEW n \in {1, 2, 4}, Backed(memories, addr, n)
  PROVE  /\ Read(memories, addr, n) \in 0 .. (Values(n) - 1)
         /\ \A k \in 0 .. (n - 1) :
              Digit(Read(memories, addr, n), k) = ReadByte(memories, After(addr, k))
<1> DEFINE b(k) == ReadByte(memories, After(addr, k))
<1>1. \A k \in 0 .. (n - 1) : b(k) \in 0 .. (Byte - 1)
  <2>1. \A k \in 0 .. (n - 1) : k \in 0 .. 3
    OBVIOUS
  <2> QED
    BY <2>1, Places, ReadByteInRange DEF Backed, ByteValue
<1>2. After(addr, 0) = addr /\ After(After(addr, 2), 1) = After(addr, 3)
  BY Places
<1>3. CASE n = 1
  <2>1. Read(memories, addr, n) = b(0) /\ b(0) \in 0 .. (Byte - 1)
    BY <1>1, <1>2, <1>3 DEF Read
  <2>2. b(0) % Byte = b(0)
    BY <2>1, Sizes, ModSmall
  <2> QED
    BY <1>3, <2>1, <2>2 DEF Digit, Values
<1>4. CASE n = 2
  <2>1. Read(memories, addr, n) = b(0) + Byte * b(1)
    BY <1>2, <1>4 DEF Read, ReadHalfword
  <2>2. b(0) \in 0 .. (Byte - 1) /\ b(1) \in 0 .. (Byte - 1)
    BY <1>1, <1>4
  <2> HIDE DEF b
  <2> DEFINE v == b(0) + Byte * b(1)
  <2>3. v \in 0 .. (Byte * Byte - 1) /\ v % Byte = b(0) /\ v \div Byte = b(1)
    BY <2>2, Sizes, TwoDigits
  <2>4. b(1) % Byte = b(1)
    BY <2>2, Sizes, ModSmall
  <2> HIDE DEF v
  <2>5. v \in 0 .. (Half - 1) /\ Digit(v, 0) = b(0) /\ Digit(v, 1) = b(1)
    BY <2>3, <2>4 DEF Digit, Half
  <2>6. \A k \in 0 .. (n - 1) : k = 0 \/ k = 1
    BY <1>4
  <2> QED
    BY <1>4, <2>1, <2>5, <2>6 DEF Values, b, v
<1>5. CASE n = 4
  <2>1. Read(memories, addr, n) = (b(0) + Byte * b(1)) + Half * (b(2) + Byte * b(3))
    BY <1>2, <1>5 DEF Read, ReadWord, ReadHalfword
  <2>2. /\ b(0) \in ByteValue /\ b(1) \in ByteValue
        /\ b(2) \in ByteValue /\ b(3) \in ByteValue
    BY <1>1, <1>5 DEF ByteValue
  <2> DEFINE v == Read(memories, addr, n)
  <2> HIDE DEF b, v
  <2>3. v = (b(0) + Byte * b(1)) + Half * (b(2) + Byte * b(3))
    BY <2>1 DEF v
  <2>4. /\ v \in 0 .. (Word - 1)
        /\ Digit(v, 0) = b(0) /\ Digit(v, 1) = b(1)
        /\ Digit(v, 2) = b(2) /\ Digit(v, 3) = b(3)
    BY <2>2, <2>3, WordDigits
  <2>5. \A k \in 0 .. (n - 1) : k = 0 \/ k = 1 \/ k = 2 \/ k = 3
    BY <1>5
  <2> QED
    BY <1>5, <2>4, <2>5 DEF Values, b, v
<1> QED
  BY <1>3, <1>4, <1>5

LEMMA BytesOfNat ==
  ASSUME NEW v \in Nat
  PROVE  /\ v % Byte \in ByteValue /\ (v \div Byte) % Byte \in ByteValue
         /\ v % Half \in 0 .. (Half - 1) /\ (v \div Half) % Half \in 0 .. (Half - 1)
<1>1. v \div Byte \in Nat /\ v \div Half \in Nat
  BY Sizes, QuotientNat
<1>2. v \in Int /\ v \div Byte \in Int /\ v \div Half \in Int
  BY <1>1
<1> QED
  BY <1>2, Sizes, DivMod DEF ByteValue

LEMMA WriteHalfwordChanges ==
  ASSUME NEW memories, Listed(memories), NEW addr \in Addr, NEW v \in Nat
  PROVE  LET new == WriteHalfword(memories, addr, v)
         IN  /\ Changes(memories, new, {addr, After(addr, 1)})
             /\ HasHandler(memories, addr) /\ HasHandler(memories, After(addr, 1))
                  => /\ ReadByte(new, addr) = v % Byte
                     /\ ReadByte(new, After(addr, 1)) = (v \div Byte) % Byte
<1> DEFINE next  == After(addr, 1)
           byte0 == v % Byte
           byte1 == (v \div Byte) % Byte
           mid   == WriteByte(memories, addr, byte0)
           new   == WriteHalfword(memories, addr, v)
<1>1. next \in Addr /\ next # addr
  BY Places
<1>2. byte0 \in ByteValue /\ byte1 \in ByteValue
  BY BytesOfNat
<1>3. CASE ~HasHandler(memories, addr)
  <2>1. new = memories
    BY <1>3 DEF WriteHalfword
  <2> QED
    BY <1>3, <2>1, ChangesNothing
<1>4. CASE HasHandler(memories, addr)
  <2>1. new = WriteByte(mid, next, byte1)
    BY <1>4 DEF WriteHalfword
  <2>2. Changes(memories, mid, {addr}) /\ ReadByte(mid, addr) = byte0
    BY <1>2, <1>4, WriteByteChanges
  <2>3. Listed(mid) /\ SameRanges(memories, mid)
    BY <2>2 DEF Changes
  <2>4. /\ Changes(mid, new, {next})
        /\ HasHandler(mid, next) => ReadByte(new, next) = byte1
    BY <1>1, <1>2, <2>1, <2>3, WriteByteChanges
  <2>5. Changes(memories, new, {addr} \cup {next})
    BY <2>2, <2>4, ChangesCompose
  <2>6. Changes(memories, new, {addr, next})
    BY <2>5, ChangesMore
  <2>7. HasHandler(mid, addr) /\ (HasHandler(memories, next) => HasHandler(mid, next))
    BY <1>4, <2>3, SameSearch
  <2>8. ReadByte(new, addr) = byte0
    BY <1>1, <2>2, <2>4, <2>7 DEF Changes
  <2> QED
    BY <2>4, <2>6, <2>7, <2>8
<1> QED
  BY <1>3, <1>4

LEMMA WriteWordChanges ==
  ASSUME NEW memories, Listed(memories), NEW addr \in Addr,
         NEW v \in 0 .. (Word - 1)
  PROVE  LET new == WriteWord(memories, addr, v)
         IN  /\ Changes(memories, new, {After(addr, k) : k \in 0 .. 3})
             /\ Backed(memories, addr, 4)
                  => \A k \in 0 .. 3 : ReadByte(new, After(addr, k)) = Digit(v, k)
<1> DEFINE half0 == v % Half
           half1 == (v \div Half) % Half
           a1    == After(addr, 1)
           a2    == After(addr, 2)
           a3    == After(addr, 3)
           all   == {After(addr, k) : k \in 0 .. 3}
           mid   == WriteHalfword(memories, addr, half0)
           new   == WriteWord(memories, addr, v)
<1>1. /\ After(addr, 0) = addr /\ After(a2, 1) = a3
      /\ a1 \in Addr /\ a2 \in Addr /\ a3 \in Addr
      /\ addr # a2 /\ addr # a3 /\ a1 # a2 /\ a1 # a3
  BY Places
<1>2. {addr, a1} \subseteq all /\ {a2, a3} \subseteq all
  BY <1>1
<1>3. v \in Nat /\ half0 \in Nat /\ half1 \in Nat
  BY Sizes, BytesOfNat
<1>4. /\ Changes(memories, mid, {addr, a1})
      /\ HasHandler(memories, addr) /\ HasHandler(memories, a1)
           => ReadByte(mid, addr) = half0 % Byte
                /\ ReadByte(mid, a1) = (half0 \div Byte) % Byte
  BY <1>3, WriteHalfwordChanges
<1>5. Listed(mid) /\ SameRanges(memories, mid)
  BY <1>4 DEF Changes
<1>6. CASE ~Backed(memories, addr, 2)
  <2>1. new = mid
    BY <1>6 DEF WriteWord
  <2>2. ~Backed(memories, addr, 4)
    BY <1>6 DEF Backed
  <2> QED
    BY <1>2, <1>4, <2>1, <2>2, ChangesMore
<1>7. CASE Backed(memories, addr, 2)
  <2>1. new = WriteHalfword(mid, a2, half1)
    BY <1>7 DEF WriteWord
  <2>2. /\ Changes(mid, new, {a2, a3})
        /\ HasHandler(mid, a2) /\ HasHandler(mid, a3)
             => ReadByte(new, a2) = half1 % Byte
                  /\ ReadByte(new, a3) = (half1 \div Byte) % Byte
    <3> HIDE DEF mid, half1
    <3> QED
      BY <1>1, <1>3, <1>5, <2>1, WriteHalfwordChanges
  <2>3. Changes(memories, new, all)
    <3>1. Changes(memories, new, {addr, a1} \cup {a2, a3})
      BY <1>4, <2>2, ChangesCompose
    <3>2. {addr, a1} \cup {a2, a3} \subseteq all
      BY <1>2
    <3> QED
      BY <3>1, <3>2, ChangesMore
  <2>4. ASSUME Backed(memories, addr, 4)
        PROVE  \A k \in 0 .. 3 : ReadByte(new, After(addr, k)) = Digit(v, k)
    <3>1. /\ HasHandler(memories, addr) /\ HasHandler(memories, a1)
          /\ HasHandler(memories, a2) /\ HasHandler(memories, a3)
      BY <1>1, <2>4 DEF Backed
    <3>2. /\ HasHandler(mid, addr) /\ HasHandler(mid, a1)
          /\ HasHandler(mid, a2) /\ HasHandler(mid, a3)
      BY <1>5, <3>1, SameSearch
    <3>3. ReadByte(new, addr) = ReadByte(mid, addr)
            /\ ReadByte(new, a1) = ReadByte(mid, a1)
      BY <1>1, <2>2, <3>2 DEF Changes
    <3> DEFINE c0 == half0 % Byte
               c1 == (half0 \div Byte) % Byte
               c2 == half1 % Byte
               c3 == (half1 \div Byte) % Byte
    <3>4. /\ c0 \in ByteValue /\ c1 \in ByteValue
          /\ c2 \in ByteValue /\ c3 \in ByteValue
      BY <1>3, BytesOfNat
    <3>5. v = (c0 + Byte * c1) + Half * (c2 + Byte * c3)
      <4>1. /\ half0 \in 0 .. (Half - 1) /\ v \div Half \in 0 .. (Half - 1)
            /\ v = half0 + Half * (v \div Half)
        BY Sizes, TwoDigitsOf DEF Word
      <4>2. half1 = v \div Half
        BY <4>1, Sizes, ModSmall
      <4>3. \A h \in 0 .. (Half - 1) :
              h = (h % Byte) + Byte * ((h \div Byte) % Byte)
        <5> SUFFICES ASSUME NEW h \in 0 .. (Half - 1)
                     PROVE  h = (h % Byte) + Byte * ((h \div Byte) % Byte)
          OBVIOUS
        <5>1. h \in 0 .. (Byte * Byte - 1)
          BY DEF Half
        <5>2. h \div Byte \in 0 .. (Byte - 1) /\ h = (h % Byte) + Byte * (h \div Byte)
          BY <5>1, Sizes, TwoDigitsOf
        <5>3. (h \div Byte) % Byte = h \div Byte
          BY <5>2, Sizes, ModSmall
        <5> QED
          BY <5>2, <5>3
      <4> HIDE DEF half0, half1
      <4>4. half1 \in 0 .. (Half - 1) /\ v = half0 + Half * half1
        BY <4>1, <4>2
      <4>5. half0 = c0 + Byte * c1 /\ half1 = c2 + Byte * c3
        BY <4>1, <4>3, <4>4
      <4> HIDE DEF c0, c1, c2, c3
      <4> QED
        BY <4>4, <4>5
    <3> HIDE DEF c0, c1, c2, c3
    <3>6. /\ Digit(v, 0) = c0 /\ Digit(v, 1) = c1
          /\ Digit(v, 2) = c2 /\ Digit(v, 3) = c3
      BY <3>4, <3>5, WordDigits
    <3>7. /\ ReadByte(new, addr) = c0 /\ ReadByte(new, a1) = c1
          /\ ReadByte(new, a2) = c2 /\ ReadByte(new, a3) = c3
      BY <1>4, <2>2, <3>1, <3>2, <3>3 DEF c0, c1, c2, c3
    <3> HIDE DEF new
    <3> QED
      BY <1>1, <3>6, <3>7
  <2> QED
    BY <2>3, <2>4
<1> QED
  BY <1>6, <1>7

\* A write of n bytes changes the n places, to the digits of the value, or,
\* when one of them has no handler, at most some of them.
LEMMA WriteDigits ==
  ASSUME NEW memories, Listed(memories), NEW addr \in Addr,
         NEW n \in {1, 2, 4}, NEW v \in 0 .. (Word - 1)
  PROVE  LET new == Write(memories, addr, n, v)
         IN  /\ Changes(memories, new, {After(addr, k) : k \in 0 .. (n - 1)})
             /\ v % Values(n) \in Nat
             /\ Backed(memories, addr, n)
                  => \A k \in 0 .. (n - 1) :
                       ReadByte(new, After(addr, k)) = Digit(v % Values(n), k)
<1> DEFINE new == Write(memories, addr, n, v)
<1>1. After(addr, 0) = addr
  BY Places
<1>2. v \in Nat /\ v \in Int /\ v < Word
  BY Sizes
<1>3. CASE n = 1
  <2>1. new = WriteByte(memories, addr, v % Byte) /\ Values(n) = Byte
    BY <1>3 DEF Write, Values
  <2>2. v % Byte \in ByteValue /\ v % Byte \in Nat
    BY <1>2, BytesOfNat, Sizes DEF ByteValue
  <2>3. /\ Changes(memories, new, {addr})
        /\ HasHandler(memories, addr) => ReadByte(new, addr) = v % Byte
    BY <2>1, <2>2, WriteByteChanges
  <2>4. {After(addr, k) : k \in 0 .. (n - 1)} = {addr}
    BY <1>1, <1>3
  <2>5. Digit(v % Byte, 0) = v % Byte
    BY <2>2, Sizes, ModSmall DEF Digit, ByteValue
  <2>6. Backed(memories, addr, n) => HasHandler(memories, addr)
    BY <1>1, <1>3 DEF Backed
  <2>7. \A k \in 0 .. (n - 1) : k = 0
    BY <1>3
  <2> HIDE DEF new
  <2>8. Changes(memories, new, {After(addr, k) : k \in 0 .. (n - 1)})
    BY <2>3, <2>4
  <2>9. Backed(memories, addr, n)
          => \A k \in 0 .. (n - 1) : ReadByte(new, After(addr, k)) = Digit(v % Byte, k)
    BY <1>1, <2>3, <2>5, <2>6, <2>7
  <2> QED
    BY <2>1, <2>2, <2>8, <2>9 DEF new
<1>4. CASE n = 2
  <2> DEFINE w == v % Half
  <2>1. new = WriteHalfword(memories, addr, w) /\ Values(n) = Half
    BY <1>4 DEF Write, Values
  <2>2. w \in Nat
    BY <1>2, BytesOfNat, Sizes
  <2>3. /\ Changes(memories, new, {addr, After(addr, 1)})
        /\ HasHandler(memories, addr) /\ HasHandler(memories, After(addr, 1))
             => /\ ReadByte(new, addr) = w % Byte
                /\ ReadByte(new, After(addr, 1)) = (w \div Byte) % Byte
    <3> HIDE DEF w
    <3> QED
      BY <2>1, <2>2, WriteHalfwordChanges
  <2>4. {addr, After(addr, 1)} \subseteq {After(addr, k) : k \in 0 .. (n - 1)}
    BY <1>1, <1>4
  <2>5. Backed(memories, addr, n)
          => HasHandler(memories, addr) /\ HasHandler(memories, After(addr, 1))
    BY <1>1, <1>4 DEF Backed
  <2>6. \A k \in 0 .. (n - 1) : k = 0 \/ k = 1
    BY <1>4
  <2> HIDE DEF new, w
  <2>7. Changes(memories, new, {After(addr, k) : k \in 0 .. (n - 1)})
    BY <2>3, <2>4, ChangesMore
  <2>8. Digit(w, 0) = w % Byte /\ Digit(w, 1) = (w \div Byte) % Byte
    BY DEF Digit
  <2>9. Backed(memories, addr, n)
          => \A k \in 0 .. (n - 1) : ReadByte(new, After(addr, k)) = Digit(w, k)
    BY <1>1, <2>3, <2>5, <2>6, <2>8
  <2> QED
    BY <2>1, <2>2, <2>7, <2>9 DEF new, w
<1>5. CASE n = 4
  <2>1. new = WriteWord(memories, addr, v) /\ Values(n) = Word
    BY <1>5 DEF Write, Values
  <2>2. v % Word = v
    BY <1>2, Sizes, ModSmall
  <2>3. n - 1 = 3
    BY <1>5
  <2>4. /\ Changes(memories, new, {After(addr, k) : k \in 0 .. 3})
        /\ Backed(memories, addr, 4)
             => \A k \in 0 .. 3 : ReadByte(new, After(addr, k)) = Digit(v, k)
    BY <2>1, WriteWordChanges
  <2> QED
    BY <1>2, <1>5, <2>1, <2>2, <2>3, <2>4
<1> QED
  BY <1>3, <1>4, <1>5

-----------------------------------------------------------------------------
(* The types of Accesses *)

\* TypeOK, and that the handlers are a list.
Types == TypeOK /\ Listed(handlers)

LEMMA ElementType ==
  ASSUME NEW S, NEW s \in Seq(S), NEW i \in 1 .. Len(s) PROVE s[i] \in S
OBVIOUS

LEMMA ValuesFit ==
  \A n \in {1, 2, 4} : Values(n) \in Nat \ {0} /\ Values(n) <= Word
<1>1. Byte <= Half /\ Half <= Word
  <2>1. \A b \in Nat \ {0} : b <= b * b
    <3> SUFFICES ASSUME NEW b \in Nat \ {0} PROVE b <= b * b
      OBVIOUS
    <3>1. 1 * b <= b * b
      BY Monotone
    <3> QED
      BY <3>1
  <2> QED
    BY <2>1, Sizes DEF Half, Word
<1> QED
  BY <1>1, Sizes DEF Values

LEMMA WithType ==
  ASSUME NEW g \in [Registers -> WordValue], NEW rd \in Registers,
         NEW v \in WordValue
  PROVE  /\ With(g, rd, v) \in [Registers -> WordValue]
         /\ With(g, rd, v)[0] = 0
<1>1. 0 \in WordValue
  BY Sizes DEF WordValue
<1> QED
  BY <1>1, AccessesAssumption DEF With

LEMMA LookupInRange ==
  ASSUME Listed(handlers), NEW a \in Addr, NEW n \in {1, 2, 4}, Backs(a, n)
  PROVE  Lookup(a, n) \in 0 .. (Values(n) - 1) /\ Lookup(a, n) \in WordValue
<1>1. Lookup(a, n) \in 0 .. (Values(n) - 1)
  BY ReadDigits DEF Backs, Lookup
<1> QED
  BY <1>1, ValuesFit, Sizes DEF WordValue

LEMMA ExtendInRange ==
  ASSUME NEW n \in {1, 2}, NEW v \in 0 .. (Values(n) - 1)
  PROVE  SIGN_EXTEND(v, Values(n)) \in WordValue
<1>1. Values(n) \in Nat \ {0} /\ Values(n) <= Word /\ Word \in Nat
  BY ValuesFit, Sizes
<1> QED
  BY <1>1 DEF SIGN_EXTEND, WordValue

LEMMA ResultsInRange ==
  ASSUME NEW op \in AmoOps, NEW val \in WordValue, NEW x \in WordValue,
         NEW new \in Results(op, val, x)
  PROVE  new \in WordValue
<1>1. op \in AllAmoOps
  BY AccessesAssumption
<1>2. (val + x) % Word \in WordValue
  <2>1. val + x \in Int
    BY Sizes DEF WordValue
  <2> QED
    BY <2>1, Sizes, DivMod DEF WordValue
<1>3. \A bits : \A w \in WithBits(bits) : w \in WordValue
  BY DEF WithBits
<1> QED
  BY <1>1, <1>2, <1>3 DEF Results, AllAmoOps

LEMMA BasicMemoryType ==
  ASSUME NEW base \in Addr, NEW size \in Nat
  PROVE  BasicMemory(base, size) \in HandlerSet
<1>1. [o \in 0 .. (size - 1) |-> 0] \in [0 .. (size - 1) -> ByteValue]
  BY Sizes DEF ByteValue
<1> QED
  BY <1>1 DEF BasicMemory, HandlerSet

\* loadMemory changes bytes of the first memory, and nothing else.
LEMMA FilledType ==
  ASSUME NEW h \in HandlerSet, NEW addrs, NEW byte \in ByteValue
  PROVE  /\ Filled(h, addrs, byte) \in HandlerSet
         /\ Filled(h, addrs, byte).base = h.base
         /\ Filled(h, addrs, byte).size = h.size
         /\ \A o \in DOMAIN h.memoryArray :
              Filled(h, addrs, byte).memoryArray[o] =
                IF h.base + o \in addrs THEN byte ELSE h.memoryArray[o]
<1>1. PICK n \in Nat : h \in [base : Addr, size : {n},
                              memoryArray : [0 .. (n - 1) -> ByteValue]]
  BY DEF HandlerSet
<1> DEFINE array == [o \in DOMAIN h.memoryArray |->
                       IF h.base + o \in addrs THEN byte ELSE h.memoryArray[o]]
<1>2. array \in [0 .. (n - 1) -> ByteValue]
  BY <1>1
<1>3. Filled(h, addrs, byte) = [h EXCEPT !.memoryArray = array]
  BY <1>1 DEF Filled
<1>6. \A o \in DOMAIN h.memoryArray :
        array[o] = IF h.base + o \in addrs THEN byte ELSE h.memoryArray[o]
  OBVIOUS
<1> HIDE DEF array
<1>4. Filled(h, addrs, byte) \in [base : Addr, size : {n},
                                  memoryArray : [0 .. (n - 1) -> ByteValue]]
  BY <1>1, <1>2, <1>3
<1>5. /\ Filled(h, addrs, byte).base = h.base
      /\ Filled(h, addrs, byte).size = h.size
  BY <1>1, <1>3
<1>7. Filled(h, addrs, byte).memoryArray = array
  BY <1>1, <1>3
<1> QED
  BY <1>4, <1>5, <1>6, <1>7 DEF HandlerSet

LEMMA LoadMemoryFills ==
  ASSUME Types, NEW size \in FileSizes, LoadMemory(size)
  PROVE  Listed(handlers') /\ SameRanges(handlers, handlers')
<1> DEFINE k     == Len(images) + 1
           addrs == ImageAddrs(Starts[k], size)
           new   == Filled(handlers[1], addrs, Contents[k])
<1>1. Len(handlers) = Len(Devices) /\ handlers' = [handlers EXCEPT ![1] = new]
  BY DEF LoadMemory
<1>2. Len(Devices) \in Nat \ {0}
  BY AccessesAssumption
<1>3. DOMAIN handlers = 1 .. Len(handlers) /\ handlers[1] \in HandlerSet
  BY <1>1, <1>2, ListedHandlers DEF Types
<1>4. Contents[k] \in ByteValue
  <2>1. Len(images) \in Nat /\ Len(images) < Len(Contents)
    BY AccessesAssumption DEF LoadMemory, Types, TypeOK
  <2> QED
    BY <2>1, AccessesAssumption
<1>5. new \in HandlerSet /\ new.base = handlers[1].base /\ new.size = handlers[1].size
  BY <1>3, <1>4, FilledType
<1> HIDE DEF new
<1>6. handlers' \in Seq(HandlerSet)
  <2>1. handlers \in Seq(HandlerSet)
    BY DEF Types, Listed
  <2>2. handlers \in [1 .. Len(handlers) -> HandlerSet] /\ Len(handlers) \in Nat
    BY <2>1
  <2>3. handlers' \in [1 .. Len(handlers) -> HandlerSet]
    BY <1>1, <1>5, <2>2
  <2> QED
    BY <2>2, <2>3
<1>7. SameRanges(handlers, handlers')
  BY <1>1, <1>3, <1>5 DEF SameRanges
<1> QED
  BY <1>6, <1>7 DEF Listed

-----------------------------------------------------------------------------
(* Types *)

LEMMA LinkedType ==
  ASSUME TypeOK, NEW a \in Addr
  PROVE  Touched(a) = {} \/ \E l \in Links : Touched(a) = {l}
<1>1. CASE linked = {}
  BY <1>1 DEF Touched
<1>2. ASSUME NEW l \in Links, linked = {l}
      PROVE  \E m \in Links : Touched(a) = {m}
  <2> DEFINE m == [l EXCEPT !.intact =
                     @ /\ (l.thread = thread \/ l.addr # a - (a % 4))]
  <2>1. Touched(a) = {m}
    BY <1>2 DEF Touched
  <2>2. l.intact \in BOOLEAN
    BY DEF Links
  <2>3. m \in Links
    BY <2>2 DEF Links
  <2> QED
    BY <2>1, <2>3
<1> QED
  BY <1>1, <1>2 DEF TypeOK

\* Writes of every size keep the handlers a list.
LEMMA WriteListed ==
  ASSUME Types, NEW a \in Addrs, NEW n \in {1, 2, 4}, NEW v \in WordValue
  PROVE  Listed(Write(handlers, a, n, v))
<1>1. a \in Addr /\ v \in 0 .. (Word - 1)
  BY AccessesAssumption DEF WordValue
<1> QED
  BY <1>1, WriteDigits DEF Types, Changes

LEMMA SizeType == \A op \in Loads \cup Stores : Size(op) \in {1, 2, 4}
BY DEF Size, Loads, Stores

LEMMA RegisterTypes == Types /\ RegisterHandler => Types'
<1> SUFFICES ASSUME Types, RegisterHandler PROVE Types'
  OBVIOUS
<1> DEFINE d == Devices[Len(handlers) + 1]
<1>1. handlers \in Seq(HandlerSet)
  BY DEF Types, Listed
<1>2. d.base \in Addr /\ d.size \in Nat
  <2>1. Len(handlers) \in Nat /\ Len(handlers) < Len(Devices)
    BY <1>1 DEF RegisterHandler
  <2>2. Devices \in Seq([base : Addr, size : Nat])
    BY AccessesAssumption
  <2>3. Len(handlers) + 1 \in 1 .. Len(Devices)
    BY <2>1, <2>2
  <2>4. d \in [base : Addr, size : Nat]
    BY <2>2, <2>3, ElementType
  <2> QED
    BY <2>4
<1>3. handlers' = Append(handlers, BasicMemory(d.base, d.size))
  BY DEF RegisterHandler
<1>4. Listed(handlers')
  <2>1. BasicMemory(d.base, d.size) \in HandlerSet
    BY <1>2, BasicMemoryType
  <2> QED
    BY <1>1, <1>3, <2>1 DEF Listed
<1> QED
  BY <1>4, ListedHandlers DEF RegisterHandler, hartVars, Types, TypeOK

LEMMA LoadMemoryTypes ==
  ASSUME Types, NEW size \in FileSizes, LoadMemory(size) PROVE Types'
<1>1. Listed(handlers')
  BY LoadMemoryFills
<1>2. images' \in Seq([start : Addr, size : Nat, byte : ByteValue])
  <2> DEFINE k == Len(images) + 1
  <2>1. /\ Len(images) \in Nat /\ Len(images) < Len(Starts)
        /\ Len(Contents) = Len(Starts)
    BY AccessesAssumption DEF LoadMemory, Types, TypeOK
  <2>2. Starts[k] \in Addr /\ Contents[k] \in ByteValue /\ size \in Nat
    BY <2>1, AccessesAssumption
  <2>3. images' = Append(images, [start |-> Starts[k], size |-> size,
                                  byte |-> Contents[k]])
    BY DEF LoadMemory
  <2> QED
    BY <2>2, <2>3 DEF Types, TypeOK
<1> QED
  BY <1>1, <1>2, ListedHandlers DEF LoadMemory, hartVars, Types, TypeOK

LEMMA StartTypes == Types /\ Start => Types'
<1> SUFFICES ASSUME Types, Start PROVE Types'
  OBVIOUS
<1>1. {0, Starts[Len(Starts)] % Word} \subseteq WordValue
  <2>1. Starts[Len(Starts)] \in Addr
    BY AccessesAssumption
  <2>2. Starts[Len(Starts)] \in Int
    BY <2>1, Sizes DEF Addr
  <2>3. Starts[Len(Starts)] % Word \in 0 .. (Word - 1)
    BY <2>2, Sizes, DivMod
  <2> QED
    BY <2>3, Sizes DEF WordValue
<1>2. gpr' \in [Registers -> WordValue] /\ gpr'[0] = 0
  BY <1>1 DEF Start
<1>3. images' = <<>> /\ phase' = "software"
  BY DEF Start
<1>4. UNCHANGED <<handlers, reservationSetValid, thread, linked>>
  BY DEF Start
<1> QED
  BY <1>2, <1>3, <1>4 DEF Types, TypeOK

LEMMA LoadTypes ==
  ASSUME Types, NEW op \in Loads, NEW a \in Addrs, NEW r \in Registers,
         Load(op, a, r)
  PROVE  Types'
<1> DEFINE n == Size(op)
           v == Lookup(a, n)
           x == CASE op = "LB" -> SIGN_EXTEND(v, Byte)
                  [] op = "LH" -> SIGN_EXTEND(v, Half)
                  [] OTHER -> v
<1>1. n \in {1, 2, 4} /\ a \in Addr
  BY SizeType, AccessesAssumption
<1>2. handlers' = handlers
  BY DEF Load
<1>3. CASE Backs(a, n)
  <2>1. v \in 0 .. (Values(n) - 1) /\ v \in WordValue
    BY <1>1, <1>3, LookupInRange DEF Types
  <2>2. x \in WordValue
    <3>1. CASE op = "LB"
      <4>1. n = 1 /\ Values(1) = Byte
        BY <3>1 DEF Size, Values
      <4> HIDE DEF v
      <4> QED
        BY <2>1, <3>1, <4>1, ExtendInRange
    <3>2. CASE op = "LH"
      <4>1. n = 2 /\ Values(2) = Half
        BY <3>2 DEF Size, Values
      <4> HIDE DEF v
      <4> QED
        BY <2>1, <3>2, <4>1, ExtendInRange
    <3>3. CASE op \notin {"LB", "LH"}
      BY <2>1, <3>3
    <3> QED
      BY <3>1, <3>2, <3>3
  <2>3. gpr' = With(gpr, r, x)
    BY <1>3 DEF Load, Extended
  <2> HIDE DEF x
  <2>4. gpr' \in [Registers -> WordValue] /\ gpr'[0] = 0
    BY <2>2, <2>3, WithType DEF Types, TypeOK
  <2>5. phase' = "access" /\ UNCHANGED <<reservationSetValid, images, thread, linked>>
    BY <1>3 DEF Load
  <2> QED
    BY <1>2, <2>4, <2>5 DEF Types, TypeOK
<1>4. CASE ~Backs(a, n)
  <2>1. Throw
    BY <1>4 DEF Load
  <2> QED
    BY <1>2, <2>1 DEF Throw, Types, TypeOK
<1> QED
  BY <1>3, <1>4

LEMMA StoreTypes ==
  ASSUME Types, NEW op \in Stores, NEW a \in Addrs, NEW r \in Registers,
         Store(op, a, r)
  PROVE  Types'
<1> DEFINE n == Size(op)
<1>1. n \in {1, 2, 4} /\ a \in Addr
  BY SizeType, AccessesAssumption
<1>2. Listed(handlers')
  <2>1. gpr[r] \in WordValue
    BY DEF Types, TypeOK
  <2>2. handlers' = Write(handlers, a, n, gpr[r])
    BY DEF Store
  <2> HIDE DEF n
  <2> QED
    BY <1>1, <2>1, <2>2, WriteListed
<1>3. CASE Backs(a, n)
  <2>1. /\ linked' = Touched(a) /\ phase' = "access"
        /\ UNCHANGED <<gpr, reservationSetValid, images, thread>>
    BY <1>3 DEF Store
  <2>2. linked' = {} \/ \E l \in Links : linked' = {l}
    BY <1>1, <2>1, LinkedType DEF Types
  <2> QED
    BY <1>2, <2>1, <2>2, ListedHandlers DEF Types, TypeOK
<1>4. CASE ~Backs(a, n)
  <2>1. Throw
    BY <1>4 DEF Store
  <2> QED
    BY <1>2, <2>1, ListedHandlers DEF Throw, Types, TypeOK
<1> QED
  BY <1>3, <1>4

LEMMA LoadReservedTypes ==
  ASSUME Types, NEW a \in Addrs, NEW r \in Registers, LoadReserved(a, r)
  PROVE  Types'
<1>1. Backs(a, 4) /\ phase' = "access" /\ UNCHANGED <<images, thread>>
  BY DEF LoadReserved, Reach
<1>2. a \in Addr /\ Lookup(a, 4) \in WordValue
  BY <1>1, LookupInRange, AccessesAssumption DEF Types
<1>3. gpr' \in [Registers -> WordValue] /\ gpr'[0] = 0
  BY <1>2, WithType DEF LoadReserved, Types, TypeOK
<1>4. /\ handlers' = handlers /\ reservationSetValid' = TRUE
      /\ linked' = {[thread |-> thread, addr |-> a, intact |-> TRUE]}
  BY DEF LoadReserved
<1>5. [thread |-> thread, addr |-> a, intact |-> TRUE] \in Links
  BY <1>2 DEF Types, TypeOK, Links
<1> QED
  BY <1>1, <1>3, <1>4, <1>5 DEF Types, TypeOK

LEMMA StoreConditionalTypes ==
  ASSUME Types, NEW a \in Addrs, NEW rd \in Registers, NEW rs2 \in Registers,
         StoreConditional(a, rd, rs2)
  PROVE  Types'
<1>1. phase' = "access" /\ UNCHANGED <<images, thread>>
  BY DEF StoreConditional, Reach
<1>2. gpr' \in [Registers -> WordValue] /\ gpr'[0] = 0
  <2>1. \A v \in {0, 1} : v \in WordValue
    <3>1. Values(1) <= Word /\ Values(1) = Byte /\ Byte >= 2 /\ Word \in Nat
      BY ValuesFit, Sizes, MemoryMapAssumption DEF Values
    <3> QED
      BY <3>1, MemoryMapAssumption DEF WordValue
  <2>2. gpr' = With(gpr, rd, IF reservationSetValid THEN 0 ELSE 1)
    BY DEF StoreConditional
  <2> QED
    BY <2>1, <2>2, WithType DEF Types, TypeOK
<1>3. Listed(handlers')
  <2>1. Listed(Write(handlers, a, 4, gpr[rs2]))
    BY WriteListed DEF Types, TypeOK
  <2> QED
    BY <2>1 DEF StoreConditional, Types
<1>4. reservationSetValid' = FALSE /\ linked' = {}
  BY DEF StoreConditional
<1> QED
  BY <1>1, <1>2, <1>3, <1>4, ListedHandlers DEF Types, TypeOK

LEMMA AmoTypes ==
  ASSUME Types, NEW op \in AmoOps, NEW a \in Addrs, NEW rd \in Registers,
         NEW rs2 \in Registers, Amo(op, a, rd, rs2)
  PROVE  Types'
<1> DEFINE val == Lookup(a, 4)
           g   == IF op = "AMOSWAP" THEN With(gpr, rs2, val) ELSE gpr
<1>1. /\ Backs(a, 4) /\ phase' = "access"
      /\ UNCHANGED <<images, thread, reservationSetValid>>
  BY DEF Amo, Reach
<1>2. a \in Addr /\ val \in WordValue /\ gpr[rs2] \in WordValue
  BY <1>1, LookupInRange, AccessesAssumption DEF Types, TypeOK
<1>3. gpr' = With(g, rd, val)
  BY DEF Amo
<1>4. PICK new \in Results(op, val, gpr[rs2]) : handlers' = Write(handlers, a, 4, new)
  BY DEF Amo
<1>5. linked' = Touched(a)
  BY DEF Amo
<1> HIDE DEF val
<1>6. g \in [Registers -> WordValue]
  BY <1>2, WithType DEF Types, TypeOK
<1> HIDE DEF g
<1>7. gpr' \in [Registers -> WordValue] /\ gpr'[0] = 0
  BY <1>2, <1>3, <1>6, WithType
<1>8. Listed(handlers')
  <2>1. new \in WordValue
    BY <1>2, ResultsInRange
  <2> QED
    BY <1>4, <2>1, WriteListed
<1>9. linked' = {} \/ \E l \in Links : linked' = {l}
  BY <1>2, <1>5, LinkedType DEF Types
<1> QED
  BY <1>1, <1>7, <1>8, <1>9, ListedHandlers DEF Types, TypeOK

LEMMA TypesStep == Types /\ [Next]_vars => Types'
<1> SUFFICES ASSUME Types, [Next]_vars PROVE Types'
  OBVIOUS
<1>1. CASE Boot
  <2>1. CASE GiveUp
    BY <2>1 DEF GiveUp, hartVars, Types, TypeOK
  <2> QED
    BY <1>1, <2>1, RegisterTypes, LoadMemoryTypes, StartTypes DEF Boot
<1>2. CASE Instruction
  <2> PICK a \in Addrs, r \in Registers :
        \/ \E op \in Loads : Load(op, a, r)
        \/ \E op \in Stores : Store(op, a, r)
        \/ AmoThrow(a)
        \/ LoadReserved(a, r)
        \/ \E rs2 \in Registers :
             \/ StoreConditional(a, r, rs2)
             \/ \E op \in AmoOps : Amo(op, a, r, rs2)
    BY <1>2 DEF Instruction
  <2>1. CASE AmoThrow(a)
    BY <2>1 DEF AmoThrow, Throw, Types, TypeOK
  <2> QED
    BY <2>1, LoadTypes, StoreTypes, LoadReservedTypes, StoreConditionalTypes,
       AmoTypes
<1>3. CASE Software
  BY <1>3 DEF Software, Types, TypeOK
<1>4. CASE UNCHANGED vars
  BY <1>4 DEF vars, Types, TypeOK
<1> QED
  BY <1>1, <1>2, <1>3, <1>4 DEF Next

LEMMA TypesInvariant == Spec => []Types
<1>1. Init => Types
  <2> SUFFICES ASSUME Init PROVE Types
    OBVIOUS
  <2>1. handlers \in Seq(HandlerSet) /\ \A i \in DOMAIN handlers : Handler(handlers[i])
    BY DEF Init
  <2>2. 0 \in WordValue
    BY Sizes DEF WordValue
  <2>3. gpr \in [Registers -> WordValue] /\ gpr[0] = 0
    BY <2>2, AccessesAssumption DEF Init
  <2>4. images \in Seq([start : Addr, size : Nat, byte : ByteValue])
    BY DEF Init
  <2>5. phase = "boot" /\ reservationSetValid = FALSE /\ thread \in Threads
          /\ linked = {}
    BY DEF Init
  <2> QED
    BY <2>1, <2>3, <2>4, <2>5 DEF Types, TypeOK, Listed
<1> QED
  BY <1>1, TypesStep, PTL DEF Spec

\* Handlers keep memory of their size, and registers words, under every
\* access, image and thread.
THEOREM AccessesTypeCorrect == Spec => []TypeOK
BY TypesInvariant, PTL DEF Types

-----------------------------------------------------------------------------
(* Store-conditional *)

\* While the flag is set there is a last LR.W, and in paired software it is one
\* of the thread that runs, and no other thread has written to its word.
LinkKept ==
  PairedSoftware /\ reservationSetValid =>
    \E l \in Links : linked = {l} /\ l.thread = thread /\ l.intact = TRUE

\* A write of the thread itself does not break its link.
LEMMA TouchedKeepsLink ==
  ASSUME NEW a, NEW l \in Links, linked = {l}, l.thread = thread, l.intact = TRUE
  PROVE  Touched(a) = {l}
<1> DEFINE m == [l EXCEPT !.intact =
                   @ /\ (l.thread = thread \/ l.addr # a - (a % 4))]
<1>1. Touched(a) = {m}
  BY DEF Touched
<1>2. m = l
  BY DEF Links
<1> QED
  BY <1>1, <1>2

LEMMA LinkKeptStep == Types /\ LinkKept /\ [Next]_vars => LinkKept'
<1> SUFFICES ASSUME Types, LinkKept, [Next]_vars PROVE LinkKept'
  OBVIOUS
<1>1. ASSUME UNCHANGED <<reservationSetValid, thread, linked>> PROVE LinkKept'
  BY <1>1 DEF LinkKept
<1>2. ASSUME NEW a, UNCHANGED <<reservationSetValid, thread>>, linked' = Touched(a)
      PROVE  LinkKept'
  BY <1>2, TouchedKeepsLink DEF LinkKept
<1>3. CASE Boot
  BY <1>1, <1>3 DEF Boot, RegisterHandler, LoadMemory, GiveUp, Start, hartVars
<1>4. ASSUME NEW a \in Addrs, NEW r \in Registers, NEW op \in Loads, Load(op, a, r)
      PROVE  LinkKept'
  BY <1>1, <1>4 DEF Load, Throw
<1>5. ASSUME NEW a \in Addrs, NEW r \in Registers, NEW op \in Stores, Store(op, a, r)
      PROVE  LinkKept'
  BY <1>1, <1>2, <1>5 DEF Store, Throw
<1>6. ASSUME NEW a \in Addrs, AmoThrow(a) PROVE LinkKept'
  BY <1>1, <1>6 DEF AmoThrow, Throw
<1>7. ASSUME NEW a \in Addrs, NEW r \in Registers, LoadReserved(a, r)
      PROVE  LinkKept'
  <2> DEFINE l == [thread |-> thread, addr |-> a, intact |-> TRUE]
  <2>1. l \in Links
    BY AccessesAssumption DEF Types, TypeOK, Links
  <2>2. linked' = {l} /\ thread' = thread
    BY <1>7 DEF LoadReserved, Reach
  <2> QED
    BY <2>1, <2>2 DEF LinkKept
<1>8. ASSUME NEW a \in Addrs, NEW r \in Registers, NEW rs2 \in Registers,
             StoreConditional(a, r, rs2)
      PROVE  LinkKept'
  BY <1>8 DEF StoreConditional, LinkKept
<1>9. ASSUME NEW a \in Addrs, NEW r \in Registers, NEW rs2 \in Registers,
             NEW op \in AmoOps, Amo(op, a, r, rs2)
      PROVE  LinkKept'
  <2>1. UNCHANGED <<reservationSetValid, thread>> /\ linked' = Touched(a)
    BY <1>9 DEF Amo, Reach
  <2> QED
    BY <1>2, <2>1
<1>10. CASE Software
  <2>1. /\ reservationSetValid' = reservationSetValid
        /\ linked' = linked
        /\ PairedSoftware /\ linked # {} => thread' = thread
    BY <1>10 DEF Software
  <2> QED
    BY <2>1 DEF LinkKept
<1>11. CASE UNCHANGED vars
  BY <1>1, <1>11 DEF vars
<1> QED
  BY <1>3, <1>4, <1>5, <1>6, <1>7, <1>8, <1>9, <1>10, <1>11 DEF Next, Instruction

\* What an SC.W that reports success has found.
LEMMA ScFindsLink ==
  ASSUME Types, LinkKept, PairedSoftware,
         NEW a, NEW rd \in Registers, NEW rs2, rd # 0,
         StoreConditional(a, rd, rs2), gpr'[rd] = 0
  PROVE  \E l \in Links : linked = {l} /\ l.thread = thread /\ l.intact = TRUE
<1>1. gpr' = With(gpr, rd, IF reservationSetValid THEN 0 ELSE 1)
  BY DEF StoreConditional
<1>2. gpr'[rd] = IF reservationSetValid THEN 0 ELSE 1
  BY <1>1 DEF With, Types, TypeOK
<1>3. reservationSetValid
  BY <1>2
<1> QED
  BY <1>3 DEF LinkKept

LEMMA LinkInvariant == Spec => [](Types /\ LinkKept)
<1>1. Init => LinkKept
  BY DEF Init, LinkKept
<1> QED
  BY <1>1, LinkKeptStep, TypesInvariant, PTL DEF Spec

\* No update is lost to an SC.W that succeeds, however many threads there
\* are and whatever they write, if software pairs LR.W and SC.W and its
\* kernel makes an SC.W between a thread's LR.W and the next thread.
THEOREM ScPairs == (PairedSoftware = TRUE) /\ Spec => ScOnlyAfterItsLr
<1> SUFFICES ASSUME PairedSoftware = TRUE PROVE Spec => ScOnlyAfterItsLr
  OBVIOUS
<1> DEFINE Due == \A a \in Addrs, rd, rs2 \in Registers :
                    rd # 0 /\ StoreConditional(a, rd, rs2) /\ gpr'[rd] = 0
                      => linked =
                           {[thread |-> thread, addr |-> a, intact |-> TRUE]}
<1>1. Types /\ LinkKept => [Due]_vars
  <2> SUFFICES ASSUME Types, LinkKept, NEW a \in Addrs, NEW rd \in Registers,
                      NEW rs2 \in Registers, rd # 0,
                      StoreConditional(a, rd, rs2), gpr'[rd] = 0
               PROVE  linked = {[thread |-> thread, addr |-> a, intact |-> TRUE]}
    OBVIOUS
  <2>1. PICK l \in Links : linked = {l} /\ l.thread = thread /\ l.intact = TRUE
    BY ScFindsLink
  <2>2. l.addr = a
    BY <2>1 DEF StoreConditional
  <2> QED
    BY <2>1, <2>2 DEF Links
<1> QED
  BY <1>1, LinkInvariant, PTL DEF Spec, ScOnlyAfterItsLr

-----------------------------------------------------------------------------
(* Images *)

\* Before the hart starts the handlers are the first devices, and no image
\* is loaded before all of them are there; afterwards images is empty.
BootShape ==
  /\ phase \in {"software", "access"} => images = <<>>
  /\ phase = "boot" =>
       /\ Len(handlers) <= Len(Devices)
       /\ \A i \in DOMAIN handlers : handlers[i].size = Devices[i].size
       /\ images # <<>> => Len(handlers) = Len(Devices)

LEMMA SameLength ==
  ASSUME NEW m \in Nat, NEW n \in Nat, 1 .. m = 1 .. n PROVE m = n
<1>1. CASE m < n
  <2>1. n \in 1 .. n /\ n \notin 1 .. m
    BY <1>1
  <2> QED
    BY <2>1
<1>2. CASE n < m
  <2>1. m \in 1 .. m /\ m \notin 1 .. n
    BY <1>2
  <2> QED
    BY <2>1
<1> QED
  BY <1>1, <1>2

LEMMA BootShapeStep == Types /\ BootShape /\ [Next]_vars => BootShape'
<1> SUFFICES ASSUME Types, BootShape, [Next]_vars PROVE BootShape'
  OBVIOUS
<1>1. handlers \in Seq(HandlerSet) /\ DOMAIN handlers = 1 .. Len(handlers)
  BY ListedHandlers DEF Types, Listed
<1>2. CASE RegisterHandler
  <2> DEFINE n == Len(handlers) + 1
             h == BasicMemory(Devices[n].base, Devices[n].size)
  <2>1. /\ phase = "boot" /\ phase' = phase /\ images' = images
        /\ Len(handlers) < Len(Devices) /\ handlers' = Append(handlers, h)
    BY <1>2 DEF RegisterHandler
  <2>2. h.size = Devices[n].size
    BY DEF BasicMemory
  <2>3. images = <<>>
    BY <2>1 DEF BootShape
  <2>4. Devices \in Seq([base : Addr, size : Nat])
    BY AccessesAssumption
  <2> HIDE DEF h
  <2>5. /\ Len(handlers') = n /\ DOMAIN handlers' = 1 .. n
        /\ handlers'[n] = h
        /\ \A i \in 1 .. Len(handlers) : handlers'[i] = handlers[i]
    BY <1>1, <2>1
  <2>6. Len(handlers) \in Nat /\ Len(Devices) \in Nat
    BY <1>1, <2>4
  <2>7. \A i \in 1 .. n : handlers'[i].size = Devices[i].size
    BY <1>1, <2>1, <2>2, <2>5, <2>6 DEF BootShape
  <2> QED
    BY <2>1, <2>3, <2>5, <2>6, <2>7 DEF BootShape
<1>3. ASSUME NEW size \in FileSizes, LoadMemory(size) PROVE BootShape'
  <2>1. SameRanges(handlers, handlers') /\ Listed(handlers')
    BY <1>3, LoadMemoryFills
  <2>2. Len(handlers') = Len(handlers)
    <3>1. DOMAIN handlers' = 1 .. Len(handlers') /\ DOMAIN handlers' = DOMAIN handlers
      BY <2>1, ListedHandlers DEF SameRanges
    <3>2. Len(handlers') \in Nat /\ Len(handlers) \in Nat
      BY <1>1, <2>1 DEF Listed
    <3> QED
      BY <1>1, <3>1, <3>2, SameLength
  <2>3. phase = "boot" /\ phase' = phase /\ Len(handlers) = Len(Devices)
    BY <1>3 DEF LoadMemory
  <2> QED
    BY <2>1, <2>2, <2>3 DEF BootShape, SameRanges
<1>4. CASE GiveUp
  BY <1>4 DEF GiveUp, BootShape
<1>5. CASE Start
  BY <1>5 DEF Start, BootShape
<1>6. CASE Instruction
  <2>1. phase = "software" /\ images' = images /\ phase' \in {"access", "stopped"}
    BY <1>6 DEF Instruction, Load, Store, AmoThrow, Throw, LoadReserved,
                StoreConditional, Amo, Reach
  <2> QED
    BY <2>1 DEF BootShape
<1>7. CASE Software
  BY <1>7 DEF Software, BootShape
<1>8. CASE UNCHANGED vars
  BY <1>8 DEF vars, BootShape
<1> QED
  BY <1>2, <1>3, <1>4, <1>5, <1>6, <1>7, <1>8 DEF Next, Boot

Loaded(m) == m.start .. (m.start + m.size - 1)

\* What a step of loadMemory reads and writes.
LEMMA LoadMemoryWrites ==
  ASSUME Types, BootShape, NEW size \in FileSizes, LoadMemory(size)
  PROVE  LET m == images'[Len(images) + 1]
         IN  /\ images' = Append(images, m)
             /\ \A a \in Loaded(m) :
                  HasHandler(handlers', a) /\ ReadByte(handlers', a) = m.byte
             /\ \A a \in Addr \ Loaded(m) :
                  HasHandler(handlers, a) =>
                    /\ HasHandler(handlers', a)
                    /\ ReadByte(handlers', a) = ReadByte(handlers, a)
<1> DEFINE k     == Len(images) + 1
           start == Starts[k]
           byte  == Contents[k]
           addrs == ImageAddrs(start, size)
           h     == handlers[1]
           new   == Filled(h, addrs, byte)
           m     == [start |-> start, size |-> size, byte |-> byte]
<1>1. /\ phase = "boot" /\ Len(handlers) = Len(Devices)
      /\ Len(images) < Len(Starts) /\ ~Refused(start, size) /\ Fits(addrs)
      /\ handlers' = [handlers EXCEPT ![1] = new]
      /\ images' = Append(images, m)
  BY DEF LoadMemory
<1>2. /\ Len(images) \in Nat /\ k \in 1 .. Len(Starts) /\ k \in 1 .. Len(Contents)
      /\ images' [k] = m
  <2>1. Len(images) \in Nat /\ Len(Starts) \in Nat /\ Len(Contents) = Len(Starts)
    BY AccessesAssumption DEF Types, TypeOK
  <2>2. images'[k] = m
    BY <1>1 DEF Types, TypeOK
  <2> QED
    BY <1>1, <2>1, <2>2
<1>3. start \in Addr /\ byte \in ByteValue
  <2>1. Starts \in Seq(Addr) /\ Contents \in Seq(ByteValue)
    BY AccessesAssumption
  <2> QED
    BY <1>2, <2>1, ElementType
<1>4. DOMAIN handlers = 1 .. Len(handlers) /\ 1 \in DOMAIN handlers
      /\ h \in HandlerSet /\ Handler(h)
  <2>1. DOMAIN handlers = 1 .. Len(handlers)
    BY ListedHandlers DEF Types
  <2>2. Len(Devices) \in Nat \ {0}
    BY AccessesAssumption
  <2> QED
    BY <1>1, <2>1, <2>2, ListedHandlers DEF Types
<1>5. addrs = Loaded(m)
  <2>1. start + Devices[1].size < AddrSpace
    <3>1. \A i \in DOMAIN Starts : Starts[i] + Devices[1].size < AddrSpace
      BY AccessesAssumption
    <3>2. DOMAIN Starts = 1 .. Len(Starts)
      BY AccessesAssumption
    <3> QED
      BY <1>2, <3>1, <3>2
  <2>2. h.size = Devices[1].size /\ h.size \in Nat
    BY <1>1, <1>4 DEF BootShape, Handler
  <2>3. size \in Nat /\ size < h.size
    BY <1>1, <2>2, AccessesAssumption DEF Refused
  <2>4. start \in Nat /\ start + size \in Nat /\ start + size < AddrSpace
    BY <1>3, <2>1, <2>2, <2>3, Sizes DEF Addr
  <2>5. (start + size) % AddrSpace = start + size
    BY <2>4, Sizes, ModSmall
  <2>6. addrs = start .. (start + size - 1)
    <3>1. addrs = start .. (((start + size) % AddrSpace) - 1)
      BY DEF ImageAddrs
    <3> HIDE DEF start, addrs
    <3> QED
      BY <2>3, <2>4, <2>5, <3>1
  <2>7. Loaded(m) = start .. (start + size - 1)
    BY DEF Loaded
  <2> QED
    BY <2>6, <2>7
<1>6. /\ new \in HandlerSet /\ new.base = h.base
      /\ \A o \in DOMAIN h.memoryArray :
           new.memoryArray[o] = IF h.base + o \in addrs THEN byte ELSE h.memoryArray[o]
  BY <1>3, <1>4, FilledType
<1>7. SameRanges(handlers, handlers') /\ Listed(handlers')
  BY LoadMemoryFills
<1>8. ASSUME NEW a \in Addr, HasHandler(handlers, a)
      PROVE  /\ HasHandler(handlers', a)
             /\ a \notin addrs => ReadByte(handlers', a) = ReadByte(handlers, a)
             /\ a \in addrs /\ Owns(h, a) => ReadByte(handlers', a) = byte
  <2> DEFINE i == GetHandler(handlers, a)
  <2>1. IsFirst(handlers, a, i)
    BY <1>8, GetHandlerFinds, ListedHandlers DEF Types
  <2>2. HasHandler(handlers', a) /\ IsFirst(handlers', a, i)
    BY <1>7, <1>8, <2>1, SameSearch
  <2>3. GetHandler(handlers', a) = i
    BY <1>7, <2>2, GetHandlerFinds, FirstIsUnique, ListedHandlers
  <2>4. /\ ReadByte(handlers, a) = handlers[i].memoryArray[a - handlers[i].base]
        /\ ReadByte(handlers', a) = handlers'[i].memoryArray[a - handlers'[i].base]
    BY <2>3 DEF ReadByte
  <2>5. i \in DOMAIN handlers /\ i \in Nat
    BY <2>1, <1>4, ListedHandlers DEF IsFirst, Types
  <2> HIDE DEF i, new, h
  <2>6. CASE i # 1
    <3>1. handlers'[i] = handlers[i]
      BY <1>1, <2>5, <2>6
    <3>2. ~Owns(h, a)
      BY <1>4, <2>1, <2>5, <2>6 DEF IsFirst, h
    <3> QED
      BY <2>2, <2>4, <3>1, <3>2
  <2>7. CASE i = 1
    <3>1. handlers'[i] = new /\ handlers[i] = h
      BY <1>1, <1>4, <2>7 DEF h
    <3>2. a - h.base \in DOMAIN h.memoryArray
      <4>1. Owns(h, a)
        BY <2>1, <3>1 DEF IsFirst
      <4>2. a - h.base \in 0 .. (h.size - 1)
        BY <1>4, <4>1, OwnedPlace
      <4> QED
        BY <1>4, <4>2 DEF Handler
    <3>3. h.base + (a - h.base) = a
      BY <1>4, Sizes DEF Handler, Addr
    <3> QED
      BY <1>6, <2>2, <2>4, <3>1, <3>2, <3>3
  <2> QED
    BY <2>6, <2>7
<1>9. ASSUME NEW a \in addrs PROVE a \in Addr /\ Owns(h, a)
  <2>1. InBounds(h, a)
    BY <1>1 DEF Fits
  <2>2. a \in Int /\ h.base \in Nat /\ h.size \in Nat
    BY <1>4, <1>5, Sizes DEF Handler, Addr, ImageAddrs
  <2>3. h.base + h.size \in Int
    BY <2>2
  <2>4. (h.base + h.size) % AddrSpace \in 0 .. (AddrSpace - 1)
    BY <2>3, Sizes, DivMod
  <2> QED
    BY <2>1, <2>2, <2>4, Sizes DEF InBounds, Owns, Addr
<1>10. \A a \in addrs : HasHandler(handlers', a) /\ ReadByte(handlers', a) = byte
  BY <1>4, <1>8, <1>9 DEF HasHandler
<1>11. images'[Len(images) + 1] = m
  BY <1>2
<1> HIDE DEF m
<1>12. m.byte = byte
  BY DEF m
<1> QED
  BY <1>1, <1>5, <1>8, <1>10, <1>11, <1>12

LEMMA ImagesStep == Types /\ BootShape /\ ImagesIntact /\ [Next]_vars => ImagesIntact'
<1> SUFFICES ASSUME Types, BootShape, ImagesIntact, [Next]_vars PROVE ImagesIntact'
  OBVIOUS
<1>1. ASSUME images' = <<>> PROVE ImagesIntact'
  BY <1>1 DEF ImagesIntact
<1>2. ASSUME NEW size \in FileSizes, LoadMemory(size) PROVE ImagesIntact'
  <2> DEFINE n == Len(images) + 1
             m == images'[n]
  <2>1. /\ images' = Append(images, m)
        /\ \A a \in Loaded(m) :
             HasHandler(handlers', a) /\ ReadByte(handlers', a) = m.byte
        /\ \A a \in Addr \ Loaded(m) :
             HasHandler(handlers, a) =>
               /\ HasHandler(handlers', a)
               /\ ReadByte(handlers', a) = ReadByte(handlers, a)
    BY <1>2, LoadMemoryWrites
  <2>2. images \in Seq([start : Addr, size : Nat, byte : ByteValue])
    BY DEF Types, TypeOK
  <2> HIDE DEF m
  <2>3. /\ DOMAIN images = 1 .. Len(images) /\ DOMAIN images' = 1 .. n
        /\ Len(images) \in Nat /\ images'[n] = m
        /\ \A j \in DOMAIN images : images'[j] = images[j]
    BY <2>1, <2>2
  <2> SUFFICES ASSUME NEW i \in DOMAIN images',
                      \A j \in DOMAIN images' :
                        i < j => ~Overlaps(images'[i], images'[j]),
                      NEW a \in Loaded(images'[i])
               PROVE  /\ HasHandler(handlers', a)
                      /\ ReadByte(handlers', a) = images'[i].byte
    BY DEF ImagesIntact, Loaded
  <2>4. CASE i = n
    BY <2>1, <2>3, <2>4
  <2>5. CASE i # n
    <3>1. i \in DOMAIN images /\ i < n /\ images'[i] = images[i]
      BY <2>3, <2>5
    <3>2. \A j \in DOMAIN images : i < j => ~Overlaps(images[i], images[j])
      BY <2>3, <3>1
    <3>3. HasHandler(handlers, a) /\ ReadByte(handlers, a) = images[i].byte
      BY <3>1, <3>2 DEF ImagesIntact, Loaded
    <3>4. a \notin Loaded(m)
      <4>1. ~Overlaps(images[i], m)
        BY <2>3, <3>1
      <4> QED
        BY <3>1, <4>1 DEF Overlaps, Loaded
    <3>5. a \in Addr
      <4>1. PICK o \in DOMAIN handlers : Owns(handlers[o], a)
        BY <3>3 DEF HasHandler
      <4>2. Handler(handlers[o])
        BY ListedHandlers DEF Types
      <4>3. handlers[o].base \in Nat /\ handlers[o].base + handlers[o].size \in Int
        BY <4>2, Sizes DEF Handler, Addr
      <4>4. (handlers[o].base + handlers[o].size) % AddrSpace \in 0 .. (AddrSpace - 1)
        BY <4>3, Sizes, DivMod
      <4>5. a \in Int
        <5>1. images[i].start \in Int /\ images[i].size \in Int
          <6>1. images[i] \in [start : Addr, size : Nat, byte : ByteValue]
            BY <2>2, <2>3, <3>1, ElementType
          <6> QED
            BY <6>1, Sizes DEF Addr
        <5> QED
          BY <3>1, <5>1 DEF Loaded
      <4> QED
        BY <4>1, <4>3, <4>4, <4>5, Sizes DEF Owns, Addr
    <3> QED
      BY <2>1, <3>1, <3>3, <3>4, <3>5
  <2> QED
    BY <2>4, <2>5
<1>3. CASE RegisterHandler
  <2>1. images = <<>>
    BY <1>3 DEF RegisterHandler, BootShape
  <2> QED
    BY <1>1, <1>3, <2>1 DEF RegisterHandler
<1>4. CASE GiveUp
  BY <1>4 DEF GiveUp, ImagesIntact
<1>5. CASE Start
  BY <1>1, <1>5 DEF Start
<1>6. CASE Instruction
  <2>1. phase = "software" /\ images' = images
    BY <1>6 DEF Instruction, Load, Store, AmoThrow, Throw, LoadReserved,
                StoreConditional, Amo, Reach
  <2> QED
    BY <1>1, <2>1 DEF BootShape
<1>7. CASE Software
  BY <1>1, <1>7 DEF Software, BootShape
<1>8. CASE UNCHANGED vars
  BY <1>8 DEF vars, ImagesIntact
<1> QED
  BY <1>2, <1>3, <1>4, <1>5, <1>6, <1>7, <1>8 DEF Next, Boot

\* Every image that main has accepted is in memory to its last byte, for
\* every layout of memories, overlapping ones too.
THEOREM ImagesAreLoaded == Spec => []ImagesIntact
<1>1. Init => BootShape /\ ImagesIntact
  <2> SUFFICES ASSUME Init PROVE BootShape /\ ImagesIntact
    OBVIOUS
  <2>1. handlers = <<>> /\ images = <<>> /\ phase = "boot"
    BY DEF Init
  <2>2. Len(Devices) \in Nat
    BY AccessesAssumption
  <2> QED
    BY <2>1, <2>2 DEF BootShape, ImagesIntact
<1>2. Types /\ BootShape /\ ImagesIntact /\ [Next]_vars => (BootShape /\ ImagesIntact)'
  BY BootShapeStep, ImagesStep
<1> QED
  BY <1>1, <1>2, TypesInvariant, PTL DEF Spec

-----------------------------------------------------------------------------
(* The refinement: places and bytes *)

LEMMA MemoryIs ==
  \A hs : /\ DOMAIN MemoryOf(hs) = {a \in Addr : HasHandler(hs, a)}
          /\ \A a \in DOMAIN MemoryOf(hs) : MemoryOf(hs)[a] = ReadByte(hs, a)
BY DEF MemoryOf

LEMMA FlatValues == \A n \in {1, 2, 4} : FM!Values(n) = Values(n)
<1>1. \A b \in Nat : b * b * b * b = (b * b) * (b * b)
  OBVIOUS
<1>2. Byte * Byte * Byte * Byte = Half * Half
  BY <1>1, Sizes DEF Half
<1> QED
  BY <1>2 DEF FM!Values, Values, Half, Word

LEMMA FlatPlaces ==
  ASSUME NEW a \in Addr, NEW n \in {1, 2, 4}
  PROVE  FM!Places(a, n) = {After(a, k) : k \in 0 .. (n - 1)}
BY DEF FM!Places, After

LEMMA BackedIsThere ==
  ASSUME NEW hs, NEW a \in Addr, NEW n \in {1, 2, 4}
  PROVE  Backed(hs, a, n) <=> FM!Places(a, n) \subseteq DOMAIN MemoryOf(hs)
<1>1. \A k \in 0 .. (n - 1) : After(a, k) \in Addr
  <2>1. \A k \in 0 .. (n - 1) : k \in 0 .. 3
    OBVIOUS
  <2> QED
    BY <2>1, Places
<1>2. FM!Places(a, n) = {After(a, k) : k \in 0 .. (n - 1)}
  BY FlatPlaces
<1>3. \A k \in 0 .. (n - 1) :
        HasHandler(hs, After(a, k)) <=> After(a, k) \in DOMAIN MemoryOf(hs)
  BY <1>1, MemoryIs
<1> QED
  BY <1>2, <1>3 DEF Backed

\* A number whose digits are the bytes that reads find is held there.
LEMMA DigitsHold ==
  ASSUME NEW hs, NEW a \in Addr, NEW n \in {1, 2, 4}, Backed(hs, a, n), NEW v,
         \A k \in 0 .. (n - 1) : Digit(v, k) = ReadByte(hs, After(a, k))
  PROVE  FM!Holds(MemoryOf(hs), a, n, v)
<1>1. \A k \in 0 .. (n - 1) : MemoryOf(hs)[After(a, k)] = Digit(v, k)
  <2>1. \A k \in 0 .. (n - 1) : After(a, k) \in DOMAIN MemoryOf(hs)
    BY BackedIsThere, FlatPlaces
  <2> QED
    BY <2>1, MemoryIs
<1>2. After(a, 0) = a % AddrSpace
  BY Sizes DEF After, Addr
<1>3. MemoryOf(hs)[a % AddrSpace] = v % Byte
  BY <1>1, <1>2 DEF Digit
<1>4. n >= 2 => MemoryOf(hs)[(a + 1) % AddrSpace] = (v \div Byte) % Byte
  <2>1. n >= 2 => 1 \in 0 .. (n - 1)
    OBVIOUS
  <2> QED
    BY <1>1, <2>1 DEF Digit, After
<1>5. n = 4 => /\ MemoryOf(hs)[(a + 2) % AddrSpace] = (v \div (Byte * Byte)) % Byte
               /\ MemoryOf(hs)[(a + 3) % AddrSpace] = v \div (Byte * Byte * Byte)
  <2>1. n = 4 => 2 \in 0 .. (n - 1) /\ 3 \in 0 .. (n - 1)
    OBVIOUS
  <2> QED
    BY <1>1, <2>1 DEF Digit, After
<1> QED
  BY <1>3, <1>4, <1>5 DEF FM!Holds

LEMMA ChangesStayInside ==
  ASSUME NEW hs, NEW new, NEW places, Changes(hs, new, places)
  PROVE  FM!SameOutside(MemoryOf(hs), MemoryOf(new), places)
<1>1. DOMAIN MemoryOf(new) = DOMAIN MemoryOf(hs)
  BY SameSearch, MemoryIs DEF Changes
<1>2. ASSUME NEW a \in DOMAIN MemoryOf(hs) \ places
      PROVE  MemoryOf(new)[a] = MemoryOf(hs)[a]
  BY <1>1, <1>2, MemoryIs DEF Changes
<1> QED
  BY <1>1, <1>2 DEF FM!SameOutside

\* A read takes what the flat memory holds.
LEMMA LookupHolds ==
  ASSUME Types, NEW a \in Addrs, NEW n \in {1, 2, 4}, Backs(a, n)
  PROVE  /\ Lookup(a, n) \in FM!Value(n)
         /\ FM!Holds(MemoryOf(handlers), a, n, Lookup(a, n))
<1>1. a \in Addr /\ Backed(handlers, a, n)
  BY AccessesAssumption DEF Backs
<1>2. /\ Lookup(a, n) \in 0 .. (Values(n) - 1)
      /\ \A k \in 0 .. (n - 1) :
           Digit(Lookup(a, n), k) = ReadByte(handlers, After(a, k))
  BY <1>1, ReadDigits DEF Types, Lookup
<1>3. FM!Holds(MemoryOf(handlers), a, n, Lookup(a, n))
  BY <1>1, <1>2, DigitsHold
<1> QED
  BY <1>2, <1>3, FlatValues DEF FM!Value

\* A write changes the flat memory in one piece, whichever handlers it is
\* spread over.
LEMMA WritePuts ==
  ASSUME Types, NEW a \in Addrs, NEW n \in {1, 2, 4}, NEW v \in WordValue,
         Backs(a, n), handlers' = Write(handlers, a, n, v)
  PROVE  FM!Put(MemoryOf(handlers), MemoryOf(handlers'), a, n, v % Values(n))
<1>1. a \in Addr /\ Backed(handlers, a, n) /\ v \in 0 .. (Word - 1)
  BY AccessesAssumption DEF Backs, WordValue
<1>2. /\ Changes(handlers, handlers', {After(a, k) : k \in 0 .. (n - 1)})
      /\ \A k \in 0 .. (n - 1) :
           ReadByte(handlers', After(a, k)) = Digit(v % Values(n), k)
  BY <1>1, WriteDigits DEF Types
<1>3. Backed(handlers', a, n)
  BY <1>1, <1>2, SameSearch DEF Changes, Backed
<1>4. FM!Holds(MemoryOf(handlers'), a, n, v % Values(n))
  BY <1>1, <1>2, <1>3, DigitsHold
<1>5. FM!SameOutside(MemoryOf(handlers), MemoryOf(handlers'), FM!Places(a, n))
  BY <1>1, <1>2, ChangesStayInside, FlatPlaces
<1> QED
  BY <1>4, <1>5 DEF FM!Put

LEMMA WithGets ==
  ASSUME TypeOK, NEW rd \in Registers, NEW v \in WordValue,
         gpr' = With(gpr, rd, v)
  PROVE  FM!Gets(rd, v)
BY AccessesAssumption DEF TypeOK, With, FM!Gets

\* An access that throws may have written some of the places it names.
LEMMA ThrowStops ==
  ASSUME Types, NEW a \in Addrs, NEW n \in {1, 2, 4}, ~Backs(a, n),
         phase = "software", Throw,
         \/ handlers' = handlers
         \/ \E v \in WordValue : handlers' = Write(handlers, a, n, v)
  PROVE  FM!Stop(MemoryOf(handlers), MemoryOf(handlers'))
<1>1. a \in Addr /\ ~Backed(handlers, a, n)
  BY AccessesAssumption DEF Backs
<1>2. Changes(handlers, handlers', {After(a, k) : k \in 0 .. (n - 1)})
  <2>1. CASE handlers' = handlers
    BY <2>1, ChangesNothing DEF Types
  <2>2. ASSUME NEW v \in WordValue, handlers' = Write(handlers, a, n, v)
        PROVE  Changes(handlers, handlers', {After(a, k) : k \in 0 .. (n - 1)})
    BY <1>1, <2>2, WriteDigits DEF Types, WordValue
  <2> QED
    BY <2>1, <2>2
<1>3. FM!SameOutside(MemoryOf(handlers), MemoryOf(handlers'), FM!Places(a, n))
  BY <1>1, <1>2, ChangesStayInside, FlatPlaces
<1>4. ~(FM!Places(a, n) \subseteq DOMAIN MemoryOf(handlers))
  BY <1>1, BackedIsThere
<1>5. phase # "stopped" /\ phase' = "stopped" /\ UNCHANGED gpr
  BY DEF Throw
<1> QED
  BY <1>3, <1>4, <1>5 DEF FM!Stop

\* The number that a load finds, and what its register gets of it.
LEMMA LoadGets ==
  ASSUME Types, NEW op \in Loads, NEW a \in Addrs, NEW r \in Registers,
         Load(op, a, r), Backs(a, Size(op))
  PROVE  LET n      == Size(op)
             v      == Lookup(a, n)
             signed == op \in {"LB", "LH"}
             x      == FM!Extended(v, n, signed)
         IN  /\ n \in {1, 2, 4} /\ (signed => n \in {1, 2})
             /\ v \in FM!Value(n) /\ FM!Holds(MemoryOf(handlers), a, n, v)
             /\ x \in WordValue /\ FM!Gets(r, x)
<1> DEFINE n == Size(op)
           v == Lookup(a, n)
           signed == op \in {"LB", "LH"}
           x == IF signed THEN SIGN_EXTEND(v, Values(n)) ELSE v
<1>1. n \in {1, 2, 4} /\ a \in Addr /\ Backs(a, n)
  BY SizeType, AccessesAssumption
<1>2. v \in FM!Value(n) /\ FM!Holds(MemoryOf(handlers), a, n, v)
  <2> HIDE DEF n
  <2> QED
    BY <1>1, LookupHolds
<1>3. v \in WordValue /\ v \in 0 .. (Values(n) - 1)
  <2> HIDE DEF n
  <2> QED
    BY <1>1, LookupInRange DEF Types
<1>4. /\ phase = "software" /\ phase' = "access" /\ handlers' = handlers
      /\ gpr' = With(gpr, r, CASE op = "LB" -> SIGN_EXTEND(v, Byte)
                               [] op = "LH" -> SIGN_EXTEND(v, Half)
                               [] OTHER -> v)
  BY DEF Load, Extended
<1>5. gpr' = With(gpr, r, x) /\ (signed => n \in {1, 2})
  <2>1. CASE op = "LB"
    <3>1. n = 1 /\ Values(n) = Byte
      BY <2>1 DEF Size, Values
    <3>3. signed
      BY <2>1
    <3>2. signed /\ x = SIGN_EXTEND(v, Byte)
      <4> HIDE DEF n, v, signed
      <4> QED
        BY <3>1, <3>3
    <3> HIDE DEF n, v, x, signed
    <3> QED
      BY <1>4, <2>1, <3>1, <3>2
  <2>2. CASE op = "LH"
    <3>1. n = 2 /\ Values(n) = Half
      BY <2>2 DEF Size, Values
    <3>3. signed
      BY <2>2
    <3>2. signed /\ x = SIGN_EXTEND(v, Half)
      <4> HIDE DEF n, v, signed
      <4> QED
        BY <3>1, <3>3
    <3> HIDE DEF n, v, x, signed
    <3> QED
      BY <1>4, <2>2, <3>1, <3>2
  <2>3. CASE op \notin {"LB", "LH"}
    <3> HIDE DEF n, v
    <3> QED
      BY <1>4, <2>3
  <2> QED
    BY <2>1, <2>2, <2>3
<1> HIDE DEF v, n
<1>6. x \in WordValue
  BY <1>3, <1>5, ExtendInRange
<1>7. x = FM!Extended(v, n, signed)
  <2>1. FM!Values(n) = Values(n) /\ FM!Values(4) = Word /\ Values(n) \in Nat
        /\ v \in Nat /\ Word \in Nat
    <3>1. Values(4) = Word
      BY DEF Values
    <3> QED
      BY <1>1, <1>3, <3>1, FlatValues, ValuesFit, Sizes
  <2> HIDE DEF signed
  <2> QED
    BY <2>1 DEF FM!Extended, SIGN_EXTEND
<1> HIDE DEF x
<1>8. FM!Gets(r, x)
  BY <1>5, <1>6, WithGets DEF Types
<1> QED
  BY <1>1, <1>2, <1>5, <1>6, <1>7, <1>8 DEF n, v

LEMMA LoadFlat ==
  ASSUME Types, NEW op \in Loads, NEW a \in Addrs, NEW r \in Registers,
         Load(op, a, r), Backs(a, Size(op))
  PROVE  FM!Access(MemoryOf(handlers), MemoryOf(handlers'))
<1> DEFINE n      == Size(op)
           v      == Lookup(a, n)
           signed == op \in {"LB", "LH"}
<1>1. /\ n \in {1, 2, 4} /\ v \in FM!Value(n)
      /\ FM!Holds(MemoryOf(handlers), a, n, v)
      /\ FM!Gets(r, FM!Extended(v, n, signed))
  BY LoadGets
<1>2. signed \in BOOLEAN
  OBVIOUS
<1>3. phase = "software" /\ phase' = "access" /\ handlers' = handlers
  BY DEF Load
<1>4. FM!Places(a, n) \subseteq DOMAIN MemoryOf(handlers)
  <2>1. a \in Addr /\ Backed(handlers, a, n)
    BY AccessesAssumption DEF Backs
  <2> HIDE DEF n
  <2> QED
    BY <1>1, <2>1, BackedIsThere
<1> HIDE DEF n, v, signed
<1>5. FM!Load(MemoryOf(handlers), a, n, r)
  BY <1>1, <1>2 DEF FM!Load
<1> QED
  BY <1>1, <1>3, <1>4, <1>5 DEF FM!Access

\* A number that is extended with its sign to a word stands for the same
\* number of two's complement.
LEMMA ExtendedIsSigned ==
  ASSUME NEW n \in {1, 2, 4}, NEW v \in FM!Value(n)
  PROVE  FM!Signed(FM!Extended(v, n, TRUE)) = FM!SignedOf(v, n)
<1> DEFINE w == FM!Values(n)
           m == FM!Values(4)
           x == FM!Extended(v, n, TRUE)
<1>1. w \in Nat /\ m \in Nat /\ w <= m /\ v \in 0 .. (w - 1)
  <2>1. w = Values(n) /\ m = Word
    <3>1. Values(4) = Word
      BY DEF Values
    <3> QED
      BY <3>1, FlatValues
  <2>2. Values(n) \in Nat /\ Values(n) <= Word /\ Word \in Nat
    BY ValuesFit, Sizes
  <2> QED
    BY <2>1, <2>2 DEF FM!Value
<1>2. x = IF 2 * v >= w THEN v + m - w ELSE v
  BY DEF FM!Extended
<1>3. FM!Signed(x) = IF 2 * x < m THEN x ELSE x - m
  BY DEF FM!Signed, FM!SignedOf
<1>4. FM!SignedOf(v, n) = IF 2 * v < w THEN v ELSE v - w
  BY DEF FM!SignedOf
<1> HIDE DEF w, m, x
<1>5. CASE 2 * v >= w
  <2>1. x = v + m - w
    BY <1>2, <1>5
  <2>2. ~(2 * x < m) /\ x - m = v - w /\ ~(2 * v < w)
    BY <1>1, <1>5, <2>1
  <2>3. FM!Signed(x) = FM!SignedOf(v, n)
    BY <1>3, <1>4, <2>2
  <2> QED
    BY <2>3 DEF x
<1>6. CASE ~(2 * v >= w)
  <2>1. x = v
    BY <1>2, <1>6
  <2>2. 2 * x < m /\ 2 * v < w
    BY <1>1, <1>6, <2>1
  <2>3. FM!Signed(x) = FM!SignedOf(v, n)
    BY <1>3, <1>4, <2>1, <2>2
  <2> QED
    BY <2>3 DEF x
<1> QED
  BY <1>5, <1>6

LEMMA StoreFlat ==
  ASSUME Types, NEW op \in Stores, NEW a \in Addrs, NEW r \in Registers,
         Store(op, a, r), Backs(a, Size(op))
  PROVE  FM!Access(MemoryOf(handlers), MemoryOf(handlers'))
<1> DEFINE n == Size(op)
<1>1. n \in {1, 2, 4} /\ a \in Addr
  BY SizeType, AccessesAssumption
<1>2. gpr[r] \in WordValue
  BY DEF Types, TypeOK
<1>3. /\ phase = "software" /\ phase' = "access" /\ UNCHANGED gpr
      /\ handlers' = Write(handlers, a, n, gpr[r])
  BY DEF Store
<1>4. Backs(a, n)
  OBVIOUS
<1> HIDE DEF n
<1>5. FM!Put(MemoryOf(handlers), MemoryOf(handlers'), a, n, gpr[r] % Values(n))
  BY <1>1, <1>2, <1>3, <1>4, WritePuts
<1>6. FM!Store(MemoryOf(handlers), MemoryOf(handlers'), a, n, r)
  BY <1>1, <1>3, <1>5, FlatValues DEF FM!Store
<1>7. FM!Places(a, n) \subseteq DOMAIN MemoryOf(handlers)
  BY <1>1, <1>4, BackedIsThere DEF Backs
<1> QED
  BY <1>1, <1>3, <1>6, <1>7 DEF FM!Access

\* Words are taken and put whole.
LEMMA WordAccess ==
  ASSUME Types, NEW a \in Addrs, Reach(a)
  PROVE  /\ phase = "software" /\ phase' = "access"
         /\ FM!Places(a, 4) \subseteq DOMAIN MemoryOf(handlers)
         /\ Lookup(a, 4) \in WordValue
         /\ FM!Holds(MemoryOf(handlers), a, 4, Lookup(a, 4))
         /\ \A v \in WordValue :
              handlers' = Write(handlers, a, 4, v)
                => FM!Put(MemoryOf(handlers), MemoryOf(handlers'), a, 4, v)
<1>1. /\ phase = "software" /\ phase' = "access" /\ Backs(a, 4) /\ a \in Addr
  BY AccessesAssumption DEF Reach
<1>2. Lookup(a, 4) \in WordValue
  BY <1>1, LookupInRange DEF Types
<1>3. FM!Holds(MemoryOf(handlers), a, 4, Lookup(a, 4))
  BY <1>1, LookupHolds
<1>4. FM!Places(a, 4) \subseteq DOMAIN MemoryOf(handlers)
  BY <1>1, BackedIsThere DEF Backs
<1>5. ASSUME NEW v \in WordValue, handlers' = Write(handlers, a, 4, v)
      PROVE  FM!Put(MemoryOf(handlers), MemoryOf(handlers'), a, 4, v)
  <2>1. v % Values(4) = v
    <3>1. v \in Nat /\ v < Word /\ Word \in Nat
      BY Sizes DEF WordValue
    <3> QED
      BY <3>1, ModSmall DEF Values
  <2>2. FM!Put(MemoryOf(handlers), MemoryOf(handlers'), a, 4, v % Values(4))
    BY <1>1, <1>5, WritePuts
  <2> QED
    BY <2>1, <2>2
<1> QED
  BY <1>1, <1>2, <1>3, <1>4, <1>5

LEMMA LoadReservedFlat ==
  ASSUME Types, NEW a \in Addrs, NEW r \in Registers, LoadReserved(a, r)
  PROVE  FM!Access(MemoryOf(handlers), MemoryOf(handlers'))
<1> DEFINE v == Lookup(a, 4)
<1>1. Reach(a) /\ gpr' = With(gpr, r, v) /\ handlers' = handlers
  BY DEF LoadReserved
<1> HIDE DEF v
<1>2. /\ phase = "software" /\ phase' = "access" /\ v \in WordValue
      /\ FM!Places(a, 4) \subseteq DOMAIN MemoryOf(handlers)
      /\ FM!Holds(MemoryOf(handlers), a, 4, v)
  BY <1>1, WordAccess DEF v
<1>3. FM!Gets(r, v)
  BY <1>1, <1>2, WithGets DEF Types
<1>4. v = FM!Extended(v, 4, FALSE)
  BY DEF FM!Extended
<1>5. v \in FM!Value(4)
  BY <1>2, FlatValues DEF FM!Value, Values, WordValue
<1>6. FM!Load(MemoryOf(handlers), a, 4, r)
  BY <1>2, <1>3, <1>4, <1>5 DEF FM!Load
<1> QED
  BY <1>1, <1>2, <1>6, AccessesAssumption DEF FM!Access

LEMMA StoreConditionalFlat ==
  ASSUME Types, NEW a \in Addrs, NEW rd \in Registers, NEW rs2 \in Registers,
         StoreConditional(a, rd, rs2)
  PROVE  FM!Access(MemoryOf(handlers), MemoryOf(handlers'))
<1>1. /\ Reach(a)
      /\ gpr' = With(gpr, rd, IF reservationSetValid THEN 0 ELSE 1)
      /\ handlers' = IF reservationSetValid
                     THEN Write(handlers, a, 4, gpr[rs2]) ELSE handlers
  BY DEF StoreConditional
<1>2. /\ phase = "software" /\ phase' = "access"
      /\ FM!Places(a, 4) \subseteq DOMAIN MemoryOf(handlers)
  BY <1>1, WordAccess
<1>3. 0 \in WordValue /\ 1 \in WordValue
  <2>1. Values(1) <= Word /\ Values(1) = Byte /\ Byte >= 2 /\ Word \in Nat
    BY ValuesFit, Sizes, MemoryMapAssumption DEF Values
  <2> QED
    BY <2>1, MemoryMapAssumption DEF WordValue
<1>4. FM!StoreConditional(MemoryOf(handlers), MemoryOf(handlers'), a, rd, rs2)
  <2>1. CASE reservationSetValid
    <3>1. gpr[rs2] \in WordValue
      BY DEF Types, TypeOK
    <3>2. FM!Put(MemoryOf(handlers), MemoryOf(handlers'), a, 4, gpr[rs2])
      BY <1>1, <2>1, <3>1, WordAccess
    <3>3. FM!Gets(rd, 0)
      BY <1>1, <1>3, <2>1, WithGets DEF Types
    <3> QED
      BY <3>2, <3>3 DEF FM!StoreConditional
  <2>2. CASE ~reservationSetValid
    <3>1. FM!Gets(rd, 1)
      BY <1>1, <1>3, <2>2, WithGets DEF Types
    <3> QED
      BY <1>1, <2>2, <3>1 DEF FM!StoreConditional
  <2> QED
    BY <2>1, <2>2
<1> QED
  BY <1>2, <1>4, AccessesAssumption DEF FM!Access

LEMMA BitsAreFlat == \A v : Bits(v) = FM!Bits(v)
BY DEF Bits, FM!Bits

LEMMA NoRemainder ==
  ASSUME NEW n \in Nat PROVE (n - (n % Word)) % Word = 0
<1> DEFINE q == n \div Word
<1>1. n \in Int /\ Word \in Nat \ {0}
  BY Sizes
<1>2. n = Word * q + (n % Word) /\ n % Word \in Int
  BY <1>1, DivMod
<1>3. q \in Nat
  BY <1>1, QuotientNat
<1> HIDE DEF q
<1>4. n - (n % Word) = q * Word + 0
  BY <1>1, <1>2, <1>3
<1>5. (q * Word + 0) % Word = 0
  BY <1>1, <1>3, DivModUnique
<1> QED
  BY <1>4, <1>5

LEMMA SumsAgree ==
  ASSUME NEW val \in WordValue, NEW x \in WordValue
  PROVE  (val + x - ((val + x) % Word)) % Word = 0
<1> DEFINE y == (val + x) % Word
<1>1. val + x \in Nat /\ val \in Int /\ x \in Int
  BY Sizes DEF WordValue
<1>2. y \in Int
  BY <1>1, Sizes, DivMod
<1>3. ((val + x) - y) % Word = 0
  BY <1>1, NoRemainder
<1> HIDE DEF y
<1>4. val + x - y = (val + x) - y
  BY <1>1, <1>2
<1>5. (val + x - y) % Word = 0
  BY <1>3, <1>4
<1> QED
  BY <1>5 DEF y

\* What the code computes is what the operation is for.
LEMMA ResultsMake ==
  ASSUME NEW op \in AmoOps, op # "AMOSWAP",
         NEW val \in WordValue, NEW x \in WordValue,
         NEW new \in Results(op, val, x)
  PROVE  FM!Makes(op, val, x, new)
<1>1. op \in AllAmoOps
  BY AccessesAssumption
<1>2. FM!Values(4) = Word /\ Word \in Nat
  BY FlatValues, Sizes DEF Values
<1>3. CASE op = "AMOADD"
  BY <1>2, <1>3, SumsAgree DEF Results, FM!Makes
<1>4. CASE op = "AMOXOR"
  <2>1. Bits(new) = (Bits(val) \ Bits(x)) \cup (Bits(x) \ Bits(val))
    BY <1>4 DEF Results, WithBits
  <2>2. FM!Bits(new) = (FM!Bits(val) \cup FM!Bits(x)) \ (FM!Bits(val) \cap FM!Bits(x))
    <3>1. \A b, c : (b \ c) \cup (c \ b) = (b \cup c) \ (b \cap c)
      OBVIOUS
    <3>2. Bits(new) = (Bits(val) \cup Bits(x)) \ (Bits(val) \cap Bits(x))
      BY <2>1, <3>1
    <3> QED
      BY <3>2, BitsAreFlat
  <2> QED
    BY <1>4, <2>2 DEF FM!Makes
<1>5. CASE op = "AMOAND"
  <2>1. Bits(new) = Bits(val) \cap Bits(x)
    BY <1>5 DEF Results, WithBits
  <2> QED
    BY <1>5, <2>1, BitsAreFlat DEF FM!Makes
<1>6. CASE op = "AMOOR"
  <2>1. Bits(new) = Bits(val) \cup Bits(x)
    BY <1>6 DEF Results, WithBits
  <2> QED
    BY <1>6, <2>1, BitsAreFlat DEF FM!Makes
<1>7. CASE op \in {"AMOMIN", "AMOMAX"}
  <2>1. \A v : FM!Signed(v) = Int32(v)
    BY <1>2 DEF FM!Signed, FM!SignedOf, Int32
  <2>2. Int32(val) \in Int /\ Int32(x) \in Int
    BY <1>2 DEF Int32, WordValue
  <2>3. CASE op = "AMOMIN"
    <3>1. new = IF Int32(x) < Int32(val) THEN x ELSE val
      BY <2>3 DEF Results
    <3>2. /\ new \in {val, x}
          /\ \A v \in {val, x} : Int32(new) <= Int32(v)
      BY <2>2, <3>1
    <3> QED
      BY <2>1, <2>3, <3>2 DEF FM!Makes
  <2>4. CASE op = "AMOMAX"
    <3>1. new = IF Int32(val) < Int32(x) THEN x ELSE val
      BY <2>4 DEF Results
    <3>2. /\ new \in {val, x}
          /\ \A v \in {val, x} : Int32(new) >= Int32(v)
      BY <2>2, <3>1
    <3> QED
      BY <2>1, <2>4, <3>2 DEF FM!Makes
  <2> QED
    BY <1>7, <2>3, <2>4
<1>8. CASE op = "AMOMINU"
  <2>1. new = IF x < val THEN x ELSE val
    BY <1>8 DEF Results
  <2> QED
    BY <1>2, <1>8, <2>1 DEF FM!Makes, WordValue
<1>9. CASE op = "AMOMAXU"
  <2>1. new = IF val < x THEN x ELSE val
    BY <1>9 DEF Results
  <2> QED
    BY <1>2, <1>9, <2>1 DEF FM!Makes, WordValue
<1> QED
  BY <1>1, <1>3, <1>4, <1>5, <1>6, <1>7, <1>8, <1>9 DEF AllAmoOps

LEMMA AmoFlat ==
  ASSUME Types, NEW op \in AmoOps, op # "AMOSWAP", NEW a \in Addrs,
         NEW rd \in Registers, NEW rs2 \in Registers, Amo(op, a, rd, rs2)
  PROVE  FM!Access(MemoryOf(handlers), MemoryOf(handlers'))
<1> DEFINE val == Lookup(a, 4)
<1>1. Reach(a) /\ gpr' = With(gpr, rd, val)
  BY DEF Amo
<1>2. PICK new \in Results(op, val, gpr[rs2]) : handlers' = Write(handlers, a, 4, new)
  BY DEF Amo
<1> HIDE DEF val
<1>3. /\ phase = "software" /\ phase' = "access" /\ val \in WordValue
      /\ FM!Places(a, 4) \subseteq DOMAIN MemoryOf(handlers)
      /\ FM!Holds(MemoryOf(handlers), a, 4, val)
  BY <1>1, WordAccess DEF val
<1>4. gpr[rs2] \in WordValue
  BY DEF Types, TypeOK
<1>5. new \in WordValue
  BY <1>3, <1>4, ResultsInRange
<1>6. FM!Put(MemoryOf(handlers), MemoryOf(handlers'), a, 4, new)
  BY <1>1, <1>2, <1>5, WordAccess
<1>7. FM!Makes(op, val, gpr[rs2], new)
  BY <1>3, <1>4, ResultsMake
<1>8. FM!Gets(rd, val)
  BY <1>1, <1>3, WithGets DEF Types
<1>9. val \in FM!Value(4) /\ new \in FM!Value(4)
  BY <1>3, <1>5, FlatValues DEF FM!Value, Values, WordValue
<1>10. FM!Amo(MemoryOf(handlers), MemoryOf(handlers'), a, rd, rs2)
  BY <1>3, <1>6, <1>7, <1>8, <1>9 DEF FM!Amo
<1> QED
  BY <1>3, <1>10, AccessesAssumption DEF FM!Access

\* Registration adds the addresses of the new memory that had none, as zeros.
LEMMA RegisterFlat == Types /\ RegisterHandler => FM!Extend
<1> SUFFICES ASSUME Types, RegisterHandler PROVE FM!Extend
  OBVIOUS
<1> DEFINE n == Len(handlers) + 1
           d == Devices[n]
           h == BasicMemory(d.base, d.size)
           region == d.base .. (d.base + d.size - 1)
<1>1. /\ handlers \in Seq(HandlerSet) /\ DOMAIN handlers = 1 .. Len(handlers)
      /\ Len(handlers) \in Nat
  BY ListedHandlers DEF Types, Listed
<1>2. /\ phase = "boot" /\ Len(handlers) < Len(Devices)
      /\ handlers' = Append(handlers, h) /\ UNCHANGED <<gpr, phase>>
  BY DEF RegisterHandler, hartVars
<1>3. n \in DOMAIN Devices /\ d \in [base : Addr, size : Nat]
      /\ d.base + d.size < AddrSpace
  <2>1. Devices \in Seq([base : Addr, size : Nat])
    BY AccessesAssumption
  <2>2. n \in 1 .. Len(Devices) /\ DOMAIN Devices = 1 .. Len(Devices)
    BY <1>1, <1>2, <2>1
  <2>3. d \in [base : Addr, size : Nat]
    BY <2>1, <2>2, ElementType
  <2> QED
    BY <2>2, <2>3, AccessesAssumption
<1>4. d.base \in Nat /\ d.size \in Nat /\ d.base \in Addr
  BY <1>3, Sizes DEF Addr
<1>5. h \in HandlerSet /\ h.base = d.base /\ h.size = d.size
      /\ \A o \in 0 .. (d.size - 1) : h.memoryArray[o] = 0
  BY <1>4, BasicMemoryType DEF BasicMemory
<1>6. \A a \in Addr : Owns(h, a) <=> a \in region
  <2>1. (d.base + d.size) % AddrSpace = d.base + d.size
    <3>1. d.base + d.size \in Nat
      BY <1>4
    <3> QED
      BY <1>3, <3>1, Sizes, ModSmall
  <2> HIDE DEF h, d
  <2> QED
    BY <1>4, <1>5, <2>1, Sizes DEF Owns, Addr
<1>7. region \subseteq Addr
  <2> HIDE DEF d
  <2> QED
    BY <1>3, <1>4, Sizes DEF Addr
<1> HIDE DEF h
<1>8. /\ Listed(handlers') /\ DOMAIN handlers' = 1 .. n /\ handlers'[n] = h
      /\ \A i \in DOMAIN handlers : handlers'[i] = handlers[i]
  BY <1>1, <1>2, <1>5 DEF Listed
<1>9. \A a : HasHandler(handlers', a) <=> HasHandler(handlers, a) \/ Owns(h, a)
  <2>1. \A i : i \in 1 .. n <=> i \in 1 .. Len(handlers) \/ i = n
    BY <1>1
  <2> HIDE DEF n
  <2> QED
    BY <1>1, <1>8, <2>1 DEF HasHandler
<1>10. ASSUME NEW a \in Addr, HasHandler(handlers', a)
       PROVE  ReadByte(handlers', a) =
                IF HasHandler(handlers, a) THEN ReadByte(handlers, a) ELSE 0
  <2> DEFINE i == GetHandler(handlers', a)
  <2>1. IsFirst(handlers', a, i)
    BY <1>8, <1>10, GetHandlerFinds, ListedHandlers
  <2>2. ReadByte(handlers', a) = handlers'[i].memoryArray[a - handlers'[i].base]
    BY DEF ReadByte
  <2> HIDE DEF i
  <2>3. CASE HasHandler(handlers, a)
    <3> DEFINE j == GetHandler(handlers, a)
    <3>1. IsFirst(handlers, a, j)
      BY <2>3, GetHandlerFinds, ListedHandlers DEF Types
    <3>2. ReadByte(handlers, a) = handlers[j].memoryArray[a - handlers[j].base]
      BY DEF ReadByte
    <3> HIDE DEF j
    <3>3. j \in 1 .. Len(handlers) /\ handlers'[j] = handlers[j]
      BY <1>1, <1>8, <3>1 DEF IsFirst
    <3>4. \A k \in DOMAIN handlers' : k < j => k \in DOMAIN handlers
      BY <1>1, <1>8, <3>3
    <3>5. j \in DOMAIN handlers' /\ j \in DOMAIN handlers
      BY <1>1, <1>8, <3>3
    <3>6. IsFirst(handlers', a, j)
      BY <1>8, <3>1, <3>3, <3>4, <3>5 DEF IsFirst
    <3>7. i = j
      BY <1>8, <2>1, <3>6, FirstIsUnique, ListedHandlers
    <3> QED
      BY <2>2, <2>3, <3>2, <3>3, <3>7
  <2>4. CASE ~HasHandler(handlers, a)
    <3>1. i = n
      <4>1. i \notin DOMAIN handlers
        BY <1>8, <2>1, <2>4 DEF HasHandler, IsFirst
      <4>2. i \in 1 .. n
        BY <1>8, <2>1 DEF IsFirst
      <4> QED
        BY <1>1, <4>1, <4>2
    <3>2. Owns(h, a) /\ Handler(h)
      BY <1>5, <1>8, <2>1, <3>1, HandlerSetIs DEF IsFirst
    <3>3. a - h.base \in 0 .. (h.size - 1)
      BY <3>2, OwnedPlace
    <3> QED
      BY <1>5, <1>8, <2>2, <2>4, <3>1, <3>3
  <2> QED
    BY <2>3, <2>4
<1>11. DOMAIN MemoryOf(handlers') = DOMAIN MemoryOf(handlers) \cup region
  BY <1>6, <1>7, <1>9, MemoryIs
<1>12. region \in Regions
  BY <1>3 DEF Regions
<1>13. MemoryOf(handlers') =
         [a \in DOMAIN MemoryOf(handlers') |->
            IF a \in DOMAIN MemoryOf(handlers) THEN MemoryOf(handlers)[a] ELSE 0]
  <2>1. ASSUME NEW a \in DOMAIN MemoryOf(handlers')
        PROVE  MemoryOf(handlers')[a] =
                 IF a \in DOMAIN MemoryOf(handlers) THEN MemoryOf(handlers)[a] ELSE 0
    BY <1>10, <2>1, MemoryIs
  <2>2. MemoryOf(handlers') =
          [a \in DOMAIN MemoryOf(handlers') |-> MemoryOf(handlers')[a]]
    BY DEF MemoryOf
  <2> QED
    BY <2>1, <2>2
<1> QED
  BY <1>2, <1>11, <1>12, <1>13 DEF FM!Extend

LEMMA LoadMemoryFlat ==
  ASSUME Types, NEW size \in FileSizes, LoadMemory(size) PROVE FM!Fill
<1>1. Listed(handlers') /\ SameRanges(handlers, handlers')
  BY LoadMemoryFills
<1>2. phase = "boot" /\ UNCHANGED <<gpr, phase>>
  BY DEF LoadMemory, hartVars
<1>3. DOMAIN MemoryOf(handlers') = DOMAIN MemoryOf(handlers)
  BY <1>1, SameSearch, MemoryIs
<1>4. \A a \in DOMAIN MemoryOf(handlers) : MemoryOf(handlers')[a] \in FM!Value(1)
  <2>1. FM!Value(1) = ByteValue
    BY DEF FM!Value, FM!Values, ByteValue
  <2> QED
    BY <1>1, <1>3, <2>1, MemoryIs, ReadByteInRange
<1> QED
  BY <1>2, <1>3, <1>4 DEF FM!Fill

-----------------------------------------------------------------------------
(* The refinement: steps *)

LEMMA InstructionFlat ==
  ASSUME "AMOSWAP" \notin AmoOps, Types, Instruction
  PROVE  \/ FM!Access(MemoryOf(handlers), MemoryOf(handlers'))
         \/ FM!Stop(MemoryOf(handlers), MemoryOf(handlers'))
<1> PICK a \in Addrs, r \in Registers :
      \/ \E op \in Loads : Load(op, a, r)
      \/ \E op \in Stores : Store(op, a, r)
      \/ AmoThrow(a)
      \/ LoadReserved(a, r)
      \/ \E rs2 \in Registers :
           \/ StoreConditional(a, r, rs2)
           \/ \E op \in AmoOps : Amo(op, a, r, rs2)
  BY DEF Instruction
<1>1. ASSUME NEW op \in Loads, Load(op, a, r), ~Backs(a, Size(op))
      PROVE  FM!Stop(MemoryOf(handlers), MemoryOf(handlers'))
  <2>1. phase = "software" /\ handlers' = handlers /\ Throw
    BY <1>1 DEF Load
  <2> QED
    BY <1>1, <2>1, SizeType, ThrowStops
<1>2. ASSUME NEW op \in Stores, Store(op, a, r), ~Backs(a, Size(op))
      PROVE  FM!Stop(MemoryOf(handlers), MemoryOf(handlers'))
  <2>1. /\ phase = "software" /\ Throw
        /\ handlers' = Write(handlers, a, Size(op), gpr[r])
    BY <1>2 DEF Store
  <2>2. gpr[r] \in WordValue
    BY DEF Types, TypeOK
  <2> QED
    BY <1>2, <2>1, <2>2, SizeType, ThrowStops
<1>3. CASE AmoThrow(a)
  <2>1. phase = "software" /\ handlers' = handlers /\ Throw /\ ~Backs(a, 4)
    BY <1>3 DEF AmoThrow
  <2> QED
    BY <2>1, ThrowStops
<1> QED
  BY <1>1, <1>2, <1>3, LoadFlat, StoreFlat, LoadReservedFlat,
     StoreConditionalFlat, AmoFlat

LEMMA ResumeFlat == Types /\ (Start \/ Software) => FM!Resume
<1> SUFFICES ASSUME Types, Start \/ Software PROVE FM!Resume
  OBVIOUS
<1>1. FM!Value(4) = WordValue
  BY FlatValues DEF FM!Value, Values, WordValue
<1>2. phase \in {"boot", "access"} /\ phase' = "software" /\ handlers' = handlers
  BY DEF Start, Software
<1>3. Types'
  BY StartTypes DEF Software, Types, TypeOK
<1> QED
  BY <1>1, <1>2, <1>3 DEF FM!Resume, Types, TypeOK

LEMMA FlatStep ==
  ASSUME "AMOSWAP" \notin AmoOps, Types, [Next]_vars
  PROVE  [FM!Next]_<<MemoryOf(handlers), gpr, phase>>
<1>1. ASSUME \/ FM!Access(MemoryOf(handlers), MemoryOf(handlers'))
             \/ FM!Stop(MemoryOf(handlers), MemoryOf(handlers'))
      PROVE  FM!Next
  BY <1>1 DEF FM!Next
<1>2. CASE RegisterHandler
  BY <1>2, RegisterFlat DEF FM!Next
<1>3. ASSUME NEW size \in FileSizes, LoadMemory(size) PROVE FM!Next
  BY <1>3, LoadMemoryFlat DEF FM!Next
<1>4. CASE GiveUp
  <2>1. /\ phase = "boot" /\ phase' = "stopped" /\ UNCHANGED <<handlers, gpr>>
    BY <1>4 DEF GiveUp, hartVars
  <2> QED
    BY <1>1, <2>1 DEF FM!Stop
<1>5. CASE Start \/ Software
  BY <1>5, ResumeFlat DEF FM!Next
<1>6. CASE Instruction
  BY <1>1, <1>6, InstructionFlat
<1>7. CASE UNCHANGED vars
  BY <1>7 DEF vars
<1> QED
  BY <1>2, <1>3, <1>4, <1>5, <1>6, <1>7 DEF Next, Boot

\* Behind its handlers memory is one flat memory, for every list of memories,
\* overlapping or not, every size of byte and every address space; AMOSWAP.W,
\* which the code gives a register too many, is left out.
THEOREM MemoryIsFlat ==
  ("AMOSWAP" \notin AmoOps) /\ Spec => ImplementsFlatMemory
<1> SUFFICES ASSUME "AMOSWAP" \notin AmoOps PROVE Spec => ImplementsFlatMemory
  OBVIOUS
<1>1. Init => FM!Init
  <2> SUFFICES ASSUME Init PROVE FM!Init
    OBVIOUS
  <2>1. MemoryOf(handlers) = [a \in {} |-> 0]
    <3>1. {a \in Addr : HasHandler(handlers, a)} = {}
      BY DEF Init, HasHandler
    <3> QED
      BY <3>1 DEF MemoryOf
  <2> QED
    BY <2>1 DEF Init, FM!Init
<1>2. Types /\ [Next]_vars => [FM!Next]_<<MemoryOf(handlers), gpr, phase>>
  BY FlatStep
<1> QED
  BY <1>1, <1>2, TypesInvariant, PTL DEF Spec, ImplementsFlatMemory, FM!Spec

\* Every atomic, AMOSWAP.W too, makes of what it finds in memory and of its
\* operand what its name says, for words of any width.
THEOREM AtomicsAreAsNamed == Spec => []AtomicsAsNamed
<1>1. Types => AtomicsAsNamed
  <2> SUFFICES ASSUME Types, NEW op \in AmoOps, NEW a \in Addrs,
                      NEW rs2 \in Registers, Backs(a, 4),
                      NEW new \in Results(op, Lookup(a, 4), gpr[rs2])
               PROVE  FM!Makes(op, Lookup(a, 4), gpr[rs2], new)
    BY DEF AtomicsAsNamed
  <2>1. Lookup(a, 4) \in WordValue /\ gpr[rs2] \in WordValue
    <3>1. a \in Addr
      BY AccessesAssumption
    <3> QED
      BY <3>1, LookupInRange DEF Types, TypeOK
  <2>2. CASE op = "AMOSWAP"
    BY <2>2 DEF Results, FM!Makes
  <2>3. CASE op # "AMOSWAP"
    BY <2>1, <2>3, ResultsMake
  <2> QED
    BY <2>2, <2>3
<1> QED
  BY <1>1, TypesInvariant, PTL
LEMMA LoadIsNamed ==
  ASSUME Types, NEW op \in Loads, NEW a \in Addrs, NEW r \in Registers,
         Load(op, a, r), phase' = "access"
  PROVE  FM!LoadAsNamed(op, MemoryOf(handlers), a, r)
<1> DEFINE n      == Size(op)
           v      == Lookup(a, n)
           signed == op \in {"LB", "LH"}
           x      == FM!Extended(v, n, signed)
<1>1. Backs(a, n)
  BY DEF Load, Throw
<1>2. /\ n \in {1, 2, 4} /\ v \in FM!Value(n)
      /\ FM!Holds(MemoryOf(handlers), a, n, v)
      /\ x \in WordValue /\ FM!Gets(r, x)
  BY <1>1, LoadGets
<1>3. n = FM!Width(op)
  BY DEF Loads, Size, FM!Width
<1>4. x \in FM!Value(4)
  BY <1>2, FlatValues DEF FM!Value, WordValue, Values
<1>5. IF op \in {"LBU", "LHU"} THEN x = v ELSE FM!Signed(x) = FM!SignedOf(v, n)
  <2>1. CASE op \in {"LBU", "LHU"}
    <3>1. signed = FALSE
      BY <2>1
    <3>2. x = v
      BY <3>1 DEF FM!Extended
    <3> QED
      BY <2>1, <3>2
  <2>2. CASE op \in {"LB", "LH"}
    <3>1. signed = TRUE
      BY <2>2
    <3>2. x = FM!Extended(v, n, TRUE)
      BY <3>1
    <3> HIDE DEF n, v, x, signed
    <3> QED
      BY <1>2, <2>2, <3>2, ExtendedIsSigned
  <2>3. CASE op = "LW"
    <3>1. signed = FALSE /\ n = 4
      BY <2>3 DEF Size
    <3>2. x = v
      BY <3>1 DEF FM!Extended
    <3> HIDE DEF n, v, x, signed
    <3> QED
      BY <2>3, <3>1, <3>2 DEF FM!Signed
  <2> QED
    BY <2>1, <2>2, <2>3 DEF Loads
<1> HIDE DEF n, v, x, signed
<1> QED
  BY <1>2, <1>3, <1>4, <1>5 DEF FM!LoadAsNamed

\* Every load gives the register that it names, and no other, the number that
\* its name says, for bytes of every size and behind every list of memories.
THEOREM LoadsAreAsNamed == Spec => LoadsAsNamed
<1> DEFINE Named == phase' = "access" /\ handlers' = handlers
                      => \A op \in Loads, a \in Addrs, rd \in Registers :
                           Load(op, a, rd)
                             => FM!LoadAsNamed(op, MemoryOf(handlers), a, rd)
<1>1. Types => [Named]_vars
  BY LoadIsNamed
<1> HIDE DEF Named
<1>2. Spec => [][Named]_vars
  BY <1>1, TypesInvariant, PTL
<1> QED
  BY <1>2 DEF Named, LoadsAsNamed
=============================================================================
