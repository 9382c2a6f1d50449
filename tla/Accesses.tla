----------------------------- MODULE Accesses -----------------------------
(***************************************************************************)
(* The memory of the machine from main to the instructions that use it:    *)
(* main registers the memory and loads the images, then the hart executes  *)
(* the LOAD, STORE and AMO cases of stepInstruction on it.  Addresses are  *)
(* physical: Hart has the translation, the traps and the privilege modes,  *)
(* and an access that traps changes nothing here.                          *)
(*                                                                         *)
(* Software computes with registers, or goes on with another thread, and   *)
(* then makes an access.  linked is a history variable: the thread and the *)
(* word of the last LR.W before an SC.W, and whether no other thread has   *)
(* written to the word since.                                              *)
(***************************************************************************)
EXTENDS MemoryMap

CONSTANTS
  XLEN,         \* bits of a register, 32 in the code
  Registers,    \* numbers of registers, with 0
  Devices,      \* base and size of the memories that main registers
  Starts,       \* where main loads the images
  Contents,     \* the byte that fills each image
  FileSizes,    \* the sizes that an image may have
  Addrs,        \* physical addresses that software accesses
  AmoOps,       \* the read-modify-write instructions that software uses
  Threads,
  PairedSoftware  \* SC.W is used on the word of the LR.W before it, or as
                  \* the kernel does before it goes on with another thread:
                  \* only for its effect on the reservation

AllAmoOps == {"AMOSWAP", "AMOADD", "AMOXOR", "AMOAND", "AMOOR",
              "AMOMIN", "AMOMAX", "AMOMINU", "AMOMAXU"}

ASSUME AccessesAssumption ==
  /\ XLEN \in Nat
  /\ Word = 2^XLEN
  /\ Registers \subseteq Nat
  /\ 0 \in Registers
  /\ Devices \in Seq([base : Addr, size : Nat])
  /\ Devices # <<>>
  /\ \A i \in DOMAIN Devices : Devices[i].base + Devices[i].size < AddrSpace
  /\ Starts \in Seq(Addr)
  /\ Starts # <<>>
  /\ \A i \in DOMAIN Starts : Starts[i] + Devices[1].size < AddrSpace
  /\ Contents \in Seq(ByteValue)
  /\ Len(Contents) = Len(Starts)
  /\ FileSizes \subseteq Nat
  /\ Addrs \subseteq Addr
  /\ AmoOps \subseteq AllAmoOps
  /\ PairedSoftware \in BOOLEAN

VARIABLES
  handlers,             \* MemoryMapManager's, with the memory in them
  gpr,                  \* the registers
  reservationSetValid,  \* of the hart
  phase,                \* "boot", "software", "access" (done) or "stopped"
  images,               \* what main has loaded so far: [start, size, byte]
  thread,               \* the thread that runs
  linked                \* history: the last LR.W, or nothing

vars == <<handlers, gpr, reservationSetValid, phase, images, thread, linked>>

WordValue == 0 .. (Word - 1)
Links     == [thread : Threads, addr : Addr, intact : BOOLEAN]

TypeOK ==
  /\ \A i \in DOMAIN handlers : Handler(handlers[i])
  /\ gpr \in [Registers -> WordValue]
  /\ gpr[0] = 0
  /\ reservationSetValid \in BOOLEAN
  /\ phase \in {"boot", "software", "access", "stopped"}
  /\ images \in Seq([start : Addr, size : Nat, byte : ByteValue])
  /\ thread \in Threads
  /\ linked = {} \/ \E l \in Links : linked = {l}

Init ==
  /\ handlers = <<>>
  /\ gpr = [r \in Registers |-> 0]
  /\ reservationSetValid = FALSE
  /\ phase = "boot"
  /\ images = <<>>
  /\ thread \in Threads
  /\ linked = {}

hartVars == <<gpr, reservationSetValid, thread, linked>>

-----------------------------------------------------------------------------
(* main *)

RegisterHandler ==
  /\ phase = "boot"
  /\ Len(handlers) < Len(Devices)
  /\ LET d == Devices[Len(handlers) + 1]
     IN  handlers' = Append(handlers, BasicMemory(d.base, d.size))
  /\ UNCHANGED <<hartVars, phase, images>>

Refused(start, size) ==
  \/ start < handlers[1].base
  \/ size >= handlers[1].size

\* The addresses that the loop of loadMemory writes to; lastAddr wraps.
ImageAddrs(start, size) == start .. (((start + size) % AddrSpace) - 1)

Filled(h, addrs, byte) ==
  [h EXCEPT !.memoryArray =
     [o \in DOMAIN @ |-> IF h.base + o \in addrs THEN byte ELSE @[o]]]

\* A build without assertions.
Fits_NoAssert(addrs) == TRUE

\* The assertion of writeByte.
Fits(addrs) == \A a \in addrs : InBounds(handlers[1], a)

\* loadMemory writes to the memory itself, not through the manager.
LoadMemory(size) ==
  LET k     == Len(images) + 1
      start == Starts[k]
      addrs == ImageAddrs(start, size)
  IN  /\ phase = "boot"
      /\ Len(handlers) = Len(Devices)
      /\ Len(images) < Len(Starts)
      /\ ~Refused(start, size)
      /\ Fits(addrs)
      /\ handlers' = [handlers EXCEPT ![1] = Filled(@, addrs, Contents[k])]
      /\ images' = Append(images, [start |-> start, size |-> size,
                                   byte |-> Contents[k]])
      /\ UNCHANGED <<hartVars, phase>>

\* main returns when a file is not there, which may be at any image, or is
\* refused, and aborts when it does not fit.
GiveUp ==
  /\ phase = "boot"
  /\ Len(handlers) = Len(Devices)
  /\ Len(images) < Len(Starts)
  /\ phase' = "stopped"
  /\ UNCHANGED <<handlers, hartVars, images>>

\* The hart starts, with the address of the last image in a1.
Start ==
  /\ phase = "boot"
  /\ Len(handlers) = Len(Devices)
  /\ Len(images) = Len(Starts)
  /\ phase' = "software"
  /\ gpr' \in {g \in [Registers -> {0, Starts[Len(Starts)] % Word}] : g[0] = 0}
  /\ images' = <<>>
  /\ UNCHANGED <<handlers, reservationSetValid, thread, linked>>

-----------------------------------------------------------------------------
(* LOAD and STORE *)

\* A setRegister that does not clear x0.
With_KeepsZero(g, rd, v) == [g EXCEPT ![rd] = v]

\* setRegister, on registers g.
With(g, rd, v) == [g EXCEPT ![rd] = v, ![0] = 0]

Backs(a, n) == Backed(handlers, a, n)

Lookup(a, n) == Read(handlers, a, n)

\* A write to this word breaks the link of another thread.
Touched(a) ==
  {[l EXCEPT !.intact = @ /\ (l.thread = thread \/ l.addr # a - (a % 4))]
     : l \in linked}

\* An access to an address without a handler throws, and the catch clause of
\* main ends the emulation.
Throw ==
  /\ phase' = "stopped"
  /\ UNCHANGED <<gpr, reservationSetValid, images, thread, linked>>

SIGN_EXTEND(v, width) ==
  IF 2 * v >= width THEN v + (Word - width) ELSE v

Loads  == {"LB", "LH", "LW", "LBU", "LHU"}
Stores == {"SB", "SH", "SW"}

Size(op) == CASE op \in {"LB", "LBU", "SB"} -> 1
              [] op \in {"LH", "LHU", "SH"} -> 2
              [] op \in {"LW", "SW"} -> 4

\* The signed and the unsigned load of a byte exchanged.
Extended_Exchanged(op, v) ==
  CASE op = "LBU" -> SIGN_EXTEND(v, Byte)
    [] op = "LH"  -> SIGN_EXTEND(v, Half)
    [] OTHER -> v

\* What op puts into its register of a v that it has read.
Extended(op, v) ==
  CASE op = "LB" -> SIGN_EXTEND(v, Byte)
    [] op = "LH" -> SIGN_EXTEND(v, Half)
    [] OTHER -> v

Load(op, a, rd) ==
  LET n == Size(op)
      v == Lookup(a, n)
  IN  /\ phase = "software"
      /\ a % n = 0
      /\ UNCHANGED handlers
      /\ IF Backs(a, n)
         THEN /\ gpr' = With(gpr, rd, Extended(op, v))
              /\ phase' = "access"
              /\ UNCHANGED <<reservationSetValid, images, thread, linked>>
         ELSE Throw

Store(op, a, rs2) ==
  /\ phase = "software"
  /\ a % Size(op) = 0
  /\ handlers' = Write(handlers, a, Size(op), gpr[rs2])
  /\ IF Backs(a, Size(op))
     THEN /\ linked' = Touched(a)
          /\ phase' = "access"
          /\ UNCHANGED <<gpr, reservationSetValid, images, thread>>
     ELSE Throw

-----------------------------------------------------------------------------
(* AMO *)

\* Every AMO instruction reads the word first, and throws if it cannot.
AmoThrow(a) ==
  /\ phase = "software"
  /\ a % 4 = 0
  /\ ~Backs(a, 4)
  /\ UNCHANGED handlers
  /\ Throw

Reach(a) ==
  /\ phase = "software"
  /\ a % 4 = 0
  /\ Backs(a, 4)
  /\ phase' = "access"
  /\ UNCHANGED <<images, thread>>

LoadReserved(a, rd) ==
  /\ Reach(a)
  /\ gpr' = With(gpr, rd, Lookup(a, 4))
  /\ reservationSetValid' = TRUE
  /\ linked' = {[thread |-> thread, addr |-> a, intact |-> TRUE]}
  /\ UNCHANGED handlers

\* An SC.W that leaves the flag as it is.
StoreConditional_KeepsFlag(a, rd, rs2) ==
  /\ Reach(a)
  /\ PairedSoftware => rd = 0 \/ \A l \in linked : l.addr = a
  /\ gpr' = With(gpr, rd, IF reservationSetValid THEN 0 ELSE 1)
  /\ handlers' = IF reservationSetValid
                 THEN Write(handlers, a, 4, gpr[rs2]) ELSE handlers
  /\ linked' = {}
  /\ UNCHANGED reservationSetValid

StoreConditional(a, rd, rs2) ==
  /\ Reach(a)
  /\ PairedSoftware => rd = 0 \/ \A l \in linked : l.addr = a
  /\ gpr' = With(gpr, rd, IF reservationSetValid THEN 0 ELSE 1)
  /\ handlers' = IF reservationSetValid
                 THEN Write(handlers, a, 4, gpr[rs2]) ELSE handlers
  /\ reservationSetValid' = FALSE
  /\ linked' = {}

\* The cast left out.
Int32_Unsigned(v) == v

\* static_cast<int32_t>
Int32(v) == IF 2 * v < Word THEN v ELSE v - Word

Bits(v) == {i \in 0 .. (XLEN - 1) : (v \div 2^i) % 2 = 1}

\* The words with these bits, which is one word.
WithBits(bits) == {v \in WordValue : Bits(v) = bits}

\* The word that op writes, in a set of its own.
Results(op, val, x) ==
  CASE op = "AMOSWAP" -> {x}
    [] op = "AMOADD"  -> {(val + x) % Word}
    [] op = "AMOXOR"  -> WithBits((Bits(val) \ Bits(x)) \cup (Bits(x) \ Bits(val)))
    [] op = "AMOAND"  -> WithBits(Bits(val) \cap Bits(x))
    [] op = "AMOOR"   -> WithBits(Bits(val) \cup Bits(x))
    [] op = "AMOMIN"  -> {IF Int32(x) < Int32(val) THEN x ELSE val}
    [] op = "AMOMAX"  -> {IF Int32(val) < Int32(x) THEN x ELSE val}
    [] op = "AMOMINU" -> {IF x < val THEN x ELSE val}
    [] op = "AMOMAXU" -> {IF val < x THEN x ELSE val}

\* AMOSWAP also writes the old word to the register of its operand.
Amo(op, a, rd, rs2) ==
  LET val == Lookup(a, 4)
  IN  /\ Reach(a)
      /\ gpr' = With(IF op = "AMOSWAP" THEN With(gpr, rs2, val) ELSE gpr,
                     rd, val)
      /\ \E new \in Results(op, val, gpr[rs2]) :
           handlers' = Write(handlers, a, 4, new)
      /\ linked' = Touched(a)
      /\ UNCHANGED reservationSetValid

-----------------------------------------------------------------------------
(* Software *)

\* Instructions that compute, and the kernel, which may go on with another
\* thread.  Nothing clears the flag then: the kernel of paired software makes
\* an SC.W of its own before, if the thread has made an LR.W and no SC.W.
Software ==
  /\ phase = "access"
  /\ phase' = "software"
  /\ gpr' \in {g \in [Registers -> WordValue] : g[0] = 0}
  /\ thread' \in IF PairedSoftware /\ linked # {} THEN {thread} ELSE Threads
  /\ UNCHANGED <<handlers, reservationSetValid, images, linked>>

-----------------------------------------------------------------------------
Boot ==
  \/ RegisterHandler
  \/ \E size \in FileSizes : LoadMemory(size)
  \/ GiveUp
  \/ Start

Instruction ==
  \E a \in Addrs, r \in Registers :
    \/ \E op \in Loads : Load(op, a, r)
    \/ \E op \in Stores : Store(op, a, r)
    \/ AmoThrow(a)
    \/ LoadReserved(a, r)
    \/ \E rs2 \in Registers :
         \/ StoreConditional(a, r, rs2)
         \/ \E op \in AmoOps : Amo(op, a, r, rs2)

Next ==
  \/ Boot
  \/ Instruction
  \/ Software

Spec == Init /\ [][Next]_vars

-----------------------------------------------------------------------------
(* Properties *)

Regions == {Devices[i].base .. (Devices[i].base + Devices[i].size - 1)
              : i \in DOMAIN Devices}

FM == INSTANCE FlatMemory WITH memory <- MemoryOf(handlers)

\* Memory behind its handlers is one flat memory: accesses of every size
\* take the bytes, in the order of their addresses, that the last accesses
\* left there, and change nothing else, and an instruction changes one
\* register at most.  About the bytewise accesses of mem_map_manager.cpp and
\* the LOAD, STORE and AMO cases.
ImplementsFlatMemory == FM!Spec

\* FlatMemory lets a load be of any sign and into any register.  Each gives
\* the register it names, and no other, what its own name says: the bytes as
\* a signed number with LB and LH, as an unsigned one with LBU and LHU.
\* About hart.cpp:54-75.
LoadsAsNamed ==
  [][phase' = "access" /\ handlers' = handlers
       => \A op \in Loads, a \in Addrs, rd \in Registers :
            Load(op, a, rd)
              => FM!LoadAsNamed(op, MemoryOf(handlers), a, rd)]_vars

\* FlatMemory lets an atomic do what any atomic does.  Each does what its own
\* name says to what it finds in memory: the sum wraps, the logical operations
\* take bit by bit, and only AMOMIN and AMOMAX compare as signed numbers.
\* About the casts and operators of the AMO cases (hart.cpp:219-271).
AtomicsAsNamed ==
  phase = "software" =>
    \A op \in AmoOps, a \in Addrs, rs2 \in Registers :
      a % 4 = 0 /\ Backs(a, 4) =>
        \A new \in Results(op, Lookup(a, 4), gpr[rs2]) :
          FM!Makes(op, Lookup(a, 4), gpr[rs2], new)

\* An SC.W that reports success follows an LR.W of the same thread on the
\* same word, to which no other thread has written since: no update is lost.
\* The hart keeps one flag, without an address or a thread, which SC.W alone
\* clears (hart.cpp:204-218).
ScOnlyAfterItsLr ==
  [][\A a \in Addrs, rd, rs2 \in Registers :
       rd # 0 /\ StoreConditional(a, rd, rs2) /\ gpr'[rd] = 0
         => linked =
              {[thread |-> thread, addr |-> a, intact |-> TRUE]}]_vars

\* What the hart finds in memory when it starts are the images: an image is
\* there to its last byte, as the manager reads it, unless a later one lies
\* over it.  About loadMemory, which goes round the manager and compares the
\* size of a file, not its end, with the memory.
Overlaps(m, k) == \E a \in m.start .. (m.start + m.size - 1) :
                    a \in k.start .. (k.start + k.size - 1)

ImagesIntact ==
  \A i \in DOMAIN images :
    (\A j \in DOMAIN images : i < j => ~Overlaps(images[i], images[j]))
      => \A a \in images[i].start .. (images[i].start + images[i].size - 1) :
           /\ HasHandler(handlers, a)
           /\ ReadByte(handlers, a) = images[i].byte
=============================================================================
