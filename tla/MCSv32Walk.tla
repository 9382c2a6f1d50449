---------------------------- MODULE MCSv32Walk ----------------------------
(***************************************************************************)
(* An instance of Sv32Walk with tables of two entries: pages of 8 bytes,   *)
(* 32 addresses, physical pages 1 to 3 backed by memory and page 0 not, as *)
(* on the machine.  Page 1 is the root and page 2 a second table; both     *)
(* entries of a page are equal, and the two of them take every combination *)
(* of flags.                                                               *)
(***************************************************************************)
EXTENDS Sv32Walk

Flags == {"V", "R", "W", "X", "U", "A", "D"}

Entry(flags, ppn) ==
  [flags |-> flags, ppn1 |-> ppn \div PteCount, ppn0 |-> ppn % PteCount]

\* Leaves to an aligned and a misaligned superpage, to page 0 and beyond
\* 32 bits.
Leaves ==
  {Entry(f, p) : f \in {g \in SUBSET Flags : g \cap {"R", "X"} # {}},
                 p \in {0, 2, 3, 4}}

\* Entries without R and X: pointers to the second table, to the root
\* itself, to a page without memory and, beyond 32 bits, to an alias of the
\* second table; and invalid entries.
Pointers == {Entry({"V"}, p) : p \in {2, 1, 0, 6}}
Invalids == {Entry({}, 2), Entry({"V", "W"}, 2)}

TwoPages(top, low) ==
  [a \in {8, 12, 16, 20, 24, 28} |->
     IF a < 16 THEN top ELSE IF a < 24 THEN low ELSE EmptyPte]

\* Three tables for address 13, whose two indices differ: the walk leaves level
\* 0 for the third table, which points to itself, and finds what is at the
\* other index of it when i is 0 again.
Returning(last) ==
  [a \in {8, 12, 16, 20, 24, 28} |->
     CASE a = 8  -> Entry({"V"}, 2)
       [] a \in {20, 24} -> Entry({"V"}, 3)
       [] a = 28 -> last
       [] OTHER  -> EmptyPte]

MCMemories ==
  {Returning(last) : last \in Leaves \cup Pointers \cup Invalids}
    \cup {TwoPages(top, EmptyPte) : top \in Leaves \cup Invalids}
    \cup {TwoPages(top, low) : top \in Pointers,
                               low \in Leaves \cup Pointers \cup Invalids}

Caller(sup, bits, ppn) ==
  [supervisorMode |-> sup, sstatus |-> bits, satp |-> [mode |-> 1, ppn |-> ppn]]

\* The root is page 1; also no memory at the root, and a root beyond 32
\* bits whose low bits name page 1.
MCRequests ==
  {Caller(sup, bits, 1) : sup \in BOOLEAN, bits \in SUBSET {"SUM", "MXR"}}
    \cup {Caller(TRUE, {}, 0), Caller(TRUE, {"SUM"}, 5)}

\* Both levels' indices, offset 0 of page 0 and a nonzero offset.
MCAddresses == {0, 13, 25}
=============================================================================
