---------------------------- MODULE MCAccesses ----------------------------
(* Small machines for Accesses: bytes of one bit and words of four.        *)
EXTENDS Accesses, TLC

MCRegisters == {0, 1}
MCThreeRegisters == {0, 1, 2}

\* The second memory begins inside the first and has one byte of its own.
MCDevices == <<[base |-> 4, size |-> 4], [base |-> 6, size |-> 3]>>

\* The last image begins in the middle of the memory.
MCStarts   == <<4, 6>>
MCContents == <<1, 1>>

\* One memory of two words, filled by one image.
MCWordDevices  == <<[base |-> 4, size |-> 8]>>
MCWordStarts   == <<4>>
MCWordContents == <<1>>

Swap == Permutations(Threads)
=============================================================================
