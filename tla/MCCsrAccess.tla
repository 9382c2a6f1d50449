---------------------------- MODULE MCCsrAccess ----------------------------
(* Words of two bits: one grants the counter and the other does not.  One  *)
(* CSR of each kind that the code tells apart: a counter, whose half is the *)
(* high one, the CSR that grants it, and one that traps write.             *)
EXTENDS CsrAccess

MCRegisters == {0, 1, 2}
MCCsrNames  == {"timeh", "scounteren", "sepc"}
=============================================================================
