---------------------------- MODULE MCCounters ----------------------------
(***************************************************************************)
(* Counters with halves of one bit, so that carries and wraps of both      *)
(* halves happen within a few instructions, and ticks of two nanoseconds,  *)
(* so that the clock shows less than a tick, one, and more.                *)
(***************************************************************************)
EXTENDS Counters

\* Every value of every counter, for halves of one bit.
AllCounters == Pair
AllTimes    == 0 .. (Wide - 1)

OnlyForward == {1, 2}

OneBit == {0, 1}
=============================================================================
