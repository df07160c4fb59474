----------------------------- MODULE MCLamport -----------------------------
(***************************************************************************)
(* Instances of Lamport for TLC.  Initial clocks differ, as in the         *)
(* program's usage, so that a reception can make the clock jump.           *)
(***************************************************************************)
EXTENDS Lamport
=============================================================================
