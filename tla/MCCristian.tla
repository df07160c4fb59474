----------------------------- MODULE MCCristian -----------------------------
(***************************************************************************)
(* Instances of Cristian for TLC.                                          *)
(***************************************************************************)
EXTENDS Cristian

\* A clock that is right, and one that is behind by whole seconds and a half.
Far == {-5, 0}
=============================================================================
