----------------------------- MODULE MCBerkeley -----------------------------
(***************************************************************************)
(* Instances of Berkeley for TLC: MAX_CLIENTS is two, as in daemon.c.      *)
(***************************************************************************)
EXTENDS Berkeley

CONSTANTS c1, c2

Together == [c \in Clients |-> 0]

\* In half seconds: one clock is behind the daemon's and one ahead of it, and
\* their seconds do not begin together.
Apart == [c \in Clients |-> IF c = c1 THEN -1 ELSE 2]
=============================================================================
