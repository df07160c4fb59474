----------------------------- MODULE MCFirstDns -----------------------------
(***************************************************************************)
(* Instances of FirstDns for TLC.                                          *)
(***************************************************************************)
EXTENDS FirstDns, TLC

CONSTANTS r1, r2, r3

\* Two servers on one host and one on another; the table of servers has room
\* for two.
Desde == (r1 :> "h") @@ (r2 :> "h") @@ (r3 :> "k")
Dichas == (r1 :> [ip |-> "h", puerto |-> 1]) @@ (r2 :> [ip |-> "h", puerto |-> 2])
          @@ (r3 :> [ip |-> "k", puerto |-> 1])

\* In each of the three directories.
Carpeta == (r1 :> {"a", "a b", "c"}) @@ (r2 :> {"a b", " ", "c"}) @@ (r3 :> {"b", "c"})

\* One file's name begins with another's, and one is a blank.
Palabra == [nombre \in Nombres |->
    CASE nombre = "a b" -> "a" [] nombre = " " -> SinNombre [] OTHER -> nombre]
=============================================================================
