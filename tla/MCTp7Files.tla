----------------------------- MODULE MCTp7Files -----------------------------
(***************************************************************************)
(* Instances of Tp7Files for TLC.                                          *)
(***************************************************************************)
EXTENDS Tp7Files

CONSTANTS f, g

\* Readers and writers of one file, and writers of another that the same
\* server keeps.
Mixed == {[file |-> f, cmd |-> "WRITE"], [file |-> f, cmd |-> "READ"], [file |-> g, cmd |-> "WRITE"]}
=============================================================================
