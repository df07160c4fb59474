---------------------------- MODULE MCFileSystem ----------------------------
(***************************************************************************)
(* Instances of FileSystem for TLC: two servers that share the name of a   *)
(* text file; a folder, and a file that only "subir_archivo" registers.    *)
(***************************************************************************)
EXTENDS FileSystem, TLC

CONSTANTS d1, d2

KindOf == [a |-> "txt", b |-> "other", c |-> "folder"]
TwoDisks == (d1 :> {"a", "c"}) @@ (d2 :> {"a"})
OneDisk  == d1 :> {"a", "b", "c"}

\* Commands: the daemon is d1's, d2 competes with it for the name.
TwoMenus == (d1 :> {"habilitar", "subir", "salir"}) @@ (d2 :> {"actualizar_todo"})
OneMenu  == d1 :> {"habilitar", "subir"}

\* Requests
Shared      == {<<"a", "ESCRIBIR">>, <<"a", "LEER">>, <<"c", "LEER">>}
WriteOther  == {<<"b", "ESCRIBIR">>}
=============================================================================
