---------------------------- MODULE EditedPages ----------------------------
(***************************************************************************)
(* What the page server promises about writing, without descriptors,       *)
(* queues, messages or threads: a page is edited by one user at a time,    *)
(* and its text changes only when its editor stores a new one, in one      *)
(* step that also gives the page up.  Who is next is left open.            *)
(***************************************************************************)
CONSTANTS Pages, Users, NoUser, Texts, Blank

VARIABLES text, editor

Init ==
    /\ text = [p \in Pages |-> Blank]
    /\ editor = [p \in Pages |-> NoUser]

Take(p, u) ==
    /\ editor[p] = NoUser
    /\ editor' = [editor EXCEPT ![p] = u]
    /\ UNCHANGED text

Store(p, u) ==
    /\ editor[p] = u
    /\ \E t \in Texts : text' = [text EXCEPT ![p] = t]
    /\ editor' = [editor EXCEPT ![p] = NoUser]

Leave(p, u) ==
    /\ editor[p] = u
    /\ editor' = [editor EXCEPT ![p] = NoUser]
    /\ UNCHANGED text

Next == \E p \in Pages, u \in Users : Take(p, u) \/ Store(p, u) \/ Leave(p, u)

Spec == Init /\ [][Next]_<<text, editor>>
=============================================================================
