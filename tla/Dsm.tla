-------------------------------- MODULE Dsm --------------------------------
(***************************************************************************)
(* The distributed shared memory: the page server and its clients on the   *)
(* connections between them, and the properties of the whole.              *)
(***************************************************************************)
EXTENDS PageServer, PageClient

\* The bound of the model: no program is started while a queue is longer.
CONSTANT MaxQueue

ASSUME MaxQueueAssumption == MaxQueue \in Nat

vars == <<wireVars, serverVars, clientVars>>

Init == WireInit /\ ServerInit /\ ClientInit

Server(s) == ServerStep(s) /\ UNCHANGED clientVars
Restart   == CrashRestart /\ UNCHANGED clientVars

\* A user runs the program.
Run(s) ==
    /\ \A p \in Pages : Len(queue[p]) <= MaxQueue
    /\ StartRead(s) \/ StartWrite(s)
    /\ UNCHANGED serverVars

Client(s)    == ClientGoesOn(s) /\ UNCHANGED serverVars
Interrupt(s) == Disconnect(s) /\ UNCHANGED serverVars

Next ==
    \/ \E s \in Sessions : Run(s) \/ Server(s) \/ Client(s) \/ Interrupt(s)
    \/ Restart

Spec == Init /\ [][Next]_vars

(***************************************************************************)
(* Fairness.  Every thread of the server that can go on does (WF), and     *)
(* pthread_mutex_lock does not pass a thread over for ever although        *)
(* others keep taking the mutex (SF on the step that takes it first).  The *)
(* client program goes on when it can, and a user at the prompt types      *)
(* something.  Nobody has to start the program or to interrupt it.         *)
(***************************************************************************)
ReadLock(s) == (ReadLockBusy(s) \/ ReadLockFree(s)) /\ UNCHANGED clientVars

Fairness ==
    \A s \in Sessions :
        /\ WF_vars(Server(s))
        /\ SF_vars(ReadLock(s))
        /\ WF_vars(Client(s))

FairSpec == Spec /\ Fairness

-----------------------------------------------------------------------------
TypeOK == WireTypeOK /\ ServerTypeOK /\ ClientTypeOK

\* The thread has been given the page and has neither written it nor left.
Owns(s, p) == tpc[s] \in {"grant", "write", "copy"} /\ tpage[s] = p

(***************************************************************************)
(* At most one running thread has been given a page by read_lock_page, no  *)
(* matter which clients disappear and which descriptors are used again by  *)
(* later connections: the test by descriptor number is enough, as long as  *)
(* add_to_queue finds memory.                                              *)
(***************************************************************************)
GrantExclusion ==
    \A p \in Pages : \A s, t \in Sessions : Owns(s, p) /\ Owns(t, p) => s = t

(***************************************************************************)
(* "Agregar a la cola como primer y unico elemento" (read_lock_page): a    *)
(* page that is not locked has nobody in its queue, so that who finds it   *)
(* free does become the head.                                              *)
(***************************************************************************)
FreePageHasNoQueue == \A p \in Pages : lock[p] = 0 => queue[p] = <<>>

(***************************************************************************)
(* A locked page has somebody in its queue, so that the write_page which   *)
(* can unlock it has an owner: fails only when add_to_queue does.          *)
(***************************************************************************)
LockedPageHasQueue == \A p \in Pages : lock[p] = 1 => queue[p] # <<>>

(***************************************************************************)
(* No update is lost: a user who has the page's text on the screen and     *)
(* whose thread would pass the check of write_page is about to replace     *)
(* exactly the text that was shown, whatever faults have happened.         *)
(***************************************************************************)
NoLostUpdate ==
    \A s \in Sessions :
        /\ cpc[s] \in {"edit", "confirm"}
        /\ tpc[s] \in {"grant", "write"}
        /\ Authorised(s)
        => seen[s] = mem[cpage[s]]

(***************************************************************************)
(* A text shown for editing is never the half-written page that read_page  *)
(* may send: the grants are sent with page_mutex held.  (A server that     *)
(* died inside write_page leaves one behind.)                              *)
(***************************************************************************)
EditedTextIsWhole == \A s \in Sessions : cpc[s] = "edit" => seen[s].id # "torn"

(***************************************************************************)
(* Every text that a client can get into a page can be sent back with the  *)
(* grant of the page: send_command has the same limit on both ways, and    *)
(* the header of a write is the longer one.  A page that broke this could  *)
(* never be given to a writer again.                                       *)
(***************************************************************************)
EveryPageCanBeSent == \A p \in Pages : Fits(ReplyMsgLen(mem[p]))

\* The place in the queue that a waiting thread has added itself.
Place(s) ==
    LET q == queue[tpage[s]]
    IN CHOOSE i \in DOMAIN q : q[i] = fd[s] /\ \A j \in i + 1 .. Len(q) : q[j] # fd[s]

(***************************************************************************)
(* "Esperar hasta que este cliente esté en el tope de la cola"             *)
(* (read_lock_page): of two threads that wait for the same page, the one   *)
(* that was queued later is not given the page first.                      *)
(***************************************************************************)
TurnsInOrder ==
    [][\A s, t \in Sessions :
        /\ s # t /\ tpc[s] = "wait" /\ tpc[t] = "wait" /\ tpage[s] = tpage[t]
        /\ Place(s) < Place(t)
        => tpc'[t] # "grant"]_vars

(***************************************************************************)
(* The client that asks for a page to write it is given the page: it gets  *)
(* to edit the text, unless its own user interrupts it.                    *)
(***************************************************************************)
TurnComes ==
    \A s \in Sessions :
        cpc[s] \in {"lockReply", "turn"} ~>
            \/ cpc[s] = "edit"
            \/ "disconnect" \in Faults /\ cpc[s] = "idle"

(***************************************************************************)
(* Every run of the client program ends and the server forgets it: the     *)
(* connection is closed on both sides and its descriptor can be used again.*)
(***************************************************************************)
EveryRunEnds == \A s \in Sessions : sock[s] # {} ~> sock[s] = {}

-----------------------------------------------------------------------------
\* A write counts from the moment write_page has passed its check: from then
\* on page_mutex keeps every other thread out.
PageText ==
    [p \in Pages |-> IF MutexFree(p) THEN mem[p] ELSE Stored(tnew[writer[p]])]

Edits(s, p) == tpc[s] \in {"grant", "write"} /\ tpage[s] = p

PageEditor ==
    [p \in Pages |->
        IF \E s \in Sessions : Edits(s, p) THEN CHOOSE s \in Sessions : Edits(s, p)
                                           ELSE NoSession]

Abstract == INSTANCE EditedPages
                WITH Users <- Sessions, NoUser <- NoSession,
                     Texts <- {Stored(b) : b \in Typed},
                     text <- PageText, editor <- PageEditor

(***************************************************************************)
(* The server and its clients implement EditedPages: between two locked    *)
(* reads of a page there is at most one, complete, write by the client     *)
(* that was given the page.                                                *)
(***************************************************************************)
ImplementsEditedPages == Abstract!Spec
=============================================================================
