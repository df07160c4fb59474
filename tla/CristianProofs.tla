--------------------------- MODULE CristianProofs ---------------------------
(***************************************************************************)
(* Cristian's algorithm, for any number of clients and slots, any length   *)
(* of a second and any clocks: the daemon's bookkeeping, and the error of  *)
(* a correction.                                                           *)
(***************************************************************************)
EXTENDS Cristian, FiniteSetTheorems, WellFoundedInduction, TLAPS

\* Where a thread uses its descriptor, and where it uses its slot.
Talking == {"loop", "recv", "send", "close"}
Live == Talking \cup {"clear"}

Slots == [socket : Fds \cup {0}, active : BOOLEAN]
PCs == {"none", "loop", "recv", "send", "close", "clear", "done"}

DaemonTypes ==
    /\ slot \in [Indices -> Slots]
    /\ fds \in [Fds -> Clients \cup {NoClient}]
    /\ running \in BOOLEAN
    /\ mpc \in {"accept", "close", "join", "ended"}
    /\ turn \in 1..(MaxClients + 1)
    /\ tpc \in [Clients -> PCs]
    /\ tslot \in [Clients -> Indices]

\* signal_handler makes accept fail.
AcceptsWhileRunning == running <=> mpc = "accept"

\* main joins the thread of a slot.
JoinsASlot == mpc = "join" => turn <= MaxClients

\* A program that has not been started has no connection.
OffIsUnknown == \A c \in Clients : cpc[c] = "off" => tpc[c] = "none"

\* A thread has a slot, which is active, to itself ...
OwnSlot ==
    \A c \in Clients : tpc[c] \in Live =>
        /\ slot[tslot[c]].active
        /\ \A d \in Clients \ {c} : tpc[d] \in Live => tslot[d] # tslot[c]

\* ... and an active slot has a thread, ...
SlotServed ==
    mpc = "accept" => \A i \in Indices : slot[i].active =>
        \E c \in Clients : tslot[c] = i /\ tpc[c] \in Live

\* ... which has the descriptor of its connection, ...
OwnFd ==
    \A c \in Clients : tpc[c] \in Talking =>
        /\ Socket(c) \in Fds
        /\ fds[Socket(c)] = c \/ (mpc # "accept" /\ fds[Socket(c)] = NoClient)

\* ... and an open descriptor has a thread.
FdServed ==
    mpc = "accept" => \A f \in Fds : fds[f] # NoClient =>
        tpc[fds[f]] \in Talking /\ Socket(fds[f]) = f

(***************************************************************************)
(* The daemon's part of the inductive invariant.                           *)
(***************************************************************************)
DaemonInv ==
    /\ DaemonTypes /\ AcceptsWhileRunning /\ JoinsASlot /\ OffIsUnknown
    /\ OwnSlot /\ SlotServed /\ OwnFd /\ FdServed

Messages == [kind : {"none", "request", "answer", "reply"}, time : Nat]
Exchanges == [t1 : Int, adjusted : Int, since : Nat, at : Nat, clean : BOOLEAN]

ClientTypes ==
    /\ cpc \in [Clients -> {"off", "ask", "wait", "correct", "stopped", "ended"}]
    /\ crunning \in [Clients -> BOOLEAN]
    /\ copen \in [Clients -> BOOLEAN]
    /\ msg \in [Clients -> Messages]
    /\ now \in 0..MaxNow
    /\ off \in Int
    /\ exch \in Exchanges

\* One message at a time: what a thread is about to send answers the request
\* of this exchange, and between exchanges nothing is under way.
OneMessage ==
    \A c \in Clients :
        /\ tpc[c] = "send" => msg[c].kind = "answer"
        /\ cpc[c] \in {"off", "ask", "correct"} => msg[c].kind = "none"

\* The daemon has read the seconds, s, between the times a and b.
ReadBetween(s, a, b) == a <= b /\ Second * s <= b /\ a < Second * s + Second

\* An answer under way was read since T1, and the clock has not been set.
AnswerInTime ==
    cpc[Observed] = "wait" /\ exch.clean =>
        /\ off = exch.t1 - exch.since /\ exch.since <= now
        /\ msg[Observed].kind \in {"answer", "reply"} => ReadBetween(msg[Observed].time, exch.since, now)

\* The adjusted time adds half the round trip to it.
AdjustedInTime ==
    cpc[Observed] = "correct" /\ exch.clean =>
        /\ exch.at <= now
        /\ \E s \in Nat :
            /\ ReadBetween(s, exch.since, exch.at)
            /\ exch.adjusted = s + estimated_latency_sec(exch.at - exch.since)

(***************************************************************************)
(* The inductive invariant.  That an answer belongs to its exchange needs  *)
(* that threads stay on their connections.                                 *)
(***************************************************************************)
Inv == DaemonInv /\ ClientTypes /\ OneMessage /\ AnswerInTime /\ AdjustedInTime

-----------------------------------------------------------------------------
\* Constants that the proofs need as numbers.
LEMMA Limits ==
    /\ Cardinality(Clients) \in Nat /\ IsFiniteSet(Clients) /\ NoClient \notin Clients
    /\ Observed \in Clients /\ MaxClients \in Nat \ {0} /\ Second \in Nat \ {0}
    /\ MaxNow \in Nat /\ Second <= MaxNow
BY CristianAssumption, FS_CardinalityType

LEMMA SomeNumbers == 0 \notin Fds /\ Fds \subseteq Nat /\ 1 \in Indices /\ Indices \subseteq Nat
BY Limits DEF Fds, Indices

\* The lowest number is there, and is the lowest.
LEMMA LowestOne ==
    ASSUME NEW S, S \subseteq Nat, S # {}
    PROVE  Lowest(S) \in S
<1> DEFINE R == OpToRel(<, Nat)
<1>1. IsWellFoundedOn(R, Nat)  BY NatLessThanWellFounded
<1> HIDE DEF R
<1>2. PICK i \in S : \A j \in S : ~(<<j, i>> \in R)  BY <1>1, WFMin
<1>3. \A j \in S : j < i => <<j, i>> \in R  BY DEF R, OpToRel
<1>4. \A j \in S : ~(j < i)  BY <1>2, <1>3
<1>5. \A j \in S : i \in Nat /\ j \in Nat  OBVIOUS
<1>6. \A j \in S : i <= j  BY <1>4, <1>5
<1> QED  BY <1>6 DEF Lowest

\* There is a descriptor for every connection: a connection that waits to be
\* accepted has none yet.
LEMMA FreeFd ==
    ASSUME DaemonInv, mpc = "accept", NEW c \in Clients, tpc[c] = "none"
    PROVE  {f \in Fds : fds[f] = NoClient} # {}
<1> SUFFICES ASSUME \A f \in Fds : fds[f] # NoClient PROVE FALSE  OBVIOUS
<1>1. \A f \in Fds : fds[f] \in Clients \ {c}
  BY DEF DaemonInv, DaemonTypes, FdServed, Talking
<1>2. \A f, g \in Fds : fds[f] = fds[g] => f = g  BY DEF DaemonInv, FdServed
<1>3. fds \in [Fds -> Clients \ {c}]  BY <1>1 DEF DaemonInv, DaemonTypes
<1>4. fds \in Injection(Fds, Clients \ {c})  BY <1>2, <1>3 DEF Injection, IsInjective
<1>5. IsFiniteSet(Clients \ {c}) /\ Cardinality(Clients \ {c}) = Cardinality(Clients) - 1
  BY Limits, FS_RemoveElement
<1>6. Cardinality(Fds) <= Cardinality(Clients) - 1  BY <1>4, <1>5, FS_Injection
<1>7. Cardinality(Fds) = Cardinality(Clients)
  BY Limits, FS_Interval DEF Fds
<1> QED  BY <1>6, <1>7, Limits

\* Nobody is connected.
LEMMA InitDaemon == Init => DaemonInv
<1> SUFFICES ASSUME Init PROVE DaemonInv  OBVIOUS
<1>1. \A c \in Clients : tpc[c] = "none"  BY DEF Init
<1>2. \A i \in Indices : ~slot[i].active  BY DEF Init
<1>3. \A f \in Fds : fds[f] = NoClient  BY DEF Init
<1>4. DaemonTypes
  <2>1. [socket |-> 0, active |-> FALSE] \in Slots  BY DEF Slots
  <2>2. 1 \in 1..(MaxClients + 1)  BY Limits
  <2> QED  BY <2>1, <2>2, SomeNumbers DEF Init, DaemonTypes, PCs
<1>5. AcceptsWhileRunning /\ JoinsASlot /\ OffIsUnknown
  BY <1>1 DEF Init, AcceptsWhileRunning, JoinsASlot, OffIsUnknown
<1>6. OwnSlot /\ SlotServed /\ OwnFd /\ FdServed
  BY <1>1, <1>2, <1>3 DEF OwnSlot, SlotServed, OwnFd, FdServed, Live, Talking
<1> QED  BY <1>4, <1>5, <1>6 DEF DaemonInv

\* What a thread says and hears while it talks does not matter to the rest.
LEMMA ThreadTalks ==
    ASSUME DaemonInv, NEW c \in Clients, NEW pc \in Talking, tpc[c] \in Talking,
           tpc' = [tpc EXCEPT ![c] = pc],
           UNCHANGED <<slot, fds, running, mpc, turn, tslot, cpc>>
    PROVE  DaemonInv'
<1>1. tpc'[c] = pc /\ \A d \in Clients \ {c} : tpc'[d] = tpc[d]
  BY DEF DaemonInv, DaemonTypes
<1>2. \A d \in Clients : /\ tpc'[d] \in Talking <=> tpc[d] \in Talking
                         /\ tpc'[d] \in Live <=> tpc[d] \in Live
                         /\ tpc'[d] = "none" <=> tpc[d] = "none"
  BY <1>1 DEF Talking, Live
<1>3. \A d \in Clients : Socket(d)' = Socket(d)  BY DEF Socket
<1>4. DaemonTypes'  BY DEF DaemonInv, DaemonTypes, PCs, Talking
<1>5. AcceptsWhileRunning' /\ JoinsASlot' /\ OffIsUnknown'
  BY <1>2 DEF DaemonInv, AcceptsWhileRunning, JoinsASlot, OffIsUnknown
<1>6. OwnSlot' /\ SlotServed'  BY <1>2 DEF DaemonInv, OwnSlot, SlotServed
<1>7. OwnFd'  BY <1>2, <1>3 DEF DaemonInv, OwnFd
<1>8. FdServed'
  BY <1>2, <1>3 DEF DaemonInv, DaemonTypes, FdServed, Socket
<1> QED  BY <1>4, <1>5, <1>6, <1>7, <1>8 DEF DaemonInv

\* Once the daemon has been told to stop, threads may only end, and
\* descriptors only be closed.
LEMMA ThreadsEnd ==
    ASSUME DaemonInv, mpc' # "accept", ~running', DaemonTypes', JoinsASlot', UNCHANGED <<slot, tslot>>,
           \A c \in Clients : tpc'[c] = tpc[c] \/ tpc'[c] = "done",
           \A c \in Clients : cpc'[c] = "off" => cpc[c] = "off" /\ tpc'[c] = tpc[c],
           \A f \in Fds : fds'[f] = fds[f] \/ fds'[f] = NoClient
    PROVE  DaemonInv'
<1>1. \A c \in Clients : /\ tpc'[c] \in Talking => tpc[c] \in Talking
                         /\ tpc'[c] \in Live => tpc[c] \in Live
  BY DEF Talking, Live
<1>2. \A c \in Clients : Socket(c)' = Socket(c)  BY DEF Socket
<1>3. AcceptsWhileRunning' /\ OffIsUnknown'
  BY DEF DaemonInv, AcceptsWhileRunning, OffIsUnknown
<1>4. OwnSlot'  BY <1>1 DEF DaemonInv, OwnSlot
<1>5. SlotServed' /\ FdServed'  BY DEF SlotServed, FdServed
<1>6. OwnFd'  BY <1>1, <1>2 DEF DaemonInv, OwnFd
<1> QED  BY <1>3, <1>4, <1>5, <1>6 DEF DaemonInv

\* signal_handler, and the end of main.
LEMMA MainEnds ==
    ASSUME DaemonInv, Stop \/ CloseSlot \/ Join \/ Exit \/ \E c \in Clients : Cancel(c)
    PROVE  DaemonInv'
<1>1. DaemonTypes  BY DEF DaemonInv
<1>2. CASE Stop
  <2>1. /\ ~running' /\ mpc' = "close" /\ turn' = 1 /\ UNCHANGED <<slot, fds, tslot, cpc>>
        /\ tpc' = [c \in Clients |-> IF Queued(c) THEN "done" ELSE tpc[c]]
    BY <1>2 DEF Stop, clientVars
  <2>2. tpc' \in [Clients -> PCs] /\ 1 \in 1..(MaxClients + 1)
    BY <1>1, <2>1, Limits DEF DaemonTypes, PCs
  <2>3. running' = FALSE  BY <1>2 DEF Stop
  <2>4. DaemonTypes'  BY <1>1, <2>1, <2>2, <2>3 DEF DaemonTypes
  <2>5. \A c \in Clients : /\ tpc'[c] = tpc[c] \/ tpc'[c] = "done"
                           /\ cpc[c] = "off" => tpc'[c] = tpc[c]
    BY <2>1 DEF Queued
  <2>6. JoinsASlot'  BY <2>1 DEF JoinsASlot
  <2> QED  BY <2>1, <2>4, <2>5, <2>6, ThreadsEnd
<1>3. ASSUME mpc # "accept" PROVE ~running
  BY <1>3 DEF DaemonInv, AcceptsWhileRunning
<1>4. CASE CloseSlot
  <2>1. mpc # "accept" /\ mpc' # "accept" /\ UNCHANGED <<slot, running, tpc, tslot, cpc>>
    BY <1>4 DEF CloseSlot, clientVars
  <2>2. fds' = fds \/ fds' = [fds EXCEPT ![slot[turn].socket] = NoClient]
    BY <1>4 DEF CloseSlot
  <2>3. \A f \in Fds : fds'[f] = fds[f] \/ fds'[f] = NoClient  BY <1>1, <2>2 DEF DaemonTypes
  <2>4. fds' \in [Fds -> Clients \cup {NoClient}]  BY <1>1, <2>2 DEF DaemonTypes
  <2>5. mpc' \in {"close", "join"} /\ turn' \in 1..(MaxClients + 1)
    BY <1>1, <1>4, Limits DEF CloseSlot, DaemonTypes
  <2>6. DaemonTypes'  BY <1>1, <2>1, <2>4, <2>5 DEF DaemonTypes
  <2>7. JoinsASlot'  BY <1>4 DEF CloseSlot, JoinsASlot
  <2> QED  BY <1>3, <2>1, <2>3, <2>6, <2>7, ThreadsEnd
<1>5. CASE Join
  <2>1. mpc # "accept" /\ mpc' = "close" /\ UNCHANGED <<slot, fds, running, tpc, tslot, cpc>>
    BY <1>5 DEF Join, clientVars
  <2>2. turn' \in 1..(MaxClients + 1)
    <3>1. turn' = turn + 1 /\ mpc = "join"  BY <1>5 DEF Join
    <3>2. turn <= MaxClients  BY <3>1 DEF DaemonInv, JoinsASlot
    <3> QED  BY <1>1, <3>1, <3>2, Limits DEF DaemonTypes
  <2>3. DaemonTypes'  BY <1>1, <2>1, <2>2 DEF DaemonTypes
  <2>4. JoinsASlot'  BY <2>1 DEF JoinsASlot
  <2> QED  BY <1>3, <2>1, <2>3, <2>4, ThreadsEnd
<1>6. CASE Exit
  <2>1. /\ mpc # "accept" /\ mpc' = "ended" /\ UNCHANGED <<slot, running, turn, tslot, cpc>>
        /\ fds' = [f \in Fds |-> NoClient]
        /\ tpc' = [c \in Clients |-> IF tpc[c] = "none" THEN "none" ELSE "done"]
    BY <1>6 DEF Exit, clientVars
  <2>2. DaemonTypes'  BY <1>1, <2>1 DEF DaemonTypes, PCs
  <2>3. \A c \in Clients : /\ tpc'[c] = tpc[c] \/ tpc'[c] = "done"
                           /\ cpc[c] = "off" => tpc'[c] = tpc[c]
    BY <2>1 DEF DaemonInv, OffIsUnknown
  <2>4. JoinsASlot'  BY <2>1 DEF DaemonInv, JoinsASlot
  <2> QED  BY <1>3, <2>1, <2>2, <2>3, <2>4, ThreadsEnd
<1>7. ASSUME NEW c \in Clients, Cancel(c) PROVE DaemonInv'
  <2>1. /\ mpc = "join" /\ UNCHANGED <<slot, fds, running, mpc, turn, tslot, cpc>>
        /\ tpc' = [tpc EXCEPT ![c] = "done"] /\ tpc[c] # "none"
    BY <1>7 DEF Cancel, clientVars
  <2>2. DaemonTypes'  BY <1>1, <2>1 DEF DaemonTypes, PCs
  <2>3. \A d \in Clients : /\ tpc'[d] = tpc[d] \/ tpc'[d] = "done"
                           /\ cpc[d] = "off" => tpc'[d] = tpc[d]
    BY <1>1, <2>1 DEF DaemonInv, DaemonTypes, OffIsUnknown
  <2>4. JoinsASlot'  BY <2>1 DEF DaemonInv, JoinsASlot
  <2> QED  BY <1>3, <2>1, <2>2, <2>3, <2>4, ThreadsEnd
<1> QED  BY <1>2, <1>4, <1>5, <1>6, <1>7

\* accept, with a thread or without.
LEMMA AcceptDaemon == ASSUME DaemonInv, NEW c \in Clients, Accept(c) PROVE DaemonInv'
<1> DEFINE free == {i \in Indices : ~slot[i].active}
           fd == Lowest({f \in Fds : fds[f] = NoClient})
           i == Lowest(free)
<1>1. /\ mpc = "accept" /\ tpc[c] = "none" /\ cpc[c] # "off"
      /\ UNCHANGED <<running, mpc, turn, cpc>>
  BY DEF Accept, Queued, clientVars
<1>2. DaemonTypes  BY DEF DaemonInv
<1>3. fd \in Fds /\ fds[fd] = NoClient
  <2>1. {f \in Fds : fds[f] = NoClient} # {}  BY <1>1, FreeFd
  <2> QED  BY <2>1, LowestOne, SomeNumbers
<1>4. free # {} => i \in Indices /\ ~slot[i].active  BY LowestOne, SomeNumbers
<1> HIDE DEF fd, i
<1>5. AcceptsWhileRunning' /\ JoinsASlot'
  BY <1>1 DEF DaemonInv, AcceptsWhileRunning, JoinsASlot
<1>6. \A d \in Clients : tpc[d] \in Live => d # c  BY <1>1 DEF Live, Talking
<1>7. CASE /\ free # {}
           /\ slot' = [slot EXCEPT ![i] = [socket |-> fd, active |-> TRUE]]
           /\ fds' = [fds EXCEPT ![fd] = c]
           /\ tpc' = [tpc EXCEPT ![c] = "loop"]
           /\ tslot' = [tslot EXCEPT ![c] = i]
  <2>1. i \in Indices /\ ~slot[i].active  BY <1>4, <1>7
  <2>2. [socket |-> fd, active |-> TRUE] \in Slots  BY <1>3 DEF Slots
  <2>3. DaemonTypes'  BY <1>1, <1>2, <1>3, <1>7, <2>1, <2>2 DEF DaemonTypes, PCs
  <2>4. /\ tpc'[c] = "loop" /\ tslot'[c] = i /\ slot'[i].active /\ slot'[i].socket = fd /\ fds'[fd] = c
        /\ \A d \in Clients \ {c} : tpc'[d] = tpc[d] /\ tslot'[d] = tslot[d]
        /\ \A k \in Indices \ {i} : slot'[k] = slot[k]
        /\ \A f \in Fds \ {fd} : fds'[f] = fds[f]
    BY <1>2, <1>3, <1>7, <2>1 DEF DaemonTypes
  <2>5. \A d \in Clients : tpc[d] \in Live => tslot[d] \in Indices \ {i}
    BY <1>2, <2>1 DEF DaemonInv, OwnSlot, DaemonTypes
  <2>6. "loop" \in Talking /\ "loop" \in Live /\ Talking \subseteq Live  BY DEF Talking, Live
  <2>7. OffIsUnknown'  BY <1>1, <2>4 DEF DaemonInv, OffIsUnknown
  <2>8. OwnSlot'  BY <2>4, <2>5, <2>6 DEF DaemonInv, OwnSlot
  <2>9. SlotServed'
    <3> SUFFICES ASSUME NEW k \in Indices, slot'[k].active
                 PROVE  \E d \in Clients : tslot'[d] = k /\ tpc'[d] \in Live
      BY DEF SlotServed
    <3>1. CASE k = i  BY <2>4, <2>6, <3>1
    <3>2. CASE k # i
      <4>1. PICK d \in Clients : tslot[d] = k /\ tpc[d] \in Live
        BY <1>1, <2>4, <3>2 DEF DaemonInv, SlotServed
      <4> QED  BY <1>6, <2>4, <4>1
    <3> QED  BY <3>1, <3>2
  <2>10. Socket(c)' = fd /\ \A d \in Clients : tpc[d] \in Live => Socket(d)' = Socket(d)
    BY <1>6, <2>4, <2>5 DEF Socket
  <2>11. OwnFd'
    <3> SUFFICES ASSUME NEW d \in Clients, tpc'[d] \in Talking
                 PROVE  Socket(d)' \in Fds /\ fds'[Socket(d)'] = d
      BY DEF OwnFd
    <3>1. CASE d = c  BY <1>3, <2>4, <2>10, <3>1
    <3>2. CASE d # c
      <4>1. tpc[d] \in Talking /\ tpc[d] \in Live  BY <2>4, <2>6, <3>2
      <4>2. Socket(d) \in Fds /\ fds[Socket(d)] = d  BY <1>1, <4>1 DEF DaemonInv, OwnFd
      <4>3. Socket(d) # fd  BY <1>3, <4>2, Limits
      <4> QED  BY <2>4, <2>10, <4>1, <4>2, <4>3
    <3> QED  BY <3>1, <3>2
  <2>12. FdServed'
    <3> SUFFICES ASSUME NEW f \in Fds, NEW d, d = fds'[f], d # NoClient
                 PROVE  tpc'[d] \in Talking /\ slot'[tslot'[d]].socket = f
      BY DEF FdServed, Socket
    <3>1. CASE f = fd  BY <2>4, <2>6, <3>1
    <3>2. CASE f # fd
      <4>1. d = fds[f] /\ d \in Clients  BY <1>2, <2>4, <3>2 DEF DaemonTypes
      <4>2. tpc[d] \in Talking /\ Socket(d) = f  BY <1>1, <4>1 DEF DaemonInv, FdServed
      <4>3. tpc[d] \in Live /\ d # c /\ tslot[d] \in Indices \ {i}  BY <1>6, <2>5, <2>6, <4>1, <4>2
      <4> QED  BY <2>4, <4>1, <4>2, <4>3 DEF Socket
    <3> QED  BY <3>1, <3>2
  <2> QED  BY <1>5, <2>3, <2>7, <2>8, <2>9, <2>11, <2>12 DEF DaemonInv
<1>8. CASE /\ slot' = IF free = {} THEN slot ELSE [slot EXCEPT ![i].socket = fd]
           /\ tpc' = [tpc EXCEPT ![c] = "done"]
           /\ UNCHANGED <<fds, tslot>>
  <2>1. /\ slot' \in [Indices -> Slots]
        /\ \A k \in Indices : slot'[k].active = slot[k].active
        /\ \A k \in Indices : slot[k].active => slot'[k] = slot[k]
    BY <1>2, <1>3, <1>4, <1>8 DEF DaemonTypes, Slots
  <2>2. tpc' \in [Clients -> PCs] /\ tpc'[c] = "done" /\ \A d \in Clients \ {c} : tpc'[d] = tpc[d]
    BY <1>2, <1>8 DEF DaemonTypes, PCs
  <2>3. DaemonTypes'  BY <1>1, <1>2, <1>8, <2>1, <2>2 DEF DaemonTypes
  <2>4. \A d \in Clients : /\ tpc'[d] \in Live <=> tpc[d] \in Live
                           /\ tpc'[d] \in Talking <=> tpc[d] \in Talking
    BY <1>1, <2>2 DEF Live, Talking
  <2>5. \A d \in Clients : tpc[d] \in Live => tslot[d] \in Indices /\ slot'[tslot[d]] = slot[tslot[d]]
    BY <1>2, <2>1 DEF DaemonInv, OwnSlot, DaemonTypes
  <2>6. \A d \in Clients : tpc[d] \in Talking => Socket(d)' = Socket(d) /\ tpc[d] \in Live
    BY <1>8, <2>5 DEF Socket, Live
  <2>7. OffIsUnknown'  BY <1>1, <2>2 DEF DaemonInv, OffIsUnknown
  <2>8. OwnSlot' /\ SlotServed'
    BY <1>1, <1>2, <1>8, <2>1, <2>4, <2>5 DEF DaemonInv, OwnSlot, SlotServed, DaemonTypes
  <2>9. OwnFd'  BY <1>1, <1>8, <2>4, <2>6 DEF DaemonInv, OwnFd
  <2>10. FdServed'
    <3> SUFFICES ASSUME NEW f \in Fds, NEW d, d = fds[f], d # NoClient
                 PROVE  tpc'[d] \in Talking /\ slot'[tslot[d]].socket = f
      BY <1>8 DEF FdServed, Socket
    <3>1. d \in Clients /\ tpc[d] \in Talking /\ Socket(d) = f
      BY <1>1, <1>2 DEF DaemonInv, FdServed, DaemonTypes
    <3>2. tpc[d] \in Live  BY <3>1, <2>6
    <3> QED  BY <2>4, <2>5, <3>1, <3>2 DEF Socket
  <2> QED  BY <1>5, <2>3, <2>7, <2>8, <2>9, <2>10 DEF DaemonInv
<1> QED  BY <1>7, <1>8 DEF Accept, fd, i

\* A thread closes its descriptor, and only then gives its slot back.
LEMMA CleanUpDaemon == ASSUME DaemonInv, NEW c \in Clients, CleanUp(c) PROVE DaemonInv'
<1>1. DaemonTypes  BY DEF DaemonInv
<1>2. UNCHANGED <<running, mpc, turn, tslot, cpc>>  BY DEF CleanUp, clientVars
<1>3. AcceptsWhileRunning' /\ JoinsASlot'
  BY <1>2 DEF DaemonInv, AcceptsWhileRunning, JoinsASlot
<1>4. CASE /\ tpc[c] = "close" /\ slot' = slot
           /\ fds' = [fds EXCEPT ![Socket(c)] = NoClient]
           /\ tpc' = [tpc EXCEPT ![c] = "clear"]
  <2>1. DaemonTypes'  BY <1>1, <1>2, <1>4 DEF DaemonTypes, PCs
  <2>2. tpc'[c] = "clear" /\ \A d \in Clients \ {c} : tpc'[d] = tpc[d]
    BY <1>1, <1>4 DEF DaemonTypes
  <2>3. \A d \in Clients : Socket(d)' = Socket(d)  BY <1>2, <1>4 DEF Socket
  <2>4. \A d \in Clients : tpc'[d] \in Live <=> tpc[d] \in Live
    BY <1>4, <2>2 DEF Live, Talking
  <2>5. \A d \in Clients : tpc'[d] \in Talking => tpc[d] \in Talking /\ d # c
    BY <2>2 DEF Talking
  <2>6. tpc[c] \in Talking  BY <1>4 DEF Talking
  <2>7. /\ Socket(c) \in Fds /\ fds'[Socket(c)] = NoClient
        /\ \A f \in Fds \ {Socket(c)} : fds'[f] = fds[f]
        /\ fds[Socket(c)] = c \/ (mpc # "accept" /\ fds[Socket(c)] = NoClient)
    BY <1>1, <1>4, <2>6 DEF DaemonInv, OwnFd, DaemonTypes
  <2>8. OffIsUnknown'  BY <1>2, <1>4, <2>2 DEF DaemonInv, OffIsUnknown
  <2>9. OwnSlot' /\ SlotServed'  BY <1>2, <1>4, <2>4 DEF DaemonInv, OwnSlot, SlotServed
  <2>10. OwnFd'
    <3> SUFFICES ASSUME NEW d \in Clients, tpc'[d] \in Talking
                 PROVE  /\ Socket(d) \in Fds
                        /\ fds'[Socket(d)] = d \/ (mpc # "accept" /\ fds'[Socket(d)] = NoClient)
      BY <1>2, <2>3 DEF OwnFd
    <3>1. /\ Socket(d) \in Fds
          /\ fds[Socket(d)] = d \/ (mpc # "accept" /\ fds[Socket(d)] = NoClient)
      BY <2>5 DEF DaemonInv, OwnFd
    <3>2. CASE Socket(d) = Socket(c)  BY <2>5, <2>7, <3>1, <3>2, Limits
    <3>3. CASE Socket(d) # Socket(c)  BY <2>7, <3>1, <3>3
    <3> QED  BY <3>2, <3>3
  <2>11. FdServed'
    <3> SUFFICES ASSUME mpc = "accept", NEW f \in Fds, NEW d, d = fds'[f], d # NoClient
                 PROVE  tpc'[d] \in Talking /\ slot[tslot[d]].socket = f
      BY <1>2, <1>4 DEF FdServed, Socket
    <3>1. f # Socket(c) /\ d = fds[f]  BY <2>7
    <3>2. d \in Clients /\ tpc[d] \in Talking /\ Socket(d) = f
      BY <1>1, <3>1 DEF DaemonInv, FdServed, DaemonTypes
    <3> QED  BY <2>2, <3>1, <3>2 DEF Socket
  <2> QED  BY <1>3, <2>1, <2>8, <2>9, <2>10, <2>11 DEF DaemonInv
<1>5. CASE /\ tpc[c] = "clear" /\ fds' = fds
           /\ slot' = [slot EXCEPT ![tslot[c]].active = FALSE]
           /\ tpc' = [tpc EXCEPT ![c] = "done"]
  <2>1. tslot[c] \in Indices  BY <1>1 DEF DaemonTypes
  <2>2. DaemonTypes'
    <3>1. slot' \in [Indices -> Slots]  BY <1>1, <1>5 DEF DaemonTypes, Slots
    <3>2. tpc' \in [Clients -> PCs]  BY <1>1, <1>5 DEF DaemonTypes, PCs
    <3> QED  BY <1>1, <1>2, <1>5, <3>1, <3>2 DEF DaemonTypes
  <2>3. tpc'[c] = "done" /\ \A d \in Clients \ {c} : tpc'[d] = tpc[d]
    BY <1>1, <1>5 DEF DaemonTypes
  <2>4. /\ ~slot'[tslot[c]].active /\ \A k \in Indices \ {tslot[c]} : slot'[k] = slot[k]
        /\ \A k \in Indices : slot'[k].socket = slot[k].socket
    BY <1>1, <1>5, <2>1 DEF DaemonTypes, Slots
  <2>5. \A d \in Clients : Socket(d)' = Socket(d)
    BY <1>1, <1>2, <2>4 DEF Socket, DaemonTypes
  <2>6. \A d \in Clients : /\ tpc'[d] \in Live <=> tpc[d] \in Live /\ d # c
                           /\ tpc'[d] \in Talking <=> tpc[d] \in Talking
                           /\ tpc'[d] = "none" <=> tpc[d] = "none"
    BY <1>5, <2>3 DEF Live, Talking
  <2>7. "clear" \in Live  BY DEF Live
  <2>8. \A d \in Clients \ {c} : tpc[d] \in Live => tslot[d] \in Indices \ {tslot[c]}
    BY <1>1, <1>5, <2>7 DEF DaemonInv, OwnSlot, DaemonTypes
  <2>9. OffIsUnknown'  BY <1>2, <2>6 DEF DaemonInv, OffIsUnknown
  <2>10. OwnSlot'  BY <1>2, <2>4, <2>6, <2>8 DEF DaemonInv, OwnSlot
  <2>11. SlotServed'
    <3> SUFFICES ASSUME mpc = "accept", NEW k \in Indices, slot'[k].active
                 PROVE  \E d \in Clients : tslot[d] = k /\ tpc'[d] \in Live
      BY <1>2 DEF SlotServed
    <3>1. k # tslot[c] /\ slot[k].active  BY <2>4
    <3>2. PICK d \in Clients : tslot[d] = k /\ tpc[d] \in Live  BY <3>1 DEF DaemonInv, SlotServed
    <3> QED  BY <2>6, <3>1, <3>2
  <2>12. OwnFd'  BY <1>2, <1>5, <2>5, <2>6 DEF DaemonInv, OwnFd
  <2>13. FdServed'
    <3> SUFFICES ASSUME mpc = "accept", NEW f \in Fds, NEW d, d = fds[f], d # NoClient
                 PROVE  tpc'[d] \in Talking /\ slot'[tslot[d]].socket = f
      BY <1>2, <1>5 DEF FdServed, Socket
    <3>1. d \in Clients /\ tpc[d] \in Talking /\ Socket(d) = f
      BY <1>1 DEF DaemonInv, FdServed, DaemonTypes
    <3> QED  BY <1>1, <2>4, <2>6, <3>1 DEF Socket, DaemonTypes
  <2> QED  BY <1>3, <2>2, <2>9, <2>10, <2>11, <2>12, <2>13 DEF DaemonInv
<1> QED  BY <1>4, <1>5 DEF CleanUp, ThreadGoto

-----------------------------------------------------------------------------
\* Divisions truncate.
LEMMA Division ==
    ASSUME NEW a \in Nat, NEW b \in Nat \ {0}
    PROVE  a \div b \in Nat /\ b * (a \div b) <= a /\ a < b * (a \div b) + b
OBVIOUS

LEMMA TruncType == ASSUME NEW a \in Int, NEW b \in Nat \ {0} PROVE Trunc(a, b) \in Int
<1>1. CASE a >= 0  BY <1>1, Division DEF Trunc
<1>2. CASE ~(a >= 0)
  <2>1. -a \in Nat  BY <1>2
  <2>2. (-a) \div b \in Nat  BY <2>1, Division
  <2> QED  BY <1>2, <2>2 DEF Trunc
<1> QED  BY <1>1, <1>2

\* Half the round trip, to a second.
LEMMA Latency ==
    /\ \A rtt \in Int : estimated_latency_sec(rtt) \in Int
    /\ \A rtt \in Nat : LET h == estimated_latency_sec(rtt)
                        IN  h \in Nat /\ 2 * (Second * h) <= rtt /\ rtt < 2 * (Second * h) + 2 * Second
<1>1. \A rtt \in Int : estimated_latency_sec(rtt) \in Int
  BY TruncType, Limits DEF estimated_latency_sec
<1>2. ASSUME NEW rtt \in Nat
      PROVE  LET h == estimated_latency_sec(rtt)
             IN  h \in Nat /\ 2 * (Second * h) <= rtt /\ rtt < 2 * (Second * h) + 2 * Second
  <2> DEFINE q == rtt \div Second
             h == q \div 2
  <2>1. Second \in Nat \ {0}  BY Limits
  <2>2. q \in Nat /\ Second * q <= rtt /\ rtt < Second * q + Second  BY <2>1, Division
  <2>3. h \in Nat /\ 2 * h <= q /\ q < 2 * h + 2  BY <2>2, Division
  <2>4. estimated_latency_sec(rtt) = h
    <3>1. Trunc(rtt, Second) = q  BY DEF Trunc
    <3>2. Trunc(q, 2) = h  BY <2>2 DEF Trunc
    <3> QED  BY <3>1, <3>2 DEF estimated_latency_sec
  <2> HIDE DEF q, h
  <2>5. 2 * (Second * h) <= Second * q /\ Second * q <= 2 * (Second * h) + Second
    BY <2>1, <2>2, <2>3
  <2>6. 2 * (Second * h) <= rtt /\ rtt < 2 * (Second * h) + 2 * Second
    BY <2>1, <2>2, <2>3, <2>5
  <2> QED  BY <2>3, <2>4, <2>6
<1> QED  BY <1>1, <1>2

\* Nothing has been sent yet.
LEMMA InitInv == Init => Inv
<1> SUFFICES ASSUME Init PROVE Inv  OBVIOUS
<1>1. DaemonInv  BY InitDaemon
<1>2. \A c \in Clients : cpc[c] = "off" /\ msg[c] = Nothing /\ tpc[c] = "none"  BY DEF Init
<1>3. Nothing \in Messages /\ Nothing.kind = "none" /\ NoExchange \in Exchanges
  BY DEF Nothing, Messages, NoExchange, Exchanges
<1>4. off \in Int  BY CristianAssumption DEF Init
<1>5. ClientTypes  BY <1>3, <1>4, Limits DEF Init, ClientTypes
<1>6. OneMessage /\ AnswerInTime /\ AdjustedInTime
  BY <1>2, <1>3, Limits DEF OneMessage, AnswerInTime, AdjustedInTime
<1> QED  BY <1>1, <1>5, <1>6 DEF Inv

\* A step of the daemon in which nothing is received or sent.
LEMMA DaemonStep ==
    ASSUME Inv, DaemonInv', UNCHANGED <<clientVars, msg, clockVars>>,
           \A c \in Clients : tpc'[c] = "send" => tpc[c] = "send"
    PROVE  Inv'
<1>1. UNCHANGED <<cpc, crunning, copen, msg, now, off, exch>>  BY DEF clientVars, clockVars
<1>2. ClientTypes'  BY <1>1 DEF Inv, ClientTypes
<1>3. OneMessage'  BY <1>1 DEF Inv, OneMessage
<1>4. AnswerInTime' /\ AdjustedInTime'
  BY <1>1 DEF Inv, AnswerInTime, AdjustedInTime
<1> QED  BY <1>2, <1>3, <1>4 DEF Inv

\* A step that does not concern the observed client.
LEMMA ObservedKept ==
    ASSUME Inv, UNCHANGED clockVars, cpc'[Observed] = cpc[Observed], msg'[Observed] = msg[Observed]
    PROVE  AnswerInTime' /\ AdjustedInTime'
<1>1. UNCHANGED <<now, off, exch>>  BY DEF clockVars
<1> QED  BY <1>1 DEF Inv, AnswerInTime, AdjustedInTime

-----------------------------------------------------------------------------
\* A thread goes round its loop without a message, or ends.
LEMMA QuietThreadStep ==
    ASSUME Inv, NEW c \in Clients, Enter(c) \/ RecvEnd(c) \/ CleanUp(c) \/ Cancel(c)
    PROVE  Inv'
<1>1. DaemonInv /\ DaemonTypes  BY DEF Inv, DaemonInv
<1>2. CASE Enter(c) \/ RecvEnd(c)
  <2>1. PICK pc \in {"recv", "close"} : tpc' = [tpc EXCEPT ![c] = pc]
    BY <1>2 DEF Enter, RecvEnd, ThreadGoto
  <2>2. tpc[c] \in Talking /\ pc \in Talking /\ pc # "send"
    BY <1>2, <2>1 DEF Enter, RecvEnd, Talking
  <2>3. UNCHANGED <<slot, fds, running, mpc, turn, tslot, cpc>> /\ UNCHANGED <<clientVars, msg, clockVars>>
    BY <1>2 DEF Enter, RecvEnd, clientVars
  <2>4. DaemonInv'  BY <1>1, <2>1, <2>2, <2>3, ThreadTalks
  <2>5. \A d \in Clients : tpc'[d] = "send" => tpc[d] = "send"
    BY <1>1, <2>1, <2>2 DEF DaemonTypes
  <2> QED  BY <2>3, <2>4, <2>5, DaemonStep
<1>3. CASE CleanUp(c) \/ Cancel(c)
  <2>1. DaemonInv'  BY <1>1, <1>3, CleanUpDaemon, MainEnds
  <2>2. UNCHANGED <<clientVars, msg, clockVars>>  BY <1>3 DEF CleanUp, Cancel
  <2>3. tpc' = [tpc EXCEPT ![c] = "clear"] \/ tpc' = [tpc EXCEPT ![c] = "done"]
    BY <1>3 DEF CleanUp, Cancel, ThreadGoto
  <2>4. \A d \in Clients : tpc'[d] = "send" => tpc[d] = "send"
    BY <1>1, <2>3 DEF DaemonTypes
  <2> QED  BY <2>1, <2>2, <2>4, DaemonStep
<1> QED  BY <1>2, <1>3

\* The daemon reads its clock after T1.
LEMMA RecvRequestStep == ASSUME Inv, NEW c \in Clients, RecvRequest(c) PROVE Inv'
<1> DEFINE m == [kind |-> "answer", time |-> Seconds(c)]
<1>1. DaemonTypes /\ ClientTypes /\ OneMessage  BY DEF Inv, DaemonInv
<1>2. /\ tpc[c] = "recv" /\ msg[c].kind = "request"
      /\ msg' = [msg EXCEPT ![c] = m]
      /\ tpc' = [tpc EXCEPT ![c] = "send"]
      /\ UNCHANGED <<slot, fds, running, mpc, turn, tslot, cpc, crunning, copen, now, off, exch>>
  BY DEF RecvRequest, ThreadGoto, clientVars, clockVars
<1>3. DaemonInv'
  <2>1. "send" \in Talking /\ tpc[c] \in Talking  BY <1>2 DEF Talking
  <2> QED  BY <1>2, <2>1, ThreadTalks DEF Inv
<1>4. now \in Nat /\ Second \in Nat \ {0}  BY <1>1, Limits DEF ClientTypes
<1>5. Seconds(c) \in Nat  BY <1>4, Division DEF Seconds
<1>6. m \in Messages /\ m.kind = "answer" /\ m.time = Seconds(c)  BY <1>5 DEF Messages
<1> HIDE DEF m
<1>7. msg'[c] = m /\ \A d \in Clients \ {c} : msg'[d] = msg[d]  BY <1>1, <1>2 DEF ClientTypes
<1>8. tpc'[c] = "send" /\ \A d \in Clients \ {c} : tpc'[d] = tpc[d]  BY <1>1, <1>2 DEF DaemonTypes
<1>9. ClientTypes'  BY <1>1, <1>2, <1>6 DEF ClientTypes
<1>10. OneMessage'  BY <1>1, <1>2, <1>6, <1>7, <1>8 DEF OneMessage
<1>11. AnswerInTime' /\ AdjustedInTime'
  <2>1. CASE c # Observed
    <3>1. msg'[Observed] = msg[Observed]  BY <1>7, <2>1, Limits
    <3> QED  BY <1>2, <3>1, ObservedKept DEF clockVars
  <2>2. CASE c = Observed
    <3>1. AdjustedInTime'  BY <1>2 DEF Inv, AdjustedInTime
    <3>2. ASSUME cpc[Observed] = "wait", exch.clean
          PROVE  /\ off = exch.t1 - exch.since /\ exch.since <= now
                 /\ ReadBetween(now \div Second, exch.since, now)
      <4>1. off = exch.t1 - exch.since /\ exch.since <= now  BY <3>2 DEF Inv, AnswerInTime
      <4>2. exch.since \in Nat  BY <1>1 DEF ClientTypes, Exchanges
      <4>3. /\ now \div Second \in Nat /\ Second * (now \div Second) <= now
            /\ now < Second * (now \div Second) + Second
        BY <1>4, Division
      <4> QED  BY <1>4, <4>1, <4>2, <4>3 DEF ReadBetween
    <3>3. msg'[Observed].time = now \div Second  BY <1>6, <1>7, <2>2 DEF Seconds
    <3>4. AnswerInTime'
      <4> SUFFICES ASSUME cpc[Observed] = "wait", exch.clean
                   PROVE  /\ off = exch.t1 - exch.since /\ exch.since <= now
                          /\ ReadBetween(msg'[Observed].time, exch.since, now)
        BY <1>2 DEF AnswerInTime, ReadBetween
      <4> QED  BY <3>2, <3>3
    <3> QED  BY <3>1, <3>4
  <2> QED  BY <2>1, <2>2
<1> QED  BY <1>3, <1>9, <1>10, <1>11 DEF Inv

\* The answer goes to the client that asked, or nowhere.
LEMMA SendStep == ASSUME Inv, NEW c \in Clients, Send(c) PROVE Inv'
<1>1. DaemonTypes /\ ClientTypes /\ OneMessage /\ DaemonInv  BY DEF Inv, DaemonInv
<1>2. /\ tpc[c] = "send"
      /\ UNCHANGED <<slot, fds, running, mpc, turn, tslot, cpc, crunning, copen, now, off, exch>>
      /\ UNCHANGED <<clientVars, clockVars>>
  BY DEF Send, clientVars, clockVars
<1>3. tpc[c] \in Talking /\ "close" \in Talking /\ "loop" \in Talking  BY <1>2 DEF Talking
<1>4. PICK pc \in {"close", "loop"} : tpc' = [tpc EXCEPT ![c] = pc]  BY DEF Send, ThreadGoto
<1>5. DaemonInv'  BY <1>1, <1>2, <1>3, <1>4, ThreadTalks
<1>6. tpc'[c] # "send" /\ \A d \in Clients \ {c} : tpc'[d] = tpc[d]  BY <1>1, <1>4 DEF DaemonTypes
<1>7. CASE Peer(c) = NoClient
  <2>1. UNCHANGED msg  BY <1>7 DEF Send
  <2> QED  BY <1>2, <1>5, <1>6, <2>1, DaemonStep
<1>8. CASE Peer(c) # NoClient
  <2> DEFINE m == [kind |-> "reply", time |-> msg[c].time]
  <2>1. Peer(c) = c
    <3>1. Socket(c) \in Fds /\ (fds[Socket(c)] = c \/ fds[Socket(c)] = NoClient)
      BY <1>1, <1>3 DEF DaemonInv, OwnFd
    <3> QED  BY <1>8, <3>1, SomeNumbers DEF Peer
  <2>2. msg' = [msg EXCEPT ![c] = m]
    <3>1. msg' = [msg EXCEPT ![c] = Nothing, ![Peer(c)] = m]  BY <1>8 DEF Send
    <3> QED  BY <1>1, <2>1, <3>1 DEF ClientTypes
  <2>3. m \in Messages /\ m.kind = "reply" /\ m.time = msg[c].time
    BY <1>1 DEF ClientTypes, Messages
  <2> HIDE DEF m
  <2>4. msg'[c] = m /\ \A d \in Clients \ {c} : msg'[d] = msg[d]  BY <1>1, <2>2 DEF ClientTypes
  <2>5. ClientTypes'  BY <1>1, <1>2, <2>2, <2>3 DEF ClientTypes
  <2>6. msg[c].kind = "answer"  BY <1>1, <1>2 DEF OneMessage
  <2>7. OneMessage'  BY <1>1, <1>2, <1>6, <2>4, <2>6 DEF OneMessage
  <2>8. AnswerInTime' /\ AdjustedInTime'
    <3>1. CASE c # Observed
      <4>1. msg'[Observed] = msg[Observed]  BY <2>4, <3>1, Limits
      <4> QED  BY <1>2, <4>1, ObservedKept
    <3>2. CASE c = Observed
      BY <1>2, <2>3, <2>4, <2>6, <3>2 DEF Inv, AnswerInTime, AdjustedInTime, ReadBetween
    <3> QED  BY <3>1, <3>2
  <2> QED  BY <1>5, <2>5, <2>7, <2>8 DEF Inv
<1> QED  BY <1>7, <1>8

\* main of the daemon, and its signal handler.
LEMMA MainStep == ASSUME Inv, Main \/ Stop PROVE Inv'
<1>1. DaemonInv /\ DaemonTypes  BY DEF Inv, DaemonInv
<1>2. DaemonInv'  BY <1>1, MainEnds, AcceptDaemon DEF Main
<1>3. UNCHANGED <<clientVars, msg, clockVars>>
  BY DEF Main, Stop, CloseSlot, Join, Exit, Accept
<1>4. \A d \in Clients : tpc'[d] = "send" => tpc[d] = "send"
  <2>1. CASE Stop  BY <2>1 DEF Stop
  <2>2. CASE CloseSlot \/ Join  BY <2>2 DEF CloseSlot, Join
  <2>3. CASE Exit  BY <2>3 DEF Exit
  <2>4. ASSUME NEW c \in Clients, Accept(c)
        PROVE  \A d \in Clients : tpc'[d] = "send" => tpc[d] = "send"
    <3>1. tpc' = [tpc EXCEPT ![c] = "loop"] \/ tpc' = [tpc EXCEPT ![c] = "done"]
      BY <2>4 DEF Accept
    <3> QED  BY <1>1, <3>1 DEF DaemonTypes
  <2> QED  BY <2>1, <2>2, <2>3, <2>4 DEF Main
<1> QED  BY <1>2, <1>3, <1>4, DaemonStep

-----------------------------------------------------------------------------
\* A step of a client leaves the daemon alone.
LEMMA DaemonAlone ==
    ASSUME DaemonInv, UNCHANGED daemonVars, \A c \in Clients : cpc'[c] = "off" => cpc[c] = "off"
    PROVE  DaemonInv'
<1>1. UNCHANGED <<slot, fds, running, mpc, turn, tpc, tslot>>  BY DEF daemonVars
<1>2. DaemonTypes' /\ AcceptsWhileRunning' /\ JoinsASlot'
  BY <1>1 DEF DaemonInv, DaemonTypes, AcceptsWhileRunning, JoinsASlot
<1>3. OffIsUnknown'  BY <1>1 DEF DaemonInv, OffIsUnknown
<1>4. OwnSlot' /\ SlotServed'  BY <1>1 DEF DaemonInv, OwnSlot, SlotServed
<1>5. OwnFd' /\ FdServed'  BY <1>1 DEF DaemonInv, OwnFd, FdServed, Socket
<1> QED  BY <1>2, <1>3, <1>4, <1>5 DEF DaemonInv

\* A client begins.
LEMMA StartStep == ASSUME Inv, NEW c \in Clients, Start(c) PROVE Inv'
<1>1. DaemonTypes /\ ClientTypes /\ OneMessage /\ DaemonInv  BY DEF Inv, DaemonInv
<1>2. /\ cpc[c] = "off"
      /\ UNCHANGED <<slot, fds, running, mpc, turn, tslot, msg, now, off, exch>> /\ UNCHANGED clockVars
  BY DEF Start, clockVars
<1>3. tpc[c] = "none"  BY <1>1, <1>2 DEF DaemonInv, OffIsUnknown
<1>4. PICK pc \in {"ask", "ended"} : cpc' = [cpc EXCEPT ![c] = pc]  BY DEF Start, CliGoto
<1>5. cpc'[c] = pc /\ \A d \in Clients \ {c} : cpc'[d] = cpc[d]  BY <1>1, <1>4 DEF ClientTypes
<1>6. DaemonInv'
  <2>1. CASE running
    <3>1. UNCHANGED daemonVars  BY <1>2, <2>1 DEF Start, daemonVars
    <3> QED  BY <1>1, <1>5, <3>1, DaemonAlone
  <2>2. CASE ~running
    <3>1. tpc' = [tpc EXCEPT ![c] = "done"]  BY <2>2 DEF Start, ThreadGoto
    <3>2. DaemonTypes'  BY <1>1, <1>2, <3>1 DEF DaemonTypes, PCs
    <3>3. mpc # "accept"  BY <1>1, <2>2 DEF DaemonInv, AcceptsWhileRunning
    <3>4. JoinsASlot'  BY <1>1, <1>2 DEF DaemonInv, JoinsASlot
    <3>5. \A d \in Clients : /\ tpc'[d] = tpc[d] \/ tpc'[d] = "done"
                             /\ cpc'[d] = "off" => cpc[d] = "off" /\ tpc'[d] = tpc[d]
      BY <1>1, <1>5, <3>1 DEF DaemonTypes
    <3> QED  BY <1>1, <1>2, <2>2, <3>2, <3>3, <3>4, <3>5, ThreadsEnd
  <2> QED  BY <2>1, <2>2
<1>7. tpc' = tpc \/ tpc' = [tpc EXCEPT ![c] = "done"]  BY DEF Start, ThreadGoto
<1>8. \A d \in Clients : tpc'[d] = "send" => tpc[d] = "send"  BY <1>1, <1>7 DEF DaemonTypes
<1>9. ClientTypes'
  <2>1. crunning' \in [Clients -> BOOLEAN] /\ copen' \in [Clients -> BOOLEAN]
    BY <1>1 DEF Start, ClientTypes
  <2> QED  BY <1>1, <1>2, <1>4, <2>1 DEF ClientTypes
<1>10. OneMessage'  BY <1>1, <1>2, <1>5, <1>8 DEF OneMessage
<1>11. AnswerInTime' /\ AdjustedInTime'
  <2>1. cpc'[Observed] \in {"wait", "correct"} => cpc'[Observed] = cpc[Observed]
    BY <1>5, Limits
  <2> QED  BY <1>2, <2>1 DEF Inv, AnswerInTime, AdjustedInTime
<1> QED  BY <1>6, <1>9, <1>10, <1>11 DEF Inv

\* T1.
LEMMA AskStep == ASSUME Inv, NEW c \in Clients, Ask(c) PROVE Inv'
<1> DEFINE m == IF Queued(c) \/ Held(c) THEN [kind |-> "request", time |-> 0] ELSE msg[c]
<1>1. DaemonTypes /\ ClientTypes /\ OneMessage /\ DaemonInv  BY DEF Inv, DaemonInv
<1>2. /\ cpc[c] = "ask" /\ UNCHANGED <<slot, fds, running, mpc, turn, tpc, tslot, crunning, copen>>
      /\ UNCHANGED daemonVars
      /\ cpc' = [cpc EXCEPT ![c] = "wait"]
      /\ msg' = [msg EXCEPT ![c] = m]
  BY DEF Ask, CliGoto, daemonVars
<1>3. msg[c] \in Messages /\ msg[c].kind = "none"  BY <1>1, <1>2 DEF ClientTypes, OneMessage
<1>4. m \in Messages /\ m.kind \in {"none", "request"}  BY <1>3 DEF Messages
<1> HIDE DEF m
<1>5. cpc'[c] = "wait" /\ \A d \in Clients \ {c} : cpc'[d] = cpc[d]  BY <1>1, <1>2 DEF ClientTypes
<1>6. msg'[c] = m /\ \A d \in Clients \ {c} : msg'[d] = msg[d]  BY <1>1, <1>2 DEF ClientTypes
<1>7. DaemonInv'  BY <1>1, <1>2, <1>5, DaemonAlone
<1>8. tpc[c] # "send"  BY <1>1, <1>3 DEF OneMessage
<1>9. OneMessage'  BY <1>1, <1>2, <1>4, <1>5, <1>6, <1>8 DEF OneMessage
<1>10. CASE c # Observed
  <2>1. UNCHANGED clockVars /\ UNCHANGED <<now, off, exch>>  BY <1>10 DEF Ask, IfObserved, clockVars
  <2>2. ClientTypes'  BY <1>1, <1>2, <1>4, <2>1 DEF ClientTypes
  <2>3. AnswerInTime' /\ AdjustedInTime'  BY <1>5, <1>6, <1>10, <2>1, Limits, ObservedKept
  <2> QED  BY <1>7, <1>9, <2>2, <2>3 DEF Inv
<1>11. CASE c = Observed
  <2>1. /\ now' \in 0..(Second - 1) /\ off' \in Offsets
        /\ exch' = [NoExchange EXCEPT !.t1 = now' + off', !.since = now', !.clean = TRUE]
    BY <1>11 DEF Ask, IfObserved
  <2>2. now' \in 0..MaxNow /\ now' \in Nat /\ off' \in Int  BY <2>1, Limits, CristianAssumption
  <2>3. /\ exch' \in Exchanges /\ exch'.t1 = now' + off' /\ exch'.since = now'
    <3>1. exch' = [t1 |-> now' + off', adjusted |-> 0, since |-> now', at |-> 0, clean |-> TRUE]
      BY <2>1 DEF NoExchange
    <3>2. now' + off' \in Int  BY <2>2
    <3> QED  BY <2>2, <3>1, <3>2 DEF Exchanges
  <2>4. ClientTypes'  BY <1>1, <1>2, <1>4, <2>2, <2>3 DEF ClientTypes
  <2>5. AnswerInTime'
    <3>1. off' = exch'.t1 - exch'.since /\ exch'.since <= now'
      <4>1. \A a \in Nat, b \in Int : b = (a + b) - a /\ a <= a  OBVIOUS
      <4>2. off' = (now' + off') - now' /\ now' <= now'  BY <2>2, <4>1
      <4> QED  BY <2>3, <4>2
    <3> QED  BY <1>4, <1>6, <1>11, <3>1 DEF AnswerInTime
  <2>6. AdjustedInTime'  BY <1>5, <1>11 DEF AdjustedInTime
  <2> QED  BY <1>7, <1>9, <2>4, <2>5, <2>6 DEF Inv
<1> QED  BY <1>10, <1>11

\* T2.
LEMMA RecvStep == ASSUME Inv, NEW c \in Clients, Recv(c) PROVE Inv'
<1>1. DaemonTypes /\ ClientTypes /\ OneMessage /\ DaemonInv  BY DEF Inv, DaemonInv
<1>2. /\ cpc[c] = "wait" /\ msg[c].kind = "reply"
      /\ UNCHANGED <<slot, fds, running, mpc, turn, tpc, tslot, crunning, copen>>
      /\ UNCHANGED daemonVars
      /\ cpc' = [cpc EXCEPT ![c] = "correct"]
      /\ msg' = [msg EXCEPT ![c] = Nothing]
  BY DEF Recv, CliGoto, daemonVars
<1>3. Nothing \in Messages /\ Nothing.kind = "none"  BY DEF Nothing, Messages
<1>4. cpc'[c] = "correct" /\ \A d \in Clients \ {c} : cpc'[d] = cpc[d]  BY <1>1, <1>2 DEF ClientTypes
<1>5. msg'[c] = Nothing /\ \A d \in Clients \ {c} : msg'[d] = msg[d]  BY <1>1, <1>2 DEF ClientTypes
<1>6. DaemonInv'  BY <1>1, <1>2, <1>4, DaemonAlone
<1>7. tpc[c] # "send"  BY <1>1, <1>2 DEF OneMessage
<1>8. OneMessage'  BY <1>1, <1>2, <1>3, <1>4, <1>5, <1>7 DEF OneMessage
<1>9. CASE c # Observed
  <2>1. UNCHANGED clockVars /\ UNCHANGED <<now, off, exch>>  BY <1>9 DEF Recv, IfObserved, clockVars
  <2>2. ClientTypes'  BY <1>1, <1>2, <1>3, <2>1 DEF ClientTypes
  <2>3. AnswerInTime' /\ AdjustedInTime'  BY <1>4, <1>5, <1>9, <2>1, Limits, ObservedKept
  <2> QED  BY <1>6, <1>8, <2>2, <2>3 DEF Inv
<1>10. CASE c = Observed
  <2> DEFINE s == msg[c].time
             l == estimated_latency_sec(Clock - exch.t1)
  <2>1. /\ exch' = [exch EXCEPT !.t1 = 0, !.at = IF exch.clean THEN now ELSE 0, !.adjusted = s + l]
        /\ UNCHANGED <<now, off>>
    BY <1>10 DEF Recv, IfObserved, adjusted_time
  <2>2. s \in Nat /\ now \in Nat /\ off \in Int /\ exch \in Exchanges /\ exch.t1 \in Int /\ exch.since \in Nat
    BY <1>1 DEF ClientTypes, Messages, Exchanges
  <2>3. Clock - exch.t1 \in Int  BY <2>2 DEF Clock
  <2>4. l \in Int  BY <2>3, Latency
  <2> HIDE DEF s, l
  <2>5. /\ exch' \in Exchanges /\ exch'.clean = exch.clean /\ exch'.since = exch.since
        /\ exch'.adjusted = s + l /\ (exch.clean => exch'.at = now)
    <3> DEFINE e == [t1 |-> 0, adjusted |-> s + l, since |-> exch.since,
                     at |-> IF exch.clean THEN now ELSE 0, clean |-> exch.clean]
    <3>1. exch' = e  BY <2>1, <2>2 DEF Exchanges
    <3>2. s + l \in Int /\ exch.clean \in BOOLEAN  BY <2>2, <2>4 DEF Exchanges
    <3>3. e \in Exchanges  BY <2>2, <3>2 DEF Exchanges
    <3> QED  BY <3>1, <3>3
  <2>6. ClientTypes'  BY <1>1, <1>2, <1>3, <2>1, <2>5 DEF ClientTypes
  <2>7. AnswerInTime'  BY <1>4, <1>10 DEF AnswerInTime
  <2>8. ASSUME exch.clean
        PROVE  ReadBetween(s, exch.since, now) /\ Clock - exch.t1 = now - exch.since
    <3>1. off = exch.t1 - exch.since /\ ReadBetween(msg[Observed].time, exch.since, now)
      BY <1>2, <1>10, <2>8 DEF Inv, AnswerInTime
    <3>2. ReadBetween(s, exch.since, now)  BY <1>10, <3>1 DEF s
    <3> QED  BY <2>2, <3>1, <3>2 DEF Clock
  <2>9. AdjustedInTime'
    <3> SUFFICES ASSUME exch.clean
                 PROVE  /\ exch'.at <= now'
                        /\ \E t \in Nat :
                            /\ ReadBetween(t, exch'.since, exch'.at)
                            /\ exch'.adjusted = t + estimated_latency_sec(exch'.at - exch'.since)
      BY <2>5 DEF AdjustedInTime, ReadBetween, estimated_latency_sec, Trunc
    <3>1. ReadBetween(s, exch'.since, exch'.at)  BY <2>5, <2>8
    <3>2. l = estimated_latency_sec(exch'.at - exch'.since)  BY <2>5, <2>8 DEF l
    <3>3. exch'.at <= now'  BY <2>1, <2>2, <2>5
    <3> QED  BY <2>2, <2>5, <3>1, <3>2, <3>3
  <2> QED  BY <1>6, <1>8, <2>6, <2>7, <2>9 DEF Inv
<1> QED  BY <1>9, <1>10

\* Between exchanges nothing is asked of the clock.
LEMMA CorregirStep == ASSUME Inv, NEW c \in Clients, Corregir(c) PROVE Inv'
<1>1. DaemonTypes /\ ClientTypes /\ OneMessage /\ DaemonInv  BY DEF Inv, DaemonInv
<1>2. /\ cpc[c] = "correct" /\ UNCHANGED daemonVars /\ UNCHANGED <<tpc, crunning, copen, msg>>
      /\ cpc' = [cpc EXCEPT ![c] = "ask"]
  BY DEF Corregir, CliGoto, daemonVars
<1>3. cpc'[c] = "ask" /\ \A d \in Clients \ {c} : cpc'[d] = cpc[d]  BY <1>1, <1>2 DEF ClientTypes
<1>4. DaemonInv'  BY <1>1, <1>2, <1>3, DaemonAlone
<1>5. OneMessage'  BY <1>1, <1>2, <1>3 DEF OneMessage
<1>6. CASE c # Observed
  <2>1. UNCHANGED clockVars /\ UNCHANGED <<now, off, exch>>  BY <1>6 DEF Corregir, IfObserved, clockVars
  <2>2. ClientTypes'  BY <1>1, <1>2, <2>1 DEF ClientTypes
  <2>3. AnswerInTime' /\ AdjustedInTime'  BY <1>2, <1>3, <1>6, <2>1, Limits, ObservedKept
  <2> QED  BY <1>4, <1>5, <2>2, <2>3 DEF Inv
<1>7. CASE c = Observed
  <2>1. /\ off' = (exch.adjusted * Second + (Clock % Second)) - now \/ off' = off
        /\ exch' = NoExchange /\ now' = 0
    BY <1>7 DEF Corregir, IfObserved
  <2>2. /\ exch.adjusted \in Int /\ Second \in Nat \ {0} /\ Clock \in Int /\ now \in Int /\ off \in Int
    BY <1>1, Limits DEF ClientTypes, Exchanges, Clock
  <2>3. Clock % Second \in Int /\ exch.adjusted * Second \in Int  BY <2>2
  <2>4. off' \in Int  BY <2>1, <2>2, <2>3
  <2>5. exch' \in Exchanges /\ now' \in 0..MaxNow  BY <2>1, Limits DEF NoExchange, Exchanges
  <2>6. ClientTypes'  BY <1>1, <1>2, <2>4, <2>5 DEF ClientTypes
  <2>7. AnswerInTime' /\ AdjustedInTime'  BY <1>3, <1>7 DEF AnswerInTime, AdjustedInTime
  <2> QED  BY <1>4, <1>5, <2>6, <2>7 DEF Inv
<1> QED  BY <1>6, <1>7

\* A client ends, or is told to.
LEMMA EndStep == ASSUME Inv, NEW c \in Clients, LoseConnection(c) \/ Quit(c) \/ End(c) PROVE Inv'
<1>1. DaemonTypes /\ ClientTypes /\ OneMessage /\ DaemonInv  BY DEF Inv, DaemonInv
<1>2. UNCHANGED daemonVars /\ UNCHANGED <<tpc, msg>>
  BY DEF LoseConnection, Quit, End, daemonVars
<1>3. cpc' = cpc \/ cpc' = [cpc EXCEPT ![c] = "stopped"] \/ cpc' = [cpc EXCEPT ![c] = "ended"]
  BY DEF LoseConnection, Quit, End, CliGoto, clientVars
<1>4. \A d \in Clients : cpc'[d] = cpc[d] \/ cpc'[d] \in {"stopped", "ended"}
  BY <1>1, <1>3 DEF ClientTypes
<1>5. DaemonInv'  BY <1>1, <1>2, <1>4, DaemonAlone
<1>6. OneMessage'  BY <1>1, <1>2, <1>4 DEF OneMessage
<1>7. crunning' \in [Clients -> BOOLEAN] /\ copen' \in [Clients -> BOOLEAN]
  BY <1>1 DEF LoseConnection, Quit, End, ClientTypes
<1>8. UNCHANGED <<now, off, exch>> \/ (exch' = NoExchange /\ now' = 0 /\ UNCHANGED off)
  BY DEF LoseConnection, Quit, End, IfObserved, clockVars
<1>9. NoExchange \in Exchanges /\ ~NoExchange.clean /\ 0 \in 0..MaxNow  BY Limits DEF NoExchange, Exchanges
<1>10. ClientTypes'  BY <1>1, <1>2, <1>3, <1>7, <1>8, <1>9 DEF ClientTypes
<1>11. AnswerInTime' /\ AdjustedInTime'
  <2>1. CASE UNCHANGED <<now, off, exch>>
    <3>1. cpc'[Observed] \in {"wait", "correct"} => cpc'[Observed] = cpc[Observed]
      BY <1>4, Limits
    <3> QED  BY <1>2, <2>1, <3>1 DEF Inv, AnswerInTime, AdjustedInTime
  <2>2. CASE exch' = NoExchange  BY <1>9, <2>2 DEF AnswerInTime, AdjustedInTime
  <2> QED  BY <1>8, <2>1, <2>2
<1> QED  BY <1>5, <1>6, <1>10, <1>11 DEF Inv

\* Time passes, and the user may set the clock.
LEMMA ClockStep == ASSUME Inv, Tick \/ SetDate PROVE Inv'
<1>1. ClientTypes /\ OneMessage /\ DaemonInv  BY DEF Inv
<1>2. UNCHANGED daemonVars /\ UNCHANGED <<tpc, cpc, crunning, copen, msg>>
  BY DEF Tick, SetDate, daemonVars, clientVars
<1>3. DaemonInv'  BY <1>1, <1>2, DaemonAlone
<1>4. OneMessage'  BY <1>1, <1>2 DEF OneMessage
<1>5. /\ exch \in Exchanges /\ exch.since \in Nat /\ exch.at \in Nat /\ exch.t1 \in Int
      /\ now \in Nat /\ Second \in Nat /\ MaxNow \in Nat /\ msg[Observed].time \in Nat
  BY <1>1, Limits DEF ClientTypes, Exchanges, Messages
<1>6. CASE Tick
  <2>1. now' = now + 1 /\ now < MaxNow /\ UNCHANGED <<off, exch>>  BY <1>6 DEF Tick
  <2>2. now' \in 0..MaxNow  BY <1>5, <2>1
  <2>3. ClientTypes'  BY <1>1, <1>2, <2>1, <2>2 DEF ClientTypes
  <2>4. \A s, a \in Nat : /\ a <= now => a <= now + 1
                          /\ ReadBetween(s, a, now) => ReadBetween(s, a, now + 1)
    <3> TAKE s, a \in Nat
    <3>1. Second * s \in Nat  BY <1>5
    <3> QED  BY <1>5, <3>1 DEF ReadBetween
  <2>5. AnswerInTime'
    <3> SUFFICES ASSUME cpc[Observed] = "wait", exch.clean
                 PROVE  /\ off = exch.t1 - exch.since /\ exch.since <= now + 1
                        /\ msg[Observed].kind \in {"answer", "reply"} =>
                              ReadBetween(msg[Observed].time, exch.since, now + 1)
      BY <1>2, <2>1 DEF AnswerInTime, ReadBetween
    <3> QED  BY <1>5, <2>4 DEF Inv, AnswerInTime
  <2>6. AdjustedInTime'
    <3>1. ASSUME cpc[Observed] = "correct", exch.clean PROVE exch.at <= now + 1
      BY <1>5, <2>4, <3>1 DEF Inv, AdjustedInTime
    <3> QED  BY <1>2, <2>1, <3>1 DEF Inv, AdjustedInTime
  <2> QED  BY <1>3, <1>4, <2>3, <2>5, <2>6 DEF Inv
<1>7. CASE SetDate
  <2>1. off' \in Int /\ UNCHANGED now  BY <1>7, CristianAssumption DEF SetDate
  <2>2. CASE cpc[Observed] = "wait"
    <3>1. exch' = [NoExchange EXCEPT !.t1 = exch.t1]  BY <1>7, <2>2 DEF SetDate
    <3>2. exch' = [t1 |-> exch.t1, adjusted |-> 0, since |-> 0, at |-> 0, clean |-> FALSE]
      BY <3>1 DEF NoExchange
    <3>3. exch' \in Exchanges /\ ~exch'.clean  BY <1>5, <3>2 DEF Exchanges
    <3>4. ClientTypes'  BY <1>1, <1>2, <2>1, <3>3 DEF ClientTypes
    <3>5. AnswerInTime' /\ AdjustedInTime'  BY <3>3 DEF AnswerInTime, AdjustedInTime
    <3> QED  BY <1>3, <1>4, <3>4, <3>5 DEF Inv
  <2>3. CASE cpc[Observed] # "wait"
    <3>1. UNCHANGED exch  BY <1>7, <2>3 DEF SetDate
    <3>2. ClientTypes'  BY <1>1, <1>2, <2>1, <3>1 DEF ClientTypes
    <3>3. AnswerInTime'  BY <1>2, <2>3 DEF AnswerInTime
    <3>4. AdjustedInTime'  BY <1>2, <2>1, <3>1 DEF Inv, AdjustedInTime
    <3> QED  BY <1>3, <1>4, <3>2, <3>3, <3>4 DEF Inv
  <2> QED  BY <2>2, <2>3
<1> QED  BY <1>6, <1>7

LEMMA NextInv == Inv /\ [Next]_vars => Inv'
<1> SUFFICES ASSUME Inv, [Next]_vars PROVE Inv'  OBVIOUS
<1>1. CASE UNCHANGED vars
  <2>1. UNCHANGED daemonVars /\ UNCHANGED <<cpc, crunning, copen, msg, now, off, exch, tpc>>
    BY <1>1 DEF vars, daemonVars, clientVars, clockVars
  <2>2. DaemonInv'  BY <2>1, DaemonAlone DEF Inv
  <2>3. UNCHANGED <<clientVars, msg, clockVars>>  BY <1>1 DEF vars
  <2> QED  BY <2>1, <2>2, <2>3, DaemonStep
<1>2. CASE Main \/ Stop  BY <1>2, MainStep
<1>3. CASE Tick \/ SetDate  BY <1>3, ClockStep
<1>4. ASSUME NEW c \in Clients, Thread(c) PROVE Inv'
  BY <1>4, QuietThreadStep, RecvRequestStep, SendStep DEF Thread
<1>5. ASSUME NEW c \in Clients, Start(c) \/ Client(c) \/ Quit(c) PROVE Inv'
  BY <1>5, StartStep, AskStep, RecvStep, CorregirStep, EndStep DEF Client
<1> QED  BY <1>1, <1>2, <1>3, <1>4, <1>5 DEF Next

LEMMA AlwaysInv == Spec => []Inv
<1> QED  BY InitInv, NextInv, PTL DEF Spec

-----------------------------------------------------------------------------
(***************************************************************************)
(* Every variable keeps its type; in particular accept always finds a free *)
(* descriptor and handle_client always finds one in its slot.              *)
(***************************************************************************)
THEOREM TypeCorrect == Spec => []TypeOK
<1>1. Inv => TypeOK
  BY DEF Inv, DaemonInv, DaemonTypes, ClientTypes, TypeOK, Slots, PCs, Messages, Exchanges
<1> QED  BY <1>1, AlwaysInv, PTL

(***************************************************************************)
(* handle_client talks on, and closes, the connection it was created for,  *)
(* for any number of clients that come and go.                             *)
(***************************************************************************)
THEOREM ThreadsKeepTheirConnections == Spec => []OwnConnection
<1>1. Inv => OwnConnection
  <2> SUFFICES ASSUME Inv, NEW c \in Clients, tpc[c] \in Talking
               PROVE  Peer(c) = c \/ (mpc # "accept" /\ Peer(c) = NoClient)
    BY DEF OwnConnection, Talking
  <2>1. Socket(c) \in Fds /\ (fds[Socket(c)] = c \/ (mpc # "accept" /\ fds[Socket(c)] = NoClient))
    BY DEF Inv, DaemonInv, OwnFd
  <2> QED  BY <2>1, SomeNumbers DEF Peer
<1> QED  BY <1>1, AlwaysInv, PTL

(***************************************************************************)
(* An active slot has one thread, the others have none, for any number of  *)
(* slots and clients.                                                      *)
(***************************************************************************)
THEOREM SlotsAreServed == Spec => []OneThreadPerSlot
<1>1. Inv => OneThreadPerSlot
  <2> SUFFICES ASSUME Inv, mpc = "accept", NEW i \in Indices
               PROVE  Cardinality({c \in Clients : tslot[c] = i /\ tpc[c] \notin {"none", "done"}})
                        = IF slot[i].active THEN 1 ELSE 0
    BY DEF OneThreadPerSlot
  <2> DEFINE threads == {c \in Clients : tslot[c] = i /\ tpc[c] \notin {"none", "done"}}
  <2>1. \A c \in Clients : tpc[c] \notin {"none", "done"} <=> tpc[c] \in Live
    BY DEF Inv, DaemonInv, DaemonTypes, PCs, Live, Talking
  <2>2. CASE slot[i].active
    <3>1. PICK c \in Clients : tslot[c] = i /\ tpc[c] \in Live
      BY <2>2 DEF Inv, DaemonInv, SlotServed
    <3>2. threads = {c}  BY <2>1, <3>1 DEF Inv, DaemonInv, OwnSlot
    <3>3. Cardinality({c}) = 1  BY FS_Singleton
    <3> QED  BY <2>2, <3>2, <3>3
  <2>3. CASE ~slot[i].active
    <3>1. threads = {}  BY <2>1, <2>3 DEF Inv, DaemonInv, OwnSlot
    <3>2. Cardinality({}) = 0  BY FS_EmptySet
    <3> QED  BY <2>3, <3>1, <3>2
  <2> QED  BY <2>2, <2>3
<1> QED  BY <1>1, AlwaysInv, PTL

(***************************************************************************)
(* corregir_tiempo: the error that is left, for any length of the round    *)
(* trip, of the delay until settimeofday and of the fractions of a second. *)
(***************************************************************************)
LEMMA ErrorIsBounded ==
    ASSUME Inv, Corregir(Observed), off' # off, exch.clean
    PROVE  WithinBound
<1> DEFINE rtt == exch.at - exch.since
           lag == now - exch.at
           f == Clock % Second
           h == estimated_latency_sec(rtt)
<1>1. /\ cpc[Observed] = "correct"
      /\ off' = (exch.adjusted * Second + f) - now
  BY DEF Corregir, IfObserved
<1>2. /\ exch.since \in Nat /\ exch.at \in Nat /\ now \in Nat /\ Clock \in Int /\ Second \in Nat \ {0}
  BY Limits DEF Inv, ClientTypes, Exchanges, Clock
<1>3. exch.at <= now  BY <1>1 DEF Inv, AdjustedInTime
<1>4. PICK s \in Nat : ReadBetween(s, exch.since, exch.at) /\ exch.adjusted = s + h
  BY <1>1 DEF Inv, AdjustedInTime
<1>5. rtt \in Nat /\ lag \in Nat  BY <1>2, <1>3, <1>4 DEF ReadBetween
<1>6. h \in Nat /\ 2 * (Second * h) <= rtt /\ rtt < 2 * (Second * h) + 2 * Second
  BY <1>5, Latency
<1>7. f \in 0..(Second - 1)  BY <1>2
<1> HIDE DEF f, h
<1>8. off' = Second * s + Second * h + f - now
  BY <1>1, <1>2, <1>4, <1>6, <1>7
<1>9. Second * s \in Nat /\ Second * h \in Nat  BY <1>2, <1>4, <1>6
<1>10. Second * s <= exch.at /\ exch.since < Second * s + Second  BY <1>4 DEF ReadBetween
<1>11. 2 * off' < rtt - 2 * lag + 2 * Second
  BY <1>2, <1>5, <1>6, <1>7, <1>8, <1>9, <1>10
<1>12. 2 * off' > -(rtt + 2 * lag + 4 * Second)
  BY <1>2, <1>5, <1>6, <1>7, <1>8, <1>9, <1>10
<1> QED  BY <1>11, <1>12 DEF WithinBound

(***************************************************************************)
(* Cristian's bound, whatever the other clients, the user and the daemon's *)
(* end do meanwhile.                                                       *)
(***************************************************************************)
THEOREM CorrectionsAreBounded == Spec => CorrectionIsBounded
<1>1. ASSUME Inv, Next, cpc[Observed] = "correct", off' # off, exch' = NoExchange, exch.clean
      PROVE  WithinBound
  <2>1. ~NoExchange.clean  BY DEF NoExchange
  <2>2. CASE Main \/ Stop \/ Tick \/ SetDate
    BY <1>1, <2>1, <2>2 DEF Main, Stop, CloseSlot, Join, Exit, Accept, Tick, SetDate, clockVars
  <2>3. ASSUME NEW c \in Clients, Thread(c) \/ Start(c) \/ Quit(c) PROVE FALSE
    BY <1>1, <2>3 DEF Thread, Enter, RecvRequest, RecvEnd, Send, CleanUp, Cancel, Start, Quit, clockVars
  <2>4. ASSUME NEW c \in Clients, Client(c) PROVE WithinBound
    <3>1. CASE c # Observed
      BY <1>1, <2>4, <3>1 DEF Client, Ask, Recv, Corregir, LoseConnection, End, IfObserved, clockVars
    <3>2. CASE c = Observed /\ ~Corregir(c)
      BY <1>1, <2>4, <3>2 DEF Client, Ask, Recv, LoseConnection, End, IfObserved, clockVars
    <3>3. CASE c = Observed /\ Corregir(c)  BY <1>1, <3>3, ErrorIsBounded
    <3> QED  BY <3>1, <3>2, <3>3
  <2> QED  BY <1>1, <2>2, <2>3, <2>4 DEF Next
<1>2. Inv /\ [Next]_vars =>
        [cpc[Observed] = "correct" /\ off' # off /\ exch' = NoExchange /\ exch.clean => WithinBound]_vars
  BY <1>1
<1> QED  BY <1>2, AlwaysInv, PTL DEF Spec, CorrectionIsBounded
=============================================================================
