------------------------------ MODULE Cristian ------------------------------
(***************************************************************************)
(* Cristian's algorithm: the time daemon and the clients of tp-cristian.   *)
(* The daemon's main thread accepts connections into a table of            *)
(* MAX_CLIENTS slots and creates a thread for each; the thread answers     *)
(* TIME_REQUEST with the seconds of the daemon's clock.  A client measures *)
(* the round trip with its own clock, adds half of it to the answer and    *)
(* sets its own clock, which its user may set as well (date -s).           *)
(*                                                                         *)
(* The daemon's clock is the time, now, in units of which Second make a    *)
(* second.  Clients do not share clocks, so that one of them, Observed, is *)
(* enough: its clock is ahead of the daemon's by off.  Both clocks are     *)
(* counted from the full second in which the current exchange began, as    *)
(* only their difference and their fractions of a second matter.           *)
(***************************************************************************)
EXTENDS Integers, FiniteSets

CONSTANTS
    Clients,        \* runs of the client program, each with its connection
    NoClient,
    MaxClients,     \* MAX_CLIENTS
    Observed,       \* the client whose clock the model has
    Second,         \* units of time in a second
    Offsets,        \* of its clock, when an exchange begins or the user sets it
    MaxNow,         \* bound: the time that an exchange and its correction take
    Faults          \* which of AllFaults happen

\* "date": a user sets the clock; "quit": a user ends a client; "stop": the
\* daemon gets SIGINT or SIGTERM; "nothread": pthread_create fails;
\* "settime": settimeofday fails.
AllFaults == {"date", "quit", "stop", "nothread", "settime"}

ASSUME CristianAssumption ==
    /\ IsFiniteSet(Clients) /\ NoClient \notin Clients /\ Observed \in Clients
    /\ MaxClients \in Nat \ {0}
    /\ Second \in Nat \ {0}
    /\ Offsets \subseteq Int
    /\ MaxNow \in Nat /\ Second <= MaxNow
    /\ Faults \subseteq AllFaults

VARIABLES
    slot,       \* server_state.clients: socket and active
    fds,        \* the connection behind a descriptor number of the daemon
    running,    \* server_state.running
    mpc,        \* where the daemon's main thread is
    turn,       \* the slot that it is closing
    tpc,        \* where the daemon's thread for a client is
    tslot,      \* its argument: a pointer to a slot
    cpc,        \* where the client's synchronisation thread is
    crunning,   \* client_state.running
    copen,      \* the client's end of the connection is open
    msg,        \* the message under way on the connection
    now,
    off,        \* of the observed clock
    exch        \* the exchange: T1 and the adjusted time

daemonVars == <<slot, fds, running, mpc, turn, tpc, tslot>>
clientVars == <<cpc, crunning, copen>>
clockVars  == <<now, off, exch>>
vars == <<daemonVars, clientVars, msg, clockVars>>

Indices == 1..MaxClients
Fds == 1..Cardinality(Clients)
Nothing == [kind |-> "none", time |-> 0]

\* since, at and clean are history: the true time of T1 and of T2, as long as
\* the clock has been left alone between them.
NoExchange == [t1 |-> 0, adjusted |-> 0, since |-> 0, at |-> 0, clean |-> FALSE]

Init ==
    /\ slot = [i \in Indices |-> [socket |-> 0, active |-> FALSE]]
    /\ fds = [f \in Fds |-> NoClient]
    /\ running = TRUE
    /\ mpc = "accept" /\ turn = 1
    /\ tpc = [c \in Clients |-> "none"]
    /\ tslot = [c \in Clients |-> 1]
    /\ cpc = [c \in Clients |-> "off"]
    /\ crunning = [c \in Clients |-> FALSE]
    /\ copen = [c \in Clients |-> FALSE]
    /\ msg = [c \in Clients |-> Nothing]
    /\ now = 0
    /\ off \in Offsets
    /\ exch = NoExchange

Lowest(S) == CHOOSE k \in S : \A m \in S : k <= m

\* The connection is waiting to be accepted.
Queued(c) == cpc[c] # "off" /\ tpc[c] = "none"

\* The daemon has the connection open: a thread that waits in recv keeps it
\* when the descriptor is closed.
Held(c) == tpc[c] = "recv" \/ \E f \in Fds : fds[f] = c

-----------------------------------------------------------------------------
\* Mutant: a connection for which there is no slot is left open.
NeverRefuses(c) ==
    /\ mpc = "accept" /\ running /\ Queued(c)
    /\ LET fd == Lowest({f \in Fds : fds[f] = NoClient})
           free == {i \in Indices : ~slot[i].active}
           i == Lowest(free)
       IN /\ free # {}
          /\ slot' = [slot EXCEPT ![i] = [socket |-> fd, active |-> TRUE]]
          /\ fds' = [fds EXCEPT ![fd] = c]
          /\ tpc' = [tpc EXCEPT ![c] = "loop"]
          /\ tslot' = [tslot EXCEPT ![c] = i]
    /\ UNCHANGED <<running, mpc, turn, clientVars, msg, clockVars>>

\* Mutant: the slot stays active although it has no thread.
KeepsSlot(c) ==
    /\ mpc = "accept" /\ running /\ Queued(c)
    /\ "nothread" \in Faults
    /\ LET free == {i \in Indices : ~slot[i].active}
       IN free # {} /\ slot' = [slot EXCEPT ![Lowest(free)] = [socket |-> 1, active |-> TRUE]]
    /\ tpc' = [tpc EXCEPT ![c] = "done"]
    /\ UNCHANGED <<fds, running, mpc, turn, tslot, clientVars, msg, clockVars>>

\* main: accept, and the first slot that is not active.
Accept(c) ==
    /\ mpc = "accept" /\ running /\ Queued(c)
    /\ LET fd == Lowest({f \in Fds : fds[f] = NoClient})
           free == {i \in Indices : ~slot[i].active}
           i == Lowest(free)
       IN \/ /\ free # {}
             /\ slot' = [slot EXCEPT ![i] = [socket |-> fd, active |-> TRUE]]
             /\ fds' = [fds EXCEPT ![fd] = c]
             /\ tpc' = [tpc EXCEPT ![c] = "loop"]
             /\ tslot' = [tslot EXCEPT ![c] = i]
          \/ \* There is no slot, or there can be no thread: the connection
             \* is closed.
             /\ free = {} \/ "nothread" \in Faults
             /\ slot' = IF free = {} THEN slot ELSE [slot EXCEPT ![i].socket = fd]
             /\ tpc' = [tpc EXCEPT ![c] = "done"]
             /\ UNCHANGED <<fds, tslot>>
    /\ UNCHANGED <<running, mpc, turn, clientVars, msg, clockVars>>

\* Mutant: the handler leaves the listening socket open, and accept goes on.
OnlyClearsRunning ==
    /\ "stop" \in Faults /\ running
    /\ running' = FALSE
    /\ UNCHANGED <<slot, fds, mpc, turn, tpc, tslot, clientVars, msg, clockVars>>

\* signal_handler: accept fails from now on, and the connections that wait
\* for it are reset.
Stop ==
    /\ "stop" \in Faults /\ running
    /\ running' = FALSE
    /\ mpc' = "close" /\ turn' = 1
    /\ tpc' = [c \in Clients |-> IF Queued(c) THEN "done" ELSE tpc[c]]
    /\ UNCHANGED <<slot, fds, tslot, clientVars, msg, clockVars>>

\* The end of main, slot by slot: close and pthread_cancel ...
CloseSlot ==
    /\ mpc = "close" /\ turn <= MaxClients
    /\ IF slot[turn].active
       THEN fds' = [fds EXCEPT ![slot[turn].socket] = NoClient] /\ mpc' = "join" /\ UNCHANGED turn
       ELSE turn' = turn + 1 /\ UNCHANGED <<fds, mpc>>
    /\ UNCHANGED <<slot, running, tpc, tslot, clientVars, msg, clockVars>>

\* ... which takes effect in recv, send or close ...
Cancel(c) ==
    /\ mpc = "join" /\ tslot[c] = turn
    /\ tpc[c] \in {"recv", "send", "close"}
    /\ tpc' = [tpc EXCEPT ![c] = "done"]
    /\ UNCHANGED <<slot, fds, running, mpc, turn, tslot, clientVars, msg, clockVars>>

\* ... and pthread_join.
Join ==
    /\ mpc = "join"
    /\ \A c \in Clients : tslot[c] = turn => tpc[c] \in {"none", "done"}
    /\ mpc' = "close" /\ turn' = turn + 1
    /\ UNCHANGED <<slot, fds, running, tpc, tslot, clientVars, msg, clockVars>>

\* The process ends, with the threads that are still busy.
Exit ==
    /\ mpc = "close" /\ turn > MaxClients
    /\ mpc' = "ended"
    /\ fds' = [f \in Fds |-> NoClient]
    /\ tpc' = [c \in Clients |-> IF tpc[c] = "none" THEN "none" ELSE "done"]
    /\ UNCHANGED <<slot, running, turn, tslot, clientVars, msg, clockVars>>

-----------------------------------------------------------------------------
ThreadGoto(c, pc) == tpc' = [tpc EXCEPT ![c] = pc]

\* client->socket and what it stands for; 0 is no descriptor.
Socket(c) == slot[tslot[c]].socket
Peer(c) == IF Socket(c) = 0 THEN NoClient ELSE fds[Socket(c)]

\* handle_client, the head of the loop.
Enter(c) ==
    /\ tpc[c] = "loop"
    /\ ThreadGoto(c, IF running /\ slot[tslot[c]].active THEN "recv" ELSE "close")
    /\ UNCHANGED <<slot, fds, running, mpc, turn, tslot, clientVars, msg, clockVars>>

\* getTimeSec, as far as somebody looks at the answer.
Seconds(c) == IF c = Observed THEN now \div Second ELSE 0

\* recv returns TIME_REQUEST, and the daemon looks at its clock.
RecvRequest(c) ==
    /\ tpc[c] = "recv"
    /\ msg[c].kind = "request"
    /\ msg' = [msg EXCEPT ![c] = [kind |-> "answer", time |-> Seconds(c)]]
    /\ ThreadGoto(c, "send")
    /\ UNCHANGED <<slot, fds, running, mpc, turn, tslot, clientVars, clockVars>>

\* Mutant: the descriptor is closed here, and once more in CleanUp.
ClosesTwice(c) ==
    /\ tpc[c] = "recv"
    /\ msg[c].kind # "request" /\ ~copen[c]
    /\ fds' = [fds EXCEPT ![Socket(c)] = NoClient]
    /\ ThreadGoto(c, "close")
    /\ UNCHANGED <<slot, running, mpc, turn, tslot, clientVars, msg, clockVars>>

\* recv returns nothing, or fails: the client has gone.
RecvEnd(c) ==
    /\ tpc[c] = "recv"
    /\ msg[c].kind # "request" /\ ~copen[c]
    /\ ThreadGoto(c, "close")
    /\ UNCHANGED <<slot, fds, running, mpc, turn, tslot, clientVars, msg, clockVars>>

\* send; it fails when main has closed the descriptor.
Send(c) ==
    /\ tpc[c] = "send"
    /\ IF Peer(c) = NoClient
       THEN ThreadGoto(c, "close") /\ UNCHANGED msg
       ELSE /\ msg' = [msg EXCEPT ![c] = Nothing,
                                  ![Peer(c)] = [kind |-> "reply", time |-> msg[c].time]]
            /\ ThreadGoto(c, "loop")
    /\ UNCHANGED <<slot, fds, running, mpc, turn, tslot, clientVars, clockVars>>

\* Mutant: the slot forgets its descriptor as well.
ForgetsSocket(c) ==
    /\ tpc[c] = "close"
    /\ fds' = [fds EXCEPT ![Socket(c)] = NoClient]
    /\ slot' = [slot EXCEPT ![tslot[c]] = [socket |-> -1, active |-> FALSE]]
    /\ ThreadGoto(c, "done")
    /\ UNCHANGED <<running, mpc, turn, tslot, clientVars, msg, clockVars>>

\* close, and only then active = 0.
CleanUp(c) ==
    \/ /\ tpc[c] = "close"
       /\ fds' = [fds EXCEPT ![Socket(c)] = NoClient]
       /\ ThreadGoto(c, "clear")
       /\ UNCHANGED <<slot, running, mpc, turn, tslot, clientVars, msg, clockVars>>
    \/ /\ tpc[c] = "clear"
       /\ slot' = [slot EXCEPT ![tslot[c]].active = FALSE]
       /\ ThreadGoto(c, "done")
       /\ UNCHANGED <<fds, running, mpc, turn, tslot, clientVars, msg, clockVars>>

Thread(c) == Enter(c) \/ RecvRequest(c) \/ RecvEnd(c) \/ Send(c) \/ CleanUp(c) \/ Cancel(c)
Main == CloseSlot \/ Join \/ Exit \/ \E c \in Clients : Accept(c)

-----------------------------------------------------------------------------
CliGoto(c, pc) == cpc' = [cpc EXCEPT ![c] = pc]
Clock == now + off

\* main of the client, up to the threads; nobody listens once the daemon has
\* been stopped.
Start(c) ==
    /\ cpc[c] = "off"
    /\ IF running
       THEN /\ CliGoto(c, "ask")
            /\ crunning' = [crunning EXCEPT ![c] = TRUE]
            /\ copen' = [copen EXCEPT ![c] = TRUE]
            /\ UNCHANGED tpc
       ELSE CliGoto(c, "ended") /\ UNCHANGED <<crunning, copen>> /\ ThreadGoto(c, "done")
    /\ UNCHANGED <<slot, fds, running, mpc, turn, tslot, msg, clockVars>>

\* What only matters for the observed client.
IfObserved(c, A) == IF c = Observed THEN A ELSE UNCHANGED clockVars

\* cristian_sync: T1 and send.  What is sent on a connection that the daemon
\* has closed is lost.  While the client slept its clock has drifted, or has
\* been set.
Ask(c) ==
    /\ cpc[c] = "ask" /\ crunning[c]
    /\ IfObserved(c,
        /\ now' \in 0..(Second - 1)
        /\ off' \in Offsets
        /\ exch' = [NoExchange EXCEPT !.t1 = now' + off', !.since = now', !.clean = TRUE])
    /\ msg' = [msg EXCEPT ![c] = IF Queued(c) \/ Held(c) THEN [kind |-> "request", time |-> 0] ELSE @]
    /\ CliGoto(c, "wait")
    /\ UNCHANGED <<daemonVars, crunning, copen>>

\* long long division, which truncates.
Trunc(a, b) == IF a >= 0 THEN a \div b ELSE -((-a) \div b)

\* Mutant: the whole round trip is added.
FullRoundTrip(rtt) == Trunc(rtt, Second)

estimated_latency_sec(rtt) == Trunc(Trunc(rtt, Second), 2)

adjusted_time(server_time) == server_time + estimated_latency_sec(Clock - exch.t1)

\* recv, T2 and the adjusted time.
Recv(c) ==
    /\ cpc[c] = "wait" /\ msg[c].kind = "reply"
    /\ IfObserved(c,
        /\ exch' = [exch EXCEPT !.t1 = 0, !.at = IF exch.clean THEN now ELSE 0,
                              !.adjusted = adjusted_time(msg[c].time)]
        /\ UNCHANGED <<now, off>>)
    /\ msg' = [msg EXCEPT ![c] = Nothing]
    /\ CliGoto(c, "correct")
    /\ UNCHANGED <<daemonVars, crunning, copen>>

\* corregir_tiempo: the seconds are set, the fraction is the clock's own.
\* Then sleep, and the head of the loop.
Corregir(c) ==
    /\ cpc[c] = "correct"
    /\ CliGoto(c, "ask")
    /\ IfObserved(c,
        /\ \/ off' = (exch.adjusted * Second + (Clock % Second)) - now
           \/ "settime" \in Faults /\ UNCHANGED off
        /\ exch' = NoExchange /\ now' = 0)
    /\ UNCHANGED <<daemonVars, crunning, copen, msg>>

\* recv returns nothing, or fails: the daemon has closed the connection.
LoseConnection(c) ==
    /\ cpc[c] = "wait" /\ msg[c].kind # "reply" /\ ~Queued(c) /\ ~Held(c)
    /\ crunning' = [crunning EXCEPT ![c] = FALSE]
    /\ CliGoto(c, "stopped")
    /\ UNCHANGED <<daemonVars, copen, msg, clockVars>>

\* signal_handler.  recv goes on on the closed socket.
Quit(c) ==
    /\ "quit" \in Faults /\ crunning[c]
    /\ crunning' = [crunning EXCEPT ![c] = FALSE]
    /\ copen' = [copen EXCEPT ![c] = cpc[c] = "wait"]
    /\ UNCHANGED <<daemonVars, cpc, msg, clockVars>>

\* main's loop ends, the threads are cancelled and the socket is closed.
End(c) ==
    /\ cpc[c] \notin {"off", "ended"} /\ ~crunning[c]
    /\ CliGoto(c, "ended")
    /\ copen' = [copen EXCEPT ![c] = FALSE]
    /\ IfObserved(c, exch' = NoExchange /\ now' = 0 /\ UNCHANGED off)
    /\ UNCHANGED <<daemonVars, crunning, msg>>

Client(c) == Ask(c) \/ Recv(c) \/ Corregir(c) \/ LoseConnection(c) \/ End(c)

\* date -s, in an exchange.
SetDate ==
    /\ "date" \in Faults /\ cpc[Observed] \in {"wait", "correct"}
    /\ off' \in Offsets
    /\ exch' = IF cpc[Observed] = "wait" THEN [NoExchange EXCEPT !.t1 = exch.t1] ELSE exch
    /\ UNCHANGED <<daemonVars, clientVars, msg, now>>

\* Time passes; what matters is the time that passes in an exchange.
Tick ==
    /\ now < MaxNow
    /\ cpc[Observed] \in {"wait", "correct"}
    /\ now' = now + 1
    /\ UNCHANGED <<daemonVars, clientVars, msg, off, exch>>

Next ==
    \/ Main \/ Stop \/ Tick \/ SetDate
    \/ \E c \in Clients : Thread(c) \/ Start(c) \/ Client(c) \/ Quit(c)

Spec == Init /\ [][Next]_vars

\* Threads go on.  Nobody has to run a program, to end it or to set a clock.
Fairness ==
    /\ WF_vars(Main)
    /\ \A c \in Clients : WF_vars(Thread(c)) /\ WF_vars(Client(c))

FairSpec == Spec /\ Fairness

-----------------------------------------------------------------------------
TypeOK ==
    /\ slot \in [Indices -> [socket : Fds \cup {0}, active : BOOLEAN]]
    /\ fds \in [Fds -> Clients \cup {NoClient}]
    /\ running \in BOOLEAN
    /\ mpc \in {"accept", "close", "join", "ended"}
    /\ turn \in 1..(MaxClients + 1)
    /\ tpc \in [Clients -> {"none", "loop", "recv", "send", "close", "clear", "done"}]
    /\ tslot \in [Clients -> Indices]
    /\ cpc \in [Clients -> {"off", "ask", "wait", "correct", "stopped", "ended"}]
    /\ crunning \in [Clients -> BOOLEAN]
    /\ copen \in [Clients -> BOOLEAN]
    /\ msg \in [Clients -> [kind : {"none", "request", "answer", "reply"}, time : Nat]]
    /\ now \in 0..MaxNow
    /\ off \in Int
    /\ exch \in [t1 : Int, adjusted : Int, since : Nat, at : Nat, clean : BOOLEAN]

(***************************************************************************)
(* A thread talks on the connection it was created for, and closes that    *)
(* one, although it finds its descriptor through a slot, and descriptors   *)
(* and slots are used again by later clients.  (At the end main closes it  *)
(* under the thread.)                                                      *)
(***************************************************************************)
OwnConnection ==
    \A c \in Clients : tpc[c] \in {"loop", "recv", "send", "close"} =>
        Peer(c) = c \/ (mpc # "accept" /\ Peer(c) = NoClient)

\* The clock after a correction during whose exchange nobody has set it: rtt
\* is the round trip, lag the time until settimeofday.
WithinBound ==
    LET rtt == exch.at - exch.since
        lag == now - exch.at
    IN  /\ 2 * off' < rtt - 2 * lag + 2 * Second
        /\ 2 * off' > -(rtt + 2 * lag + 4 * Second)

(***************************************************************************)
(* The algorithm's error: after a correction during whose exchange nobody  *)
(* set the clock, the client's clock is ahead by less than half the round  *)
(* trip and one second, and behind by less than half the round trip and    *)
(* two seconds, both later by the time until settimeofday (latency, answer *)
(* and fraction are truncated to seconds).  Whatever the clock was before  *)
(* the exchange, and whoever else the daemon was serving.                  *)
(***************************************************************************)
CorrectionIsBounded ==
    [][cpc[Observed] = "correct" /\ off' # off /\ exch' = NoExchange /\ exch.clean => WithinBound]_vars

(***************************************************************************)
(* recv has no time limit; still, a client does not wait for ever: it gets *)
(* an answer or the end of the connection, also when the table is full,    *)
(* when the daemon is stopped or when no thread can be created.            *)
(***************************************************************************)
NobodyWaitsForEver == \A c \in Clients : cpc[c] = "wait" ~> cpc[c] # "wait"

(***************************************************************************)
(* An active slot has a thread that serves it, and only one: the table of  *)
(* MAX_CLIENTS does not fill up with clients that are gone or that could   *)
(* not be given a thread, and no two threads share a slot.                 *)
(***************************************************************************)
OneThreadPerSlot ==
    \A i \in Indices :
        LET threads == {c \in Clients : tslot[c] = i /\ tpc[c] \notin {"none", "done"}}
        IN  mpc = "accept" => Cardinality(threads) = IF slot[i].active THEN 1 ELSE 0

(***************************************************************************)
(* After SIGINT or SIGTERM the daemon ends, in whatever state its threads  *)
(* are, and so do the clients, without a signal of their own.              *)
(***************************************************************************)
EveryoneStops ==
    ~running ~> mpc = "ended" /\ \A c \in Clients : cpc[c] \in {"off", "ended"}
=============================================================================
