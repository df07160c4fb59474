------------------------------ MODULE Berkeley ------------------------------
(***************************************************************************)
(* Berkeley's algorithm: the daemon and the clients of                     *)
(* tp6-algoritmo-de-berkeley.  The daemon's main thread accepts clients    *)
(* into a table of MAX_CLIENTS slots; its other thread repeats a round:    *)
(* it asks every active client for its time, computes the average, sends   *)
(* it to them and sets the daemon's own clock.  The round is one critical  *)
(* section of clients_mutex.                                               *)
(*                                                                         *)
(* All clocks run equally fast, so a clock is represented by its offset    *)
(* from what the daemon's would show, had nobody set it (now).  A second   *)
(* has Second units.  The programs read, send and average whole seconds    *)
(* (time), and setting a clock keeps its fraction (tv_usec).               *)
(***************************************************************************)
EXTENDS Integers, Sequences, FiniteSets

CONSTANTS
    Clients,        \* runs of the client program, each with its connection
    NoClient,
    MaxClients,     \* MAX_CLIENTS
    Start,          \* the offsets of the clients' clocks, at the start
    Second,         \* the units of time that a clock has per second
    MaxTime,        \* bound: the units of time that pass
    Faults          \* which of AllFaults happen

\* "slow": a client answers late, or reads two messages at once; "quit": a
\* client ends; "stop": the daemon gets SIGINT or SIGTERM; "settime":
\* gettimeofday or settimeofday fails (without sudo it does).
AllFaults == {"slow", "quit", "stop", "settime"}

\* The offsets of all clocks, the daemon's too, at the start.
Offsets == {Start[c] : c \in Clients} \cup {0}

ASSUME BerkeleyAssumption ==
    /\ NoClient \notin Clients
    /\ MaxClients \in Nat \ {0}
    /\ Start \in [Clients -> Int]
    /\ \E lo, hi \in Offsets : \A t \in Offsets : lo <= t /\ t <= hi
    /\ Second \in Nat \ {0} /\ MaxTime \in Nat
    /\ Faults \subseteq AllFaults

VARIABLES
    slot,           \* clients[]: socket and active
    client_count,
    running,        \* server_state.running
    dpc,            \* where the synchronisation thread is, and how the daemon ended
    turn,           \* the index of the loop over the slots
    total,          \* total_time, then average_time
    valid_times,
    offset,         \* of the daemon's clock
    prog,           \* the client program: not started, running or ended
    coffset,        \* of the clients' clocks
    link,           \* the state of a client's connection, as the daemon meets it
    toClient, toDaemon,     \* what is under way on it
    synced,         \* after a round, the clients that it has corrected (history)
    now,            \* the time, had nobody set the daemon's clock
    unset,          \* who has failed to set its clock, NoClient is the daemon (history)
    age,            \* of the last average, until it is set everywhere (history)
    slowest         \* how far behind a clock may be (history)

tableVars  == <<slot, client_count>>
roundVars  == <<dpc, turn, total, valid_times, offset>>
clientVars == <<prog, coffset>>
linkVars   == <<link, toClient, toDaemon>>
timeVars   == <<now, age, slowest>>
vars == <<tableVars, running, roundVars, clientVars, linkVars, synced, unset, timeVars>>

Indices == 1..MaxClients
Request == [cmd |-> "TIME_REQUEST", time |-> 0]
SyncTo(t) == [cmd |-> "TIME_SYNC", time |-> t]

\* The slowest and the fastest clock that there may be at the start.
Lowest == CHOOSE t \in Offsets : \A u \in Offsets : t <= u
Highest == CHOOSE t \in Offsets : \A u \in Offsets : t >= u

\* getTimeSec: the whole seconds that a clock shows.
Reading(o) == (o + now) \div Second

\* settimeofday with t seconds and the clock's own tv_usec.
Set(o, t) == t * Second + ((o + now) % Second) - now

Init ==
    /\ slot = [i \in Indices |-> [socket |-> NoClient, active |-> FALSE]]
    /\ client_count = 0
    /\ running = TRUE
    /\ dpc = "sleep" /\ turn = 1 /\ total = 0 /\ valid_times = 0
    /\ offset = 0
    /\ prog = [c \in Clients |-> "off"]
    /\ coffset = Start
    /\ link = [c \in Clients |-> "none"]
    /\ toClient = [c \in Clients |-> <<>>]
    /\ toDaemon = [c \in Clients |-> <<>>]
    /\ synced = {}
    /\ now = 0 /\ age = 0 /\ slowest = Lowest
    /\ unset = {}

\* clients_mutex is free.
MutexFree == dpc \in {"sleep", "ended"}

Alive == dpc \notin {"killed", "closed"}

Active(i) == slot[i].active

\* The daemon's process is gone: so are its sockets.
Dies(how) ==
    /\ dpc' = how
    /\ link' = [c \in Clients |-> IF link[c] = "none" THEN "none" ELSE "closed"]

-----------------------------------------------------------------------------
\* client_count covers the slot i.
CountUpTo(i) == IF i > client_count THEN i ELSE client_count

\* main: accept, and the first slot that is not active.  Without one the
\* connection is closed.
Accept(c) ==
    /\ running /\ MutexFree
    /\ prog[c] # "off" /\ link[c] \in {"queued", "queuedfin"}
    /\ LET free == {i \in Indices : ~Active(i)}
           i == CHOOSE k \in free : \A m \in free : k <= m
       IN IF free = {}
          THEN /\ link' = [link EXCEPT ![c] = "closed"]
               /\ UNCHANGED tableVars
          ELSE /\ slot' = [slot EXCEPT ![i] = [socket |-> c, active |-> TRUE]]
               /\ client_count' = CountUpTo(i)
               /\ link' = [link EXCEPT ![c] = IF @ = "queued" THEN "up" ELSE "fin"]
    /\ UNCHANGED <<running, roundVars, clientVars, toClient, toDaemon, synced, unset, timeVars>>

\* signal_handler: no more connections are accepted.
Stop ==
    /\ "stop" \in Faults
    /\ running /\ Alive
    /\ running' = FALSE
    /\ link' = [c \in Clients |-> IF link[c] \in {"queued", "queuedfin"} THEN "closed" ELSE link[c]]
    /\ UNCHANGED <<tableVars, roundVars, clientVars, toClient, toDaemon, synced, unset, timeVars>>

\* main, after the synchronisation thread has ended.
Close ==
    /\ dpc = "ended"
    /\ Dies("closed")
    /\ UNCHANGED <<tableVars, running, turn, total, valid_times, offset, clientVars,
                   toClient, toDaemon, synced, unset, timeVars>>

-----------------------------------------------------------------------------
\* send on the socket of a client.  The client's answer to data for a closed
\* socket is a reset: the next send raises SIGPIPE, which kills the daemon.  A
\* client that ended with unread data has reset the connection already, and
\* the first send only fails.
SendTo(c, m, pc) ==
    \/ /\ link[c] = "up"
       /\ toClient' = [toClient EXCEPT ![c] = Append(@, m)]
       /\ dpc' = pc
       /\ UNCHANGED link
    \/ /\ link[c] \in {"fin", "reset"}
       /\ link' = [link EXCEPT ![c] = "pipe"]
       /\ dpc' = pc
       /\ UNCHANGED toClient
    \/ /\ link[c] = "pipe"
       /\ Dies("killed")
       /\ UNCHANGED toClient

\* Mutant: the thread does not look at running again.
NeverEnds == "sleep"

\* The head of the loop: the thread ends when the daemon has been stopped.
Sleep == IF running THEN "sleep" ELSE "ended"

\* The interval is over; nobody has ever connected.
WakeUpAlone ==
    /\ dpc = "sleep" /\ client_count = 0
    /\ dpc' = Sleep
    /\ UNCHANGED <<tableVars, running, turn, total, valid_times, offset, clientVars,
                   linkVars, synced, unset, timeVars>>

\* Mutant: the first client's time has the place behind the next one.
WakeUpCountsTwo ==
    /\ dpc = "sleep" /\ client_count > 0
    /\ dpc' = "ask" /\ turn' = 1
    /\ total' = Reading(offset) /\ valid_times' = 2
    /\ synced' = {} /\ unset' = {}
    /\ UNCHANGED <<tableVars, running, offset, clientVars, linkVars, timeVars>>

WakeUp ==
    /\ dpc = "sleep" /\ client_count > 0
    /\ dpc' = "ask" /\ turn' = 1
    /\ total' = Reading(offset) /\ valid_times' = 1
    /\ synced' = {} /\ unset' = {}
    /\ UNCHANGED <<tableVars, running, offset, clientVars, linkVars, timeVars>>

\* request_client_time up to recv.
Ask ==
    /\ dpc = "ask" /\ turn <= client_count
    /\ IF Active(turn)
       THEN SendTo(slot[turn].socket, Request, "wait") /\ UNCHANGED turn
       ELSE turn' = turn + 1 /\ UNCHANGED <<dpc, link, toClient>>
    /\ UNCHANGED <<tableVars, running, total, valid_times, offset, clientVars, toDaemon, synced, unset, timeVars>>

\* The client's time has arrived.
GetTime ==
    /\ dpc = "wait"
    /\ LET c == slot[turn].socket
       IN /\ toDaemon[c] # <<>>
          /\ total' = total + Head(toDaemon[c])
          /\ toDaemon' = [toDaemon EXCEPT ![c] = Tail(@)]
    /\ valid_times' = valid_times + 1
    /\ turn' = turn + 1
    /\ dpc' = "ask"
    /\ UNCHANGED <<tableVars, running, offset, clientVars, link, toClient, synced, unset, timeVars>>

\* Mutant: the client that did not answer is asked again in the next round.
StaysActive ==
    /\ dpc = "wait"
    /\ LET c == slot[turn].socket
       IN toDaemon[c] = <<>> /\ (link[c] # "up" \/ "slow" \in Faults)
    /\ turn' = turn + 1
    /\ dpc' = "ask"
    /\ UNCHANGED <<tableVars, running, total, valid_times, offset, clientVars,
                   linkVars, synced, unset, timeVars>>

\* The connection is closed, or nothing has come within three seconds: the
\* slot is free again, the socket is not closed.
GetNothing ==
    /\ dpc = "wait"
    /\ LET c == slot[turn].socket
       IN toDaemon[c] = <<>> /\ (link[c] # "up" \/ "slow" \in Faults)
    /\ slot' = [slot EXCEPT ![turn].active = FALSE]
    /\ turn' = turn + 1
    /\ dpc' = "ask"
    /\ UNCHANGED <<client_count, running, total, valid_times, offset, clientVars,
                   linkVars, synced, unset, timeVars>>

\* Mutant: the daemon's own time is in the sum and not in the count.
AverageOfClients(sum, n) == IF n = 1 THEN sum ELSE sum \div (n - 1)

average_time(sum, n) == sum \div n

Average ==
    /\ dpc = "ask" /\ turn > client_count
    /\ total' = average_time(total, valid_times)
    /\ turn' = 1 /\ dpc' = "correct"
    /\ age' = 0 /\ slowest' = Reading(slowest) * Second - now
    /\ UNCHANGED <<tableVars, running, valid_times, offset, clientVars, linkVars, synced, unset, now>>

\* Mutant: the daemon's own place in times is forgotten.
SkipsLast(i) == Active(i) /\ Cardinality({k \in 1..i : Active(k)}) < valid_times - 1

\* send_time_sync, as long as there are as many times as active clients.
Corrects(i) == Active(i) /\ Cardinality({k \in 1..i : Active(k)}) < valid_times

Correct ==
    /\ dpc = "correct" /\ turn <= client_count
    /\ IF Corrects(turn)
       THEN SendTo(slot[turn].socket, SyncTo(total), "correct")
       ELSE UNCHANGED <<dpc, link, toClient>>
    /\ turn' = turn + 1
    /\ UNCHANGED <<tableVars, running, total, valid_times, offset, clientVars, toDaemon, synced, unset, timeVars>>

\* Mutant: the daemon corrects the others and not itself.
KeepsItsTime(nuevoTiempo) == UNCHANGED <<offset, unset>>

modificar_tiempo_servidor(nuevoTiempo) ==
    \/ offset' = Set(offset, nuevoTiempo) /\ UNCHANGED unset
    \/ /\ "settime" \in Faults
       /\ unset' = unset \cup {NoClient}
       /\ UNCHANGED offset

\* The daemon's own clock, and the end of the round with all that is local to it.
SetTime ==
    /\ dpc = "correct" /\ turn > client_count
    /\ modificar_tiempo_servidor(total)
    /\ synced' = {slot[i].socket : i \in {k \in 1..client_count : Corrects(k)}}
    /\ dpc' = Sleep
    /\ turn' = 1 /\ total' = 0 /\ valid_times' = 0
    /\ UNCHANGED <<tableVars, running, clientVars, linkVars, timeVars>>

Daemon ==
    \/ WakeUpAlone \/ WakeUp \/ Ask \/ GetTime \/ GetNothing \/ Average \/ Correct \/ SetTime
    \/ Close
    \/ \E c \in Clients : Accept(c)

-----------------------------------------------------------------------------
Connect(c) ==
    /\ prog[c] = "off"
    /\ IF Alive /\ running
       THEN /\ prog' = [prog EXCEPT ![c] = "run"]
            /\ link' = [link EXCEPT ![c] = "queued"]
       ELSE prog' = [prog EXCEPT ![c] = "ended"] /\ UNCHANGED link
    /\ UNCHANGED <<tableVars, running, roundVars, coffset, toClient, toDaemon, synced, unset, timeVars>>

corregir_tiempo(c, nuevoTiempo) ==
    \/ /\ coffset' = [coffset EXCEPT ![c] = Set(@, nuevoTiempo)]
       /\ unset' = unset \ {c}
    \/ /\ "settime" \in Faults
       /\ unset' = unset \cup {c}
       /\ UNCHANGED coffset

\* handler_mensajes: what recv has returned begins with a request or with a
\* correction.  What else it contains is not looked at: atoll stops at the
\* first character that is no digit.
HandleMessage(c) ==
    /\ prog[c] = "run" /\ toClient[c] # <<>>
    /\ LET m == Head(toClient[c])
       IN IF m.cmd = "TIME_REQUEST"
          THEN /\ toDaemon' = IF link[c] = "closed" THEN toDaemon
                              ELSE [toDaemon EXCEPT ![c] = Append(@, Reading(coffset[c]))]
               /\ UNCHANGED <<coffset, unset>>
          ELSE corregir_tiempo(c, m.time) /\ UNCHANGED toDaemon
    /\ toClient' = [toClient EXCEPT ![c] = Tail(@)]
    /\ UNCHANGED <<tableVars, running, roundVars, prog, link, synced, timeVars>>

\* The same, with all that has arrived in one recv.
HandleGlued(c) ==
    /\ "slow" \in Faults
    /\ prog[c] = "run" /\ Len(toClient[c]) > 1
    /\ Head(toClient[c]).cmd = "TIME_SYNC"
    /\ corregir_tiempo(c, Head(toClient[c]).time)
    /\ toClient' = [toClient EXCEPT ![c] = <<>>]
    /\ UNCHANGED <<tableVars, running, roundVars, prog, link, toDaemon, synced, timeVars>>

\* recv returns nothing: the daemon has closed the connection or is gone.
LoseConnection(c) ==
    /\ prog[c] = "run" /\ toClient[c] = <<>> /\ link[c] = "closed"
    /\ prog' = [prog EXCEPT ![c] = "ended"]
    /\ UNCHANGED <<tableVars, running, roundVars, coffset, linkVars, synced, unset, timeVars>>

\* Ctrl+C: signal_handler closes the socket and the program ends.
Quit(c) ==
    /\ "quit" \in Faults
    /\ prog[c] = "run"
    /\ prog' = [prog EXCEPT ![c] = "ended"]
    /\ link' = [link EXCEPT ![c] = CASE @ = "queued" -> "queuedfin"
                                     [] @ = "up" -> IF toClient[c] = <<>> THEN "fin" ELSE "reset"
                                     [] OTHER -> @]
    /\ toClient' = [toClient EXCEPT ![c] = <<>>]
    /\ UNCHANGED <<tableVars, running, roundVars, coffset, toDaemon, synced, unset, timeVars>>

Client(c) == HandleMessage(c) \/ HandleGlued(c) \/ LoseConnection(c)

\* c has a correction to read.
Unread(c) == toClient[c] # <<>> /\ Head(toClient[c]).cmd = "TIME_SYNC"

\* Somebody holds a time that was read.
TimesUnderWay ==
    \/ dpc \in {"ask", "wait", "correct"}
    \/ \E c \in Clients : toClient[c] # <<>> \/ toDaemon[c] # <<>>

\* Time passes: the clocks go on, the times that somebody holds do not.
Tick ==
    /\ now < MaxTime
    /\ now' = now + 1
    /\ age' = IF dpc = "correct" \/ \E c \in Clients : Unread(c) THEN age + 1 ELSE age
    /\ slowest' = IF TimesUnderWay THEN slowest - 1 ELSE slowest
    /\ UNCHANGED <<tableVars, running, roundVars, clientVars, linkVars, synced, unset>>

Next ==
    \/ Daemon \/ Stop \/ Tick
    \/ \E c \in Clients : Connect(c) \/ Client(c) \/ Quit(c)

Spec == Init /\ [][Next]_vars

\* The daemon's threads go on; recv returns after three seconds.
DaemonGoesOn == WF_vars(Daemon)

\* Nothing is assumed of the clients.
StubbornSpec == Spec /\ DaemonGoesOn

-----------------------------------------------------------------------------
Links == {"none", "queued", "queuedfin", "up", "fin", "reset", "pipe", "closed"}

TypeOK ==
    /\ slot \in [Indices -> [socket : Clients \cup {NoClient}, active : BOOLEAN]]
    /\ client_count \in 0..MaxClients
    /\ running \in BOOLEAN
    /\ dpc \in {"sleep", "ask", "wait", "correct", "ended", "closed", "killed"}
    /\ turn \in 1..(MaxClients + 1)
    /\ total \in Int /\ valid_times \in 0..(MaxClients + 1)
    /\ offset \in Int
    /\ prog \in [Clients -> {"off", "run", "ended"}]
    /\ coffset \in [Clients -> Int]
    /\ link \in [Clients -> Links]
    /\ \A c \in Clients : Len(toClient[c]) <= 2 /\ Len(toDaemon[c]) <= 1
    /\ synced \subseteq Clients
    /\ unset \subseteq Clients \cup {NoClient}
    /\ now \in 0..MaxTime /\ age \in 0..now /\ slowest \in Int

(***************************************************************************)
(* The algorithm only brings clocks together, although it computes with    *)
(* whole seconds and every clock keeps its own fraction: no clock is ever  *)
(* ahead of the fastest one there was, and none is behind the slowest by   *)
(* more than the time that times have spent on their way and, for every    *)
(* average, the fraction of a second that reading the clock cuts off.      *)
(***************************************************************************)
ClocksStayInRange ==
    \A o \in {offset} \cup {coffset[c] : c \in Clients} : slowest <= o /\ o <= Highest

(***************************************************************************)
(* After a round, a client that was corrected and has read the correction  *)
(* agrees with the daemon up to less than a second, which is the fraction  *)
(* that both keep, and the time from the average until the later of them   *)
(* has set its clock; unless setting the clock failed for one of them.     *)
(***************************************************************************)
CorrectedClientsAgree ==
    dpc = "sleep" /\ NoClient \notin unset => \A c \in synced \ unset :
        prog[c] = "run" /\ toClient[c] = <<>> =>
            LET apart == age + Second - 1
            IN coffset[c] - apart <= offset /\ offset <= coffset[c] + apart

(***************************************************************************)
(* An answer is the answer to the request of the same round: between two   *)
(* requests there is none on the connection of an active client, although  *)
(* answers come late, after the daemon has given up waiting.               *)
(***************************************************************************)
AnswersBelongToTheRound ==
    \A i \in Indices : Active(i) /\ Alive /\ ~(dpc = "wait" /\ turn = i)
        => toDaemon[slot[i].socket] = <<>>

(***************************************************************************)
(* The daemon ends after SIGINT or SIGTERM, whatever its clients do: a     *)
(* client that does not answer delays it only until the time limit.        *)
(***************************************************************************)
StopsWhenTold == ~running ~> dpc \in {"closed", "killed"}

InTable(c) == \E i \in Indices : Active(i) /\ slot[i].socket = c

(***************************************************************************)
(* "Se sincronizara el tiempo con el demonio": a client that was accepted  *)
(* is corrected in some round, unless it has missed a time limit and lost  *)
(* its slot, or the daemon is gone; no client that answers is passed over  *)
(* for ever, whatever the others do.                                       *)
(***************************************************************************)
AcceptedClientsAreCorrected ==
    \A c \in Clients : InTable(c) ~> c \in synced \/ ~InTable(c) \/ ~Alive

(***************************************************************************)
(* "si no se pudo obtener el tiempo, se toma como cliente inactivo": a     *)
(* client that goes away costs its slot and nothing more.                  *)
(***************************************************************************)
LostClientsDoNotKill == dpc # "killed"
=============================================================================
