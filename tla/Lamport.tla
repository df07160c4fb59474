------------------------------ MODULE Lamport ------------------------------
(***************************************************************************)
(* The processes with logical clocks: tp5-algoritmo-de-lamport/proceso.c.  *)
(* Three threads share logical_clock under clock_mutex: one ticks, one     *)
(* serves incoming connections one after the other, and one connects to    *)
(* another process (or to its own), stamps a message and sends it.  The    *)
(* stamp is taken after the connection is made and sent after the mutex is *)
(* released, so ticks and receptions come in between.                      *)
(***************************************************************************)
EXTENDS Integers, Sequences

CONSTANTS
    Processes,
    NoProcess,
    InitialClocks,  \* what users give as reloj_inicial
    Backlog,        \* connections that wait to be accepted, listen(server_fd, 3)
    MaxClock,       \* bound: no tick and no new connection beyond this clock
    MaxStamp,       \* no stamp is greater: a process receives a few messages beyond MaxClock
    MaxRestarts     \* bound: how often processes are run again

ASSUME ClockAssumption ==
    /\ NoProcess \notin Processes
    /\ InitialClocks \subseteq Nat
    /\ Backlog \in Nat \ {0}
    /\ MaxClock \in Nat /\ MaxStamp \in Nat
    /\ MaxRestarts \in Nat

VARIABLES
    clock,      \* logical_clock
    past,       \* past[p][q]: the last stamp of q in the causal past of p's last
                \* event, Never if there is none (a history variable)
    inbox,      \* the connections that a process has not served yet
    out,        \* the connection that the input thread is busy with
    restarts

vars == <<clock, past, inbox, out, restarts>>

Never == -1
Stamps == Int
Pasts == [Processes -> Stamps]
Nothing == [q \in Processes |-> Never]

\* A connection: "open" until the message arrives ("sent") or the sender is
\* gone ("eof").
Connections == [from : Processes, state : {"open", "sent", "eof"}, stamp : Stamps, past : Pasts]
NoPort == [pc |-> "idle", dest |-> NoProcess, stamp |-> Never, past |-> Nothing]

Init ==
    /\ clock \in [Processes -> InitialClocks]
    /\ past = [p \in Processes |-> [Nothing EXCEPT ![p] = clock[p]]]
    /\ inbox = [p \in Processes |-> <<>>]
    /\ out = [p \in Processes |-> NoPort]
    /\ restarts = 0

max(a, b) == IF a > b THEN a ELSE b

\* The next event of p, with stamp c, after everything in before.
Event(p, c, before) ==
    /\ clock' = [clock EXCEPT ![p] = c]
    /\ past' = [past EXCEPT ![p] = [before EXCEPT ![p] = c]]

-----------------------------------------------------------------------------
\* Mutant: the clock overflows at its bound.
TickWraps(p) ==
    /\ Event(p, IF clock[p] < MaxClock THEN clock[p] + 1 ELSE -MaxClock - 1, past[p])
    /\ UNCHANGED <<inbox, out, restarts>>

\* clock_thread
Tick(p) ==
    /\ clock[p] < MaxClock
    /\ Event(p, clock[p] + 1, past[p])
    /\ UNCHANGED <<inbox, out, restarts>>

\* input_thread reads a port and connects; connect waits while the backlog is full.
Connect(p, q) ==
    /\ out[p].pc = "idle" /\ clock[p] < MaxClock
    /\ Len(inbox[q]) < Backlog
    /\ inbox' = [inbox EXCEPT ![q] =
            Append(@, [from |-> p, state |-> "open", stamp |-> Never, past |-> Nothing])]
    /\ out' = [out EXCEPT ![p] = [NoPort EXCEPT !.pc = "connected", !.dest = q]]
    /\ UNCHANGED <<clock, past, restarts>>

\* Nobody listens on the port.
ConnectFails(p) == out[p].pc = "idle" /\ UNCHANGED vars

\* Under the mutex: the clock advances and the message is written.
Stamp(p) ==
    /\ out[p].pc = "connected"
    /\ Event(p, clock[p] + 1, past[p])
    /\ out' = [out EXCEPT ![p] = 
            [pc |-> "stamped", dest |-> @.dest, stamp |-> clock[p] + 1, past |-> past'[p]]]
    /\ UNCHANGED <<inbox, restarts>>

\* Mutant: the socket is closed before the message is sent.
ClosesFirst(p) ==
    /\ out[p].pc = "stamped"
    /\ inbox' = [inbox EXCEPT ![out[p].dest] = [k \in DOMAIN @ |->
            IF @[k].from = p /\ @[k].state = "open" THEN [@[k] EXCEPT !.state = "eof"] ELSE @[k]]]
    /\ out' = [out EXCEPT ![p] = NoPort]
    /\ UNCHANGED <<clock, past, restarts>>

\* The message is sent and the socket closed; it is lost when the receiver
\* has ended.
Send(p) ==
    /\ out[p].pc = "stamped"
    /\ inbox' = [inbox EXCEPT ![out[p].dest] = [k \in DOMAIN @ |->
            IF @[k].from = p /\ @[k].state = "open"
            THEN [from |-> p, state |-> "sent", stamp |-> out[p].stamp, past |-> out[p].past]
            ELSE @[k]]]
    /\ out' = [out EXCEPT ![p] = NoPort]
    /\ UNCHANGED <<clock, past, restarts>>

-----------------------------------------------------------------------------
\* Mutant: the receiver takes over the greater clock and does not count its
\* own event.
ReceiveWithoutEvent(m, c) == max(c, m.stamp)

\* The receiver's new clock.
ClockAfter(m, c) == max(c, m.stamp) + 1

\* What the receiver knows after it has read the message.
Merge(m, before) == [q \in Processes |-> max(before[q], m.past[q])]

\* server_thread: the first connection, whose message read has returned.
Receive(p) ==
    /\ inbox[p] # <<>>
    /\ LET m == Head(inbox[p])
       IN \/ /\ m.state = "sent"
             /\ Event(p, ClockAfter(m, clock[p]), Merge(m, past[p]))
          \/ /\ m.state = "eof"
             /\ UNCHANGED <<clock, past>>
    /\ inbox' = [inbox EXCEPT ![p] = Tail(@)]
    /\ UNCHANGED <<out, restarts>>

\* The process ends, with its connections, and is run again with another
\* initial clock.
Restart(p) ==
    /\ restarts < MaxRestarts
    /\ restarts' = restarts + 1
    /\ \E c \in InitialClocks : Event(p, c, Nothing)
    /\ inbox' = [q \in Processes |-> IF q = p THEN <<>> ELSE
            [k \in DOMAIN inbox[q] |->
                IF inbox[q][k].from = p /\ inbox[q][k].state = "open"
                THEN [inbox[q][k] EXCEPT !.state = "eof"] ELSE inbox[q][k]]]
    /\ out' = [out EXCEPT ![p] = NoPort]

Progress(p) == Stamp(p) \/ Send(p)

Next ==
    \E p \in Processes :
        \/ Tick(p) \/ ConnectFails(p) \/ Progress(p) \/ Receive(p) \/ Restart(p)
        \/ \E q \in Processes : Connect(p, q)

Spec == Init /\ [][Next]_vars

\* The threads of a running process go on; users need not send.
FairSpec == Spec /\ \A p \in Processes : WF_vars(Progress(p)) /\ WF_vars(Receive(p))

-----------------------------------------------------------------------------
Outs == [pc : {"idle", "connected", "stamped"}, dest : Processes \cup {NoProcess},
         stamp : Stamps, past : Pasts]

TypeOK ==
    /\ clock \in [Processes -> Nat]
    /\ past \in [Processes -> Pasts]
    /\ inbox \in [Processes -> Seq(Connections)]
    /\ out \in [Processes -> Outs]
    /\ restarts \in 0..MaxRestarts

(***************************************************************************)
(* The clock condition: the last event of p has a greater stamp than every *)
(* event of another process that happened before it, through any chain of  *)
(* messages, and whatever was restarted meanwhile.                         *)
(***************************************************************************)
ClockCondition ==
    \A p \in Processes : \A q \in Processes \ {p} : past[p][q] < clock[p]

(***************************************************************************)
(* A stamp that is sent covers all that its sender knew when it was taken; *)
(* ticks and receptions between Stamp and Send change neither.             *)
(***************************************************************************)
StampsCoverTheirPast ==
    /\ \A p \in Processes : \A q \in Processes : out[p].past[q] <= out[p].stamp
    /\ \A p \in Processes : \A k \in DOMAIN inbox[p] : \A q \in Processes :
            inbox[p][k].past[q] <= inbox[p][k].stamp

\* p has stamped a message for q, on a connection that q has not lost.
Underway(p, q, n) ==
    /\ out[p].pc = "stamped" /\ out[p].dest = q /\ out[p].stamp = n
    /\ \E k \in DOMAIN inbox[q] : inbox[q][k].from = p /\ inbox[q][k].state = "open"

(***************************************************************************)
(* Once no process ends any more, a message that was stamped is received,  *)
(* unless its connection was lost before: the server thread, which waits   *)
(* in read for the first connection, is never kept from the others for     *)
(* good, neither by what restarts have left in the backlog nor by          *)
(* processes that send to each other or to themselves.                     *)
(***************************************************************************)
MessagesArrive ==
    \A p, q \in Processes : \A n \in 0..MaxStamp :
        Underway(p, q, n) /\ restarts = MaxRestarts ~> past[q][p] >= n
=============================================================================
