--------------------------- MODULE LamportProofs ---------------------------
(***************************************************************************)
(* The clock condition of Lamport, for any number of processes, any        *)
(* initial clocks and any bounds.                                          *)
(***************************************************************************)
EXTENDS Lamport, SequenceTheorems, TLAPS

\* Messages whose stamp covers their past.
Covering == {m \in Connections : \A q \in Processes : m.past[q] <= m.stamp}

(***************************************************************************)
(* The inductive invariant: no process knows of a stamp greater than its   *)
(* own clock, and no message of one greater than its own stamp.            *)
(***************************************************************************)
KnowsNothingLater == \A p, q \in Processes : past[p][q] <= clock[p]
InboxesCover == inbox \in [Processes -> Seq(Covering)]
OutsCover == \A p, q \in Processes : out[p].past[q] <= out[p].stamp

Inv == TypeOK /\ KnowsNothingLater /\ ClockCondition /\ InboxesCover /\ OutsCover

-----------------------------------------------------------------------------
\* A message or a connection that is replaced in an inbox leaves a sequence.
LEMMA RewrittenSeq ==
    ASSUME NEW S, NEW s \in Seq(S), NEW t,
           t = [k \in DOMAIN s |-> t[k]],
           \A k \in DOMAIN s : t[k] \in S
    PROVE  t \in Seq(S) /\ DOMAIN t = DOMAIN s
<1>1. Len(s) \in Nat /\ DOMAIN s = 1..Len(s)  OBVIOUS
<1>2. t \in [1..Len(s) -> S]  BY <1>1
<1> QED  BY <1>1, <1>2, SeqDef

\* Nothing is a past.
LEMMA NothingIsPast == Nothing \in Pasts /\ NoPort \in Outs
<1>1. Never \in Stamps  BY DEF Never, Stamps
<1> QED  BY <1>1, ClockAssumption DEF Nothing, Pasts, NoPort, Outs

\* A process without a message knows of nothing, and NoPort carries nothing.
LEMMA NothingIsEarly ==
    /\ Never = -1
    /\ \A q \in Processes : Nothing[q] = Never
    /\ \A q \in Processes : NoPort.past[q] <= NoPort.stamp
<1>1. \A q \in Processes : Nothing[q] = Never  BY DEF Nothing
<1>2. NoPort.past = Nothing /\ NoPort.stamp = Never  BY DEF NoPort
<1>3. Never = -1  BY DEF Never
<1>4. Never <= Never  BY <1>3
<1> QED  BY <1>1, <1>2, <1>3, <1>4

\* What an event of p does to the clocks and to the pasts.
LEMMA EventType ==
    ASSUME TypeOK, NEW p \in Processes, NEW c \in Nat, NEW before \in Pasts,
           Event(p, c, before)
    PROVE  /\ clock' \in [Processes -> Nat]
           /\ past' \in [Processes -> Pasts]
           /\ past'[p] \in Pasts
           /\ clock'[p] = c
           /\ \A q \in Processes \ {p} : clock'[q] = clock[q] /\ past'[q] = past[q]
           /\ past'[p][p] = c
           /\ \A q \in Processes \ {p} : past'[p][q] = before[q]
<1>1. [before EXCEPT ![p] = c] \in Pasts  BY DEF Pasts, Stamps
<1> QED  BY <1>1 DEF Event, TypeOK, Pasts

\* An event later than all it knows of keeps the processes' part of Inv.
LEMMA EventKeepsOrder ==
    ASSUME Inv, NEW p \in Processes, NEW c \in Nat, NEW before \in Pasts,
           Event(p, c, before), \A q \in Processes : before[q] < c
    PROVE  (KnowsNothingLater /\ ClockCondition)'
<1>1. TypeOK  BY DEF Inv
<1>2. /\ clock'[p] = c
      /\ \A q \in Processes \ {p} : clock'[q] = clock[q] /\ past'[q] = past[q]
      /\ past'[p][p] = c
      /\ \A q \in Processes \ {p} : past'[p][q] = before[q]
  BY <1>1, EventType
<1>3. \A q \in Processes : before[q] \in Int  BY DEF Pasts, Stamps
<1>4. KnowsNothingLater'
  <2> SUFFICES ASSUME NEW r \in Processes, NEW q \in Processes PROVE past'[r][q] <= clock'[r]
    BY DEF KnowsNothingLater
  <2>1. CASE r = p
    BY <2>1, <1>2, <1>3
  <2>2. CASE r # p
    BY <2>2, <1>2 DEF Inv, KnowsNothingLater
  <2> QED BY <2>1, <2>2
<1>5. ClockCondition'
  <2> SUFFICES ASSUME NEW r \in Processes, NEW q \in Processes \ {r} PROVE past'[r][q] < clock'[r]
    BY DEF ClockCondition
  <2>1. CASE r = p
    BY <2>1, <1>2, <1>3
  <2>2. CASE r # p
    BY <2>2, <1>2 DEF Inv, ClockCondition
  <2> QED BY <2>1, <2>2
<1> QED  BY <1>4, <1>5

\* The messages' part of Inv gives the property that the runs check.
LEMMA CoveringInboxes == Inv => StampsCoverTheirPast
<1> SUFFICES ASSUME Inv PROVE StampsCoverTheirPast  OBVIOUS
<1>1. ASSUME NEW p \in Processes, NEW k \in DOMAIN inbox[p] PROVE inbox[p][k] \in Covering
  <2>1. inbox[p] \in Seq(Covering)  BY DEF Inv, InboxesCover
  <2> QED  BY <2>1, LenProperties, ElementOfSeq
<1> QED  BY <1>1 DEF Inv, OutsCover, StampsCoverTheirPast, Covering

-----------------------------------------------------------------------------
\* Inv holds in the initial states.
LEMMA InitInv == Init => Inv
<1> SUFFICES ASSUME Init PROVE Inv  OBVIOUS
<1> USE ClockAssumption
<1>1. clock \in [Processes -> Nat]  BY DEF Init
<1>2. ASSUME NEW p \in Processes
      PROVE /\ past[p] \in Pasts /\ past[p][p] = clock[p]
            /\ \A q \in Processes \ {p} : past[p][q] = Never
  BY <1>1, NothingIsPast DEF Init, Pasts, Stamps, Nothing
<1>3. past \in [Processes -> Pasts]  BY <1>2 DEF Init
<1>4. \A p, q \in Processes : clock[p] \in Nat /\ (q = p \/ past[p][q] = -1)
  BY <1>1, <1>2 DEF Never
<1>5. KnowsNothingLater /\ ClockCondition
  BY <1>2, <1>4 DEF KnowsNothingLater, ClockCondition
<1>6. InboxesCover /\ inbox \in [Processes -> Seq(Connections)]
  BY EmptySeq DEF Init, InboxesCover
<1>7. out \in [Processes -> Outs]  BY NothingIsPast DEF Init
<1>8. OutsCover  BY NothingIsEarly DEF Init, OutsCover
<1>9. restarts \in 0..MaxRestarts  BY DEF Init
<1> QED  BY <1>1, <1>3, <1>5, <1>6, <1>7, <1>8, <1>9 DEF Inv, TypeOK

\* A step that leaves the inboxes covering leaves them well typed.
LEMMA CoveringIsTyped == InboxesCover' => inbox' \in [Processes -> Seq(Connections)]
<1> SUFFICES ASSUME InboxesCover' PROVE inbox' \in [Processes -> Seq(Connections)]  OBVIOUS
<1>1. Covering \subseteq Connections  BY DEF Covering
<1>2. \A p \in Processes : inbox'[p] \in Seq(Connections)
  BY <1>1, SeqMonotonic DEF InboxesCover
<1> QED  BY <1>2 DEF InboxesCover

\* Every event of the three threads is later than all it knows of.
LEMMA NextEvent ==
    ASSUME Inv, NEW p \in Processes
    PROVE  /\ clock[p] \in Nat /\ past[p] \in Pasts
           /\ \A q \in Processes : past[p][q] \in Int /\ past[p][q] < clock[p] + 1
<1>1. clock[p] \in Nat /\ past[p] \in Pasts  BY DEF Inv, TypeOK
<1>2. \A q \in Processes : past[p][q] \in Int /\ past[p][q] <= clock[p]
  BY <1>1 DEF Inv, KnowsNothingLater, Pasts, Stamps
<1> QED  BY <1>1, <1>2

\* clock_thread keeps Inv.
LEMMA TickInv == ASSUME Inv, NEW p \in Processes, Tick(p) PROVE Inv'
<1>1. Event(p, clock[p] + 1, past[p])  BY DEF Tick
<1>2. clock[p] + 1 \in Nat /\ past[p] \in Pasts  BY NextEvent
<1>3. (KnowsNothingLater /\ ClockCondition)'  BY <1>1, <1>2, NextEvent, EventKeepsOrder
<1>4. clock' \in [Processes -> Nat] /\ past' \in [Processes -> Pasts]
  BY <1>1, <1>2, EventType DEF Inv
<1>5. TypeOK'  BY <1>4 DEF Inv, TypeOK, Tick
<1>6. (InboxesCover /\ OutsCover)'  BY DEF Inv, InboxesCover, OutsCover, Tick
<1> QED  BY <1>3, <1>5, <1>6 DEF Inv

\* A new connection carries nothing yet.
LEMMA ConnectInv == ASSUME Inv, NEW p \in Processes, NEW q \in Processes, Connect(p, q) PROVE Inv'
<1> DEFINE m == [from |-> p, state |-> "open", stamp |-> Never, past |-> Nothing]
           o == [NoPort EXCEPT !.pc = "connected", !.dest = q]
<1>1. m \in Covering
  BY NothingIsPast DEF Covering, Connections, Stamps, Never, Nothing
<1>2. inbox[q] \in Seq(Covering)  BY DEF Inv, InboxesCover
<1>3. Append(inbox[q], m) \in Seq(Covering)  BY <1>1, <1>2
<1>4. inbox' = [inbox EXCEPT ![q] = Append(inbox[q], m)]  BY DEF Connect
<1>5. InboxesCover'
  <2> HIDE DEF m
  <2> QED  BY <1>3, <1>4 DEF Inv, InboxesCover
<1>6. o \in Outs /\ \A r \in Processes : o.past[r] <= o.stamp
  <2>1. o.past = NoPort.past /\ o.stamp = NoPort.stamp  BY DEF NoPort
  <2>2. o \in Outs  BY NothingIsPast DEF Outs, NoPort
  <2> QED  BY <2>1, <2>2, NothingIsEarly
<1>7. out' = [out EXCEPT ![p] = o]  BY DEF Connect
<1>8. out' \in [Processes -> Outs] /\ OutsCover'
  <2> HIDE DEF o
  <2>1. out \in [Processes -> Outs]  BY DEF Inv, TypeOK
  <2> QED  BY <1>6, <1>7, <2>1 DEF Inv, OutsCover
<1>9. UNCHANGED <<clock, past, restarts>>  BY DEF Connect
<1>10. TypeOK'  BY <1>5, <1>8, <1>9, CoveringIsTyped DEF Inv, TypeOK
<1>11. (KnowsNothingLater /\ ClockCondition)'
  BY <1>9 DEF Inv, KnowsNothingLater, ClockCondition
<1> QED  BY <1>5, <1>8, <1>10, <1>11 DEF Inv

\* The stamp is the clock of the event, and so covers its past.
LEMMA StampInv == ASSUME Inv, NEW p \in Processes, Stamp(p) PROVE Inv'
<1> DEFINE o == [pc |-> "stamped", dest |-> out[p].dest, stamp |-> clock[p] + 1, past |-> past'[p]]
<1>1. Event(p, clock[p] + 1, past[p]) /\ out' = [out EXCEPT ![p] = o]  BY DEF Stamp
<1>2. clock[p] + 1 \in Nat /\ past[p] \in Pasts  BY NextEvent
<1>3. (KnowsNothingLater /\ ClockCondition)'  BY <1>1, <1>2, NextEvent, EventKeepsOrder
<1>4. /\ clock' \in [Processes -> Nat] /\ past' \in [Processes -> Pasts]
      /\ past'[p] \in Pasts /\ clock'[p] = clock[p] + 1
  BY <1>1, <1>2, EventType DEF Inv
<1>5. out[p] \in Outs /\ out \in [Processes -> Outs]  BY DEF Inv, TypeOK
<1>6. o \in Outs /\ \A r \in Processes : o.past[r] <= o.stamp
  <2>1. \A r \in Processes : past'[p][r] <= clock[p] + 1
    BY <1>3, <1>4 DEF KnowsNothingLater
  <2>2. o.past = past'[p] /\ o.stamp = clock[p] + 1  OBVIOUS
  <2>3. o \in Outs  BY <1>2, <1>4, <1>5 DEF Outs, Stamps
  <2> QED  BY <2>1, <2>2, <2>3
<1>7. out' \in [Processes -> Outs] /\ OutsCover'
  <2> HIDE DEF o
  <2> QED  BY <1>1, <1>5, <1>6 DEF Inv, OutsCover
<1>8. UNCHANGED <<inbox, restarts>>  BY DEF Stamp
<1>9. TypeOK'  BY <1>4, <1>7, <1>8 DEF Inv, TypeOK
<1>10. InboxesCover'  BY <1>8 DEF Inv, InboxesCover
<1> QED  BY <1>3, <1>7, <1>9, <1>10 DEF Inv

\* The message arrives as it was written.
LEMMA SendInv == ASSUME Inv, NEW p \in Processes, Send(p) PROVE Inv'
<1> DEFINE d == out[p].dest
           m == [from |-> p, state |-> "sent", stamp |-> out[p].stamp, past |-> out[p].past]
           t == [k \in DOMAIN inbox[d] |->
                    IF inbox[d][k].from = p /\ inbox[d][k].state = "open" THEN m ELSE inbox[d][k]]
<1>1. inbox' = [inbox EXCEPT ![d] = t] /\ out' = [out EXCEPT ![p] = NoPort]  BY DEF Send
<1>2. out[p] \in Outs  BY DEF Inv, TypeOK
<1>3. m \in Covering
  BY <1>2 DEF Inv, OutsCover, Covering, Connections, Outs
<1>4. InboxesCover'
  <2>1. ASSUME d \in Processes PROVE t \in Seq(Covering)
    <3>1. inbox[d] \in Seq(Covering)  BY <2>1 DEF Inv, InboxesCover
    <3>2. \A k \in DOMAIN inbox[d] : inbox[d][k] \in Covering
      BY <3>1, LenProperties, ElementOfSeq
    <3>3. \A k \in DOMAIN inbox[d] : t[k] \in Covering  BY <1>3, <3>2
    <3>4. t = [k \in DOMAIN inbox[d] |-> t[k]]  OBVIOUS
    <3> HIDE DEF t
    <3> QED  BY <3>1, <3>3, <3>4, RewrittenSeq
  <2> HIDE DEF t, d
  <2> QED  BY <1>1, <2>1 DEF Inv, InboxesCover
<1>5. out' \in [Processes -> Outs] /\ OutsCover'
  <2>1. \A q \in Processes : NoPort.past[q] <= NoPort.stamp  BY NothingIsEarly
  <2>2. out \in [Processes -> Outs]  BY DEF Inv, TypeOK
  <2> QED  BY <1>1, <2>1, <2>2, NothingIsPast DEF Inv, OutsCover
<1>6. UNCHANGED <<clock, past, restarts>>  BY DEF Send
<1>7. TypeOK'  BY <1>4, <1>5, <1>6, CoveringIsTyped DEF Inv, TypeOK
<1>8. (KnowsNothingLater /\ ClockCondition)'
  BY <1>6 DEF Inv, KnowsNothingLater, ClockCondition
<1> QED  BY <1>4, <1>5, <1>7, <1>8 DEF Inv

\* The receiver's new clock is greater than its own past and the message's.
LEMMA ReceiveInv == ASSUME Inv, NEW p \in Processes, Receive(p) PROVE Inv'
<1> DEFINE m == Head(inbox[p])
<1>1. inbox[p] \in Seq(Covering) /\ inbox[p] # <<>>  BY DEF Inv, InboxesCover, Receive
<1>2. m \in Covering /\ Tail(inbox[p]) \in Seq(Covering)  BY <1>1, HeadTailProperties
<1>3. inbox' = [inbox EXCEPT ![p] = Tail(inbox[p])] /\ UNCHANGED <<out, restarts>>
  BY DEF Receive
<1>4. InboxesCover'  BY <1>2, <1>3 DEF Inv, InboxesCover
<1>5. OutsCover'  BY <1>3 DEF Inv, OutsCover
<1>6. /\ clock' \in [Processes -> Nat] /\ past' \in [Processes -> Pasts]
      /\ (KnowsNothingLater /\ ClockCondition)'
  <2>1. CASE UNCHANGED <<clock, past>>
    BY <2>1 DEF Inv, TypeOK, KnowsNothingLater, ClockCondition
  <2>2. CASE Event(p, ClockAfter(m, clock[p]), Merge(m, past[p]))
    <3>1. /\ clock[p] \in Nat /\ past[p] \in Pasts /\ m.stamp \in Int /\ m.past \in Pasts
      BY <1>2, NextEvent DEF Covering, Connections, Stamps
    <3>2. \A q \in Processes : /\ past[p][q] \in Int /\ past[p][q] <= clock[p]
                                /\ m.past[q] \in Int /\ m.past[q] <= m.stamp
      BY <1>2, <3>1 DEF Inv, KnowsNothingLater, Covering, Pasts, Stamps
    <3> HIDE DEF m
    <3>3. ClockAfter(m, clock[p]) \in Nat  BY <3>1 DEF ClockAfter, max
    <3>4. Merge(m, past[p]) \in Pasts  BY <3>2 DEF Merge, Pasts, Stamps, max
    <3>5. \A q \in Processes : Merge(m, past[p])[q] < ClockAfter(m, clock[p])
      <4> SUFFICES ASSUME NEW q \in Processes
                   PROVE max(past[p][q], m.past[q]) < max(clock[p], m.stamp) + 1
        BY DEF Merge, ClockAfter
      <4>1. /\ past[p][q] \in Int /\ past[p][q] <= clock[p]
            /\ m.past[q] \in Int /\ m.past[q] <= m.stamp
        BY <3>2
      <4> QED  BY <3>1, <4>1 DEF max
    <3> QED  BY <2>2, <3>3, <3>4, <3>5, EventType, EventKeepsOrder DEF Inv
  <2> QED  BY <2>1, <2>2 DEF Receive
<1>7. TypeOK'  BY <1>3, <1>4, <1>6, CoveringIsTyped DEF Inv, TypeOK
<1> QED  BY <1>4, <1>5, <1>6, <1>7 DEF Inv

\* A process that starts again knows nothing; what it has sent still covers
\* its past.
LEMMA RestartInv == ASSUME Inv, NEW p \in Processes, Restart(p) PROVE Inv'
<1>1. PICK c \in InitialClocks : Event(p, c, Nothing)  BY DEF Restart
<1>2. c \in Nat /\ Nothing \in Pasts  BY ClockAssumption, NothingIsPast
<1>3. \A q \in Processes : Nothing[q] < c  
  <2>1. -1 < c  BY <1>2
  <2> QED  BY <2>1, NothingIsEarly
<1>4. /\ clock' \in [Processes -> Nat] /\ past' \in [Processes -> Pasts]
      /\ (KnowsNothingLater /\ ClockCondition)'
  BY <1>1, <1>2, <1>3, EventType, EventKeepsOrder DEF Inv
<1> DEFINE t(q) == [k \in DOMAIN inbox[q] |->
                IF inbox[q][k].from = p /\ inbox[q][k].state = "open"
                THEN [inbox[q][k] EXCEPT !.state = "eof"] ELSE inbox[q][k]]
<1>5. inbox' = [q \in Processes |-> IF q = p THEN <<>> ELSE t(q)] /\ out' = [out EXCEPT ![p] = NoPort]
  BY DEF Restart
<1>6. ASSUME NEW q \in Processes PROVE t(q) \in Seq(Covering)
  <2>1. inbox[q] \in Seq(Covering)  BY DEF Inv, InboxesCover
  <2>2. \A k \in DOMAIN inbox[q] : inbox[q][k] \in Covering
    BY <2>1, LenProperties, ElementOfSeq
  <2>3. \A m \in Covering : [m EXCEPT !.state = "eof"] \in Covering
    BY DEF Covering, Connections
  <2>4. \A k \in DOMAIN inbox[q] : t(q)[k] \in Covering  BY <2>2, <2>3
  <2>5. t(q) = [k \in DOMAIN inbox[q] |-> t(q)[k]]  OBVIOUS
  <2> HIDE DEF t
  <2> QED  BY <2>1, <2>4, <2>5, RewrittenSeq
<1>7. InboxesCover'
  <2> HIDE DEF t
  <2> QED  BY <1>5, <1>6, EmptySeq DEF InboxesCover
<1>8. out' \in [Processes -> Outs] /\ OutsCover'
  <2>1. \A q \in Processes : NoPort.past[q] <= NoPort.stamp  BY NothingIsEarly
  <2>2. out \in [Processes -> Outs]  BY DEF Inv, TypeOK
  <2> QED  BY <1>5, <2>1, <2>2, NothingIsPast DEF Inv, OutsCover
<1>9. restarts' \in 0..MaxRestarts
  BY ClockAssumption DEF Restart, Inv, TypeOK
<1>10. TypeOK'  BY <1>4, <1>7, <1>8, <1>9, CoveringIsTyped DEF TypeOK
<1> QED  BY <1>4, <1>7, <1>8, <1>10 DEF Inv

\* Inv is inductive.
LEMMA NextInv == Inv /\ [Next]_vars => Inv'
<1> SUFFICES ASSUME Inv, [Next]_vars PROVE Inv'  OBVIOUS
<1>1. ASSUME NEW p \in Processes, Tick(p) PROVE Inv'  BY <1>1, TickInv
<1>2. ASSUME NEW p \in Processes, NEW q \in Processes, Connect(p, q) PROVE Inv'
  BY <1>2, ConnectInv
<1>3. ASSUME NEW p \in Processes, Stamp(p) PROVE Inv'  BY <1>3, StampInv
<1>4. ASSUME NEW p \in Processes, Send(p) PROVE Inv'  BY <1>4, SendInv
<1>5. ASSUME NEW p \in Processes, Receive(p) PROVE Inv'  BY <1>5, ReceiveInv
<1>6. ASSUME NEW p \in Processes, Restart(p) PROVE Inv'  BY <1>6, RestartInv
<1>7. CASE UNCHANGED vars
  BY <1>7 DEF vars, Inv, TypeOK, KnowsNothingLater, ClockCondition, InboxesCover, OutsCover
<1> QED  BY <1>1, <1>2, <1>3, <1>4, <1>5, <1>6, <1>7 DEF Next, Progress, ConnectFails

(***************************************************************************)
(* Lamport's clock condition holds for proceso.c: an event has a greater   *)
(* stamp than every event of another process that happened before it.      *)
(***************************************************************************)
THEOREM HappenedBefore == Spec => []ClockCondition
<1>1. Inv => ClockCondition  BY DEF Inv
<1> QED  BY InitInv, NextInv, <1>1, PTL DEF Spec

(***************************************************************************)
(* A message's stamp covers all that its sender knew when it was taken,    *)
(* whatever the other threads do before it is sent and received.           *)
(***************************************************************************)
THEOREM CoveredPasts == Spec => []StampsCoverTheirPast
<1> QED  BY InitInv, NextInv, CoveringInboxes, PTL DEF Spec

(***************************************************************************)
(* The variables keep their types; a clock never becomes negative.         *)
(***************************************************************************)
THEOREM TypeCorrect == Spec => []TypeOK
<1>1. Inv => TypeOK  BY DEF Inv
<1> QED  BY InitInv, NextInv, <1>1, PTL DEF Spec
=============================================================================
