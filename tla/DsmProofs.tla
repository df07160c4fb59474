----------------------------- MODULE DsmProofs -----------------------------
(***************************************************************************)
(* Proofs about Dsm for any number of sessions, pages, descriptors and     *)
(* texts, any page size and any choice of the faults.                      *)
(***************************************************************************)
EXTENDS Dsm, FiniteSetTheorems, TLAPS

\* The places of a thread that has passed handle_client's dispatch and has
\* not finished, and of one that has passed the check of the page number.
Serving == {"read", "lock", "wait", "grant", "write", "copy"}
InTable == {"wait", "grant", "write", "copy"}

\* An open descriptor belongs to one thread.
LiveFds ==
    /\ \A s \in Sessions : tpc[s] = "none" <=> fd[s] = NoFd
    /\ \A s, t \in Sessions : fd[s] = fd[t] /\ fd[s] # NoFd => s = t

\* A thread has its end of the connection open.
ThreadsAreConnected == \A s \in Sessions : tpc[s] # "none" => "server" \in sock[s]

\* All that passes in a session is about the page of its command line.
OnePagePerSession ==
    \A s \in Sessions :
        /\ \A i \in DOMAIN c2s[s] : c2s[s][i].page = cpage[s]
        /\ tpc[s] \in Serving => tpage[s] = cpage[s]
        /\ tpc[s] \in InTable => tpage[s] \in Pages

\* A running program has a page number.
ClientsHavePage == \A s \in Sessions : cpc[s] # "idle" => cpage[s] \in PageNums

\* Who is inside write_page's critical section is the head of the queue.
WritersAtHead == \A s \in Sessions : tpc[s] = "copy" => AtHead(s, tpage[s])

TableInv ==
    /\ TypeOK
    /\ LiveFds
    /\ ThreadsAreConnected
    /\ OnePagePerSession
    /\ ClientsHavePage
    /\ WritersAtHead
    /\ FreePageHasNoQueue

-----------------------------------------------------------------------------
\* What the operators of the protocol build has the type of what is sent.
LEMMA ConstantTypes ==
    /\ Blank \in Bodies /\ ErrorText \in Bodies
    /\ \A b \in Bodies : Stored(b) \in Bodies
    /\ \A b, c \in Bodies : Torn(b, c) \in Bodies
    /\ \A cmd \in {"content", "wait", "done", "raw", "error"}, b \in Bodies :
            Reply(cmd, b) \in Replies
    /\ \A cmd \in {"read", "lock", "write"}, p \in PageNums, b \in Bodies :
            Request(cmd, p, b) \in Requests
<1>1. Blank \in Bodies /\ ErrorText \in Bodies
  BY DEF Bodies, Blank, ErrorText
<1>2. \A b \in Bodies : Stored(b) \in Bodies
  BY SizesAssumption DEF Bodies, Stored
<1>3. \A b, c \in Bodies : Torn(b, c) \in Bodies
  BY DEF Bodies, Torn
<1>4. \A cmd \in {"content", "wait", "done", "raw", "error"}, b \in Bodies :
            Reply(cmd, b) \in Replies
  BY DEF Replies, Reply
<1>5. \A cmd \in {"read", "lock", "write"}, p \in PageNums, b \in Bodies :
            Request(cmd, p, b) \in Requests
  BY DEF Requests, Request
<1>. QED BY <1>1, <1>2, <1>3, <1>4, <1>5

\* What recv in the server returns, and what it leaves.
LEMMA ReceivedRequest ==
    ASSUME WireTypeOK, NEW s \in Sessions, c2s[s] # <<>>
    PROVE  /\ Head(c2s[s]) \in Requests
           /\ Head(c2s[s]) = c2s[s][1] /\ 1 \in DOMAIN c2s[s]
           /\ Tail(c2s[s]) \in Seq(Requests)
           /\ \A i \in DOMAIN Tail(c2s[s]) :
                i + 1 \in DOMAIN c2s[s] /\ Tail(c2s[s])[i] = c2s[s][i + 1]
BY DEF WireTypeOK

\* send keeps the type of the channel to the client.
LEMMA DeliverType ==
    ASSUME WireTypeOK, NEW s \in Sessions, NEW m \in Replies, Deliver(s, m)
    PROVE  s2c' \in [Sessions -> Seq(Replies)]
BY DEF WireTypeOK, Deliver

\* So does send_command, whether it succeeds or not.
LEMMA AnswerType ==
    ASSUME WireTypeOK, NEW s \in Sessions, NEW m \in Replies,
           SendCommand(s, m) \/ SendCommandFails(s, m) \/ UNCHANGED s2c
    PROVE  s2c' \in [Sessions -> Seq(Replies)]
BY DeliverType DEF WireTypeOK, SendCommand, SendCommandFails

\* add_to_queue puts an open descriptor into the queue.
LEMMA AddToQueueType ==
    ASSUME ServerTypeOK, LiveFds, NEW s \in Sessions, tpc[s] # "none",
           NEW p \in Pages, AddToQueue(p, s)
    PROVE  queue' \in [Pages -> Seq(Fds)]
<1>1. fd[s] \in Fds BY DEF ServerTypeOK, LiveFds
<1>2. Append(queue[p], fd[s]) \in Seq(Fds) BY <1>1 DEF ServerTypeOK
<1>. QED BY <1>2 DEF ServerTypeOK, AddToQueue

\* The initial states satisfy TableInv.
LEMMA InitTable == Init => TableInv
BY ConstantTypes, SizesAssumption, FdsAssumption
DEF Init, WireInit, ServerInit, TableInit, NoThreads, ClientInit, TableInv, TypeOK,
    WireTypeOK, ServerTypeOK, ClientTypeOK, LiveFds, ThreadsAreConnected,
    OnePagePerSession, ClientsHavePage, WritersAtHead, FreePageHasNoQueue, ThreadPCs, ClientPCs,
    Serving, InTable, NoFd, Pages, Ends

\* Every step of a thread of newServer.c keeps the types.
LEMMA ServerType ==
    ASSUME TableInv, NEW s \in Sessions, Server(s)
    PROVE  TypeOK'
<1> USE ConstantTypes, SizesAssumption, FdsAssumption
    DEF TableInv, TypeOK, WireTypeOK, ServerTypeOK, ClientTypeOK, Goto, ThreadPCs,
        tableVars, serverVars, wireVars, clientVars
<1>1. ClientTypeOK' BY DEF Server
<1>2. CASE Accept(s) BY <1>1, <1>2 DEF Accept, FreeFds
<1>3. CASE AcceptFails(s) BY <1>1, <1>3 DEF AcceptFails, ServerCloses
<1>4. CASE RecvCommand(s)
  <2>1. CASE c2s[s] # <<>>
    <3>1. /\ Head(c2s[s]).page \in PageNums
          /\ Head(c2s[s]).cmd \in {"read", "lock", "write"}
          /\ Tail(c2s[s]) \in Seq(Requests)
      BY <2>1, ReceivedRequest DEF Requests
    <3>2. c2s' \in [Sessions -> Seq(Requests)]
      <4>1. c2s' = [c2s EXCEPT ![s] = Tail(c2s[s])]
        BY <1>4, <2>1 DEF RecvCommand, ServerSeesEOF
      <4>. QED BY <3>1, <4>1
    <3>3. tpage' \in [Sessions -> PageNums \cup {NoPage}]
      BY <1>4, <2>1, <3>1 DEF RecvCommand, ServerSeesEOF
    <3>4. tpc' \in [Sessions -> ThreadPCs]
      <4>1. PICK pc \in {"read", "lock", "close"} : tpc' = [tpc EXCEPT ![s] = pc]
        BY <1>4, <3>1 DEF RecvCommand
      <4>. QED BY <4>1
    <3>. QED BY <1>1, <1>4, <3>2, <3>3, <3>4 DEF RecvCommand
  <2>2. CASE c2s[s] = <<>>
    BY <1>1, <1>4, <2>2 DEF RecvCommand
  <2>. QED BY <2>1, <2>2
<1>5. CASE ReadPage(s) BY <1>1, <1>5, DeliverType DEF ReadPage
<1>6. CASE ReadLockInvalid(s) BY <1>1, <1>6, DeliverType DEF ReadLockInvalid
<1>7. CASE ReadLockBusy(s)
  <2>1. s2c' \in [Sessions -> Seq(Replies)]
    BY <1>7, AnswerType DEF ReadLockBusy
  <2>2. queue' \in [Pages -> Seq(Fds)]
    BY <1>7, AddToQueueType DEF ReadLockBusy
  <2>. QED BY <1>1, <1>7, <2>1, <2>2 DEF ReadLockBusy
<1>8. CASE ReadLockFree(s)
  <2>1. Reply("content", mem[tpage[s]]) \in Replies
    BY <1>8 DEF ReadLockFree
  <2>2. s2c' \in [Sessions -> Seq(Replies)]
    BY <1>8, <2>1, AnswerType DEF ReadLockFree
  <2>3. queue' \in [Pages -> Seq(Fds)]
    BY <1>8, AddToQueueType DEF ReadLockFree
  <2>. QED BY <1>1, <1>8, <2>2, <2>3 DEF ReadLockFree
<1>9. CASE TakeTurn(s)
  <2>1. Reply("content", mem[tpage[s]]) \in Replies
    BY <1>9 DEF TakeTurn, OnePagePerSession, InTable
  <2>2. s2c' \in [Sessions -> Seq(Replies)]
    BY <1>9, <2>1, AnswerType DEF TakeTurn
  <2>. QED BY <1>1, <1>9, <2>2 DEF TakeTurn
<1>10. CASE RecvWrite(s)
  <2>1. CASE c2s[s] # <<>>
    <3>1. /\ Head(c2s[s]).page \in PageNums /\ Head(c2s[s]).body \in Bodies
          /\ Tail(c2s[s]) \in Seq(Requests)
      BY <2>1, ReceivedRequest DEF Requests
    <3>2. c2s' \in [Sessions -> Seq(Requests)]
      BY <1>10, <2>1, <3>1 DEF RecvWrite, ServerSeesEOF
    <3>3. tpage' \in [Sessions -> PageNums \cup {NoPage}] /\ tnew' \in [Sessions -> Bodies]
      BY <1>10, <2>1, <3>1 DEF RecvWrite
    <3>4. tpc' \in [Sessions -> ThreadPCs]
      BY <1>10 DEF RecvWrite
    <3>. QED BY <1>1, <1>10, <3>2, <3>3, <3>4 DEF RecvWrite
  <2>2. CASE c2s[s] = <<>>
    BY <1>1, <1>10, <2>2 DEF RecvWrite
  <2>. QED BY <2>1, <2>2
<1>11. CASE WriteRefused(s) BY <1>1, <1>11, DeliverType DEF WriteRefused
<1>12. CASE WriteBegin(s) BY <1>1, <1>12 DEF WriteBegin, Authorised
<1>13. CASE WriteEnd(s)
  <2>1. s2c' \in [Sessions -> Seq(Replies)]
    BY <1>13, AnswerType DEF WriteEnd
  <2>2. queue' \in [Pages -> Seq(Fds)]
    BY <1>13 DEF WriteEnd, WritersAtHead, AtHead, RemoveFromQueue, OnePagePerSession, InTable
  <2>. QED BY <1>1, <1>13, <2>1, <2>2 DEF WriteEnd, LockAfterWrite
<1>14. CASE CloseClient(s) BY <1>1, <1>14 DEF CloseClient, ServerCloses
<1>. QED BY <1>2, <1>3, <1>4, <1>5, <1>6, <1>7, <1>8, <1>9, <1>10, <1>11, <1>12, <1>13, <1>14
     DEF Server, ServerStep

\* What is left in a channel after recv took a first part of it.
LEMMA RestOfChannel ==
    ASSUME NEW S, NEW q \in Seq(S), NEW n \in Nat, n <= Len(q)
    PROVE  SubSeq(q, n + 1, Len(q)) \in Seq(S)
OBVIOUS

\* So does every step of the program client.c and of its user.
LEMMA ClientType ==
    ASSUME TableInv, NEW s \in Sessions, Run(s) \/ Client(s) \/ Interrupt(s)
    PROVE  TypeOK'
<1> USE ConstantTypes, SizesAssumption
    DEF TableInv, TypeOK, WireTypeOK, ServerTypeOK, ClientTypeOK, ClientPCs, serverVars
<1>1. ServerTypeOK' BY DEF Run, Client, Interrupt
<1>2. ASSUME Exit(s), UNCHANGED c2s PROVE TypeOK'
  BY <1>1, <1>2 DEF Exit, ClientCloses
<1>3. CASE Run(s)
  <2>1. PICK p \in PageNums, cmd \in {"read", "lock"} :
            c2s' = [c2s EXCEPT ![s] = <<Request(cmd, p, Blank)>>] /\ cpage' = [cpage EXCEPT ![s] = p]
    BY <1>3 DEF Run, StartRead, StartWrite, Start
  <2>2. c2s' \in [Sessions -> Seq(Requests)]
    BY <2>1
  <2>3. /\ s2c' = [s2c EXCEPT ![s] = <<>>] /\ sock' = [sock EXCEPT ![s] = Ends]
        /\ cpc' \in [Sessions -> ClientPCs] /\ seen' \in [Sessions -> Bodies]
    BY <1>3 DEF Run, StartRead, StartWrite, Start
  <2>4. cpage' \in [Sessions -> PageNums \cup {NoPage}] BY <2>1
  <2>5. s2c' \in [Sessions -> Seq(Replies)] BY <2>3
  <2>6. sock' \in [Sessions -> SUBSET Ends] BY <2>3
  <2>. QED BY <1>1, <2>2, <2>3, <2>4, <2>5, <2>6
<1>4. CASE RecvPage(s) BY <1>2, <1>4 DEF RecvPage
<1>5. CASE RecvLockReply(s)
  <2>1. CASE Exit(s) BY <1>2, <1>5, <2>1 DEF RecvLockReply
  <2>2. CASE ~Exit(s)
    <3>1. PICK n \in RecvCounts(s) :
                /\ s2c' = [s2c EXCEPT ![s] = SubSeq(s2c[s], n + 1, Len(s2c[s]))]
                /\ \/ seen' = [seen EXCEPT ![s] = s2c[s][1].body]
                   \/ seen' = [seen EXCEPT ![s] = seen[s]]
      BY <1>5, <2>2 DEF RecvLockReply
    <3>2. n \in Nat /\ 1 <= n /\ n <= Len(s2c[s])
      BY <3>1 DEF RecvCounts
    <3>3. s2c' \in [Sessions -> Seq(Replies)]
      BY <3>1, <3>2, RestOfChannel
    <3>4. s2c[s][1].body \in Bodies
      <4>1. 1 \in 1 .. Len(s2c[s]) BY <3>2
      <4>2. s2c[s][1] \in Replies BY <4>1
      <4>. QED BY <4>2 DEF Replies
    <3>5. seen' \in [Sessions -> Bodies]
      BY <3>1, <3>4
    <3>. QED BY <1>1, <1>5, <2>2, <3>3, <3>5 DEF RecvLockReply
  <2>. QED BY <2>1, <2>2
<1>6. CASE Submit(s)
  <2>1. PICK b \in Typed :
            \/ /\ Post(s, Request("write", cpage[s], b))
               /\ cpc' = [cpc EXCEPT ![s] = "confirm"]
               /\ UNCHANGED <<sock, s2c, cpage, seen>>
            \/ Exit(s) /\ UNCHANGED c2s
    BY <1>6 DEF Submit
  <2>2. CASE Exit(s) /\ UNCHANGED c2s BY <1>2, <2>2
  <2>3. CASE Post(s, Request("write", cpage[s], b)) /\ UNCHANGED <<sock, s2c, cpage, seen>>
    <3>1. Request("write", cpage[s], b) \in Requests
      BY <1>6 DEF Submit, ClientsHavePage, Bodies
    <3>2. c2s' \in [Sessions -> Seq(Requests)]
      BY <2>3, <3>1 DEF Post
    <3>. QED BY <1>1, <2>1, <2>3, <3>2 DEF Exit
  <2>. QED BY <2>1, <2>2, <2>3
<1>7. CASE RecvConfirm(s) BY <1>2, <1>7 DEF RecvConfirm
<1>8. CASE Interrupt(s) BY <1>2, <1>8 DEF Interrupt, Disconnect
<1>. QED BY <1>3, <1>4, <1>5, <1>6, <1>7, <1>8 DEF Client, ClientGoesOn

\* So does a restart of the server.
LEMMA RestartType ==
    ASSUME TableInv, Restart
    PROVE  TypeOK'
BY ConstantTypes DEF TableInv, TypeOK, WireTypeOK, ServerTypeOK, ClientTypeOK, Restart,
   CrashRestart, ServerCloses, ThreadPCs, clientVars

-----------------------------------------------------------------------------
\* Only accept gives a descriptor, and it gives one that nobody has.
LEMMA StepLiveFds ==
    ASSUME TableInv, Next
    PROVE  LiveFds'
<1> USE FdsAssumption DEF TableInv, TypeOK, ServerTypeOK, LiveFds, NoFd
<1>1. ASSUME NEW s \in Sessions, UNCHANGED fd, tpc[s] # "none",
             NEW pc \in ThreadPCs \ {"none"}, Goto(s, pc)
      PROVE  LiveFds'
  BY <1>1 DEF Goto
<1>2. ASSUME NEW s \in Sessions, Server(s) PROVE LiveFds'
  <2>1. CASE Accept(s)
    BY <2>1 DEF Accept, FreeFds, Goto
  <2>2. CASE AcceptFails(s)
    BY <2>2 DEF AcceptFails, serverVars
  <2>3. CASE RecvCommand(s)
    <3>1. CASE c2s[s] = <<>>
      BY <1>1, <2>3, <3>1 DEF RecvCommand, ThreadPCs
    <3>2. CASE c2s[s] # <<>>
      <4>1. Head(c2s[s]).cmd \in {"read", "lock", "write"}
        BY <3>2, ReceivedRequest DEF Requests
      <4>. QED BY <1>1, <2>3, <3>2, <4>1 DEF RecvCommand, ThreadPCs, ServerSeesEOF
    <3>. QED BY <3>1, <3>2
  <2>4. CASE CloseClient(s)
    BY <2>4 DEF CloseClient, Goto
  <2>5. CASE ReadPage(s) \/ ReadLockInvalid(s) \/ ReadLockBusy(s)
    BY <1>1, <2>5 DEF ReadPage, ReadLockInvalid, ReadLockBusy, ThreadPCs
  <2>6. CASE ReadLockFree(s) \/ TakeTurn(s)
    BY <1>1, <2>6 DEF ReadLockFree, TakeTurn, ThreadPCs
  <2>7. CASE RecvWrite(s)
    BY <1>1, <2>7 DEF RecvWrite, ThreadPCs
  <2>8. CASE WriteRefused(s) \/ WriteBegin(s) \/ WriteEnd(s)
    BY <1>1, <2>8 DEF WriteRefused, WriteBegin, WriteEnd, ThreadPCs
  <2>. QED BY <1>2, <2>1, <2>2, <2>3, <2>4, <2>5, <2>6, <2>7, <2>8 DEF Server, ServerStep
<1>3. ASSUME NEW s \in Sessions, Run(s) \/ Client(s) \/ Interrupt(s) PROVE LiveFds'
  BY <1>3 DEF Run, Client, Interrupt, serverVars
<1>4. CASE Restart
  BY <1>4 DEF Restart, CrashRestart
<1>. QED BY <1>2, <1>3, <1>4 DEF Next

\* A running program touches its own end of its connection and no other.
LEMMA ClientEnd ==
    ASSUME WireTypeOK, NEW s \in Sessions, Client(s) \/ Interrupt(s)
    PROVE  sock' = sock \/ sock' = [sock EXCEPT ![s] = @ \ {"client"}]
<1>1. CASE RecvPage(s) \/ RecvConfirm(s) \/ Interrupt(s)
  BY <1>1 DEF RecvPage, RecvConfirm, Interrupt, Disconnect, Exit, ClientCloses
<1>2. CASE RecvLockReply(s)
  BY <1>2 DEF RecvLockReply, Exit, ClientCloses
<1>3. CASE Submit(s)
  BY <1>3 DEF Submit, Exit, ClientCloses
<1>. QED BY <1>1, <1>2, <1>3 DEF Client, ClientGoesOn

\* Only close at the end of handle_client closes the server's end.
LEMMA StepThreadsAreConnected ==
    ASSUME TableInv, Next
    PROVE  ThreadsAreConnected'
<1> USE DEF TableInv, TypeOK, WireTypeOK, ServerTypeOK, ThreadsAreConnected
<1>1. ASSUME NEW s \in Sessions, Server(s) PROVE ThreadsAreConnected'
  <2>1. CASE CloseClient(s) \/ AcceptFails(s)
    BY <2>1 DEF CloseClient, AcceptFails, ServerCloses, Goto, serverVars
  <2>2. CASE ~(CloseClient(s) \/ AcceptFails(s))
    <3>1. sock' = sock /\ "server" \in sock[s]
      BY <1>1, <2>2 DEF Server, ServerStep, Accept, RecvCommand, ReadPage, ReadLockInvalid,
         ReadLockBusy, ReadLockFree, TakeTurn, RecvWrite, WriteRefused, WriteBegin, WriteEnd,
         wireVars
    <3>2. \A t \in Sessions \ {s} : tpc'[t] = tpc[t]
      BY <1>1 DEF Server, ServerStep, Accept, AcceptFails, RecvCommand, ReadPage, ReadLockInvalid,
         ReadLockBusy, ReadLockFree, TakeTurn, RecvWrite, WriteRefused, WriteBegin, WriteEnd,
         CloseClient, Goto, serverVars
    <3>. QED BY <3>1, <3>2
  <2>. QED BY <2>1, <2>2
<1>2. ASSUME NEW s \in Sessions, Run(s) \/ Client(s) \/ Interrupt(s)
      PROVE  ThreadsAreConnected'
  <2>1. UNCHANGED tpc
    BY <1>2 DEF Run, Client, Interrupt, serverVars
  <2>2. \A t \in Sessions : "server" \in sock[t] => "server" \in sock'[t]
    <3>1. CASE Run(s)
      BY <3>1 DEF Run, StartRead, StartWrite, Start, Ends
    <3>2. CASE Client(s) \/ Interrupt(s)
      <4>1. sock' = sock \/ sock' = [sock EXCEPT ![s] = @ \ {"client"}]
        BY <3>2, ClientEnd
      <4>. QED BY <4>1
    <3>. QED BY <1>2, <3>1, <3>2
  <2>. QED BY <2>1, <2>2
<1>3. CASE Restart
  BY <1>3 DEF Restart, CrashRestart
<1>. QED BY <1>1, <1>2, <1>3 DEF Next

\* A request in a channel came from the program on the other end, and the
\* thread takes its page number from there.
LEMMA StepOnePagePerSession ==
    ASSUME TableInv, Next
    PROVE  OnePagePerSession'
<1> USE DEF TableInv, TypeOK, WireTypeOK, ServerTypeOK, ClientTypeOK, OnePagePerSession
<1>1. ASSUME NEW s \in Sessions, UNCHANGED <<c2s, tpage, cpage>>,
             NEW pc \in ThreadPCs, Goto(s, pc),
             pc \in Serving => tpc[s] \in Serving,
             pc \in InTable => tpc[s] \in InTable \/ tpage[s] \in Pages
      PROVE  OnePagePerSession'
  BY <1>1 DEF Goto
<1>2. ASSUME NEW s \in Sessions, Server(s) PROVE OnePagePerSession'
  <2> USE DEF Serving, InTable, ThreadPCs, wireVars
  <2>0. UNCHANGED cpage BY <1>2 DEF Server, clientVars
  <2>1. CASE Accept(s) \/ ReadPage(s) \/ ReadLockInvalid(s)
    BY <1>1, <2>0, <2>1 DEF Accept, ReadPage, ReadLockInvalid
  <2>2. CASE AcceptFails(s)
    BY <2>0, <2>2 DEF AcceptFails, ServerCloses, serverVars
  <2>3. CASE RecvCommand(s)
    <3>1. CASE c2s[s] = <<>>
      BY <1>1, <2>0, <2>3, <3>1 DEF RecvCommand
    <3>2. CASE c2s[s] # <<>>
      <4>1. /\ Head(c2s[s]).page = cpage[s]
            /\ Head(c2s[s]).cmd \in {"read", "lock", "write"}
            /\ \A i \in DOMAIN Tail(c2s[s]) : Tail(c2s[s])[i].page = cpage[s]
        <5>1. Head(c2s[s]) \in Requests /\ Head(c2s[s]) = c2s[s][1] /\ 1 \in DOMAIN c2s[s]
          BY <3>2, ReceivedRequest
        <5>2. \A i \in DOMAIN Tail(c2s[s]) : Tail(c2s[s])[i].page = cpage[s]
          BY <3>2, ReceivedRequest
        <5>. QED BY <5>1, <5>2 DEF Requests
      <4>2. /\ tpage' = [tpage EXCEPT ![s] = cpage[s]]
            /\ c2s' = [c2s EXCEPT ![s] = Tail(c2s[s])]
            /\ tpc' = [tpc EXCEPT ![s] = "close"] \/ tpc' = [tpc EXCEPT ![s] = "read"]
                  \/ tpc' = [tpc EXCEPT ![s] = "lock"]
        BY <2>3, <3>2, <4>1 DEF RecvCommand, ServerSeesEOF, Goto
      <4>. QED BY <2>0, <4>1, <4>2
    <3>. QED BY <3>1, <3>2
  <2>4. CASE ReadLockBusy(s) \/ ReadLockFree(s) \/ TakeTurn(s)
    BY <1>1, <2>0, <2>4 DEF ReadLockBusy, ReadLockFree, TakeTurn
  <2>5. CASE RecvWrite(s)
    <3>1. CASE c2s[s] = <<>>
      BY <1>1, <2>0, <2>5, <3>1 DEF RecvWrite
    <3>2. CASE c2s[s] # <<>>
      <4>1. /\ Head(c2s[s]).page = cpage[s]
            /\ \A i \in DOMAIN Tail(c2s[s]) : Tail(c2s[s])[i].page = cpage[s]
        BY <3>2, ReceivedRequest
      <4>2. /\ c2s' = [c2s EXCEPT ![s] = Tail(c2s[s])]
            /\ tpage' = [tpage EXCEPT ![s] = cpage[s]] \/ tpage' = tpage
            /\ tpc' = [tpc EXCEPT ![s] = "close"] \/ tpc' = [tpc EXCEPT ![s] = "write"]
        BY <2>5, <3>2, <4>1 DEF RecvWrite, ServerSeesEOF, Goto
      <4>3. tpc[s] = "grant" BY <2>5 DEF RecvWrite
      <4>4. tpage[s] = cpage[s] /\ tpage[s] \in Pages BY <4>3
      <4>. QED BY <2>0, <4>1, <4>2, <4>4
    <3>. QED BY <3>1, <3>2
  <2>6. CASE WriteRefused(s) \/ WriteBegin(s) \/ WriteEnd(s)
    BY <1>1, <2>0, <2>6 DEF WriteRefused, WriteBegin, WriteEnd
  <2>7. CASE CloseClient(s)
    BY <2>0, <2>7 DEF CloseClient, ServerCloses, Goto
  <2>. QED BY <1>2, <2>1, <2>2, <2>3, <2>4, <2>5, <2>6, <2>7 DEF Server, ServerStep
<1>3. ASSUME NEW s \in Sessions, Run(s) PROVE OnePagePerSession'
  <2>1. PICK p \in PageNums, cmd \in {"read", "lock"} :
            c2s' = [c2s EXCEPT ![s] = <<Request(cmd, p, Blank)>>] /\ cpage' = [cpage EXCEPT ![s] = p]
    BY <1>3 DEF Run, StartRead, StartWrite, Start
  <2>2. tpc[s] = "none" /\ UNCHANGED <<tpc, tpage>>
    BY <1>3 DEF Run, StartRead, StartWrite, Start, ThreadsAreConnected, serverVars
  <2>3. \A i \in DOMAIN c2s'[s] : c2s'[s][i].page = p
    BY <2>1 DEF Request
  <2>. QED BY <2>1, <2>2, <2>3 DEF Serving, InTable
<1>4. ASSUME NEW s \in Sessions, Client(s) \/ Interrupt(s) PROVE OnePagePerSession'
  <2>1. UNCHANGED <<tpc, tpage>>
    BY <1>4 DEF Client, Interrupt, serverVars
  <2>2. CASE UNCHANGED <<c2s, cpage>>
    BY <2>1, <2>2
  <2>3. CASE Submit(s) /\ ~UNCHANGED <<c2s, cpage>>
    <3>1. UNCHANGED cpage /\ \E b \in Typed :
              c2s' = [c2s EXCEPT ![s] = Append(@, Request("write", cpage[s], b))]
      BY <2>3 DEF Submit, Exit, Post
    <3>2. PICK b \in Typed : c2s' = [c2s EXCEPT ![s] = Append(@, Request("write", cpage[s], b))]
      BY <3>1
    <3>3. \A i \in DOMAIN c2s'[s] : c2s'[s][i].page = cpage[s]
      <4>1. SUFFICES ASSUME NEW i \in DOMAIN c2s'[s] PROVE c2s'[s][i].page = cpage[s]
        OBVIOUS
      <4>2. Request("write", cpage[s], b) \in Requests
        BY <2>3, ConstantTypes, SizesAssumption DEF Submit, ClientsHavePage, Bodies
      <4>3. c2s'[s] = Append(c2s[s], Request("write", cpage[s], b)) BY <3>2
      <4>4. CASE i \in DOMAIN c2s[s] BY <4>2, <4>3, <4>4
      <4>5. CASE i = Len(c2s[s]) + 1 BY <4>2, <4>3, <4>5 DEF Request
      <4>. QED BY <4>2, <4>3, <4>4, <4>5
    <3>. QED BY <2>1, <3>1, <3>2, <3>3
  <2>4. Submit(s) \/ UNCHANGED <<c2s, cpage>>
    BY <1>4 DEF Client, Interrupt, ClientGoesOn, RecvPage, RecvLockReply, RecvConfirm,
       Disconnect, Exit
  <2>. QED BY <2>2, <2>3, <2>4
<1>5. CASE Restart
  BY <1>5 DEF Restart, CrashRestart, ServerCloses, clientVars, Serving, InTable
<1>. QED BY <1>2, <1>3, <1>4, <1>5 DEF Next

\* The page number of client.c's command line stays for the whole run.
LEMMA StepClientsHavePage ==
    ASSUME TableInv, Next
    PROVE  ClientsHavePage'
<1> USE DEF TableInv, TypeOK, ClientTypeOK, ClientsHavePage
<1>1. ASSUME NEW s \in Sessions, Server(s) PROVE ClientsHavePage'
  BY <1>1 DEF Server, clientVars
<1>2. ASSUME NEW s \in Sessions, Run(s) PROVE ClientsHavePage'
  BY <1>2 DEF Run, StartRead, StartWrite, Start
<1>3. ASSUME NEW s \in Sessions, Client(s) \/ Interrupt(s) PROVE ClientsHavePage'
  <2>1. CASE RecvPage(s) \/ RecvConfirm(s) \/ Interrupt(s)
    BY <2>1 DEF RecvPage, RecvConfirm, Interrupt, Disconnect, Exit
  <2>2. CASE RecvLockReply(s)
    BY <2>2 DEF RecvLockReply, Exit
  <2>3. CASE Submit(s)
    BY <2>3 DEF Submit, Exit
  <2>. QED BY <1>3, <2>1, <2>2, <2>3 DEF Client, ClientGoesOn
<1>4. CASE Restart
  BY <1>4 DEF Restart, clientVars
<1>. QED BY <1>1, <1>2, <1>3, <1>4 DEF Next

-----------------------------------------------------------------------------
(***************************************************************************)
(* How a queue changes.  Whatever the step, a page's queue gets the        *)
(* stepping thread's descriptor at its end, or loses its head to the       *)
(* thread that is inside write_page, or is emptied by a restart.           *)
(***************************************************************************)
LEMMA QueueStep ==
    ASSUME TableInv, NEW s \in Sessions, Server(s), NEW p \in Pages
    PROVE  \/ queue'[p] = queue[p] /\ (lock'[p] = lock[p] \/ lock'[p] = 1)
           \/ queue'[p] = Append(queue[p], fd[s]) /\ lock'[p] = 1
           \/ /\ tpc[s] = "copy" /\ tpage[s] = p
              /\ queue'[p] = Tail(queue[p])
              /\ lock'[p] = IF Tail(queue[p]) = <<>> THEN 0 ELSE lock[p]
<1> USE DEF TableInv, TypeOK, ServerTypeOK
<1>1. CASE ReadLockBusy(s)
  BY <1>1 DEF ReadLockBusy, AddToQueue
<1>2. CASE ReadLockFree(s)
  BY <1>2 DEF ReadLockFree, AddToQueue
<1>3. CASE WriteEnd(s)
  <2>1. queue[tpage[s]] # <<>>
    BY <1>3 DEF WriteEnd, WritersAtHead, AtHead
  <2>. QED BY <1>3, <2>1 DEF WriteEnd, RemoveFromQueue, LockAfterWrite
<1>4. CASE ~(ReadLockBusy(s) \/ ReadLockFree(s) \/ WriteEnd(s))
  BY <1>4 DEF Server, ServerStep, Accept, AcceptFails, RecvCommand, ReadPage, ReadLockInvalid,
     TakeTurn, RecvWrite, WriteRefused, WriteBegin, CloseClient, tableVars, serverVars
<1>. QED BY <1>1, <1>2, <1>3, <1>4

\* write_page unlocks only with an empty queue; read_lock_page locks what it
\* queues for.
LEMMA StepFreePageHasNoQueue ==
    ASSUME TableInv, Next
    PROVE  FreePageHasNoQueue'
<1> USE DEF TableInv, TypeOK, ServerTypeOK, FreePageHasNoQueue
<1>1. ASSUME NEW s \in Sessions, Server(s) PROVE FreePageHasNoQueue'
  <2>1. SUFFICES ASSUME NEW p \in Pages, lock'[p] = 0 PROVE queue'[p] = <<>>
    OBVIOUS
  <2>2. CASE queue'[p] = queue[p] /\ (lock'[p] = lock[p] \/ lock'[p] = 1)
    BY <2>1, <2>2
  <2>3. CASE /\ tpc[s] = "copy" /\ tpage[s] = p
             /\ queue'[p] = Tail(queue[p])
             /\ lock'[p] = IF Tail(queue[p]) = <<>> THEN 0 ELSE lock[p]
    BY <2>1, <2>3 DEF WritersAtHead, AtHead
  <2>. QED BY <1>1, <2>1, <2>2, <2>3, QueueStep
<1>2. ASSUME NEW s \in Sessions, Run(s) \/ Client(s) \/ Interrupt(s) PROVE FreePageHasNoQueue'
  BY <1>2 DEF Run, Client, Interrupt, serverVars
<1>3. CASE Restart
  BY <1>3 DEF Restart, CrashRestart
<1>. QED BY <1>1, <1>2, <1>3 DEF Next

(***************************************************************************)
(* A thread that is at the head of a page's queue stays there while other  *)
(* threads take steps: only the head itself shortens the queue, and no     *)
(* other open connection has its descriptor.                               *)
(***************************************************************************)
LEMMA HeadStays ==
    ASSUME TableInv, NEW s \in Sessions, Server(s), NEW t \in Sessions, t # s,
           tpc[t] # "none", NEW p \in Pages, AtHead(t, p)
    PROVE  AtHead(t, p)' /\ fd'[t] = fd[t] /\ tpc'[t] = tpc[t] /\ tpage'[t] = tpage[t]
<1> USE DEF TableInv, TypeOK, ServerTypeOK
<1>1. fd'[t] = fd[t] /\ tpc'[t] = tpc[t] /\ tpage'[t] = tpage[t]
  BY DEF Server, ServerStep, Accept, AcceptFails, RecvCommand, ReadPage, ReadLockInvalid,
     ReadLockBusy, ReadLockFree, TakeTurn, RecvWrite, WriteRefused, WriteBegin, WriteEnd,
     CloseClient, Goto, serverVars
<1>2. CASE queue'[p] = queue[p]
  BY <1>1, <1>2 DEF AtHead
<1>3. CASE queue'[p] = Append(queue[p], fd[s])
  <2>1. queue[p] \in Seq(Fds) /\ queue[p] # <<>> /\ fd[s] \in Fds \cup {NoFd} BY DEF AtHead
  <2>2. Append(queue[p], fd[s]) # <<>> /\ Head(Append(queue[p], fd[s])) = Head(queue[p])
    BY <2>1
  <2>. QED BY <1>1, <1>3, <2>2 DEF AtHead
<1>4. CASE tpc[s] = "copy" /\ tpage[s] = p
  <2>1. AtHead(s, p) BY <1>4 DEF WritersAtHead
  <2>2. fd[s] = fd[t] /\ fd[t] # NoFd BY <2>1 DEF AtHead, LiveFds
  <2>. QED BY <2>2 DEF LiveFds
<1>. QED BY <1>1, <1>2, <1>3, <1>4, QueueStep

\* write_page keeps its place at the head while it holds page_mutex.
LEMMA StepWritersAtHead ==
    ASSUME TableInv, Next
    PROVE  WritersAtHead'
<1> USE DEF TableInv, TypeOK, ServerTypeOK
<1>1. ASSUME NEW s \in Sessions, Server(s) PROVE WritersAtHead'
  <2>1. SUFFICES ASSUME NEW t \in Sessions, tpc'[t] = "copy" PROVE AtHead(t, tpage[t])'
    BY DEF WritersAtHead
  <2>2. CASE t = s
    <3>1. WriteBegin(s)
      BY <1>1, <2>1, <2>2, ReceivedRequest DEF Server, ServerStep, Accept, AcceptFails, RecvCommand,
         ReadPage, ReadLockInvalid, ReadLockBusy, ReadLockFree, TakeTurn, RecvWrite,
         WriteRefused, WriteEnd, CloseClient, Goto, serverVars, Requests
    <3>. QED BY <2>2, <3>1 DEF WriteBegin, Authorised, AtHead
  <2>3. CASE t # s
    <3>1. tpc[t] = "copy"
      BY <1>1, <2>1, <2>3 DEF Server, ServerStep, Accept, AcceptFails, RecvCommand, ReadPage,
         ReadLockInvalid, ReadLockBusy, ReadLockFree, TakeTurn, RecvWrite, WriteRefused,
         WriteBegin, WriteEnd, CloseClient, Goto, serverVars
    <3>2. tpage[t] \in Pages /\ AtHead(t, tpage[t])
      BY <3>1 DEF OnePagePerSession, InTable, WritersAtHead
    <3>3. AtHead(t, tpage[t])' /\ tpage'[t] = tpage[t]
      BY <1>1, <2>3, <3>1, <3>2, HeadStays DEF AtHead
    <3>. QED BY <3>3
  <2>. QED BY <2>2, <2>3
<1>2. ASSUME NEW s \in Sessions, Run(s) \/ Client(s) \/ Interrupt(s) PROVE WritersAtHead'
  BY <1>2 DEF Run, Client, Interrupt, serverVars, WritersAtHead, AtHead
<1>3. CASE Restart
  BY <1>3 DEF Restart, CrashRestart, WritersAtHead
<1>. QED BY <1>1, <1>2, <1>3 DEF Next

-----------------------------------------------------------------------------
\* TableInv is inductive.
LEMMA StepTable == TableInv /\ [Next]_vars => TableInv'
<1>1. ASSUME TableInv, Next PROVE TableInv'
  <2>1. TypeOK'
    BY <1>1, ServerType, ClientType, RestartType DEF Next
  <2>. QED BY <1>1, <2>1, StepLiveFds, StepThreadsAreConnected, StepOnePagePerSession,
       StepClientsHavePage, StepWritersAtHead, StepFreePageHasNoQueue DEF TableInv
<1>2. ASSUME TableInv, UNCHANGED vars PROVE TableInv'
  BY <1>2 DEF TableInv, TypeOK, WireTypeOK, ServerTypeOK, ClientTypeOK, LiveFds,
     ThreadsAreConnected, OnePagePerSession, ClientsHavePage, WritersAtHead, AtHead,
     FreePageHasNoQueue, vars, wireVars, serverVars, clientVars
<1>. QED BY <1>1, <1>2

(***************************************************************************)
(* Under every combination of faults the state of the server and of the    *)
(* programs keeps its type; remove_from_queue in particular always finds   *)
(* the writer's entry to remove.                                           *)
(***************************************************************************)
THEOREM TypeCorrect == Spec => []TypeOK
<1>1. TableInv => TypeOK BY DEF TableInv
<1>. QED BY <1>1, InitTable, StepTable, PTL DEF Spec

(***************************************************************************)
(* Under every combination of faults, lost memory and restarts included, a *)
(* page that is not locked has an empty queue, so that read_lock_page does *)
(* put its client in as the first and only one.                            *)
(***************************************************************************)
THEOREM FirstAndOnly == Spec => []FreePageHasNoQueue
<1>1. TableInv => FreePageHasNoQueue BY DEF TableInv
<1>. QED BY <1>1, InitTable, StepTable, PTL DEF Spec

-----------------------------------------------------------------------------
(***************************************************************************)
(* Mutual exclusion.  read_lock_page and write_page know their client only *)
(* by its descriptor, so the argument is: who has been given a page is the *)
(* head of its queue, and open descriptors are distinct.  It needs that    *)
(* add_to_queue does not fail.                                             *)
(***************************************************************************)
OwnersAtHead ==
    \A s \in Sessions : tpc[s] \in {"grant", "write", "copy"} => AtHead(s, tpage[s])

GrantInv == TableInv /\ OwnersAtHead /\ LockedPageHasQueue

\* A thread becomes an owner only in the two steps that send it the page.
LEMMA NewOwner ==
    ASSUME TableInv, NEW s \in Sessions, Server(s), tpc'[s] \in {"grant", "write", "copy"}
    PROVE  ReadLockFree(s) \/ TakeTurn(s) \/ RecvWrite(s) \/ WriteBegin(s)
BY ReceivedRequest DEF TableInv, TypeOK, ServerTypeOK, Server, ServerStep, Accept, AcceptFails,
   RecvCommand, ReadPage, ReadLockInvalid, ReadLockBusy, WriteRefused, WriteEnd, CloseClient,
   Goto, serverVars, Requests

\* Whoever is given the page is, and stays, the head of its queue.
LEMMA StepOwnersAtHead ==
    ASSUME GrantInv, "malloc" \notin Faults, Next
    PROVE  OwnersAtHead'
<1> USE DEF GrantInv, TableInv, TypeOK, ServerTypeOK
<1>1. ASSUME NEW s \in Sessions, Server(s) PROVE OwnersAtHead'
  <2>1. SUFFICES ASSUME NEW t \in Sessions, tpc'[t] \in {"grant", "write", "copy"}
                 PROVE  AtHead(t, tpage[t])'
    BY DEF OwnersAtHead
  <2>2. CASE t = s
    <3>1. CASE ReadLockFree(s)
      <4>1. /\ tpage[s] \in Pages /\ UNCHANGED <<fd, tpage>>
            /\ lock[tpage[s]] = 0
            /\ queue' = [queue EXCEPT ![tpage[s]] = Append(@, fd[s])]
        BY <2>1, <2>2, <3>1 DEF ReadLockFree, AddToQueue, Goto
      <4>2. queue[tpage[s]] = <<>> BY <4>1 DEF FreePageHasNoQueue
      <4>3. queue'[tpage[s]] = <<fd[s]>> BY <4>1, <4>2
      <4>4. queue'[tpage[s]] # <<>> /\ Head(queue'[tpage[s]]) = fd[s] BY <4>3
      <4>. QED BY <2>2, <4>1, <4>4 DEF AtHead
    <3>2. CASE TakeTurn(s)
      BY <2>2, <3>2 DEF TakeTurn, tableVars, AtHead
    <3>3. CASE RecvWrite(s)
      <4>1. AtHead(s, tpage[s]) /\ tpage[s] = cpage[s]
        BY <3>3 DEF RecvWrite, OwnersAtHead, OnePagePerSession, Serving
      <4>2. CASE c2s[s] # <<>>
        <5>1. Head(c2s[s]).page = cpage[s]
          BY <4>2, ReceivedRequest DEF OnePagePerSession
        <5>2. tpage'[s] = tpage[s] /\ UNCHANGED <<fd, queue>>
          BY <3>3, <4>1, <4>2, <5>1 DEF RecvWrite, ServerSeesEOF, tableVars
        <5>. QED BY <2>2, <4>1, <5>2 DEF AtHead
      <4>3. CASE c2s[s] = <<>>
        BY <2>1, <2>2, <3>3, <4>3 DEF RecvWrite, Goto
      <4>. QED BY <4>2, <4>3
    <3>4. CASE WriteBegin(s)
      BY <2>2, <3>4 DEF WriteBegin, Authorised, AtHead
    <3>. QED BY <1>1, <2>1, <2>2, <3>1, <3>2, <3>3, <3>4, NewOwner
  <2>3. CASE t # s
    <3>1. tpc[t] = tpc'[t]
      BY <1>1, <2>3 DEF Server, ServerStep, Accept, AcceptFails, RecvCommand, ReadPage,
         ReadLockInvalid, ReadLockBusy, ReadLockFree, TakeTurn, RecvWrite, WriteRefused,
         WriteBegin, WriteEnd, CloseClient, Goto, serverVars
    <3>2. tpage[t] \in Pages /\ AtHead(t, tpage[t])
      BY <2>1, <3>1 DEF OnePagePerSession, InTable, OwnersAtHead
    <3>3. AtHead(t, tpage[t])' /\ tpage'[t] = tpage[t]
      BY <1>1, <2>1, <2>3, <3>1, <3>2, HeadStays DEF AtHead
    <3>. QED BY <3>3
  <2>. QED BY <2>2, <2>3
<1>2. ASSUME NEW s \in Sessions, Run(s) \/ Client(s) \/ Interrupt(s) PROVE OwnersAtHead'
  BY <1>2 DEF Run, Client, Interrupt, serverVars, OwnersAtHead, AtHead
<1>3. CASE Restart
  BY <1>3 DEF Restart, CrashRestart, OwnersAtHead
<1>. QED BY <1>1, <1>2, <1>3 DEF Next

\* A queue that add_to_queue has extended is not empty.
LEMMA AppendIsNotEmpty ==
    ASSUME NEW S, NEW q \in Seq(S), NEW e \in S
    PROVE  Append(q, e) # <<>>
<1>1. Len(Append(q, e)) = Len(q) + 1 /\ Len(q) \in Nat OBVIOUS
<1>. QED BY <1>1

\* read_lock_page locks and queues together; write_page unlocks the last.
LEMMA StepLockedPageHasQueue ==
    ASSUME GrantInv, "malloc" \notin Faults, Next
    PROVE  LockedPageHasQueue'
<1> USE DEF GrantInv, TableInv, TypeOK, ServerTypeOK
<1>1. ASSUME NEW s \in Sessions, Server(s) PROVE LockedPageHasQueue'
  <2>1. SUFFICES ASSUME NEW p \in Pages, lock'[p] = 1 PROVE queue'[p] # <<>>
    BY DEF LockedPageHasQueue
  <2>2. CASE ReadLockFree(s)
    <3>1. fd[s] \in Fds
      BY <2>2 DEF ReadLockFree, LiveFds
    <3>2. Append(queue[p], fd[s]) # <<>> BY <3>1, AppendIsNotEmpty
    <3>. QED BY <2>1, <2>2, <3>2 DEF ReadLockFree, AddToQueue, LockedPageHasQueue
  <2>3. CASE ReadLockBusy(s)
    <3>1. fd[s] \in Fds
      BY <2>3 DEF ReadLockBusy, LiveFds
    <3>2. Append(queue[p], fd[s]) # <<>> BY <3>1, AppendIsNotEmpty
    <3>. QED BY <2>1, <2>3, <3>2 DEF ReadLockBusy, AddToQueue, LockedPageHasQueue
  <2>4. CASE WriteEnd(s)
    BY <2>1, <2>4 DEF WriteEnd, RemoveFromQueue, LockAfterWrite, LockedPageHasQueue
  <2>5. CASE ~(ReadLockBusy(s) \/ ReadLockFree(s) \/ WriteEnd(s))
    <3>1. UNCHANGED <<lock, queue>>
      BY <1>1, <2>5 DEF Server, ServerStep, Accept, AcceptFails, RecvCommand, ReadPage,
         ReadLockInvalid, TakeTurn, RecvWrite, WriteRefused, WriteBegin, CloseClient,
         tableVars, serverVars
    <3>. QED BY <2>1, <3>1 DEF LockedPageHasQueue
  <2>. QED BY <2>2, <2>3, <2>4, <2>5
<1>2. ASSUME NEW s \in Sessions, Run(s) \/ Client(s) \/ Interrupt(s) PROVE LockedPageHasQueue'
  BY <1>2 DEF Run, Client, Interrupt, serverVars, LockedPageHasQueue
<1>3. CASE Restart
  BY <1>3 DEF Restart, CrashRestart, LockedPageHasQueue
<1>. QED BY <1>1, <1>2, <1>3 DEF Next

\* GrantInv is an invariant as long as add_to_queue finds memory.
LEMMA GrantInduction ==
    ASSUME "malloc" \notin Faults
    PROVE  Spec => []GrantInv
<1>1. Init => GrantInv
  BY InitTable DEF GrantInv, Init, ServerInit, TableInit, NoThreads, OwnersAtHead,
     LockedPageHasQueue
<1>2. GrantInv /\ [Next]_vars => GrantInv'
  <2>1. ASSUME GrantInv, Next PROVE GrantInv'
    BY <2>1, StepTable, StepOwnersAtHead, StepLockedPageHasQueue DEF GrantInv
  <2>2. ASSUME GrantInv, UNCHANGED vars PROVE GrantInv'
    BY <2>2, StepTable DEF GrantInv, OwnersAtHead, LockedPageHasQueue, AtHead, vars, serverVars
  <2>. QED BY <2>1, <2>2
<1>. QED BY <1>1, <1>2, PTL DEF Spec

(***************************************************************************)
(* As long as add_to_queue finds memory, no two running threads have been  *)
(* given the same page, for any number of sessions, any interleaving of    *)
(* their steps, any loss of clients, merging of messages, restart, and     *)
(* reuse of the descriptors that dead clients have left in the queues.     *)
(***************************************************************************)
THEOREM MutualExclusion ==
    ASSUME "malloc" \notin Faults
    PROVE  Spec => []GrantExclusion
<1>1. ASSUME GrantInv PROVE GrantExclusion
  BY <1>1 DEF GrantInv, TableInv, OwnersAtHead, AtHead, LiveFds, GrantExclusion, Owns
<1>. QED BY <1>1, GrantInduction, PTL

(***************************************************************************)
(* As long as add_to_queue finds memory, a locked page has a queue: there  *)
(* is an entry whose removal by write_page can unlock it.                  *)
(***************************************************************************)
THEOREM LockHasQueue ==
    ASSUME "malloc" \notin Faults
    PROVE  Spec => []LockedPageHasQueue
<1>1. GrantInv => LockedPageHasQueue BY DEF GrantInv
<1>. QED BY <1>1, GrantInduction, PTL

-----------------------------------------------------------------------------
(***************************************************************************)
(* Lengths.  Every text that reaches a page came in a message "2 p text"   *)
(* that fitted send_command's buffer, and "0 text" is shorter.             *)
(***************************************************************************)
Sendable(b) == Fits(ReplyMsgLen(b))

TextsAreSendable ==
    /\ \A s \in Sessions : \A i \in DOMAIN c2s[s] : Sendable(c2s[s][i].body)
    /\ \A s \in Sessions : Sendable(tnew[s])
    /\ EveryPageCanBeSent

\* A page number has at least one digit.
LEMMA DigitsOfPage == \A p : Digits(p) \in Nat /\ Digits(p) >= 1
<1>1. SUFFICES ASSUME NEW p PROVE Digits(p) \in Nat /\ Digits(p) >= 1
  OBVIOUS
<1> DEFINE powers == {d \in 1 .. 9 : 10^d <= p}
<1>2. powers \in SUBSET Nat /\ 9 \in Nat /\ \A d \in powers : d <= 9 OBVIOUS
<1>3. IsFiniteSet(powers) BY <1>2, FS_BoundedSetOfNaturals
<1>4. Cardinality(powers) \in Nat BY <1>3, FS_CardinalityType
<1>. QED BY <1>4 DEF Digits

\* What fits the write command, and what write_page stores of it, fits the grant.
LEMMA SendableTexts ==
    /\ Sendable(Blank)
    /\ \A b \in Bodies : Sendable(b) => Sendable(Stored(b))
    /\ \A b, c \in Bodies : Sendable(b) /\ Sendable(c) => Sendable(Torn(b, c))
    /\ \A b \in Bodies, p \in PageNums : Fits(WriteMsgLen(p, b)) => Sendable(b)
<1> USE SizesAssumption DEF Sendable, Fits, ReplyMsgLen
<1>1. Sendable(Blank) BY DEF Blank
<1>2. \A b \in Bodies : Sendable(b) => Sendable(Stored(b)) BY DEF Stored, Bodies
<1>3. \A b, c \in Bodies : Sendable(b) /\ Sendable(c) => Sendable(Torn(b, c)) BY DEF Torn, Bodies
<1>4. \A b \in Bodies, p \in PageNums : Fits(WriteMsgLen(p, b)) => Sendable(b)
  BY DigitsOfPage DEF WriteMsgLen, Bodies
<1>. QED BY <1>1, <1>2, <1>3, <1>4

\* The texts under way to a page stay sendable.
LEMMA StepTextsAreSendable ==
    ASSUME TableInv, TextsAreSendable, Next
    PROVE  TextsAreSendable'
<1> USE SendableTexts
    DEF TableInv, TypeOK, WireTypeOK, ServerTypeOK, ClientTypeOK, TextsAreSendable,
        EveryPageCanBeSent
<1>1. ASSUME NEW s \in Sessions, Server(s) PROVE TextsAreSendable'
  <2>1. CASE AcceptFails(s) \/ CloseClient(s)
    <3>1. UNCHANGED mem /\ c2s' = [t \in Sessions |-> IF t \in {s} THEN <<>> ELSE c2s[t]]
      BY <2>1 DEF AcceptFails, CloseClient, ServerCloses, serverVars, tableVars
    <3>2. \A t \in Sessions : \A i \in DOMAIN c2s'[t] : Sendable(c2s'[t][i].body)
      BY <3>1
    <3>3. UNCHANGED tnew \/ tnew' = [tnew EXCEPT ![s] = Blank]
      BY <2>1 DEF AcceptFails, CloseClient, serverVars
    <3>4. \A t \in Sessions : Sendable(tnew'[t]) BY <3>3
    <3>. QED BY <3>1, <3>2, <3>4
  <2>2. CASE RecvCommand(s) \/ RecvWrite(s)
    <3>1. UNCHANGED mem
      BY <2>2 DEF RecvCommand, RecvWrite, tableVars
    <3>2. CASE c2s[s] = <<>>
      BY <2>2, <3>1, <3>2 DEF RecvCommand, RecvWrite, Sendable
    <3>3. CASE c2s[s] # <<>>
      <4>1. /\ Sendable(Head(c2s[s]).body)
            /\ \A i \in DOMAIN Tail(c2s[s]) : Sendable(Tail(c2s[s])[i].body)
        BY <3>3, ReceivedRequest
      <4>2. /\ c2s' = [c2s EXCEPT ![s] = Tail(c2s[s])]
            /\ tnew' = [tnew EXCEPT ![s] = Head(c2s[s]).body] \/ UNCHANGED tnew
        BY <2>2, <3>3 DEF RecvCommand, RecvWrite, ServerSeesEOF
      <4>3. \A t \in Sessions : Sendable(tnew'[t])
        BY <4>1, <4>2
      <4>4. \A t \in Sessions : \A i \in DOMAIN c2s'[t] : Sendable(c2s'[t][i].body)
        BY <4>1, <4>2
      <4>. QED BY <3>1, <4>3, <4>4 DEF Sendable
    <3>. QED BY <3>2, <3>3
  <2>3. CASE WriteBegin(s) \/ WriteEnd(s)
    <3>1. UNCHANGED <<c2s, tnew>> BY <2>3 DEF WriteBegin, WriteEnd, wireVars
    <3>2. tpage[s] \in Pages
      BY <2>3 DEF WriteBegin, WriteEnd, OnePagePerSession, InTable
    <3>3. PICK b \in {Stored(tnew[s]), Torn(mem[tpage[s]], Stored(tnew[s]))} :
              mem' = [mem EXCEPT ![tpage[s]] = b]
      BY <2>3 DEF WriteBegin, WriteEnd
    <3>4. Sendable(b)
      <4>1. Stored(tnew[s]) \in Bodies /\ mem[tpage[s]] \in Bodies /\ Sendable(mem[tpage[s]])
        BY <3>2, ConstantTypes DEF Sendable
      <4>. QED BY <3>3, <4>1
    <3>5. \A p \in Pages : Sendable(mem'[p]) BY <3>3, <3>4 DEF Sendable
    <3>. QED BY <3>1, <3>5 DEF Sendable
  <2>4. CASE ~(\/ AcceptFails(s) \/ CloseClient(s) \/ RecvCommand(s) \/ RecvWrite(s)
               \/ WriteBegin(s) \/ WriteEnd(s))
    <3>1. UNCHANGED <<c2s, tnew, mem>>
      BY <1>1, <2>4 DEF Server, ServerStep, Accept, ReadPage, ReadLockInvalid, ReadLockBusy,
         ReadLockFree, TakeTurn, WriteRefused, tableVars, wireVars
    <3>. QED BY <3>1 DEF Sendable
  <2>. QED BY <2>1, <2>2, <2>3, <2>4
<1>2. ASSUME NEW s \in Sessions, Run(s) PROVE TextsAreSendable'
  <2>1. PICK p \in PageNums, cmd \in {"read", "lock"} :
            c2s' = [c2s EXCEPT ![s] = <<Request(cmd, p, Blank)>>]
    BY <1>2 DEF Run, StartRead, StartWrite, Start
  <2>2. UNCHANGED <<tnew, mem>> BY <1>2 DEF Run, serverVars
  <2>3. \A i \in DOMAIN c2s'[s] : c2s'[s][i].body = Blank BY <2>1 DEF Request
  <2>. QED BY <2>1, <2>2, <2>3 DEF Sendable
<1>3. ASSUME NEW s \in Sessions, Client(s) \/ Interrupt(s) PROVE TextsAreSendable'
  <2>1. UNCHANGED <<tnew, mem>> BY <1>3 DEF Client, Interrupt, serverVars
  <2>2. CASE UNCHANGED c2s BY <2>1, <2>2 DEF Sendable
  <2>3. CASE Submit(s) /\ c2s' # c2s
    <3>1. PICK b \in Typed :
              /\ Fits(WriteMsgLen(cpage[s], b))
              /\ c2s' = [c2s EXCEPT ![s] = Append(@, Request("write", cpage[s], b))]
      BY <2>3 DEF Submit, Post
    <3>2. cpage[s] \in PageNums /\ b \in Bodies
      BY <2>3, SizesAssumption DEF Submit, ClientsHavePage, Bodies
    <3>3. Sendable(b) BY <3>1, <3>2
    <3>4. Request("write", cpage[s], b) \in Requests BY <3>2, ConstantTypes
    <3>5. c2s'[s] = Append(c2s[s], Request("write", cpage[s], b)) BY <3>1
    <3>6. \A i \in DOMAIN c2s'[s] : Sendable(c2s'[s][i].body)
      <4>1. SUFFICES ASSUME NEW i \in DOMAIN c2s'[s] PROVE Sendable(c2s'[s][i].body)
        OBVIOUS
      <4>2. CASE i \in DOMAIN c2s[s] BY <3>4, <3>5, <4>2
      <4>3. CASE i = Len(c2s[s]) + 1 BY <3>3, <3>4, <3>5, <4>3 DEF Request
      <4>. QED BY <3>4, <3>5, <4>2, <4>3
    <3>. QED BY <2>1, <3>1, <3>6 DEF Sendable
  <2>4. Submit(s) \/ UNCHANGED c2s
    BY <1>3 DEF Client, Interrupt, ClientGoesOn, RecvPage, RecvLockReply, RecvConfirm, Disconnect
  <2>. QED BY <2>2, <2>3, <2>4
<1>4. CASE Restart
  BY <1>4 DEF Restart, CrashRestart, ServerCloses, Sendable
<1>. QED BY <1>1, <1>2, <1>3, <1>4 DEF Next

(***************************************************************************)
(* For every message size, page size and number of pages, whatever text is *)
(* in a page, a half-written one left by a server that died included, the  *)
(* grant that carries it fits: no page becomes impossible to give out.     *)
(***************************************************************************)
THEOREM PagesCanBeSent == Spec => []EveryPageCanBeSent
<1>1. Init => TextsAreSendable
  BY SendableTexts DEF Init, WireInit, ServerInit, NoThreads, TextsAreSendable,
     EveryPageCanBeSent, Sendable
<1>2. TableInv /\ TextsAreSendable /\ [Next]_vars => TextsAreSendable'
  <2>1. ASSUME TableInv, TextsAreSendable, Next PROVE TextsAreSendable'
    BY <2>1, StepTextsAreSendable
  <2>2. ASSUME TextsAreSendable, UNCHANGED vars PROVE TextsAreSendable'
    BY <2>2 DEF TextsAreSendable, EveryPageCanBeSent, Sendable, Fits, ReplyMsgLen,
       vars, wireVars, serverVars
  <2>. QED BY <2>1, <2>2
<1>3. TextsAreSendable => EveryPageCanBeSent BY DEF TextsAreSendable
<1>. QED BY <1>1, <1>2, <1>3, InitTable, StepTable, PTL DEF Spec
=============================================================================
