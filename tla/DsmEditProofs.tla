--------------------------- MODULE DsmEditProofs ---------------------------
(***************************************************************************)
(* What happens to the texts of the pages, proved for any number of        *)
(* sessions, pages, descriptors and texts: no update is lost, nobody edits *)
(* a half-written page, the server and its clients implement EditedPages,  *)
(* and, as long as nobody leaves the queue, turns are taken in its order.  *)
(***************************************************************************)
EXTENDS DsmProofs

\* page_mutex between the two steps of write_page.
WritersHoldMutex ==
    \A p \in Pages, s \in Sessions : writer[p] = s <=> tpc[s] = "copy" /\ tpage[s] = p

\* What is written has been typed.
NewTextsAreTyped ==
    \A s \in Sessions :
        /\ \A i \in DOMAIN c2s[s] : c2s[s][i].cmd = "write" => c2s[s][i].body \in Typed
        /\ tpc[s] \in {"write", "copy"} => tnew[s] \in Typed

WriteInv == TableInv /\ WritersHoldMutex /\ NewTextsAreTyped

\* Half-written texts are in pages that are being written and in what
\* read_page has sent.
TextsAreWhole ==
    /\ \A p \in Pages : MutexFree(p) => mem[p].id # "torn"
    /\ \A s \in Sessions : seen[s].id # "torn"
    /\ \A s \in Sessions : \A i \in DOMAIN s2c[s] :
            s2c[s][i].cmd # "raw" => s2c[s][i].body.id # "torn"

\* The descriptor of the thread is not in the queue of the page.
Absent(s, p) == \A i \in DOMAIN queue[p] : queue[p][i] # fd[s]

\* A thread that add_to_queue did not find memory for is in no queue: no
\* other thread can have put its descriptor there.
HeadOrAbsent(s) ==
    tpc[s] \in {"grant", "write"} => AtHead(s, tpage[s]) \/ Absent(s, tpage[s])

Editing(s) == cpc[s] \in {"edit", "confirm"}

\* What the client has been told, up to the moment it is given the page.
ToldInv(s) ==
    /\ "server" \in sock[s] /\ tpc[s] \in {"none", "recv", "read", "lock"} =>
            s2c[s] = <<>> /\ ~Editing(s)
    /\ tpc[s] = "wait" =>
            ~Editing(s) /\ \A i \in DOMAIN s2c[s] : s2c[s][i].cmd = "wait"
    /\ tpc[s] \in {"grant", "write"} /\ AtHead(s, tpage[s]) =>
            /\ Editing(s) => seen[s] = mem[tpage[s]]
            /\ \A i \in DOMAIN s2c[s] :
                    \/ s2c[s][i].cmd = "wait"
                    \/ s2c[s][i].cmd = "content" /\ s2c[s][i].body = mem[tpage[s]]

UpdateInv == TableInv /\ \A s \in Sessions : HeadOrAbsent(s) /\ ToldInv(s)

\* No descriptor is in a queue but those of the threads that wait for the
\* page or have it, each of them once.
QueueIsAlive ==
    /\ \A p \in Pages : \A i \in DOMAIN queue[p] : \E s \in Sessions :
            tpc[s] \in InTable /\ tpage[s] = p /\ fd[s] = queue[p][i]
    /\ \A p \in Pages : \A i, j \in DOMAIN queue[p] : queue[p][i] = queue[p][j] => i = j
    /\ \A s \in Sessions : tpc[s] = "wait" => ~Absent(s, tpage[s])

\* The client of a thread that waits, or has the page, is there.
ClientStays(s) ==
    /\ "server" \in sock[s] /\ tpc[s] \in {"none", "recv"} =>
            /\ s2c[s] = <<>>
            /\ \/ Len(c2s[s]) = 1 /\ c2s[s][1].cmd = "read" /\ cpc[s] = "readReply"
               \/ Len(c2s[s]) = 1 /\ c2s[s][1].cmd = "lock" /\ cpc[s] = "lockReply"
    /\ tpc[s] = "lock" => cpc[s] = "lockReply" /\ s2c[s] = <<>> /\ c2s[s] = <<>>
    /\ tpc[s] = "wait" => /\ cpc[s] \in {"lockReply", "turn"} /\ c2s[s] = <<>>
                          /\ s2c[s] = <<>> \/ (Len(s2c[s]) = 1 /\ s2c[s][1].cmd = "wait")
    /\ tpc[s] = "grant" =>
            \/ /\ cpc[s] \in {"lockReply", "turn"} /\ c2s[s] = <<>>
               /\ \/ s2c[s] = <<>>
                  \/ Len(s2c[s]) = 1 /\ s2c[s][1].cmd = "content"
                  \/ Len(s2c[s]) = 2 /\ s2c[s][1].cmd = "wait" /\ s2c[s][2].cmd = "content"
            \/ cpc[s] = "edit" /\ c2s[s] = <<>> /\ s2c[s] = <<>>
            \/ cpc[s] = "confirm" /\ s2c[s] = <<>> /\ Len(c2s[s]) = 1 /\ c2s[s][1].cmd = "write"

\* A running program has its end of the connection open.
ProgramsAreConnected == \A s \in Sessions : cpc[s] # "idle" => "client" \in sock[s]

OrderInv ==
    /\ GrantInv /\ TextsAreSendable /\ QueueIsAlive /\ ProgramsAreConnected
    /\ \A s \in Sessions : ClientStays(s)

\* Nobody leaves the queue before his turn: no program is interrupted, none
\* gives up because its text is too long, and the server has memory.
NobodyLeaves ==
    /\ "disconnect" \notin Faults /\ "malloc" \notin Faults /\ "crash" \notin Faults
    /\ \A b \in Typed, p \in PageNums : Fits(WriteMsgLen(p, b))

-----------------------------------------------------------------------------
\* A thread changes nothing of another session.
LEMMA OtherThreads ==
    ASSUME TableInv, NEW s \in Sessions, Server(s), NEW t \in Sessions, t # s
    PROVE  /\ tpc'[t] = tpc[t] /\ fd'[t] = fd[t] /\ tpage'[t] = tpage[t] /\ tnew'[t] = tnew[t]
           /\ sock'[t] = sock[t] /\ c2s'[t] = c2s[t] /\ s2c'[t] = s2c[t]
<1> USE DEF TableInv, TypeOK, ServerTypeOK, WireTypeOK
<1>1. /\ tpc'[t] = tpc[t] /\ fd'[t] = fd[t] /\ tpage'[t] = tpage[t] /\ tnew'[t] = tnew[t]
  BY DEF Server, ServerStep, Accept, AcceptFails, RecvCommand, ReadPage, ReadLockInvalid,
     ReadLockBusy, ReadLockFree, TakeTurn, RecvWrite, WriteRefused, WriteBegin, WriteEnd,
     CloseClient, Goto, serverVars
<1>2. sock'[t] = sock[t] /\ c2s'[t] = c2s[t]
  BY DEF Server, ServerStep, Accept, AcceptFails, RecvCommand, ReadPage, ReadLockInvalid,
     ReadLockBusy, ReadLockFree, TakeTurn, RecvWrite, WriteRefused, WriteBegin, WriteEnd,
     CloseClient, ServerCloses, wireVars
<1>3. s2c'[t] = s2c[t]
  BY DEF Server, ServerStep, Accept, AcceptFails, RecvCommand, ReadPage, ReadLockInvalid,
     ReadLockBusy, ReadLockFree, TakeTurn, RecvWrite, WriteRefused, WriteBegin, WriteEnd,
     CloseClient, SendCommand, SendCommandFails, Deliver, wireVars
<1>. QED BY <1>1, <1>2, <1>3

\* Nor does a program.
LEMMA OtherPrograms ==
    ASSUME TableInv, NEW s \in Sessions, Run(s) \/ Client(s) \/ Interrupt(s), NEW t \in Sessions, t # s
    PROVE  /\ cpc'[t] = cpc[t] /\ cpage'[t] = cpage[t] /\ seen'[t] = seen[t]
           /\ sock'[t] = sock[t] /\ c2s'[t] = c2s[t] /\ s2c'[t] = s2c[t]
<1> USE DEF TableInv, TypeOK, ClientTypeOK, WireTypeOK
<1>1. CASE Run(s)
  BY <1>1 DEF Run, StartRead, StartWrite, Start
<1>2. ASSUME Exit(s), UNCHANGED c2s PROVE /\ cpc'[t] = cpc[t] /\ cpage'[t] = cpage[t] /\ seen'[t] = seen[t]
           /\ sock'[t] = sock[t] /\ c2s'[t] = c2s[t] /\ s2c'[t] = s2c[t]
  BY <1>2 DEF Exit, ClientCloses
<1>3. CASE RecvPage(s) \/ RecvConfirm(s) \/ Interrupt(s)
  BY <1>2, <1>3 DEF RecvPage, RecvConfirm, Interrupt, Disconnect
<1>4. CASE RecvLockReply(s)
  BY <1>2, <1>4 DEF RecvLockReply
<1>5. CASE Submit(s)
  BY <1>2, <1>5 DEF Submit, Post
<1>. QED BY <1>1, <1>3, <1>4, <1>5 DEF Client, ClientGoesOn

\* The pages change only in the two steps of write_page.
LEMMA MemoryStep ==
    ASSUME TableInv, NEW s \in Sessions, Server(s)
    PROVE  \/ UNCHANGED <<mem, writer>> /\ ~WriteBegin(s) /\ ~WriteEnd(s)
           \/ WriteBegin(s) /\ tpage[s] \in Pages
           \/ WriteEnd(s) /\ tpage[s] \in Pages
<1>1. WriteBegin(s) \/ WriteEnd(s) => tpage[s] \in Pages
  BY DEF TableInv, OnePagePerSession, InTable, WriteBegin, WriteEnd
<1>2. CASE ~(WriteBegin(s) \/ WriteEnd(s))
  BY <1>2 DEF Server, ServerStep, Accept, AcceptFails, RecvCommand, ReadPage, ReadLockInvalid,
     ReadLockBusy, ReadLockFree, TakeTurn, RecvWrite, WriteRefused, CloseClient, tableVars, serverVars
<1>. QED BY <1>1, <1>2

\* The thread that writes has taken page_mutex.
LEMMA StepWritersHoldMutex ==
    ASSUME TableInv, WritersHoldMutex, Next
    PROVE  WritersHoldMutex'
<1> USE DEF TableInv, TypeOK, ServerTypeOK
<1>1. ASSUME NEW s \in Sessions, Server(s) PROVE WritersHoldMutex'
  <2>1. SUFFICES ASSUME NEW p \in Pages, NEW t \in Sessions
                 PROVE  writer'[p] = t <=> tpc'[t] = "copy" /\ tpage'[t] = p
    BY DEF WritersHoldMutex
  <2>2. writer[p] = t <=> tpc[t] = "copy" /\ tpage[t] = p  BY DEF WritersHoldMutex
  <2>3. t # s => tpc'[t] = tpc[t] /\ tpage'[t] = tpage[t]  BY <1>1, OtherThreads
  <2>4. CASE WriteBegin(s) /\ tpage[s] \in Pages
    <3>1. writer[tpage[s]] = NoSession /\ tpc[s] = "write" /\ tpc'[s] = "copy" /\ tpage'[s] = tpage[s]
      BY <2>4 DEF WriteBegin, MutexFree, Goto
    <3>2. writer'[p] = IF p = tpage[s] THEN s ELSE writer[p]  BY <2>4 DEF WriteBegin
    <3>. QED BY <2>2, <2>3, <3>1, <3>2, FdsAssumption
  <2>5. CASE WriteEnd(s) /\ tpage[s] \in Pages
    <3>1. writer[tpage[s]] = s  BY <2>5 DEF WriteEnd, WritersHoldMutex
    <3>2. writer'[p] = IF p = tpage[s] THEN NoSession ELSE writer[p]  BY <2>5 DEF WriteEnd
    <3>3. tpc[s] = "copy" /\ tpc'[s] = "close"  BY <2>5 DEF WriteEnd, Goto
    <3>. QED BY <2>2, <2>3, <3>1, <3>2, <3>3, FdsAssumption
  <2>6. CASE UNCHANGED <<mem, writer>> /\ ~WriteBegin(s) /\ ~WriteEnd(s)
    <3>1. t = s => tpc[t] # "copy" /\ tpc'[t] # "copy"
      BY <1>1, <2>6, ReceivedRequest DEF Server, ServerStep, Accept, AcceptFails, RecvCommand, ReadPage,
         ReadLockInvalid, ReadLockBusy, ReadLockFree, TakeTurn, RecvWrite, WriteRefused,
         CloseClient, Goto, serverVars, Requests
    <3>. QED BY <2>2, <2>3, <2>6, <3>1
  <2>. QED BY <1>1, <2>4, <2>5, <2>6, MemoryStep
<1>2. ASSUME NEW s \in Sessions, Run(s) \/ Client(s) \/ Interrupt(s) PROVE WritersHoldMutex'
  BY <1>2 DEF Run, Client, Interrupt, serverVars, WritersHoldMutex
<1>3. CASE Restart
  BY <1>3, FdsAssumption DEF Restart, CrashRestart, WritersHoldMutex
<1>. QED BY <1>1, <1>2, <1>3 DEF Next

\* What one thread or one program does to the channel to the server.
LEMMA ChannelToServer ==
    ASSUME TableInv, NEW s \in Sessions, Server(s)
    PROVE  \/ UNCHANGED c2s
           \/ c2s[s] # <<>> /\ c2s'[s] = Tail(c2s[s])
           \/ c2s'[s] = <<>>
BY DEF TableInv, TypeOK, WireTypeOK, Server, ServerStep, Accept, AcceptFails, RecvCommand, ReadPage,
     ReadLockInvalid, ReadLockBusy, ReadLockFree, TakeTurn, RecvWrite, WriteRefused, WriteBegin,
     WriteEnd, CloseClient, ServerCloses, wireVars

\* The texts that are written come from the users.
LEMMA StepNewTextsAreTyped ==
    ASSUME TableInv, NewTextsAreTyped, Next
    PROVE  NewTextsAreTyped'
<1> USE DEF TableInv, TypeOK, ServerTypeOK, WireTypeOK, ClientTypeOK
<1> DEFINE Ch(t) == \A i \in DOMAIN c2s[t] : c2s[t][i].cmd = "write" => c2s[t][i].body \in Typed
           New(t) == tpc[t] \in {"write", "copy"} => tnew[t] \in Typed
<1>1. \A t \in Sessions : Ch(t) /\ New(t)  BY DEF NewTextsAreTyped
<1>2. ASSUME NEW s \in Sessions, Server(s) PROVE NewTextsAreTyped'
  <2>1. ASSUME NEW t \in Sessions, t # s PROVE Ch(t)' /\ New(t)'
    BY <1>1, <1>2, <2>1, OtherThreads
  <2>2. Ch(s)'
    <3>1. CASE c2s[s] # <<>> /\ c2s'[s] = Tail(c2s[s])
      BY <1>1, <3>1, ReceivedRequest
    <3>2. CASE UNCHANGED c2s  BY <1>1, <3>2
    <3>3. CASE c2s'[s] = <<>>
      <4>1. \A i \in DOMAIN <<>> : FALSE  OBVIOUS
      <4>. QED BY <3>3, <4>1, Zenon
    <3>. QED BY <1>2, <3>1, <3>2, <3>3, ChannelToServer
  <2>3. New(s)'
    <3>1. CASE RecvWrite(s)
      <4>1. CASE c2s[s] # <<>>
        <5>1. /\ Head(c2s[s]) = c2s[s][1] /\ 1 \in DOMAIN c2s[s]
          BY <4>1, ReceivedRequest
        <5>2. Head(c2s[s]).cmd = "write" => Head(c2s[s]).body \in Typed  BY <1>1, <5>1
        <5>. QED BY <3>1, <4>1, <5>2 DEF RecvWrite, Goto, ServerSeesEOF
      <4>2. CASE c2s[s] = <<>>
        BY <3>1, <4>2 DEF RecvWrite, Goto
      <4>. QED BY <4>1, <4>2
    <3>2. CASE WriteBegin(s)
      BY <1>1, <3>2 DEF WriteBegin
    <3>3. CASE ~(RecvWrite(s) \/ WriteBegin(s))
      <4>1. tpc'[s] \notin {"write", "copy"} 
        BY <1>2, <3>3, ReceivedRequest DEF Server, ServerStep, Accept, AcceptFails, RecvCommand, ReadPage,
           ReadLockInvalid, ReadLockBusy, ReadLockFree, TakeTurn, WriteRefused, WriteEnd,
           CloseClient, Goto, serverVars, Requests
      <4>. QED BY <4>1
    <3>. QED BY <3>1, <3>2, <3>3
  <2>. QED BY <2>1, <2>2, <2>3 DEF NewTextsAreTyped
<1>3. ASSUME NEW s \in Sessions, Run(s) \/ Client(s) \/ Interrupt(s) PROVE NewTextsAreTyped'
  <2>1. UNCHANGED <<tpc, tnew>>  BY <1>3 DEF Run, Client, Interrupt, serverVars
  <2>2. \A t \in Sessions : New(t)'  BY <1>1, <2>1
  <2>3. ASSUME NEW t \in Sessions, t # s PROVE Ch(t)'
    BY <1>1, <1>3, <2>3, OtherPrograms
  <2>4. Ch(s)'
    <3>1. CASE Run(s)
      <4>1. PICK p \in PageNums, cmd \in {"read", "lock"} :
                c2s' = [c2s EXCEPT ![s] = <<Request(cmd, p, Blank)>>]
        BY <3>1 DEF Run, StartRead, StartWrite, Start
      <4>. QED BY <4>1 DEF Request
    <3>2. CASE UNCHANGED c2s  BY <1>1, <3>2
    <3>3. CASE Submit(s) /\ c2s' # c2s
      <4>1. PICK b \in Typed : c2s' = [c2s EXCEPT ![s] = Append(@, Request("write", cpage[s], b))]
        BY <3>3 DEF Submit, Post
      <4>2. Request("write", cpage[s], b) \in Requests
        BY <3>3, ConstantTypes, SizesAssumption DEF Submit, ClientsHavePage, Bodies
      <4>3. c2s'[s] = Append(c2s[s], Request("write", cpage[s], b))  BY <4>1
      <4>4. SUFFICES ASSUME NEW i \in DOMAIN c2s'[s], c2s'[s][i].cmd = "write"
                     PROVE  c2s'[s][i].body \in Typed
        OBVIOUS
      <4>5. CASE i \in DOMAIN c2s[s] BY <1>1, <4>2, <4>3, <4>4, <4>5
      <4>6. CASE i = Len(c2s[s]) + 1 BY <4>2, <4>3, <4>6 DEF Request
      <4>. QED BY <4>2, <4>3, <4>5, <4>6
    <3>4. Run(s) \/ Submit(s) \/ UNCHANGED c2s
      BY <1>3 DEF Client, Interrupt, ClientGoesOn, RecvPage, RecvLockReply, RecvConfirm, Disconnect
    <3>. QED BY <3>1, <3>2, <3>3, <3>4
  <2>. QED BY <2>2, <2>3, <2>4 DEF NewTextsAreTyped
<1>4. CASE Restart
  BY <1>4 DEF Restart, CrashRestart, ServerCloses, NewTextsAreTyped
<1>. QED BY <1>2, <1>3, <1>4 DEF Next

\* WriteInv is inductive, whatever the faults.
LEMMA WriteInduction == Spec => []WriteInv
<1>1. Init => WriteInv
  BY InitTable, FdsAssumption DEF WriteInv, WritersHoldMutex, NewTextsAreTyped, Init, WireInit,
     ServerInit, TableInit, NoThreads
<1>2. WriteInv /\ [Next]_vars => WriteInv'
  <2>1. ASSUME WriteInv, Next PROVE WriteInv'
    BY <2>1, StepTable, StepWritersHoldMutex, StepNewTextsAreTyped DEF WriteInv
  <2>2. ASSUME WriteInv, UNCHANGED vars PROVE WriteInv'
    BY <2>2, StepTable DEF WriteInv, WritersHoldMutex, NewTextsAreTyped, vars, serverVars, wireVars
  <2>. QED BY <2>1, <2>2
<1>. QED BY <1>1, <1>2, PTL DEF Spec

-----------------------------------------------------------------------------
\* What a thread sends: nothing, or one message.
LEMMA ChannelToClient ==
    ASSUME TableInv, NEW s \in Sessions, Server(s)
    PROVE  \/ s2c'[s] = s2c[s]
           \/ \E m \in Replies :
                /\ s2c'[s] = Append(s2c[s], m)
                /\ \/ m.cmd = "raw" \/ m = Reply("error", ErrorText) \/ m.body = Blank
                   \/ /\ ReadLockFree(s) \/ TakeTurn(s)
                      /\ tpage[s] \in Pages /\ MutexFree(tpage[s])
                      /\ m = Reply("content", mem[tpage[s]])
<1> USE ConstantTypes DEF TableInv, TypeOK, WireTypeOK, ServerTypeOK
<1> DEFINE Sent == \E m \in Replies :
                /\ s2c'[s] = Append(s2c[s], m)
                /\ \/ m.cmd = "raw" \/ m = Reply("error", ErrorText) \/ m.body = Blank
                   \/ /\ ReadLockFree(s) \/ TakeTurn(s)
                      /\ tpage[s] \in Pages /\ MutexFree(tpage[s])
                      /\ m = Reply("content", mem[tpage[s]])
<1>1. ASSUME NEW m \in Replies, Deliver(s, m),
             \/ m.cmd = "raw" \/ m = Reply("error", ErrorText) \/ m.body = Blank
             \/ /\ ReadLockFree(s) \/ TakeTurn(s)
                /\ tpage[s] \in Pages /\ MutexFree(tpage[s])
                /\ m = Reply("content", mem[tpage[s]])
      PROVE  s2c'[s] = s2c[s] \/ Sent
  BY <1>1 DEF Deliver
<1>2. CASE ReadPage(s)
  <2>1. CASE tpage[s] \in Pages
    <3>1. Reply("raw", mem[tpage[s]]) \in Replies /\ Reply("raw", mem[tpage[s]]).cmd = "raw"
      BY <2>1 DEF Reply
    <3>2. Deliver(s, Reply("raw", mem[tpage[s]]))  BY <1>2, <2>1 DEF ReadPage
    <3>. QED BY <1>1, <3>1, <3>2
  <2>2. CASE tpage[s] \notin Pages
    <3>1. Deliver(s, Reply("error", ErrorText))  BY <1>2, <2>2 DEF ReadPage
    <3>. QED BY <1>1, <3>1
  <2>. QED BY <2>1, <2>2
<1>3. CASE ReadLockInvalid(s) \/ WriteRefused(s)
  <2>1. Deliver(s, Reply("error", ErrorText))  BY <1>3 DEF ReadLockInvalid, WriteRefused
  <2>. QED BY <1>1, <2>1
<1>4. CASE ReadLockBusy(s) \/ WriteEnd(s)
  <2>1. PICK cmd \in {"wait", "done"} :
            SendCommand(s, Reply(cmd, Blank)) \/ SendCommandFails(s, Reply(cmd, Blank))
    BY <1>4 DEF ReadLockBusy, WriteEnd
  <2>2. Reply(cmd, Blank) \in Replies /\ Reply(cmd, Blank).body = Blank  BY <2>1 DEF Reply
  <2>. QED BY <1>1, <2>1, <2>2 DEF SendCommand, SendCommandFails
<1>5. CASE ReadLockFree(s) \/ TakeTurn(s)
  <2>1. tpage[s] \in Pages /\ MutexFree(tpage[s])
    BY <1>5 DEF ReadLockFree, TakeTurn, OnePagePerSession, InTable
  <2>2. Reply("content", mem[tpage[s]]) \in Replies  BY <2>1
  <2>3. Deliver(s, Reply("content", mem[tpage[s]])) \/ UNCHANGED s2c
    BY <1>5 DEF ReadLockFree, TakeTurn, SendCommand, SendCommandFails
  <2>. QED BY <1>1, <1>5, <2>1, <2>2, <2>3
<1>6. CASE ~(\/ ReadPage(s) \/ ReadLockInvalid(s) \/ WriteRefused(s) \/ ReadLockBusy(s) \/ WriteEnd(s)
             \/ ReadLockFree(s) \/ TakeTurn(s))
  BY <1>6 DEF Server, ServerStep, Accept, AcceptFails, RecvCommand, RecvWrite, WriteBegin,
     CloseClient, wireVars
<1>. QED BY <1>2, <1>3, <1>4, <1>5, <1>6

\* What is in a sequence after one element was added, and after some were taken.
LEMMA ElementsAfterAppend ==
    ASSUME NEW S, NEW q \in Seq(S), NEW m \in S, NEW i \in DOMAIN Append(q, m)
    PROVE  \/ i \in DOMAIN q /\ Append(q, m)[i] = q[i]
           \/ i = Len(q) + 1 /\ Append(q, m)[i] = m
<1>1. CASE i \in DOMAIN q BY <1>1
<1>2. CASE i = Len(q) + 1 BY <1>2
<1>. QED BY <1>1, <1>2

LEMMA ElementsOfRest ==
    ASSUME NEW S, NEW q \in Seq(S), NEW n \in Nat, n <= Len(q), NEW i \in DOMAIN SubSeq(q, n + 1, Len(q))
    PROVE  i + n \in DOMAIN q /\ SubSeq(q, n + 1, Len(q))[i] = q[i + n]
OBVIOUS

\* What a program does to the channel that it reads and to the text it shows.
LEMMA ClientReads ==
    ASSUME TableInv, NEW s \in Sessions, Run(s) \/ Client(s) \/ Interrupt(s)
    PROVE  \/ s2c'[s] = <<>> /\ cpc'[s] \notin {"edit", "confirm"} /\ seen'[s] \in {seen[s], Blank}
           \/ /\ Submit(s) /\ cpc'[s] = "confirm"
              /\ s2c'[s] = s2c[s] /\ seen'[s] = seen[s]
           \/ /\ RecvLockReply(s) /\ cpc'[s] \in {"edit", "turn"}
              /\ \E n \in RecvCounts(s) : s2c'[s] = SubSeq(s2c[s], n + 1, Len(s2c[s]))
              /\ cpc'[s] = "turn" => seen'[s] = seen[s] /\ s2c[s][1].cmd \notin {"content", "error"}
              /\ cpc'[s] = "edit" => seen'[s] = s2c[s][1].body /\ s2c[s][1].cmd \in {"content", "error"}
<1> USE DEF TableInv, TypeOK, WireTypeOK, ClientTypeOK
<1>1. ASSUME Exit(s)
      PROVE  s2c'[s] = <<>> /\ cpc'[s] \notin {"edit", "confirm"} /\ seen'[s] \in {seen[s], Blank}
  BY <1>1 DEF Exit, ClientCloses
<1>2. CASE Run(s)
  BY <1>2 DEF Run, StartRead, StartWrite, Start
<1>3. CASE RecvPage(s) \/ RecvConfirm(s) \/ Interrupt(s)
  BY <1>1, <1>3 DEF RecvPage, RecvConfirm, Interrupt, Disconnect
<1>4. CASE RecvLockReply(s) /\ ~Exit(s)
  <2>1. PICK n \in RecvCounts(s) :
        LET cmd == ParsedCommand(s2c[s][1])
        IN  /\ cpc' = [cpc EXCEPT ![s] = IF cmd = "content" THEN "edit" ELSE "turn"]
            /\ seen' = [seen EXCEPT ![s] = IF cmd = "content" THEN s2c[s][1].body ELSE seen[s]]
            /\ s2c' = [s2c EXCEPT ![s] = SubSeq(s2c[s], n + 1, Len(s2c[s]))]
    BY <1>4 DEF RecvLockReply
  <2>2. s2c'[s] = SubSeq(s2c[s], n + 1, Len(s2c[s]))  BY <2>1
  <2>3. ParsedCommand(s2c[s][1]) = "content" <=> s2c[s][1].cmd \in {"content", "error"}
    BY DEF ParsedCommand
  <2>4. CASE ParsedCommand(s2c[s][1]) = "content"
    BY <1>4, <2>1, <2>2, <2>3, <2>4
  <2>5. CASE ParsedCommand(s2c[s][1]) # "content"
    BY <1>4, <2>1, <2>2, <2>3, <2>5
  <2>. QED BY <2>4, <2>5
<1>5. CASE Submit(s) /\ ~Exit(s)
  BY <1>5 DEF Submit
<1>. QED BY <1>1, <1>2, <1>3, <1>4, <1>5 DEF Client, ClientGoesOn

\* Grants are sent with page_mutex held: they carry no half-written text.
LEMMA StepTextsAreWhole ==
    ASSUME WriteInv, TextsAreWhole, "crash" \notin Faults, Next
    PROVE  TextsAreWhole'
<1> USE DEF WriteInv, TableInv, TypeOK, ServerTypeOK, WireTypeOK, ClientTypeOK
<1> DEFINE Shown(t) == \A i \in DOMAIN s2c[t] :
                            s2c[t][i].cmd # "raw" => s2c[t][i].body.id # "torn"
           Page(p) == MutexFree(p) => mem[p].id # "torn"
<1>1. /\ \A p \in Pages : Page(p)
      /\ \A t \in Sessions : Shown(t) /\ seen[t].id # "torn"
  BY DEF TextsAreWhole
<1>2. Blank.id # "torn" /\ ErrorText.id # "torn" /\ \A b \in Typed : Stored(b).id # "torn"
  BY SizesAssumption DEF Blank, ErrorText, Stored
<1>3. ASSUME NEW s \in Sessions, Server(s) PROVE TextsAreWhole'
  <2>1. UNCHANGED seen  BY <1>3 DEF Server, clientVars
  <2>2. ASSUME NEW t \in Sessions, t # s PROVE Shown(t)'  BY <1>1, <1>3, <2>2, OtherThreads
  <2>3. Shown(s)'
    <3>1. CASE s2c'[s] = s2c[s]  BY <1>1, <3>1
    <3>2. CASE s2c'[s] # s2c[s]
      <4>1. PICK m \in Replies :
                /\ s2c'[s] = Append(s2c[s], m)
                /\ \/ m.cmd = "raw" \/ m = Reply("error", ErrorText) \/ m.body = Blank
                   \/ /\ tpage[s] \in Pages /\ MutexFree(tpage[s])
                      /\ m = Reply("content", mem[tpage[s]])
        BY <1>3, <3>2, ChannelToClient
      <4>2. m.cmd # "raw" => m.body.id # "torn"  BY <1>1, <1>2, <4>1 DEF Reply
      <4>3. s2c[s] \in Seq(Replies)  OBVIOUS
      <4>4. ASSUME NEW i \in DOMAIN s2c'[s], s2c'[s][i].cmd # "raw"  PROVE s2c'[s][i].body.id # "torn"
        BY <1>1, <4>1, <4>2, <4>3, <4>4, ElementsAfterAppend
      <4>. QED BY <4>4
    <3>. QED BY <3>1, <3>2
  <2>4. ASSUME NEW p \in Pages PROVE Page(p)'
    <3>1. CASE WriteBegin(s) /\ tpage[s] \in Pages
      BY <1>1, <3>1, FdsAssumption DEF WriteBegin, MutexFree
    <3>2. CASE WriteEnd(s) /\ tpage[s] \in Pages
      <4>1. tnew[s] \in Typed  BY <3>2 DEF WriteEnd, NewTextsAreTyped
      <4>. QED BY <1>1, <1>2, <3>2, <4>1 DEF WriteEnd, MutexFree
    <3>3. CASE UNCHANGED <<mem, writer>>  BY <1>1, <3>3 DEF MutexFree
    <3>. QED BY <1>3, <3>1, <3>2, <3>3, MemoryStep
  <2>. QED BY <1>1, <2>1, <2>2, <2>3, <2>4 DEF TextsAreWhole
<1>4. ASSUME NEW s \in Sessions, Run(s) \/ Client(s) \/ Interrupt(s) PROVE TextsAreWhole'
  <2>1. \A p \in Pages : Page(p)'
    BY <1>1, <1>4 DEF Run, Client, Interrupt, serverVars, MutexFree
  <2>2. ASSUME NEW t \in Sessions, t # s PROVE Shown(t)' /\ seen'[t].id # "torn"
    BY <1>1, <1>4, <2>2, OtherPrograms
  <2>3. Shown(s)' /\ seen'[s].id # "torn"
    <3>1. CASE s2c'[s] = <<>> /\ seen'[s] \in {seen[s], Blank}
      <4>1. \A i \in DOMAIN <<>> : FALSE  OBVIOUS
      <4>2. Shown(s)'  BY <3>1, <4>1, Zenon
      <4>. QED BY <1>1, <1>2, <3>1, <4>2
    <3>2. CASE s2c'[s] = s2c[s] /\ seen'[s] = seen[s]  BY <1>1, <3>2
    <3>3. CASE /\ \E n \in RecvCounts(s) : s2c'[s] = SubSeq(s2c[s], n + 1, Len(s2c[s]))
               /\ \/ seen'[s] = seen[s]
                  \/ seen'[s] = s2c[s][1].body /\ s2c[s][1].cmd \in {"content", "error"}
      <4>1. PICK n \in RecvCounts(s) : s2c'[s] = SubSeq(s2c[s], n + 1, Len(s2c[s]))  BY <3>3
      <4>2. n \in Nat /\ 1 <= n /\ n <= Len(s2c[s])  BY <4>1 DEF RecvCounts
      <4>3. s2c[s] \in Seq(Replies) /\ 1 \in DOMAIN s2c[s]  BY <4>2
      <4>4. ASSUME NEW i \in DOMAIN s2c'[s], s2c'[s][i].cmd # "raw"  PROVE s2c'[s][i].body.id # "torn"
        BY <1>1, <4>1, <4>2, <4>3, <4>4, ElementsOfRest
      <4>5. seen'[s].id # "torn"  BY <1>1, <3>3, <4>3
      <4>. QED BY <4>4, <4>5
    <3>. QED BY <1>4, <3>1, <3>2, <3>3, ClientReads
  <2>. QED BY <2>1, <2>2, <2>3 DEF TextsAreWhole
<1>5. CASE Restart
  BY <1>5 DEF Restart, CrashRestart
<1>. QED BY <1>3, <1>4, <1>5 DEF Next

(***************************************************************************)
(* As long as the server does not die inside write_page, no client gets to *)
(* edit a half-written text, although read_page, which takes no mutex, can *)
(* send one: the grants of read_lock_page are sent with page_mutex held.   *)
(***************************************************************************)
THEOREM EditorsSeeWholeTexts ==
    ASSUME "crash" \notin Faults
    PROVE  Spec => []EditedTextIsWhole
<1>1. Init => TextsAreWhole
  BY DEF Init, WireInit, ServerInit, ClientInit, TextsAreWhole, Blank
<1>2. WriteInv /\ TextsAreWhole /\ [Next]_vars => TextsAreWhole'
  <2>1. ASSUME WriteInv, TextsAreWhole, Next PROVE TextsAreWhole'
    BY <2>1, StepTextsAreWhole
  <2>2. ASSUME TextsAreWhole, UNCHANGED vars PROVE TextsAreWhole'
    BY <2>2 DEF TextsAreWhole, MutexFree, vars, wireVars, serverVars, clientVars
  <2>. QED BY <2>1, <2>2
<1>3. TextsAreWhole => EditedTextIsWhole  BY DEF TextsAreWhole, EditedTextIsWhole
<1>. QED BY <1>1, <1>2, <1>3, WriteInduction, PTL DEF Spec

-----------------------------------------------------------------------------
(***************************************************************************)
(* Updates.  A thread that was given the page is the head of its queue, or *)
(* add_to_queue failed and its descriptor is not there at all; it cannot   *)
(* come in later, because only its own thread would put it there.          *)
(***************************************************************************)
LEMMA OthersKeepQueue ==
    ASSUME TableInv, NEW s \in Sessions, NEW t \in Sessions, t # s, Server(t),
           NEW p \in Pages, tpc[s] # "none"
    PROVE  /\ Absent(s, p) => Absent(s, p)'
           /\ AtHead(s, p) => AtHead(s, p)' /\ mem'[p] = mem[p]
<1> USE DEF TableInv, TypeOK, ServerTypeOK
<1>1. fd'[s] = fd[s] /\ fd[s] \in Fds /\ fd[s] # fd[t]
  BY OtherThreads DEF LiveFds
<1>2. ASSUME AtHead(s, p) PROVE AtHead(s, p)' /\ mem'[p] = mem[p]
  <2>1. AtHead(s, p)'  BY <1>2, HeadStays
  <2>2. ~AtHead(t, p)  BY <1>1, <1>2 DEF AtHead
  <2>3. WriteBegin(t) \/ WriteEnd(t) => tpage[t] # p
    BY <2>2 DEF WriteBegin, WriteEnd, Authorised, WritersAtHead
  <2>. QED BY <2>1, <2>3, MemoryStep DEF WriteBegin, WriteEnd
<1>3. ASSUME Absent(s, p) PROVE Absent(s, p)'
  <2>1. CASE queue'[p] = queue[p]  BY <1>1, <1>3, <2>1 DEF Absent
  <2>2. CASE queue'[p] = Append(queue[p], fd[t]) /\ queue'[p] # queue[p]
    <3>1. fd[t] \in Fds \/ fd[t] = NoFd  OBVIOUS
    <3>2. ASSUME NEW i \in DOMAIN queue'[p] PROVE queue'[p][i] # fd[s]
      <4>1. queue[p] \in Seq(Fds \cup {NoFd})  OBVIOUS
      <4>2. \/ i \in DOMAIN queue[p] /\ queue'[p][i] = queue[p][i]
            \/ queue'[p][i] = fd[t]
        BY <2>2, <4>1, ElementsAfterAppend
      <4>. QED BY <1>1, <1>3, <4>2 DEF Absent
    <3>. QED BY <1>1, <3>2 DEF Absent
  <2>3. CASE tpc[t] = "copy" /\ tpage[t] = p /\ queue'[p] = Tail(queue[p])
    <3>1. queue[p] # <<>> /\ queue[p] \in Seq(Fds)  BY <2>3 DEF WritersAtHead, AtHead
    <3>2. \A i \in DOMAIN Tail(queue[p]) : i + 1 \in DOMAIN queue[p] /\ Tail(queue[p])[i] = queue[p][i + 1]
      BY <3>1
    <3>. QED BY <1>1, <1>3, <2>3, <3>2 DEF Absent
  <2>. QED BY <2>1, <2>2, <2>3, QueueStep
<1>. QED BY <1>2, <1>3

\* A thread is given the page with an empty queue or from its head.
LEMMA StepHeadOrAbsent ==
    ASSUME TableInv, \A s \in Sessions : HeadOrAbsent(s), Next
    PROVE  \A s \in Sessions : HeadOrAbsent(s)'
<1> USE DEF TableInv, TypeOK, ServerTypeOK
<1>1. SUFFICES ASSUME NEW s \in Sessions, tpc'[s] \in {"grant", "write"}
               PROVE  AtHead(s, tpage[s])' \/ Absent(s, tpage[s])'
  BY DEF HeadOrAbsent
<1>2. ASSUME NEW t \in Sessions, Server(t), t # s PROVE AtHead(s, tpage[s])' \/ Absent(s, tpage[s])'
  <2>1. tpc[s] = tpc'[s] /\ tpage'[s] = tpage[s]  BY <1>2, OtherThreads
  <2>2. tpage[s] \in Pages  BY <1>1, <2>1 DEF OnePagePerSession, InTable
  <2>3. AtHead(s, tpage[s]) \/ Absent(s, tpage[s])  BY <1>1, <2>1 DEF HeadOrAbsent
  <2>4. PICK p \in Pages : p = tpage[s]  BY <2>2
  <2>5. AtHead(s, p)' \/ Absent(s, p)'  BY <1>1, <1>2, <2>1, <2>3, <2>4, OthersKeepQueue
  <2>. QED BY <2>1, <2>4, <2>5 DEF AtHead, Absent
<1>3. ASSUME Server(s) PROVE AtHead(s, tpage[s])' \/ Absent(s, tpage[s])'
  <2>1. CASE ReadLockFree(s)
    <3>1. /\ tpage[s] \in Pages /\ UNCHANGED <<fd, tpage>> /\ lock[tpage[s]] = 0
          /\ queue' = [queue EXCEPT ![tpage[s]] = Append(@, fd[s])] \/ UNCHANGED queue
      BY <1>1, <2>1 DEF ReadLockFree, AddToQueue, Goto
    <3>2. queue[tpage[s]] = <<>>  BY <3>1 DEF FreePageHasNoQueue
    <3>3. CASE UNCHANGED queue
      <4>1. \A i \in DOMAIN <<>> : FALSE  OBVIOUS
      <4>2. queue'[tpage'[s]] = <<>>  BY <3>1, <3>2, <3>3
      <4>. QED BY <4>1, <4>2, Zenon DEF Absent
    <3>4. CASE queue' = [queue EXCEPT ![tpage[s]] = Append(@, fd[s])]
      <4>1. queue'[tpage[s]] = <<fd[s]>>  BY <3>1, <3>2, <3>4
      <4>2. queue'[tpage[s]] # <<>> /\ Head(queue'[tpage[s]]) = fd[s]  BY <4>1
      <4>. QED BY <3>1, <4>2 DEF AtHead
    <3>. QED BY <3>1, <3>3, <3>4
  <2>2. CASE TakeTurn(s)  BY <2>2 DEF TakeTurn, tableVars, AtHead
  <2>3. CASE RecvWrite(s)
    <3>1. c2s[s] # <<>> /\ tpc[s] = "grant" /\ UNCHANGED <<queue, fd>>
      BY <1>1, <2>3 DEF RecvWrite, Goto, tableVars
    <3>2. Head(c2s[s]).page = cpage[s] /\ tpage[s] = cpage[s]
      BY <3>1, ReceivedRequest DEF OnePagePerSession, Serving
    <3>3. tpage'[s] = tpage[s]  BY <2>3, <3>1, <3>2 DEF RecvWrite
    <3>. QED BY <3>1, <3>3 DEF HeadOrAbsent, AtHead, Absent
  <2>4. CASE WriteBegin(s)  BY <1>1, <2>4 DEF WriteBegin, Goto
  <2>. QED BY <1>1, <1>3, <2>1, <2>2, <2>3, <2>4, NewOwner
<1>4. ASSUME NEW t \in Sessions, Run(t) \/ Client(t) \/ Interrupt(t)
      PROVE  AtHead(s, tpage[s])' \/ Absent(s, tpage[s])'
  BY <1>1, <1>4 DEF Run, Client, Interrupt, serverVars, HeadOrAbsent, AtHead, Absent
<1>5. ~Restart  BY <1>1 DEF Restart, CrashRestart
<1>. QED BY <1>2, <1>3, <1>4, <1>5 DEF Next

\* Other sessions do not touch what a client has been told.
LEMMA OthersKeepTold ==
    ASSUME UpdateInv, NEW s \in Sessions, NEW t \in Sessions, t # s,
           Server(t) \/ Run(t) \/ Client(t) \/ Interrupt(t)
    PROVE  ToldInv(s)'
<1> USE DEF UpdateInv, TableInv, TypeOK, ServerTypeOK
<1>1. /\ tpc'[s] = tpc[s] /\ fd'[s] = fd[s] /\ tpage'[s] = tpage[s] /\ sock'[s] = sock[s]
      /\ s2c'[s] = s2c[s] /\ cpc'[s] = cpc[s] /\ seen'[s] = seen[s]
  BY OtherThreads, OtherPrograms DEF Server, Run, Client, Interrupt, serverVars, clientVars
<1>2. ASSUME tpc[s] \in {"grant", "write"}, AtHead(s, tpage[s])'
      PROVE  AtHead(s, tpage[s]) /\ mem'[tpage[s]] = mem[tpage[s]]
  <2>1. PICK p \in Pages : p = tpage[s]  BY <1>2 DEF OnePagePerSession, InTable
  <2>2. AtHead(s, p)'  BY <1>1, <1>2, <2>1 DEF AtHead
  <2>3. AtHead(s, p) \/ Absent(s, p)  BY <1>2, <2>1 DEF HeadOrAbsent
  <2>4. CASE Server(t)
    <3>1. /\ Absent(s, p) => Absent(s, p)'
          /\ AtHead(s, p) => mem'[p] = mem[p]
      BY <1>2, <2>4, OthersKeepQueue
    <3>2. queue'[p] \in Seq(Fds)
      BY <2>4, ServerType
    <3>3. ~Absent(s, p)'
      <4>1. queue'[p] # <<>> /\ Head(queue'[p]) = fd'[s]  BY <2>2 DEF AtHead
      <4>2. 1 \in DOMAIN queue'[p] /\ queue'[p][1] = fd'[s]  BY <3>2, <4>1
      <4>. QED BY <4>2 DEF Absent
    <3>. QED BY <2>1, <2>3, <3>1, <3>3
  <2>5. CASE Run(t) \/ Client(t) \/ Interrupt(t)
    BY <2>1, <2>2, <2>5 DEF Run, Client, Interrupt, serverVars, AtHead
  <2>. QED BY <2>4, <2>5
<1>3. ToldInv(s)  OBVIOUS
<1>. QED BY <1>1, <1>2, <1>3 DEF ToldInv, Editing

\* What the thread itself tells its client.
LEMMA ThreadTells ==
    ASSUME UpdateInv, NEW s \in Sessions, Server(s)
    PROVE  ToldInv(s)'
<1> USE DEF UpdateInv, TableInv, TypeOK, ServerTypeOK, WireTypeOK
<1>1. cpc' = cpc /\ seen' = seen /\ ToldInv(s)  BY DEF Server, clientVars
<1>2. CASE Accept(s) \/ RecvCommand(s)
  <2>1. /\ tpc[s] \in {"none", "recv"} /\ "server" \in sock[s] /\ s2c' = s2c
        /\ tpc'[s] \in {"recv", "read", "lock", "close"}
    BY <1>2, ReceivedRequest DEF Accept, RecvCommand, Goto, ThreadsAreConnected, Requests, wireVars
  <2>. QED BY <1>1, <2>1 DEF ToldInv, Editing
<1>3. CASE AcceptFails(s) \/ CloseClient(s)
  <2>1. "server" \notin sock'[s] /\ tpc'[s] = "none"
    BY <1>3 DEF AcceptFails, CloseClient, ServerCloses, Goto, serverVars
  <2>. QED BY <2>1 DEF ToldInv
<1>4. CASE tpc'[s] \in {"close", "copy"}
  BY <1>4 DEF ToldInv
<1>5. CASE ReadLockBusy(s) /\ tpc'[s] # "close"
  <2>1. /\ tpc[s] = "lock" /\ tpc'[s] = "wait" /\ "server" \in sock[s]
        /\ Deliver(s, Reply("wait", Blank))
    BY <1>5 DEF ReadLockBusy, Goto, SendCommand, ThreadsAreConnected
  <2>2. s2c[s] = <<>> /\ ~Editing(s)  BY <1>1, <2>1 DEF ToldInv
  <2>3. s2c'[s] = <<>> \/ s2c'[s] = <<Reply("wait", Blank)>>  BY <2>1, <2>2 DEF Deliver
  <2>4. \A i \in DOMAIN s2c'[s] : s2c'[s][i].cmd = "wait"
    <3>1. \A i \in DOMAIN <<>> : FALSE  OBVIOUS
    <3>2. CASE s2c'[s] = <<>>  BY <3>1, <3>2, Zenon
    <3>3. CASE s2c'[s] = <<Reply("wait", Blank)>>  BY <3>3 DEF Reply
    <3>. QED BY <2>3, <3>2, <3>3
  <2>. QED BY <1>1, <2>1, <2>2, <2>4 DEF ToldInv, Editing
<1>6. CASE (ReadLockFree(s) \/ TakeTurn(s)) /\ tpc'[s] # "close"
  <2>1. /\ tpc[s] \in {"lock", "wait"} /\ tpc'[s] = "grant" /\ "server" \in sock[s]
        /\ UNCHANGED <<mem, tpage>> /\ tpage[s] \in Pages
        /\ Deliver(s, Reply("content", mem[tpage[s]]))
    BY <1>6 DEF ReadLockFree, TakeTurn, Goto, SendCommand, ThreadsAreConnected, OnePagePerSession,
       InTable, tableVars
  <2>2. ~Editing(s) /\ \A i \in DOMAIN s2c[s] : s2c[s][i].cmd = "wait"
    <3>1. \A i \in DOMAIN <<>> : FALSE  OBVIOUS
    <3>2. CASE tpc[s] = "lock"
      <4>1. s2c[s] = <<>> /\ ~Editing(s)  BY <1>1, <2>1, <3>2 DEF ToldInv
      <4>. QED BY <3>1, <4>1, Zenon
    <3>3. CASE tpc[s] = "wait"  BY <1>1, <3>3 DEF ToldInv
    <3>. QED BY <2>1, <3>2, <3>3
  <2>3. PICK b \in Bodies : b = mem[tpage[s]]  BY <2>1
  <2>4. Reply("content", b) \in Replies  BY ConstantTypes
  <2>5. s2c'[s] = s2c[s] \/ s2c'[s] = Append(s2c[s], Reply("content", b))
    BY <2>1, <2>3 DEF Deliver
  <2>6. s2c[s] \in Seq(Replies)  OBVIOUS
  <2>7. ASSUME NEW i \in DOMAIN s2c'[s]
        PROVE  s2c'[s][i].cmd = "wait" \/ (s2c'[s][i].cmd = "content" /\ s2c'[s][i].body = b)
    <3>1. Reply("content", b).cmd = "content" /\ Reply("content", b).body = b  BY DEF Reply
    <3>2. CASE s2c'[s] = s2c[s]  BY <2>2, <2>7, <3>2
    <3>3. CASE s2c'[s] = Append(s2c[s], Reply("content", b))
      <4>1. \/ i \in DOMAIN s2c[s] /\ s2c'[s][i] = s2c[s][i]
            \/ s2c'[s][i] = Reply("content", b)
        BY <2>4, <2>6, <2>7, <3>3, ElementsAfterAppend
      <4>. QED BY <2>2, <3>1, <4>1
    <3>. QED BY <2>5, <3>2, <3>3
  <2>. QED BY <1>1, <2>1, <2>2, <2>3, <2>7 DEF ToldInv, Editing
<1>7. CASE RecvWrite(s) /\ tpc'[s] # "close"
  <2>1. c2s[s] # <<>> /\ tpc[s] = "grant" /\ tpc'[s] = "write" /\ UNCHANGED <<queue, fd, mem, s2c>>
    BY <1>7 DEF RecvWrite, Goto, tableVars
  <2>2. Head(c2s[s]).page = cpage[s] /\ tpage[s] = cpage[s]
    BY <2>1, ReceivedRequest DEF OnePagePerSession, Serving
  <2>3. tpage'[s] = tpage[s]  BY <1>7, <2>1, <2>2 DEF RecvWrite
  <2>4. AtHead(s, tpage[s])' => AtHead(s, tpage[s])  BY <2>1, <2>3 DEF AtHead
  <2>. QED BY <1>1, <2>1, <2>3, <2>4 DEF ToldInv, Editing
<1>8. CASE ReadPage(s) \/ ReadLockInvalid(s) \/ WriteRefused(s) \/ WriteBegin(s) \/ WriteEnd(s)
  <2>1. tpc'[s] \in {"close", "copy"}
    BY <1>8 DEF ReadPage, ReadLockInvalid, WriteRefused, WriteBegin, WriteEnd, Goto
  <2>. QED BY <1>4, <2>1
<1>. QED BY <1>2, <1>3, <1>4, <1>5, <1>6, <1>7, <1>8 DEF Server, ServerStep

\* What the client makes of it.
LEMMA ProgramIsTold ==
    ASSUME UpdateInv, NEW s \in Sessions, Run(s) \/ Client(s) \/ Interrupt(s)
    PROVE  ToldInv(s)'
<1> USE DEF UpdateInv, TableInv, TypeOK, ServerTypeOK, WireTypeOK
<1>1. UNCHANGED <<tpc, tpage, queue, fd, mem>> /\ ToldInv(s)
  BY DEF Run, Client, Interrupt, serverVars
<1>2. AtHead(s, tpage[s])' <=> AtHead(s, tpage[s])  BY <1>1 DEF AtHead
<1>3. CASE s2c'[s] = <<>> /\ cpc'[s] \notin {"edit", "confirm"}
  <2>1. \A i \in DOMAIN <<>> : FALSE  OBVIOUS
  <2>2. ~\E i \in DOMAIN s2c'[s] : TRUE  BY <1>3, <2>1, Zenon
  <2>. QED BY <1>3, <2>2 DEF ToldInv, Editing
<1>4. CASE Submit(s) /\ cpc'[s] = "confirm" /\ s2c'[s] = s2c[s] /\ seen'[s] = seen[s]
  <2>1. Editing(s)  BY <1>4 DEF Submit, Editing
  <2>2. "server" \in sock'[s] => "server" \in sock[s]
    BY <1>4, ClientEnd DEF Client, ClientGoesOn, Submit, Exit, ClientCloses
  <2>3. ~("server" \in sock[s] /\ tpc[s] \in {"none", "recv", "read", "lock"}) /\ tpc[s] # "wait"
    BY <1>1, <2>1 DEF ToldInv
  <2>. QED BY <1>1, <1>2, <1>4, <2>1, <2>2, <2>3 DEF ToldInv
<1>5. CASE /\ RecvLockReply(s) /\ cpc'[s] \in {"edit", "turn"}
           /\ \E n \in RecvCounts(s) : s2c'[s] = SubSeq(s2c[s], n + 1, Len(s2c[s]))
           /\ cpc'[s] = "turn" => seen'[s] = seen[s] /\ s2c[s][1].cmd \notin {"content", "error"}
           /\ cpc'[s] = "edit" => seen'[s] = s2c[s][1].body /\ s2c[s][1].cmd \in {"content", "error"}
  <2>1. PICK n \in RecvCounts(s) : s2c'[s] = SubSeq(s2c[s], n + 1, Len(s2c[s]))  BY <1>5
  <2>2. n \in Nat /\ 1 <= n /\ n <= Len(s2c[s]) /\ s2c[s] \in Seq(Replies)  BY <2>1 DEF RecvCounts
  <2>3. 1 \in DOMAIN s2c[s] /\ s2c[s] # <<>>  BY <2>2
  <2>4. \A i \in DOMAIN s2c'[s] : i + n \in DOMAIN s2c[s] /\ s2c'[s][i] = s2c[s][i + n]
    BY <2>1, <2>2, ElementsOfRest
  <2>5. "server" \in sock'[s] => "server" \in sock[s]
    <3>1. Client(s)
      <4>1. ClientGoesOn(s)  BY <1>5 DEF ClientGoesOn
      <4>2. UNCHANGED serverVars  BY DEF Run, Client, Interrupt
      <4>. QED BY <4>1, <4>2 DEF Client
    <3>. QED BY <3>1, ClientEnd
  <2>6. ~("server" \in sock[s] /\ tpc[s] \in {"none", "recv", "read", "lock"})
    BY <1>1, <2>3 DEF ToldInv
  <2>7. CASE tpc[s] = "wait"
    <3>1. s2c[s][1].cmd = "wait"  BY <1>1, <2>3, <2>7 DEF ToldInv
    <3>2. cpc'[s] = "turn"  BY <1>5, <3>1
    <3>. QED BY <1>1, <2>4, <2>5, <2>6, <2>7, <3>2 DEF ToldInv, Editing
  <2>8. CASE tpc[s] # "wait"
    <3>1. ASSUME tpc[s] \in {"grant", "write"}, AtHead(s, tpage[s])
          PROVE  /\ Editing(s)' => seen'[s] = mem[tpage[s]]
                 /\ \A i \in DOMAIN s2c'[s] :
                        \/ s2c'[s][i].cmd = "wait"
                        \/ s2c'[s][i].cmd = "content" /\ s2c'[s][i].body = mem[tpage[s]]
      <4>1. \A i \in DOMAIN s2c[s] :
                \/ s2c[s][i].cmd = "wait"
                \/ s2c[s][i].cmd = "content" /\ s2c[s][i].body = mem[tpage[s]]
        BY <1>1, <3>1 DEF ToldInv
      <4>2. Editing(s)' => seen'[s] = mem[tpage[s]]
        BY <1>5, <2>3, <4>1 DEF Editing
      <4>. QED BY <2>4, <4>1, <4>2
    <3>. QED BY <1>1, <1>2, <2>5, <2>6, <2>8, <3>1 DEF ToldInv
  <2>. QED BY <2>7, <2>8
<1>. QED BY <1>3, <1>4, <1>5, ClientReads

\* UpdateInv is inductive, whatever the faults.
LEMMA UpdateInduction == Spec => []UpdateInv
<1>1. Init => UpdateInv
  BY InitTable DEF UpdateInv, HeadOrAbsent, ToldInv, Init, WireInit, ServerInit, NoThreads
<1>2. UpdateInv /\ [Next]_vars => UpdateInv'
  <2>1. ASSUME UpdateInv, Next PROVE UpdateInv'
    <3>1. TableInv' /\ \A s \in Sessions : HeadOrAbsent(s)'
      BY <2>1, StepTable, StepHeadOrAbsent DEF UpdateInv
    <3>2. ASSUME NEW s \in Sessions, NEW t \in Sessions,
                 Server(t) \/ Run(t) \/ Client(t) \/ Interrupt(t)
          PROVE  ToldInv(s)'
      BY <2>1, <3>2, OthersKeepTold, ThreadTells, ProgramIsTold
    <3>3. ASSUME NEW s \in Sessions, Restart  PROVE ToldInv(s)'
      <4>1. tpc'[s] = "none" /\ "server" \notin sock'[s]
        BY <3>3 DEF Restart, CrashRestart, ServerCloses
      <4>. QED BY <4>1 DEF ToldInv
    <3>. QED BY <2>1, <3>1, <3>2, <3>3 DEF Next, UpdateInv
  <2>2. ASSUME UpdateInv, UNCHANGED vars PROVE UpdateInv'
    BY <2>2, StepTable DEF UpdateInv, HeadOrAbsent, ToldInv, AtHead, Absent, Editing, vars, serverVars,
       wireVars, clientVars
  <2>. QED BY <2>1, <2>2
<1>. QED BY <1>1, <1>2, PTL DEF Spec

(***************************************************************************)
(* Under every combination of faults, add_to_queue without memory and a    *)
(* restart on the old segment included: whoever passes the check of        *)
(* write_page replaces the very text that its user has been editing.       *)
(***************************************************************************)
THEOREM UpdatesAreNotLost == Spec => []NoLostUpdate
<1>1. ASSUME UpdateInv PROVE NoLostUpdate
  <2>1. SUFFICES ASSUME NEW s \in Sessions, cpc[s] \in {"edit", "confirm"},
                        tpc[s] \in {"grant", "write"}, Authorised(s)
                 PROVE  seen[s] = mem[cpage[s]]
    BY DEF NoLostUpdate
  <2>2. tpage[s] = cpage[s]  BY <1>1, <2>1 DEF UpdateInv, TableInv, OnePagePerSession, Serving
  <2>3. ToldInv(s)  BY <1>1 DEF UpdateInv
  <2>. QED BY <2>1, <2>2, <2>3 DEF ToldInv, Editing, Authorised
<1>. QED BY <1>1, UpdateInduction, PTL

-----------------------------------------------------------------------------
(***************************************************************************)
(* EditedPages.  The editor of a page is the one thread that has been      *)
(* given it, and a write counts from write_page's first step.              *)
(***************************************************************************)
ImplInv == WriteInv /\ GrantInv

LEMMA OneEditor ==
    ASSUME GrantInv, NEW p \in Pages
    PROVE  /\ \A s \in Sessions : Edits(s, p) => PageEditor[p] = s
           /\ (\A s \in Sessions : ~Edits(s, p)) => PageEditor[p] = NoSession
           /\ \A s, t \in Sessions : Edits(s, p) /\ Edits(t, p) => s = t
<1>1. \A s, t \in Sessions : Edits(s, p) /\ Edits(t, p) => s = t
  BY DEF GrantInv, TableInv, OwnersAtHead, AtHead, LiveFds, Edits
<1>2. PageEditor[p] = IF \E s \in Sessions : Edits(s, p) THEN CHOOSE s \in Sessions : Edits(s, p)
                      ELSE NoSession
  BY DEF PageEditor
<1>3. ASSUME NEW s \in Sessions, Edits(s, p) PROVE PageEditor[p] = s
  <2>1. PICK e \in Sessions : e = (CHOOSE t \in Sessions : Edits(t, p)) /\ Edits(e, p)
    BY <1>3
  <2>. QED BY <1>1, <1>2, <1>3, <2>1
<1>. QED BY <1>1, <1>2, <1>3

\* The same in the next state.
LEMMA OneEditorNext ==
    ASSUME GrantInv', NEW p \in Pages
    PROVE  /\ \A s \in Sessions : Edits(s, p)' => PageEditor'[p] = s
           /\ (\A s \in Sessions : ~Edits(s, p)') => PageEditor'[p] = NoSession
           /\ \A s, t \in Sessions : Edits(s, p)' /\ Edits(t, p)' => s = t
<1>1. \A s, t \in Sessions : Edits(s, p)' /\ Edits(t, p)' => s = t
  BY DEF GrantInv, TableInv, OwnersAtHead, AtHead, LiveFds, Edits
<1>2. PageEditor'[p] = IF \E s \in Sessions : Edits(s, p)' THEN CHOOSE s \in Sessions : Edits(s, p)'
                      ELSE NoSession
  BY DEF PageEditor
<1>3. ASSUME NEW s \in Sessions, Edits(s, p)' PROVE PageEditor'[p] = s
  <2>1. PICK e \in Sessions : e = (CHOOSE t \in Sessions : Edits(t, p)') /\ Edits(e, p)'
    BY <1>3
  <2>. QED BY <1>1, <1>2, <1>3, <2>1
<1>. QED BY <1>1, <1>2, <1>3

\* Only the thread that takes the step can become or cease to be an editor.
LEMMA EditorStep ==
    ASSUME GrantInv, GrantInv', NEW s \in Sessions,
           \A t \in Sessions \ {s}, q \in Pages : Edits(t, q)' <=> Edits(t, q)
    PROVE  /\ (\A q \in Pages : Edits(s, q)' <=> Edits(s, q)) => PageEditor' = PageEditor
           /\ \A p \in Pages : Edits(s, p)' /\ (\A q \in Pages : ~Edits(s, q)) =>
                    PageEditor[p] = NoSession /\ PageEditor' = [PageEditor EXCEPT ![p] = s]
           /\ \A p \in Pages : Edits(s, p) /\ (\A q \in Pages : ~Edits(s, q)') =>
                    PageEditor[p] = s /\ PageEditor' = [PageEditor EXCEPT ![p] = NoSession]
<1>1. PageEditor = [q \in Pages |-> PageEditor[q]] /\ PageEditor' = [q \in Pages |-> PageEditor'[q]]
  BY DEF PageEditor
<1>2. ASSUME NEW q \in Pages, Edits(s, q)' <=> Edits(s, q) PROVE PageEditor'[q] = PageEditor[q]
  BY <1>2, OneEditor, OneEditorNext
<1>3. ASSUME NEW p \in Pages, Edits(s, p)', \A q \in Pages : ~Edits(s, q)
      PROVE  PageEditor[p] = NoSession /\ PageEditor' = [PageEditor EXCEPT ![p] = s]
  <2>1. PageEditor'[p] = s /\ PageEditor[p] = NoSession  BY <1>3, OneEditor, OneEditorNext
  <2>2. \A q \in Pages : Edits(s, q)' => q = p  BY <1>3 DEF Edits
  <2>3. \A q \in Pages \ {p} : PageEditor'[q] = PageEditor[q]  BY <1>2, <1>3, <2>2
  <2>. QED BY <1>1, <2>1, <2>3
<1>4. ASSUME NEW p \in Pages, Edits(s, p), \A q \in Pages : ~Edits(s, q)'
      PROVE  PageEditor[p] = s /\ PageEditor' = [PageEditor EXCEPT ![p] = NoSession]
  <2>1. PageEditor[p] = s /\ PageEditor'[p] = NoSession  BY <1>4, OneEditor, OneEditorNext
  <2>2. \A q \in Pages : Edits(s, q) => q = p  BY <1>4 DEF Edits
  <2>3. \A q \in Pages \ {p} : PageEditor'[q] = PageEditor[q]  BY <1>2, <1>4, <2>2
  <2>. QED BY <1>1, <2>1, <2>3
<1>5. (\A q \in Pages : Edits(s, q)' <=> Edits(s, q)) => PageEditor' = PageEditor
  BY <1>1, <1>2
<1>. QED BY <1>3, <1>4, <1>5

\* The text of a page is the last one that was typed for it.
LEMMA TextStep ==
    ASSUME ImplInv, NEW s \in Sessions, Server(s)
    PROVE  /\ ~WriteBegin(s) => PageText' = PageText
           /\ WriteBegin(s) => PageText' = [PageText EXCEPT ![tpage[s]] = Stored(tnew[s])]
<1> USE DEF ImplInv, WriteInv, TableInv, TypeOK, ServerTypeOK
<1>1. /\ PageText = [q \in Pages |-> PageText[q]] /\ PageText' = [q \in Pages |-> PageText'[q]]
      /\ \A q \in Pages : PageText[q] = IF writer[q] = NoSession THEN mem[q] ELSE Stored(tnew[writer[q]])
      /\ \A q \in Pages : PageText'[q] = IF writer'[q] = NoSession THEN mem'[q] ELSE Stored(tnew'[writer'[q]])
  BY DEF PageText, MutexFree, Stored
<1>2. ASSUME NEW q \in Pages, writer'[q] = writer[q], mem'[q] = mem[q], ~WriteEnd(s)
      PROVE  PageText'[q] = PageText[q]
  <2>1. CASE writer[q] = NoSession  BY <1>1, <1>2, <2>1
  <2>2. CASE writer[q] # NoSession
    <3>1. writer[q] \in Sessions /\ tpc[writer[q]] = "copy"  BY <2>2 DEF WritersHoldMutex
    <3>2. writer[q] # s
      BY <1>2, <3>1 DEF Server, ServerStep, Accept, AcceptFails, RecvCommand, ReadPage, ReadLockInvalid,
         ReadLockBusy, ReadLockFree, TakeTurn, RecvWrite, WriteRefused, WriteBegin, CloseClient
    <3>3. tnew'[writer[q]] = tnew[writer[q]]  BY <3>1, <3>2, OtherThreads
    <3>. QED BY <1>1, <1>2, <2>2, <3>3
  <2>. QED BY <2>1, <2>2
<1>3. CASE UNCHANGED <<mem, writer>> /\ ~WriteBegin(s) /\ ~WriteEnd(s)
  <2>1. \A q \in Pages : PageText'[q] = PageText[q]  BY <1>2, <1>3
  <2>. QED BY <1>1, <1>3, <2>1
<1>4. CASE WriteBegin(s) /\ tpage[s] \in Pages
  <2>1. /\ writer' = [writer EXCEPT ![tpage[s]] = s] /\ UNCHANGED tnew /\ tpc[s] = "write"
        /\ \A q \in Pages \ {tpage[s]} : mem'[q] = mem[q]
    BY <1>4 DEF WriteBegin
  <2>2. ~WriteEnd(s)  BY <2>1 DEF WriteEnd
  <2>3. \A q \in Pages \ {tpage[s]} : PageText'[q] = PageText[q]  BY <1>2, <2>1, <2>2
  <2>4. PageText'[tpage[s]] = Stored(tnew[s])
    <3>1. writer'[tpage[s]] = s /\ s # NoSession /\ tnew'[s] = tnew[s]  BY <1>4, <2>1, FdsAssumption
    <3>. QED BY <1>1, <1>4, <3>1
  <2>. QED BY <1>1, <1>4, <2>3, <2>4
<1>5. CASE WriteEnd(s) /\ tpage[s] \in Pages
  <2>1. /\ writer' = [writer EXCEPT ![tpage[s]] = NoSession] /\ UNCHANGED tnew /\ tpc[s] = "copy"
        /\ mem' = [mem EXCEPT ![tpage[s]] = Stored(tnew[s])]
    BY <1>5 DEF WriteEnd
  <2>2. writer[tpage[s]] = s /\ s # NoSession  BY <1>5, <2>1, FdsAssumption DEF WritersHoldMutex
  <2>3. PageText'[tpage[s]] = Stored(tnew[s]) /\ PageText[tpage[s]] = Stored(tnew[s])
    BY <1>1, <1>5, <2>1, <2>2
  <2>4. ASSUME NEW q \in Pages \ {tpage[s]} PROVE PageText'[q] = PageText[q]
    BY <1>1, <2>1, <2>4
  <2>5. ~WriteBegin(s)  BY <2>1 DEF WriteBegin
  <2>. QED BY <1>1, <2>3, <2>4, <2>5
<1>. QED BY <1>3, <1>4, <1>5, MemoryStep

\* Every step is one of EditedPages or leaves its variables alone.
LEMMA StepImplements ==
    ASSUME ImplInv, ImplInv', Next, "crash" \notin Faults
    PROVE  Abstract!Next \/ UNCHANGED <<PageText, PageEditor>>
<1> USE DEF ImplInv, WriteInv, TableInv, TypeOK, ServerTypeOK
<1>1. ASSUME NEW s \in Sessions, Server(s) PROVE Abstract!Next \/ UNCHANGED <<PageText, PageEditor>>
  <2>1. \A t \in Sessions \ {s}, q \in Pages : Edits(t, q)' <=> Edits(t, q)
    BY <1>1, OtherThreads DEF Edits
  <2>2. CASE tpc[s] \notin {"grant", "write"} /\ tpc'[s] \notin {"grant", "write"}
    <3>1. ~WriteBegin(s)  BY <2>2 DEF WriteBegin
    <3>2. \A q \in Pages : Edits(s, q)' <=> Edits(s, q)  BY <2>2 DEF Edits
    <3>. QED BY <1>1, <2>1, <3>1, <3>2, TextStep, EditorStep
  <2>3. CASE tpc[s] \notin {"grant", "write"} /\ tpc'[s] \in {"grant", "write"}
    <3>1. ~WriteBegin(s) /\ tpage'[s] \in Pages /\ \A q \in Pages : ~Edits(s, q)
      BY <2>3 DEF WriteBegin, Edits, OnePagePerSession, InTable
    <3>2. PICK p \in Pages : p = tpage'[s]  BY <3>1
    <3>3. Edits(s, p)'  BY <2>3, <3>2 DEF Edits
    <3>4. PageEditor[p] = NoSession /\ PageEditor' = [PageEditor EXCEPT ![p] = s]
      BY <2>1, <3>1, <3>3, EditorStep
    <3>5. PageText' = PageText  BY <1>1, <3>1, TextStep
    <3>6. Abstract!Take(p, s)  BY <3>4, <3>5 DEF Abstract!Take
    <3>. QED BY <3>6 DEF Abstract!Next
  <2>4. CASE tpc[s] \in {"grant", "write"} /\ tpc'[s] \notin {"grant", "write"}
    <3>1. PICK p \in Pages : p = tpage[s]  BY <2>4 DEF OnePagePerSession, InTable
    <3>2. Edits(s, p) /\ \A q \in Pages : ~Edits(s, q)'  BY <2>4, <3>1 DEF Edits
    <3>3. PageEditor[p] = s /\ PageEditor' = [PageEditor EXCEPT ![p] = NoSession]
      BY <2>1, <3>2, EditorStep
    <3>4. CASE WriteBegin(s)
      <4>1. PageText' = [PageText EXCEPT ![p] = Stored(tnew[s])]  BY <1>1, <3>1, <3>4, TextStep
      <4>2. tnew[s] \in Typed  BY <3>4 DEF WriteBegin, NewTextsAreTyped
      <4>3. PICK b \in Typed : b = tnew[s]  BY <4>2
      <4>4. Abstract!Store(p, s)  BY <3>3, <4>1, <4>3 DEF Abstract!Store
      <4>. QED BY <4>4 DEF Abstract!Next
    <3>5. CASE ~WriteBegin(s)
      <4>1. PageText' = PageText  BY <1>1, <3>5, TextStep
      <4>2. Abstract!Leave(p, s)  BY <3>3, <4>1 DEF Abstract!Leave
      <4>. QED BY <4>2 DEF Abstract!Next
    <3>. QED BY <3>4, <3>5
  <2>5. CASE tpc[s] \in {"grant", "write"} /\ tpc'[s] \in {"grant", "write"}
    <3>1. RecvWrite(s)
      <4>1. ReadLockFree(s) \/ TakeTurn(s) \/ RecvWrite(s) \/ WriteBegin(s)
        BY <1>1, <2>5, NewOwner
      <4>. QED BY <2>5, <4>1 DEF ReadLockFree, TakeTurn, WriteBegin, Goto
    <3>2. c2s[s] # <<>> /\ tpc[s] = "grant"  BY <2>5, <3>1 DEF RecvWrite, Goto
    <3>3. Head(c2s[s]).page = cpage[s] /\ tpage[s] = cpage[s]
      BY <3>2, ReceivedRequest DEF OnePagePerSession, Serving
    <3>4. tpage'[s] = tpage[s] /\ ~WriteBegin(s)  BY <3>1, <3>2, <3>3 DEF RecvWrite, WriteBegin
    <3>5. \A q \in Pages : Edits(s, q)' <=> Edits(s, q)  BY <2>5, <3>4 DEF Edits
    <3>. QED BY <1>1, <2>1, <3>4, <3>5, TextStep, EditorStep
  <2>. QED BY <2>2, <2>3, <2>4, <2>5
<1>2. ASSUME NEW s \in Sessions, Run(s) \/ Client(s) \/ Interrupt(s)
      PROVE  UNCHANGED <<PageText, PageEditor>>
  <2>1. UNCHANGED serverVars  BY <1>2 DEF Run, Client, Interrupt
  <2>. QED BY <2>1 DEF serverVars, PageText, PageEditor, MutexFree, Edits, Stored
<1>3. ~Restart  BY DEF Restart, CrashRestart
<1>. QED BY <1>1, <1>2, <1>3 DEF Next

(***************************************************************************)
(* As long as add_to_queue finds memory and the server does not die, the   *)
(* page server and its clients implement EditedPages, for any number of    *)
(* them: a page is edited by one client at a time, and its text changes    *)
(* only by a complete write of the client that was given it.               *)
(***************************************************************************)
THEOREM Refinement ==
    ASSUME "malloc" \notin Faults, "crash" \notin Faults
    PROVE  Spec => ImplementsEditedPages
<1>1. Init => Abstract!Init
  <2> SUFFICES ASSUME Init PROVE Abstract!Init  OBVIOUS
  <2>1. /\ writer = [p \in Pages |-> NoSession] /\ mem = [p \in Pages |-> Blank]
        /\ \A s \in Sessions : tpc[s] = "none"
    BY DEF Init, ServerInit, TableInit, NoThreads
  <2>2. PageText = [p \in Pages |-> Blank]  BY <2>1 DEF PageText, MutexFree
  <2>3. PageEditor = [p \in Pages |-> NoSession]  BY <2>1 DEF PageEditor, Edits
  <2>. QED BY <2>2, <2>3 DEF Abstract!Init
<1>2. ImplInv /\ ImplInv' /\ [Next]_vars => [Abstract!Next]_<<PageText, PageEditor>>
  <2>1. ASSUME UNCHANGED vars PROVE UNCHANGED <<PageText, PageEditor>>
    BY <2>1 DEF vars, serverVars, PageText, PageEditor, MutexFree, Edits, Stored
  <2>. QED BY <2>1, StepImplements
<1>3. Spec => []ImplInv
  <2>1. WriteInv /\ GrantInv => ImplInv  BY DEF ImplInv
  <2>. QED BY <2>1, WriteInduction, GrantInduction, PTL
<1>. QED BY <1>1, <1>2, <1>3, PTL DEF Spec, ImplementsEditedPages, Abstract!Spec

-----------------------------------------------------------------------------
(***************************************************************************)
(* The order of the queue.                                                 *)
(***************************************************************************)
LEMMA StepProgramsAreConnected ==
    ASSUME TableInv, ProgramsAreConnected, Next
    PROVE  ProgramsAreConnected'
<1> USE DEF TableInv, TypeOK, WireTypeOK, ClientTypeOK, ProgramsAreConnected
<1>1. ASSUME NEW s \in Sessions, Server(s) PROVE ProgramsAreConnected'
  <2>1. UNCHANGED cpc  BY <1>1 DEF Server, clientVars
  <2>2. \A t \in Sessions : "client" \in sock[t] => "client" \in sock'[t]
    BY <1>1 DEF Server, ServerStep, Accept, AcceptFails, RecvCommand, ReadPage, ReadLockInvalid,
       ReadLockBusy, ReadLockFree, TakeTurn, RecvWrite, WriteRefused, WriteBegin, WriteEnd,
       CloseClient, ServerCloses, wireVars
  <2>. QED BY <2>1, <2>2
<1>2. ASSUME NEW s \in Sessions, Run(s) \/ Client(s) \/ Interrupt(s) PROVE ProgramsAreConnected'
  <2>1. ASSUME NEW t \in Sessions, t # s, cpc'[t] # "idle" PROVE "client" \in sock'[t]
    BY <1>2, <2>1, OtherPrograms
  <2>2. CASE Run(s)  BY <2>1, <2>2 DEF Run, StartRead, StartWrite, Start, Ends
  <2>3. CASE Exit(s)  BY <2>1, <2>3 DEF Exit
  <2>4. CASE ~Exit(s) /\ ~Run(s)
    <3>1. UNCHANGED sock /\ cpc[s] # "idle"
      BY <1>2, <2>4 DEF Client, Interrupt, ClientGoesOn, RecvPage, RecvLockReply, Submit, RecvConfirm,
         Disconnect
    <3>. QED BY <2>1, <3>1
  <2>. QED BY <2>2, <2>3, <2>4
<1>3. CASE Restart
  BY <1>3 DEF Restart, CrashRestart, ServerCloses, clientVars
<1>. QED BY <1>1, <1>2, <1>3 DEF Next

\* Sequences of up to two messages.
LEMMA ShortChannels ==
    ASSUME NEW S, NEW q \in Seq(S)
    PROVE  /\ Len(q) = 1 => q # <<>> /\ Tail(q) = <<>> /\ Head(q) = q[1] /\ SubSeq(q, 2, Len(q)) = <<>>
           /\ Len(q) = 2 => /\ q # <<>> /\ SubSeq(q, 3, Len(q)) = <<>>
                            /\ Len(SubSeq(q, 2, Len(q))) = 1 /\ SubSeq(q, 2, Len(q))[1] = q[2]
           /\ \A m \in S : q = <<>> => Len(Append(q, m)) = 1 /\ Append(q, m)[1] = m
           /\ \A m \in S : Len(q) = 1 => /\ Len(Append(q, m)) = 2 /\ Append(q, m)[1] = q[1]
                                         /\ Append(q, m)[2] = m
           /\ q = <<>> <=> Len(q) = 0
<1>0. \A x \in Seq(S) : x = <<>> <=> Len(x) = 0  OBVIOUS
<1>1. Len(q) = 1 => q # <<>> /\ Tail(q) = <<>> /\ Head(q) = q[1] /\ SubSeq(q, 2, Len(q)) = <<>>
  <2> SUFFICES ASSUME Len(q) = 1
               PROVE  q # <<>> /\ Tail(q) = <<>> /\ Head(q) = q[1] /\ SubSeq(q, 2, Len(q)) = <<>>
    OBVIOUS
  <2>1. q # <<>> /\ Head(q) = q[1]  OBVIOUS
  <2>2. Tail(q) \in Seq(S) /\ Len(Tail(q)) = 0  BY <2>1
  <2>3. SubSeq(q, 2, Len(q)) \in Seq(S) /\ Len(SubSeq(q, 2, Len(q))) = 0  OBVIOUS
  <2>. QED BY <1>0, <2>1, <2>2, <2>3
<1>2. Len(q) = 2 => /\ q # <<>> /\ SubSeq(q, 3, Len(q)) = <<>>
                    /\ Len(SubSeq(q, 2, Len(q))) = 1 /\ SubSeq(q, 2, Len(q))[1] = q[2]
  <2> SUFFICES ASSUME Len(q) = 2
               PROVE  /\ q # <<>> /\ SubSeq(q, 3, Len(q)) = <<>>
                      /\ Len(SubSeq(q, 2, Len(q))) = 1 /\ SubSeq(q, 2, Len(q))[1] = q[2]
    OBVIOUS
  <2>1. SubSeq(q, 3, Len(q)) \in Seq(S) /\ Len(SubSeq(q, 3, Len(q))) = 0  OBVIOUS
  <2>2. Len(SubSeq(q, 2, Len(q))) = 1 /\ SubSeq(q, 2, Len(q))[1] = q[2]  OBVIOUS
  <2>. QED BY <1>0, <2>1, <2>2
<1>3. \A m \in S : q = <<>> => Len(Append(q, m)) = 1 /\ Append(q, m)[1] = m
  OBVIOUS
<1>4. \A m \in S : Len(q) = 1 => /\ Len(Append(q, m)) = 2 /\ Append(q, m)[1] = q[1]
                                 /\ Append(q, m)[2] = m
  <2>0. \A m \in S : Append(q, m)[Len(q) + 1] = m  OBVIOUS
  <2> SUFFICES ASSUME NEW m \in S, Len(q) = 1
               PROVE  Len(Append(q, m)) = 2 /\ Append(q, m)[1] = q[1] /\ Append(q, m)[2] = m
    OBVIOUS
  <2>1. Len(Append(q, m)) = 2  OBVIOUS
  <2>2. Append(q, m)[1] = q[1]  OBVIOUS
  <2>3. Append(q, m)[2] = m
    <3>1. Append(q, m)[Len(q) + 1] = m  BY <2>0, Zenon
    <3>2. Len(q) + 1 = 2  OBVIOUS
    <3>. QED BY <3>1, <3>2, Zenon
  <2>. QED BY <2>1, <2>2, <2>3, Zenon
<1>5. q = <<>> <=> Len(q) = 0  OBVIOUS
<1>. QED BY <1>1, <1>2, <1>3, <1>4, <1>5

\* While its thread waits, and until it writes, the client does not leave.
LEMMA ThreadFindsClient ==
    ASSUME OrderInv, "malloc" \notin Faults, NEW s \in Sessions, Server(s)
    PROVE  ClientStays(s)'
<1> USE DEF OrderInv, GrantInv, TableInv, TypeOK, ServerTypeOK, WireTypeOK
<1>1. cpc' = cpc /\ ClientStays(s) /\ c2s[s] \in Seq(Requests) /\ s2c[s] \in Seq(Replies)
  BY DEF Server, clientVars
<1>2. CASE Accept(s)
  <2>1. /\ tpc[s] = "none" /\ tpc'[s] = "recv" /\ "server" \in sock[s] /\ UNCHANGED <<sock, c2s, s2c>>
    BY <1>2 DEF Accept, Goto, wireVars
  <2>. QED BY <1>1, <2>1 DEF ClientStays
<1>3. CASE CloseClient(s)
  <2>1. "server" \notin sock'[s] /\ tpc'[s] = "none"
    BY <1>3 DEF CloseClient, ServerCloses, Goto
  <2>. QED BY <2>1 DEF ClientStays
<1>4. CASE RecvCommand(s)
  <2>1. tpc[s] = "recv" /\ "server" \in sock[s] /\ s2c' = s2c
    BY <1>4 DEF RecvCommand, ThreadsAreConnected
  <2>2. /\ s2c[s] = <<>> /\ Len(c2s[s]) = 1
        /\ c2s[s][1].cmd = "read" \/ (c2s[s][1].cmd = "lock" /\ cpc[s] = "lockReply")
    BY <1>1, <2>1 DEF ClientStays
  <2>3. c2s[s] # <<>> /\ Tail(c2s[s]) = <<>> /\ Head(c2s[s]) = c2s[s][1]
    BY <1>1, <2>2, ShortChannels
  <2>4. c2s'[s] = <<>> /\ tpc'[s] = c2s[s][1].cmd
    BY <1>4, <2>2, <2>3 DEF RecvCommand, ServerSeesEOF, Goto
  <2>. QED BY <1>1, <2>1, <2>2, <2>4 DEF ClientStays
<1>5. CASE ReadLockBusy(s) /\ tpc'[s] # "close"
  <2>1. /\ tpc[s] = "lock" /\ tpc'[s] = "wait" /\ UNCHANGED c2s
        /\ Deliver(s, Reply("wait", Blank))
    BY <1>5 DEF ReadLockBusy, Goto, SendCommand
  <2>2. cpc[s] = "lockReply" /\ s2c[s] = <<>> /\ c2s[s] = <<>>  BY <1>1, <2>1 DEF ClientStays
  <2>3. s2c'[s] = Append(s2c[s], Reply("wait", Blank))
    BY <2>1, <2>2 DEF Deliver, ProgramsAreConnected
  <2>4. Reply("wait", Blank) \in Replies /\ Reply("wait", Blank).cmd = "wait"
    BY ConstantTypes DEF Reply
  <2>5. Len(s2c'[s]) = 1 /\ s2c'[s][1].cmd = "wait"  BY <1>1, <2>2, <2>3, <2>4, ShortChannels
  <2>. QED BY <1>1, <2>1, <2>2, <2>5 DEF ClientStays
<1>6. CASE (ReadLockFree(s) \/ TakeTurn(s)) /\ tpc'[s] # "close"
  <2>1. /\ tpc[s] \in {"lock", "wait"} /\ tpc'[s] = "grant" /\ UNCHANGED c2s
        /\ tpage[s] \in Pages /\ Deliver(s, Reply("content", mem[tpage[s]]))
    BY <1>6 DEF ReadLockFree, TakeTurn, Goto, SendCommand, OnePagePerSession, InTable
  <2>2. /\ cpc[s] \in {"lockReply", "turn"} /\ c2s[s] = <<>>
        /\ s2c[s] = <<>> \/ (Len(s2c[s]) = 1 /\ s2c[s][1].cmd = "wait")
    BY <1>1, <2>1 DEF ClientStays
  <2>3. PICK m \in Replies : m = Reply("content", mem[tpage[s]]) /\ m.cmd = "content"
    <3>1. mem[tpage[s]] \in Bodies  BY <2>1
    <3>2. Reply("content", mem[tpage[s]]) \in Replies  BY <3>1, ConstantTypes
    <3>. QED BY <3>2 DEF Reply
  <2>4. s2c'[s] = Append(s2c[s], m)
    BY <2>1, <2>2, <2>3 DEF Deliver, ProgramsAreConnected
  <2>5. \/ Len(s2c'[s]) = 1 /\ s2c'[s][1].cmd = "content"
        \/ Len(s2c'[s]) = 2 /\ s2c'[s][1].cmd = "wait" /\ s2c'[s][2].cmd = "content"
    BY <1>1, <2>2, <2>3, <2>4, ShortChannels
  <2>. QED BY <1>1, <2>1, <2>2, <2>5 DEF ClientStays
<1>7. CASE tpc'[s] \in {"close", "copy", "write"}
  BY <1>7 DEF ClientStays
<1>8. CASE RecvWrite(s) \/ ReadPage(s) \/ ReadLockInvalid(s) \/ WriteRefused(s) \/ WriteBegin(s) \/ WriteEnd(s)
  <2>1. tpc'[s] \in {"close", "copy", "write"}
    BY <1>8 DEF RecvWrite, ReadPage, ReadLockInvalid, WriteRefused, WriteBegin, WriteEnd, Goto
  <2>. QED BY <1>7, <2>1
<1>9. ~AcceptFails(s)  BY DEF AcceptFails
<1>. QED BY <1>2, <1>3, <1>4, <1>5, <1>6, <1>7, <1>8, <1>9 DEF Server, ServerStep

LEMMA ProgramStays ==
    ASSUME OrderInv, NobodyLeaves, NEW s \in Sessions, Run(s) \/ Client(s) \/ Interrupt(s)
    PROVE  ClientStays(s)'
<1> USE DEF OrderInv, GrantInv, TableInv, TypeOK, ServerTypeOK, WireTypeOK, ClientTypeOK
<1>1. UNCHANGED tpc /\ ClientStays(s) /\ c2s[s] \in Seq(Requests) /\ s2c[s] \in Seq(Replies)
  BY DEF Run, Client, Interrupt, serverVars
<1>2. tpc[s] # "none" => "server" \in sock[s]  BY DEF ThreadsAreConnected
<1>3. CASE Run(s)
  <2>1. PICK p \in PageNums, cmd \in {"read", "lock"} :
            /\ c2s' = [c2s EXCEPT ![s] = <<Request(cmd, p, Blank)>>] /\ sock[s] = {}
            /\ s2c' = [s2c EXCEPT ![s] = <<>>]
            /\ cpc' = [cpc EXCEPT ![s] = IF cmd = "read" THEN "readReply" ELSE "lockReply"]
    BY <1>3 DEF Run, StartRead, StartWrite, Start
  <2>2. tpc[s] = "none"  BY <1>2, <2>1
  <2>3. Len(c2s'[s]) = 1 /\ c2s'[s][1].cmd = cmd /\ s2c'[s] = <<>>  BY <2>1 DEF Request
  <2>4. cpc'[s] = IF cmd = "read" THEN "readReply" ELSE "lockReply"  BY <2>1
  <2>. QED BY <1>1, <2>1, <2>2, <2>3, <2>4 DEF ClientStays
<1>4. ~Interrupt(s)  BY DEF Interrupt, Disconnect, NobodyLeaves
<1>5. CASE tpc[s] \notin {"none", "recv", "lock", "wait", "grant"}  BY <1>1, <1>5 DEF ClientStays
<1>6. CASE Client(s) /\ tpc[s] \in {"none", "recv", "lock", "wait", "grant"}
  <2>1. sock' = sock \/ sock' = [sock EXCEPT ![s] = @ \ {"client"}]  BY <1>6, ClientEnd
  <2>2. "server" \in sock'[s] <=> "server" \in sock[s]  BY <2>1
  <2>3. CASE "server" \notin sock[s]  BY <1>1, <1>2, <2>2, <2>3 DEF ClientStays
  <2>4. CASE "server" \in sock[s]
    <3>1. ~ClientSeesEOF(s)  BY <2>4 DEF ClientSeesEOF
    <3>2. CASE RecvPage(s) \/ RecvConfirm(s)
      <4>1. s2c[s] # <<>> /\ cpc[s] \in {"readReply", "confirm"}
        BY <3>1, <3>2 DEF RecvPage, RecvConfirm
      <4>. QED BY <1>1, <1>6, <2>4, <4>1 DEF ClientStays
    <3>3. CASE Submit(s)
      <4>1. cpc[s] = "edit" /\ cpage[s] \in PageNums  BY <3>3 DEF Submit, ClientsHavePage
      <4>2. tpc[s] = "grant" /\ c2s[s] = <<>> /\ s2c[s] = <<>>
        BY <1>1, <1>6, <2>4, <4>1 DEF ClientStays
      <4>3. PICK b \in Typed : /\ Post(s, Request("write", cpage[s], b))
                               /\ cpc' = [cpc EXCEPT ![s] = "confirm"] /\ UNCHANGED s2c
        BY <3>3, <4>1 DEF Submit, NobodyLeaves
      <4>4. c2s'[s] = Append(c2s[s], Request("write", cpage[s], b))  BY <2>4, <4>3 DEF Post
      <4>5. PICK m \in Requests : m = Request("write", cpage[s], b) /\ m.cmd = "write"
        <5>1. b \in Bodies  BY SizesAssumption DEF Bodies
        <5>. QED BY <4>1, <5>1, ConstantTypes DEF Request
      <4>6. Len(c2s'[s]) = 1 /\ c2s'[s][1].cmd = "write"  BY <1>1, <4>2, <4>4, <4>5, ShortChannels
      <4>7. cpc'[s] = "confirm"  BY <4>3
      <4>. QED BY <1>1, <4>2, <4>3, <4>6, <4>7 DEF ClientStays
    <3>4. CASE RecvLockReply(s)
      <4>1. PICK n \in RecvCounts(s) :
            LET cmd == ParsedCommand(s2c[s][1])
            IN IF cmd \in {"content", "wait"} \/ cpc[s] = "turn"
               THEN /\ cpc' = [cpc EXCEPT ![s] = IF cmd = "content" THEN "edit" ELSE "turn"]
                    /\ s2c' = [s2c EXCEPT ![s] = SubSeq(@, n + 1, Len(@))]
               ELSE Exit(s)
        BY <3>1, <3>4 DEF RecvLockReply
      <4>2. n \in {1, 2} /\ n <= Len(s2c[s]) /\ Len(s2c[s]) \in Nat  BY <4>1 DEF RecvCounts
      <4>3. s2c[s] # <<>> /\ cpc[s] \in {"lockReply", "turn"} /\ UNCHANGED c2s
        BY <3>4, <4>2, ShortChannels DEF RecvLockReply
      <4>4. CASE tpc[s] = "wait"
        <5>1. Len(s2c[s]) = 1 /\ s2c[s][1].cmd = "wait" /\ c2s[s] = <<>>
          BY <1>1, <4>3, <4>4 DEF ClientStays
        <5>2. n = 1  BY <4>2, <5>1
        <5>3. cpc'[s] = "turn" /\ s2c'[s] = SubSeq(s2c[s], 2, Len(s2c[s]))
          BY <4>1, <5>1, <5>2 DEF ParsedCommand
        <5>4. s2c'[s] = <<>>  BY <1>1, <5>1, <5>3, ShortChannels
        <5>. QED BY <1>1, <4>3, <4>4, <5>1, <5>3, <5>4 DEF ClientStays
      <4>5. CASE tpc[s] = "grant" /\ Len(s2c[s]) = 1 /\ s2c[s][1].cmd = "content" /\ c2s[s] = <<>>
        <5>1. n = 1  BY <4>2, <4>5
        <5>2. cpc'[s] = "edit" /\ s2c'[s] = SubSeq(s2c[s], 2, Len(s2c[s]))
          BY <4>1, <4>5, <5>1 DEF ParsedCommand
        <5>3. s2c'[s] = <<>>  BY <1>1, <4>5, <5>2, ShortChannels
        <5>. QED BY <1>1, <4>3, <4>5, <5>2, <5>3 DEF ClientStays
      <4>6. CASE /\ tpc[s] = "grant" /\ c2s[s] = <<>>
                 /\ Len(s2c[s]) = 2 /\ s2c[s][1].cmd = "wait" /\ s2c[s][2].cmd = "content"
        <5>1. cpc'[s] = "turn" /\ s2c'[s] = SubSeq(s2c[s], n + 1, Len(s2c[s]))
          BY <4>1, <4>6 DEF ParsedCommand
        <5>2. s2c'[s] = <<>> \/ (Len(s2c'[s]) = 1 /\ s2c'[s][1].cmd = "content")
          <6>1. CASE n = 1  BY <1>1, <4>6, <5>1, <6>1, ShortChannels
          <6>2. CASE n = 2  BY <1>1, <4>6, <5>1, <6>2, ShortChannels
          <6>. QED BY <4>2, <6>1, <6>2
        <5>. QED BY <1>1, <4>3, <4>6, <5>1, <5>2 DEF ClientStays
      <4>7. tpc[s] \in {"wait", "grant"}  BY <1>1, <1>6, <2>4, <4>3 DEF ClientStays
      <4>. QED BY <1>1, <4>3, <4>4, <4>5, <4>6, <4>7 DEF ClientStays
    <3>. QED BY <1>6, <3>2, <3>3, <3>4 DEF Client, ClientGoesOn
  <2>. QED BY <2>3, <2>4
<1>. QED BY <1>3, <1>4, <1>5, <1>6

\* The other sessions' clients are as they were.
LEMMA StepClientStays ==
    ASSUME OrderInv, NobodyLeaves, Next, NEW t \in Sessions
    PROVE  ClientStays(t)'
<1> USE DEF OrderInv, GrantInv, NobodyLeaves
<1>1. ASSUME NEW s \in Sessions, Server(s) PROVE ClientStays(t)'
  <2>1. CASE t = s  BY <1>1, <2>1, ThreadFindsClient
  <2>2. CASE t # s
    <3>1. /\ tpc'[t] = tpc[t] /\ sock'[t] = sock[t] /\ c2s'[t] = c2s[t] /\ s2c'[t] = s2c[t]
          /\ cpc' = cpc
      BY <1>1, <2>2, OtherThreads DEF Server, clientVars
    <3>. QED BY <3>1 DEF ClientStays
  <2>. QED BY <2>1, <2>2
<1>2. ASSUME NEW s \in Sessions, Run(s) \/ Client(s) \/ Interrupt(s) PROVE ClientStays(t)'
  <2>1. CASE t = s  BY <1>2, <2>1, ProgramStays
  <2>2. CASE t # s
    <3>1. /\ cpc'[t] = cpc[t] /\ sock'[t] = sock[t] /\ c2s'[t] = c2s[t] /\ s2c'[t] = s2c[t]
          /\ tpc' = tpc
      BY <1>2, <2>2, OtherPrograms DEF Run, Client, Interrupt, serverVars
    <3>. QED BY <3>1 DEF ClientStays
  <2>. QED BY <2>1, <2>2
<1>3. ~Restart  BY DEF Restart, CrashRestart
<1>. QED BY <1>1, <1>2, <1>3 DEF Next

\* A thread leaves the table only at the end of write_page.
LEMMA StaysInTable ==
    ASSUME OrderInv, "malloc" \notin Faults, NEW s \in Sessions, Server(s), tpc[s] \in InTable
    PROVE  \/ WriteEnd(s)
           \/ tpc'[s] \in InTable /\ tpage'[s] = tpage[s] /\ fd'[s] = fd[s]
<1> USE DEF OrderInv, GrantInv, TableInv, TypeOK, ServerTypeOK, WireTypeOK
<1>1. /\ tpage[s] \in Pages /\ tpage[s] = cpage[s] /\ ClientStays(s)
      /\ c2s[s] \in Seq(Requests)
  BY DEF OnePagePerSession, InTable, Serving
<1>2. CASE TakeTurn(s)
  <2>1. tpc[s] = "wait" /\ UNCHANGED <<tpage, fd>>  BY <1>2 DEF TakeTurn
  <2>2. "client" \in sock[s]  BY <1>1, <2>1 DEF ClientStays, ProgramsAreConnected
  <2>3. ~SendCommandFails(s, Reply("content", mem[tpage[s]]))
    BY <1>1, <2>2 DEF SendCommandFails, Reply, TextsAreSendable, EveryPageCanBeSent
  <2>4. tpc'[s] = "grant"  BY <1>2, <2>3 DEF TakeTurn, Goto
  <2>. QED BY <2>1, <2>4 DEF InTable
<1>3. CASE RecvWrite(s)
  <2>1. tpc[s] = "grant" /\ UNCHANGED fd  BY <1>3 DEF RecvWrite
  <2>2. ~ServerSeesEOF(s)
    BY <1>1, <2>1 DEF ClientStays, ProgramsAreConnected, ServerSeesEOF
  <2>3. c2s[s] # <<>>  BY <1>3, <2>2 DEF RecvWrite
  <2>4. Len(c2s[s]) = 1 /\ c2s[s][1].cmd = "write"  BY <1>1, <2>1, <2>3 DEF ClientStays
  <2>5. Head(c2s[s]) = c2s[s][1]  BY <1>1, <2>4, ShortChannels
  <2>6. c2s[s][1].page = cpage[s]  BY <1>1, <2>4 DEF OnePagePerSession
  <2>7. tpc'[s] = "write" /\ tpage'[s] = cpage[s]
    BY <1>3, <2>2, <2>4, <2>5, <2>6 DEF RecvWrite, Goto
  <2>. QED BY <1>1, <2>1, <2>7 DEF InTable
<1>4. ~WriteRefused(s)  BY <1>1 DEF WriteRefused, Authorised, OwnersAtHead
<1>5. CASE WriteBegin(s)  BY <1>5 DEF WriteBegin, Goto, InTable
<1>6. ~(Accept(s) \/ AcceptFails(s) \/ RecvCommand(s) \/ ReadPage(s) \/ ReadLockInvalid(s)
        \/ ReadLockBusy(s) \/ ReadLockFree(s) \/ CloseClient(s))
  BY DEF InTable, Accept, AcceptFails, RecvCommand, ReadPage, ReadLockInvalid, ReadLockBusy,
     ReadLockFree, CloseClient
<1>. QED BY <1>2, <1>3, <1>4, <1>5, <1>6 DEF Server, ServerStep

\* What is in a queue after an Append and in the rest of one.
LEMMA QueueElements ==
    ASSUME NEW S, NEW q \in Seq(S)
    PROVE  /\ \A x \in S : /\ DOMAIN Append(q, x) = DOMAIN q \cup {Len(q) + 1}
                           /\ \A i \in DOMAIN q : Append(q, x)[i] = q[i]
                           /\ Append(q, x)[Len(q) + 1] = x
           /\ q # <<>> => /\ 1 \in DOMAIN q /\ Head(q) = q[1]
                          /\ \A i \in DOMAIN Tail(q) : /\ i + 1 \in DOMAIN q /\ i + 1 # 1
                                                       /\ Tail(q)[i] = q[i + 1]
                          /\ \A i, j \in DOMAIN Tail(q) : i + 1 = j + 1 => i = j
                          /\ \A i \in DOMAIN q : i # 1 => /\ i - 1 \in DOMAIN Tail(q)
                                                          /\ Tail(q)[i - 1] = q[i]
<1>1. \A x \in S : /\ DOMAIN Append(q, x) = DOMAIN q \cup {Len(q) + 1}
                   /\ \A i \in DOMAIN q : Append(q, x)[i] = q[i]
                   /\ Append(q, x)[Len(q) + 1] = x
  OBVIOUS
<1>2. ASSUME q # <<>>
      PROVE  /\ 1 \in DOMAIN q /\ Head(q) = q[1]
             /\ \A i \in DOMAIN Tail(q) : /\ i + 1 \in DOMAIN q /\ i + 1 # 1
                                          /\ Tail(q)[i] = q[i + 1]
             /\ \A i, j \in DOMAIN Tail(q) : i + 1 = j + 1 => i = j
             /\ \A i \in DOMAIN q : i # 1 => /\ i - 1 \in DOMAIN Tail(q)
                                             /\ Tail(q)[i - 1] = q[i]
  <2>1. /\ Len(q) \in Nat /\ Len(q) >= 1 /\ DOMAIN q = 1 .. Len(q)
        /\ Tail(q) \in Seq(S) /\ Len(Tail(q)) = Len(q) - 1 /\ DOMAIN Tail(q) = 1 .. Len(q) - 1
    BY <1>2
  <2>2. 1 \in DOMAIN q /\ Head(q) = q[1]  BY <1>2, <2>1
  <2>3. \A i \in DOMAIN Tail(q) : Tail(q)[i] = q[i + 1]  BY <1>2, <2>1
  <2>4. \A i \in DOMAIN Tail(q) : i + 1 \in DOMAIN q /\ i + 1 # 1  BY <2>1
  <2>5. \A i \in DOMAIN q : i # 1 => i - 1 \in DOMAIN Tail(q) /\ (i - 1) + 1 = i  BY <2>1
  <2>6. \A i, j \in DOMAIN Tail(q) : i + 1 = j + 1 => i = j  BY <2>1
  <2>7. \A i \in DOMAIN q : i # 1 => Tail(q)[i - 1] = q[i]  BY <2>3, <2>5
  <2>. QED BY <2>2, <2>3, <2>4, <2>5, <2>6, <2>7
<1>. QED BY <1>1, <1>2

\* A thread that waits for a page has joined its queue.
LEMMA JoinsQueue ==
    ASSUME TableInv, "malloc" \notin Faults, NEW s \in Sessions, Server(s)
    PROVE  \/ /\ tpc[s] = "lock" /\ tpc'[s] \in InTable /\ tpage[s] \in Pages
              /\ queue' = [queue EXCEPT ![tpage[s]] = Append(@, fd[s])]
              /\ UNCHANGED <<tpage, fd>>
           \/ /\ WriteEnd(s) /\ queue' = [queue EXCEPT ![tpage[s]] = Tail(@)]
              /\ AtHead(s, tpage[s]) /\ tpage[s] \in Pages /\ tpc'[s] = "close"
           \/ ~WriteEnd(s) /\ queue' = queue /\ tpc'[s] # "wait"
<1> USE DEF TableInv, TypeOK, ServerTypeOK, WireTypeOK
<1>1. CASE ReadLockBusy(s) \/ ReadLockFree(s)
  BY <1>1 DEF ReadLockBusy, ReadLockFree, AddToQueue, Goto, InTable, WriteEnd
<1>2. CASE WriteEnd(s)
  <2>1. /\ tpc[s] = "copy" /\ tpc'[s] = "close"
        /\ queue' = [queue EXCEPT ![tpage[s]] = RemoveFromQueue(@)]
    BY <1>2 DEF WriteEnd, Goto
  <2>2. AtHead(s, tpage[s]) /\ tpage[s] \in Pages
    BY <2>1 DEF WritersAtHead, OnePagePerSession, InTable
  <2>. QED BY <1>2, <2>1, <2>2 DEF RemoveFromQueue, AtHead
<1>3. CASE ~(ReadLockBusy(s) \/ ReadLockFree(s) \/ WriteEnd(s))
  <2>1. queue' = queue
    BY <1>3 DEF Server, ServerStep, Accept, AcceptFails, RecvCommand, ReadPage, ReadLockInvalid,
       TakeTurn, RecvWrite, WriteRefused, WriteBegin, CloseClient, tableVars, serverVars
  <2>2. tpc'[s] # "wait"
    BY <1>3, ReceivedRequest DEF Server, ServerStep, Accept, AcceptFails, RecvCommand, ReadPage,
       ReadLockInvalid, TakeTurn, RecvWrite, WriteRefused, WriteBegin, CloseClient, Goto, Requests
  <2>. QED BY <1>3, <2>1, <2>2
<1>. QED BY <1>1, <1>2, <1>3

\* A descriptor that joins the queue is of no thread that is in it.
LEMMA AppendKeepsQueueAlive ==
    ASSUME OrderInv, NEW s \in Sessions, Server(s),
           tpc[s] = "lock", tpc'[s] \in InTable, tpage[s] \in Pages,
           queue' = [queue EXCEPT ![tpage[s]] = Append(@, fd[s])],
           UNCHANGED <<tpage, fd>>
    PROVE  QueueIsAlive'
<1> USE DEF OrderInv, GrantInv, TableInv, TypeOK, ServerTypeOK
<1> DEFINE q == tpage[s]
<1>1. fd[s] \in Fds /\ queue[q] \in Seq(Fds)  BY DEF LiveFds
<1>2. /\ queue'[q] = Append(queue[q], fd[s])
      /\ \A p \in Pages : p # q => queue'[p] = queue[p]
  OBVIOUS
<1>3. /\ DOMAIN queue'[q] = DOMAIN queue[q] \cup {Len(queue[q]) + 1}
      /\ \A i \in DOMAIN queue[q] : queue'[q][i] = queue[q][i]
      /\ queue'[q][Len(queue[q]) + 1] = fd[s]
  BY <1>1, <1>2, QueueElements
<1>4. \A t \in Sessions : t # s => tpc'[t] = tpc[t]  BY OtherThreads
<1>5. \A p \in Pages : \A i \in DOMAIN queue[p] : \E t \in Sessions :
            tpc'[t] \in InTable /\ tpage'[t] = p /\ fd'[t] = queue[p][i] /\ t # s
  <2> SUFFICES ASSUME NEW p \in Pages, NEW i \in DOMAIN queue[p]
               PROVE  \E t \in Sessions :
                        tpc'[t] \in InTable /\ tpage'[t] = p /\ fd'[t] = queue[p][i] /\ t # s
    OBVIOUS
  <2>1. PICK t \in Sessions : tpc[t] \in InTable /\ tpage[t] = p /\ fd[t] = queue[p][i]
    BY DEF QueueIsAlive
  <2>2. t # s  BY <2>1 DEF InTable
  <2>. QED BY <1>4, <2>1, <2>2
<1>6. \A p \in Pages : \A i \in DOMAIN queue'[p] : \E t \in Sessions :
            tpc'[t] \in InTable /\ tpage'[t] = p /\ fd'[t] = queue'[p][i]
  <2> SUFFICES ASSUME NEW p \in Pages, NEW i \in DOMAIN queue'[p]
               PROVE  \E t \in Sessions :
                        tpc'[t] \in InTable /\ tpage'[t] = p /\ fd'[t] = queue'[p][i]
    OBVIOUS
  <2>1. CASE p # q  BY <1>2, <1>5, <2>1
  <2>2. CASE p = q /\ i \in DOMAIN queue[q]  BY <1>3, <1>5, <2>2
  <2>3. CASE p = q /\ i = Len(queue[q]) + 1  BY <1>3, <2>3
  <2>. QED BY <1>3, <2>1, <2>2, <2>3
<1>7. \A i \in DOMAIN queue[q] : queue[q][i] # fd[s]
  BY <1>1, <1>5 DEF LiveFds
<1>8. \A p \in Pages : \A i, j \in DOMAIN queue'[p] : queue'[p][i] = queue'[p][j] => i = j
  <2> SUFFICES ASSUME NEW p \in Pages, NEW i \in DOMAIN queue'[p], NEW j \in DOMAIN queue'[p],
                      queue'[p][i] = queue'[p][j]
               PROVE  i = j
    OBVIOUS
  <2>1. CASE p # q  BY <1>2, <2>1 DEF QueueIsAlive
  <2>2. CASE p = q /\ i \in DOMAIN queue[q] /\ j \in DOMAIN queue[q]
    BY <1>3, <2>2 DEF QueueIsAlive
  <2>3. CASE p = q /\ (i \notin DOMAIN queue[q] \/ j \notin DOMAIN queue[q])
    BY <1>3, <1>7, <2>3
  <2>. QED BY <2>1, <2>2, <2>3
<1>9. ASSUME NEW t \in Sessions, tpc'[t] = "wait" PROVE ~Absent(t, tpage[t])'
  <2>1. CASE t = s  BY <1>3, <2>1 DEF Absent
  <2>2. CASE t # s
    <3>1. tpc[t] = "wait" /\ tpage[t] \in Pages
      BY <1>4, <1>9, <2>2 DEF OnePagePerSession, InTable
    <3>2. PICK i \in DOMAIN queue[tpage[t]] : queue[tpage[t]][i] = fd[t]
      BY <3>1 DEF QueueIsAlive, Absent
    <3>3. i \in DOMAIN queue'[tpage[t]] /\ queue'[tpage[t]][i] = fd[t]
      BY <1>2, <1>3, <3>1, <3>2
    <3>. QED BY <3>3 DEF Absent
  <2>. QED BY <2>1, <2>2
<1>. QED BY <1>6, <1>8, <1>9 DEF QueueIsAlive

\* The head that leaves is in the queue no second time.
LEMMA TailKeepsQueueAlive ==
    ASSUME OrderInv, NEW s \in Sessions, Server(s), tpage[s] \in Pages, tpc'[s] = "close",
           AtHead(s, tpage[s]), WriteEnd(s),
           queue' = [queue EXCEPT ![tpage[s]] = Tail(@)]
    PROVE  QueueIsAlive'
<1> USE DEF OrderInv, GrantInv, TableInv, TypeOK, ServerTypeOK
<1> DEFINE q == tpage[s]
<1>1. queue[q] \in Seq(Fds) /\ queue[q] # <<>> /\ UNCHANGED <<tpage, fd>>
  BY DEF AtHead, WriteEnd
<1>2. /\ queue'[q] = Tail(queue[q])
      /\ \A p \in Pages : p # q => queue'[p] = queue[p]
  OBVIOUS
<1>3. /\ 1 \in DOMAIN queue[q] /\ queue[q][1] = fd[s]
      /\ \A i \in DOMAIN queue'[q] : /\ i + 1 \in DOMAIN queue[q] /\ i + 1 # 1
                                     /\ queue'[q][i] = queue[q][i + 1]
      /\ \A i, j \in DOMAIN queue'[q] : i + 1 = j + 1 => i = j
      /\ \A i \in DOMAIN queue[q] : i # 1 => /\ i - 1 \in DOMAIN queue'[q]
                                             /\ queue'[q][i - 1] = queue[q][i]
  BY <1>1, <1>2, QueueElements DEF AtHead
<1>4. \A t \in Sessions : t # s => tpc'[t] = tpc[t]  BY OtherThreads
<1>5. \A i \in DOMAIN queue'[q] : queue'[q][i] # fd[s]
  BY <1>3 DEF QueueIsAlive
<1>6. ASSUME NEW p \in Pages, NEW i \in DOMAIN queue'[p]
      PROVE  \E t \in Sessions : tpc'[t] \in InTable /\ tpage'[t] = p /\ fd'[t] = queue'[p][i]
  <2>1. PICK k \in DOMAIN queue[p] : queue[p][k] = queue'[p][i]
    BY <1>2, <1>3
  <2>2. PICK t \in Sessions : tpc[t] \in InTable /\ tpage[t] = p /\ fd[t] = queue[p][k]
    BY DEF QueueIsAlive
  <2>3. t # s  BY <1>5, <2>1, <2>2
  <2>. QED BY <1>1, <1>4, <2>1, <2>2, <2>3
<1>7. ASSUME NEW p \in Pages, NEW i \in DOMAIN queue'[p], NEW j \in DOMAIN queue'[p],
             queue'[p][i] = queue'[p][j]
      PROVE  i = j
  <2>1. CASE p # q  BY <1>2, <1>7, <2>1 DEF QueueIsAlive
  <2>2. CASE p = q
    <3>1. i + 1 = j + 1  BY <1>3, <1>7, <2>2 DEF QueueIsAlive
    <3>. QED BY <1>3, <2>2, <3>1
  <2>. QED BY <2>1, <2>2
<1>8. ASSUME NEW t \in Sessions, tpc'[t] = "wait" PROVE ~Absent(t, tpage[t])'
  <2>1. t # s  BY <1>8
  <2>2. tpc[t] = "wait" /\ tpage[t] \in Pages
    BY <1>4, <1>8, <2>1 DEF OnePagePerSession, InTable
  <2>3. PICK i \in DOMAIN queue[tpage[t]] : queue[tpage[t]][i] = fd[t]
    BY <2>2 DEF QueueIsAlive, Absent
  <2>4. fd[t] # fd[s]  BY <2>1, <2>2 DEF LiveFds
  <2>5. \E k \in DOMAIN queue'[tpage[t]] : queue'[tpage[t]][k] = fd[t]
    <3>1. CASE tpage[t] # q  BY <1>2, <2>2, <2>3, <3>1
    <3>2. CASE tpage[t] = q
      <4>1. i \in DOMAIN queue[q] /\ queue[q][i] = fd[t] /\ i # 1
        BY <1>3, <2>3, <2>4, <3>2
      <4>2. i - 1 \in DOMAIN queue'[q] /\ queue'[q][i - 1] = fd[t]  BY <1>3, <4>1
      <4>. QED BY <3>2, <4>2
    <3>. QED BY <3>1, <3>2
  <2>. QED BY <1>1, <2>5 DEF Absent
<1>. QED BY <1>6, <1>7, <1>8 DEF QueueIsAlive

LEMMA StepQueueIsAlive ==
    ASSUME OrderInv, NobodyLeaves, Next
    PROVE  QueueIsAlive'
<1> USE DEF OrderInv, GrantInv, NobodyLeaves
<1>1. ASSUME NEW s \in Sessions, Server(s) PROVE QueueIsAlive'
  <2>1. CASE ~WriteEnd(s) /\ queue' = queue /\ tpc'[s] # "wait"
    <3>1. \A t \in Sessions : t # s => /\ tpc'[t] = tpc[t] /\ fd'[t] = fd[t]
                                       /\ tpage'[t] = tpage[t]
      BY <1>1, OtherThreads
    <3>2. \A t \in Sessions : tpc[t] \in InTable =>
                /\ tpc'[t] \in InTable /\ fd'[t] = fd[t] /\ tpage'[t] = tpage[t]
      BY <1>1, <2>1, <3>1, StaysInTable
    <3>3. \A p \in Pages : \A i \in DOMAIN queue'[p] : \E t \in Sessions :
            tpc'[t] \in InTable /\ tpage'[t] = p /\ fd'[t] = queue'[p][i]
      BY <2>1, <3>2 DEF QueueIsAlive
    <3>4. \A p \in Pages : \A i, j \in DOMAIN queue'[p] : queue'[p][i] = queue'[p][j] => i = j
      BY <2>1 DEF QueueIsAlive
    <3>5. \A t \in Sessions : tpc'[t] = "wait" => ~Absent(t, tpage[t])'
      BY <2>1, <3>1 DEF QueueIsAlive, Absent
    <3>. QED BY <3>3, <3>4, <3>5 DEF QueueIsAlive
  <2>. QED BY <1>1, <2>1, JoinsQueue, AppendKeepsQueueAlive, TailKeepsQueueAlive
<1>2. ASSUME NEW s \in Sessions, Run(s) \/ Client(s) \/ Interrupt(s) PROVE QueueIsAlive'
  <2>1. UNCHANGED <<queue, tpc, tpage, fd>>  BY <1>2 DEF Run, Client, Interrupt, serverVars
  <2>. QED BY <2>1 DEF QueueIsAlive, Absent
<1>3. ~Restart  BY DEF Restart, CrashRestart
<1>. QED BY <1>1, <1>2, <1>3 DEF Next

LEMMA OrderInduction ==
    ASSUME NobodyLeaves
    PROVE  Spec => []OrderInv
<1>1. Init => OrderInv
  <2> SUFFICES ASSUME Init PROVE OrderInv  OBVIOUS
  <2>1. /\ \A s \in Sessions : /\ tpc[s] = "none" /\ cpc[s] = "idle" /\ sock[s] = {}
                               /\ c2s[s] = <<>> /\ tnew[s] = Blank
        /\ \A p \in Pages : queue[p] = <<>> /\ lock[p] = 0 /\ mem[p] = Blank
    BY DEF Init, WireInit, ServerInit, TableInit, NoThreads, ClientInit
  <2>2. GrantInv  BY <2>1, InitTable DEF GrantInv, OwnersAtHead, LockedPageHasQueue
  <2>3. TextsAreSendable
    BY <2>1, SendableTexts DEF TextsAreSendable, EveryPageCanBeSent, Sendable
  <2>4. QueueIsAlive  BY <2>1 DEF QueueIsAlive
  <2>5. ProgramsAreConnected  BY <2>1 DEF ProgramsAreConnected
  <2>6. \A s \in Sessions : ClientStays(s)  BY <2>1 DEF ClientStays
  <2>. QED BY <2>2, <2>3, <2>4, <2>5, <2>6 DEF OrderInv
<1>2. OrderInv /\ GrantInv' /\ [Next]_vars => OrderInv'
  <2>1. ASSUME OrderInv, GrantInv', Next PROVE OrderInv'
    <3>1. TableInv  BY <2>1 DEF OrderInv, GrantInv
    <3>2. TextsAreSendable' /\ ProgramsAreConnected'
      BY <2>1, <3>1, StepTextsAreSendable, StepProgramsAreConnected DEF OrderInv
    <3>. QED BY <2>1, <3>2, StepQueueIsAlive, StepClientStays DEF OrderInv
  <2>2. ASSUME OrderInv, GrantInv', UNCHANGED vars PROVE OrderInv'
    <3>1. TextsAreSendable'
      BY <2>2 DEF OrderInv, TextsAreSendable, EveryPageCanBeSent, Sendable, Fits, ReplyMsgLen,
         vars, wireVars, serverVars
    <3>2. QueueIsAlive'
      BY <2>2 DEF OrderInv, QueueIsAlive, Absent, vars, serverVars
    <3>3. ProgramsAreConnected' /\ \A s \in Sessions : ClientStays(s)'
      BY <2>2 DEF OrderInv, ProgramsAreConnected, ClientStays, vars, wireVars, serverVars, clientVars
    <3>. QED BY <2>2, <3>1, <3>2, <3>3 DEF OrderInv
  <2>. QED BY <2>1, <2>2
<1>3. Spec => []GrantInv  BY GrantInduction DEF NobodyLeaves
<1>. QED BY <1>1, <1>2, <1>3, PTL DEF Spec

\* A thread's place is where its descriptor is.
LEMMA PlaceInQueue ==
    ASSUME OrderInv, NEW s \in Sessions, NEW p \in Pages, tpage[s] = p,
           NEW i \in DOMAIN queue[p], queue[p][i] = fd[s]
    PROVE  Place(s) = i
<1> DEFINE At(k) == queue[p][k] = fd[s] /\ \A j \in k + 1 .. Len(queue[p]) : queue[p][j] # fd[s]
<1>1. queue[p] \in Seq(Fds) /\ DOMAIN queue[p] = 1 .. Len(queue[p]) /\ Len(queue[p]) \in Nat
  BY DEF OrderInv, GrantInv, TableInv, TypeOK, ServerTypeOK
<1>2. \A j \in DOMAIN queue[p] : queue[p][j] = fd[s] => j = i
  BY DEF OrderInv, QueueIsAlive
<1>3. At(i)
  <2>1. ASSUME NEW j \in i + 1 .. Len(queue[p]) PROVE j \in DOMAIN queue[p] /\ j # i
    BY <1>1, <2>1
  <2>. QED BY <1>2, <2>1
<1>4. Place(s) = CHOOSE k \in DOMAIN queue[p] : At(k)  BY DEF Place
<1>5. Place(s) \in DOMAIN queue[p] /\ queue[p][Place(s)] = fd[s]
  <2>1. \E k \in DOMAIN queue[p] : At(k)  BY <1>3
  <2> HIDE DEF At
  <2>2. Place(s) \in DOMAIN queue[p] /\ At(Place(s))  BY <1>4, <2>1, Zenon
  <2>. QED BY <2>2 DEF At
<1>. QED BY <1>2, <1>5

(***************************************************************************)
(* While nobody leaves the queue, the polling loop of read_lock_page gives *)
(* the page in the order in which the threads queued for it, however many  *)
(* sessions poll, and whichever of them takes page_mutex first.            *)
(***************************************************************************)
THEOREM QueueOrder ==
    ASSUME NobodyLeaves
    PROVE  Spec => TurnsInOrder
<1> DEFINE InOrder ==
        \A s, t \in Sessions :
            /\ s # t /\ tpc[s] = "wait" /\ tpc[t] = "wait" /\ tpage[s] = tpage[t]
            /\ Place(s) < Place(t)
            => tpc'[t] # "grant"
<1>1. ASSUME OrderInv, Next PROVE InOrder
  <2> SUFFICES ASSUME NEW s \in Sessions, NEW t \in Sessions, s # t,
                      tpc[s] = "wait", tpc[t] = "wait", tpage[s] = tpage[t],
                      Place(s) < Place(t), tpc'[t] = "grant"
               PROVE  FALSE
    OBVIOUS
  <2>1. TableInv  BY <1>1 DEF OrderInv, GrantInv
  <2>2. Server(t)
    <3>1. ASSUME NEW u \in Sessions, Server(u), u # t PROVE FALSE  BY <2>1, <3>1, OtherThreads
    <3>2. ASSUME NEW u \in Sessions, Run(u) \/ Client(u) \/ Interrupt(u) PROVE FALSE
      BY <3>2 DEF Run, Client, Interrupt, serverVars
    <3>3. ~Restart  BY DEF Restart, CrashRestart, NobodyLeaves
    <3>. QED BY <1>1, <3>1, <3>2, <3>3 DEF Next
  <2>3. TakeTurn(t)
    BY <2>1, <2>2, NewOwner DEF ReadLockFree, RecvWrite, WriteBegin
  <2>4. PICK p \in Pages : tpage[s] = p /\ tpage[t] = p
    BY <2>1 DEF TableInv, OnePagePerSession, InTable
  <2>5. queue[p] \in Seq(Fds) /\ AtHead(t, p)
    BY <2>1, <2>3, <2>4 DEF TakeTurn, TableInv, TypeOK, ServerTypeOK
  <2>6. 1 \in DOMAIN queue[p] /\ queue[p][1] = fd[t]
    BY <2>5, QueueElements DEF AtHead
  <2>7. Place(t) = 1  BY <1>1, <2>4, <2>6, PlaceInQueue
  <2>8. PICK i \in DOMAIN queue[p] : queue[p][i] = fd[s]
    BY <1>1, <2>4 DEF OrderInv, QueueIsAlive, Absent
  <2>9. Place(s) = i /\ i >= 1
    BY <1>1, <2>4, <2>5, <2>8, PlaceInQueue
  <2>. QED BY <2>5, <2>7, <2>8, <2>9
<1>2. OrderInv /\ [Next]_vars => [InOrder]_vars  BY <1>1
<1>. QED BY <1>2, OrderInduction, PTL DEF Spec, TurnsInOrder
=============================================================================
