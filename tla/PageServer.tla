----------------------------- MODULE PageServer -----------------------------
(***************************************************************************)
(* The server of the distributed shared memory: newServer.c.               *)
(*                                                                         *)
(* The page table (lock, queue and mutex of every page) and the pages are  *)
(* shared by one thread per session.  A thread's position tpc[s] names the *)
(* call it is about to make.  Code between pthread_mutex_lock and _unlock  *)
(* of a page is one step, except that write_page is two, around the memory *)
(* operations that an unlocked read_page can observe half done; in between *)
(* writer[p] is the thread that owns page_mutex.                           *)
(***************************************************************************)
EXTENDS DsmWire

CONSTANTS
    Fds,        \* descriptor numbers the server can have open
    NoSession

ASSUME FdsAssumption ==
    /\ Fds \subseteq Nat
    /\ NoSession \notin Sessions

NoFd == -1

VARIABLES
    lock,       \* page_table[p].lock
    queue,      \* page_table[p].queue: descriptors, the page's owner first
    writer,     \* the owner of page_table[p].page_mutex between two steps
    mem,        \* the page in the shared memory segment
    tpc,        \* where the session's thread is
    fd,         \* client_socket: the thread's descriptor
    tpage,      \* page_num
    tnew        \* newContent

tableVars == <<lock, queue, writer, mem>>
threadVars == <<tpc, fd, tpage, tnew>>
serverVars == <<lock, queue, writer, mem, tpc, fd, tpage, tnew>>

ThreadPCs ==
    {"none", "recv", "read", "lock", "wait", "grant", "write", "copy", "close"}

ServerTypeOK ==
    /\ lock \in [Pages -> {0, 1}]
    /\ queue \in [Pages -> Seq(Fds)]
    /\ writer \in [Pages -> Sessions \cup {NoSession}]
    /\ mem \in [Pages -> Bodies]
    /\ tpc \in [Sessions -> ThreadPCs]
    /\ fd \in [Sessions -> Fds \cup {NoFd}]
    /\ tpage \in [Sessions -> PageNums \cup {NoPage}]
    /\ tnew \in [Sessions -> Bodies]

\* calloc and the initialisation loop of main; a new segment is zeroed.
TableInit ==
    /\ lock = [p \in Pages |-> 0]
    /\ queue = [p \in Pages |-> <<>>]
    /\ writer = [p \in Pages |-> NoSession]

NoThreads ==
    /\ tpc = [s \in Sessions |-> "none"]
    /\ fd = [s \in Sessions |-> NoFd]
    /\ tpage = [s \in Sessions |-> NoPage]
    /\ tnew = [s \in Sessions |-> Blank]

ServerInit ==
    /\ TableInit
    /\ mem = [p \in Pages |-> Blank]
    /\ NoThreads

Goto(s, pc) == tpc' = [tpc EXCEPT ![s] = pc]

\* The descriptors the process does not have open.
FreeFds == Fds \ {fd[s] : s \in Sessions}

MutexFree(p) == writer[p] = NoSession

\* Mutant: in the queue, at any place.
InQueue(s, p) == \E i \in DOMAIN queue[p] : queue[p][i] = fd[s]

AtHead(s, p) == queue[p] # <<>> /\ Head(queue[p]) = fd[s]

\* memcpy of at most page_size bytes.
Stored(b) == [id |-> b.id, len |-> IF b.len < PageSize THEN b.len ELSE PageSize]

\* Mutant: the head is left in the queue.
KeepInQueue(q) == q

\* remove_from_queue
RemoveFromQueue(q) == IF q = <<>> THEN <<>> ELSE Tail(q)

\* Mutants: lock used as a counter; never reset; reset whoever still waits.
LockCountsDown(p, q) == lock[p] - 1
LockStays(p, q)      == lock[p]
LockAlwaysReset(p, q) == 0

\* The end of write_page: only an empty queue unlocks the page.
LockAfterWrite(p, q) == IF q = <<>> THEN 0 ELSE lock[p]

\* add_to_queue; without memory for the node it only reports the failure.
AddToQueue(p, s) ==
    \/ queue' = [queue EXCEPT ![p] = Append(@, fd[s])]
    \/ "malloc" \in Faults /\ UNCHANGED queue

-----------------------------------------------------------------------------
\* accept in main: the kernel gives the lowest free descriptor.
Accept(s) ==
    /\ tpc[s] = "none" /\ "server" \in sock[s]
    /\ \E f \in FreeFds :
        /\ \A g \in FreeFds : f <= g
        /\ fd' = [fd EXCEPT ![s] = f]
    /\ Goto(s, "recv")
    /\ UNCHANGED <<tableVars, tpage, tnew, wireVars>>

\* No memory for client_data, or no thread: main closes the connection.
AcceptFails(s) ==
    /\ tpc[s] = "none" /\ "server" \in sock[s]
    /\ "malloc" \in Faults
    /\ ServerCloses({s})
    /\ UNCHANGED <<serverVars, s2c>>

\* handle_client receives the first command and dispatches on it.
RecvCommand(s) ==
    /\ tpc[s] = "recv"
    /\ \/ /\ c2s[s] # <<>>
          /\ LET m == Head(c2s[s])
             IN /\ tpage' = [tpage EXCEPT ![s] = m.page]
                /\ Goto(s, IF m.cmd = "write" THEN "close" ELSE m.cmd)
          /\ c2s' = [c2s EXCEPT ![s] = Tail(@)]
       \/ /\ ServerSeesEOF(s)
          /\ Goto(s, "close")
          /\ UNCHANGED <<tpage, c2s>>
    /\ UNCHANGED <<tableVars, fd, tnew, sock, s2c>>

\* read_page: the bytes are sent as they are at this moment, with no mutex.
ReadPage(s) ==
    /\ tpc[s] = "read"
    /\ Deliver(s, IF tpage[s] \in Pages THEN Reply("raw", mem[tpage[s]])
                                        ELSE Reply("error", ErrorText))
    /\ Goto(s, "close")
    /\ UNCHANGED <<tableVars, fd, tpage, tnew, sock, c2s>>

\* read_lock_page refuses a page number out of range.
ReadLockInvalid(s) ==
    /\ tpc[s] = "lock" /\ tpage[s] \notin Pages
    /\ Deliver(s, Reply("error", ErrorText))
    /\ Goto(s, "close")
    /\ UNCHANGED <<tableVars, fd, tpage, tnew, sock, c2s>>

\* Mutant: the client is told to wait and not queued.
ReadLockForgetsQueue(s) ==
    /\ tpc[s] = "lock" /\ tpage[s] \in Pages /\ MutexFree(tpage[s])
    /\ lock[tpage[s]] = 1
    /\ SendCommand(s, Reply("wait", Blank))
    /\ Goto(s, "wait")
    /\ UNCHANGED <<tableVars, fd, tpage, tnew, sock, c2s>>

\* read_lock_page finds the page locked: "1 " to the client, then the queue.
ReadLockBusy(s) ==
    /\ tpc[s] = "lock" /\ tpage[s] \in Pages /\ MutexFree(tpage[s])
    /\ lock[tpage[s]] = 1
    /\ \/ /\ SendCommand(s, Reply("wait", Blank))
          /\ AddToQueue(tpage[s], s)
          /\ Goto(s, "wait")
       \/ /\ SendCommandFails(s, Reply("wait", Blank))
          /\ Goto(s, "close")
          /\ UNCHANGED queue
    /\ UNCHANGED <<lock, writer, mem, fd, tpage, tnew, sock, c2s>>

\* Mutant: the page is given and not marked as locked.
ReadLockForgetsLock(s) ==
    /\ tpc[s] = "lock" /\ tpage[s] \in Pages /\ MutexFree(tpage[s])
    /\ lock[tpage[s]] = 0
    /\ SendCommand(s, Reply("content", mem[tpage[s]]))
    /\ AddToQueue(tpage[s], s)
    /\ Goto(s, "grant")
    /\ UNCHANGED <<lock, writer, mem, fd, tpage, tnew, sock, c2s>>

\* read_lock_page finds the page free: "0 text" to the client, which becomes
\* the first of the queue.
ReadLockFree(s) ==
    /\ tpc[s] = "lock" /\ tpage[s] \in Pages /\ MutexFree(tpage[s])
    /\ lock[tpage[s]] = 0
    /\ \/ /\ SendCommand(s, Reply("content", mem[tpage[s]]))
          /\ lock' = [lock EXCEPT ![tpage[s]] = 1]
          /\ AddToQueue(tpage[s], s)
          /\ Goto(s, "grant")
       \/ /\ \/ SendCommandFails(s, Reply("content", mem[tpage[s]]))
             \/ "malloc" \in Faults /\ UNCHANGED s2c
          /\ Goto(s, "close")
          /\ UNCHANGED <<lock, queue>>
    /\ UNCHANGED <<writer, mem, fd, tpage, tnew, sock, c2s>>

\* Mutant: the next in line is polled without page_mutex and takes the page as
\* soon as the owner is at its end.
TakeTurnEarly(s) ==
    /\ tpc[s] = "wait"
    /\ AtHead(s, tpage[s]) \/ ~MutexFree(tpage[s])
    /\ SendCommand(s, Reply("content", mem[tpage[s]]))
    /\ Goto(s, "grant")
    /\ UNCHANGED <<tableVars, fd, tpage, tnew, sock, c2s>>

\* The polling loop of read_lock_page finds its descriptor at the head.  A
\* thread that cannot send leaves with its descriptor still there.
TakeTurn(s) ==
    /\ tpc[s] = "wait" /\ MutexFree(tpage[s])
    /\ AtHead(s, tpage[s])
    /\ \/ /\ SendCommand(s, Reply("content", mem[tpage[s]]))
          /\ Goto(s, "grant")
       \/ /\ \/ SendCommandFails(s, Reply("content", mem[tpage[s]]))
             \/ "malloc" \in Faults /\ UNCHANGED s2c
          /\ Goto(s, "close")
    /\ UNCHANGED <<tableVars, fd, tpage, tnew, sock, c2s>>

\* The owner's thread receives the command that should be a write; anything
\* else, a closed connection and a text that malloc has no room for included,
\* ends it with the page still locked.
RecvWrite(s) ==
    /\ tpc[s] = "grant"
    /\ \/ /\ c2s[s] # <<>>
          /\ LET m == Head(c2s[s])
             IN \/ /\ m.cmd = "write"
                   /\ tpage' = [tpage EXCEPT ![s] = m.page]
                   /\ tnew' = [tnew EXCEPT ![s] = m.body]
                   /\ Goto(s, "write")
                \/ /\ m.cmd # "write" \/ "malloc" \in Faults
                   /\ Goto(s, "close")
                   /\ UNCHANGED <<tpage, tnew>>
          /\ c2s' = [c2s EXCEPT ![s] = Tail(@)]
       \/ /\ ServerSeesEOF(s)
          /\ Goto(s, "close")
          /\ UNCHANGED <<tpage, tnew, c2s>>
    /\ UNCHANGED <<tableVars, fd, sock, s2c>>

\* Mutant: the page number is checked and the queue is not.
AuthorisedForAnyPage(s) == tpage[s] \in Pages

Authorised(s) == tpage[s] \in Pages /\ AtHead(s, tpage[s])

\* write_page turns down a thread that is not the head of the page's queue.
WriteRefused(s) ==
    /\ tpc[s] = "write" /\ ~Authorised(s)
    /\ tpage[s] \in Pages => MutexFree(tpage[s])
    /\ Deliver(s, Reply("error", ErrorText))
    /\ Goto(s, "close")
    /\ UNCHANGED <<tableVars, fd, tpage, tnew, sock, c2s>>

\* write_page takes the mutex, passes the check and starts changing the page.
WriteBegin(s) ==
    /\ tpc[s] = "write" /\ Authorised(s) /\ MutexFree(tpage[s])
    /\ writer' = [writer EXCEPT ![tpage[s]] = s]
    /\ mem' = [mem EXCEPT ![tpage[s]] = Torn(@, Stored(tnew[s]))]
    /\ Goto(s, "copy")
    /\ UNCHANGED <<lock, queue, fd, tpage, tnew, wireVars>>

\* write_page ends: the page is complete, "2 " is sent (a failure is only
\* logged), the head leaves the queue, an empty queue unlocks the page.
WriteEnd(s) ==
    LET p == tpage[s]
    IN /\ tpc[s] = "copy"
       /\ mem' = [mem EXCEPT ![p] = Stored(tnew[s])]
       /\ SendCommand(s, Reply("done", Blank)) \/ SendCommandFails(s, Reply("done", Blank))
       /\ queue' = [queue EXCEPT ![p] = RemoveFromQueue(@)]
       /\ lock' = [lock EXCEPT ![p] = LockAfterWrite(p, RemoveFromQueue(queue[p]))]
       /\ writer' = [writer EXCEPT ![p] = NoSession]
       /\ Goto(s, "close")
       /\ UNCHANGED <<fd, tpage, tnew, sock, c2s>>

\* The end of handle_client: the descriptor is free again, wherever it is
\* still queued.
CloseClient(s) ==
    /\ tpc[s] = "close"
    /\ ServerCloses({s})
    /\ fd' = [fd EXCEPT ![s] = NoFd]
    /\ tpage' = [tpage EXCEPT ![s] = NoPage]
    /\ tnew' = [tnew EXCEPT ![s] = Blank]
    /\ Goto(s, "none")
    /\ UNCHANGED <<tableVars, s2c>>

\* The process dies (SIGPIPE is not ignored) and is started again: the page
\* table is new, the shared memory segment is the old one.
CrashRestart ==
    /\ "crash" \in Faults
    /\ lock' = [p \in Pages |-> 0]
    /\ queue' = [p \in Pages |-> <<>>]
    /\ writer' = [p \in Pages |-> NoSession]
    /\ tpc' = [s \in Sessions |-> "none"]
    /\ fd' = [s \in Sessions |-> NoFd]
    /\ tpage' = [s \in Sessions |-> NoPage]
    /\ tnew' = [s \in Sessions |-> Blank]
    /\ ServerCloses(Sessions)
    /\ UNCHANGED <<mem, s2c>>

ServerStep(s) ==
    \/ Accept(s) \/ AcceptFails(s) \/ RecvCommand(s) \/ ReadPage(s)
    \/ ReadLockInvalid(s) \/ ReadLockBusy(s) \/ ReadLockFree(s) \/ TakeTurn(s)
    \/ RecvWrite(s) \/ WriteRefused(s) \/ WriteBegin(s) \/ WriteEnd(s)
    \/ CloseClient(s)
=============================================================================
