------------------------------ MODULE Tp7Files ------------------------------
(***************************************************************************)
(* The distributed file system of tp7: the name server (dns_server.c), the *)
(* file server (file_server.c) and runs of the client (client.c).  Both    *)
(* servers answer one connection after the other.  A client asks the name  *)
(* server for a file, which locks it for a writer; the writer gets the     *)
(* file on one connection, its user edits the copy, and it puts it back on *)
(* another; then the file server asks the name server to unlock it.        *)
(*                                                                         *)
(* All addresses are constants of the code: there is one file server.      *)
(* Every run of the client has a directory, and so a client_edit.txt, of   *)
(* its own.                                                                *)
(***************************************************************************)
EXTENDS Integers, FiniteSets

CONSTANTS
    Clients,        \* runs of the client program
    NoClient,
    Files,          \* the .txt files in the server's directory, without blanks
    Requests,       \* what a client may be called with: [file, cmd]
    MaxTable,       \* the length of fileTable
    MaxStarts,      \* bound: how often the file server is started
    Faults          \* which of AllFaults happen

\* "kill": a client is killed; "crash": the file server is killed; "sigpipe":
\* so is it when it goes on sending to a client that is gone; "busy": bind
\* fails, as the port still has connections in TIME_WAIT, and the server
\* listens on another one; "glue": the name of the file to be stored arrives
\* together with the first line.
AllFaults == {"kill", "crash", "sigpipe", "busy", "glue"}

ASSUME Tp7Assumption ==
    /\ NoClient \notin Clients /\ IsFiniteSet(Clients)
    /\ IsFiniteSet(Files) /\ MaxTable \in Nat /\ Cardinality(Files) <= MaxTable
    /\ Requests # {} /\ Requests \subseteq [file : Files, cmd : {"READ", "WRITE"}]
    /\ MaxStarts \in Nat \ {0}
    /\ Faults \subseteq AllFaults

VARIABLES
    fileTable,          \* of the name server: how the file is registered
    registered_files,   \* of the file server
    todo,               \* the files that readdir has still to return
    srv,                \* what the file server is doing, and for whom
    starts,
    disk,               \* the version of a file in the server's directory
    cpc,                \* where the client is; its connection may outlive it
    alive,
    arg,                \* what it was called with
    copy                \* the version in client_edit.txt

serverVars == <<registered_files, todo, srv, starts>>
clientVars == <<cpc, alive, arg, copy>>
vars == <<fileTable, serverVars, disk, clientVars>>

\* A version counts the updates that the text consists of; Half is a text
\* that was cut off, Empty one of which nothing arrived.
Half == -1
Empty == -2
\* The update adds one; the mutant stores it behind the old text.
Appended(v) == 2 * v + 1
Edited(v) == IF v < 0 THEN v ELSE v + 1

Server(op) == [op |-> op, c |-> NoClient, whole |-> TRUE]

Init ==
    /\ fileTable = [f \in Files |-> "absent"]
    /\ registered_files = {}
    /\ todo = {}
    /\ srv = Server("down")
    /\ starts = 0
    /\ disk = [f \in Files |-> 0]
    /\ cpc = [c \in Clients |-> "ask"]
    /\ alive = [c \in Clients |-> TRUE]
    /\ arg = [c \in Clients |-> CHOOSE r \in Requests : TRUE]
    /\ copy = [c \in Clients |-> Empty]

CliGoto(c, pc) == cpc' = [cpc EXCEPT ![c] = pc]
File(c) == arg[c].file
Writes(c) == arg[c].cmd = "WRITE"

-----------------------------------------------------------------------------
\* Mutant: a locked file is taken, too, and unlocked by it.
AlwaysRegisters(f) == TRUE

\* REGISTER_FILE in the name server: a file that is there already is only
\* taken from the same server, and when it is not locked.
Registers(f) == fileTable[f] # "locked"

\* main of the file server begins.
StartServer ==
    /\ srv.op = "down" /\ starts < MaxStarts
    /\ starts' = starts + 1
    /\ srv' = Server("register")
    /\ todo' = Files
    /\ registered_files' = {}
    /\ UNCHANGED <<fileTable, disk, clientVars>>

\* Mutant: whatever the name server answers, the file is served.
IgnoresDuplicate(f) ==
    /\ srv.op = "register" /\ f \in todo
    /\ todo' = todo \ {f}
    /\ registered_files' = registered_files \cup {f}
    /\ fileTable' = IF Registers(f) THEN [fileTable EXCEPT ![f] = "free"] ELSE fileTable
    /\ UNCHANGED <<srv, starts, disk, clientVars>>

\* register_file, and the answer of the name server.
RegisterFile(f) ==
    /\ srv.op = "register" /\ f \in todo
    /\ todo' = todo \ {f}
    /\ IF Registers(f)
       THEN /\ fileTable' = [fileTable EXCEPT ![f] = "free"]
            /\ registered_files' = registered_files \cup {f}
       ELSE UNCHANGED <<fileTable, registered_files>>
    /\ UNCHANGED <<srv, starts, disk, clientVars>>

\* bind, which may fail unnoticed, and listen.
Listen ==
    /\ srv.op = "register" /\ todo = {}
    /\ \/ srv' = Server("idle")
       \/ "busy" \in Faults /\ starts > 1 /\ srv' = Server("deaf")
    /\ UNCHANGED <<fileTable, registered_files, todo, starts, disk, clientVars>>

Listening == srv.op \notin {"down", "register", "deaf"}

\* Mutant: the connection of a client whose file is not served stays open.
ForgetsClose(c) ==
    /\ srv.op = "idle" /\ cpc[c] = "get"
    /\ File(c) \in registered_files
    /\ srv' = [op |-> "get", c |-> c, whole |-> TRUE]
    /\ UNCHANGED <<fileTable, registered_files, todo, starts, disk, clientVars>>

\* handle_client of the file server, GET_FILE: the file is sent line by line.
BeginGet(c) ==
    /\ srv.op = "idle" /\ cpc[c] = "get"
    \* fopen finds the file: nobody removes one from the directory meanwhile.
    /\ IF File(c) \in registered_files
       THEN srv' = [op |-> "get", c |-> c, whole |-> TRUE] /\ UNCHANGED <<clientVars>>
       ELSE \* The connection is closed.
            /\ CliGoto(c, IF alive[c] /\ Writes(c) THEN "edit" ELSE "ended")
            /\ UNCHANGED <<srv, alive, arg, copy>>
    /\ UNCHANGED <<fileTable, registered_files, todo, starts, disk>>

\* What becomes of the connections, and of the clients that wait on them,
\* when the server has ended.
LoseConnections ==
    /\ cpc' = [c \in Clients |->
                CASE cpc[c] = "get" -> IF alive[c] /\ Writes(c) THEN "edit" ELSE "ended"
                  [] cpc[c] = "put" -> "ended"
                  [] OTHER -> cpc[c]]
    /\ copy' = [c \in Clients |->
                IF cpc[c] = "get" /\ srv.op = "get" /\ srv.c = c THEN Half ELSE copy[c]]
    /\ registered_files' = {} /\ todo' = {}
    /\ UNCHANGED <<alive, arg>>

EndGet ==
    /\ srv.op = "get"
    /\ \/ /\ srv' = Server("idle")
          /\ CliGoto(srv.c, IF alive[srv.c] /\ Writes(srv.c) THEN "edit" ELSE "ended")
          /\ copy' = [copy EXCEPT ![srv.c] = disk[File(srv.c)]]
          /\ UNCHANGED <<registered_files, todo, alive, arg>>
       \/ /\ "sigpipe" \in Faults /\ ~alive[srv.c]
          /\ srv' = Server("down")
          /\ LoseConnections
    /\ UNCHANGED <<fileTable, starts, disk>>

\* PUT_FILE: fopen truncates the file.  When the first line arrives with the
\* name, there is no such file, or the line is lost.
BeginPut(c) ==
    /\ srv.op = "idle" /\ cpc[c] = "put"
    /\ \/ /\ File(c) \in registered_files
          /\ \E whole \in {TRUE} \cup (IF "glue" \in Faults THEN {FALSE} ELSE {}) :
                srv' = [op |-> "put", c |-> c, whole |-> whole]
          /\ disk' = [disk EXCEPT ![File(c)] = Half]
          /\ UNCHANGED clientVars
       \/ /\ File(c) \notin registered_files \/ "glue" \in Faults
          /\ CliGoto(c, "ended")
          /\ UNCHANGED <<srv, disk, alive, arg, copy>>
    /\ UNCHANGED <<fileTable, registered_files, todo, starts>>

\* Mutant: the server gives up when the client is gone.
UnlocksOnlyWhole ==
    /\ srv.op = "put"
    /\ IF alive[srv.c]
       THEN /\ srv' = [srv EXCEPT !.op = "unlock"]
            /\ disk' = [disk EXCEPT ![File(srv.c)] = Edited(copy[srv.c])]
            /\ UNCHANGED cpc
       ELSE srv' = Server("idle") /\ CliGoto(srv.c, "ended") /\ UNCHANGED disk
    /\ UNCHANGED <<fileTable, registered_files, todo, starts, alive, arg, copy>>

\* recv has returned everything that the client has sent.
EndPut ==
    /\ srv.op = "put"
    /\ srv' = [srv EXCEPT !.op = "unlock"]
    /\ IF alive[srv.c] /\ srv.whole
       THEN disk' = [disk EXCEPT ![File(srv.c)] = Edited(copy[srv.c])]
       ELSE UNCHANGED disk
    /\ UNCHANGED <<fileTable, registered_files, todo, starts, clientVars>>

\* unlock_file_in_dns, UNLOCK_FILE in the name server, and close.
Unlock ==
    /\ srv.op = "unlock"
    /\ fileTable' = [fileTable EXCEPT ![File(srv.c)] = "free"]
    /\ srv' = Server("idle")
    /\ CliGoto(srv.c, "ended")
    /\ UNCHANGED <<registered_files, todo, starts, disk, alive, arg, copy>>

\* The file server is killed.
Crash ==
    /\ "crash" \in Faults /\ srv.op # "down"
    /\ srv' = Server("down")
    /\ LoseConnections
    /\ UNCHANGED <<fileTable, starts, disk>>

-----------------------------------------------------------------------------
\* request_file, with REQUEST_FILE in the name server.
RequestFile(c) ==
    /\ cpc[c] = "ask" /\ alive[c]
    /\ \E r \in Requests :
        /\ arg' = [arg EXCEPT ![c] = r]
        /\ \/ /\ r.cmd = "WRITE" /\ fileTable[r.file] = "free"
              /\ fileTable' = [fileTable EXCEPT ![r.file] = "locked"]
              /\ CliGoto(c, "open")
           \/ /\ r.cmd = "READ" /\ fileTable[r.file] # "absent"
              /\ CliGoto(c, "open") /\ UNCHANGED fileTable
           \/ \* LOCKED or NOT_FOUND
              /\ fileTable[r.file] = "absent" \/ (r.cmd = "WRITE" /\ fileTable[r.file] = "locked")
              /\ CliGoto(c, "ended") /\ UNCHANGED fileTable
    /\ UNCHANGED <<serverVars, disk, alive, copy>>

\* connect and send.  Without a connection, send ends the client (SIGPIPE).
SendTo(c, pc) == CliGoto(c, IF Listening THEN pc ELSE "ended")

GetFile(c) ==
    /\ cpc[c] = "open" /\ alive[c]
    /\ SendTo(c, "get")
    /\ UNCHANGED <<fileTable, serverVars, disk, alive, arg, copy>>

\* The user has pressed Enter; PUT_FILE and the text are sent.
PutFile(c) ==
    /\ cpc[c] = "edit" /\ alive[c]
    /\ SendTo(c, "put")
    /\ UNCHANGED <<fileTable, serverVars, disk, alive, arg, copy>>

\* A client is killed.  What it has sent still arrives; while it puts the
\* file, the rest of the text does not.
Kill(c) ==
    /\ "kill" \in Faults /\ alive[c] /\ cpc[c] \notin {"ask", "ended"}
    /\ alive' = [alive EXCEPT ![c] = FALSE]
    /\ CliGoto(c, IF cpc[c] \in {"get", "put"} THEN cpc[c] ELSE "ended")
    /\ UNCHANGED <<fileTable, serverVars, disk, arg, copy>>

Serve ==
    \/ Listen \/ EndGet \/ EndPut \/ Unlock
    \/ \E f \in Files : RegisterFile(f)
    \/ \E c \in Clients : BeginGet(c) \/ BeginPut(c)
Client(c) == RequestFile(c) \/ GetFile(c) \/ PutFile(c)

Next ==
    \/ StartServer \/ Serve \/ Crash
    \/ \E c \in Clients : Client(c) \/ Kill(c)

Spec == Init /\ [][Next]_vars

\* The file server goes on, and so do the clients, whose users press Enter.
\* Nobody has to start a server or to kill anybody.
Fairness ==
    /\ WF_vars(Serve)
    /\ \A c \in Clients : WF_vars(Client(c))

FairSpec == Spec /\ Fairness

-----------------------------------------------------------------------------
Versions == {Half} \cup 0..Cardinality(Clients)

TypeOK ==
    /\ fileTable \in [Files -> {"absent", "free", "locked"}]
    /\ registered_files \subseteq Files
    /\ todo \subseteq Files
    /\ srv \in [op : {"down", "register", "idle", "deaf", "get", "put", "unlock"},
                c : Clients \cup {NoClient}, whole : BOOLEAN]
    /\ starts \in 0..MaxStarts
    /\ disk \in [Files -> Versions]
    /\ cpc \in [Clients -> {"ask", "open", "get", "edit", "put", "ended"}]
    /\ alive \in [Clients -> BOOLEAN]
    /\ arg \in [Clients -> Requests]
    /\ copy \in [Clients -> Versions \cup {Empty}]

\* c has been given the file for writing, and it is not yet decided what
\* becomes of its update.
Writing(c) == Writes(c) /\ cpc[c] \in {"open", "get", "edit", "put"}

(***************************************************************************)
(* One writer at a time, from the answer of the name server until the      *)
(* update is stored or lost, and all that time the file is locked: across  *)
(* restarts of the file server, which registers its files again, and       *)
(* although it is the file server that unlocks, for whoever puts a file.   *)
(***************************************************************************)
OneWriter ==
    \A c \in Clients : Writing(c) =>
        /\ fileTable[File(c)] = "locked"
        /\ \A d \in Clients \ {c} : Writing(d) => File(d) # File(c)

(***************************************************************************)
(* What a writer has edited is the text that its update will replace.      *)
(* When it is not, since the server was killed while it sent the file, or  *)
(* had been started again and had not got the file registered, then the    *)
(* server will not take the update.                                        *)
(***************************************************************************)
UpdatesReplaceWhatWasRead ==
    \A c \in Clients : Writing(c) /\ cpc[c] \in {"edit", "put"} /\ File(c) \in registered_files =>
        \/ copy[c] = disk[File(c)]
        \/ srv.c = c /\ srv.op \in {"put", "unlock"}

(***************************************************************************)
(* A run of the client ends: with the text, with an error or by SIGPIPE,   *)
(* but it waits for ever for no answer, whoever is killed.                 *)
(***************************************************************************)
EveryRunEnds == \A c \in Clients : cpc[c] # "ask" ~> cpc[c] = "ended"

(***************************************************************************)
(* An update that the server has begun to store gives the lock back, even  *)
(* when its client has been killed meanwhile, unless the server is killed. *)
(***************************************************************************)
StoredUpdateUnlocks ==
    \A f \in Files :
        srv.op = "put" /\ File(srv.c) = f ~> fileTable[f] = "free" \/ srv.op = "down"
=============================================================================
