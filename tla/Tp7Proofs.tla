----------------------------- MODULE Tp7Proofs -----------------------------
(***************************************************************************)
(* The locks and the updates of tp7, for any clients, files and number of  *)
(* restarts, and under every fault.                                        *)
(***************************************************************************)
EXTENDS Tp7Files, FiniteSetTheorems, TLAPS

\* What the file server may be doing.
Servers == [op : {"down", "register", "idle", "deaf", "get", "put", "unlock"},
            c : Clients \cup {NoClient}, whole : BOOLEAN]

\* The types that the proofs need; versions are not counted.
Types ==
    /\ fileTable \in [Files -> {"absent", "free", "locked"}]
    /\ srv \in Servers
    /\ disk \in [Files -> Int]
    /\ cpc \in [Clients -> {"ask", "open", "get", "edit", "put", "ended"}]
    /\ alive \in [Clients -> BOOLEAN]
    /\ arg \in [Clients -> Requests]
    /\ copy \in [Clients -> Int]

\* The connection that the file server is serving is there still: a client
\* that is killed does not take it away.
ServesAConnection ==
    /\ srv.op = "get" => srv.c \in Clients /\ cpc[srv.c] = "get"
    /\ srv.op \in {"put", "unlock"} => srv.c \in Clients /\ cpc[srv.c] = "put"

\* Only who has asked to write gets so far as to edit and to put a file.
OnlyWritersPut == \A c \in Clients : cpc[c] \in {"edit", "put"} => Writes(c)

(***************************************************************************)
(* The inductive invariant: the server unlocks and overwrites a file only  *)
(* for a client that puts it, so for a writer, so for the only one.        *)
(***************************************************************************)
Inv == Types /\ ServesAConnection /\ OnlyWritersPut /\ OneWriter /\ UpdatesReplaceWhatWasRead

-----------------------------------------------------------------------------
\* What a client was called with.
LEMMA Arguments ==
    ASSUME Types, NEW c \in Clients
    PROVE  /\ arg[c] \in Requests /\ File(c) \in Files /\ arg[c].cmd \in {"READ", "WRITE"}
           /\ alive[c] \in BOOLEAN /\ copy[c] \in Int /\ Edited(copy[c]) \in Int
<1>1. arg[c] \in Requests /\ alive[c] \in BOOLEAN /\ copy[c] \in Int  BY DEF Types
<1>2. arg[c] \in [file : Files, cmd : {"READ", "WRITE"}]  BY <1>1, Tp7Assumption
<1> QED  BY <1>1, <1>2 DEF File, Edited

\* Nobody is writing, so that the invariant says little, before it starts.
LEMMA InitInv == Init => Inv
<1> SUFFICES ASSUME Init PROVE Inv  OBVIOUS
<1>1. (CHOOSE r \in Requests : TRUE) \in Requests  BY Tp7Assumption
<1>2. Types  BY <1>1 DEF Init, Types, Server, Servers, Empty
<1>3. \A c \in Clients : cpc[c] = "ask"  BY DEF Init
<1>4. srv.op = "down"  BY DEF Init, Server
<1>5. ServesAConnection  BY <1>4 DEF ServesAConnection
<1>6. OnlyWritersPut /\ OneWriter /\ UpdatesReplaceWhatWasRead
  BY <1>3 DEF OnlyWritersPut, OneWriter, UpdatesReplaceWhatWasRead, Writing
<1> QED  BY <1>2, <1>5, <1>6 DEF Inv

\* The writer of a file is the only one, and the file is locked.
LEMMA OnlyWriter ==
    ASSUME Inv, NEW c \in Clients, Writing(c)
    PROVE  /\ fileTable[File(c)] = "locked"
           /\ \A d \in Clients : Writing(d) /\ File(d) = File(c) => d = c
BY DEF Inv, OneWriter

\* A client that puts a file is writing it.
LEMMA WhoPutsWrites ==
    ASSUME Inv, NEW c \in Clients, cpc[c] = "put"
    PROVE  Writing(c)
BY DEF Inv, OnlyWritersPut, Writing

\* Types, ServesAConnection and OnlyWritersPut only speak of these variables.
LEMMA StartServerInv == ASSUME Inv, StartServer PROVE Inv'
<1>1. srv'.op = "register" /\ srv' = Server("register")  BY DEF StartServer, Server
<1>2. UNCHANGED <<fileTable, disk, cpc, alive, arg, copy>>  BY DEF StartServer, clientVars
<1>3. Types'  BY <1>1, <1>2 DEF Inv, Types, Server, Servers
<1>4. ServesAConnection'  BY <1>1 DEF ServesAConnection
<1>5. OnlyWritersPut' /\ OneWriter'
  BY <1>2 DEF Inv, OnlyWritersPut, OneWriter, Writing, Writes, File
<1>6. UpdatesReplaceWhatWasRead'  BY DEF StartServer, UpdatesReplaceWhatWasRead
<1> QED  BY <1>3, <1>4, <1>5, <1>6 DEF Inv

\* A file that is registered again is not locked, so that nobody writes it.
LEMMA RegisterFileInv == ASSUME Inv, NEW f \in Files, RegisterFile(f) PROVE Inv'
<1>1. UNCHANGED <<srv, disk, cpc, alive, arg, copy>>  BY DEF RegisterFile, clientVars
<1>2. Types'
  BY <1>1 DEF Inv, Types, RegisterFile
<1>3. ServesAConnection' /\ OnlyWritersPut'
  BY <1>1 DEF Inv, ServesAConnection, OnlyWritersPut, Writes
<1>4. \A c \in Clients : Writing(c)' = Writing(c) /\ File(c)' = File(c)
  BY <1>1 DEF Writing, Writes, File
<1>5. CASE Registers(f)
  <2>1. /\ fileTable' = [fileTable EXCEPT ![f] = "free"]
        /\ registered_files' = registered_files \cup {f}
    BY <1>5 DEF RegisterFile
  <2>2. \A c \in Clients : Writing(c) => File(c) # f
    BY <1>5, OnlyWriter DEF Registers
  <2>3. \A c \in Clients : Writing(c) => fileTable'[File(c)] = fileTable[File(c)]
    BY <2>1, <2>2, Arguments DEF Inv, Types
  <2>4. OneWriter'
    BY <1>4, <2>3 DEF Inv, OneWriter
  <2>5. UpdatesReplaceWhatWasRead'
    BY <1>1, <1>4, <2>1, <2>2 DEF Inv, UpdatesReplaceWhatWasRead
  <2> QED  BY <1>2, <1>3, <2>4, <2>5 DEF Inv
<1>6. CASE ~Registers(f)
  <2>1. UNCHANGED <<fileTable, registered_files>>  BY <1>6 DEF RegisterFile
  <2>2. OneWriter' /\ UpdatesReplaceWhatWasRead'
    BY <1>1, <1>4, <2>1 DEF Inv, OneWriter, UpdatesReplaceWhatWasRead
  <2> QED  BY <1>2, <1>3, <2>2 DEF Inv
<1> QED  BY <1>5, <1>6

\* bind and listen change nothing that a client sees.
LEMMA ListenInv == ASSUME Inv, Listen PROVE Inv'
<1>1. UNCHANGED <<fileTable, registered_files, disk, cpc, alive, arg, copy>>
  BY DEF Listen, clientVars
<1>2. srv.op = "register" /\ (srv' = Server("idle") \/ srv' = Server("deaf"))  BY DEF Listen
<1>3. Types'
  <2>1. Server("idle") \in Servers /\ Server("deaf") \in Servers  BY DEF Server, Servers
  <2>2. srv' \in Servers  BY <1>2, <2>1
  <2> QED  BY <1>1, <2>2 DEF Inv, Types
<1>4. ServesAConnection'  BY <1>2 DEF ServesAConnection, Server
<1>5. \A c \in Clients : Writing(c)' = Writing(c) /\ File(c)' = File(c)
  BY <1>1 DEF Writing, Writes, File
<1>6. OnlyWritersPut' /\ OneWriter' /\ UpdatesReplaceWhatWasRead'
  BY <1>1, <1>2, <1>5 DEF Inv, OnlyWritersPut, OneWriter, UpdatesReplaceWhatWasRead, Writes
<1> QED  BY <1>3, <1>4, <1>6 DEF Inv

(***************************************************************************)
(* Steps in which some clients go on with what they were doing, or end:    *)
(* the table and what they were called with stay, and no one else becomes  *)
(* a writer.                                                               *)
(***************************************************************************)
LEMMA FewerWriters ==
    ASSUME Inv, UNCHANGED <<fileTable, arg>>,
           \A c \in Clients : Writing(c)' => Writing(c)
    PROVE  OneWriter'
BY DEF Inv, OneWriter, File

\* A server that has no connection of a client, or another one.
LEMMA ServerTypes ==
    /\ \A op \in {"down", "register", "idle", "deaf"} : Server(op) \in Servers
    /\ \A op \in {"down", "register", "idle", "deaf"} : Server(op).op = op
    /\ \A c \in Clients, whole \in BOOLEAN, op \in {"get", "put", "unlock"} :
            [op |-> op, c |-> c, whole |-> whole] \in Servers
BY DEF Server, Servers

\* GET_FILE begins; without the file the connection is closed.
LEMMA BeginGetInv == ASSUME Inv, NEW c \in Clients, BeginGet(c) PROVE Inv'
<1>1. srv.op = "idle" /\ cpc[c] = "get"  BY DEF BeginGet
<1>2. UNCHANGED <<fileTable, registered_files, disk, alive, arg, copy>>
  BY DEF BeginGet, clientVars
<1>3. CASE File(c) \in registered_files
  <2>1. srv' = [op |-> "get", c |-> c, whole |-> TRUE] /\ cpc' = cpc
    BY <1>3 DEF BeginGet, clientVars
  <2>2. srv' \in Servers  BY <2>1, ServerTypes
  <2>3. Types'  BY <1>2, <2>1, <2>2 DEF Inv, Types
  <2>4. ServesAConnection'  BY <1>1, <2>1 DEF ServesAConnection
  <2>5. \A d \in Clients : Writing(d)' = Writing(d) /\ File(d)' = File(d)
    BY <1>2, <2>1 DEF Writing, Writes, File
  <2>6. OnlyWritersPut' /\ OneWriter'
    BY <1>2, <2>1, <2>5, FewerWriters DEF Inv, OnlyWritersPut, Writes
  <2>7. UpdatesReplaceWhatWasRead'
    BY <1>1, <1>2, <2>1, <2>5 DEF Inv, UpdatesReplaceWhatWasRead
  <2> QED  BY <2>3, <2>4, <2>6, <2>7 DEF Inv
<1>4. CASE File(c) \notin registered_files
  <2>1. /\ cpc' = [cpc EXCEPT ![c] = IF alive[c] /\ Writes(c) THEN "edit" ELSE "ended"]
        /\ srv' = srv
    BY <1>4 DEF BeginGet, CliGoto
  <2>2. Types'  BY <1>2, <2>1 DEF Inv, Types
  <2>3. ServesAConnection'  BY <1>1, <2>1 DEF ServesAConnection
  <2>4. \A d \in Clients : d # c => cpc'[d] = cpc[d]  BY <2>1 DEF Inv, Types
  <2>5. cpc'[c] \in {"edit", "ended"} /\ (cpc'[c] = "edit" => Writes(c))
    BY <2>1 DEF Inv, Types
  <2>6. OnlyWritersPut'
    BY <1>2, <2>4, <2>5 DEF Inv, OnlyWritersPut, Writes
  <2>7. \A d \in Clients : (Writing(d)' => Writing(d)) /\ File(d)' = File(d)
    BY <1>1, <1>2, <2>4 DEF Writing, Writes, File
  <2>8. OneWriter'  BY <1>2, <2>7, FewerWriters
  <2>9. UpdatesReplaceWhatWasRead'
    BY <1>2, <1>4, <2>1, <2>4, <2>7 DEF Inv, UpdatesReplaceWhatWasRead
  <2> QED  BY <2>2, <2>3, <2>6, <2>8, <2>9 DEF Inv
<1> QED  BY <1>3, <1>4

\* The server ends: nothing is registered, and connections are lost.
LEMMA LoseConnectionsInv ==
    ASSUME Inv, LoseConnections, srv' = Server("down"), UNCHANGED <<fileTable, disk>>
    PROVE  Inv'
<1>1. UNCHANGED <<alive, arg>> /\ registered_files' = {}  BY DEF LoseConnections
<1>2. \A c \in Clients : cpc'[c] = CASE cpc[c] = "get" -> IF alive[c] /\ Writes(c) THEN "edit" ELSE "ended"
                                      [] cpc[c] = "put" -> "ended"
                                      [] OTHER -> cpc[c]
  BY DEF LoseConnections
<1>3. \A c \in Clients : cpc'[c] \in {"ask", "open", "get", "edit", "put", "ended"}
  BY <1>2 DEF Inv, Types
<1>4. cpc' \in [Clients -> {"ask", "open", "get", "edit", "put", "ended"}]
  BY <1>3 DEF LoseConnections
<1>5. copy' \in [Clients -> Int]
  BY DEF LoseConnections, Inv, Types, Half
<1>6. Types'  BY <1>1, <1>4, <1>5, ServerTypes DEF Inv, Types
<1>7. ServesAConnection'  BY ServerTypes DEF ServesAConnection
<1>8. \A c \in Clients : cpc'[c] \in {"edit", "put"} => Writes(c)
  BY <1>2 DEF Inv, OnlyWritersPut
<1>9. OnlyWritersPut'  BY <1>1, <1>8 DEF OnlyWritersPut, Writes
<1>10. \A c \in Clients : Writing(c)' => Writing(c)
  BY <1>1, <1>2 DEF Writing, Writes
<1>11. OneWriter'  BY <1>1, <1>10, FewerWriters
<1>12. UpdatesReplaceWhatWasRead'  BY <1>1 DEF UpdatesReplaceWhatWasRead
<1> QED  BY <1>6, <1>7, <1>9, <1>11, <1>12 DEF Inv

\* The file has been sent, or the client's absence ends the server.
LEMMA EndGetInv == ASSUME Inv, EndGet PROVE Inv'
<1>1. srv.op = "get" /\ UNCHANGED <<fileTable, disk>>  BY DEF EndGet
<1>2. CASE srv' = Server("down") /\ LoseConnections  BY <1>1, <1>2, LoseConnectionsInv
<1>3. CASE /\ srv' = Server("idle")
           /\ CliGoto(srv.c, IF alive[srv.c] /\ Writes(srv.c) THEN "edit" ELSE "ended")
           /\ copy' = [copy EXCEPT ![srv.c] = disk[File(srv.c)]]
           /\ UNCHANGED <<registered_files, todo, alive, arg>>
  <2>1. PICK c \in Clients : c = srv.c /\ cpc[c] = "get"
    BY <1>1 DEF Inv, ServesAConnection
  <2>2. /\ cpc' = [cpc EXCEPT ![c] = IF alive[c] /\ Writes(c) THEN "edit" ELSE "ended"]
        /\ copy' = [copy EXCEPT ![c] = disk[File(c)]]
    BY <1>3, <2>1 DEF CliGoto
  <2>3. Types'
    <3>1. disk[File(c)] \in Int  BY Arguments DEF Inv, Types
    <3> QED  BY <1>1, <1>3, <2>2, <3>1, ServerTypes DEF Inv, Types
  <2>4. ServesAConnection'  BY <1>3, ServerTypes DEF ServesAConnection
  <2>5. \A d \in Clients : d # c => cpc'[d] = cpc[d] /\ copy'[d] = copy[d]
    BY <2>2 DEF Inv, Types
  <2>6. cpc'[c] \in {"edit", "ended"} /\ (cpc'[c] = "edit" => Writes(c)) /\ copy'[c] = disk[File(c)]
    BY <2>2 DEF Inv, Types
  <2>7. OnlyWritersPut'  BY <1>3, <2>5, <2>6 DEF Inv, OnlyWritersPut, Writes
  <2>8. \A d \in Clients : (Writing(d)' => Writing(d)) /\ File(d)' = File(d)
    BY <1>3, <2>1, <2>5 DEF Writing, Writes, File
  <2>9. OneWriter'  BY <1>1, <1>3, <2>8, FewerWriters
  <2>10. UpdatesReplaceWhatWasRead'
    BY <1>1, <1>3, <2>5, <2>6, <2>8 DEF Inv, UpdatesReplaceWhatWasRead
  <2> QED  BY <2>3, <2>4, <2>7, <2>9, <2>10 DEF Inv
<1> QED  BY <1>2, <1>3 DEF EndGet

\* PUT_FILE overwrites the file of the client that puts it, its only writer.
LEMMA BeginPutInv == ASSUME Inv, NEW c \in Clients, BeginPut(c) PROVE Inv'
<1>1. srv.op = "idle" /\ cpc[c] = "put" /\ UNCHANGED <<fileTable, registered_files, alive, arg, copy>>
  BY DEF BeginPut, clientVars
<1>2. ASSUME NEW whole \in BOOLEAN, srv' = [op |-> "put", c |-> c, whole |-> whole],
             disk' = [disk EXCEPT ![File(c)] = Half], UNCHANGED clientVars
      PROVE  Inv'
  <2>1. srv' \in Servers  BY <1>2, ServerTypes
  <2>2. srv'.op = "put" /\ srv'.c = c  BY <1>2
  <2>3. disk' \in [Files -> Int]
    <3>1. Half \in Int  BY DEF Half
    <3>2. disk \in [Files -> Int]  BY DEF Inv, Types
    <3> QED  BY <1>2, <3>1, <3>2
  <2>4. cpc' = cpc  BY <1>2 DEF clientVars
  <2>5. Types'  BY <1>1, <2>1, <2>3, <2>4 DEF Inv, Types
  <2>6. ServesAConnection'  BY <1>1, <2>2, <2>4 DEF ServesAConnection
  <2>7. \A d \in Clients : Writing(d)' = Writing(d) /\ File(d)' = File(d)
    BY <1>1, <2>4 DEF Writing, Writes, File
  <2>8. OnlyWritersPut' /\ OneWriter'
    BY <1>1, <2>4, <2>7, FewerWriters DEF Inv, OnlyWritersPut, Writes
  <2>9. \A d \in Clients : Writing(d) /\ d # c => disk'[File(d)] = disk[File(d)]
    BY <1>1, <1>2, WhoPutsWrites, OnlyWriter, Arguments DEF Inv, Types
  <2>10. UpdatesReplaceWhatWasRead'
    BY <1>1, <2>2, <2>4, <2>7, <2>9 DEF Inv, UpdatesReplaceWhatWasRead
  <2> QED  BY <2>5, <2>6, <2>8, <2>10 DEF Inv
<1>3. CASE CliGoto(c, "ended") /\ UNCHANGED <<srv, disk>>
  <2>1. cpc' = [cpc EXCEPT ![c] = "ended"]  BY <1>3 DEF CliGoto
  <2>2. Types'  BY <1>1, <1>3, <2>1 DEF Inv, Types
  <2>3. ServesAConnection'  BY <1>1, <1>3 DEF ServesAConnection
  <2>4. cpc'[c] = "ended" /\ \A d \in Clients : d # c => cpc'[d] = cpc[d]
    BY <2>1 DEF Inv, Types
  <2>5. OnlyWritersPut'  BY <1>1, <2>4 DEF Inv, OnlyWritersPut, Writes
  <2>6. \A d \in Clients : (Writing(d)' => Writing(d)) /\ File(d)' = File(d)
    BY <1>1, <2>4 DEF Writing, Writes, File
  <2>7. OneWriter'  BY <1>1, <2>6, FewerWriters
  <2>8. UpdatesReplaceWhatWasRead'
    BY <1>1, <1>3, <2>4, <2>6 DEF Inv, UpdatesReplaceWhatWasRead
  <2> QED  BY <2>2, <2>3, <2>5, <2>7, <2>8 DEF Inv
<1> QED  BY <1>2, <1>3 DEF BeginPut

\* What has arrived is stored; the writer is still the only one.
LEMMA EndPutInv == ASSUME Inv, EndPut PROVE Inv'
<1>1. srv.op = "put" /\ srv' = [srv EXCEPT !.op = "unlock"]  BY DEF EndPut
<1>2. UNCHANGED <<fileTable, registered_files, cpc, alive, arg, copy>>  BY DEF EndPut, clientVars
<1>3. PICK c \in Clients : c = srv.c /\ cpc[c] = "put"  BY <1>1 DEF Inv, ServesAConnection
<1>4. srv' \in Servers /\ srv'.op = "unlock" /\ srv'.c = c  BY <1>1, <1>3 DEF Inv, Types, Servers
<1>5. disk' = disk \/ disk' = [disk EXCEPT ![File(c)] = Edited(copy[c])]  BY <1>3 DEF EndPut
<1>6. disk' \in [Files -> Int]  BY <1>5, Arguments DEF Inv, Types
<1>7. Types'  BY <1>2, <1>4, <1>6 DEF Inv, Types
<1>8. ServesAConnection'  BY <1>2, <1>3, <1>4 DEF ServesAConnection
<1>9. \A d \in Clients : Writing(d)' = Writing(d) /\ File(d)' = File(d)
  BY <1>2 DEF Writing, Writes, File
<1>10. OnlyWritersPut' /\ OneWriter'
  BY <1>2, <1>9, FewerWriters DEF Inv, OnlyWritersPut, Writes
<1>11. \A d \in Clients : Writing(d) /\ d # c => disk'[File(d)] = disk[File(d)]
  BY <1>3, <1>5, WhoPutsWrites, OnlyWriter, Arguments DEF Inv, Types
<1>12. UpdatesReplaceWhatWasRead'
  BY <1>2, <1>3, <1>4, <1>9, <1>11 DEF Inv, UpdatesReplaceWhatWasRead
<1> QED  BY <1>7, <1>8, <1>10, <1>12 DEF Inv

\* The file is unlocked for its only writer, which ends.
LEMMA UnlockInv == ASSUME Inv, Unlock PROVE Inv'
<1>1. srv.op = "unlock" /\ srv' = Server("idle")  BY DEF Unlock
<1>2. UNCHANGED <<registered_files, disk, alive, arg, copy>>  BY DEF Unlock
<1>3. PICK c \in Clients : c = srv.c /\ cpc[c] = "put"  BY <1>1 DEF Inv, ServesAConnection
<1>4. cpc' = [cpc EXCEPT ![c] = "ended"] /\ fileTable' = [fileTable EXCEPT ![File(c)] = "free"]
  BY <1>3 DEF Unlock, CliGoto
<1>5. Types'  BY <1>1, <1>2, <1>4, ServerTypes DEF Inv, Types
<1>6. ServesAConnection'  BY <1>1, ServerTypes DEF ServesAConnection
<1>7. cpc'[c] = "ended" /\ \A d \in Clients : d # c => cpc'[d] = cpc[d]
  BY <1>4 DEF Inv, Types
<1>8. OnlyWritersPut'  BY <1>2, <1>7 DEF Inv, OnlyWritersPut, Writes
<1>9. \A d \in Clients : (Writing(d)' => Writing(d) /\ d # c) /\ File(d)' = File(d)
  BY <1>2, <1>7 DEF Writing, Writes, File
<1>10. \A d \in Clients : Writing(d) /\ d # c => fileTable'[File(d)] = fileTable[File(d)]
  BY <1>3, <1>4, WhoPutsWrites, OnlyWriter, Arguments DEF Inv, Types
<1>11. OneWriter'  BY <1>9, <1>10 DEF Inv, OneWriter
<1>12. UpdatesReplaceWhatWasRead'
  BY <1>2, <1>3, <1>7, <1>9 DEF Inv, UpdatesReplaceWhatWasRead
<1> QED  BY <1>5, <1>6, <1>8, <1>11, <1>12 DEF Inv

\* The name server locks a file that is free, so that nobody is writing it.
LEMMA RequestFileInv == ASSUME Inv, NEW c \in Clients, RequestFile(c) PROVE Inv'
<1>1. cpc[c] = "ask" /\ UNCHANGED <<registered_files, srv, disk, alive, copy>>
  BY DEF RequestFile, serverVars
<1>2. PICK r \in Requests :
        /\ arg' = [arg EXCEPT ![c] = r]
        /\ \/ /\ r.cmd = "WRITE" /\ fileTable[r.file] = "free"
              /\ fileTable' = [fileTable EXCEPT ![r.file] = "locked"]
              /\ CliGoto(c, "open")
           \/ /\ r.cmd = "READ"
              /\ CliGoto(c, "open") /\ UNCHANGED fileTable
           \/ CliGoto(c, "ended") /\ UNCHANGED fileTable
  BY DEF RequestFile
<1>3. r.file \in Files /\ r.cmd \in {"READ", "WRITE"}  BY Tp7Assumption
<1>4. Types'  BY <1>1, <1>2, <1>3 DEF Inv, Types, CliGoto
<1>5. /\ cpc'[c] \in {"open", "ended"} /\ arg'[c] = r
      /\ \A d \in Clients : d # c => cpc'[d] = cpc[d] /\ arg'[d] = arg[d]
  BY <1>2 DEF Inv, Types, CliGoto
<1>6. ServesAConnection'
  BY <1>1, <1>5 DEF Inv, ServesAConnection
<1>7. OnlyWritersPut'  BY <1>5 DEF Inv, OnlyWritersPut, Writes
<1>8. \A d \in Clients : d # c => Writing(d)' = Writing(d) /\ File(d)' = File(d)
  BY <1>5 DEF Writing, Writes, File
<1>9. File(c)' = r.file /\ (Writes(c)' <=> r.cmd = "WRITE")  BY <1>5 DEF File, Writes
<1>10. UpdatesReplaceWhatWasRead'
  BY <1>1, <1>5, <1>8 DEF Inv, UpdatesReplaceWhatWasRead
<1>11. CASE ~Writing(c)' /\ UNCHANGED fileTable
  BY <1>4, <1>6, <1>7, <1>8, <1>10, <1>11 DEF Inv, OneWriter
<1>12. CASE /\ r.cmd = "WRITE" /\ fileTable[r.file] = "free"
            /\ fileTable' = [fileTable EXCEPT ![r.file] = "locked"]
  <2>1. \A d \in Clients : Writing(d) => File(d) # r.file  BY <1>12, OnlyWriter
  <2>2. fileTable'[r.file] = "locked"  BY <1>3, <1>12 DEF Inv, Types
  <2>3. \A d \in Clients : Writing(d) => fileTable'[File(d)] = fileTable[File(d)]
    BY <1>12, <2>1, Arguments DEF Inv, Types
  <2>4. OneWriter'  BY <1>8, <1>9, <2>1, <2>2, <2>3 DEF Inv, OneWriter
  <2> QED  BY <1>4, <1>6, <1>7, <1>10, <2>4 DEF Inv
<1>13. CliGoto(c, "ended") \/ r.cmd = "READ" => ~Writing(c)'
  BY <1>9 DEF Inv, Types, CliGoto, Writing
<1> QED  BY <1>2, <1>11, <1>12, <1>13

(***************************************************************************)
(* A step in which one client goes on to connect, or ends, and keeps its   *)
(* copy, does not make a writer of it.                                     *)
(***************************************************************************)
LEMMA ClientStep ==
    ASSUME Inv, NEW c \in Clients, NEW pc \in {"get", "put", "ended"},
           cpc' = [cpc EXCEPT ![c] = pc],
           UNCHANGED <<fileTable, registered_files, srv, disk, arg, copy>>,
           alive' \in [Clients -> BOOLEAN],
           \/ pc = "get" /\ cpc[c] \in {"open", "get"}
           \/ pc = "put" /\ cpc[c] \in {"edit", "put"}
           \/ pc = "ended" /\ cpc[c] \notin {"get", "put"}
    PROVE  Inv'
<1>1. Types'  BY DEF Inv, Types
<1>2. cpc'[c] = pc /\ \A d \in Clients : d # c => cpc'[d] = cpc[d]  BY DEF Inv, Types
<1>3. ServesAConnection'  BY <1>2 DEF Inv, ServesAConnection
<1>4. OnlyWritersPut'  BY <1>2 DEF Inv, OnlyWritersPut, Writes
<1>5. \A d \in Clients : (Writing(d)' => Writing(d)) /\ File(d)' = File(d)
  BY <1>2 DEF Writing, Writes, File
<1>6. OneWriter'  BY <1>5, FewerWriters
<1>7. UpdatesReplaceWhatWasRead'
  BY <1>2, <1>5 DEF Inv, UpdatesReplaceWhatWasRead
<1> QED  BY <1>1, <1>3, <1>4, <1>6, <1>7 DEF Inv

\* Every step keeps Inv.
LEMMA NextInv == Inv /\ [Next]_vars => Inv'
<1> SUFFICES ASSUME Inv, [Next]_vars PROVE Inv'  OBVIOUS
<1>1. CASE StartServer  BY <1>1, StartServerInv
<1>2. CASE Listen  BY <1>2, ListenInv
<1>3. CASE EndGet  BY <1>3, EndGetInv
<1>4. CASE EndPut  BY <1>4, EndPutInv
<1>5. CASE Unlock  BY <1>5, UnlockInv
<1>6. ASSUME NEW f \in Files, RegisterFile(f) PROVE Inv'  BY <1>6, RegisterFileInv
<1>7. ASSUME NEW c \in Clients, BeginGet(c) PROVE Inv'  BY <1>7, BeginGetInv
<1>8. ASSUME NEW c \in Clients, BeginPut(c) PROVE Inv'  BY <1>8, BeginPutInv
<1>9. CASE Crash  BY <1>9, LoseConnectionsInv DEF Crash
<1>10. ASSUME NEW c \in Clients, RequestFile(c) PROVE Inv'  BY <1>10, RequestFileInv
<1>11. ASSUME NEW c \in Clients, GetFile(c) PROVE Inv'
  <2>1. PICK pc \in {"get", "ended"} : cpc' = [cpc EXCEPT ![c] = pc]
    BY <1>11 DEF GetFile, SendTo, CliGoto
  <2>2. cpc[c] = "open" /\ UNCHANGED <<fileTable, registered_files, srv, disk, alive, arg, copy>>
    BY <1>11 DEF GetFile, serverVars
  <2>3. alive' \in [Clients -> BOOLEAN]  BY <2>2 DEF Inv, Types
  <2> QED  BY <2>1, <2>2, <2>3, ClientStep
<1>12. ASSUME NEW c \in Clients, PutFile(c) PROVE Inv'
  <2>1. PICK pc \in {"put", "ended"} : cpc' = [cpc EXCEPT ![c] = pc]
    BY <1>12 DEF PutFile, SendTo, CliGoto
  <2>2. cpc[c] = "edit" /\ UNCHANGED <<fileTable, registered_files, srv, disk, alive, arg, copy>>
    BY <1>12 DEF PutFile, serverVars
  <2>3. alive' \in [Clients -> BOOLEAN]  BY <2>2 DEF Inv, Types
  <2> QED  BY <2>1, <2>2, <2>3, ClientStep
<1>13. ASSUME NEW c \in Clients, Kill(c) PROVE Inv'
  <2>1. cpc' = [cpc EXCEPT ![c] = IF cpc[c] \in {"get", "put"} THEN cpc[c] ELSE "ended"]
    BY <1>13 DEF Kill, CliGoto
  <2>2. alive' = [alive EXCEPT ![c] = FALSE] /\ UNCHANGED <<fileTable, registered_files, srv, disk, arg, copy>>
    BY <1>13 DEF Kill, serverVars
  <2>3. alive' \in [Clients -> BOOLEAN]  BY <2>2 DEF Inv, Types
  <2>4. CASE cpc[c] \in {"get", "put"}  BY <2>1, <2>2, <2>3, <2>4, ClientStep
  <2>5. CASE cpc[c] \notin {"get", "put"}  BY <2>1, <2>2, <2>3, <2>5, ClientStep
  <2> QED  BY <2>4, <2>5
<1>14. CASE UNCHANGED vars
  BY <1>14 DEF vars, serverVars, clientVars, Inv, Types, ServesAConnection, OnlyWritersPut,
     OneWriter, UpdatesReplaceWhatWasRead, Writing, Writes, File
<1> QED
  BY <1>1, <1>2, <1>3, <1>4, <1>5, <1>6, <1>7, <1>8, <1>9, <1>10, <1>11, <1>12, <1>13, <1>14
     DEF Next, Serve, Client

-----------------------------------------------------------------------------
(***************************************************************************)
(* One writer of a file at a time, and its file is locked, for any clients *)
(* and files, and however often the file server is started again.          *)
(***************************************************************************)
THEOREM WritersExclude == Spec => []OneWriter
<1>1. Inv => OneWriter  BY DEF Inv
<1> QED  BY InitInv, NextInv, <1>1, PTL DEF Spec

(***************************************************************************)
(* No update replaces a text that its writer has not read, whoever is      *)
(* killed and whatever part of a file has arrived.                         *)
(***************************************************************************)
THEOREM NoUpdateIsLost == Spec => []UpdatesReplaceWhatWasRead
<1>1. Inv => UpdatesReplaceWhatWasRead  BY DEF Inv
<1> QED  BY InitInv, NextInv, <1>1, PTL DEF Spec

-----------------------------------------------------------------------------
\* The runs whose update, if any, is behind them.
Stored == {c \in Clients : cpc[c] = "ended" \/ (srv.op = "unlock" /\ srv.c = c)}

UpTo == {Half} \cup 0..Cardinality(Stored)

(***************************************************************************)
(* What TypeOK says beyond Types.  A version is bounded by the number of   *)
(* runs, as each one stores at most once; and a text that never arrived is *)
(* never stored, since what is put is what was read.                       *)
(***************************************************************************)
Counted ==
    /\ disk \in [Files -> UpTo] /\ copy \in [Clients -> UpTo \cup {Empty}]
    /\ srv.op = "put" => copy[srv.c] # Empty
    /\ registered_files \subseteq Files /\ todo \subseteq Files /\ starts \in 0..MaxStarts

\* There are no more of them than clients.
LEMMA StoredIsFinite ==
    /\ IsFiniteSet(Stored) /\ Cardinality(Stored) \in Nat
    /\ Cardinality(Clients) \in Nat /\ Cardinality(Stored) <= Cardinality(Clients)
<1>1. Stored \subseteq Clients  BY DEF Stored
<1>2. IsFiniteSet(Clients)  BY Tp7Assumption
<1> QED  BY <1>1, <1>2, FS_Subset, FS_CardinalityType

\* The same after a step.
LEMMA StoredIsFiniteNext == IsFiniteSet(Stored') /\ Cardinality(Stored') \in Nat
<1>1. Stored' \subseteq Clients  BY DEF Stored
<1>2. IsFiniteSet(Clients)  BY Tp7Assumption
<1> QED  BY <1>1, <1>2, FS_Subset, FS_CardinalityType

\* As the set grows, so do the versions there may be.
LEMMA MoreVersions ==
    ASSUME Stored \subseteq Stored'
    PROVE  UpTo \subseteq UpTo'
<1>1. Cardinality(Stored) <= Cardinality(Stored')  BY StoredIsFiniteNext, FS_Subset
<1>2. \A a, b \in Nat : a <= b => 0..a \subseteq 0..b  OBVIOUS
<1>3. 0..Cardinality(Stored) \subseteq 0..Cardinality(Stored')
  BY <1>1, <1>2, StoredIsFinite, StoredIsFiniteNext
<1> QED  BY <1>3 DEF UpTo

\* A run that has ended, or that the server unlocks for, stays so.
LEMMA StoredGrows == ASSUME Inv, Next PROVE Stored \subseteq Stored'
<1> SUFFICES ASSUME NEW c \in Stored PROVE c \in Stored'  OBVIOUS
<1>1. c \in Clients /\ (cpc[c] = "ended" \/ (srv.op = "unlock" /\ srv.c = c))  BY DEF Stored
<1>2. srv.op = "unlock" => cpc[srv.c] = "put" /\ srv.c \in Clients
  BY DEF Inv, ServesAConnection
<1>3. cpc \in [Clients -> {"ask", "open", "get", "edit", "put", "ended"}]  BY DEF Inv, Types
<1>4. ASSUME UNCHANGED srv, NEW d \in Clients, cpc[d] # "ended",
             srv.op = "unlock" => d # c, NEW pc, cpc' = [cpc EXCEPT ![d] = pc]
      PROVE  c \in Stored'
  BY <1>1, <1>3, <1>4 DEF Stored
<1>5. CASE UNCHANGED <<srv, cpc>>  BY <1>1, <1>5 DEF Stored
<1>6. CASE StartServer \/ Listen
  <2>1. srv.op # "unlock" /\ UNCHANGED cpc  BY <1>6 DEF StartServer, Listen, clientVars
  <2> QED  BY <1>1, <2>1 DEF Stored
<1>7. CASE \E f \in Files : RegisterFile(f)
  BY <1>5, <1>7 DEF RegisterFile, clientVars
<1>8. CASE \E d \in Clients : RequestFile(d) \/ GetFile(d) \/ PutFile(d)
  <2>1. PICK d \in Clients : RequestFile(d) \/ GetFile(d) \/ PutFile(d)  BY <1>8
  <2>2. /\ UNCHANGED srv /\ cpc[d] \notin {"put", "ended"}
        /\ \E pc : cpc' = [cpc EXCEPT ![d] = pc]
    BY <2>1 DEF RequestFile, GetFile, PutFile, SendTo, CliGoto, serverVars
  <2> QED  BY <1>1, <1>2, <1>4, <2>2
<1>9. CASE \E d \in Clients : Kill(d)
  <2>1. PICK d \in Clients : Kill(d)  BY <1>9
  <2>2. /\ UNCHANGED srv /\ cpc[d] # "ended"
        /\ cpc' = [cpc EXCEPT ![d] = IF cpc[d] \in {"get", "put"} THEN cpc[d] ELSE "ended"]
    BY <2>1 DEF Kill, CliGoto, serverVars
  <2> QED  BY <1>1, <1>3, <2>2 DEF Stored
<1>10. CASE \E d \in Clients : BeginGet(d) \/ BeginPut(d)
  <2>1. PICK d \in Clients : BeginGet(d) \/ BeginPut(d)  BY <1>10
  <2>2. /\ srv.op = "idle" /\ cpc[d] # "ended"
        /\ UNCHANGED cpc \/ \E pc : cpc' = [cpc EXCEPT ![d] = pc]
    BY <2>1 DEF BeginGet, BeginPut, CliGoto, clientVars
  <2> QED  BY <1>1, <1>3, <2>2 DEF Stored
<1>11. ASSUME LoseConnections PROVE c \in Stored'
  <2>1. cpc'[c] = CASE cpc[c] = "get" -> IF alive[c] /\ Writes(c) THEN "edit" ELSE "ended"
                    [] cpc[c] = "put" -> "ended"
                    [] OTHER -> cpc[c]
    BY <1>1, <1>11 DEF LoseConnections
  <2>2. cpc'[c] = "ended"  BY <1>1, <1>2, <2>1
  <2> QED  BY <1>1, <2>2 DEF Stored
<1>12. CASE EndGet
  <2>1. srv.op = "get" /\ srv.c \in Clients /\ cpc[srv.c] = "get"
    BY <1>12 DEF EndGet, Inv, ServesAConnection
  <2>2. CASE LoseConnections  BY <1>11, <2>2
  <2>3. CASE \E pc : cpc' = [cpc EXCEPT ![srv.c] = pc]  BY <1>1, <1>3, <2>1, <2>3 DEF Stored
  <2> QED  BY <1>12, <2>2, <2>3 DEF EndGet, CliGoto
<1>13. CASE EndPut
  <2>1. srv.op = "put" /\ UNCHANGED cpc  BY <1>13 DEF EndPut, clientVars
  <2> QED  BY <1>1, <2>1 DEF Stored
<1>14. CASE Unlock
  <2>1. srv.c \in Clients /\ srv.op = "unlock" /\ cpc' = [cpc EXCEPT ![srv.c] = "ended"]
    BY <1>2, <1>14 DEF Unlock, CliGoto
  <2> QED  BY <1>1, <1>3, <2>1 DEF Stored
<1>15. CASE Crash  BY <1>11, <1>15 DEF Crash
<1> QED
  BY <1>6, <1>7, <1>8, <1>9, <1>10, <1>12, <1>13, <1>14, <1>15 DEF Next, Serve, Client

\* Nothing has been stored.
LEMMA InitCounted == Init => Counted
<1> SUFFICES ASSUME Init PROVE Counted  OBVIOUS
<1>1. 0 \in 0..Cardinality(Stored)  BY StoredIsFinite
<1>2. disk \in [Files -> UpTo] /\ copy \in [Clients -> UpTo \cup {Empty}]
  BY <1>1 DEF Init, UpTo
<1>3. srv.op = "down"  BY DEF Init, Server
<1> QED  BY <1>2, <1>3, Tp7Assumption DEF Init, Counted

\* One text is copied, edited or cut off at a time.
LEMMA NextCounted == ASSUME Inv, Counted, Next PROVE Counted'
<1>1. Types  BY DEF Inv
<1>2. UpTo \subseteq UpTo'  BY StoredGrows, MoreVersions
<1>3. Half \in UpTo'  BY DEF UpTo
<1>4. registered_files' \subseteq Files /\ todo' \subseteq Files /\ starts' \in 0..MaxStarts
  <2>1. CASE StartServer
    <3>1. \A a \in 0..MaxStarts : a < MaxStarts => a + 1 \in 0..MaxStarts  BY Tp7Assumption
    <3> QED  BY <2>1, <3>1 DEF StartServer, Counted
  <2>2. CASE \E f \in Files : RegisterFile(f)  BY <2>2 DEF RegisterFile, Counted
  <2>3. CASE Crash \/ EndGet  BY <2>3 DEF Crash, EndGet, LoseConnections, Counted
  <2>4. CASE UNCHANGED <<registered_files, todo, starts>>  BY <2>4 DEF Counted
  <2> QED
    BY <2>1, <2>2, <2>3, <2>4 DEF Next, Serve, Client, Kill, Listen, EndPut, Unlock, BeginGet,
       BeginPut, RequestFile, GetFile, PutFile, serverVars
<1>5. ASSUME UNCHANGED disk  PROVE disk' \in [Files -> UpTo']  BY <1>2, <1>5 DEF Counted
<1>6. ASSUME UNCHANGED copy  PROVE copy' \in [Clients -> UpTo' \cup {Empty}]
  BY <1>2, <1>6 DEF Counted
<1>7. ASSUME LoseConnections  PROVE copy' \in [Clients -> UpTo' \cup {Empty}]
  BY <1>2, <1>3, <1>7 DEF Counted, LoseConnections
<1>8. ASSUME disk' \in [Files -> UpTo'], copy' \in [Clients -> UpTo' \cup {Empty}],
             srv'.op = "put" => copy'[srv'.c] # Empty
      PROVE  Counted'
  BY <1>4, <1>8 DEF Counted
<1>9. CASE StartServer \/ Listen \/ Unlock
  <2>1. UNCHANGED <<disk, copy>> /\ srv'.op # "put"
    BY <1>9 DEF StartServer, Listen, Unlock, Server, clientVars
  <2> QED  BY <1>5, <1>6, <1>8, <2>1
<1>10. CASE \/ \E f \in Files : RegisterFile(f)
            \/ \E c \in Clients : Client(c) \/ Kill(c)
  <2>1. UNCHANGED <<disk, copy, srv>>
    BY <1>10 DEF RegisterFile, Client, Kill, RequestFile, GetFile, PutFile, serverVars, clientVars
  <2> QED  BY <1>5, <1>6, <1>8, <2>1 DEF Counted
<1>11. CASE \E c \in Clients : BeginGet(c)
  <2>1. UNCHANGED <<disk, copy>> /\ srv'.op # "put"
    BY <1>11 DEF BeginGet, clientVars
  <2> QED  BY <1>5, <1>6, <1>8, <2>1
<1>12. CASE \E c \in Clients : BeginPut(c)
  <2>1. PICK c \in Clients : BeginPut(c)  BY <1>12
  <2>2. UNCHANGED copy /\ srv.op = "idle" /\ cpc[c] = "put" /\ File(c) \in Files
    BY <1>1, <2>1, Arguments DEF BeginPut, clientVars
  <2>3. CASE UNCHANGED <<srv, disk>>  BY <1>5, <1>6, <1>8, <2>2, <2>3
  <2>4. CASE /\ File(c) \in registered_files /\ srv'.c = c
             /\ disk' = [disk EXCEPT ![File(c)] = Half]
    <3>1. disk' \in [Files -> UpTo']  BY <1>2, <1>3, <2>4 DEF Counted
    <3>2. Writing(c)  BY <2>2, WhoPutsWrites
    <3>3. copy[c] = disk[File(c)]  BY <2>2, <2>4, <3>2 DEF Inv, UpdatesReplaceWhatWasRead
    <3>4. disk[File(c)] \in UpTo  BY <2>2 DEF Counted
    <3>5. Empty \notin UpTo  BY StoredIsFinite DEF Empty, Half, UpTo
    <3> QED  BY <1>6, <1>8, <2>2, <2>4, <3>1, <3>3, <3>4, <3>5
  <2>5. ASSUME NEW whole, srv' = [op |-> "put", c |-> c, whole |-> whole]  PROVE srv'.c = c
    BY <2>5
  <2> QED  BY <2>1, <2>3, <2>4, <2>5 DEF BeginPut
<1>13. CASE EndGet
  <2>1. srv.c \in Clients  BY <1>13 DEF EndGet, Inv, ServesAConnection
  <2>2. UNCHANGED disk /\ srv'.op # "put"  BY <1>13 DEF EndGet, Server
  <2>3. CASE LoseConnections  BY <1>5, <1>7, <1>8, <2>2, <2>3
  <2>4. CASE copy' = [copy EXCEPT ![srv.c] = disk[File(srv.c)]]
    <3>1. File(srv.c) \in Files  BY <1>1, <2>1, Arguments
    <3>2. disk[File(srv.c)] \in UpTo'  BY <1>2, <3>1 DEF Counted
    <3>3. copy' \in [Clients -> UpTo' \cup {Empty}]  BY <1>2, <2>4, <3>2 DEF Counted
    <3> QED  BY <1>5, <1>8, <2>2, <3>3
  <2> QED  BY <1>13, <2>3, <2>4 DEF EndGet
<1>14. CASE EndPut
  <2>1. /\ srv.op = "put" /\ srv.c \in Clients /\ cpc[srv.c] = "put"
        /\ UNCHANGED <<copy, cpc>>
    BY <1>14 DEF EndPut, clientVars, Inv, ServesAConnection
  <2>2. srv' = [srv EXCEPT !.op = "unlock"]  BY <1>14 DEF EndPut
  <2>3. srv' = [op |-> "unlock", c |-> srv.c, whole |-> srv.whole]
    BY <1>1, <2>2 DEF Types, Servers
  <2>4. CASE UNCHANGED disk  BY <1>5, <1>6, <1>8, <2>1, <2>3, <2>4
  <2>5. CASE disk' = [disk EXCEPT ![File(srv.c)] = Edited(copy[srv.c])]
    <3>1. Stored' = Stored \cup {srv.c} /\ srv.c \notin Stored
      BY <2>1, <2>3 DEF Stored
    <3>2. Cardinality(Stored') = Cardinality(Stored) + 1
      BY <3>1, StoredIsFinite, FS_AddElement
    <3>3. copy[srv.c] \in UpTo  BY <2>1 DEF Counted
    <3>4. \A k \in Nat : \A v \in 0..k : v + 1 \in 0..(k + 1)  OBVIOUS
    <3>5. Edited(copy[srv.c]) \in UpTo'
      <4>1. CASE copy[srv.c] = Half  BY <1>3, <4>1 DEF Edited, Half
      <4>2. CASE copy[srv.c] \in 0..Cardinality(Stored)
        <5>1. Edited(copy[srv.c]) = copy[srv.c] + 1  BY <4>2, StoredIsFinite DEF Edited
        <5>2. copy[srv.c] + 1 \in 0..Cardinality(Stored')
          BY <3>2, <3>4, <4>2, StoredIsFinite
        <5> QED  BY <5>1, <5>2 DEF UpTo
      <4> QED  BY <3>3, <4>1, <4>2 DEF UpTo
    <3>6. disk' \in [Files -> UpTo']  BY <1>2, <2>5, <3>5 DEF Counted
    <3> QED  BY <1>6, <1>8, <2>1, <2>3, <3>6
  <2> QED  BY <1>14, <2>4, <2>5 DEF EndPut
<1>15. CASE Crash
  <2>1. UNCHANGED disk /\ srv'.op # "put" /\ LoseConnections  BY <1>15 DEF Crash, Server
  <2> QED  BY <1>5, <1>7, <1>8, <2>1
<1> QED
  BY <1>9, <1>10, <1>11, <1>12, <1>13, <1>14, <1>15 DEF Next, Serve

(***************************************************************************)
(* The types, and that a file on the disk of file_server.c is never one of *)
(* which nothing arrived, nor a version that nobody has stored: a text has *)
(* at most one update for each run of client.c.                            *)
(***************************************************************************)
THEOREM TypeCorrect == Spec => []TypeOK
<1>1. Inv /\ Counted => TypeOK
  <2>1. ASSUME NEW a \in Nat, NEW b \in Nat, a <= b  PROVE 0..a \subseteq 0..b
    BY <2>1
  <2>2. UpTo \subseteq Versions  BY <2>1, StoredIsFinite DEF UpTo, Versions
  <2> QED  BY <2>2 DEF Inv, Types, Servers, Counted, TypeOK
<1>2. Inv /\ Counted /\ [Next]_vars => Counted'
  <2>1. ASSUME Counted, UNCHANGED vars  PROVE Counted'
    BY <2>1 DEF vars, serverVars, clientVars, Counted, UpTo, Stored
  <2> QED  BY <2>1, NextCounted
<1> QED  BY InitInv, NextInv, InitCounted, <1>1, <1>2, PTL DEF Spec
=============================================================================
