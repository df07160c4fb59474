-------------------------- MODULE FileSystemProofs --------------------------
(***************************************************************************)
(* The locks and the updates of the distributed file system, for any       *)
(* servers, names, jobs and texts, and under every fault.                  *)
(***************************************************************************)
EXTENDS FileSystem, FiniteSetTheorems, TLAPS

\* The job is between the DNS's answer and its end, here or in the daemon.
Busy(j) == cpc[j] \notin {"idle", "ask"} \/ hilo[j] # "none"

\* The table has as many names as were registered.
TableIsFinite == IsFiniteSet({n \in Names : Known(n)})

\* Where a job and the daemon's thread that serves it can be together.
JobAndThread(j) ==
    /\ hilo[j] = "get" => cpc[j] = "download"
    /\ hilo[j] \in {"put", "write"} => cpc[j] \in {"sending", "idle"}
    /\ hilo[j] = "unlock" => cpc[j] = "idle"
    /\ j \in abiertas <=> cpc[j] = "sending"

\* Only who has asked for the lock edits and sends.
OnlyWritersSend(j) ==
    cpc[j] \in {"edit", "sending"} \/ hilo[j] \in {"put", "write", "unlock"} => cmd[j] = "ESCRIBIR"

\* What a job knows of its name is what the DNS has, for good.
DestinationIsKnown(j) ==
    /\ cpc[j] = "ask" => Name(j) \in Names
    /\ Busy(j) => Name(j) \in Names /\ Srv(j) \in Servers /\ tabla[Name(j)].puerto = Srv(j)

\* The lock is taken as long as its writer is there.
WriterHasTheLock(j) == Busy(j) /\ cmd[j] = "ESCRIBIR" => tabla[Name(j)].bloqueado = 1

\* Until the daemon opens the file to replace it, a writer has its text, if
\* the download was whole.
EditorHasTheText(j) ==
    (cpc[j] = "edit" \/ hilo[j] = "put") /\ copia[j] \notin {"half", "nothing"}
        => copia[j] = archivo[Srv(j)][Name(j)]

JobInv(j) ==
    /\ JobAndThread(j) /\ OnlyWritersSend(j) /\ DestinationIsKnown(j)
    /\ WriterHasTheLock(j) /\ EditorHasTheText(j)

(***************************************************************************)
(* The inductive invariant.  A second writer is kept out by the lock, so   *)
(* that OneWriter needs WriterHasTheLock; that the daemon unlocks for no   *)
(* other job, and only at the end, is JobAndThread.                        *)
(***************************************************************************)
Inv == TypeOK /\ TableIsFinite /\ OneWriter /\ \A j \in Jobs : JobInv(j)

-----------------------------------------------------------------------------
\* The entries of the table.
Entries == [puerto : Servers \cup {NoServer}, bloqueado : {0, 1}, tipo : Tipos]
Menus == [todo : SUBSET Names, fork : BOOLEAN, busy : BOOLEAN]
Destinations == [puerto : Servers \cup {NoServer}, nombre : Names \cup {NoName}]

\* The types, part by part.
Typed ==
    /\ tabla \in [Names -> Entries] /\ Cardinality({n \in Names : Known(n)}) <= MaxFiles
    /\ menu \in [Servers -> Menus]
    /\ registrados \in [Servers -> SUBSET Names] /\ servidos \in [Servers -> SUBSET Names]
    /\ daemon \in SUBSET Servers
    /\ archivo \in [Servers -> [Names -> Contents]]
    /\ hilo \in [Jobs -> Threads]
    /\ cpc \in [Jobs -> ClientPCs] /\ cmd \in [Jobs -> {"LEER", "ESCRIBIR"}]
    /\ tipo \in [Jobs -> Tipos] /\ copia \in [Jobs -> Contents]
    /\ destino \in [Jobs -> Destinations] /\ envio \in [Jobs -> Contents]
    /\ abiertas \in SUBSET Jobs

\* Typed is TypeOK with names for its sets, before and after a step.
LEMMA Types == (TypeOK <=> Typed) /\ (TypeOK' <=> Typed')
BY DEF Typed, TypeOK, DnsTypeOK, ServerTypeOK, ClientTypeOK, Entries, Menus, Destinations

\* The table of the DNS begins empty, and nobody has run anything.
LEMMA InitInv == Init => Inv
<1> SUFFICES ASSUME Init PROVE Inv  OBVIOUS
<1>1. {n \in Names : Known(n)} = {}  BY DEF Init, DnsInit, Known, Unknown
<1>2. IsFiniteSet({}) /\ Cardinality({}) = 0  BY FS_EmptySet
<1>3. TableIsFinite  BY <1>1, <1>2 DEF TableIsFinite
<1>4. Cardinality({n \in Names : Known(n)}) <= MaxFiles  BY <1>1, <1>2, DnsAssumption
<1>5. /\ Unknown \in Entries /\ Idle \in Menus
      /\ [puerto |-> NoServer, nombre |-> NoName] \in Destinations
  BY DEF Unknown, Entries, Tipos, Idle, Menus, Destinations
<1>6. "original" \in Contents /\ "nothing" \in Contents  BY DEF Contents
<1>7. TypeOK
  BY <1>4, <1>5, <1>6, Types DEF Typed, Init, DnsInit, ServerInit, ClientInit, Threads, ClientPCs, Tipos
<1>8. \A j \in Jobs : cpc[j] = "idle" /\ hilo[j] = "none" /\ j \notin abiertas
  BY DEF Init, ServerInit, ClientInit
<1>9. OneWriter  BY <1>8 DEF OneWriter, Writing
<1>10. \A j \in Jobs : JobInv(j)
  BY <1>8 DEF JobInv, JobAndThread, OnlyWritersSend, DestinationIsKnown, WriterHasTheLock,
     EditorHasTheText, Busy
<1> QED  BY <1>3, <1>7, <1>9, <1>10 DEF Inv

-----------------------------------------------------------------------------
\* A step that leaves a job, its thread and what they rely on alone.
Untouched(i) ==
    /\ cpc'[i] = cpc[i] /\ hilo'[i] = hilo[i] /\ cmd'[i] = cmd[i]
    /\ destino'[i] = destino[i] /\ copia'[i] = copia[i]
    /\ i \in abiertas' <=> i \in abiertas

LEMMA UntouchedJob ==
    ASSUME NEW i \in Jobs, JobInv(i), Untouched(i),
           Busy(i) => tabla'[Name(i)].puerto = tabla[Name(i)].puerto,
           Busy(i) /\ cmd[i] = "ESCRIBIR" => tabla'[Name(i)].bloqueado = tabla[Name(i)].bloqueado,
           cpc[i] = "edit" \/ hilo[i] = "put" =>
                archivo'[Srv(i)][Name(i)] = archivo[Srv(i)][Name(i)]
    PROVE  JobInv(i)'
<1>1. Name(i)' = Name(i) /\ Srv(i)' = Srv(i)  BY DEF Untouched, Name, Srv
<1>2. Busy(i)' <=> Busy(i)  BY DEF Untouched, Busy
<1>3. JobAndThread(i)' /\ OnlyWritersSend(i)'
  BY DEF JobInv, Untouched, JobAndThread, OnlyWritersSend
<1>4. DestinationIsKnown(i)'  BY <1>1, <1>2 DEF JobInv, Untouched, DestinationIsKnown
<1>5. WriterHasTheLock(i)'  BY <1>1, <1>2 DEF JobInv, Untouched, WriterHasTheLock
<1>6. EditorHasTheText(i)'  BY <1>1 DEF JobInv, Untouched, EditorHasTheText
<1> QED  BY <1>3, <1>4, <1>5, <1>6 DEF JobInv

\* Nobody becomes a writer.
LEMMA FewerWriters ==
    ASSUME OneWriter, \A i \in Jobs : \A n \in Names : Writing(i, n)' => Writing(i, n)
    PROVE  OneWriter'
BY DEF OneWriter

\* An untouched job is as much of a writer as before.
LEMMA UntouchedWriter ==
    ASSUME NEW i \in Jobs, Untouched(i)
    PROVE  \A n \in Names : Writing(i, n)' <=> Writing(i, n)
BY DEF Untouched, Writing, Name

\* The table is the same: so is what it holds.
LEMMA SameTable ==
    ASSUME Inv, tabla' \in [Names -> Entries],
           \A n \in Names : tabla'[n].puerto = tabla[n].puerto
    PROVE  TableIsFinite' /\ Cardinality({n \in Names : Known(n)})' <= MaxFiles
<1>1. {n \in Names : Known(n)}' = {n \in Names : Known(n)}  BY DEF Known
<1> QED  BY <1>1, Types DEF Inv, Typed, TableIsFinite

\* The commands of the menu, as long as nothing is registered.
LEMMA MenuInv ==
    ASSUME Inv, NEW d \in Servers, Operator(d) \/ (CommandEnds(d) /\ UNCHANGED <<linkVars, clientVars>>)
    PROVE  Inv'
<1>1. UNCHANGED <<tabla, archivo, hilo, destino, envio, abiertas, cpc, cmd, tipo, copia>>
  BY DEF Operator, Habilitar, ActualizarTodo, SubirElemento, Command, Salir, CommandEnds, linkVars, clientVars
<1>2. /\ tabla \in [Names -> Entries] /\ menu \in [Servers -> Menus]
      /\ registrados \in [Servers -> SUBSET Names] /\ servidos \in [Servers -> SUBSET Names]
      /\ daemon \in SUBSET Servers
  BY Types DEF Inv, Typed
<1>3. \A S \in SUBSET Names, f \in BOOLEAN : [todo |-> S, fork |-> f, busy |-> TRUE] \in Menus
  BY DEF Menus
<1>4. Idle \in Menus  BY DEF Idle, Menus
<1>5. Disk[d] \subseteq Names /\ Listed(d) \subseteq Names
  BY ServerAssumption DEF Listed
<1>6. /\ menu' \in [Servers -> Menus] /\ registrados' \in [Servers -> SUBSET Names]
      /\ servidos' \in [Servers -> SUBSET Names] /\ daemon' \in SUBSET Servers
  <2>1. ASSUME NEW S \in SUBSET Names, NEW f \in BOOLEAN, Command(d, S, f)
        PROVE  /\ menu' \in [Servers -> Menus] /\ UNCHANGED <<registrados, servidos, daemon>>
    BY <1>2, <1>3, <2>1 DEF Command
  <2>2. CASE Habilitar(d) \/ ActualizarTodo(d)
    BY <1>2, <1>5, <2>1, <2>2 DEF Habilitar, ActualizarTodo
  <2>3. CASE SubirElemento(d)
    <3>1. PICK n \in Disk[d] : Command(d, {n}, FALSE)  BY <2>3 DEF SubirElemento
    <3>2. {n} \in SUBSET Names  BY <1>5
    <3> QED  BY <1>2, <2>1, <3>1, <3>2
  <2>4. CASE Salir(d)  BY <1>2, <2>4 DEF Salir
  <2>5. CASE CommandEnds(d)  BY <1>2, <1>4, <2>5 DEF CommandEnds
  <2> QED  BY <2>2, <2>3, <2>4, <2>5 DEF Operator
<1>7. TableIsFinite' /\ Cardinality({n \in Names : Known(n)})' <= MaxFiles
  BY <1>1, <1>2, SameTable
<1>8. TypeOK'  BY <1>1, <1>2, <1>6, <1>7, Types DEF Inv, Typed
<1>9. \A i \in Jobs : Untouched(i)  BY <1>1 DEF Untouched
<1>10. OneWriter'  BY <1>9, UntouchedWriter, FewerWriters DEF Inv
<1>11. \A i \in Jobs : JobInv(i)'  BY <1>1, <1>9, UntouchedJob DEF Inv
<1> QED  BY <1>7, <1>8, <1>10, <1>11 DEF Inv

\* registrar_elemento_dns: a new name, or nothing new.
LEMMA RegistrarInv ==
    ASSUME Inv, NEW d \in Servers, Registrar(d), UNCHANGED <<linkVars, clientVars>>
    PROVE  Inv'
<1>1. UNCHANGED <<servidos, daemon, archivo, hilo, destino, envio, abiertas, cpc, cmd, tipo, copia>>
  BY DEF Registrar, linkVars, clientVars
<1>2. /\ tabla \in [Names -> Entries] /\ menu \in [Servers -> Menus]
      /\ registrados \in [Servers -> SUBSET Names]
  BY Types DEF Inv, Typed
<1>3. PICK n \in menu[d].todo :
        /\ RegistrarElemento(n, d, Tipo(n))
        /\ registrados' = [registrados EXCEPT ![d] = IF Registrable(n, d) THEN @ \cup {n} ELSE @]
        /\ menu' = [menu EXCEPT ![d].todo = @ \ {n}]
  BY DEF Registrar
<1>4. n \in Names  BY <1>2, <1>3 DEF Menus
<1>5. menu' \in [Servers -> Menus] /\ registrados' \in [Servers -> SUBSET Names]
  <2>1. menu[d] \in Menus /\ menu[d].todo \ {n} \in SUBSET Names  BY <1>2 DEF Menus
  <2>2. [menu[d] EXCEPT !.todo = menu[d].todo \ {n}] \in Menus  BY <2>1, Zenon DEF Menus
  <2> QED  BY <1>2, <1>3, <1>4, <2>1, <2>2
<1>6. CASE tabla' = tabla
  <2>1. TableIsFinite' /\ Cardinality({m \in Names : Known(m)})' <= MaxFiles
    BY <1>2, <1>6, SameTable
  <2>2. TypeOK'  BY <1>1, <1>2, <1>5, <1>6, <2>1, Types DEF Inv, Typed
  <2>3. \A i \in Jobs : Untouched(i)  BY <1>1 DEF Untouched
  <2>4. OneWriter'  BY <2>3, UntouchedWriter, FewerWriters DEF Inv
  <2>5. \A i \in Jobs : JobInv(i)'  BY <1>1, <1>6, <2>3, UntouchedJob DEF Inv
  <2> QED  BY <2>1, <2>2, <2>4, <2>5 DEF Inv
<1>7. CASE ~Known(n) /\ Registrable(n, d)
           /\ tabla' = [tabla EXCEPT ![n] = [puerto |-> d, bloqueado |-> 0, tipo |-> Tipo(n)]]
  <2> DEFINE K == {m \in Names : Known(m)}
  <2>1. [puerto |-> d, bloqueado |-> 0, tipo |-> Tipo(n)] \in Entries
    BY DEF Entries, Tipo, Tipos
  <2>2. tabla' \in [Names -> Entries]  BY <1>2, <1>4, <1>7, <2>1
  <2>3. tabla'[n].puerto = d /\ \A m \in Names \ {n} : tabla'[m] = tabla[m]
    BY <1>2, <1>4, <1>7
  <2>4. K' = K \cup {n}  BY <1>4, <2>3, DnsAssumption DEF Known
  <2>5. n \notin K /\ IsFiniteSet(K) /\ Cardinality(K) < MaxFiles
    BY <1>7 DEF Inv, TableIsFinite, Registrable
  <2>6. IsFiniteSet(K \cup {n}) /\ Cardinality(K \cup {n}) = Cardinality(K) + 1
    BY <2>5, FS_AddElement
  <2>7. Cardinality(K) \in Nat  BY <2>5, FS_CardinalityType
  <2>8. TableIsFinite' /\ Cardinality(K)' <= MaxFiles
    <3>1. Cardinality(K)' = Cardinality(K) + 1  BY <2>4, <2>6
    <3> HIDE DEF K
    <3>2. Cardinality(K) + 1 <= MaxFiles  BY <2>5, <2>7, DnsAssumption
    <3>3. IsFiniteSet(K')  BY <2>4, <2>6
    <3> QED  BY <3>1, <3>2, <3>3 DEF TableIsFinite, K
  <2>9. TypeOK'  BY <1>1, <1>2, <1>5, <2>2, <2>8, Types DEF Inv, Typed
  <2>10. \A i \in Jobs : Untouched(i)  BY <1>1 DEF Untouched
  <2>11. OneWriter'  BY <2>10, UntouchedWriter, FewerWriters DEF Inv
  <2>12. ASSUME NEW i \in Jobs  PROVE JobInv(i)'
    <3>1. JobInv(i)  BY DEF Inv
    <3>2. Busy(i) => Name(i) \in Names /\ Name(i) # n
      BY <1>7, <3>1, DnsAssumption DEF JobInv, DestinationIsKnown, Known
    <3>3. Busy(i) => tabla'[Name(i)] = tabla[Name(i)]  BY <2>3, <3>2
    <3> QED  BY <1>1, <2>10, <3>1, <3>3, UntouchedJob
  <2> QED  BY <2>8, <2>9, <2>11, <2>12 DEF Inv
<1> QED  BY <1>3, <1>6, <1>7 DEF RegistrarElemento

-----------------------------------------------------------------------------
\* A step of one job or of its thread: what it must leave to the others.
LEMMA StepOfAJob ==
    ASSUME Inv, NEW j \in Jobs, Typed', JobInv(j)',
           \A i \in Jobs \ {j} : Untouched(i),
           \A n \in Names : tabla'[n].puerto = tabla[n].puerto,
           \A i \in Jobs \ {j}, n \in Names :
                Writing(i, n) => /\ tabla'[n].bloqueado = tabla[n].bloqueado
                                 /\ Writing(j, n)' => Writing(j, n),
           \A i \in Jobs \ {j} : cpc[i] = "edit" \/ hilo[i] = "put" =>
                archivo'[Srv(i)][Name(i)] = archivo[Srv(i)][Name(i)]
    PROVE  Inv'
<1>1. TableIsFinite'  BY SameTable DEF Typed
<1>2. TypeOK'  BY Types
<1>3. ASSUME NEW i \in Jobs \ {j}  PROVE JobInv(i)'
  <2>1. JobInv(i) /\ Untouched(i)  BY DEF Inv
  <2>2. Busy(i) => Name(i) \in Names  BY <2>1 DEF JobInv, DestinationIsKnown
  <2>3. Busy(i) /\ cmd[i] = "ESCRIBIR" => Writing(i, Name(i))  BY DEF Busy, Writing
  <2> QED  BY <2>1, <2>2, <2>3, UntouchedJob
<1>4. OneWriter'
  <2> SUFFICES ASSUME NEW n \in Names, NEW h \in Jobs, NEW i \in Jobs,
                      Writing(h, n)', Writing(i, n)', h # i
               PROVE  FALSE
    BY DEF OneWriter
  <2>1. \A k \in Jobs \ {j} : Writing(k, n)' <=> Writing(k, n)  BY UntouchedWriter
  <2>2. Writing(h, n) /\ Writing(i, n)
    <3>1. CASE h = j  BY <2>1, <3>1
    <3>2. CASE i = j  BY <2>1, <3>2
    <3>3. CASE h # j /\ i # j  BY <2>1, <3>3
    <3> QED  BY <3>1, <3>2, <3>3
  <2> QED  BY <2>2 DEF Inv, OneWriter
<1> QED  BY <1>1, <1>2, <1>3, <1>4 DEF Inv

\* A step of a job that touches neither the table nor a file.
LEMMA QuietStep ==
    ASSUME Inv, NEW j \in Jobs, UNCHANGED <<tabla, menu, registrados, servidos, daemon, archivo>>,
           Typed', JobInv(j)', \A i \in Jobs \ {j} : Untouched(i),
           \A n \in Names : Writing(j, n)' => Writing(j, n)
    PROVE  Inv'
<1>1. \A n \in Names : tabla'[n].puerto = tabla[n].puerto /\ tabla'[n].bloqueado = tabla[n].bloqueado
  OBVIOUS
<1>2. \A i \in Jobs : archivo'[Srv(i)][Name(i)] = archivo[Srv(i)][Name(i)]  OBVIOUS
<1> QED  BY <1>1, <1>2, StepOfAJob

\* The part of the types that is the same when the table is.
LEMMA SameTableTypes ==
    ASSUME Inv, UNCHANGED <<tabla, menu, registrados, servidos, daemon>>,
           archivo' \in [Servers -> [Names -> Contents]],
           hilo' \in [Jobs -> Threads],
           cpc' \in [Jobs -> ClientPCs], cmd' \in [Jobs -> {"LEER", "ESCRIBIR"}],
           tipo' \in [Jobs -> Tipos], copia' \in [Jobs -> Contents],
           destino' \in [Jobs -> Destinations], envio' \in [Jobs -> Contents],
           abiertas' \in SUBSET Jobs
    PROVE  Typed'
<1>1. tabla \in [Names -> Entries]  BY Types DEF Inv, Typed
<1>2. tabla' \in [Names -> Entries] /\ \A n \in Names : tabla'[n].puerto = tabla[n].puerto
  BY <1>1
<1>3. Cardinality({n \in Names : Known(n)})' <= MaxFiles  BY <1>2, SameTable
<1> QED  BY <1>2, <1>3, Types DEF Inv, Typed

\* The user runs the program.
LEMMA StartInv ==
    ASSUME Inv, NEW j \in Jobs, Run(j)
    PROVE  Inv'
<1>1. PICK n \in Names, c \in {"LEER", "ESCRIBIR"} : Start(j, n, c)
  BY RequestsAssumption DEF Run
<1>2. Typed  BY Types DEF Inv
<1>3. UNCHANGED <<tabla, menu, registrados, servidos, daemon, archivo, hilo, tipo, abiertas>>
  BY <1>1 DEF Start, serverVars
<1>4. /\ "nothing" \in Contents /\ [puerto |-> NoServer, nombre |-> n] \in Destinations
      /\ "ask" \in ClientPCs
  BY DEF Contents, Destinations, ClientPCs
<1>5. Typed'
  <2>1. /\ cpc' \in [Jobs -> ClientPCs] /\ cmd' \in [Jobs -> {"LEER", "ESCRIBIR"}]
        /\ copia' \in [Jobs -> Contents] /\ envio' \in [Jobs -> Contents]
        /\ destino' \in [Jobs -> Destinations]
    BY <1>1, <1>2, <1>4 DEF Start, CliGoto, Typed
  <2> QED  BY <1>2, <1>3, <2>1, SameTableTypes DEF Typed
<1>6. /\ cpc[j] = "idle" /\ cpc'[j] = "ask" /\ hilo'[j] = "none" /\ Name(j)' = n
      /\ j \in abiertas' <=> j \in abiertas
  BY <1>1, <1>2, <1>3 DEF Start, CliGoto, Typed, Name
<1>7. JobInv(j)'
  <2>1. j \notin abiertas'  BY <1>6 DEF Inv, JobInv, JobAndThread
  <2> QED  BY <1>6, <2>1 DEF JobInv, JobAndThread, OnlyWritersSend, DestinationIsKnown,
              WriterHasTheLock, EditorHasTheText, Busy
<1>8. \A i \in Jobs \ {j} : Untouched(i)
  BY <1>1, <1>2, <1>3 DEF Start, CliGoto, Typed, Untouched
<1>9. \A m \in Names : ~Writing(j, m)'  BY <1>6 DEF Writing
<1> QED  BY <1>3, <1>5, <1>7, <1>8, <1>9, QuietStep

\* The steps of a job that neither ask the DNS nor touch a file: only where
\* the job and its thread are, what was received and what is sent change.
LEMMA ConnectedStep ==
    ASSUME Inv, NEW j \in Jobs,
           UNCHANGED <<tabla, menu, registrados, servidos, daemon, archivo, destino, cmd, tipo>>,
           NEW cp \in ClientPCs, NEW th \in Threads, NEW got \in Contents, NEW sent \in Contents,
           cpc' = [cpc EXCEPT ![j] = cp], hilo' = [hilo EXCEPT ![j] = th],
           copia' = [copia EXCEPT ![j] = got], envio' = [envio EXCEPT ![j] = sent],
           abiertas' = IF cp = "sending" THEN abiertas \cup {j} ELSE abiertas \ {j},
           cp # "ask", cp # "idle" \/ th # "none" => Busy(j),
           th = "get" => cp = "download",
           th \in {"put", "write"} => cp \in {"sending", "idle"},
           th = "unlock" => cp = "idle",
           cp \in {"edit", "sending"} \/ th \in {"put", "write", "unlock"} => cmd[j] = "ESCRIBIR",
           (cp = "edit" \/ th = "put") /\ got \notin {"half", "nothing"} => got = archivo[Srv(j)][Name(j)]
    PROVE  Inv'
<1>1. Typed /\ JobInv(j)  BY Types DEF Inv
<1>2. Typed'
  <2>1. /\ cpc' \in [Jobs -> ClientPCs] /\ hilo' \in [Jobs -> Threads]
        /\ copia' \in [Jobs -> Contents] /\ envio' \in [Jobs -> Contents]
        /\ abiertas' \in SUBSET Jobs
    BY <1>1 DEF Typed
  <2> QED  BY <1>1, <2>1, SameTableTypes DEF Typed
<1>3. /\ cpc'[j] = cp /\ hilo'[j] = th /\ copia'[j] = got /\ cmd'[j] = cmd[j]
      /\ j \in abiertas' <=> cp = "sending"
      /\ Name(j)' = Name(j) /\ Srv(j)' = Srv(j)
  BY <1>1 DEF Typed, Name, Srv
<1>4. JobInv(j)'
  <2>1. JobAndThread(j)' /\ OnlyWritersSend(j)'
    BY <1>3 DEF JobAndThread, OnlyWritersSend
  <2>2. Busy(j)' => Busy(j)  BY <1>3 DEF Busy
  <2>3. DestinationIsKnown(j)'  BY <1>1, <1>3, <2>2 DEF JobInv, DestinationIsKnown
  <2>4. WriterHasTheLock(j)'  BY <1>1, <1>3, <2>2 DEF JobInv, WriterHasTheLock
  <2>5. EditorHasTheText(j)'  BY <1>3 DEF EditorHasTheText
  <2> QED  BY <2>1, <2>3, <2>4, <2>5 DEF JobInv
<1>5. \A i \in Jobs \ {j} : Untouched(i)  BY <1>1 DEF Typed, Untouched
<1>6. \A n \in Names : Writing(j, n)' => Writing(j, n)  BY <1>3 DEF Writing, Busy
<1> QED  BY <1>2, <1>4, <1>5, <1>6, QuietStep

\* The connection to the file server, or its failure.
LEMMA ConectarInv ==
    ASSUME Inv, NEW j \in Jobs, Conectar(j)
    PROVE  Inv'
<1>1. Typed /\ JobInv(j)  BY Types DEF Inv
<1>2. /\ cpc[j] = "connect" /\ hilo[j] = "none" /\ Busy(j) /\ j \notin abiertas
  BY <1>1 DEF Conectar, Typed, Threads, JobInv, JobAndThread, Busy
<1>3. /\ UNCHANGED <<tabla, menu, registrados, servidos, daemon, archivo, destino, cmd, tipo>>
      /\ copia' = [copia EXCEPT ![j] = copia[j]] /\ envio' = [envio EXCEPT ![j] = envio[j]]
      /\ abiertas' = abiertas \ {j}
      /\ copia[j] \in Contents /\ envio[j] \in Contents
  BY <1>1, <1>2 DEF Conectar, linkVars, Typed
<1>4. CASE cpc' = [cpc EXCEPT ![j] = "download"] /\ hilo' = [hilo EXCEPT ![j] = "get"]
  BY <1>2, <1>3, <1>4, ConnectedStep DEF ClientPCs, Threads
<1>5. CASE cpc' = [cpc EXCEPT ![j] = "idle"] /\ UNCHANGED hilo
  <2>1. hilo' = [hilo EXCEPT ![j] = "none"]  BY <1>1, <1>2, <1>5 DEF Typed
  <2> QED  BY <1>2, <1>3, <1>5, <2>1, ConnectedStep DEF ClientPCs, Threads
<1> QED  BY <1>4, <1>5 DEF Conectar, CliGoto, HiloGoto

\* The daemon dies of SIGPIPE because job j has closed its connection.  The
\* threads of the others end, and no file that somebody edits was being
\* written: only who has the lock of a name writes it.
LEMMA DeathStep ==
    ASSUME Inv, NEW j \in Jobs, hilo[j] = "get", MuereDaemon(Srv(j)),
           UNCHANGED <<tabla, menu, registrados, destino, cmd, tipo>>,
           NEW cp \in {"idle", "edit"}, NEW got \in Contents, NEW sent \in Contents,
           cpc' = [cpc EXCEPT ![j] = cp], abiertas' = abiertas \ {j},
           copia' = [copia EXCEPT ![j] = got], envio' = [envio EXCEPT ![j] = sent],
           cp = "edit" => cmd[j] = "ESCRIBIR" /\ got = "nothing"
    PROVE  Inv'
<1> DEFINE d == Srv(j)
           beingWritten(n) == \E i \in Jobs : hilo[i] = "write" /\ Srv(i) = d /\ Name(i) = n
<1>1. Typed /\ JobInv(j)  BY Types DEF Inv
<1>2. Busy(j) /\ d \in Servers  BY <1>1 DEF Busy, JobInv, DestinationIsKnown
<1>3. /\ hilo' = [i \in Jobs |-> IF Srv(i) = d THEN "none" ELSE hilo[i]]
      /\ daemon' = daemon \ {d} /\ servidos' = [servidos EXCEPT ![d] = {}]
      /\ archivo' = [archivo EXCEPT ![d] =
            [n \in Names |-> IF beingWritten(n) THEN "cut" ELSE archivo[d][n]]]
  BY DEF MuereDaemon
<1>4. Typed'
  <2>1. archivo' \in [Servers -> [Names -> Contents]]
    <3>1. "cut" \in Contents /\ archivo[d] \in [Names -> Contents]  BY <1>1, <1>2 DEF Contents, Typed
    <3>2. [n \in Names |-> IF beingWritten(n) THEN "cut" ELSE archivo[d][n]] \in [Names -> Contents]
      BY <3>1
    <3> HIDE DEF beingWritten, d
    <3> QED  BY <1>1, <1>3, <3>2 DEF Typed
  <2>2. /\ hilo' \in [Jobs -> Threads] /\ daemon' \in SUBSET Servers
        /\ servidos' \in [Servers -> SUBSET Names]
    BY <1>1, <1>3 DEF Typed, Threads
  <2>3. /\ cpc' \in [Jobs -> ClientPCs] /\ copia' \in [Jobs -> Contents]
        /\ envio' \in [Jobs -> Contents] /\ abiertas' \in SUBSET Jobs
    BY <1>1 DEF Typed, ClientPCs
  <2>4. /\ menu' \in [Servers -> Menus] /\ registrados' \in [Servers -> SUBSET Names]
        /\ cmd' \in [Jobs -> {"LEER", "ESCRIBIR"}] /\ tipo' \in [Jobs -> Tipos]
        /\ destino' \in [Jobs -> Destinations]
    BY <1>1 DEF Typed
  <2>5. tabla' \in [Names -> Entries] /\ Cardinality({n \in Names : Known(n)})' <= MaxFiles
    BY <1>1, SameTable DEF Typed
  <2> QED  BY <2>1, <2>2, <2>3, <2>4, <2>5 DEF Typed
<1>5. /\ cpc'[j] = cp /\ hilo'[j] = "none" /\ copia'[j] = got /\ j \notin abiertas'
      /\ \A i \in Jobs : /\ Name(i)' = Name(i) /\ Srv(i)' = Srv(i) /\ cmd'[i] = cmd[i]
                         /\ hilo'[i] = "none" \/ hilo'[i] = hilo[i]
      /\ \A i \in Jobs \ {j} : /\ cpc'[i] = cpc[i] /\ copia'[i] = copia[i]
                               /\ i \in abiertas' <=> i \in abiertas
  BY <1>1, <1>3 DEF Typed, Name, Srv
<1>6. \A i \in Jobs : Busy(i)' => Busy(i)  BY <1>2, <1>5 DEF Busy
<1>7. \A i \in Jobs : JobAndThread(i)' /\ OnlyWritersSend(i)'
  <2>1. JobAndThread(j)' /\ OnlyWritersSend(j)'  BY <1>5 DEF JobAndThread, OnlyWritersSend
  <2>2. \A i \in Jobs \ {j} : JobAndThread(i)' /\ OnlyWritersSend(i)'
    BY <1>5 DEF Inv, JobInv, JobAndThread, OnlyWritersSend
  <2> QED  BY <2>1, <2>2
<1>8. \A i \in Jobs : DestinationIsKnown(i)' /\ WriterHasTheLock(i)'
  <2>1. \A i \in Jobs : cpc'[i] = "ask" => cpc[i] = "ask"  BY <1>5
  <2> QED  BY <1>5, <1>6, <2>1 DEF Inv, JobInv, DestinationIsKnown, WriterHasTheLock
<1>9. ASSUME NEW i \in Jobs  PROVE EditorHasTheText(i)'
  <2>1. CASE i = j  BY <1>5, <2>1 DEF EditorHasTheText
  <2>2. CASE i # j /\ (cpc[i] = "edit" \/ hilo[i] = "put")
    <3>1. JobInv(i) /\ Busy(i)  BY <2>2 DEF Inv, Busy
    <3>2. Name(i) \in Names /\ Srv(i) \in Servers /\ Writing(i, Name(i)) /\ hilo[i] # "write"
      BY <2>2, <3>1 DEF JobInv, DestinationIsKnown, OnlyWritersSend, JobAndThread, Writing, Busy
    <3>3. ~beingWritten(Name(i))
      <4> SUFFICES ASSUME NEW k \in Jobs, hilo[k] = "write", Name(k) = Name(i)  PROVE FALSE
        OBVIOUS
      <4>1. cmd[k] = "ESCRIBIR"  BY DEF Inv, JobInv, OnlyWritersSend
      <4>2. Writing(k, Name(i))  BY <4>1 DEF Writing
      <4> QED  BY <3>2, <4>2 DEF Inv, OneWriter
    <3>4. archivo'[Srv(i)][Name(i)] = archivo[Srv(i)][Name(i)]
      <4> HIDE DEF beingWritten
      <4>1. CASE Srv(i) = d  BY <1>1, <1>2, <1>3, <3>2, <3>3, <4>1 DEF Typed
      <4>2. CASE Srv(i) # d  BY <1>1, <1>3, <3>2, <4>2 DEF Typed
      <4> QED  BY <4>1, <4>2
    <3> QED  BY <1>5, <2>2, <3>1, <3>4 DEF JobInv, EditorHasTheText
  <2>3. CASE i # j /\ cpc[i] # "edit" /\ hilo[i] # "put"  BY <1>5, <2>3 DEF EditorHasTheText
  <2> QED  BY <2>1, <2>2, <2>3
<1>10. OneWriter'
  <2>1. \A i \in Jobs, n \in Names : Writing(i, n)' => Writing(i, n)
    BY <1>5, <1>6 DEF Writing, Busy
  <2> QED  BY <2>1, FewerWriters DEF Inv
<1>11. TableIsFinite'  BY <1>4, SameTable DEF Typed
<1> QED  BY <1>4, <1>7, <1>8, <1>9, <1>10, <1>11, Types DEF Inv, JobInv

\* The download: what arrives is the file as it is, part of it, or nothing.
LEMMA DescargarInv ==
    ASSUME Inv, NEW j \in Jobs, Descargar(j)
    PROVE  Inv'
<1>1. Typed /\ JobInv(j)  BY Types DEF Inv
<1>2. /\ cpc[j] = "download" /\ Busy(j) /\ j \notin abiertas /\ cmd[j] \in {"LEER", "ESCRIBIR"}
  BY <1>1 DEF Descargar, JobInv, JobAndThread, Busy, Typed
<1>3. PICK cp \in {"idle", "edit"} : cp = IF cmd[j] = "LEER" THEN "idle" ELSE "edit"  OBVIOUS
<1>4. /\ UNCHANGED <<tabla, menu, registrados, destino, cmd, tipo>>
      /\ envio' = [envio EXCEPT ![j] = envio[j]] /\ envio[j] \in Contents
      /\ abiertas' = abiertas \ {j} /\ cpc' = [cpc EXCEPT ![j] = cp]
      /\ cp = "edit" => cmd[j] = "ESCRIBIR"
  BY <1>1, <1>2, <1>3 DEF Descargar, linkVars, CliGoto, Typed
<1>5. PICK text \in Contents :
        /\ copia' = IF cmd[j] = "LEER" THEN copia ELSE [copia EXCEPT ![j] = text]
        /\ \/ /\ Entrega(j, text) /\ HiloGoto(j, "none")
              /\ UNCHANGED <<servidos, daemon, archivo>>
           \/ hilo[j] = "get" /\ text = "nothing" /\ SinReceptor(j)
           \/ /\ hilo[j] = "none" /\ text \in {"half", "nothing"}
              /\ UNCHANGED <<servidos, daemon, archivo, hilo>>
  BY DEF Descargar
<1>6. PICK got \in Contents :
        copia' = [copia EXCEPT ![j] = got] /\ (cp = "edit" => got = text)
  BY <1>1, <1>3, <1>5 DEF Typed
<1>7. CASE /\ hilo' = [hilo EXCEPT ![j] = "none"] /\ UNCHANGED <<servidos, daemon, archivo>>
           /\ text \notin {"half", "nothing"} => text = archivo[Srv(j)][Name(j)]
  <2>1. CASE cp = "idle"
    BY <1>2, <1>4, <1>6, <1>7, <2>1, ConnectedStep DEF ClientPCs, Threads
  <2>2. CASE cp = "edit"
    <3>1. copia' = [copia EXCEPT ![j] = text] /\ cmd[j] = "ESCRIBIR"  BY <1>4, <1>6, <2>2
    <3> QED  BY <1>2, <1>4, <1>7, <2>2, <3>1, ConnectedStep DEF ClientPCs, Threads
  <2> QED  BY <2>1, <2>2
<1>8. CASE hilo[j] = "get" /\ text = "nothing" /\ MuereDaemon(Srv(j))
  <2>1. cp = "edit" => cmd[j] = "ESCRIBIR" /\ got = "nothing"  BY <1>4, <1>6, <1>8
  <2> QED  BY <1>4, <1>6, <1>8, <2>1, DeathStep
<1>9. Entrega(j, text) => (text # "nothing" => text = archivo[Srv(j)][Name(j)])  BY DEF Entrega
<1>10. hilo[j] = "none" /\ hilo' = hilo => hilo' = [hilo EXCEPT ![j] = "none"]  BY <1>1 DEF Typed
<1> QED  BY <1>5, <1>7, <1>8, <1>9, <1>10 DEF SinReceptor, HiloGoto

\* The update is sent: the text in the downloads folder is still the file's.
\* Without a daemon the program ends.
LEMMA ActualizarInv ==
    ASSUME Inv, NEW j \in Jobs, Actualizar(j)
    PROVE  Inv'
<1>1. Typed /\ JobInv(j)  BY Types DEF Inv
<1>2. cpc[j] = "edit" /\ Busy(j) /\ cmd[j] = "ESCRIBIR" /\ hilo[j] = "none" /\ j \notin abiertas
  BY <1>1 DEF Actualizar, JobInv, OnlyWritersSend, JobAndThread, Busy, Typed, Threads
<1>3. copia[j] \notin {"half", "nothing"} => copia[j] = archivo[Srv(j)][Name(j)]
  BY <1>1, <1>2 DEF JobInv, EditorHasTheText
<1>4. /\ UNCHANGED <<tabla, menu, registrados, servidos, daemon, archivo, destino, cmd, tipo>>
      /\ copia' = [copia EXCEPT ![j] = copia[j]] /\ copia[j] \in Contents
  BY <1>1 DEF Actualizar, Typed
<1>5. CASE /\ \E t \in Texts : envio' = [envio EXCEPT ![j] = t]
           /\ abiertas' = abiertas \cup {j} /\ HiloGoto(j, "put") /\ CliGoto(j, "sending")
  <2>1. PICK t \in Contents : envio' = [envio EXCEPT ![j] = t]  BY <1>5 DEF Contents
  <2> QED  BY <1>2, <1>3, <1>4, <1>5, <2>1, ConnectedStep DEF ClientPCs, Threads, HiloGoto, CliGoto
<1>6. CASE CliGoto(j, "idle") /\ UNCHANGED <<envio, abiertas, hilo>>
  <2>1. /\ hilo' = [hilo EXCEPT ![j] = "none"] /\ envio' = [envio EXCEPT ![j] = envio[j]]
        /\ envio[j] \in Contents /\ abiertas' = abiertas \ {j}
    BY <1>1, <1>2, <1>6 DEF Typed
  <2> QED  BY <1>2, <1>4, <1>6, <2>1, ConnectedStep DEF ClientPCs, Threads, CliGoto
<1> QED  BY <1>5, <1>6 DEF Actualizar

\* The program ends with everything sent; the daemon may still be at it.
LEMMA TerminarInv ==
    ASSUME Inv, NEW j \in Jobs, Terminar(j)
    PROVE  Inv'
<1>1. Typed /\ JobInv(j)  BY Types DEF Inv
<1>2. /\ cpc[j] = "sending" /\ Busy(j) /\ cmd[j] = "ESCRIBIR" /\ hilo[j] # "get"
  BY <1>1 DEF Terminar, JobInv, JobAndThread, OnlyWritersSend, Busy
<1>3. hilo[j] = "put" /\ copia[j] \notin {"half", "nothing"} => copia[j] = archivo[Srv(j)][Name(j)]
  BY <1>1 DEF JobInv, EditorHasTheText
<1>4. /\ UNCHANGED <<tabla, menu, registrados, servidos, daemon, archivo, destino, cmd, tipo>>
      /\ copia' = [copia EXCEPT ![j] = copia[j]] /\ copia[j] \in Contents
      /\ envio' = [envio EXCEPT ![j] = envio[j]] /\ envio[j] \in Contents
      /\ hilo' = [hilo EXCEPT ![j] = hilo[j]] /\ hilo[j] \in Threads
      /\ abiertas' = abiertas \ {j} /\ cpc' = [cpc EXCEPT ![j] = "idle"]
  BY <1>1 DEF Terminar, CliGoto, serverVars, Typed
<1> QED  BY <1>2, <1>3, <1>4, ConnectedStep DEF ClientPCs

\* The program is killed, wherever it is.
LEMMA KillInv ==
    ASSUME Inv, NEW j \in Jobs, Kill(j)
    PROVE  Inv'
<1>1. Typed /\ JobInv(j)  BY Types DEF Inv
<1>2. PICK th \in Threads : th = IF hilo[j] = "get" THEN "none" ELSE hilo[j]
  BY <1>1 DEF Typed, Threads
<1>3. PICK sent \in Contents : sent = IF cpc[j] = "sending" THEN "cut" ELSE envio[j]
  BY <1>1 DEF Typed, Contents
<1>4. /\ th # "get"
      /\ th # "none" => Busy(j)
      /\ th \in {"put", "write", "unlock"} => cmd[j] = "ESCRIBIR"
      /\ th = "put" /\ copia[j] \notin {"half", "nothing"} => copia[j] = archivo[Srv(j)][Name(j)]
  BY <1>1, <1>2 DEF JobInv, OnlyWritersSend, EditorHasTheText, Busy
<1>5. /\ UNCHANGED <<tabla, menu, registrados, destino, cmd, tipo>>
      /\ copia' = [copia EXCEPT ![j] = copia[j]] /\ copia[j] \in Contents
      /\ envio' = [envio EXCEPT ![j] = sent]
      /\ abiertas' = abiertas \ {j} /\ cpc' = [cpc EXCEPT ![j] = "idle"]
  BY <1>1, <1>3 DEF Kill, CliGoto, Typed
<1>6. CASE hilo' = [hilo EXCEPT ![j] = th] /\ UNCHANGED <<servidos, daemon, archivo>>
  BY <1>4, <1>5, <1>6, ConnectedStep DEF ClientPCs
<1>7. CASE hilo[j] = "get" /\ MuereDaemon(Srv(j))  BY <1>5, <1>7, DeathStep
<1>8. hilo[j] # "get" /\ hilo' = hilo => hilo' = [hilo EXCEPT ![j] = th]  BY <1>1, <1>2 DEF Typed
<1> QED  BY <1>2, <1>6, <1>7, <1>8 DEF Kill, SinReceptor, HiloGoto

-----------------------------------------------------------------------------
\* What is left of an entry, or of a destination, when one field changes.
LEMMA FieldSet ==
    /\ \A e \in Entries, b \in {0, 1} :
            [e EXCEPT !.bloqueado = b] = [puerto |-> e.puerto, bloqueado |-> b, tipo |-> e.tipo]
    /\ \A e \in Destinations, p \in Servers :
            [e EXCEPT !.puerto = p] = [puerto |-> p, nombre |-> e.nombre]
<1>1. \A e \in Entries, b \in {0, 1} :
            [e EXCEPT !.bloqueado = b] = [puerto |-> e.puerto, bloqueado |-> b, tipo |-> e.tipo]
  BY DEF Entries
<1>2. \A e \in Destinations, p \in Servers :
            [e EXCEPT !.puerto = p] = [puerto |-> p, nombre |-> e.nombre]
  BY DEF Destinations
<1> QED  BY <1>1, <1>2, Zenon

\* The answer is OK for a known name, to a writer only when it is unlocked.
LEMMA AnswerOK ==
    ASSUME NEW n, NEW c, Respuesta(n, c) = "OK"
    PROVE  Known(n) /\ (c = "ESCRIBIR" => tabla[n].bloqueado = 0)
BY DEF Respuesta

\* SOLICITAR_ELEMENTO: a writer gets a lock that nobody had.
LEMMA SolicitarInv ==
    ASSUME Inv, NEW j \in Jobs, Solicitar(j)
    PROVE  Inv'
<1>1. Typed /\ JobInv(j)  BY Types DEF Inv
<1>2. cpc[j] = "ask" /\ hilo[j] = "none" /\ Name(j) \in Names /\ j \notin abiertas
  BY <1>1 DEF Solicitar, Typed, Threads, JobInv, JobAndThread, DestinationIsKnown
<1>3. UNCHANGED <<menu, registrados, servidos, daemon, archivo, hilo, cmd, copia, envio, abiertas>>
  BY DEF Solicitar, serverVars
<1>4. PICK resp \in {"OK", "BLOQUEADO", "NO_ENCONTRADO"} :
        /\ SolicitarElemento(Name(j), cmd[j], resp)
        /\ IF resp = "OK"
           THEN /\ CliGoto(j, "connect")
                /\ tipo' = [tipo EXCEPT ![j] = tabla[Name(j)].tipo]
                /\ destino' = [destino EXCEPT ![j].puerto = tabla[Name(j)].puerto]
           ELSE CliGoto(j, "idle") /\ UNCHANGED <<tipo, destino>>
  BY DEF Solicitar
<1>5. CASE resp # "OK"
  <2>1. UNCHANGED <<tabla, destino, tipo>> /\ cpc' = [cpc EXCEPT ![j] = "idle"]
    BY <1>4, <1>5 DEF SolicitarElemento, CliGoto
  <2>2. /\ copia' = [copia EXCEPT ![j] = copia[j]] /\ copia[j] \in Contents
        /\ envio' = [envio EXCEPT ![j] = envio[j]] /\ envio[j] \in Contents
        /\ hilo' = [hilo EXCEPT ![j] = "none"] /\ abiertas' = abiertas \ {j}
    BY <1>1, <1>2, <1>3 DEF Typed
  <2> QED  BY <1>3, <2>1, <2>2, ConnectedStep DEF ClientPCs, Threads
<1>6. CASE resp = "OK"
  <2> DEFINE n == Name(j)
  <2>0. /\ Respuesta(n, cmd[j]) = "OK"
        /\ tabla' = IF cmd[j] = "ESCRIBIR" THEN [tabla EXCEPT ![n].bloqueado = 1] ELSE tabla
    BY <1>4, <1>6 DEF SolicitarElemento
  <2>1. Known(n) /\ (cmd[j] = "ESCRIBIR" => tabla[n].bloqueado = 0)  BY <2>0, AnswerOK
  <2>2. tabla[n] \in Entries /\ destino[j] \in Destinations /\ tabla[n].puerto \in Servers
    BY <1>1, <1>2, <2>1 DEF Typed, Entries, Known
  <2>3. [tabla[n] EXCEPT !.bloqueado = 1] =
            [puerto |-> tabla[n].puerto, bloqueado |-> 1, tipo |-> tabla[n].tipo]
    BY <2>2, FieldSet, Zenon
  <2>4. [destino[j] EXCEPT !.puerto = tabla[n].puerto] =
            [puerto |-> tabla[n].puerto, nombre |-> n]
    BY <2>2, FieldSet, Zenon DEF Name
  <2>5. /\ tabla' \in [Names -> Entries]
        /\ tabla'[n].puerto = tabla[n].puerto
        /\ cmd[j] = "ESCRIBIR" => tabla'[n].bloqueado = 1
        /\ \A m \in Names \ {n} : tabla'[m] = tabla[m]
    <3>1. CASE cmd[j] = "ESCRIBIR"
      <4>1. [puerto |-> tabla[n].puerto, bloqueado |-> 1, tipo |-> tabla[n].tipo] \in Entries
        BY <2>2 DEF Entries
      <4> HIDE DEF n
      <4>2. tabla' = [tabla EXCEPT ![n] =
                [puerto |-> tabla[n].puerto, bloqueado |-> 1, tipo |-> tabla[n].tipo]]
        BY <2>0, <2>3, <3>1
      <4>3. n \in Names  BY <1>2 DEF n
      <4> QED  BY <1>1, <4>1, <4>2, <4>3 DEF Typed
    <3>2. CASE cmd[j] # "ESCRIBIR"  BY <1>1, <2>0, <3>2 DEF Typed
    <3> QED  BY <3>1, <3>2
  <2>6. destino' = [destino EXCEPT ![j] = [puerto |-> tabla[n].puerto, nombre |-> n]]
    BY <1>4, <1>6, <2>4
  <2>7. /\ cpc' = [cpc EXCEPT ![j] = "connect"] /\ tipo' = [tipo EXCEPT ![j] = tabla[n].tipo]
    BY <1>4, <1>6 DEF CliGoto
  <2>8. Typed'
    <3>1. \A m \in Names : tabla'[m].puerto = tabla[m].puerto  BY <2>5
    <3>2. Cardinality({m \in Names : Known(m)})' <= MaxFiles  BY <2>5, <3>1, SameTable
    <3>3. [puerto |-> tabla[n].puerto, nombre |-> n] \in Destinations
      BY <1>2, <2>2 DEF Destinations
    <3>4. tabla[n].tipo \in Tipos  BY <2>2 DEF Entries
    <3> HIDE DEF n
    <3>5. destino' \in [Jobs -> Destinations]  BY <1>1, <2>6, <3>3 DEF Typed
    <3>6. tipo' \in [Jobs -> Tipos] /\ cpc' \in [Jobs -> ClientPCs]
      BY <1>1, <2>7, <3>4 DEF Typed, ClientPCs
    <3> QED  BY <1>1, <1>3, <2>5, <3>2, <3>5, <3>6 DEF Typed
  <2>9. /\ Name(j)' = n /\ Srv(j)' = tabla[n].puerto /\ cpc'[j] = "connect" /\ hilo'[j] = "none"
        /\ cmd'[j] = cmd[j] /\ j \notin abiertas'
    BY <1>1, <1>2, <1>3, <2>6, <2>7 DEF Typed, Name, Srv
  <2>10. JobInv(j)'
    <3>1. JobAndThread(j)' /\ OnlyWritersSend(j)' /\ EditorHasTheText(j)'
      BY <2>9 DEF JobAndThread, OnlyWritersSend, EditorHasTheText
    <3>2. DestinationIsKnown(j)' /\ WriterHasTheLock(j)'
      BY <1>2, <2>2, <2>5, <2>9 DEF DestinationIsKnown, WriterHasTheLock
    <3> QED  BY <3>1, <3>2 DEF JobInv
  <2>11. \A i \in Jobs \ {j} : Untouched(i)
    BY <1>1, <1>3, <2>6, <2>7 DEF Typed, Untouched
  <2>12. cmd[j] = "ESCRIBIR" => \A i \in Jobs : ~Writing(i, n)
    BY <2>1 DEF Inv, JobInv, WriterHasTheLock, Writing, Busy
  <2>13. \A i \in Jobs, m \in Names :
            Writing(i, m) => tabla'[m].bloqueado = tabla[m].bloqueado
    <3>1. CASE cmd[j] = "ESCRIBIR"  BY <2>5, <2>12, <3>1
    <3>2. CASE cmd[j] # "ESCRIBIR"  BY <2>0, <3>2
    <3> QED  BY <3>1, <3>2
  <2>14. \A i \in Jobs, m \in Names : Writing(i, m) /\ Writing(j, m)' => Writing(j, m)
    BY <2>9, <2>12 DEF Writing
  <2>15. \A m \in Names : tabla'[m].puerto = tabla[m].puerto  BY <2>5
  <2>16. \A i \in Jobs : archivo'[Srv(i)][Name(i)] = archivo[Srv(i)][Name(i)]  BY <1>3
  <2> QED  BY <2>8, <2>10, <2>11, <2>13, <2>14, <2>15, <2>16, StepOfAJob
<1> QED  BY <1>5, <1>6

-----------------------------------------------------------------------------
\* The file that a thread stores into is one that nobody else is editing.
LEMMA StoreStep ==
    ASSUME Inv, NEW j \in Jobs, hilo[j] \in {"put", "write"},
           UNCHANGED <<tabla, menu, registrados, servidos, daemon, destino, abiertas, clientVars>>,
           NEW text \in Contents, NEW sent \in Contents, NEW th \in {"write", "unlock"},
           archivo' = [archivo EXCEPT ![Srv(j)][Name(j)] = text],
           hilo' = [hilo EXCEPT ![j] = th], envio' = [envio EXCEPT ![j] = sent],
           th = "unlock" => cpc[j] = "idle"
    PROVE  Inv'
<1>1. Typed /\ JobInv(j)  BY Types DEF Inv
<1>2. UNCHANGED <<cpc, cmd, tipo, copia>>  BY DEF clientVars
<1>3. /\ Busy(j) /\ cmd[j] = "ESCRIBIR" /\ Name(j) \in Names /\ Srv(j) \in Servers
      /\ cpc[j] \in {"sending", "idle"}
  BY <1>1 DEF JobInv, OnlyWritersSend, DestinationIsKnown, JobAndThread, Busy
<1>4. Writing(j, Name(j))  BY <1>3 DEF Busy, Writing
<1>5. Typed'
  <2>1. [archivo[Srv(j)] EXCEPT ![Name(j)] = text] \in [Names -> Contents]
    BY <1>1, <1>3 DEF Typed
  <2>2. archivo' \in [Servers -> [Names -> Contents]]  BY <1>1, <1>3, <2>1 DEF Typed
  <2>3. hilo' \in [Jobs -> Threads] /\ envio' \in [Jobs -> Contents]
    BY <1>1 DEF Typed, Threads
  <2> QED  BY <1>1, <1>2, <2>2, <2>3, SameTableTypes DEF Typed
<1>6. /\ hilo'[j] = th /\ cpc'[j] = cpc[j] /\ cmd'[j] = cmd[j] /\ Name(j)' = Name(j)
      /\ Srv(j)' = Srv(j)
      /\ j \in abiertas' <=> j \in abiertas
  BY <1>1, <1>2 DEF Typed, Name, Srv
<1>7. JobInv(j)'
  <2>1. JobAndThread(j)'  BY <1>1, <1>3, <1>6 DEF JobInv, JobAndThread
  <2>2. OnlyWritersSend(j)'  BY <1>3, <1>6 DEF OnlyWritersSend
  <2>3. DestinationIsKnown(j)'
    <3>1. tabla[Name(j)].puerto = Srv(j)  BY <1>1, <1>3 DEF JobInv, DestinationIsKnown
    <3> QED  BY <1>3, <1>6, <3>1 DEF DestinationIsKnown
  <2>4. WriterHasTheLock(j)'
    <3>1. tabla[Name(j)].bloqueado = 1  BY <1>1, <1>3 DEF JobInv, WriterHasTheLock
    <3> QED  BY <1>3, <1>6, <3>1 DEF WriterHasTheLock
  <2>5. EditorHasTheText(j)'  BY <1>3, <1>6 DEF EditorHasTheText
  <2> QED  BY <2>1, <2>2, <2>3, <2>4, <2>5 DEF JobInv
<1>8. \A i \in Jobs \ {j} : Untouched(i)  BY <1>1, <1>2 DEF Typed, Untouched
<1>9. ASSUME NEW i \in Jobs \ {j}, cpc[i] = "edit" \/ hilo[i] = "put"
      PROVE  archivo'[Srv(i)][Name(i)] = archivo[Srv(i)][Name(i)]
  <2>1. JobInv(i)  BY DEF Inv
  <2>2. Busy(i) /\ cmd[i] = "ESCRIBIR"  BY <1>9, <2>1 DEF JobInv, OnlyWritersSend, Busy
  <2>3. Name(i) \in Names /\ Srv(i) \in Servers
    BY <2>1, <2>2 DEF JobInv, DestinationIsKnown
  <2>4. Writing(i, Name(i))  BY <2>2 DEF Writing, Busy
  <2>5. Name(i) # Name(j)  BY <1>3, <1>4, <2>4 DEF Inv, OneWriter
  <2>6. archivo[Srv(j)] \in [Names -> Contents]  BY <1>1, <1>3 DEF Typed
  <2>7. \A m \in Names \ {Name(j)} : archivo'[Srv(j)][m] = archivo[Srv(j)][m]
    <3>1. archivo'[Srv(j)] = [archivo[Srv(j)] EXCEPT ![Name(j)] = text]  BY <1>1, <1>3 DEF Typed
    <3> QED  BY <2>6, <3>1
  <2>8. \A d \in Servers \ {Srv(j)} : archivo'[d] = archivo[d]  BY <1>1 DEF Typed
  <2> QED  BY <2>3, <2>5, <2>7, <2>8
<1>10. \A n \in Names : Writing(j, n)' => Writing(j, n)  BY <1>3, <1>6 DEF Writing, Busy
<1>11. \A n \in Names : tabla'[n].puerto = tabla[n].puerto /\ tabla'[n].bloqueado = tabla[n].bloqueado
  OBVIOUS
<1> QED  BY <1>5, <1>7, <1>8, <1>9, <1>10, <1>11, StepOfAJob

\* ACTUALIZAR_ARCHIVO arrives: the file is emptied, or the thread ends.
LEMMA RecibirComandoInv ==
    ASSUME Inv, NEW j \in Jobs, RecibirComando(j), UNCHANGED <<destino, abiertas, clientVars>>
    PROVE  Inv'
<1>1. Typed /\ JobInv(j)  BY Types DEF Inv
<1>2. hilo[j] = "put" /\ UNCHANGED <<tabla, menu, registrados, servidos, daemon>>
  BY DEF RecibirComando
<1>3. "partial" \in Contents /\ "cut" \in Contents /\ envio[j] \in Contents
  BY <1>1 DEF Contents, Typed
<1>4. envio = [envio EXCEPT ![j] = envio[j]]  BY <1>1 DEF Typed
<1>5. CASE /\ archivo' = [archivo EXCEPT ![Srv(j)][Name(j)] = "partial"]
           /\ HiloGoto(j, "write")
           /\ envio' \in {envio} \cup
                (IF "glue" \in Faults THEN {[envio EXCEPT ![j] = "cut"]} ELSE {})
  <2>1. PICK sent \in Contents : envio' = [envio EXCEPT ![j] = sent]  BY <1>3, <1>4, <1>5
  <2> QED  BY <1>2, <1>3, <1>5, <2>1, StoreStep DEF HiloGoto
<1>6. CASE HiloGoto(j, "none") /\ UNCHANGED <<archivo, envio>>
  <2>1. cmd[j] = "ESCRIBIR" /\ Busy(j) /\ cpc[j] \in {"sending", "idle"}
    BY <1>1, <1>2 DEF JobInv, JobAndThread, OnlyWritersSend, Busy
  <2>2. PICK cp \in {"sending", "idle"} : cp = cpc[j]  BY <2>1
  <2>3. /\ UNCHANGED <<tabla, menu, registrados, servidos, daemon, archivo, destino, cmd, tipo>>
        /\ hilo' = [hilo EXCEPT ![j] = "none"]
        /\ cpc' = [cpc EXCEPT ![j] = cp]
        /\ copia' = [copia EXCEPT ![j] = copia[j]] /\ copia[j] \in Contents
        /\ envio' = [envio EXCEPT ![j] = envio[j]]
    BY <1>1, <1>2, <1>4, <1>6, <2>2 DEF Typed, HiloGoto, clientVars
  <2>4. abiertas' = IF cp = "sending" THEN abiertas \cup {j} ELSE abiertas \ {j}
    BY <1>1, <2>2 DEF JobInv, JobAndThread
  <2> QED  BY <1>3, <2>1, <2>3, <2>4, ConnectedStep DEF Threads, ClientPCs
<1> QED  BY <1>5, <1>6 DEF RecibirComando

\* The end of the stream: the file is stored.
LEMMA RecibirArchivoInv ==
    ASSUME Inv, NEW j \in Jobs, RecibirArchivo(j), UNCHANGED <<destino, abiertas, clientVars>>
    PROVE  Inv'
<1>1. Typed /\ JobInv(j)  BY Types DEF Inv
<1>2. /\ hilo[j] = "write" /\ hilo' = [hilo EXCEPT ![j] = "unlock"]
      /\ archivo' = [archivo EXCEPT ![Srv(j)][Name(j)] = envio[j]]
      /\ UNCHANGED <<tabla, menu, registrados, servidos, daemon, envio>>
  BY DEF RecibirArchivo, HiloGoto
<1>3. cpc[j] = "idle"  BY <1>1 DEF RecibirArchivo, JobInv, JobAndThread
<1>4. envio' = [envio EXCEPT ![j] = envio[j]] /\ envio[j] \in Contents  BY <1>1, <1>2 DEF Typed
<1> QED  BY <1>2, <1>3, <1>4, StoreStep

\* The lock is given back, and its writer is gone.
LEMMA DesbloquearInv ==
    ASSUME Inv, NEW j \in Jobs, Desbloquear(j), UNCHANGED <<destino, abiertas, clientVars>>
    PROVE  Inv'
<1>1. Typed /\ JobInv(j)  BY Types DEF Inv
<1>2. /\ hilo[j] = "unlock" /\ hilo' = [hilo EXCEPT ![j] = "none"]
      /\ UNCHANGED <<menu, registrados, servidos, daemon, archivo, envio, cpc, cmd, tipo, copia>>
  BY DEF Desbloquear, HiloGoto, clientVars
<1>3. /\ cpc[j] = "idle" /\ j \notin abiertas /\ cmd[j] = "ESCRIBIR" /\ Name(j) \in Names
      /\ Busy(j)
  BY <1>1, <1>2 DEF JobInv, JobAndThread, OnlyWritersSend, DestinationIsKnown, Busy
<1> DEFINE n == Name(j)
<1>4. tabla' = tabla \/ tabla' = [tabla EXCEPT ![n].bloqueado = 0]
  BY DEF Desbloquear, DesbloquearElemento
<1>5. tabla[n] \in Entries  BY <1>1, <1>3 DEF Typed
<1>6. /\ tabla' \in [Names -> Entries] /\ tabla'[n].puerto = tabla[n].puerto
      /\ \A m \in Names \ {n} : tabla'[m] = tabla[m]
  <2>1. CASE tabla' = tabla  BY <1>1, <2>1 DEF Typed
  <2>2. CASE tabla' = [tabla EXCEPT ![n].bloqueado = 0]
    <3>1. [tabla[n] EXCEPT !.bloqueado = 0] =
            [puerto |-> tabla[n].puerto, bloqueado |-> 0, tipo |-> tabla[n].tipo]
      BY <1>5, FieldSet, Zenon
    <3>2. [puerto |-> tabla[n].puerto, bloqueado |-> 0, tipo |-> tabla[n].tipo] \in Entries
      BY <1>5 DEF Entries
    <3>3. n \in Names  BY <1>3
    <3> HIDE DEF n
    <3>4. tabla' = [tabla EXCEPT ![n] =
                [puerto |-> tabla[n].puerto, bloqueado |-> 0, tipo |-> tabla[n].tipo]]
      BY <2>2, <3>1
    <3> QED  BY <1>1, <3>2, <3>3, <3>4 DEF Typed
  <2> QED  BY <1>4, <2>1, <2>2
<1>7. \A m \in Names : tabla'[m].puerto = tabla[m].puerto  BY <1>6
<1>8. Typed'
  <2>1. Cardinality({m \in Names : Known(m)})' <= MaxFiles  BY <1>6, <1>7, SameTable
  <2>2. hilo' \in [Jobs -> Threads]  BY <1>1, <1>2 DEF Typed, Threads
  <2> QED  BY <1>1, <1>2, <1>6, <2>1, <2>2 DEF Typed
<1>9. hilo'[j] = "none" /\ cpc'[j] = "idle" /\ j \notin abiertas'
  BY <1>1, <1>2, <1>3 DEF Typed
<1>10. JobInv(j)'
  BY <1>9 DEF JobInv, JobAndThread, OnlyWritersSend, DestinationIsKnown, WriterHasTheLock,
     EditorHasTheText, Busy
<1>11. \A i \in Jobs \ {j} : Untouched(i)  BY <1>1, <1>2 DEF Typed, Untouched
<1>12. Writing(j, n)  BY <1>3 DEF Writing, Busy
<1>13. \A i \in Jobs \ {j} : ~Writing(i, n)  BY <1>3, <1>12 DEF Inv, OneWriter
<1>14. \A i \in Jobs \ {j}, m \in Names :
            Writing(i, m) => tabla'[m].bloqueado = tabla[m].bloqueado
  BY <1>6, <1>13
<1>15. \A m \in Names : ~Writing(j, m)'  BY <1>9 DEF Writing
<1>16. \A i \in Jobs : archivo'[Srv(i)][Name(i)] = archivo[Srv(i)][Name(i)]  BY <1>2
<1> QED  BY <1>7, <1>8, <1>10, <1>11, <1>14, <1>15, <1>16, StepOfAJob

-----------------------------------------------------------------------------
\* Every step keeps the invariant.
LEMMA NextInv == Inv /\ [Next]_vars => Inv'
<1> SUFFICES ASSUME Inv, [Next]_vars PROVE Inv'  OBVIOUS
<1>1. CASE \E d \in Servers : Operator(d) \/ MenuStep(d)
  BY <1>1, MenuInv, RegistrarInv DEF MenuStep
<1>2. CASE \E j \in Jobs : Run(j) \/ GoesOn(j)
  BY <1>2, StartInv, SolicitarInv, ConectarInv, DescargarInv, ActualizarInv, TerminarInv DEF GoesOn
<1>3. CASE \E j \in Jobs : Daemon(j)
  BY <1>3, RecibirComandoInv, RecibirArchivoInv, DesbloquearInv DEF Daemon
<1>4. CASE \E j \in Jobs : Kill(j)  BY <1>4, KillInv
<1>5. CASE UNCHANGED vars
  <2>1. /\ UNCHANGED <<tabla, menu, registrados, servidos, daemon, archivo, hilo>>
        /\ UNCHANGED <<destino, envio, abiertas, cpc, cmd, tipo, copia>>
    BY <1>5 DEF vars, serverVars, linkVars, clientVars
  <2>2. Typed  BY Types DEF Inv
  <2>3. TypeOK'  BY <2>1, <2>2, SameTableTypes, Types DEF Typed
  <2>4. TableIsFinite'  BY <2>1, <2>2, SameTable DEF Typed
  <2>5. \A i \in Jobs : Untouched(i)  BY <2>1 DEF Untouched
  <2>6. OneWriter'  BY <2>5, UntouchedWriter, FewerWriters DEF Inv
  <2>7. \A i \in Jobs : JobInv(i)'  BY <2>1, <2>5, UntouchedJob DEF Inv
  <2> QED  BY <2>3, <2>4, <2>6, <2>7 DEF Inv
<1> QED  BY <1>1, <1>2, <1>3, <1>4, <1>5 DEF Next

LEMMA AlwaysInv == Spec => []Inv
BY InitInv, NextInv, PTL DEF Spec

(***************************************************************************)
(* The types, and that the table of the DNS never has more than MAX_FILES  *)
(* names: registrar_elemento compares before it adds one, under the mutex. *)
(***************************************************************************)
THEOREM TypeCorrect == Spec => []TypeOK
<1>1. Inv => TypeOK  BY DEF Inv
<1> QED  BY <1>1, AlwaysInv, PTL

(***************************************************************************)
(* At most one job has the lock of a name, from the answer OK of           *)
(* solicitar_elemento to the end of the daemon's thread, however many      *)
(* clients are killed and however often the servers register again.        *)
(***************************************************************************)
THEOREM WritersExclude == Spec => []OneWriter
<1>1. Inv => OneWriter  BY DEF Inv
<1> QED  BY <1>1, AlwaysInv, PTL

(***************************************************************************)
(* The text that recibir_archivo is about to replace is the one its user   *)
(* downloaded, unless a daemon's death or an unknown name left the user    *)
(* with less: between the download and the update nobody has stored, even  *)
(* when the daemon has died and a new one was forked meanwhile.            *)
(***************************************************************************)
THEOREM UpdatesFollowEachOther == Spec => []UpdatesBuildOnEachOther
<1>1. Inv => UpdatesBuildOnEachOther
  BY DEF Inv, JobInv, EditorHasTheText, UpdatesBuildOnEachOther
<1> QED  BY <1>1, AlwaysInv, PTL

(***************************************************************************)
(* A name stays with the server that registered it first: the daemon that  *)
(* serves a job is always the one the DNS has for the job's name.          *)
(***************************************************************************)
THEOREM NamesStayWithTheirServer == Spec => []UpdateReachesRegisteredServer
<1>1. Inv => UpdateReachesRegisteredServer
  BY DEF Inv, JobInv, DestinationIsKnown, Busy, UpdateReachesRegisteredServer
<1> QED  BY <1>1, AlwaysInv, PTL
=============================================================================
