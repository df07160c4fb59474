----------------------------- MODULE FileServer -----------------------------
(***************************************************************************)
(* The file servers: servidor_archivos_nuevo.c.  A server is two processes:*)
(* the one with the menu, which registers names with the DNS, and the      *)
(* daemon that "habilitar" forks, which answers the clients with the list  *)
(* of registered names it was born with.  A job is one run of the client   *)
(* program; hilo[j] is the daemon's thread that serves it.                 *)
(***************************************************************************)
EXTENDS FileDns

CONSTANTS
    Jobs,       \* concurrent runs of the client program
    Kind,       \* of a name: "txt", "other" (a file that is not .txt) or "folder"
    Disk,       \* the names in the working directory of a server
    Texts       \* contents of files

ASSUME ServerAssumption ==
    /\ Kind \in [Names -> {"txt", "other", "folder"}]
    /\ Disk \in [Servers -> SUBSET Names]
    /\ {"original", "partial", "cut", "half", "nothing"} \cap Texts = {}

\* "partial": the file is being written; "cut": all of it that has arrived;
\* "half": what a client had of a file when the daemon that sent it died.
Contents == Texts \cup {"original", "partial", "cut", "half", "nothing"}

VARIABLES
    menu,           \* what the menu's process still has to register, and whether to fork
    registrados,    \* elementos_registrados of the menu's process
    servidos,       \* elementos_registrados of the daemon, {} while there is none
    daemon,         \* the servers whose daemon runs
    archivo,        \* contents of a server's file
    hilo,           \* where the daemon's thread for a job is
    destino,        \* the server and name a job is about
    envio,          \* what the job sends, or has sent, to the daemon
    abiertas        \* the jobs that have an update stream open

serverVars == <<menu, registrados, servidos, daemon, archivo, hilo>>

Threads == {"none", "get", "put", "write", "unlock"}

Idle == [todo |-> {}, fork |-> FALSE, busy |-> FALSE]

ServerTypeOK ==
    /\ menu \in [Servers -> [todo : SUBSET Names, fork : BOOLEAN, busy : BOOLEAN]]
    /\ registrados \in [Servers -> SUBSET Names]
    /\ servidos \in [Servers -> SUBSET Names]
    /\ daemon \in SUBSET Servers
    /\ archivo \in [Servers -> [Names -> Contents]]
    /\ hilo \in [Jobs -> Threads]

ServerInit ==
    /\ menu = [d \in Servers |-> Idle]
    /\ registrados = [d \in Servers |-> {}]
    /\ servidos = [d \in Servers |-> {}]
    /\ daemon = {}
    /\ archivo = [d \in Servers |-> [n \in Names |-> "original"]]
    /\ hilo = [j \in Jobs |-> "none"]

Tipo(n) == IF Kind[n] = "folder" THEN "CARPETA" ELSE "ARCHIVO"

-----------------------------------------------------------------------------
\* A command of the menu that registers the names todo.
Command(d, todo, fork) ==
    /\ ~menu[d].busy
    /\ menu' = [menu EXCEPT ![d] = [todo |-> todo, fork |-> fork, busy |-> TRUE]]
    /\ UNCHANGED <<tabla, registrados, servidos, daemon, archivo, hilo>>

\* registrar_todos_archivos_txt and registrar_todas_carpetas
Listed(d) == {n \in Disk[d] : Kind[n] # "other"}

Habilitar(d)      == Command(d, Listed(d), TRUE)
ActualizarTodo(d) == Command(d, Listed(d), FALSE)
SubirElemento(d)  == \E n \in Disk[d] : Command(d, {n}, FALSE)

\* registrar_elemento_dns for one of the names, the files before the folders.
Registrar(d) ==
    /\ \E n \in menu[d].todo :
        /\ Kind[n] = "folder" => \A m \in menu[d].todo : Kind[m] = "folder"
        /\ RegistrarElemento(n, d, Tipo(n))
        /\ registrados' = [registrados EXCEPT ![d] = IF Registrable(n, d) THEN @ \cup {n} ELSE @]
        /\ menu' = [menu EXCEPT ![d].todo = @ \ {n}]
    /\ UNCHANGED <<servidos, daemon, archivo, hilo>>

\* The command ends; "habilitar" forks a daemon.  There is no new daemon when
\* fork fails, or when the server has one already and bind fails.
CommandEnds(d) ==
    /\ menu[d].busy /\ menu[d].todo = {}
    /\ menu' = [menu EXCEPT ![d] = Idle]
    /\ \/ /\ menu[d].fork /\ d \notin daemon
          /\ daemon' = daemon \cup {d}
          /\ servidos' = [servidos EXCEPT ![d] = registrados[d]]
       \/ /\ menu[d].fork => d \in daemon \/ "nofork" \in Faults
          /\ UNCHANGED <<daemon, servidos>>
    /\ UNCHANGED <<tabla, registrados, archivo, hilo>>

\* "salir", and the program started again: the daemon stays.
Salir(d) ==
    /\ ~menu[d].busy /\ registrados[d] # {}
    /\ registrados' = [registrados EXCEPT ![d] = {}]
    /\ UNCHANGED <<tabla, menu, servidos, daemon, archivo, hilo>>

-----------------------------------------------------------------------------
HiloGoto(j, pc) == hilo' = [hilo EXCEPT ![j] = pc]

Srv(j)  == destino[j].puerto
Name(j) == destino[j].nombre

\* esta_registrado, in the daemon's process.
EstaRegistrado(j) == Name(j) \in servidos[Srv(j)]

\* OBTENER_ELEMENTO: what goes back to the client before the daemon closes
\* the connection; nothing for a name the daemon does not know.  comando[16]
\* is too short for the command: a build that keeps nombre behind it reads an
\* unknown command instead.
Entrega(j, text) ==
    \/ text = IF EstaRegistrado(j) THEN archivo[Srv(j)][Name(j)] ELSE "nothing"
    \/ "overflow" \in Faults /\ text = "nothing"

\* The daemon dies, every thread with it, the open connections are closed and
\* the files being written stay as they are.  The DNS is not told.
MuereDaemon(d) ==
    /\ daemon' = daemon \ {d}
    /\ servidos' = [servidos EXCEPT ![d] = {}]
    /\ hilo' = [j \in Jobs |-> IF Srv(j) = d THEN "none" ELSE hilo[j]]
    /\ archivo' = [archivo EXCEPT ![d] = [n \in Names |->
            IF \E j \in Jobs : hilo[j] = "write" /\ Srv(j) = d /\ Name(j) = n
            THEN "cut" ELSE archivo[d][n]]]

\* enviar_archivo or enviar_carpeta sends to a client that has closed: all is
\* sent before the kernel has noticed, or the next send raises SIGPIPE, which
\* the daemon does not ignore.
SinReceptor(j) ==
    \/ HiloGoto(j, "none") /\ UNCHANGED <<daemon, servidos, archivo>>
    \/ "sigpipe" \in Faults /\ EstaRegistrado(j) /\ MuereDaemon(Srv(j))

\* Mutant: the name is unlocked when the update arrives, not when it is stored.
UnlocksEarly(j) ==
    /\ hilo[j] = "put"
    /\ EstaRegistrado(j)
    /\ DesbloquearElemento(Name(j))
    /\ archivo' = [archivo EXCEPT ![Srv(j)][Name(j)] = "partial"]
    /\ HiloGoto(j, "write")
    /\ UNCHANGED <<menu, registrados, servidos, daemon, envio>>

\* ACTUALIZAR_ARCHIVO: recibir_archivo opens the file and so empties it.  The
\* daemon closes without unlocking when it does not serve the name as a file.
RecibirComando(j) ==
    /\ hilo[j] = "put"
    /\ \/ /\ EstaRegistrado(j) /\ Kind[Name(j)] # "folder"
          /\ archivo' = [archivo EXCEPT ![Srv(j)][Name(j)] = "partial"]
          /\ HiloGoto(j, "write")
          \* "glue": recv took the first bytes of the file with the command;
          \* one that starts with a blank has lost its beginning.
          /\ envio' \in {envio} \cup
                (IF "glue" \in Faults THEN {[envio EXCEPT ![j] = "cut"]} ELSE {})
       \/ \* The name is unknown, or unrecognisable: the file's first bytes
          \* are glued to it, or the command has overflowed its buffer.
          /\ \/ ~EstaRegistrado(j) \/ Kind[Name(j)] = "folder"
             \/ Faults \cap {"glue", "overflow"} # {}
          /\ HiloGoto(j, "none")
          /\ UNCHANGED <<archivo, envio>>
    /\ UNCHANGED <<tabla, menu, registrados, servidos, daemon>>

\* recibir_archivo has read up to the end of the stream.
RecibirArchivo(j) ==
    /\ hilo[j] = "write" /\ j \notin abiertas
    /\ archivo' = [archivo EXCEPT ![Srv(j)][Name(j)] = envio[j]]
    /\ HiloGoto(j, "unlock")
    /\ UNCHANGED <<tabla, menu, registrados, servidos, daemon, envio>>

\* desbloquear_elemento_dns, and the end of the thread.
Desbloquear(j) ==
    /\ hilo[j] = "unlock"
    /\ DesbloquearElemento(Name(j))
    /\ HiloGoto(j, "none")
    /\ UNCHANGED <<menu, registrados, servidos, daemon, archivo, envio>>
=============================================================================
