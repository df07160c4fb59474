----------------------------- MODULE FileSystem -----------------------------
(***************************************************************************)
(* The distributed file system: the DNS, the file servers with their       *)
(* daemons and the client programs, and the properties of the whole.       *)
(***************************************************************************)
EXTENDS FileClient

CONSTANTS
    Commands,   \* the commands of the menu that a server's operator uses
    Requests    \* the requests <<name, command>> that the users make

ASSUME RequestsAssumption ==
    /\ Commands \in [Servers -> SUBSET {"habilitar", "actualizar_todo", "subir", "salir"}]
    /\ Requests \subseteq Names \X {"LEER", "ESCRIBIR"}

vars == <<tabla, serverVars, linkVars, clientVars>>

Init == DnsInit /\ ServerInit /\ ClientInit

Operator(d) ==
    /\ \/ "habilitar" \in Commands[d] /\ Habilitar(d)
       \/ "actualizar_todo" \in Commands[d] /\ ActualizarTodo(d)
       \/ "subir" \in Commands[d] /\ SubirElemento(d)
       \/ "salir" \in Commands[d] /\ Salir(d)
    /\ UNCHANGED <<linkVars, clientVars>>

MenuStep(d) == (Registrar(d) \/ CommandEnds(d)) /\ UNCHANGED <<linkVars, clientVars>>

Daemon(j) ==
    /\ RecibirComando(j) \/ RecibirArchivo(j) \/ Desbloquear(j)
    /\ UNCHANGED <<destino, abiertas, clientVars>>

Run(j) == \E r \in Requests : Start(j, r[1], r[2])

Next ==
    \/ \E d \in Servers : Operator(d) \/ MenuStep(d)
    \/ \E j \in Jobs : Run(j) \/ GoesOn(j) \/ Daemon(j) \/ Kill(j)

Spec == Init /\ [][Next]_vars

\* A program and a thread go on when they can; a user who edits a file
\* presses Enter.  Nobody has to give a command or to run the program.
Fairness ==
    /\ \A d \in Servers : WF_vars(MenuStep(d))
    /\ \A j \in Jobs : WF_vars(GoesOn(j)) /\ WF_vars(Daemon(j))

FairSpec == Spec /\ Fairness

-----------------------------------------------------------------------------
TypeOK == DnsTypeOK /\ ServerTypeOK /\ ClientTypeOK

\* The job has the lock of n: from the DNS's answer until the daemon's thread
\* has given it back, or until the job is lost.
Writing(j, n) ==
    /\ Name(j) = n /\ cmd[j] = "ESCRIBIR"
    /\ cpc[j] \notin {"idle", "ask"} \/ hilo[j] # "none"

(***************************************************************************)
(* README_nuevo.md: "Solo un cliente puede escribir un archivo a la vez".  *)
(* One job at a time is between SOLICITAR ... ESCRIBIR and the unlocking   *)
(* by the daemon, which is another process and still busy when the client  *)
(* program has ended; re-registrations by the servers do not change that.  *)
(***************************************************************************)
OneWriter ==
    \A n \in Names : \A i, j \in Jobs : Writing(i, n) /\ Writing(j, n) => i = j

(***************************************************************************)
(* An update that the daemon accepts replaces the very contents that its   *)
(* user downloaded to edit: no update is lost in between.  That also holds *)
(* of a job that downloaded from a daemon that died since, when another    *)
(* was forked.  The client does not ask whether its download was whole: a  *)
(* user who was left with half a file, by a daemon that died, or with      *)
(* none, by one that lost the name to its short buffer, may still send it. *)
(***************************************************************************)
UpdatesBuildOnEachOther ==
    \A j \in Jobs : hilo[j] = "put" /\ EstaRegistrado(j) /\ copia[j] \notin {"half", "nothing"}
                        => copia[j] = archivo[Srv(j)][Name(j)]

(***************************************************************************)
(* README_nuevo.md: "Los bloqueos se liberan automáticamente después de la *)
(* escritura": a writer that has the lock, and whose server has a daemon   *)
(* it can connect to, gives it back.                                       *)
(***************************************************************************)
ReachableServerUnlocks ==
    \A j \in Jobs : \A n \in Names :
        cpc[j] = "connect" /\ cmd[j] = "ESCRIBIR" /\ Name(j) = n /\ Srv(j) \in daemon
            ~> tabla[n].bloqueado = 0

(***************************************************************************)
(* A daemon that has begun to store an update gives the lock back even     *)
(* when the client program is killed while it sends: the end of the stream *)
(* is enough for the daemon.  Only its own death, of SIGPIPE in a thread   *)
(* that serves another client, keeps it from that.                         *)
(***************************************************************************)
ArrivedUpdateUnlocks ==
    \A j \in Jobs :
        hilo[j] = "write"
            ~> \/ hilo[j] = "none" /\ Name(j) \in Names /\ tabla[Name(j)].bloqueado = 0
               \/ Srv(j) \notin daemon

(***************************************************************************)
(* Two servers with a file of the same name do not take it from each       *)
(* other: the daemon that a job writes to is the one the name is still     *)
(* registered for when the update arrives.                                 *)
(***************************************************************************)
UpdateReachesRegisteredServer ==
    \A j \in Jobs : hilo[j] # "none" => tabla[Name(j)].puerto = Srv(j)
=============================================================================
