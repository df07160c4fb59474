----------------------------- MODULE FileClient -----------------------------
(***************************************************************************)
(* The client program: cliente_nuevo.c, "cliente <dns> <name> LEER" or     *)
(* "... ESCRIBIR".  A job runs solicitar_elemento once.                    *)
(***************************************************************************)
EXTENDS FileServer

CONSTANT NoName

VARIABLES
    cpc,        \* where the job is
    cmd,        \* comando
    tipo,       \* tipo_str, from the DNS
    copia       \* what the job has downloaded to edit

clientVars == <<cpc, cmd, tipo, copia>>
linkVars == <<destino, envio, abiertas>>

ClientPCs == {"idle", "ask", "connect", "download", "edit", "sending"}

ClientTypeOK ==
    /\ cpc \in [Jobs -> ClientPCs]
    /\ cmd \in [Jobs -> {"LEER", "ESCRIBIR"}]
    /\ tipo \in [Jobs -> Tipos]
    /\ copia \in [Jobs -> Contents]
    /\ destino \in [Jobs -> [puerto : Servers \cup {NoServer}, nombre : Names \cup {NoName}]]
    /\ envio \in [Jobs -> Contents]
    /\ abiertas \in SUBSET Jobs

ClientInit ==
    /\ cpc = [j \in Jobs |-> "idle"]
    /\ cmd = [j \in Jobs |-> "LEER"]
    /\ tipo = [j \in Jobs |-> "ARCHIVO"]
    /\ copia = [j \in Jobs |-> "nothing"]
    /\ destino = [j \in Jobs |-> [puerto |-> NoServer, nombre |-> NoName]]
    /\ envio = [j \in Jobs |-> "nothing"]
    /\ abiertas = {}

CliGoto(j, pc) == cpc' = [cpc EXCEPT ![j] = pc]

\* The program is run, once the daemon has nothing left to do for its last run.
Start(j, n, c) ==
    /\ cpc[j] = "idle" /\ hilo[j] = "none"
    /\ CliGoto(j, "ask")
    /\ cmd' = [cmd EXCEPT ![j] = c]
    /\ destino' = [destino EXCEPT ![j] = [puerto |-> NoServer, nombre |-> n]]
    /\ copia' = [copia EXCEPT ![j] = "nothing"]
    /\ envio' = [envio EXCEPT ![j] = "nothing"]
    /\ UNCHANGED <<serverVars, tabla, tipo, abiertas>>

\* SOLICITAR_ELEMENTO and its answer.
Solicitar(j) ==
    LET n == Name(j)
    IN /\ cpc[j] = "ask"
       /\ \E resp \in {"OK", "BLOQUEADO", "NO_ENCONTRADO"} :
            /\ SolicitarElemento(n, cmd[j], resp)
            /\ IF resp = "OK"
               THEN /\ CliGoto(j, "connect")
                    /\ tipo' = [tipo EXCEPT ![j] = tabla[n].tipo]
                    /\ destino' = [destino EXCEPT ![j].puerto = tabla[n].puerto]
               ELSE CliGoto(j, "idle") /\ UNCHANGED <<tipo, destino>>
       /\ UNCHANGED <<serverVars, cmd, copia, envio, abiertas>>

\* The connection to the file server.  It fails when no daemon listens; a
\* folder is not asked for to be written.  In both cases the program ends.
Conectar(j) ==
    /\ cpc[j] = "connect"
    /\ IF Srv(j) \in daemon /\ (cmd[j] = "LEER" \/ tipo[j] = "ARCHIVO")
       THEN CliGoto(j, "download") /\ HiloGoto(j, "get")
       ELSE CliGoto(j, "idle") /\ UNCHANGED hilo
    /\ UNCHANGED <<tabla, menu, registrados, servidos, daemon, archivo, linkVars, cmd, tipo, copia>>

\* The download ends, and with it a run that only reads.
Descargar(j) ==
    /\ cpc[j] = "download"
    /\ CliGoto(j, IF cmd[j] = "LEER" THEN "idle" ELSE "edit")
    /\ \E text \in Contents :
        /\ copia' = IF cmd[j] = "LEER" THEN copia ELSE [copia EXCEPT ![j] = text]
        /\ \* The daemon has sent what it has and closed.
           \/ /\ hilo[j] = "get" /\ Entrega(j, text)
              /\ HiloGoto(j, "none")
              /\ UNCHANGED <<servidos, daemon, archivo>>
           \* The folder is in the downloads already, or the file cannot be
           \* created: the client closes and has received nothing.
           \/ /\ hilo[j] = "get" /\ text = "nothing"
              /\ SinReceptor(j)
           \* The daemon has died meanwhile.
           \/ /\ hilo[j] = "none" /\ text \in {"half", "nothing"}
              /\ UNCHANGED <<servidos, daemon, archivo, hilo>>
    /\ UNCHANGED <<tabla, menu, registrados, linkVars, cmd, tipo>>

\* The user has edited the file and presses Enter: a new connection, with
\* ACTUALIZAR_ARCHIVO and the file on it.  Whether there is a connection is
\* not asked: without a daemon the program dies of SIGPIPE.
Actualizar(j) ==
    /\ cpc[j] = "edit"
    /\ \/ /\ Srv(j) \in daemon
          /\ \E t \in Texts : envio' = [envio EXCEPT ![j] = t]
          /\ abiertas' = abiertas \cup {j}
          /\ HiloGoto(j, "put")
          /\ CliGoto(j, "sending")
       \/ /\ Srv(j) \notin daemon
          /\ CliGoto(j, "idle")
          /\ UNCHANGED <<envio, abiertas, hilo>>
    /\ UNCHANGED <<tabla, menu, registrados, servidos, daemon, archivo, destino, cmd, tipo, copia>>

\* Everything is sent and the program ends.
Terminar(j) ==
    /\ cpc[j] = "sending"
    /\ CliGoto(j, "idle")
    /\ abiertas' = abiertas \ {j}
    /\ UNCHANGED <<serverVars, tabla, destino, envio, cmd, tipo, copia>>

\* The program is interrupted; what it was sending arrives in part.  What the
\* daemon sends to it has nobody to receive it.
Kill(j) ==
    /\ "kill" \in Faults
    /\ cpc[j] # "idle"
    /\ CliGoto(j, "idle")
    /\ abiertas' = abiertas \ {j}
    /\ envio' = [envio EXCEPT ![j] = IF cpc[j] = "sending" THEN "cut" ELSE @]
    /\ IF hilo[j] = "get" THEN SinReceptor(j)
                          ELSE UNCHANGED <<servidos, daemon, archivo, hilo>>
    /\ UNCHANGED <<tabla, menu, registrados, destino, cmd, tipo, copia>>

GoesOn(j) ==
    Solicitar(j) \/ Conectar(j) \/ Descargar(j) \/ Actualizar(j) \/ Terminar(j)
=============================================================================
