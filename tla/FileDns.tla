------------------------------ MODULE FileDns ------------------------------
(***************************************************************************)
(* The name server of the distributed file system: servidor_dns_nuevo.c.   *)
(* Every request comes on a connection of its own and is handled under     *)
(* mutex_tabla, so an operation is one step; the operators here are the    *)
(* bodies of those steps, used by the actions of the program that asks.    *)
(***************************************************************************)
EXTENDS Naturals, FiniteSets

CONSTANTS
    Names,      \* names of files and folders, without blanks: they are read with "%s"
    Servers,    \* file servers, known to the DNS by their port
    NoServer,
    MaxFiles,   \* MAX_FILES
    Faults      \* which of AllFaults the environment may inject

AllFaults == {"kill", "sigpipe", "glue", "overflow", "nofork"}

ASSUME DnsAssumption ==
    /\ MaxFiles \in Nat
    /\ NoServer \notin Servers
    /\ Faults \subseteq AllFaults

VARIABLE tabla      \* tablaElementos, by name

Tipos == {"ARCHIVO", "CARPETA"}

Unknown == [puerto |-> NoServer, bloqueado |-> 0, tipo |-> "ARCHIVO"]

Known(n) == tabla[n].puerto # NoServer

DnsTypeOK ==
    /\ tabla \in [Names -> [puerto : Servers \cup {NoServer}, bloqueado : {0, 1}, tipo : Tipos]]
    /\ Cardinality({n \in Names : Known(n)}) <= MaxFiles

DnsInit == tabla = [n \in Names |-> Unknown]

\* Mutant: a new name is taken without looking whether there is room.
RegistrableWithoutRoom(n, srv) ==
    Known(n) => tabla[n].bloqueado = 0 /\ tabla[n].puerto = srv

\* registrar_elemento answers OK: a new name while there is room, or the
\* server's own name again, unless it is locked.
Registrable(n, srv) ==
    IF Known(n) THEN tabla[n].bloqueado = 0 /\ tabla[n].puerto = srv
                ELSE Cardinality({m \in Names : Known(m)}) < MaxFiles

\* Mutant: the last server to register a name gets it.
LastServerWins(n, srv, tipo) ==
    tabla' = IF Known(n) \/ Registrable(n, srv)
             THEN [tabla EXCEPT ![n].puerto = srv, ![n].tipo = tipo] ELSE tabla

RegistrarElemento(n, srv, tipo) ==
    tabla' = IF ~Known(n) /\ Registrable(n, srv)
             THEN [tabla EXCEPT ![n] = [puerto |-> srv, bloqueado |-> 0, tipo |-> tipo]]
             ELSE tabla

\* Mutant: the lock is given without looking whether it is taken.
GrantsAnyway(n, cmd) ==
    IF ~Known(n) THEN "NO_ENCONTRADO" ELSE "OK"

\* manejar_cliente's answer to SOLICITAR_ELEMENTO.
Respuesta(n, cmd) ==
    CASE ~Known(n)                                      -> "NO_ENCONTRADO"
      [] Known(n) /\ cmd = "LEER"                       -> "OK"
      [] Known(n) /\ cmd # "LEER" /\ tabla[n].bloqueado = 0 -> "OK"
      [] OTHER                                          -> "BLOQUEADO"

\* The answer is sent; with it a writer has the lock of the name, whatever
\* its type.
SolicitarElemento(n, cmd, resp) ==
    \/ /\ resp = Respuesta(n, cmd)
       /\ tabla' = IF resp = "OK" /\ cmd = "ESCRIBIR"
                   THEN [tabla EXCEPT ![n].bloqueado = 1] ELSE tabla
    \* "ESCRIBIR" and its terminator do not fit comando[8]: where nombre lies
    \* behind it on the stack, it becomes the empty string.
    \/ /\ "overflow" \in Faults /\ cmd = "ESCRIBIR"
       /\ resp = "NO_ENCONTRADO"
       /\ UNCHANGED tabla

\* Mutant: the entry is found and not changed.
LeavesLocked(n) == tabla' = tabla

DesbloquearElemento(n) ==
    tabla' = IF Known(n) THEN [tabla EXCEPT ![n].bloqueado = 0] ELSE tabla
=============================================================================
