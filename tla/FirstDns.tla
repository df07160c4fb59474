------------------------------ MODULE FirstDns ------------------------------
(***************************************************************************)
(* The first version of the file system: the name server dns.c, with a     *)
(* thread for each connection, and runs of file_server.c, which registers  *)
(* itself and its files there.  (It does not serve them yet.)  A thread    *)
(* registers a name in two critical sections: it looks for the server      *)
(* under mutex_servidores and adds the name under mutex_archivos.          *)
(*                                                                         *)
(* disponible is 1 in every entry of tabla_servidores: no code clears it.  *)
(* A name goes to the name server as it is and is read there with "%s".    *)
(***************************************************************************)
EXTENDS Integers, Sequences, FiniteSets

CONSTANTS
    Runs,       \* runs of file_server
    ip_cliente, \* the address a run connects from
    argv,       \* the address it is told that it has: [ip, puerto]
    Archivos,   \* names of files
    Carpetas,   \* and of folders
    Directorio, \* those in the directory of a run
    Leido,      \* what "%s" reads of a name: its first word
    MaxServers, \* MAX_SERVERS
    MaxFiles    \* MAX_FILES

Nombres == Archivos \cup Carpetas
SinNombre == ""     \* what a request without a name has
Palabras == {Leido[nombre] : nombre \in Nombres} \ {SinNombre}
Direcciones == {argv[r] : r \in Runs}

ASSUME FirstDnsAssumption ==
    /\ IsFiniteSet(Runs) /\ DOMAIN ip_cliente = Runs
    /\ DOMAIN argv = Runs /\ \A r \in Runs : DOMAIN argv[r] = {"ip", "puerto"}
    /\ Archivos \cap Carpetas = {} /\ SinNombre \notin Nombres
    /\ Directorio \in [Runs -> SUBSET Nombres] /\ DOMAIN Leido = Nombres
    /\ MaxServers \in Nat /\ MaxFiles \in Nat

VARIABLES
    tabla_servidores,
    tabla_archivos,     \* lock is never set; por and de are history: who
                        \* registered it, and of which file or folder
    menu,               \* where a run is
    todo,               \* what registrar_todos_los_archivos has still to do
    hilo,               \* the name server's thread for the run's connection
    elementos           \* elementos_registrados

vars == <<tabla_servidores, tabla_archivos, menu, todo, hilo, elementos>>

NoHilo == [en |-> "no", nombre |-> SinNombre, indice |-> 0]

Init ==
    /\ tabla_servidores = <<>>
    /\ tabla_archivos = <<>>
    /\ menu = [r \in Runs |-> "menu"]
    /\ todo = [r \in Runs |-> {}]
    /\ hilo = [r \in Runs |-> NoHilo]
    /\ elementos = [r \in Runs |-> {}]

\* connect and send; then the run waits for the answer.  nombre is what it
\* sends, and keeps.
Pide(r, en, nombre) ==
    /\ hilo[r].en = "no"
    /\ menu' = [menu EXCEPT ![r] = "espera"]
    /\ hilo' = [hilo EXCEPT ![r] = [en |-> en, nombre |-> nombre, indice |-> 0]]
    /\ UNCHANGED <<tabla_servidores, tabla_archivos, elementos>>

-----------------------------------------------------------------------------
\* main of file_server: habilitar ...
Habilitar(r) ==
    /\ menu[r] = "menu" /\ Pide(r, "servidor", SinNombre)
    /\ UNCHANGED todo

\* ... subir_archivo and subir_carpeta, which read the name with "%s" too ...
Subir(r, nombre) ==
    /\ menu[r] = "menu" /\ nombre \in Directorio[r] /\ Leido[nombre] = nombre
    /\ Pide(r, "buscar", nombre)
    /\ UNCHANGED todo

\* ... actualizar_todo, file by file ...
ActualizarTodo(r) ==
    /\ menu[r] = "menu"
    /\ menu' = [menu EXCEPT ![r] = "todo"]
    /\ todo' = [todo EXCEPT ![r] = Directorio[r] \cap Archivos]
    /\ UNCHANGED <<tabla_servidores, tabla_archivos, hilo, elementos>>

Siguiente(r) ==
    /\ menu[r] = "todo"
    /\ \/ \E nombre \in todo[r] :
            /\ Pide(r, "buscar", nombre)
            /\ todo' = [todo EXCEPT ![r] = @ \ {nombre}]
       \/ /\ todo[r] = {}
          /\ menu' = [menu EXCEPT ![r] = "menu"]
          /\ UNCHANGED <<tabla_servidores, tabla_archivos, todo, hilo, elementos>>

\* ... and salir, or the run is killed.  Its thread goes on.
Salir(r) ==
    /\ menu[r] # "fin"
    /\ menu' = [menu EXCEPT ![r] = "fin"]
    /\ todo' = [todo EXCEPT ![r] = {}]
    /\ hilo' = [hilo EXCEPT ![r] = IF @.en \in {"ok", "error"} THEN NoHilo ELSE @]
    /\ UNCHANGED <<tabla_servidores, tabla_archivos, elementos>>

\* registrar_archivo_dns, registrar_directorio_dns and registrar_servidor_dns
\* get the answer.  Only files are remembered, under the name that was sent.
Recibe(r) ==
    /\ hilo[r].en \in {"ok", "error"}
    /\ hilo' = [hilo EXCEPT ![r] = NoHilo]
    /\ menu' = [menu EXCEPT ![r] = IF todo[r] = {} THEN "menu" ELSE "todo"]
    /\ elementos' = IF hilo[r].en = "ok" /\ hilo[r].nombre \in Archivos
                    THEN [elementos EXCEPT ![r] = @ \cup {hilo[r].nombre}] ELSE elementos
    /\ UNCHANGED <<tabla_servidores, tabla_archivos, todo>>

-----------------------------------------------------------------------------
\* send and close.  Nobody reads the answer when the run has ended.
Responde(r, en) ==
    hilo' = [hilo EXCEPT ![r] = IF menu[r] = "fin" THEN NoHilo ELSE [@ EXCEPT !.en = en, !.indice = 0]]

\* registrar_servidor, under mutex_servidores.
RegistrarServidor(r) ==
    /\ hilo[r].en = "servidor"
    /\ \/ /\ \E i \in DOMAIN tabla_servidores : tabla_servidores[i] = argv[r]
          /\ Responde(r, "ok")
          /\ UNCHANGED tabla_servidores
       \/ /\ \A i \in DOMAIN tabla_servidores : tabla_servidores[i] # argv[r]
          /\ IF Len(tabla_servidores) < MaxServers
             THEN tabla_servidores' = Append(tabla_servidores, argv[r]) /\ Responde(r, "ok")
             ELSE UNCHANGED tabla_servidores /\ Responde(r, "error")
    /\ UNCHANGED <<tabla_archivos, menu, todo, elementos>>

\* The servers of the host that the connection comes from.
DelHost(r) == {i \in DOMAIN tabla_servidores : tabla_servidores[i].ip = ip_cliente[r]}

\* Mutant: the search does not stop at the first one.
Ultimo(S) == CHOOSE i \in S : \A j \in S : j <= i
Primero(S) == CHOOSE i \in S : \A j \in S : i <= j

\* What the name server has for the thread's name.
Nombre(r) == Leido[hilo[r].nombre]

\* REGISTRAR_ARCHIVO_DIRECTORIO and REGISTRAR_DIRECTORIO, under
\* mutex_servidores.  FORMATO_INCORRECTO is the answer to a name of blanks.
Buscar(r) ==
    /\ hilo[r].en = "buscar"
    /\ IF Nombre(r) = SinNombre \/ DelHost(r) = {}
       THEN Responde(r, "error")
       ELSE hilo' = [hilo EXCEPT ![r].en = "registrar", ![r].indice = Primero(DelHost(r))]
    /\ UNCHANGED <<tabla_servidores, tabla_archivos, menu, todo, elementos>>

Entrada(r) == [nombre |-> Nombre(r), indice_servidor |-> hilo[r].indice, por |-> r, de |-> hilo[r].nombre]

\* Mutant: the search leaves the first entry out.
SinLaPrimera(nombre) == \E i \in DOMAIN tabla_archivos : i > 1 /\ tabla_archivos[i].nombre = nombre
Registrado(nombre) == \E i \in DOMAIN tabla_archivos : tabla_archivos[i].nombre = nombre

\* Mutants: one entry too many; a name that is there already is acknowledged.
HayLugarParaUnoMas == Len(tabla_archivos) <= MaxFiles
ConfirmaRepetidos(r) ==
    /\ hilo[r].en = "registrar"
    /\ Responde(r, "ok")
    /\ tabla_archivos' = IF Registrado(Nombre(r)) THEN tabla_archivos ELSE Append(tabla_archivos, Entrada(r))
    /\ UNCHANGED <<tabla_servidores, menu, todo, elementos>>

HayLugar == Len(tabla_archivos) < MaxFiles

\* registrar_archivo_directorio, under mutex_archivos.  tabla_servidores is
\* read again, without its mutex.
Registrar(r) ==
    /\ hilo[r].en = "registrar"
    /\ IF hilo[r].indice <= Len(tabla_servidores) /\ ~Registrado(Nombre(r)) /\ HayLugar
       THEN tabla_archivos' = Append(tabla_archivos, Entrada(r)) /\ Responde(r, "ok")
       ELSE UNCHANGED tabla_archivos /\ Responde(r, "error")
    /\ UNCHANGED <<tabla_servidores, menu, todo, elementos>>

Next ==
    \E r \in Runs :
        \/ Habilitar(r) \/ ActualizarTodo(r) \/ Siguiente(r) \/ Salir(r) \/ Recibe(r)
        \/ \E nombre \in Nombres : Subir(r, nombre)
        \/ RegistrarServidor(r) \/ Buscar(r) \/ Registrar(r)

Spec == Init /\ [][Next]_vars

-----------------------------------------------------------------------------
TypeOK ==
    /\ tabla_servidores \in Seq(Direcciones) /\ Len(tabla_servidores) <= MaxServers
    /\ tabla_archivos \in Seq([nombre : Palabras, indice_servidor : 1..MaxServers,
                                por : Runs, de : Nombres])
    /\ Len(tabla_archivos) <= MaxFiles
    /\ menu \in [Runs -> {"menu", "espera", "todo", "fin"}]
    /\ todo \in [Runs -> SUBSET Archivos]
    /\ hilo \in [Runs -> [en : {"no", "servidor", "buscar", "registrar", "ok", "error"},
                          nombre : Nombres \cup {SinNombre}, indice : 0..MaxServers]]
    /\ elementos \in [Runs -> SUBSET Archivos]

(***************************************************************************)
(* A name has one entry, and an address one, whatever the threads register *)
(* at the same time and however often servers are started again: an entry  *)
(* is looked for and added in the same critical section.                   *)
(***************************************************************************)
OneEntryEach ==
    /\ \A i, j \in DOMAIN tabla_archivos :
        tabla_archivos[i].nombre = tabla_archivos[j].nombre => i = j
    /\ \A i, j \in DOMAIN tabla_servidores :
        tabla_servidores[i] = tabla_servidores[j] => i = j

(***************************************************************************)
(* indice_servidor, found in one critical section and stored in another,   *)
(* stands for a server on the host that the name was registered from: the  *)
(* first one that was enabled there (not always the one that has the       *)
(* file).                                                                  *)
(***************************************************************************)
EntryNamesFirstServerOfHost ==
    \A i \in DOMAIN tabla_archivos :
        LET e == tabla_archivos[i]
            host == DelHost(e.por)
        IN  e.indice_servidor \in host /\ \A j \in host : e.indice_servidor <= j

(***************************************************************************)
(* The servers agree with the table, up to what "%s" cuts off: a file in   *)
(* elementos_registrados has an entry under its first word, and the entry  *)
(* is that file's, registered by that server, so that no two files, of one *)
(* server or of two, are registered as the same; and the server that       *)
(* registered a file has it, once it has the answer, unless it has ended.  *)
(***************************************************************************)
ServersAgreeWithTable ==
    /\ \A r \in Runs, nombre \in Archivos : nombre \in elementos[r] =>
        \E i \in DOMAIN tabla_archivos :
            /\ tabla_archivos[i].nombre = Leido[nombre]
            /\ tabla_archivos[i].por = r /\ tabla_archivos[i].de = nombre
    /\ \A i \in DOMAIN tabla_archivos :
        LET e == tabla_archivos[i]
        IN  \/ e.de \in elementos[e.por] \cup Carpetas
            \/ menu[e.por] = "fin"
            \/ hilo[e.por].en = "ok" /\ hilo[e.por].nombre = e.de
=============================================================================
