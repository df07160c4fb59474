--------------------------- MODULE FirstDnsProofs ---------------------------
(***************************************************************************)
(* The tables of the first name server, for any runs of the file server,   *)
(* on any hosts, and tables of any length.                                 *)
(***************************************************************************)
EXTENDS FirstDns, SequenceTheorems, WellFoundedInduction, TLAPS

Hilos == [en : {"no", "servidor", "buscar", "registrar", "ok", "error"},
          nombre : Nombres \cup {SinNombre}, indice : 0..MaxServers]
Entradas == [nombre : Palabras, indice_servidor : 1..MaxServers, por : Runs, de : Nombres]

\* A thread that registers a name has one, and one that registers a server
\* has none.
HilosNombran ==
    \A r \in Runs :
        /\ hilo[r].en \in {"buscar", "registrar"} => hilo[r].nombre \in Nombres
        /\ hilo[r].en = "servidor" => hilo[r].nombre = SinNombre

\* What a thread has found under mutex_servidores is true still when it has
\* given the mutex back.
HilosEncontraron ==
    \A r \in Runs : hilo[r].en = "registrar" =>
        /\ Leido[hilo[r].nombre] # SinNombre /\ hilo[r].indice \in DelHost(r)
        /\ \A j \in DelHost(r) : hilo[r].indice <= j

\* A file whose registration was acknowledged is in the table.
HilosConfirman ==
    \A r \in Runs : hilo[r].en = "ok" /\ hilo[r].nombre \in Archivos =>
        \E i \in DOMAIN tabla_archivos :
            /\ tabla_archivos[i].nombre = Leido[hilo[r].nombre]
            /\ tabla_archivos[i].por = r /\ tabla_archivos[i].de = hilo[r].nombre

\* Who has ended gets no answer.
SinRespuesta == \A r \in Runs : menu[r] = "fin" => hilo[r].en \notin {"ok", "error"}

(***************************************************************************)
(* The inductive invariant.  EntryNamesFirstServerOfHost needs what a      *)
(* thread carries from one critical section to the other, and              *)
(* ServersAgreeWithTable the answers that are under way.                   *)
(***************************************************************************)
HilosInv == HilosNombran /\ HilosEncontraron /\ HilosConfirman /\ SinRespuesta
TablasInv == OneEntryEach /\ EntryNamesFirstServerOfHost
Inv == TypeOK /\ HilosInv /\ TablasInv /\ ServersAgreeWithTable

-----------------------------------------------------------------------------
\* A search that stops at the first one finds one, the first.
LEMMA FirstOne ==
    ASSUME NEW S, S \subseteq Nat, S # {}
    PROVE  Primero(S) \in S /\ \A j \in S : Primero(S) <= j
<1> DEFINE R == OpToRel(<, Nat)
<1>1. IsWellFoundedOn(R, Nat)  BY NatLessThanWellFounded
<1> HIDE DEF R
<1>2. PICK i \in S : \A j \in S : ~(<<j, i>> \in R)  BY <1>1, WFMin
<1>3. \A j \in S : j < i => <<j, i>> \in R  BY DEF R, OpToRel
<1>4. \A j \in S : ~(j < i)  BY <1>2, <1>3
<1>5. \A j \in S : i \in Nat /\ j \in Nat  OBVIOUS
<1>6. \A j \in S : i <= j  BY <1>4, <1>5
<1> QED  BY <1>6 DEF Primero

\* The lengths of the tables are numbers, and a file has a name.
LEMMA Limites == MaxServers \in Nat /\ MaxFiles \in Nat /\ SinNombre \notin Nombres
BY FirstDnsAssumption

\* The types, by the names given to them here.
LEMMA Tipos ==
    ASSUME TypeOK
    PROVE  /\ hilo \in [Runs -> Hilos] /\ menu \in [Runs -> {"menu", "espera", "todo", "fin"}]
           /\ tabla_archivos \in Seq(Entradas) /\ tabla_servidores \in Seq(Direcciones)
           /\ elementos \in [Runs -> SUBSET Archivos] /\ todo \in [Runs -> SUBSET Archivos]
BY DEF TypeOK, Hilos, Entradas

\* A table is numbered from 1 to its length.
LEMMA Tablas ==
    ASSUME TypeOK
    PROVE  /\ DOMAIN tabla_servidores = 1..Len(tabla_servidores) /\ Len(tabla_servidores) \in 0..MaxServers
           /\ DOMAIN tabla_archivos = 1..Len(tabla_archivos) /\ Len(tabla_archivos) \in 0..MaxFiles
<1>1. tabla_servidores \in Seq(Direcciones) /\ tabla_archivos \in Seq(Entradas)  BY Tipos
<1>2. /\ DOMAIN tabla_servidores = 1..Len(tabla_servidores) /\ Len(tabla_servidores) \in Nat
      /\ DOMAIN tabla_archivos = 1..Len(tabla_archivos) /\ Len(tabla_archivos) \in Nat
  BY <1>1, LenProperties
<1>3. Len(tabla_servidores) <= MaxServers /\ Len(tabla_archivos) <= MaxFiles  BY DEF TypeOK
<1> QED  BY <1>2, <1>3, Limites

\* What an entry consists of.
LEMMA EntradasTipos == ASSUME TypeOK, NEW i \in DOMAIN tabla_archivos PROVE tabla_archivos[i] \in Entradas
BY Tipos, Tablas, ElementOfSeq

\* Everything is empty.
LEMMA InitInv == Init => Inv
<1> SUFFICES ASSUME Init PROVE Inv  OBVIOUS
<1>1. NoHilo \in Hilos /\ NoHilo.en = "no"  BY Limites DEF NoHilo, Hilos
<1>2. tabla_archivos \in Seq(Entradas) /\ tabla_servidores \in Seq(Direcciones)
  BY EmptySeq DEF Init
<1>3. Len(tabla_archivos) = 0 /\ Len(tabla_servidores) = 0 
    /\ DOMAIN tabla_archivos = {} /\ DOMAIN tabla_servidores = {}
  BY DEF Init
<1>4. hilo \in [Runs -> Hilos] /\ \A r \in Runs : hilo[r].en = "no"  BY <1>1 DEF Init
<1>5. TypeOK
  BY <1>2, <1>3, <1>4, Limites DEF Init, TypeOK, Hilos, Entradas
<1>6. HilosInv
  BY <1>4 DEF HilosInv, HilosNombran, HilosEncontraron, HilosConfirman, SinRespuesta
<1>7. TablasInv  BY <1>3 DEF TablasInv, OneEntryEach, EntryNamesFirstServerOfHost
<1>8. \A r \in Runs : elementos[r] = {}  BY DEF Init
<1>9. ServersAgreeWithTable  BY <1>3, <1>8 DEF ServersAgreeWithTable
<1> QED  BY <1>5, <1>6, <1>7, <1>9 DEF Inv

-----------------------------------------------------------------------------
\* The tables' part of Inv is about the tables only.
LEMMA TablasKept ==
    ASSUME Inv, UNCHANGED <<tabla_servidores, tabla_archivos>>
    PROVE  TablasInv' /\ \A r \in Runs : DelHost(r)' = DelHost(r)
BY DEF Inv, TablasInv, OneEntryEach, EntryNamesFirstServerOfHost, DelHost

(***************************************************************************)
(* A step of one run, or of its thread, that leaves tabla_archivos alone   *)
(* keeps what Inv says of the answers and of the servers' lists when it    *)
(* does so for that run.                                                   *)
(***************************************************************************)
LEMMA RunAgrees ==
    ASSUME Inv, NEW r \in Runs, UNCHANGED tabla_archivos,
           \A q \in Runs \ {r} : hilo'[q] = hilo[q] /\ menu'[q] = menu[q] /\ elementos'[q] = elementos[q],
           hilo'[r].en \in {"buscar", "registrar"} => hilo'[r].nombre \in Nombres,
           hilo'[r].en = "servidor" => hilo'[r].nombre = SinNombre,
           hilo'[r].en = "ok" /\ hilo'[r].nombre \in Archivos => hilo[r].en = "ok" /\ hilo'[r].nombre = hilo[r].nombre,
           menu'[r] = "fin" => hilo'[r].en \notin {"ok", "error"},
           menu[r] = "fin" => menu'[r] = "fin",
           elementos[r] \subseteq elementos'[r],
           \A nombre \in elementos'[r] \ elementos[r] : hilo[r].en = "ok" /\ hilo[r].nombre = nombre,
           hilo[r].en = "ok" /\ hilo[r].nombre \in Archivos =>
               \/ menu'[r] = "fin"
               \/ hilo'[r].en = "ok" /\ hilo'[r].nombre = hilo[r].nombre
               \/ hilo[r].nombre \in elementos'[r]
    PROVE  HilosNombran' /\ HilosConfirman' /\ SinRespuesta' /\ ServersAgreeWithTable'
<1>1. HilosNombran'  BY DEF Inv, HilosInv, HilosNombran
<1>2. HilosConfirman'
  <2> SUFFICES ASSUME NEW q \in Runs, hilo'[q].en = "ok", hilo'[q].nombre \in Archivos
               PROVE  \E i \in DOMAIN tabla_archivos :
                        /\ tabla_archivos[i].nombre = Leido[hilo'[q].nombre]
                        /\ tabla_archivos[i].por = q /\ tabla_archivos[i].de = hilo'[q].nombre
    BY DEF HilosConfirman
  <2>1. hilo[q].en = "ok" /\ hilo'[q].nombre = hilo[q].nombre  OBVIOUS
  <2> QED  BY <2>1 DEF Inv, HilosInv, HilosConfirman
<1>3. SinRespuesta'  BY DEF Inv, HilosInv, SinRespuesta
<1>4. ASSUME NEW q \in Runs, NEW nombre \in Archivos, nombre \in elementos'[q]
      PROVE  \E i \in DOMAIN tabla_archivos :
                /\ tabla_archivos[i].nombre = Leido[nombre]
                /\ tabla_archivos[i].por = q /\ tabla_archivos[i].de = nombre
  <2>1. CASE nombre \in elementos[q]  BY <2>1 DEF Inv, ServersAgreeWithTable
  <2>2. CASE nombre \notin elementos[q]
    <3>1. q = r /\ hilo[r].en = "ok" /\ hilo[r].nombre = nombre  BY <1>4, <2>2
    <3> QED  BY <3>1 DEF Inv, HilosInv, HilosConfirman
  <2> QED  BY <2>1, <2>2
<1>5. ASSUME NEW i \in DOMAIN tabla_archivos
      PROVE  LET e == tabla_archivos[i]
             IN  \/ e.de \in elementos'[e.por] \cup Carpetas
                 \/ menu'[e.por] = "fin"
                 \/ hilo'[e.por].en = "ok" /\ hilo'[e.por].nombre = e.de
  <2> DEFINE e == tabla_archivos[i]
  <2>1. e \in Entradas  BY EntradasTipos DEF Inv
  <2>2. e.por \in Runs /\ e.de \in Archivos \cup Carpetas  BY <2>1 DEF Entradas, Nombres
  <2>3. \/ e.de \in elementos[e.por] \cup Carpetas
        \/ menu[e.por] = "fin"
        \/ hilo[e.por].en = "ok" /\ hilo[e.por].nombre = e.de
    BY DEF Inv, ServersAgreeWithTable
  <2>4. CASE e.por # r  BY <2>2, <2>3, <2>4
  <2>5. CASE e.por = r  BY <2>2, <2>3, <2>5
  <2> QED  BY <2>4, <2>5
<1>6. ServersAgreeWithTable'  BY <1>4, <1>5 DEF ServersAgreeWithTable
<1> QED  BY <1>1, <1>2, <1>3, <1>6

\* If it leaves both tables alone, it keeps Inv.
LEMMA RunStep ==
    ASSUME Inv, NEW r \in Runs, UNCHANGED <<tabla_servidores, tabla_archivos>>, TypeOK',
           hilo'[r].en = "registrar" =>
               /\ Leido[hilo'[r].nombre] # SinNombre /\ hilo'[r].indice \in DelHost(r)
               /\ \A j \in DelHost(r) : hilo'[r].indice <= j,
           \A q \in Runs \ {r} : hilo'[q] = hilo[q] /\ menu'[q] = menu[q] /\ elementos'[q] = elementos[q],
           hilo'[r].en \in {"buscar", "registrar"} => hilo'[r].nombre \in Nombres,
           hilo'[r].en = "servidor" => hilo'[r].nombre = SinNombre,
           hilo'[r].en = "ok" /\ hilo'[r].nombre \in Archivos => hilo[r].en = "ok" /\ hilo'[r].nombre = hilo[r].nombre,
           menu'[r] = "fin" => hilo'[r].en \notin {"ok", "error"},
           menu[r] = "fin" => menu'[r] = "fin",
           elementos[r] \subseteq elementos'[r],
           \A nombre \in elementos'[r] \ elementos[r] : hilo[r].en = "ok" /\ hilo[r].nombre = nombre,
           hilo[r].en = "ok" /\ hilo[r].nombre \in Archivos =>
               \/ menu'[r] = "fin"
               \/ hilo'[r].en = "ok" /\ hilo'[r].nombre = hilo[r].nombre
               \/ hilo[r].nombre \in elementos'[r]
    PROVE  Inv'
<1>1. TablasInv' /\ \A q \in Runs : DelHost(q)' = DelHost(q)  BY TablasKept
<1>2. HilosEncontraron'  BY <1>1 DEF Inv, HilosInv, HilosEncontraron
<1>3. HilosNombran' /\ HilosConfirman' /\ SinRespuesta' /\ ServersAgreeWithTable'  BY RunAgrees
<1> QED  BY <1>1, <1>2, <1>3 DEF Inv, HilosInv

\* A step of one run keeps the types when it keeps those of its state.
LEMMA RunTypes ==
    ASSUME TypeOK, UNCHANGED <<tabla_servidores, tabla_archivos>>,
           menu' \in [Runs -> {"menu", "espera", "todo", "fin"}],
           todo' \in [Runs -> SUBSET Archivos],
           hilo' \in [Runs -> Hilos],
           elementos' \in [Runs -> SUBSET Archivos]
    PROVE  TypeOK'
BY DEF TypeOK, Hilos

\* Asking the name server.
LEMMA PideInv ==
    ASSUME Inv, NEW r \in Runs, NEW en \in {"servidor", "buscar"}, NEW nombre \in Nombres \cup {SinNombre},
           en = "servidor" => nombre = SinNombre, en = "buscar" => nombre \in Nombres,
           menu[r] # "fin", Pide(r, en, nombre), todo' \in [Runs -> SUBSET Archivos]
    PROVE  Inv'
<1>1. TypeOK /\ hilo \in [Runs -> Hilos] /\ menu \in [Runs -> {"menu", "espera", "todo", "fin"}]
  BY Tipos DEF Inv
<1>2. /\ hilo[r].en = "no" /\ UNCHANGED <<tabla_servidores, tabla_archivos, elementos>>
      /\ menu' = [menu EXCEPT ![r] = "espera"]
      /\ hilo' = [hilo EXCEPT ![r] = [en |-> en, nombre |-> nombre, indice |-> 0]]
  BY DEF Pide
<1>3. [en |-> en, nombre |-> nombre, indice |-> 0] \in Hilos  BY Limites DEF Hilos
<1>4. hilo' \in [Runs -> Hilos] /\ menu' \in [Runs -> {"menu", "espera", "todo", "fin"}]
  BY <1>1, <1>2, <1>3
<1>5. elementos' \in [Runs -> SUBSET Archivos]  BY <1>2, Tipos DEF Inv
<1>6. TypeOK'  BY <1>1, <1>2, <1>4, <1>5, RunTypes
<1>7. /\ hilo'[r].en = en /\ hilo'[r].nombre = nombre /\ menu'[r] = "espera"
      /\ \A q \in Runs \ {r} : hilo'[q] = hilo[q] /\ menu'[q] = menu[q] /\ elementos'[q] = elementos[q]
  BY <1>1, <1>2
<1> QED  BY <1>2, <1>6, <1>7, RunStep

\* habilitar, subir_archivo and subir_carpeta, and a file of actualizar_todo.
LEMMA MenuInv ==
    ASSUME Inv, NEW r \in Runs,
           Habilitar(r) \/ (\E nombre \in Nombres : Subir(r, nombre)) \/ ActualizarTodo(r) \/ Siguiente(r)
    PROVE  Inv'
<1>1. todo \in [Runs -> SUBSET Archivos] /\ elementos \in [Runs -> SUBSET Archivos] /\ TypeOK
  BY Tipos DEF Inv
<1>2. hilo \in [Runs -> Hilos] /\ menu \in [Runs -> {"menu", "espera", "todo", "fin"}]
  BY Tipos DEF Inv
<1>3. CASE Habilitar(r)
  <2>1. menu[r] # "fin" /\ Pide(r, "servidor", SinNombre) /\ todo' = todo  BY <1>3 DEF Habilitar
  <2> QED  BY <1>1, <2>1, PideInv
<1>4. ASSUME NEW nombre \in Nombres, Subir(r, nombre) PROVE Inv'
  <2>1. menu[r] # "fin" /\ Pide(r, "buscar", nombre) /\ todo' = todo  BY <1>4 DEF Subir
  <2> QED  BY <1>1, <2>1, PideInv
<1>5. ASSUME NEW pc \in {"menu", "todo"}, menu[r] # "fin", menu' = [menu EXCEPT ![r] = pc],
             todo' \in [Runs -> SUBSET Archivos],
             UNCHANGED <<tabla_servidores, tabla_archivos, hilo, elementos>>
      PROVE  Inv'
  <2>1. menu' \in [Runs -> {"menu", "espera", "todo", "fin"}]  BY <1>2, <1>5
  <2>2. TypeOK'  BY <1>1, <1>2, <1>5, <2>1, RunTypes
  <2>3. menu'[r] = pc /\ \A q \in Runs \ {r} : menu'[q] = menu[q]  BY <1>2, <1>5
  <2>4. /\ hilo[r].en \in {"buscar", "registrar"} => hilo[r].nombre \in Nombres
        /\ hilo[r].en = "servidor" => hilo[r].nombre = SinNombre
        /\ hilo[r].en = "registrar" =>
               /\ Leido[hilo[r].nombre] # SinNombre /\ hilo[r].indice \in DelHost(r)
               /\ \A j \in DelHost(r) : hilo[r].indice <= j
    BY DEF Inv, HilosInv, HilosNombran, HilosEncontraron
  <2> QED  BY <1>5, <2>2, <2>3, <2>4, RunStep
<1>6. CASE ActualizarTodo(r)
  <2>1. Directorio[r] \cap Archivos \subseteq Archivos  OBVIOUS
  <2>2. todo' \in [Runs -> SUBSET Archivos]  BY <1>1, <1>6, <2>1 DEF ActualizarTodo
  <2> QED  BY <1>5, <1>6, <2>2 DEF ActualizarTodo
<1>7. CASE Siguiente(r)
  <2>1. menu[r] # "fin"  BY <1>7 DEF Siguiente
  <2>2. ASSUME NEW nombre \in todo[r], Pide(r, "buscar", nombre), todo' = [todo EXCEPT ![r] = @ \ {nombre}]
        PROVE  Inv'
    <3>1. nombre \in Nombres  BY <1>1 DEF Nombres
    <3>2. todo' \in [Runs -> SUBSET Archivos]  BY <1>1, <2>2
    <3> QED  BY <2>1, <2>2, <3>1, <3>2, PideInv
  <2>3. CASE /\ menu' = [menu EXCEPT ![r] = "menu"]
             /\ UNCHANGED <<tabla_servidores, tabla_archivos, todo, hilo, elementos>>
    BY <1>1, <1>5, <2>1, <2>3
  <2> QED  BY <1>7, <2>2, <2>3 DEF Siguiente
<1> QED  BY <1>3, <1>4, <1>6, <1>7

\* A run ends, and does not read its answer.
LEMMA SalirInv == ASSUME Inv, NEW r \in Runs, Salir(r) PROVE Inv'
<1>1. TypeOK /\ hilo \in [Runs -> Hilos] /\ menu \in [Runs -> {"menu", "espera", "todo", "fin"}]
    /\ todo \in [Runs -> SUBSET Archivos] /\ elementos \in [Runs -> SUBSET Archivos]
  BY Tipos DEF Inv
<1>2. /\ UNCHANGED <<tabla_servidores, tabla_archivos, elementos>>
      /\ menu' = [menu EXCEPT ![r] = "fin"] /\ todo' = [todo EXCEPT ![r] = {}]
      /\ hilo' = [hilo EXCEPT ![r] = IF hilo[r].en \in {"ok", "error"} THEN NoHilo ELSE hilo[r]]
  BY DEF Salir
<1>3. NoHilo \in Hilos /\ NoHilo.en = "no"  BY Limites DEF NoHilo, Hilos
<1>4. TypeOK'
  <2>1. hilo' \in [Runs -> Hilos]  BY <1>1, <1>2, <1>3
  <2>2. menu' \in [Runs -> {"menu", "espera", "todo", "fin"}] /\ todo' \in [Runs -> SUBSET Archivos]
    BY <1>1, <1>2
  <2> QED  BY <1>1, <1>2, <2>1, <2>2, RunTypes
<1>5. /\ menu'[r] = "fin" /\ hilo'[r].en \notin {"ok", "error"}
      /\ hilo'[r] = hilo[r] \/ hilo'[r].en = "no"
      /\ \A q \in Runs \ {r} : hilo'[q] = hilo[q] /\ menu'[q] = menu[q]
  BY <1>1, <1>2, <1>3
<1>6. /\ hilo[r].en \in {"buscar", "registrar"} => hilo[r].nombre \in Nombres
      /\ hilo[r].en = "servidor" => hilo[r].nombre = SinNombre
      /\ hilo[r].en = "registrar" =>
             /\ Leido[hilo[r].nombre] # SinNombre /\ hilo[r].indice \in DelHost(r)
             /\ \A j \in DelHost(r) : hilo[r].indice <= j
  BY DEF Inv, HilosInv, HilosNombran, HilosEncontraron
<1> QED  BY <1>2, <1>4, <1>5, <1>6, RunStep

\* A run gets its answer, and remembers the file.
LEMMA RecibeInv == ASSUME Inv, NEW r \in Runs, Recibe(r) PROVE Inv'
<1>1. TypeOK /\ hilo \in [Runs -> Hilos] /\ menu \in [Runs -> {"menu", "espera", "todo", "fin"}]
    /\ todo \in [Runs -> SUBSET Archivos] /\ elementos \in [Runs -> SUBSET Archivos]
  BY Tipos DEF Inv
<1>2. /\ hilo[r].en \in {"ok", "error"} /\ UNCHANGED <<tabla_servidores, tabla_archivos, todo>>
      /\ hilo' = [hilo EXCEPT ![r] = NoHilo]
  BY DEF Recibe
<1>3. PICK pc \in {"menu", "todo"} : menu' = [menu EXCEPT ![r] = pc]  BY DEF Recibe
<1>4. menu[r] # "fin"  BY <1>2 DEF Inv, HilosInv, SinRespuesta
<1>5. NoHilo \in Hilos /\ NoHilo.en = "no"  BY Limites DEF NoHilo, Hilos
<1>6. /\ elementos' \in [Runs -> SUBSET Archivos]
      /\ \A q \in Runs \ {r} : elementos'[q] = elementos[q]
      /\ elementos'[r] = IF hilo[r].en = "ok" /\ hilo[r].nombre \in Archivos
                         THEN elementos[r] \cup {hilo[r].nombre} ELSE elementos[r]
  BY <1>1 DEF Recibe
<1>7. TypeOK'
  <2>1. hilo' \in [Runs -> Hilos]  BY <1>1, <1>2, <1>5
  <2>2. menu' \in [Runs -> {"menu", "espera", "todo", "fin"}]  BY <1>1, <1>3
  <2> QED  BY <1>1, <1>2, <1>6, <2>1, <2>2, RunTypes
<1>8. /\ hilo'[r].en = "no" /\ menu'[r] = pc
      /\ \A q \in Runs \ {r} : hilo'[q] = hilo[q] /\ menu'[q] = menu[q]
  BY <1>1, <1>2, <1>3, <1>5
<1> QED  BY <1>2, <1>4, <1>6, <1>7, <1>8, RunStep

-----------------------------------------------------------------------------
\* A thread answers.
LEMMA Respondido ==
    ASSUME Inv, NEW r \in Runs, NEW en \in {"ok", "error"}, Responde(r, en)
    PROVE  /\ hilo' \in [Runs -> Hilos]
           /\ \A q \in Runs \ {r} : hilo'[q] = hilo[q]
           /\ menu[r] = "fin" => hilo'[r].en = "no"
           /\ menu[r] # "fin" => hilo'[r].en = en /\ hilo'[r].nombre = hilo[r].nombre
<1>1. hilo \in [Runs -> Hilos]  BY Tipos DEF Inv
<1>2. NoHilo \in Hilos /\ NoHilo.en = "no"  BY Limites DEF NoHilo, Hilos
<1> DEFINE h == [hilo[r] EXCEPT !.en = en, !.indice = 0]
<1>3. hilo[r] \in Hilos /\ 0 \in 0..MaxServers  BY <1>1, Limites
<1>4. h \in Hilos /\ h.en = en /\ h.nombre = hilo[r].nombre  BY <1>3 DEF Hilos
<1> HIDE DEF h
<1>5. hilo' = [hilo EXCEPT ![r] = IF menu[r] = "fin" THEN NoHilo ELSE h]  BY DEF Responde, h
<1> QED  BY <1>1, <1>2, <1>4, <1>5

\* An answer for which no table has changed.
LEMMA RespondeInv ==
    ASSUME Inv, NEW r \in Runs, NEW en \in {"ok", "error"}, Responde(r, en),
           UNCHANGED <<tabla_servidores, tabla_archivos, menu, todo, elementos>>,
           en = "ok" => hilo[r].nombre \notin Archivos, hilo[r].en # "ok"
    PROVE  Inv'
<1>1. TypeOK'  BY Respondido, Tipos, RunTypes DEF Inv
<1>2. \/ menu[r] = "fin" /\ hilo'[r].en = "no"
      \/ menu[r] # "fin" /\ hilo'[r].en = en /\ hilo'[r].nombre = hilo[r].nombre
  BY Respondido
<1>3. \A q \in Runs \ {r} : hilo'[q] = hilo[q]  BY Respondido
<1> QED  BY <1>1, <1>2, <1>3, RunStep

\* A server that is added is the last of its host.
LEMMA ServidorNuevo ==
    ASSUME TypeOK, NEW r \in Runs, tabla_servidores' = Append(tabla_servidores, argv[r])
    PROVE  \A q \in Runs :
             /\ DelHost(q) \subseteq DelHost(q)' /\ DelHost(q) \subseteq 1..Len(tabla_servidores)
             /\ \A j \in DelHost(q)' : j \in DelHost(q) \/ j = Len(tabla_servidores) + 1
<1>1. argv[r] \in Direcciones /\ tabla_servidores \in Seq(Direcciones)  BY Tipos DEF Direcciones
<1>2. /\ Len(tabla_servidores) \in Nat /\ DOMAIN tabla_servidores = 1..Len(tabla_servidores)
      /\ DOMAIN tabla_servidores' = 1..(Len(tabla_servidores) + 1)
      /\ \A i \in DOMAIN tabla_servidores : tabla_servidores'[i] = tabla_servidores[i]
  BY <1>1, AppendProperties, LenProperties
<1> QED  BY <1>2 DEF DelHost

\* registrar_servidor.
LEMMA RegistrarServidorInv == ASSUME Inv, NEW r \in Runs, RegistrarServidor(r) PROVE Inv'
<1>1. hilo[r].en = "servidor" /\ UNCHANGED <<tabla_archivos, menu, todo, elementos>>
  BY DEF RegistrarServidor
<1>2. hilo[r].nombre \notin Archivos
  BY <1>1, Limites DEF Inv, HilosInv, HilosNombran, Nombres
<1>3. ASSUME NEW en \in {"ok", "error"}, Responde(r, en), UNCHANGED tabla_servidores PROVE Inv'
  BY <1>1, <1>2, <1>3, RespondeInv
<1>4. CASE /\ \A i \in DOMAIN tabla_servidores : tabla_servidores[i] # argv[r]
           /\ Len(tabla_servidores) < MaxServers
           /\ tabla_servidores' = Append(tabla_servidores, argv[r])
           /\ Responde(r, "ok")
  <2> DEFINE n == Len(tabla_servidores)
  <2>1. argv[r] \in Direcciones /\ tabla_servidores \in Seq(Direcciones)
    BY Tipos DEF Inv, Direcciones
  <2>2. /\ n \in Nat /\ DOMAIN tabla_servidores = 1..n /\ DOMAIN tabla_servidores' = 1..(n + 1)
        /\ Len(tabla_servidores') = n + 1 /\ tabla_servidores' \in Seq(Direcciones)
        /\ tabla_servidores'[n + 1] = argv[r]
        /\ \A i \in 1..n : tabla_servidores'[i] = tabla_servidores[i]
    BY <1>4, <2>1, AppendProperties, LenProperties
  <2>3. Len(tabla_servidores') <= MaxServers  BY <1>4, <2>2, Limites
  <2>4. hilo' \in [Runs -> Hilos]  BY <1>4, Respondido
  <2>5. TypeOK'  BY <1>1, <2>2, <2>3, <2>4 DEF Inv, TypeOK, Hilos
  <2>6. \A q \in Runs :
          /\ DelHost(q) \subseteq DelHost(q)' /\ DelHost(q) \subseteq 1..n
          /\ \A j \in DelHost(q)' : j \in DelHost(q) \/ j = n + 1
    BY <1>4, ServidorNuevo DEF Inv
  <2>7. \A q \in Runs : \A i \in DelHost(q) :
          (\A j \in DelHost(q) : i <= j) => i \in DelHost(q)' /\ \A j \in DelHost(q)' : i <= j
    BY <2>2, <2>6
  <2>8. OneEntryEach'
    <3>1. \A i, j \in 1..(n + 1) : tabla_servidores'[i] = tabla_servidores'[j] => i = j
      BY <1>4, <2>2 DEF Inv, TablasInv, OneEntryEach
    <3> QED  BY <1>1, <2>2, <3>1 DEF Inv, TablasInv, OneEntryEach
  <2>9. EntryNamesFirstServerOfHost'
    <3>1. \A i \in DOMAIN tabla_archivos : tabla_archivos[i].por \in Runs
      BY EntradasTipos DEF Inv, Entradas
    <3>2. ASSUME NEW i \in DOMAIN tabla_archivos, NEW q \in Runs, q = tabla_archivos[i].por,
                 NEW k, k = tabla_archivos[i].indice_servidor
          PROVE  k \in DelHost(q)' /\ \A j \in DelHost(q)' : k <= j
      <4>1. k \in DelHost(q) /\ \A j \in DelHost(q) : k <= j
        BY <3>2 DEF Inv, TablasInv, EntryNamesFirstServerOfHost
      <4> QED  BY <2>7, <4>1
    <3> QED  BY <1>1, <3>1, <3>2 DEF EntryNamesFirstServerOfHost, DelHost
  <2>10. /\ \A q \in Runs \ {r} : hilo'[q] = hilo[q]
         /\ \/ menu[r] = "fin" /\ hilo'[r].en = "no"
            \/ menu[r] # "fin" /\ hilo'[r].en = "ok" /\ hilo'[r].nombre = hilo[r].nombre
    BY <1>4, Respondido
  <2>11. HilosEncontraron'
    BY <2>7, <2>10 DEF Inv, HilosInv, HilosEncontraron
  <2>12. HilosNombran' /\ HilosConfirman' /\ SinRespuesta' /\ ServersAgreeWithTable'
    BY <1>1, <1>2, <2>10, RunAgrees
  <2> QED  BY <2>5, <2>8, <2>9, <2>11, <2>12 DEF Inv, HilosInv, TablasInv
<1> QED  BY <1>3, <1>4 DEF RegistrarServidor

\* The first critical section of a registration.
LEMMA BuscarInv == ASSUME Inv, NEW r \in Runs, Buscar(r) PROVE Inv'
<1>1. hilo[r].en = "buscar" /\ UNCHANGED <<tabla_servidores, tabla_archivos, menu, todo, elementos>>
  BY DEF Buscar
<1>2. CASE Nombre(r) = SinNombre \/ DelHost(r) = {}
  BY <1>1, <1>2, RespondeInv DEF Buscar
<1>3. CASE Nombre(r) # SinNombre /\ DelHost(r) # {}
  <2> DEFINE k == Primero(DelHost(r))
             h == [hilo[r] EXCEPT !.en = "registrar", !.indice = k]
  <2>1. DelHost(r) \subseteq 1..Len(tabla_servidores) /\ Len(tabla_servidores) \in 0..MaxServers
    BY Tablas DEF Inv, DelHost
  <2>2. k \in DelHost(r) /\ \A j \in DelHost(r) : k <= j
    BY <1>3, <2>1, FirstOne
  <2>3. k \in 0..MaxServers  BY <2>1, <2>2, Limites
  <2> HIDE DEF k
  <2>4. hilo \in [Runs -> Hilos] /\ TypeOK  BY Tipos DEF Inv
  <2>5. h \in Hilos /\ h.en = "registrar" /\ h.indice = k /\ h.nombre = hilo[r].nombre
    BY <2>3, <2>4 DEF Hilos
  <2>6. hilo' = [hilo EXCEPT ![r] = h]  BY <1>3 DEF Buscar, k
  <2> HIDE DEF h
  <2>7. hilo' \in [Runs -> Hilos] /\ hilo'[r] = h /\ \A q \in Runs \ {r} : hilo'[q] = hilo[q]
    BY <2>4, <2>5, <2>6
  <2>8. TypeOK'  BY <1>1, <2>4, <2>7, Tipos, RunTypes
  <2>9. hilo[r].nombre \in Nombres /\ Leido[hilo[r].nombre] # SinNombre
    BY <1>1, <1>3 DEF Inv, HilosInv, HilosNombran, Nombre
  <2>10. hilo'[r].en = "registrar" /\ hilo'[r].indice = k /\ hilo'[r].nombre \in Nombres
         /\ Leido[hilo'[r].nombre] # SinNombre
    BY <2>5, <2>7, <2>9
  <2> QED  BY <1>1, <2>2, <2>7, <2>8, <2>10, RunStep
<1> QED  BY <1>2, <1>3

\* The second one: a name is added that is not there yet.
LEMMA RegistrarInv == ASSUME Inv, NEW r \in Runs, Registrar(r) PROVE Inv'
<1>1. hilo[r].en = "registrar" /\ UNCHANGED <<tabla_servidores, menu, todo, elementos>>
  BY DEF Registrar
<1>2. CASE Responde(r, "error") /\ UNCHANGED tabla_archivos
  BY <1>1, <1>2, RespondeInv
<1>3. CASE /\ ~Registrado(Nombre(r)) /\ HayLugar
           /\ tabla_archivos' = Append(tabla_archivos, Entrada(r)) /\ Responde(r, "ok")
  <2> DEFINE n == Len(tabla_archivos)
             de == hilo[r].nombre
             nombre == Leido[de]
             k == hilo[r].indice
  <2>1. k \in DelHost(r) /\ (\A j \in DelHost(r) : k <= j) /\ de \in Nombres /\ nombre \in Palabras
    BY <1>1 DEF Inv, HilosInv, HilosEncontraron, HilosNombran, Palabras
  <2>2. k \in 1..MaxServers
    <3>1. DelHost(r) \subseteq 1..Len(tabla_servidores) /\ Len(tabla_servidores) \in 0..MaxServers
      BY Tablas DEF Inv, DelHost
    <3> QED  BY <2>1, <3>1, Limites
  <2>3. Entrada(r) = [nombre |-> nombre, indice_servidor |-> k, por |-> r, de |-> de]
    BY DEF Entrada, Nombre
  <2> HIDE DEF nombre, k, de
  <2>4. Entrada(r) \in Entradas  BY <2>1, <2>2, <2>3 DEF Entradas
  <2>5. tabla_archivos \in Seq(Entradas)  BY Tipos DEF Inv
  <2>6. /\ n \in Nat /\ DOMAIN tabla_archivos = 1..n /\ DOMAIN tabla_archivos' = 1..(n + 1)
        /\ Len(tabla_archivos') = n + 1 /\ tabla_archivos' \in Seq(Entradas)
        /\ tabla_archivos'[n + 1] = Entrada(r)
        /\ \A i \in 1..n : tabla_archivos'[i] = tabla_archivos[i]
    BY <1>3, <2>4, <2>5, AppendProperties, LenProperties
  <2>7. /\ tabla_archivos'[n + 1].nombre = nombre /\ tabla_archivos'[n + 1].por = r
        /\ tabla_archivos'[n + 1].indice_servidor = k /\ tabla_archivos'[n + 1].de = de
    BY <2>3, <2>6
  <2>8. TypeOK'
    <3>1. Len(tabla_archivos') <= MaxFiles  BY <1>3, <2>6, Limites DEF HayLugar
    <3>2. hilo' \in [Runs -> Hilos]  BY <1>3, Respondido
    <3> QED  BY <1>1, <2>6, <3>1, <3>2 DEF Inv, TypeOK, Hilos, Entradas
  <2>9. OneEntryEach'
    <3>1. \A i \in 1..n : tabla_archivos[i].nombre # nombre
      BY <1>3, <2>6 DEF Registrado, Nombre, nombre, de
    <3>2. \A i, j \in 1..(n + 1) : tabla_archivos'[i].nombre = tabla_archivos'[j].nombre => i = j
      BY <2>6, <2>7, <3>1 DEF Inv, TablasInv, OneEntryEach
    <3> QED  BY <1>1, <2>6, <3>2 DEF Inv, TablasInv, OneEntryEach
  <2>10. \A q \in Runs : DelHost(q)' = DelHost(q)  BY <1>1 DEF DelHost
  <2>11. EntryNamesFirstServerOfHost'
    <3> SUFFICES ASSUME NEW i \in 1..(n + 1), NEW q, q = tabla_archivos'[i].por,
                        NEW m, m = tabla_archivos'[i].indice_servidor
                 PROVE  m \in DelHost(q) /\ \A j \in DelHost(q) : m <= j
      BY <1>1, <2>6 DEF EntryNamesFirstServerOfHost, DelHost
    <3>1. CASE i = n + 1  BY <2>1, <2>7, <3>1
    <3>2. CASE i \in 1..n
      BY <2>6, <3>2 DEF Inv, TablasInv, EntryNamesFirstServerOfHost
    <3> QED  BY <2>6, <3>1, <3>2
  <2>12. /\ \A q \in Runs \ {r} : hilo'[q] = hilo[q]
         /\ \/ menu[r] = "fin" /\ hilo'[r].en = "no"
            \/ menu[r] # "fin" /\ hilo'[r].en = "ok" /\ hilo'[r].nombre = de
    BY <1>3, Respondido DEF de
  <2>13. HilosNombran' /\ SinRespuesta'
    BY <1>1, <2>12 DEF Inv, HilosInv, HilosNombran, SinRespuesta
  <2>14. HilosEncontraron'
    BY <2>10, <2>12 DEF Inv, HilosInv, HilosEncontraron
  <2>15. ASSUME NEW q \in Runs, NEW a \in Archivos,
                \E i \in 1..n : /\ tabla_archivos[i].nombre = Leido[a] /\ tabla_archivos[i].por = q
                                /\ tabla_archivos[i].de = a
         PROVE  \E i \in 1..(n + 1) : /\ tabla_archivos'[i].nombre = Leido[a]
                                      /\ tabla_archivos'[i].por = q /\ tabla_archivos'[i].de = a
    <3>1. PICK i \in 1..n : /\ tabla_archivos[i].nombre = Leido[a] /\ tabla_archivos[i].por = q
                            /\ tabla_archivos[i].de = a
      BY <2>15
    <3>2. i \in 1..(n + 1) /\ tabla_archivos'[i] = tabla_archivos[i]  BY <2>6
    <3> QED  BY <3>1, <3>2
  <2>16. HilosConfirman'
    <3> SUFFICES ASSUME NEW q \in Runs, hilo'[q].en = "ok", hilo'[q].nombre \in Archivos
                 PROVE  \E i \in 1..(n + 1) :
                          /\ tabla_archivos'[i].nombre = Leido[hilo'[q].nombre]
                          /\ tabla_archivos'[i].por = q /\ tabla_archivos'[i].de = hilo'[q].nombre
      BY <2>6 DEF HilosConfirman
    <3>1. CASE q = r
      <4>1. hilo'[q].nombre = de /\ nombre = Leido[de]  BY <2>12, <3>1 DEF nombre
      <4>2. n + 1 \in 1..(n + 1)  BY <2>6
      <4> QED  BY <2>7, <3>1, <4>1, <4>2
    <3>2. CASE q # r
      <4>1. hilo'[q] = hilo[q]  BY <2>12, <3>2
      <4>2. \E i \in 1..n : /\ tabla_archivos[i].nombre = Leido[hilo[q].nombre]
                            /\ tabla_archivos[i].por = q /\ tabla_archivos[i].de = hilo[q].nombre
        BY <2>6, <4>1 DEF Inv, HilosInv, HilosConfirman
      <4> QED  BY <2>15, <4>1, <4>2
    <3> QED  BY <3>1, <3>2
  <2>17. ServersAgreeWithTable'
    <3>1. ASSUME NEW q \in Runs, NEW a \in Archivos, a \in elementos'[q]
          PROVE  \E i \in DOMAIN tabla_archivos' :
                    /\ tabla_archivos'[i].nombre = Leido[a]
                    /\ tabla_archivos'[i].por = q /\ tabla_archivos'[i].de = a
      <4>1. \E i \in 1..n : /\ tabla_archivos[i].nombre = Leido[a]
                            /\ tabla_archivos[i].por = q /\ tabla_archivos[i].de = a
        BY <1>1, <2>6, <3>1 DEF Inv, ServersAgreeWithTable
      <4> QED  BY <2>6, <2>15, <4>1
    <3>2. ASSUME NEW i \in 1..(n + 1), NEW q, q = tabla_archivos'[i].por,
                 NEW a, a = tabla_archivos'[i].de
          PROVE  \/ a \in elementos[q] \cup Carpetas \/ menu[q] = "fin"
                 \/ hilo'[q].en = "ok" /\ hilo'[q].nombre = a
      <4>1. CASE i = n + 1  BY <2>7, <2>12, <3>2, <4>1
      <4>2. CASE i \in 1..n
        <5>1. q = tabla_archivos[i].por /\ a = tabla_archivos[i].de /\ i \in DOMAIN tabla_archivos
          BY <2>6, <3>2, <4>2
        <5>2. q \in Runs  BY <5>1, EntradasTipos DEF Inv, Entradas
        <5>3. \/ a \in elementos[q] \cup Carpetas \/ menu[q] = "fin"
              \/ hilo[q].en = "ok" /\ hilo[q].nombre = a
          BY <5>1 DEF Inv, ServersAgreeWithTable
        <5> QED  BY <1>1, <2>12, <5>2, <5>3
      <4> QED  BY <2>6, <4>1, <4>2
    <3> QED  BY <1>1, <2>6, <3>1, <3>2 DEF ServersAgreeWithTable
  <2> QED  BY <2>8, <2>9, <2>11, <2>13, <2>14, <2>16, <2>17 DEF Inv, HilosInv, TablasInv
<1> QED  BY <1>2, <1>3 DEF Registrar

\* Every step keeps Inv.
LEMMA NextInv == Inv /\ [Next]_vars => Inv'
<1> SUFFICES ASSUME Inv, [Next]_vars PROVE Inv'  OBVIOUS
<1>1. ASSUME NEW r \in Runs, Habilitar(r) \/ ActualizarTodo(r) \/ Siguiente(r) PROVE Inv'
  BY <1>1, MenuInv
<1>2. ASSUME NEW r \in Runs, \E nombre \in Nombres : Subir(r, nombre) PROVE Inv'
  BY <1>2, MenuInv
<1>3. ASSUME NEW r \in Runs, Salir(r) PROVE Inv'  BY <1>3, SalirInv
<1>4. ASSUME NEW r \in Runs, Recibe(r) PROVE Inv'  BY <1>4, RecibeInv
<1>5. ASSUME NEW r \in Runs, RegistrarServidor(r) PROVE Inv'  BY <1>5, RegistrarServidorInv
<1>6. ASSUME NEW r \in Runs, Buscar(r) PROVE Inv'  BY <1>6, BuscarInv
<1>7. ASSUME NEW r \in Runs, Registrar(r) PROVE Inv'  BY <1>7, RegistrarInv
<1>8. CASE UNCHANGED vars
  BY <1>8 DEF vars, Inv, TypeOK, HilosInv, HilosNombran, HilosEncontraron, HilosConfirman,
     SinRespuesta, TablasInv, OneEntryEach, EntryNamesFirstServerOfHost, ServersAgreeWithTable, DelHost
<1> QED  BY <1>1, <1>2, <1>3, <1>4, <1>5, <1>6, <1>7, <1>8 DEF Next

-----------------------------------------------------------------------------
(***************************************************************************)
(* The tables keep within MAX_SERVERS and MAX_FILES, and the variables     *)
(* within their types, however many threads register at the same time.     *)
(***************************************************************************)
THEOREM TypeCorrect == Spec => []TypeOK
<1>1. Inv => TypeOK  BY DEF Inv
<1> QED  BY InitInv, NextInv, <1>1, PTL DEF Spec

(***************************************************************************)
(* A name and a server are registered once.                                *)
(***************************************************************************)
THEOREM NothingTwice == Spec => []OneEntryEach
<1>1. Inv => OneEntryEach  BY DEF Inv, TablasInv
<1> QED  BY InitInv, NextInv, <1>1, PTL DEF Spec

(***************************************************************************)
(* An entry names the first server of the host it was registered from,     *)
(* although it was looked for in another critical section: tabla_servidores*)
(* grows at its end only.                                                  *)
(***************************************************************************)
THEOREM FirstServerOfHost == Spec => []EntryNamesFirstServerOfHost
<1>1. Inv => EntryNamesFirstServerOfHost  BY DEF Inv, TablasInv
<1> QED  BY InitInv, NextInv, <1>1, PTL DEF Spec

(***************************************************************************)
(* elementos_registrados of a live server and the table say the same, up   *)
(* to what "%s" cuts off and except for an answer that is under way, and   *)
(* two files whose names begin with the same word are never both           *)
(* registered.                                                             *)
(***************************************************************************)
THEOREM ListsAgree == Spec => []ServersAgreeWithTable
<1>1. Inv => ServersAgreeWithTable  BY DEF Inv
<1> QED  BY InitInv, NextInv, <1>1, PTL DEF Spec
=============================================================================
