# A TLA+ development of the distributed-systems exercises

The repository is a course on distributed operating systems in C: a series of
client/server programs over TCP, each of them a small distributed system. This
directory holds TLA+ modules that model the ones with real distributed state, the
TLC configurations that check them on small instances, and TLAPS proofs for every
size. `PROJECT.json` maps every definition to the lines it models and lists runs,
mutants, hazards, findings and theorems.

## 1. Inventory

| part | state | operations | hard behaviour | correct means |
|---|---|---|---|---|
| **Page server**, `tp8-…/newServer.c`, `communication.c` | page table (lock, queue of descriptors, mutex per page), shared memory segment, one detached thread per connection | accept, read a page, read with lock (wait in the queue by polling), write, close; restart on the old segment | threads and mutexes, descriptors used again by later connections, lost clients, `malloc` failures, limits of `MAX_MSG` | one owner per page, turns in the order of the queue, no lost update, every turn comes |
| **Page client**, `tp8-…/client.c` | its connection, the text on the screen | read; lock, wait, edit, write | two replies in one `recv` | every run ends |
| **File DNS**, `sistema-archivos-distribuidos/servidor_dns_nuevo.c` | `tablaElementos`: name, server, type, lock | register, request (takes the lock for ESCRIBIR), unlock | one thread per connection; locks given to one process and returned by another | one writer per file, names stay with their server, locks return |
| **File server**, `…/servidor_archivos_nuevo.c` | `elementos_registrados` in the menu's process, a copy of it in the forked daemon; the files | habilitar, actualizar_todo, subir_*, salir; serve and update | fork copies state that gets stale; command and file on the same stream; a client that goes away kills the daemon (SIGPIPE) with all its threads | an accepted update is whole, follows the one before and unlocks |
| **File client**, `…/cliente_nuevo.c` | its copy | LEER, ESCRIBIR | killed between the steps; half a download is not noticed | a run ends, or leaves its lock behind and nothing worse |
| **Lamport clocks**, `tp5-…/proceso.c` | `logical_clock` under a mutex | tick, connect/stamp/send, receive | three threads; stamp taken before the send; connections served one after the other | the clock condition; messages arrive |
| **Berkeley**, `tp6-…/daemon.c`, `client.c` | table of clients, clocks | accept, a round of requests and corrections, shutdown | time limits and late answers, clients that go away, time that passes in a round, whole seconds read from clocks that keep their fractions, `settimeofday` that fails | clocks come together up to the truncation, answers are of this round, shutdown ends |
| Lamport, manual version, `tp5-…/proceso_reloj_manual.c` | the clock | one thread, no ticks | – | as above |
| **Cristian**, `tp-cristian/daemon.c`, `client.c` | daemon: `MAX_CLIENTS` slots with a descriptor and `active`, one thread per slot; client: its connection and its clock | accept or refuse, request and answer, correct the clock; signals and shutdown on both sides | slots and descriptor numbers used again while threads still hold pointers to slots; `recv` without a limit; a clock that is set during an exchange; three truncations | threads keep their connections, slots do not leak, the error is within the algorithm's bound, nobody waits for ever, everybody ends |
| **File system, first version**: `…/dns.c`, `file_server.c` | two tables under two mutexes; each server's `elementos_registrados` | registration of servers, files and folders (nothing is served yet) | one table read under the mutex of the other; servers end before their answer; names are cut at a blank | one entry per name and server, of the right host, and the servers know of their entries |
| **File system of tp7**, `tp7-…/` | the name server's `fileTable` with locks, the file server's `registered_files` and files, the client's `client_edit.txt` | register, request (locks for WRITE), unlock; get, edit, put | one connection at a time; restarts of the file server while files are locked, SIGPIPE, `bind` that fails unnoticed, name and text in one `recv` | one writer per file, an update replaces what its writer read, runs end, stored updates unlock |
| Telnet servers, `tp1-…` | stdout of the process | run a command, send its output | stdout redirected by several threads | an answer has the output of its own command |
| Address server, `tp3-…` | none | a lookup by RPC (generated by rpcgen) | – | – |
| Process migration, `tp4-…` | a file with the program | receive, compile, run | the program received with a single `read` | the program that runs is the one sent |
| Chat servers, `sockets-hilos`, `sockets-modular` | descriptor of the connection | accept, hand over to a thread | descriptor handed over in a shared variable | a connection is served by one thread |
| `sockets`, `sockets-practica`, `tp2-apache`, binaries in `dfs/` | none | one connection | – | – |

The programs of one part talk to each other over TCP only; the parts do not talk to
each other. Within a process, threads share the state named in the table under the
mutexes of the code; the file server's menu and its daemon share only the file system.

## 2. Plan

Done so far, in this order: the page server with its clients (`Dsm` and below), the
file system (`FileSystem` and below), Lamport's clocks, Berkeley's algorithm, Cristian's
algorithm, the file system of tp7 and the first version of the file system; then the proofs:
`DsmProofs`, `LamportProofs`, `Tp7Proofs`, `FirstDnsProofs`, `CristianProofs`,
`FileSystemProofs`, `BerkeleyProofs` and `DsmEditProofs`. Every invariant and every action
property that a passing run checks now has a theorem, and so has the refinement.

Next, theorems: nothing that a run checks and the prover can reach is left; what remains is
to look for weaker hypotheses (`QueueOrder` excludes every interrupt, also those of clients that
only read).

Next, modelling: `elementos_registrados` of the nuevo version as an array (`MAX_FILES` is
not checked when a name is registered again), and a DNS that does not answer. Section 6
says what is not planned and why.

## 3. Modules and code

### Distributed shared memory

`DsmWire` has the connections and `communication.c`: what a `recv` can return, when
`send_command` refuses a message (`Fits`: shorter than `MAX_MSG`), what closing does.
A text is an identity and a length; a page that is read in the middle of `memset` and
`memcpy` is "torn".

`PageServer` is `newServer.c`. `lock`, `queue`, `writer` and `mem` are the page table
and the segment; `tpc`, `fd`, `tpage`, `tnew` are the locals of a thread. A critical
section of `page_mutex` is one step, except `write_page`, which is `WriteBegin` and
`WriteEnd` because `read_page` looks at the page without the mutex. The queue holds
descriptor *numbers*, as in the code: a lost client's number stays behind and `Accept`
gives the lowest free number to the next connection. `CrashRestart` builds a new page
table over the old segment, as `main` does with a segment that exists.

`PageClient` is `client.c` with its user. `Dsm` composes them and states the
properties; `EditedPages` is the abstract specification: a page has a text and at most
one editor, and only the editor replaces the text, once. `Dsm` maps a page to it as if
a write happened when `write_page` passed its check.

Faults are chosen per run: `disconnect` (the user interrupts the program), `coalesce`
(two replies in one `recv`), `malloc`, `crash`.

### Distributed file system

`FileDns` has the table of names and the bodies of the three requests, each a critical
section of `mutex_tabla`. `FileServer` has the menu's process, which registers one name
per connection (so that clients come in between), the fork and the daemon's threads;
`FileClient` has the steps of `solicitar_elemento`; `FileSystem` composes them.

Faults: `kill` (the client program), `sigpipe`, `glue` (the command and the start of the file in
one `recv`), `nofork`, and `overflow`: `comando[8]` and `comando[16]` are too short for
`ESCRIBIR` and the daemon's commands, so the byte behind them is overwritten; the model
has both outcomes, the harmless one and the one in which the name is lost.

A client that is killed while the daemon sends to it, or that gives up because it has the
folder already (`cliente_nuevo.c:55`), leaves the daemon sending into a closed connection
(`SinReceptor`): all has been sent before the kernel notices, or, with `sigpipe`, the next
`send` kills the daemon. `MuereDaemon` takes all its threads, closes their connections and
leaves the files that were being written cut off; the lock of a writer stays in the DNS. The
other downloads end with `"half"` of a file, which the client does not notice, and
`habilitar` can fork another daemon that serves the same names.

`Tp7Files` is the ancestor, `tp7`: a name server and a file server that serve one
connection after the other, and one file server in all, since its address is a constant
of the code. A text is the number of updates it consists of, `Half` (cut off) or `Empty`;
`BeginGet`/`EndGet` and `BeginPut`/`EndPut` are the two ends of a transfer, between which a
client may be killed. A connection is served even when its client is gone, so `cpc` outlives
`alive`. Faults: `kill` (a client), `crash` (the file server, which may be started
again), `sigpipe` (the file server dies because it sends to a client that is gone), `busy`
(`bind` fails, is not checked, and `listen` takes another port: the server is deaf) and
`glue` (the name of the file arrives together with the first line).

`FirstDns` is the first version: `RegistrarServidor`, `Buscar` and `Registrar` are the
critical sections of the name server's threads, `Habilitar`, `Subir`, `ActualizarTodo`,
`Siguiente`, `Salir` and `Recibe` the menu of `file_server.c`. A run may end while its
thread works. `por` is a history variable: the run that registered an entry. `disponible`
and `lock` are never changed by the code and are left out. The server of a name is found by
the host of the connection,
so an entry names the first server enabled on that host, which need not be the one that has
the file (a comment, `dns.c:28`, calls it "servidor que lo contiene").

A file has the name of its directory entry, blanks included, for the server, and the first
word of it for the DNS, which reads it with `%s`. `Leido` is that cut, a constant function, so
that the theorems hold for any; it gives `SinNombre` for a name of blanks, of which `sscanf` reads
nothing (the answer is FORMATO_INCORRECTO). `subir_archivo` reads its argument with `%s` itself, so names with blanks come
from `actualizar_todo` only. An entry keeps in `de`, for the properties, the file it was
registered for.

### Cristian

`Cristian` has the daemon's `main` (`Accept`, `CloseSlot`, `Join`, `Exit`), its handler
(`Stop`), its threads (`Enter` … `CleanUp`, `Cancel`), and the client (`Start` … `End`).
A thread gets a *pointer* to a slot and reads its descriptor there each time, so `fds` says
which connection a descriptor number stands for at the moment. `close` and `active = 0` are
two steps. `close` from another thread does not interrupt `recv`; cancellation does.

The clients do not share clocks, so the model has the clock of one of them, `Observed`.
Both clocks are counted from the full second in which the exchange began; `Second` is the
number of units in a second. `exch` has T1 and the adjusted time, and as history the true
times of T1 and T2 (`since`, `at`) and whether nobody has set the clock in between
(`clean`). Faults: `date` (the user sets the clock in an exchange), `quit`, `stop`,
`nothread` (`pthread_create` fails), `settime` (`settimeofday` fails).

### Lamport and Berkeley

`Lamport` is `proceso.c`: `Tick`, `Connect`, `Stamp`, `Send` and `Receive` are the
critical sections and system calls of its threads. `past` is a history variable: the
last stamp of every process in the causal past, carried by the messages.

`Berkeley` is the daemon's `sync_thread` and `main` and the client's handler. All clocks
run equally fast, so a clock is its offset from `now`, which `Tick` advances, in units of
which `Second` make a second. `Reading` is `getTimeSec`: the whole seconds. `Set` is what
`modificar_tiempo_servidor` and `corregir_tiempo` do: seconds from the average, and the fraction
the clock had. With the fault `settime`, `gettimeofday` or `settimeofday` fails and the clock is
left alone; `unset` remembers who. A time that is read and not yet used gets older while `now`
goes on. The history variables for this are `age`, the time since the last average while somebody
has still to set it, and `slowest`: where the slowest clock of all would be, had it lost its
fraction at every average and stood still while times were under way. `link` has what TCP does with a client that is gone:
data for a closed socket is answered with a reset, the send after that raises SIGPIPE,
which the daemon does not ignore.

## 4. Runs

| run | shows |
|---|---|
| dsm_clients | three readers and writers that may vanish at any time: one owner per page, a locked page has a queue, nobody edits a half-written text (although readers can see one), `EditedPages` is implemented |
| dsm_failures | two pages, restarts, `malloc` failures: an unlocked page has no queue, no update is lost, every stored text fits a grant (texts at the limit: 507 bytes fit, 511 do not) |
| dsm_fair | without faults: turns in order, every turn comes, every run ends |
| dsm_overtaking | *fails*: a descriptor number used again overtakes the queue |
| files_writers | two jobs, two servers with a file of the same name, a table with room for one, killed programs, a daemon that dies of SIGPIPE and is forked again, streams read at the wrong places, all commands of the menu: one writer at a time, updates build on each other, a name stays with its server, and an update that arrived unlocks, even when its client is killed, unless the daemon dies |
| files_late | *fails*: the lock of a file that was registered after the fork is never given back |
| lamport_messages | messages to others and to oneself, restarts, a full backlog: the clock condition; serving one connection at a time blocks nobody for ever |
| berkeley_rounds | late answers, lost clients, time that passes in a round, clocks half a second apart, failures to set them: the clocks' range and agreement, an answer belongs to its round, who answers is corrected, the daemon ends after a signal |
| berkeley_sigpipe | *fails*: a client that ends at the wrong moment kills the daemon |
| cristian_clients | two clients for one slot under every fault: threads stay on their connections, slots do not leak, corrections are within the bound, a client gets an answer or the end of its connection, after a signal everybody ends |
| tp7_restarts | three clients, two files, the file server killed and started again: one writer, updates replace what was read, every run ends, stored updates unlock |
| first_registration | three servers on two hosts, tables with too little room, names with blanks: one entry each, of the first server of its host, and the servers' lists agree with the table up to what is cut off |

The three failing runs are findings, each with the line it contradicts. These
properties also fail, for reasons that lie in the code, in environments that the listed
runs do not have:

- `TurnComes` with `coalesce`: the wait notice and the grant reach the client in one
  `recv`, and the grant is lost with the notice;
- `TurnComes` with `disconnect`: an owner that goes away before its write leaves the page
  locked and its number at the head, and those behind it wait for ever;
- `ArrivedUpdateUnlocks` without its second alternative: a daemon that dies of SIGPIPE while it
  stores an update leaves the file cut off and the lock taken for good;
- `UpdatesBuildOnEachOther` without its exception: a writer whose download was cut off by the
  daemon's death sends its half of the file to the next daemon, which takes it;
- `ServersAgreeWithTable` with equal names instead of `Leido`: for a file `a b` the table has `a`;
- in tp7, that every lock is given back: a writer that is killed, or comes before the
  server listens, leaves its lock for good, and its file is not served after a restart;
- `ReachableServerUnlocks` with a request to write a folder (the DNS locks it, the client
  gives up), or with `glue` (the update is not recognised); and a writer that asks between
  the registration and the fork finds no daemon and leaves its lock behind.

In `berkeley_rounds` a client that is late once leaves the table for good, although its
connection stays open and it goes on waiting: that is why `AcceptedClientsAreCorrected`
has its second alternative.

### Bounds

- Sessions, jobs, clients, processes: two or three. Two are enough for a conflict; the
  third stands behind another in a queue, or takes a number or slot that became free.
- `MaxQueue`: no program is started while a queue is longer. Lost clients let queues grow
  without limit; with one leftover and two live entries all cases of `AtHead` occur.
- `MaxMsg` is the real 512; the texts have 5, 507 and 511 bytes, on both sides of the
  limit. `PageSize` is below one of them in `dsm_clients`
  (it is cut when it is stored) and above all of them in the other runs.
- `MaxFiles` is 1 in `files_writers`, where two servers have three files with two names
  between them, so that a name can be lost to the full table or to the other server. `Commands`
  says which commands the operator of each server uses: the first habilitar, subir and salir, so that it
  has a daemon that can die and be forked again; the second, which competes for the name, actualizar_todo.
  Jobs read and write the shared file and read the folder. The commands and requests that are
  left out add no case: actualizar_todo is habilitar without the fork, a request to write a folder locks it and
  ends.
- Berkeley has the real `MAX_CLIENTS`, 2, and two clients: a slot whose client is gone is
  given to the other. A second has two units in `berkeley_rounds`, one
  client is half a second behind the daemon, the other a second ahead (`Apart`), and half a
  second passes (`MaxTime`) at any moment, so that a reading, the average and the setting all cut something off.
  `Inv` of `BerkeleyProofs`, which implies the invariants, was also checked with clients a second and a half behind and two
  seconds ahead and `MaxTime` 2, and with a second of three units. `berkeley_sigpipe` has one unit and no
  time, which its question does not need.
- Cristian has one slot for two clients: the second is refused, or gets slot and descriptor
  again. A second has two units, an exchange and its correction take up to two seconds, and
  the clock is right or two and a half seconds behind, so that all three truncations matter.
- tp7: three clients (a writer, another one that waits, a reader), two files, and two
  starts of the file server.
- First version: three runs on two hosts, `MaxServers` and `MaxFiles` 2, both below what
  is registered. Each has a directory of its own; the files are `a`, `a b`, which is cut to the
  same word, `b`, and one whose name is a blank, and there is a folder: three words for two places.
- Lamport: two processes, each of which also sends to itself; more are left to the theorems.
- `MaxClock` stops ticks and new connections; messages under way can still raise a clock
  beyond it, but not beyond `MaxStamp`, the range `MessagesArrive` quantifies over.
  `Backlog` is 2 instead of 3: enough for `connect` to wait.

Deadlock is checked except in the runs in which the system may stop: the threads that
wait for lost owners (`disconnect`, `malloc`, `coalesce`, `crash`), the daemons of
Berkeley and Cristian after a signal, tp7 when the file server is not started again, the
first version when all its servers have ended, and `dsm_overtaking` and `files_late`.

### Fairness

Threads and programs that can go on do (weak fairness); users who are at a prompt answer
it; nobody has to run a program, to give a command or to interrupt one. `Dsm` adds strong
fairness for the first locking of `page_mutex` by `read_lock_page`: the mutex is free
infinitely often, and `pthread_mutex_lock` does not pass a thread over for ever. In
`berkeley_rounds` only the daemon is fair (`StubbornSpec`): its `recv` has a limit of three
seconds, so it needs nothing of its clients. In `Cristian` the daemon's main thread, each of
its threads and each client are fair; quitting, stopping and starting are not. In `Tp7Files` the
file server and the clients are fair, and a user at the editor's prompt presses Enter; nobody
has to start the server again, and still every run ends.

## 5. Proofs

All for any number of sessions, pages, descriptors, jobs, servers, clients and processes, and
any bounds.

`DsmProofs`:

- `TypeCorrect`, `FirstAndOnly` from `TableInv`, under every fault. Neither is inductive
  alone: that `write_page` removes the right entry needs that the thread inside it is the
  head (`WritersAtHead`), which needs that live threads have different descriptors
  (`LiveFds`) and that a thread stays with one page (`OnePagePerSession`, which in turn is
  about the messages under way).
- `MutualExclusion`, `LockHasQueue` from `GrantInv` = `TableInv` + `OwnersAtHead` +
  `LockedPageHasQueue`: the owner of a page is the head of its queue, so two owners would
  have the same descriptor. They assume `"malloc" \notin Faults`; when `add_to_queue`
  fails, a thread owns a page without being queued and both are false.
- `PagesCanBeSent`: the texts in pages, threads and messages are sendable
  (`TextsAreSendable`), because the header of a write is longer than that of a grant.

`DsmEditProofs` goes on from there:

- `UpdatesAreNotLost`, under every fault, `malloc` and `crash` included, from `UpdateInv` =
  `TableInv` + `HeadOrAbsent` + `ToldInv`. `NoLostUpdate` speaks of the text on a screen, which
  came in a message, so `ToldInv` says what the messages under way to a client hold: nothing
  before its thread is in the table, wait notices while it waits, and then the text that the page
  has. That the page does not change needs that only its head writes it; a thread that was given
  the page without being queued (`malloc`) never becomes the head, as no other thread has its
  descriptor (`HeadOrAbsent`).
- `EditorsSeeWholeTexts`, without `crash`, from `TextsAreWhole`: a half-written page is held by
  its writer's mutex (`WritersHoldMutex`), so only `read_page` can send it. A server that dies
  inside `write_page` leaves one behind, and then the statement is false.
- `Refinement`, without `malloc` and `crash`: `Init` maps to `Abstract!Init`, and every step maps
  to a step of `EditedPages` or leaves `PageText` and `PageEditor` alone, from `WriteInv`
  (what is written was typed, and `writer` is the thread in `write_page`) and `GrantInv`
  (`PageEditor` is well defined: `OneEditor`). A thread that gets the page takes it, `WriteBegin`
  is the write, a thread that leaves with the page gives it back.
- `QueueOrder`, under `NobodyLeaves` (no interrupts, `malloc` failures or restarts, and all typed
  texts fit), from `OrderInv`: the queue of a page consists of the descriptors of the threads that
  are in the table with it, each once (`QueueIsAlive`). For this a thread must stay in the table
  until it has written, so its client must be there (`ClientStays`: what client and thread
  have told each other, at each place) and the text must fit (`TextsAreSendable`). Messages may
  be merged (`coalesce`). Without the hypothesis `TurnsInOrder` is false: `dsm_overtaking`.

`LamportProofs`: `HappenedBefore`, `CoveredPasts`, `TypeCorrect` from `Inv`: no process
knows of a stamp later than its clock, strictly for other processes (`ClockCondition`), and
every message covers its past (`InboxesCover`, `OutsCover`; `StampsCoverTheirPast` is only
proved, no run repeats it). The clock condition is not
inductive alone: the receiver's clock must exceed what the message brings.

`FileSystemProofs`, under every fault and for any servers, names, jobs and texts: `TypeCorrect`,
`WritersExclude`, `UpdatesFollowEachOther`, `NamesStayWithTheirServer`. The lock of a name is taken for
a client and given back by a thread of the daemon, so `Inv` is about the pair: where the two can be
together (`JobAndThread`), that only who asked for the lock sends (`OnlyWritersSend`), that
the lock is taken as long as either is there (`WriterHasTheLock`; this keeps a second writer
out), and that the server that the job was told is still the one in the table, as entries
never change their server (`DestinationIsKnown`). `EditorHasTheText` then says that the
file of the writer's server is still what it downloaded, if the download was whole. When the daemon
dies (`DeathStep`, for `Kill` and `Descargar`) all its threads go at once and files change: the only
ones that do are being written, so their writers have the lock and nobody else is editing them;
locks stay, and a job that is left without its thread keeps what the DNS told it, so all
this holds of the next daemon too. A user who was left with half of a file, or none, is outside
the statement: the client sends whatever it has, and the daemon takes it. `TypeOK` contains the bound on
the table, which needs that the set of names in it is finite (`TableIsFinite`).

`BerkeleyProofs`, under every fault and for any clients, clocks, length of a second and size of the table:
`TypeCorrect`, `AnswersInTheirRound`, `ClocksInRange`, `CorrectedAgree`.

- `Mail`: a connection is silent, or carries an answer, a request, a correction, or a request
  behind an unread correction; nothing else. `ConnInv`: a request or an answer is on the
  connection of a slot only while the daemon waits for that slot, since a client that is late loses its slot
  (and `OneSlotEach`: no client has two). `AnswersInTheirRound` follows.
- `RoundInv`: the sum of the times is at least `valid_times` times the seconds of `slowest`, so
  that the average is not below them. The upper bound is harder, since a clock that is set to a
  second keeps its fraction and could get ahead of the fastest: an average is the last second of
  all only when every clock in it had reached that second (`Counted`), and then setting it moves none of
  them forward (`Fits`, `AverageFits`, `SettingFits`). That every clock that is corrected was in the sum is
  `Due` in `ConnInv`.
- `slowest` has no upper neighbour to lean on, it is a bound that the steps move: `Average` cuts its
  fraction off, and `Tick` lowers it while `TimesUnderWay`. Everything that is stated with it stays true when it
  gets lower (`Looser`, `LooserTimes`).
- `AgreeInv`: in a round, who was corrected shows the second of the average or will, up to the
  `age` of the average (`Near`, `KeepsUp`); after it, it is as near to the daemon's clock as both
  fractions and the age allow (`Follows`, `Apart`). Who has failed to set its clock, the daemon
  included, is in `unset` and exempt; whoever sets it later is held to it again.

`Tp7Proofs`: `WritersExclude` and `NoUpdateIsLost`, from `Types`, `ServesAConnection` (the
file server serves a connection that exists), `OnlyWritersPut`, and the two properties
together. Neither property is inductive alone: the server unlocks and overwrites a file only
for a connection that puts it, which is a writer's, and so the only writer's; and what a
writer has read stays true only as long as it is the only one. `TypeCorrect` bounds the version
of a file by the number of clients, which needs `Counted`: every stored update is of another
run that is behind it.

`FirstDnsProofs`: `TypeCorrect`, `NothingTwice`, `FirstServerOfHost`, `ListsAgree`. `TablasInv`
has what the tables hold, `HilosInv` what a thread has between its two critical sections: the index
it found is still the first of its host, because servers are only appended. `ListsAgree` is about
words and files: that no two files have one entry rests on `Registrar` answering ERROR for a
name that it knows, whoever registered it, and on `de` and `por` of the entry.

`CristianProofs`: for any number of clients and slots, any length of a second, any clocks.

- `DaemonInv`: a live thread has an active slot to itself (`OwnSlot`), and the descriptor in
  it stands for its connection (`OwnFd`); while the daemon runs every active slot has a thread
  (`SlotServed`) and every open descriptor a thread that talks on it (`FdServed`), which is
  why `accept` finds a free number (`FreeFd`, a pigeonhole argument). `ThreadsKeepTheirConnections`,
  `SlotsAreServed` and half of `TypeCorrect` follow.
- `Inv` adds the exchange: one message at a time (`OneMessage`), the daemon has read its clock
  between T1 and now (`AnswerInTime`), between T1 and T2 (`AdjustedInTime`). That an answer
  belongs to its exchange needs that threads stay on their connections, so that the bound on
  the clock rests on the bookkeeping of descriptors. `ErrorIsBounded` is then arithmetic:
  `Latency` bounds the two truncations of half the round trip.

The proofs rest on the named assumptions on the constants in the modules, which every run
evaluates. They say what the code or the model takes for granted: sizes are positive,
requests are about existing names (`RequestsAssumption`), there are finitely many clients and files in
tp7 (`Tp7Assumption`), and the clocks that Berkeley's daemon and clients start with have a least and
a greatest value (`BerkeleyAssumption`). What a theorem assumes beyond them, about faults, is in its
statement.

Only model-checked: liveness, since fairness and ENABLED are out of the prover's reach
(`TurnComes`, the two `EveryRunEnds`, `ArrivedUpdateUnlocks`, `MessagesArrive`,
`AcceptedClientsAreCorrected`, `StopsWhenTold`, `NobodyWaitsForEver`, `EveryoneStops`,
`StoredUpdateUnlocks`), and the three violations.

## 6. Left out

### Within the modelled parts

- TCP splits of one message over several `recv`; only the opposite, two messages in one,
  is modelled.
- Logging and displays (`print_page_table_state`, Berkeley's display thread), the wording
  of messages, argument parsing, failures of `socket`, `bind`, `listen` at the start.
- The DNS of the file system is always reachable; the disk of a server does not get new
  files; `elementos_registrados` is a set, which is what `esta_registrado` sees; the
  transfer of a folder is one step and its files have no contents of their own.
- The files of a running server are not removed or made unreadable: `fopen` of a file that is
  registered (tp7 `file_server.c:93`, `servidor_archivos_nuevo.c:99`, `167`) and `stat` (line 206, 225) find it.
- Names with blanks in the nuevo version and in tp7: there the port follows the name in the same
  `sscanf` (`servidor_dns_nuevo.c:171`, tp7 `dns_server.c:35`), so a blank shifts the fields and the port
  is an uninitialised variable. `Names` and `Files` have none.
- The order in which waiting connections are accepted (Berkeley, page server) is
  arbitrary.
- Integer overflow of clocks: 2^31 seconds or events.
- Berkeley's clocks run equally fast. A round that fails to set some clocks still counts them, and
  every round may put the clocks back by less than a second, which `slowest` adds up; nothing in
  the code limits that sum.
- `print_page_table_state` (`newServer.c:541`) walks the queues of all pages without their
  mutexes while `remove_from_queue` frees entries. It is a data race with no effect on the
  protocol other than undefined behaviour, for which there is no property to state.
- tp7: `fileTable[10]` is written past its end by an eleventh file (undefined behaviour,
  excluded by `Tp7Assumption`); a restart of the name server, which forgets all; two clients
  that share a directory and so `client_edit.txt`.
- The display thread of Cristian's client, which only prints.
- First version: a `pthread_create` that fails (`dns.c:113`); its result is not looked at,
  and `pthread_detach` gets an uninitialised argument.

### Not modelled

- **Telnet servers (tp1)**: each request runs a shell command; the answer is the output of
  another program. What could be stated, that stdout is redirected by several threads at
  once, is one race over one descriptor.
- **Address server (tp3)**: generated by rpcgen around a stateless lookup.
- **Process migration (tp4)**: two programs that alternate strictly; a source text received
  with a single `read` (`server.c:66`) is cut when TCP splits it, which a property could
  only restate.
- **Chat servers** (`sockets-hilos`, `sockets-modular`): the descriptor is handed to the
  thread through a variable that the next `accept` overwrites (`server.c:77`); there is no
  other shared state.
- **Lamport, manual version**: one thread, no ticks; its behaviours are those of `Lamport`
  with `Connect`, `Stamp` and `Send` in one step.
- **`sockets`, `sockets-practica`, `tp2-apache`**: one connection or one CGI request, no state.
