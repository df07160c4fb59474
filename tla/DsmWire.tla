------------------------------ MODULE DsmWire ------------------------------
(***************************************************************************)
(* The connections between the page server (newServer.c) and its clients   *)
(* (client.c), and the text protocol of communication.c that runs on them. *)
(*                                                                         *)
(* A session is one run of the client program together with the TCP        *)
(* connection it opens and the server thread that serves it.  When both    *)
(* ends of the connection are closed the session's name is free for the    *)
(* next run of the program.                                                *)
(***************************************************************************)
EXTENDS Naturals, Integers, Sequences, FiniteSets

CONSTANTS
    Sessions,   \* concurrent runs of the client program
    NumPages,   \* argv[3] of the server: number of pages
    PageSize,   \* argv[2] of the server: bytes in a page
    MaxMsg,     \* MAX_MSG: size of every message buffer
    TextIds,    \* the texts that users type, up to their length
    Typed,      \* the texts that users type, as bodies [id, len]
    PageNums,   \* the page numbers users give, valid or not
    Ops,        \* what users run the program for: "read", "lock" or both
    Faults      \* which of AllFaults the environment may inject

AllFaults == {"disconnect", "malloc", "coalesce", "crash"}

\* Text is abstracted to an identity and a length in bytes.
Bodies == [id : TextIds \cup {"blank", "torn", "error"}, len : Nat]

Blank == [id |-> "blank", len |-> 0]

\* What a read that overlaps memset/memcpy finds: any mixture of the old and
\* the new bytes, never longer than the longer of the two.
Torn(old, new) ==
    [id |-> "torn", len |-> IF old.len > new.len THEN old.len ELSE new.len]

\* The text of the "ERROR: ..." replies, cut at the first space by the client.
ErrorText == [id |-> "error", len |-> 16]

ASSUME SizesAssumption ==
    /\ NumPages \in Nat \ {0}
    /\ PageSize \in Nat \ {0}
    /\ MaxMsg \in Nat /\ MaxMsg > 16
    /\ Typed \subseteq [id : TextIds, len : Nat]
    /\ {"blank", "torn", "error"} \cap TextIds = {}
    /\ PageNums \subseteq Nat
    /\ Ops \subseteq {"read", "lock"}
    /\ Faults \subseteq AllFaults

Pages == 0 .. NumPages - 1

NoPage == -1

\* What a client sends: "0 p", "1 p" and "2 p text".
Requests == [cmd : {"read", "lock", "write"}, page : PageNums, body : Bodies]

\* What the server sends: "0 text", "1 ", "2 ", and, without a command number,
\* the raw bytes of a page or an error text.
Replies == [cmd : {"content", "wait", "done", "raw", "error"}, body : Bodies]

Request(cmd, p, b) == [cmd |-> cmd, page |-> p, body |-> b]
Reply(cmd, b)      == [cmd |-> cmd, body |-> b]

VARIABLES
    sock,       \* the ends of a session's connection that are open
    c2s,        \* bytes on their way to the server, as messages
    s2c         \* bytes on their way to the client, as messages

wireVars == <<sock, c2s, s2c>>

Ends == {"client", "server"}

WireTypeOK ==
    /\ sock \in [Sessions -> SUBSET Ends]
    /\ c2s \in [Sessions -> Seq(Requests)]
    /\ s2c \in [Sessions -> Seq(Replies)]

WireInit ==
    /\ sock = [s \in Sessions |-> {}]
    /\ c2s = [s \in Sessions |-> <<>>]
    /\ s2c = [s \in Sessions |-> <<>>]

\* Decimal digits of a page number in a message.
Digits(p) == 1 + Cardinality({d \in 1 .. 9 : 10^d <= p})

\* Mutant: only the text is measured.
TextLen(p, b) == b.len

\* Length of "2 p text" and of "c text".
WriteMsgLen(p, b) == 2 + Digits(p) + 1 + b.len
ReplyMsgLen(b)    == 2 + b.len

\* send_command refuses a message that does not fit its buffer.
Fits(n) == n < MaxMsg

(***************************************************************************)
(* send_command and send, on the server's side.  Sending to a client that  *)
(* is gone either seems to work and the bytes are lost, or fails.          *)
(***************************************************************************)
Deliver(s, m) ==
    s2c' = IF "client" \in sock[s] THEN [s2c EXCEPT ![s] = Append(@, m)] ELSE s2c

SendCommand(s, m) == Fits(ReplyMsgLen(m.body)) /\ Deliver(s, m)

SendCommandFails(s, m) ==
    /\ ~Fits(ReplyMsgLen(m.body)) \/ "client" \notin sock[s]
    /\ UNCHANGED s2c

\* close() by the client: what it had not read is lost.
ClientCloses(s) ==
    /\ sock' = [sock EXCEPT ![s] = @ \ {"client"}]
    /\ s2c' = [s2c EXCEPT ![s] = <<>>]

\* close() by the server, or its death.
ServerCloses(S) ==
    /\ sock' = [s \in Sessions |-> IF s \in S THEN sock[s] \ {"server"} ELSE sock[s]]
    /\ c2s' = [s \in Sessions |-> IF s \in S THEN <<>> ELSE c2s[s]]

\* send by the client; nobody reads it once the server has closed.
Post(s, m) ==
    c2s' = IF "server" \in sock[s] THEN [c2s EXCEPT ![s] = Append(@, m)] ELSE c2s

\* recv_command returns NULL: the server has closed and everything was read.
ClientSeesEOF(s) == "server" \notin sock[s] /\ s2c[s] = <<>>

\* recv fails in the server: the client has closed and everything was read.
ServerSeesEOF(s) == "client" \notin sock[s] /\ c2s[s] = <<>>

(***************************************************************************)
(* recv_command takes whatever has arrived, up to MAX_MSG - 1 bytes.       *)
(* Normally that is one message; under "coalesce" TCP may hand over two    *)
(* that were sent one after the other, as one text: the command parsed     *)
(* from it is the first one's and the second is swallowed.                 *)
(***************************************************************************)
RecvCounts(s) ==
    {n \in {1, 2} :
        /\ n <= Len(s2c[s])
        /\ n = 2 => /\ "coalesce" \in Faults
                    /\ Fits(ReplyMsgLen(s2c[s][1].body) + ReplyMsgLen(s2c[s][2].body))}
=============================================================================
