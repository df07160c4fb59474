----------------------------- MODULE PageClient -----------------------------
(***************************************************************************)
(* The client of the distributed shared memory: client.c, one run of the   *)
(* program per session ("client <ip> <port> R|W <page>").                  *)
(***************************************************************************)
EXTENDS DsmWire

VARIABLES
    cpc,        \* where the program is; "idle" when it is not running
    cpage,      \* page_num, of the current or the last run
    seen        \* current_content: the text shown to the user for editing

clientVars == <<cpc, cpage, seen>>

ClientPCs == {"idle", "readReply", "lockReply", "turn", "edit", "confirm"}

ClientTypeOK ==
    /\ cpc \in [Sessions -> ClientPCs]
    /\ cpage \in [Sessions -> PageNums \cup {NoPage}]
    /\ seen \in [Sessions -> Bodies]

ClientInit ==
    /\ cpc = [s \in Sessions |-> "idle"]
    /\ cpage = [s \in Sessions |-> NoPage]
    /\ seen = [s \in Sessions |-> Blank]

\* The program connects and sends its first command.
Start(s, cmd, pc) ==
    /\ cmd \in Ops
    /\ \E p \in PageNums :
        /\ sock[s] = {}
        /\ sock' = [sock EXCEPT ![s] = Ends]
        /\ c2s' = [c2s EXCEPT ![s] = <<Request(cmd, p, Blank)>>]
        /\ s2c' = [s2c EXCEPT ![s] = <<>>]
        /\ cpc' = [cpc EXCEPT ![s] = pc]
        /\ cpage' = [cpage EXCEPT ![s] = p]
        /\ UNCHANGED seen

StartRead(s)  == Start(s, "read", "readReply")
StartWrite(s) == Start(s, "lock", "lockReply")

\* The program returns from the operation and closes its socket.
Exit(s) ==
    /\ cpc' = [cpc EXCEPT ![s] = "idle"]
    /\ seen' = [seen EXCEPT ![s] = Blank]
    /\ ClientCloses(s)
    /\ UNCHANGED cpage

\* handle_read_operation prints one reply, or the error of a closed
\* connection, and ends.
RecvPage(s) ==
    /\ cpc[s] = "readReply"
    /\ s2c[s] # <<>> \/ ClientSeesEOF(s)
    /\ Exit(s)
    /\ UNCHANGED c2s

\* parse_server_response: atoi makes 0 of the text of an error.
ParsedCommand(m) == IF m.cmd = "error" THEN "content" ELSE m.cmd

\* handle_write_operation receives the answer to its lock request, or the
\* notification it waits for; a first answer it does not know ends it.
RecvLockReply(s) ==
    /\ cpc[s] \in {"lockReply", "turn"}
    /\ \/ \E n \in RecvCounts(s) :
            LET cmd == ParsedCommand(s2c[s][1])
            IN IF cmd \in {"content", "wait"} \/ cpc[s] = "turn"
               THEN /\ cpc' = [cpc EXCEPT ![s] = IF cmd = "content" THEN "edit" ELSE "turn"]
                    /\ seen' = [seen EXCEPT ![s] = IF cmd = "content" THEN s2c[s][1].body ELSE @]
                    /\ s2c' = [s2c EXCEPT ![s] = SubSeq(@, n + 1, Len(@))]
                    /\ UNCHANGED <<sock, cpage>>
               ELSE Exit(s)
       \/ ClientSeesEOF(s) /\ Exit(s)
    /\ UNCHANGED c2s

\* The user types the new text and the program sends it, unless the message
\* is too long for send_command: then it gives up and closes.
Submit(s) ==
    /\ cpc[s] = "edit"
    /\ \E b \in Typed :
        \/ /\ Fits(WriteMsgLen(cpage[s], b))
           /\ Post(s, Request("write", cpage[s], b))
           /\ cpc' = [cpc EXCEPT ![s] = "confirm"]
           /\ UNCHANGED <<sock, s2c, cpage, seen>>
        \/ /\ ~Fits(WriteMsgLen(cpage[s], b))
           /\ Exit(s)
           /\ UNCHANGED c2s

\* The program reports the confirmation, or whatever came instead, and ends.
RecvConfirm(s) ==
    /\ cpc[s] = "confirm"
    /\ s2c[s] # <<>> \/ ClientSeesEOF(s)
    /\ Exit(s)
    /\ UNCHANGED c2s

\* The user interrupts the program, or ends the input at the prompt.
Disconnect(s) ==
    /\ "disconnect" \in Faults
    /\ cpc[s] # "idle"
    /\ Exit(s)
    /\ UNCHANGED c2s

ClientGoesOn(s) == RecvPage(s) \/ RecvLockReply(s) \/ Submit(s) \/ RecvConfirm(s)
=============================================================================
