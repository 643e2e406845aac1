----------------------------- MODULE ServerConn -----------------------------
(***************************************************************************)
(* Server: the queue of commands to send, the commands sent and waiting    *)
(* for a reply, and what becomes of them when replies arrive or the        *)
(* connection is lost.                                                     *)
(***************************************************************************)
EXTENDS ClientConn

RequeuedWithNul(q, r) == q \o r

\* What close_conn gives to the retry list, of the commands q to send and the
\* commands r sent: the ones still to send come first.
Requeued(q, r) == q \o Keep(r, Commands)

\* close_conn, for the retry list and the two queues of s as the handler has
\* left them so far.
CloseConn(s, retry, q, r) ==
    /\ up' = [up EXCEPT ![s] = FALSE]
    /\ sent' = [sent EXCEPT ![s] = <<>>]
    /\ output' = [output EXCEPT ![s] = <<>>]
    /\ wire' = [wire EXCEPT ![s] = <<>>]
    /\ want' = want \ {s}
    /\ retrying' = retry \o Requeued(q, r)

\* Server::on_events for a hang-up, a bad or a surplus reply, a failed read.
ServerLost(s) ==
    /\ up[s]
    /\ Dispatch(s)
    /\ Fault
    /\ CloseConn(s, retrying, commands[s], sent[s])
    /\ commands' = [commands EXCEPT ![s] = <<>>]
    /\ UNCHANGED <<client, spoll, slotmap, expired, updating, groupVars,
                   phase, closing>>

\* A RENAME across slots is a GET, a SET and a DEL, each a step of one command.
MoreSteps(m) == stage[m] < Len(Steps[m])

RespondedEachStep(cmds, moved, next) == cmds \ moved

\* The commands answered by replies to cmds, when those in moved are redirected
\* and those in next have another step to take.
RespondedTo(cmds, moved, next) == cmds \ (moved \cup next)

\* The commands that k replies from s answer, null references left out.
RepliedTo(s, k) == Range(SubSeq(sent[s], 1, k)) \ {Nul}

\* Server::on_events for a read and/or write event: k replies have arrived,
\* of which those for the commands in moved say MOVED, ASK or CLUSTERDOWN and
\* those for the commands in cut end a RENAME early; w requests get written.
\* A failed write closes the connection at the end.
ServerOnEvents(s, rd, wr, broken, k, moved, cut) ==
    LET replied == SubSeq(sent[s], 1, k)
        next == {m \in RepliedTo(s, k) \ (moved \cup cut) : MoreSteps(m)}
        done == RespondedTo(RepliedTo(s, k), moved, next)
        To == [m \in next |-> ServerAt(m, stage[m] + 1)]
        queued == Routed(replied, To)
        pending == SubSeq(sent[s], k + 1, Len(sent[s])) \o queued[s]
        buffers == output[s] \o queued[s]
        retry == retrying \o Keep(replied, moved \cup {m \in next : To[m] = Nul})
    IN
    \E w \in 0..Len(buffers) :
        /\ up[s]
        /\ rd \/ (wr /\ k = 0)
        /\ wr => s \in want
        /\ ~wr => w = 0
        /\ broken => wr /\ w < Len(buffers)
        /\ Dispatch(s)
        /\ client' = Responded(done, [c \in Clients |-> AddPeers(client[c], c, To)])
        /\ CountResponses(done)
        /\ stage' = [m \in Commands |-> IF m \in next THEN stage[m] + 1
                                                       ELSE stage[m]]
        /\ commands' = [queued EXCEPT ![s] = <<>>]
        /\ spoll' = [t \in Servers |->
                        IF t \in Range(To) THEN "rw"
                        ELSE IF t # s \/ broken THEN spoll[t]
                        ELSE IF w < Len(buffers) \/ spoll[s] = "rw" THEN "rw"
                        ELSE "ro"]
        /\ IF broken
           THEN CloseConn(s, retry, <<>>, pending)
           ELSE /\ sent' = [sent EXCEPT ![s] = pending]
                /\ output' = [output EXCEPT ![s] =
                                SubSeq(buffers, w + 1, Len(buffers))]
                /\ wire' = [wire EXCEPT ![s] =
                                SubSeq(@, k + 1, Len(@)) \o SubSeq(buffers, 1, w)]
                /\ retrying' = retry
                /\ UNCHANGED <<up, want>>
        /\ IF broken \/ moved # {} THEN Fault ELSE UNCHANGED faults
        /\ UNCHANGED <<slotmap, expired, updating, issued, phase, closing>>

ServerEvent(s) ==
    \E rd, wr, broken \in BOOLEAN :
    \E k \in 0..Len(wire[s]) :
    \E moved \in SUBSET (IF Redirects THEN RepliedTo(s, k) ELSE {}) :
    \E cut \in SUBSET {m \in RepliedTo(s, k) \ moved : MoreSteps(m)} :
        ServerOnEvents(s, rd, wr, broken, k, moved, cut)
=============================================================================
