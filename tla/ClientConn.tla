----------------------------- MODULE ClientConn -----------------------------
(***************************************************************************)
(* Client and CommandGroup: the pipeline of a client's requests through    *)
(* _parsed_groups, _awaiting_groups and _ready_groups to its replies.      *)
(***************************************************************************)
EXTENDS ProxyState

(***************************************************************************)
(* The methods of Client, as functions of the Client's fields.             *)
(***************************************************************************)
MayPush(cl) ==
    /\ cl.count = 0
    /\ cl.ready = <<>> \/ Len(cl.awaiting) + Len(cl.ready) <= MaxResponses

ArmNever(cl) == cl

\* set_conn_poll_rw on itself when there is something to write.
Arm(cl) == IF cl.out = <<>> THEN cl ELSE [cl EXCEPT !.poll = "rw"]

PushAwaitingsToReady(cl) ==
    IF MayPush(cl)
    THEN Arm([cl EXCEPT !.out = @ \o cl.awaiting, !.ready = @ \o cl.awaiting,
                        !.awaiting = <<>>])
    ELSE cl

\* How many of the first n parsed groups are processed before a request for
\* a long connection stops the loop.
PipeLength(cl, n) ==
    LET long == {i \in 1..n : cl.parsed[i] \in LongGroups}
    IN  IF long = {} THEN n
        ELSE (CHOOSE i \in long : \A j \in long : i <= j) - 1

RestParsedNone(cl, n) == <<>>

RestParsed(cl, n) == SubSeq(cl.parsed, n + 1, Len(cl.parsed))

Process(cl) ==
    LET n == IF Len(cl.parsed) < MaxPipe THEN Len(cl.parsed) ELSE MaxPipe
        p == PipeLength(cl, n)
        pipe == SubSeq(cl.parsed, 1, p)
        remote == {g \in Range(pipe) : WaitRemote(g)}
        targets == {Target(m) : m \in {x \in Commands : GroupOf[x] \in remote}}
        a == [cl EXCEPT !.count = @ + Cardinality(remote),
                        !.awaiting = @ \o pipe,
                        !.peers = @ \cup (targets \ {Nul})]
        b == [a EXCEPT !.parsed = RestParsed(cl, n)]
    IN  IF p < n THEN [a EXCEPT !.fd = "closed"]
        ELSE IF b.count > 0 THEN b ELSE PushAwaitingsToReady(b)

PeersClearedAlways(cl) == {}

PeersCleared(cl) == IF cl.awaiting = <<>> THEN {} ELSE cl.peers

UnwrittenAgain(cl, k) == IF k = Len(cl.out) THEN <<>> ELSE cl.out

Unwritten(cl, k) == SubSeq(cl.out, k + 1, Len(cl.out))

\* writev wrote k of the pending replies.  Writing to a closed descriptor
\* raises SystemError, which ends the process.
SendBufferSet(cl, k) ==
    LET w == [cl EXCEPT !.got = @ \o SubSeq(cl.out, 1, k),
                        !.out = Unwritten(cl, k)]
        r == [w EXCEPT !.ready = <<>>, !.peers = PeersCleared(w)]
    IN  IF cl.fd # "open" /\ cl.out # <<>> THEN [cl EXCEPT !.fd = "badio"]
        ELSE IF w.out # <<>> THEN w
        ELSE IF r.parsed = <<>> THEN r ELSE Process(r)

\* The outcomes of _write_response, one for each split of the two writes.
WriteResponse(cl) ==
    LET first == IF cl.out = <<>> THEN {cl}
                 ELSE {SendBufferSet(cl, k) : k \in 0..Len(cl.out)}
        again(a) == LET p == PushAwaitingsToReady(a)
                    IN  {SendBufferSet(p, k) : k \in 0..Len(p.out)}
    IN  UNION {IF a.awaiting = <<>> \/ a.count # 0 THEN {a} ELSE again(a) :
               a \in first}

\* j more requests have arrived in full.
ReadRequest(cl, c, j) ==
    LET r == [cl EXCEPT !.asked = @ + j,
                        !.parsed = @ \o SubSeq(Requests[c], cl.asked + 1,
                                               cl.asked + j)]
    IN  IF r.awaiting = <<>> THEN Process(r) ELSE r

\* set_conn_poll_ro or set_conn_poll_rw on itself.
SetConnPoll(cl) ==
    [cl EXCEPT !.poll = IF cl.out # <<>> \/ @ = "rw" THEN "rw" ELSE "ro"]

\* The outcomes of on_events for a read (rd) and/or write (wr) event.
ClientOnEvents(cl, c, rd, j, wr) ==
    LET r == IF rd THEN ReadRequest(cl, c, j) ELSE cl
    IN  IF r.fd = "closed" THEN {r}
        ELSE {SetConnPoll(w) : w \in IF wr THEN WriteResponse(r) ELSE {r}}

\* group_responsed, called n times: only the call that finds no group
\* pending moves the awaiting groups.
GroupResponsed(cl, n) ==
    IF n = 0 THEN cl ELSE PushAwaitingsToReady([cl EXCEPT !.count = @ - n])

-----------------------------------------------------------------------------
(***************************************************************************)
(* Responding.                                                             *)
(***************************************************************************)
CompletedByAny(A, c) == {g \in GroupsOf(c) : A \cap CommandsOf(g) # {}}

\* The groups of client c whose last pending commands are those in A.
CompletedBy(A, c) ==
    {g \in GroupsOf(c) : /\ A \cap CommandsOf(g) # {}
                         /\ left[g] = Cardinality(A \cap CommandsOf(g))}

\* responsed() for each command of A: the clients cls count the groups that
\* are complete, and the groups their commands.
Responded(A, cls) ==
    [c \in Clients |-> GroupResponsed(cls[c], Cardinality(CompletedBy(A, c)))]

CountResponses(A) ==
    /\ left' = [g \in Groups |-> left[g] - Cardinality(A \cap CommandsOf(g))]
    /\ answered' = answered \cup A

-----------------------------------------------------------------------------
\* The acceptor takes the connections that wait.
Accept ==
    \E S \in SUBSET {c \in Clients : client[c].fd = "none"} :
        /\ S # {}
        /\ Dispatch(Acceptor)
        /\ client' = [c \in Clients |-> IF c \in S
                        THEN [client[c] EXCEPT !.fd = "open"] ELSE client[c]]
        /\ UNCHANGED <<serverVars, proxyVars, groupVars, phase, closing, faults>>

PeersPolledNone(c, h, fresh) == spoll

\* The end of _process: the peers are to be polled for writing.
PeersPolled(c, h, fresh) ==
    [s \in Servers |->
        IF fresh # {} /\ h.count > 0 /\ h.fd = "open" /\ s \in h.peers
        THEN "rw" ELSE spoll[s]]

\* select_remote for the groups that _process made awaiting, when on_events
\* takes the fields of client c to h.
Issue(c, h) ==
    LET fresh == Range(h.awaiting) \ Range(client[c].awaiting)
        new == {m \in Commands : GroupOf[m] \in fresh}
        q == Keep(Script[c], new)
        To == [m \in new |-> Target(m)]
    IN  /\ commands' = Routed(q, To)
        /\ retrying' = retrying \o Unrouted(q, To)
        /\ issued' = issued \cup new
        /\ spoll' = PeersPolled(c, h, fresh)

\* Client::on_events; a failed write closes the client at the end.
ClientEvent(c) ==
    \E rd, wr, broken \in BOOLEAN :
    \E j \in 0..(Len(Requests[c]) - client[c].asked) :
        /\ client[c].fd = "open"
        /\ rd \/ (wr /\ j = 0)
        /\ wr => c \in want
        /\ Dispatch(c)
        /\ \E h \in ClientOnEvents(client[c], c, rd, j, wr) :
            /\ broken => wr /\ h.fd = "open" /\ h.out # <<>>
            /\ client' = [client EXCEPT ![c] =
                            IF broken THEN [h EXCEPT !.fd = "closed"] ELSE h]
            /\ Issue(c, h)
        /\ IF broken THEN Fault ELSE UNCHANGED faults
        /\ UNCHANGED <<up, sent, output, wire, slotmap, expired, updating, want,
                       left, stage, answered, phase, closing>>

\* The client hung up, or sent what is not a command.
ClientQuit(c) ==
    /\ client[c].fd = "open"
    /\ Dispatch(c)
    /\ Fault
    /\ client' = [client EXCEPT ![c].fd = "closed"]
    /\ UNCHANGED <<serverVars, proxyVars, groupVars, phase, closing>>
=============================================================================
