------------------------------- MODULE Proxy -------------------------------
(***************************************************************************)
(* Proxy: the event loop of one thread, and what it guarantees.            *)
(***************************************************************************)
EXTENDS SlotMapUpdate

(***************************************************************************)
(* handle_events: what follows the events of a batch.                      *)
(***************************************************************************)
\* A deleted Client takes its commands back from its peers and the proxy; the
\* requests already sent keep their place, as null references.
Deleted(cl) ==
    [NewClient EXCEPT !.fd = "deleted", !.asked = cl.asked, !.got = cl.got]

HeldFor(s, gone) ==
    {m \in Commands : Owner(m) \in gone /\ s \in client[Owner(m)].peers}

SentErased(s, gone) ==
    Keep(sent[s], (Commands \cup {Nul}) \ HeldFor(s, gone))

SentNulled(s, gone) ==
    [i \in DOMAIN sent[s] |->
        IF sent[s][i] \in HeldFor(s, gone) THEN Nul ELSE sent[s][i]]

RetriesKeptAll(gone) == retrying

\* Proxy::pop_client, for the clients in gone.
RetriesKept(gone) == Keep(retrying, {m \in Commands : Owner(m) \notin gone})

\* Server::after_events finds a server of the batch closed.
ServerClosed == \E s \in active \cap Servers : ~up[s]

ShouldUpdateExpired == ~updating /\ expired'

\* _should_update_slot_map, after the events of a batch.
ShouldUpdate == ~updating /\ (retrying' # <<>> \/ expired')

EndBatch ==
    LET gone == {c \in active \cap Clients : client[c].fd = "closed"}
    IN  /\ phase = "events"
        /\ active # {}
        /\ want' = PollCtl(client)
        /\ spoll' = NoPoll
        /\ client' = [c \in Clients |-> IF c \in gone THEN Deleted(client[c])
                                        ELSE [client[c] EXCEPT !.poll = "none"]]
        /\ commands' = [s \in Servers |->
                            Keep(commands[s], Commands \ HeldFor(s, gone))]
        /\ sent' = [s \in Servers |-> SentNulled(s, gone)]
        /\ retrying' = RetriesKept(gone)
        /\ expired' = (expired \/ ServerClosed)
        /\ active' = {}
        /\ batch' = 0
        /\ phase' = IF ShouldUpdate THEN "retrieve" ELSE "events"
        /\ UNCHANGED <<up, output, wire, slotmap, updating, groupVars,
                       closing, faults>>

\* _retrieve_slot_map: some updater is started, or none can be.
Retrieve ==
    /\ phase = "retrieve"
    /\ \/ /\ updating' = TRUE
          /\ phase' = "events"
          /\ UNCHANGED <<closing, faults>>
       \/ /\ Fault
          /\ phase' = "clear"
          /\ closing' = {s \in Mapped(Slots) : up[s]}
          /\ UNCHANGED updating
    /\ UNCHANGED <<client, serverVars, retrying, slotmap, expired, want,
                   groupVars, active, batch>>

\* A SystemError is not caught: the process ends.
Running == \A c \in Clients : client[c].fd # "badio"

Next ==
    /\ Running
    /\ \/ Accept
       \/ \E c \in Clients : ClientEvent(c) \/ ClientQuit(c)
       \/ \E s \in Servers : ServerEvent(s) \/ ServerLost(s) \/ CloseRemoved(s)
       \/ \E nm \in Maps : UpdaterDone(nm)
       \/ UpdaterFailed
       \/ SetSlotMap
       \/ Discard
       \/ EndBatch
       \/ Retrieve

Spec == Init /\ [][Next]_vars

(***************************************************************************)
(* Fairness.  epoll is edge triggered, but poll_ctl re-arms the connection *)
(* after each of its events, so a connection that stays ready is reported  *)
(* again.  Each of these is therefore taken if it is possible again and    *)
(* again: a client that reads its socket, a server that reads its requests *)
(* and replies to them, an updater that gets its answer.  The steps of the *)
(* loop itself are never put off.                                          *)
(***************************************************************************)
ClientReceives(c) == ClientEvent(c) /\ client'[c].got # client[c].got

ServerReceives(s) ==
    /\ commands[s] # <<>> \/ output[s] # <<>>
    /\ ServerEvent(s)
    /\ up'[s] /\ output'[s] = <<>>

ServerReplies(s) ==
    ServerEvent(s) /\ up'[s] /\ Len(wire'[s]) < Len(wire[s])

Fairness ==
    /\ \A c \in Clients : SF_vars(ClientReceives(c))
    /\ \A s \in Servers : SF_vars(ServerReceives(s)) /\ SF_vars(ServerReplies(s))
    /\ SF_vars(UpdaterFailed \/ \E nm \in Maps : UpdaterDone(nm))
    /\ WF_vars(\E s \in Servers : CloseRemoved(s))
    /\ WF_vars(SetSlotMap)
    /\ WF_vars(Discard)
    /\ WF_vars(EndBatch)
    /\ WF_vars(Retrieve)

FairSpec == Spec /\ Fairness

-----------------------------------------------------------------------------
(***************************************************************************)
(* Safety.                                                                 *)
(***************************************************************************)
\* The loop waits in epoll_wait.
Idle == phase = "events" /\ active = {}

\* The places that refer to command m.
Places(m) ==
    LET At(q) == {n \in DOMAIN q : q[n] = m}
    IN  {<<"retrying", Nul, i>> : i \in At(retrying)}
        \cup (UNION {{<<"commands", s, i>> : i \in At(commands[s])} : s \in Servers})
        \cup (UNION {{<<"sent", s, i>> : i \in At(sent[s])} : s \in Servers})

Pending(m) == m \in issued \ answered /\ client[Owner(m)].fd # "deleted"

\* Every command that was issued, is not answered and whose Client still
\* exists is referred to exactly once, by the _commands or _sent_commands of
\* one Server or by _retrying_commands; no other command is referred to at
\* all, above all none of a deleted Client (Client::~Client finds them all
\* through _peers).
OnePlace ==
    \A m \in Commands :
        Cardinality(Places(m)) = IF Pending(m) THEN 1 ELSE 0

\* Server::_recv_from gives the i-th reply to the i-th of _sent_commands: that
\* is the command whose request was the i-th written, or null if its client
\* is gone, across partial writes, closed clients and the READONLY handshake.
RepliesAligned ==
    \A s \in Servers :
        LET requests == wire[s] \o output[s]
        IN  /\ Len(sent[s]) = Len(requests)
            /\ \A i \in DOMAIN sent[s] : sent[s][i] \in {Nul, requests[i]}

\* What an open client has received, the replies in its output buffers, its
\* _awaiting_groups and its _parsed_groups are together the requests it sent,
\* in order: _process, _push_awaitings_to_ready and _send_buffer_set lose,
\* repeat or overtake none.
PipelineIntact ==
    \A c \in Clients :
        LET cl == client[c]
        IN  cl.fd = "open" =>
                cl.got \o cl.out \o cl.awaiting \o cl.parsed
                    = SubSeq(Requests[c], 1, cl.asked)

\* No reply is put into a client's output buffers before every command of its
\* group is answered (_push_awaitings_to_ready only checks _awaiting_count).
RepliesComplete ==
    \A c \in Clients :
        \A g \in Range(client[c].got \o client[c].out) :
            CommandsOf(g) \subseteq answered

\* _awaiting_count of a client is the number of its awaiting groups that have
\* a command to be answered, and awaiting_count of a group the number of these
\* commands: no response is counted twice or forgotten by retries, redirected
\* commands, the steps of a RENAME or CLUSTERDOWN.
CountsExact ==
    /\ \A g \in Groups : left[g] = Cardinality(CommandsOf(g) \ answered)
    /\ \A c \in Clients :
        client[c].fd \in {"open", "closed"} =>
            client[c].count = Cardinality({g \in Range(client[c].awaiting) :
                                            ~(CommandsOf(g) \subseteq answered)})

\* Whenever the loop waits, a command in _retrying_commands has an updater at
\* work that will lead to its being sent again or answered: handle_events has
\* called _retrieve_slot_map if it had to.
RetriesAttended == Idle /\ retrying # <<>> => updating

\* Whenever the loop waits, a client with requests in the proxy is waited for
\* in the right way: replies to be written are polled for, and requests are
\* parked in _awaiting_groups or _parsed_groups only behind a server or
\* behind such replies.
ClientsAttended ==
    Idle => \A c \in Clients :
        LET cl == client[c]
        IN  cl.fd = "open" =>
                /\ cl.out # <<>> => c \in want
                /\ cl.awaiting # <<>> => cl.count > 0 \/ cl.out # <<>>
                /\ cl.parsed # <<>> => cl.awaiting # <<>> \/ cl.out # <<>>

\* Whenever the loop waits, a server with commands to send is polled for
\* writing (_process, reactivate, _set_slot_map and Server::on_events see to
\* it; poll_ctl at the end of the batch has the last word).
ServersAttended ==
    Idle => \A s \in Servers :
        up[s] /\ (commands[s] # <<>> \/ output[s] # <<>>) => s \in want

\* The descriptor a Client writes its replies to is open.
NoIOOnClosedFd == Running

-----------------------------------------------------------------------------
(***************************************************************************)
(* The proxy implements the service it promises.                           *)
(***************************************************************************)
Promise == INSTANCE Service WITH
    asked <- [c \in Clients |-> client[c].asked],
    got   <- [c \in Clients |-> client[c].got],
    gone  <- {c \in Clients : client[c].fd \in {"closed", "deleted", "badio"}}

\* Each step of the proxy exchanges requests and replies with one client as
\* the abstract service does, or with none: replies come in the order of the
\* requests, none before its request, none twice, none on a closed connection.
ServiceSafety == Promise!Spec

\* Every request is answered in the end, unless the client is disconnected:
\* redirections, lost servers, failed updates and CLUSTERDOWN included.
EveryRequestAnswered == Promise!Responsive
=============================================================================
