----------------------------- MODULE ProxyState -----------------------------
(***************************************************************************)
(* The state of one event-loop thread of the proxy: its client             *)
(* connections and their command groups, its connections to the redis      *)
(* servers, the list of commands to retry, the slot map, and the progress  *)
(* of Proxy::handle_events through a batch of events.                      *)
(*                                                                         *)
(* A Server is identified by the address it is connected to; the pool that *)
(* recycles Server objects is left out.  The updaters of one round are one *)
(* connection that either delivers a map or fails.  A message is the       *)
(* command it belongs to; a reply is the group (to a client) or the        *)
(* request (from a server) it answers.                                     *)
(***************************************************************************)
EXTENDS Integers, FiniteSets, Sequences, Functions, Subsequence

CONSTANTS
    Clients,        \* the client connections
    Servers,        \* the addresses of the redis nodes
    Slots,          \* the key slots
    Groups,         \* the CommandGroups: one for each request of a client
    Commands,       \* the DataCommands
    ClientOf,       \* [Groups -> Clients]
    GroupOf,        \* [Commands -> Groups], no command for a direct group
    Requests,       \* [Clients -> Seq(Groups)], what each client asks
    Script,         \* [Clients -> Seq(Commands)], their commands in order
    Steps,          \* [Commands -> Seq(Slots)], several for a RENAME
    LongGroups,     \* the requests that need a long connection
    Maps,           \* the slot maps the updaters may report
    Redirects,      \* whether servers redirect: MOVED, ASK, CLUSTERDOWN
    ReadOnly,       \* whether READONLY is sent on each new connection
    Nul,            \* the null pointer
    MaxPipe, MaxResponses,  \* MAX_PIPE and MAX_RESPONSES
    MaxBatch,       \* the events one epoll_wait returns, at most
    MaxFaults       \* bound: failures, redirections, departures together

\* The workload is well formed: a client's requests are its groups, its script
\* the commands of these groups, and a reported map sends slots to addresses.
ASSUME WorkloadAssumption ==
    /\ IsFiniteSet(Groups) /\ IsFiniteSet(Commands)
    /\ Nul \notin Servers \cup Commands
    /\ ClientOf \in [Groups -> Clients]
    /\ GroupOf \in [Commands -> Groups]
    /\ Requests \in [Clients -> Seq(Groups)]
    /\ Script \in [Clients -> Seq(Commands)]
    /\ \A c \in Clients :
        /\ NoRepeat(Requests[c])
        /\ Range(Requests[c]) \subseteq {g \in Groups : ClientOf[g] = c}
        /\ NoRepeat(Script[c])
        /\ Range(Script[c]) = {m \in Commands : ClientOf[GroupOf[m]] = c}
    /\ Steps \in [Commands -> Seq(Slots) \ {<<>>}]
    /\ LongGroups \subseteq Groups \ Range(GroupOf)
    /\ \A nm \in Maps : /\ DOMAIN nm \subseteq Slots
                        /\ nm \in [DOMAIN nm -> Servers]

ASSUME BoundsAssumption ==
    /\ MaxPipe \in Nat \ {0} /\ MaxResponses \in Nat
    /\ MaxBatch \in Nat \ {0} /\ MaxFaults \in Nat
    /\ Redirects \in BOOLEAN /\ ReadOnly \in BOOLEAN

VARIABLES
    client,         \* [Clients -> the fields of a Client and its peer's view]
    \* Server
    up,             \* ~closed()
    commands,       \* _commands
    sent,           \* _sent_commands
    output,         \* _output_buffer_set: the requests not yet written
    wire,           \* the requests written, their replies not yet read
    spoll,          \* the server's entry in Proxy::_conn_poll_type
    \* Proxy
    retrying,       \* _retrying_commands
    slotmap,        \* _server_map
    expired,        \* _slot_map_expired
    updating,       \* _slot_updaters is not empty
    want,           \* the connections registered in epoll for writing
    \* Command and CommandGroup
    left,           \* awaiting_count of the group
    stage,          \* the step a command is at
    issued,         \* history: the commands handed to select_remote
    answered,       \* history: the commands responded to
    \* handle_events
    phase,          \* what the loop is doing
    closing,        \* the servers SlotMap::replace_map or clear closes now
    active,         \* active_conns
    batch,          \* the events handled in this batch
    faults          \* the faults that have happened

serverVars == <<up, commands, sent, output, wire, spoll>>
proxyVars  == <<retrying, slotmap, expired, updating, want>>
groupVars  == <<left, stage, issued, answered>>
loopVars   == <<phase, closing, active, batch, faults>>
vars == <<client, serverVars, proxyVars, groupVars, loopVars>>

-----------------------------------------------------------------------------
CommandsOf(g) == {m \in Commands : GroupOf[m] = g}
Owner(m) == ClientOf[GroupOf[m]]
GroupsOf(c) == {g \in Groups : ClientOf[g] = c}

WaitRemoteAlways(g) == TRUE

\* wait_remote() of a CommandGroup.
WaitRemote(g) == CommandsOf(g) # {}

Updater  == "updater"
Acceptor == "acceptor"
Conns == Clients \cup Servers \cup {Updater, Acceptor}

ClientType ==
    [fd : {"none", "open", "closed", "deleted", "badio"},
     asked : Nat,                       \* requests the client has sent
     parsed : Seq(Groups), awaiting : Seq(Groups), ready : Seq(Groups),
     out : Seq(Groups),                 \* _output_buffer_set
     count : Int,                       \* _awaiting_count
     peers : SUBSET Servers,
     poll : {"none", "ro", "rw"},       \* its entry in _conn_poll_type
     got : Seq(Groups)]                 \* replies the client has received

NewClient ==
    [fd |-> "none", asked |-> 0, parsed |-> <<>>, awaiting |-> <<>>,
     ready |-> <<>>, out |-> <<>>, count |-> 0, peers |-> {},
     poll |-> "none", got |-> <<>>]

TypeOK ==
    /\ client \in [Clients -> ClientType]
    /\ up \in [Servers -> BOOLEAN]
    /\ commands \in [Servers -> Seq(Commands)]
    /\ sent \in [Servers -> Seq(Commands \cup {Nul})]
    /\ output \in [Servers -> Seq(Commands)]
    /\ wire \in [Servers -> Seq(Commands \cup {Nul})]
    /\ spoll \in [Servers -> {"none", "ro", "rw"}]
    /\ retrying \in Seq(Commands)
    /\ slotmap \in [Slots -> Servers \cup {Nul}]
    /\ expired \in BOOLEAN
    /\ updating \in BOOLEAN
    /\ want \in SUBSET (Clients \cup Servers)
    /\ left \in [Groups -> Int]
    /\ stage \in [Commands -> Nat]
    /\ issued \in SUBSET Commands
    /\ answered \in SUBSET Commands
    /\ phase \in {"events", "retrieve", "replace", "clear"}
    /\ closing \in SUBSET Servers
    /\ active \in SUBSET Conns
    /\ batch \in Nat
    /\ faults \in Nat

Init ==
    /\ client = [c \in Clients |-> NewClient]
    /\ up = [s \in Servers |-> FALSE]
    /\ commands = [s \in Servers |-> <<>>]
    /\ sent = [s \in Servers |-> <<>>]
    /\ output = [s \in Servers |-> <<>>]
    /\ wire = [s \in Servers |-> <<>>]
    /\ spoll = [s \in Servers |-> "none"]
    /\ retrying = <<>>
    /\ slotmap = [x \in Slots |-> Nul]
    /\ expired = TRUE
    /\ updating = FALSE
    /\ want = {}
    /\ left = [g \in Groups |-> Cardinality(CommandsOf(g))]
    /\ stage = [m \in Commands |-> 1]
    /\ issued = {}
    /\ answered = {}
    /\ phase = "events"
    /\ closing = {}
    /\ active = {}
    /\ batch = 0
    /\ faults = 0

-----------------------------------------------------------------------------
(***************************************************************************)
(* Routing.                                                                *)
(***************************************************************************)
\* get_server_by_slot for the slot of the n-th step of command m.
ServerAt(m, n) ==
    LET s == slotmap[Steps[m][n]]
    IN  IF s = Nul THEN Nul ELSE IF up[s] THEN s ELSE Nul

Target(m) == ServerAt(m, stage[m])

\* select_server for each command of the sequence q in turn, with To[m] the
\* server of m's slot: it joins that server's queue, or the commands to retry.
Routed(q, To) == [s \in Servers |->
                    commands[s] \o Keep(q, {m \in DOMAIN To : To[m] = s})]
Unrouted(q, To) == Keep(q, {m \in DOMAIN To : To[m] = Nul})

AddPeersNone(cl, c, To) == cl

\* add_peer, called by push_client_command.
AddPeers(cl, c, To) ==
    [cl EXCEPT !.peers =
        @ \cup ({To[m] : m \in {n \in DOMAIN To : Owner(n) = c}} \ {Nul})]

-----------------------------------------------------------------------------
\* The event of connection x is dispatched; epoll reports each one once.
Dispatch(x) ==
    /\ phase = "events"
    /\ x \notin active
    /\ batch < MaxBatch
    /\ active' = active \cup {x}
    /\ batch' = batch + 1

Fault == faults < MaxFaults /\ faults' = faults + 1
=============================================================================
