---------------------------- MODULE Connections ----------------------------
(***************************************************************************)
(* Who owns a client's descriptor, from the acceptor through Client and    *)
(* LongConnection objects (SUBSCRIBE and BLPOP) and back, what frees these *)
(* objects, and the Server objects they are attached to, in one event-loop *)
(* thread.                                                                 *)
(*                                                                         *)
(* A LongConnection has two ends: the near end holds the client's          *)
(* descriptor, the far end a connection of its own to the redis node.      *)
(* Events of both may be in one batch.  What the clients ask besides is in *)
(* ClientConn.                                                             *)
(***************************************************************************)
EXTENDS ServerPool

CONSTANTS
    Socks,          \* the sockets of clients
    Longs,          \* the LongConnection objects
    MaxBatch,       \* the events one epoll_wait returns, at most
    MaxConnects,    \* bound: connections of clients
    MaxUpdates,     \* bound: slot map updates
    MaxFaults       \* bound: servers lost, connections refused or aborted

ASSUME ConnectionsAssumption ==
    /\ IsFiniteSet(Socks) /\ IsFiniteSet(Longs)
    /\ Nil \notin Socks \cup Longs
    /\ MaxBatch \in Nat \ {0}
    /\ {MaxConnects, MaxUpdates, MaxFaults} \subseteq Nat

VARIABLES
    pool,           \* the Server objects and the slot map
    attached,       \* the long connections attached to each Server
    inactive,       \* Proxy::_inactive_long_connections
    want,           \* history: the addresses that may serve each slot
    refusal,        \* history: a slot was given a server that is closed
    sock,           \* the clients' sockets as the kernel has them; "other" if
                    \* the number is now a descriptor of another thread
    client,         \* the Client object of each socket; "thrown" if its
                    \* descriptor was closed by an exception on its way to it
    long,           \* the LongConnection objects
    fdClosed,       \* Proxy::_fd_closed
    accepting,      \* Acceptor::_accepting: it is registered in epoll
    edge,           \* epoll has an event for the acceptor
    slipped,        \* history: the accept loop was left early, or a descriptor
                    \* was freed behind the back of a stopped acceptor
    phase,          \* what handle_events is doing
    batch,          \* the connections whose events are still to be handled
    active,         \* active_conns
    exited,         \* why the process has ended
    connects, updates, faults

poolVars == <<pool, attached, inactive>>
longVars == <<sock, client, long>>
acceptVars == <<accepting, edge>>
loopVars == <<phase, batch, active>>
mapVars == <<want, refusal, updates>>
vars == <<poolVars, mapVars, longVars, fdClosed, acceptVars, slipped, loopVars,
          exited, connects, faults>>

Near(l) == <<"near", l>>
Far(l) == <<"far", l>>
OfClient(k) == <<"client", k>>
OfServer(o) == <<"server", o>>
Updater == <<"updater", Nil>>
Acceptor == <<"acceptor", Nil>>

Conns == {Near(l) : l \in Longs} \cup {Far(l) : l \in Longs}
            \cup {OfClient(k) : k \in Socks} \cup {OfServer(o) : o \in Objects}
            \cup {Updater, Acceptor}

LongType == [state : {"new", "live", "freed"}, kind : {"sub", "pop"},
             server : Objects \cup {Nil},   \* _attached_server
             near : Socks \cup {Nil},       \* fd
             far : BOOLEAN]                 \* ~_server.closed()

Live == {l \in Longs : long[l].state = "live"}

\* A LongConnection that does not exist holds no descriptor.
OnlyLive == \A l \in Longs : l \notin Live => long[l].near = Nil /\ ~long[l].far

TypeOK ==
    /\ pool \in PoolType
    /\ attached \in [Objects -> SUBSET Longs]
    /\ inactive \in SUBSET Longs
    /\ want \in [Slots -> SUBSET Addrs]
    /\ refusal \in BOOLEAN
    /\ sock \in [Socks -> {"off", "waiting", "open", "other"}]
    /\ client \in [Socks -> {"none", "open", "thrown", "closed"}]
    /\ long \in [Longs -> LongType] /\ OnlyLive
    /\ {fdClosed, accepting, edge, slipped} \subseteq BOOLEAN
    /\ phase \in {"wait", "events", "clean"}
    /\ batch \in SUBSET Conns /\ active \in SUBSET Conns
    /\ exited \in {"no", "badio", "ioerror", "badreply", "dangling", "null"}
    /\ connects \in 0..MaxConnects
    /\ updates \in 0..MaxUpdates
    /\ faults \in 0..MaxFaults

Init ==
    /\ pool = NoServers
    /\ attached = [o \in Objects |-> {}]
    /\ inactive = {}
    /\ want = [s \in Slots |-> {}]
    /\ refusal = FALSE
    /\ sock = [k \in Socks |-> "off"]
    /\ client = [k \in Socks |-> "none"]
    /\ long = [l \in Longs |-> [state |-> "new", kind |-> "sub", server |-> Nil,
                                near |-> Nil, far |-> FALSE]]
    /\ fdClosed = FALSE
    /\ accepting = TRUE /\ edge = FALSE /\ slipped = FALSE
    /\ phase = "wait" /\ batch = {} /\ active = {}
    /\ exited = "no"
    /\ connects = 0 /\ updates = 0 /\ faults = 0

Waiting == {k \in Socks : sock[k] = "waiting"}
Thrown == {k \in Socks : client[k] = "thrown"}

\* The descriptors in use, those of the servers apart.
Used == Cardinality({k \in Socks : sock[k] = "open"})
            + Cardinality({l \in Longs : long[l].far})
Room == FdLimit - Used - Cardinality(OpenObjects(pool))

Fault == faults < MaxFaults /\ faults' = faults + 1

-----------------------------------------------------------------------------
(***************************************************************************)
(* The loop.                                                               *)
(***************************************************************************)
\* The connections epoll may report.
Ready ==
    {OfClient(k) : k \in {j \in Socks : client[j] = "open"}}
        \cup {Near(l) : l \in {m \in Live : long[m].near # Nil}}
        \cup {Far(l) : l \in {m \in Live : long[m].far}}
        \cup {OfServer(o) : o \in OpenObjects(pool)}
        \cup (IF updates < MaxUpdates THEN {Updater} ELSE {})
        \cup (IF edge THEN {Acceptor} ELSE {})

\* epoll_wait returns the events of B, and handle_events begins: the near ends
\* of the inactive long connections are closed and their events skipped.
Wait ==
    /\ phase = "wait" /\ exited = "no"
    /\ inactive \subseteq Live
    /\ \E B \in SUBSET Ready :
        /\ Cardinality(B) \in 1..MaxBatch
        /\ batch' = B \ {Near(l) : l \in inactive}
    /\ LET ended == {long[l].near : l \in inactive} \ {Nil}
       IN  sock' = [k \in Socks |-> IF k \in ended THEN "off" ELSE sock[k]]
    /\ long' = [l \in Longs |-> IF l \in inactive
                    THEN [long[l] EXCEPT !.near = Nil] ELSE long[l]]
    /\ fdClosed' = (fdClosed \/ inactive # {})
    /\ inactive' = {}
    /\ phase' = "events"
    /\ UNCHANGED <<pool, attached, mapVars, client, acceptVars, slipped, active,
                   exited, connects, faults>>

Exit(why) ==
    /\ exited' = why
    /\ UNCHANGED <<poolVars, mapVars, longVars, fdClosed, acceptVars, slipped,
                   connects>>

\* The inactive long connections include one that was deleted: what close()
\* does to it is not defined.
WaitDangling ==
    /\ phase = "wait" /\ exited = "no"
    /\ Ready # {} /\ ~(inactive \subseteq Live)
    /\ Exit("dangling")
    /\ UNCHANGED <<loopVars, faults>>

\* The event of connection c is handled.
Handle(c) ==
    /\ phase = "events" /\ exited = "no" /\ Thrown = {}
    /\ c \in batch
    /\ batch' = batch \ {c}
    /\ active' = active \cup {c}
    /\ UNCHANGED phase

EndEvents ==
    /\ phase = "events" /\ exited = "no" /\ Thrown = {}
    /\ batch = {}
    /\ phase' = "clean"
    /\ UNCHANGED <<poolVars, mapVars, longVars, fdClosed, acceptVars, slipped,
                   batch, active, exited, connects, faults>>

TurnOn(closed) == accepting \/ closed

\* after_events has been called for all: the end of handle_events.
Finish ==
    /\ phase = "clean" /\ active = {}
    /\ phase' = "wait"
    /\ fdClosed' = FALSE
    /\ accepting' = TurnOn(fdClosed)
    /\ edge' = (edge \/ (~accepting /\ accepting' /\ Waiting # {}))
    /\ slipped' = (slipped /\ accepting = accepting')
    /\ UNCHANGED <<poolVars, mapVars, longVars, batch, active, exited, connects,
                   faults>>

-----------------------------------------------------------------------------
(***************************************************************************)
(* The acceptor.                                                           *)
(***************************************************************************)
\* A client connects.  While the loop is at work this is as if it came later.
Connect(k) ==
    /\ phase = "wait" /\ exited = "no"
    /\ sock[k] = "off" /\ client[k] = "none"
    /\ connects < MaxConnects
    /\ connects' = connects + 1
    /\ sock' = [sock EXCEPT ![k] = "waiting"]
    /\ edge' = (edge \/ accepting)
    /\ slipped' = (slipped /\ ~accepting)
    /\ UNCHANGED <<poolVars, mapVars, client, long, fdClosed, accepting, loopVars,
                   exited, faults>>

\* The accept loop takes the connections of S and meets an error: no
\* descriptor is left, none waits, or one was aborted.
Accept(S) ==
    /\ Handle(Acceptor)
    /\ S \subseteq Waiting /\ Cardinality(S) <= Room
    /\ client' = [k \in Socks |-> IF k \in S THEN "open" ELSE client[k]]
    /\ edge' = FALSE
    /\ \/ /\ Cardinality(S) = Room
          /\ accepting' = FALSE
          /\ sock' = [k \in Socks |-> IF k \in S THEN "open" ELSE sock[k]]
          /\ UNCHANGED <<slipped, faults>>
       \/ /\ Cardinality(S) < Room /\ S = Waiting
          /\ sock' = [k \in Socks |-> IF k \in S THEN "open" ELSE sock[k]]
          /\ UNCHANGED <<accepting, slipped, faults>>
       \/ /\ Cardinality(S) < Room
          /\ Fault
          /\ slipped' = TRUE
          /\ \E aborted \in Waiting \ S :
                sock' = [k \in Socks |-> IF k \in S THEN "open"
                            ELSE IF k = aborted THEN "off" ELSE sock[k]]
          /\ UNCHANGED accepting
    /\ UNCHANGED <<poolVars, mapVars, long, fdClosed, exited, connects>>

-----------------------------------------------------------------------------
(***************************************************************************)
(* Clients that leave or ask for a long connection.                        *)
(***************************************************************************)
CloseClient(k) ==
    /\ client' = [client EXCEPT ![k] = "closed"]
    /\ sock' = [sock EXCEPT ![k] = "off"]
    /\ UNCHANGED <<long, poolVars>>

ClientGone(k) ==
    /\ Handle(OfClient(k))
    /\ CloseClient(k)
    /\ UNCHANGED <<mapVars, fdClosed, acceptVars, slipped, exited, connects,
                   faults>>

\* deliver_client has made the LongConnection l of client k, attached to o.
Convert(k, l, kind, o) ==
    /\ client' = [client EXCEPT ![k] = "closed"]
    /\ long' = [long EXCEPT ![l] = [state |-> "live", kind |-> kind,
                                    server |-> o, near |-> k, far |-> TRUE]]
    /\ attached' = [attached EXCEPT ![o] = @ \cup {l}]
    /\ UNCHANGED <<sock, pool, inactive>>

\* The server of slot s, for SUBSCRIBE a random one: it may be closed.
ServerFor(kind, s) ==
    LET o == pool.slots[s]
    IN  IF kind = "pop" /\ o # Nil /\ ~pool.open[o] THEN Nil ELSE o

\* SUBSCRIBE or BLPOP.
AskLong(k, kind, s) ==
    /\ Handle(OfClient(k))
    /\ LET o == ServerFor(kind, s)
           new == {l \in Longs : long[l].state = "new"}
       IN  IF o \notin Objects
           THEN CloseClient(k)
           ELSE /\ pool.addr[o] # Nil
                /\ Room > 0
                /\ \E l \in new : Convert(k, l, kind, o)
    /\ UNCHANGED <<mapVars, fdClosed, acceptVars, slipped, exited, connects, faults>>

\* The constructor of the far end throws, for want of a descriptor or because
\* it cannot connect or write: the near end, just constructed, is destroyed,
\* detached and its descriptor closed, while the Client still has the number.
AskLongThrows(k, kind, s) ==
    /\ Handle(OfClient(k))
    /\ ServerFor(kind, s) \in Objects /\ pool.addr[ServerFor(kind, s)] # Nil
    /\ \/ Room = 0 /\ UNCHANGED faults
       \/ Room > 0 /\ Fault
    /\ client' = [client EXCEPT ![k] = "thrown"]
    /\ sock' = [sock EXCEPT ![k] = "off"]
    /\ UNCHANGED <<long, poolVars, mapVars, fdClosed, acceptVars, slipped, exited,
                   connects>>

\* Meanwhile another thread opens a descriptor and is given the number.
NumberReused(k) ==
    /\ exited = "no"
    /\ k \in Thrown /\ sock[k] = "off"
    /\ sock' = [sock EXCEPT ![k] = "other"]
    /\ UNCHANGED <<client, long, poolVars, mapVars, fdClosed, acceptVars, slipped,
                   loopVars, exited, connects, faults>>

\* Client::on_events catches the exception and closes the number again,
\* whosever it is by now.
CloseAgain(k) ==
    /\ exited = "no"
    /\ k \in Thrown
    /\ CloseClient(k)
    /\ UNCHANGED <<mapVars, fdClosed, acceptVars, slipped, loopVars, exited, connects,
                   faults>>

\* The server of the slot was never connected: it has no Proxy to count with.
AskLongNull(k, s) ==
    /\ Handle(OfClient(k))
    /\ pool.slots[s] # Nil
    /\ pool.addr[pool.slots[s]] = Nil
    /\ Exit("null")
    /\ UNCHANGED faults

-----------------------------------------------------------------------------
(***************************************************************************)
(* The two ends of a long connection.                                      *)
(***************************************************************************)
\* The near end hangs up or reads nothing: close(), if it is not closed.
NearGone(l) ==
    /\ Handle(Near(l))
    /\ sock' = [k \in Socks |-> IF k = long[l].near THEN "off" ELSE sock[k]]
    /\ long' = [long EXCEPT ![l].near = Nil]
    /\ UNCHANGED <<poolVars, mapVars, client, fdClosed, acceptVars, slipped, exited,
                   connects, faults>>

\* The client of a long connection has sent something: it is thrown away.
NearData(l) ==
    /\ Handle(Near(l))
    /\ long[l].near # Nil
    /\ UNCHANGED <<poolVars, mapVars, longVars, fdClosed, acceptVars, slipped,
                   exited, connects, faults>>

RestoredKept(rec) == rec

\* The fields after restore_client, when the client is not closed.
Restored(rec) == [rec EXCEPT !.near = Nil]

\* restore_client: the near end's descriptor is given to a new Client.  rec is
\* the connection before it.
RestoreClient(l, rec) ==
    /\ client' = [k \in Socks |-> IF k = rec.near THEN "open" ELSE client[k]]
    /\ long' = [long EXCEPT ![l] = Restored(rec)]
    /\ UNCHANGED sock

\* The far end hangs up or reads nothing.  A client blocked in a pop gets Nil
\* and is a normal client again.
FarGone(l) ==
    /\ Handle(Far(l))
    /\ LET rec == [long[l] EXCEPT !.far = FALSE]
       IN  IF rec.kind = "pop" THEN RestoreClient(l, rec)
           ELSE long' = [long EXCEPT ![l] = rec] /\ UNCHANGED <<client, sock>>
    /\ UNCHANGED <<poolVars, mapVars, fdClosed, acceptVars, slipped, exited,
                   connects, faults>>

\* A message of the subscription is passed on; when the write fails the far
\* end is closed.
Message(l) ==
    /\ Handle(Far(l))
    /\ long[l].kind = "sub" /\ long[l].near # Nil
    /\ \/ UNCHANGED <<long, faults>>
       \/ Fault /\ long' = [long EXCEPT ![l].far = FALSE]
    /\ UNCHANGED <<poolVars, mapVars, sock, client, fdClosed, acceptVars, slipped,
                   exited, connects>>

\* The reply to the pop is complete, or it is not yet.
PopReply(l) ==
    /\ Handle(Far(l))
    /\ long[l].kind = "pop"
    /\ \/ RestoreClient(l, long[l])
       \/ UNCHANGED longVars
    /\ UNCHANGED <<poolVars, mapVars, fdClosed, acceptVars, slipped, exited,
                   connects, faults>>

\* read or write on descriptor -1 raises SystemError: the near end of a pop
\* that has been restored, and a subscription whose client is gone.
BadIO(l) ==
    /\ \/ Handle(Near(l))
       \/ Handle(Far(l)) /\ long[l].kind = "sub"
    /\ long[l].near = Nil
    /\ Exit("badio")
    /\ UNCHANGED faults

\* restore_client fails to write, and so it does again in on_error, whence
\* the IOError leaves handle_events.
RestoreFails(l) ==
    /\ Handle(Far(l))
    /\ long[l].kind = "pop" /\ long[l].near # Nil
    /\ Fault
    /\ Exit("ioerror")

\* The reply to the pop is malformed: nothing catches the BadRedisMessage.
BadReply(l) ==
    /\ Handle(Far(l))
    /\ long[l].kind = "pop"
    /\ Fault
    /\ Exit("badreply")

-----------------------------------------------------------------------------
(***************************************************************************)
(* Servers and the slot map.                                               *)
(***************************************************************************)
\* An operation takes the Server objects to p.  close_conn has handed the long
\* connections of the servers it closed to the Proxy, which nothing in the
\* operation looks at.
PoolBecomes(p) ==
    /\ pool' = [p EXCEPT !.shut = {}]
    /\ attached' = [o \in Objects |-> IF o \in p.shut THEN {} ELSE attached[o]]
    /\ inactive' = inactive \cup UNION {attached[o] : o \in Objects \cap p.shut}

\* The server hangs up; it may have been closed in this batch.
ServerGone(o) ==
    /\ Handle(OfServer(o))
    /\ Fault
    /\ IF pool.open[o] THEN PoolBecomes(CloseConn(pool, o))
                       ELSE UNCHANGED poolVars
    /\ slipped' = (slipped \/ (~accepting /\ pool.open[o]))
    /\ UNCHANGED <<mapVars, longVars, fdClosed, acceptVars, exited, connects>>

\* Any other event of a server; what it does is in ServerConn.
ServerData(o) ==
    /\ Handle(OfServer(o))
    /\ UNCHANGED <<poolVars, mapVars, longVars, fdClosed, acceptVars, slipped,
                   exited, connects, faults>>

\* Bound: the update can do with MaxObjects objects.
ObjectsLeft ==
    \/ Len(pool.pool) >= Cardinality(Slots)
    \/ pool.objs + PoolChunk <= MaxObjects

\* An updater has an answer with all slots; connections to the addresses in
\* refused fail at once.
Update ==
    /\ Handle(Updater)
    /\ ObjectsLeft
    /\ updates' = updates + 1
    /\ \E answer \in Answers, refused \in {{}} \cup {{a} : a \in Addrs} :
        /\ CoveredSlots(ParseSlotMap(answer)) = Slots
        /\ faults' = faults + Cardinality(refused)
        /\ faults' <= MaxFaults
        /\ PoolBecomes(ReplaceMap(pool, ParseSlotMap(answer), refused, Used))
        /\ want' = [s \in Slots |-> Acceptable(answer, s)]
        /\ refusal' = (\/ refusal
                       \/ refused # {}
                       \/ \E s \in Slots : ~pool'.open[pool'.slots[s]])
    /\ slipped' = (slipped \/ ~accepting)
    /\ UNCHANGED <<longVars, fdClosed, acceptVars, exited, connects>>

\* No updater has an acceptable answer.
UpdateFailed ==
    /\ Handle(Updater)
    /\ updates' = updates + 1
    /\ PoolBecomes(ClearMap(pool))
    /\ slipped' = (slipped \/ ~accepting)
    /\ UNCHANGED <<want, refusal, longVars, fdClosed, acceptVars, exited,
                   connects, faults>>

-----------------------------------------------------------------------------
(***************************************************************************)
(* The end of the batch: after_events of the active connections, in any    *)
(* order.                                                                  *)
(***************************************************************************)
FreedLeaking(rec) == [rec EXCEPT !.state = "freed", !.near = Nil]

\* ~FDWrapper closes the descriptors of both ends.
Freed(rec) == [rec EXCEPT !.state = "freed", !.near = Nil, !.far = FALSE]

\* The LongConnection l is deleted, its far end with it.
Free(l) ==
    /\ long' = [long EXCEPT ![l] = Freed(@)]
    /\ sock' = [k \in Socks |-> IF k = long[l].near THEN "off" ELSE sock[k]]
    /\ attached' = [attached EXCEPT ![long[l].server] = @ \ {l}]
    /\ slipped' = (slipped \/ ~accepting)
    /\ UNCHANGED <<client, fdClosed, pool, inactive>>

FdClosedNot(closed) == closed

\* Proxy::pop_client, by ~Client, of the flag.
FdClosed(closed) == TRUE

Delete(k) ==
    /\ client' = [client EXCEPT ![k] = "none"]
    /\ fdClosed' = FdClosed(fdClosed)
    /\ UNCHANGED <<sock, long, poolVars, slipped>>

ErasedNone(l) == {}

\* What the deletion of l takes out of active_conns.
Erased(l) == {Near(l), Far(l)}

ClosedEndsNear == {Near(l) : l \in {m \in Longs : long[m].near = Nil}}

ClosedEnds ==
    {Near(l) : l \in {m \in Longs : long[m].near = Nil}}
        \cup {Far(l) : l \in {m \in Longs : ~long[m].far}}

ClosedClients == {OfClient(k) : k \in {j \in Socks : client[j] = "closed"}}

AfterEvents(c) ==
    /\ phase = "clean" /\ exited = "no"
    /\ c \in active
    /\ \/ /\ c \in ClosedEnds
          /\ Free(c[2])
          /\ active' = active \ ({c} \cup Erased(c[2]))
       \/ /\ c \in ClosedClients
          /\ Delete(c[2])
          /\ active' = active \ {c}
       \/ /\ c \notin ClosedEnds \cup ClosedClients
          /\ active' = active \ {c}
          /\ UNCHANGED <<poolVars, longVars, fdClosed, slipped>>
    /\ UNCHANGED <<mapVars, acceptVars, phase, batch, exited, connects, faults>>

Next ==
    \/ Wait \/ WaitDangling \/ EndEvents \/ Finish
    \/ \E c \in active : AfterEvents(c)
    \/ \E k \in Socks :
        \/ Connect(k) \/ ClientGone(k) \/ NumberReused(k) \/ CloseAgain(k)
        \/ \E s \in Slots :
            \/ \E kind \in {"sub", "pop"} : AskLong(k, kind, s) \/ AskLongThrows(k, kind, s)
            \/ AskLongNull(k, s)
    \/ \E S \in SUBSET Waiting : Accept(S)
    \/ \E l \in Longs : \/ NearGone(l) \/ NearData(l) \/ FarGone(l) \/ Message(l)
                        \/ PopReply(l) \/ BadIO(l) \/ RestoreFails(l) \/ BadReply(l)
    \/ \E o \in Objects : ServerGone(o) \/ ServerData(o)
    \/ Update \/ UpdateFailed

Spec == Init /\ [][Next]_vars

-----------------------------------------------------------------------------
(***************************************************************************)
(* Properties.                                                             *)
(***************************************************************************)
\* The objects whose fd is k.
Holders(k) ==
    {OfClient(j) : j \in {i \in {k} : client[i] \in {"open", "thrown"}}}
        \cup {Near(l) : l \in {m \in Live : long[m].near = k}}

\* A client's descriptor belongs to one object at any time, be it a Client, a
\* Subscription or a BlockedListPop, and a closed one to none: deliver_client
\* and restore_client hand it over, and everything else that closes it lets go
\* of it.  There is one exception, and it is a defect: while the exception of a
\* far end's constructor is on its way to the Client's on_events, the Client
\* alone has the number of a descriptor that is closed, and then closes it a
\* second time.
OneOwner ==
    \A k \in Socks :
        /\ Cardinality(Holders(k)) = IF sock[k] = "open" \/ k \in Thrown THEN 1 ELSE 0
        /\ k \in Thrown => sock[k] # "open" /\ phase = "events"

\* No handler and no after_events is called for an end of a long connection
\* that has been deleted, though either end deletes both in the middle of the
\* loop over active_conns.
ObjectsOutliveEvents ==
    \A l \in Longs :
        {Near(l), Far(l)} \cap (batch \cup active) # {} => l \in Live

\* Between batches a long connection has a far end open, whose events can still
\* delete it; and while it has a client, either its Server knows of it or its
\* client is about to be closed.  A Server knows of no deleted one.
LongsAttended ==
    /\ phase = "wait" => \A l \in Live : long[l].far
    /\ \A l \in Live :
        long[l].near # Nil => l \in attached[long[l].server] \cup inactive
    /\ \A o \in Objects : attached[o] \subseteq Live

\* No connection waits at a listening socket that nothing will wake: either
\* epoll has an event for the acceptor, or it has stopped for want of a
\* descriptor.  Not covered (slipped) are a loop left at ECONNABORTED and
\* descriptors freed by others than clients.
AcceptorAwake ==
    phase = "wait" /\ Waiting # {} =>
        edge \/ slipped \/ (~accepting /\ Room = 0)

\* servers_pool holds closed Servers, each once, whatever closes them first: an
\* event, a slot map, a failed connect.
PoolClosed ==
    \A i \in 1..Len(pool.pool) :
        /\ ~pool.open[pool.pool[i]]
        /\ \A j \in 1..(i - 1) : pool.pool[j] # pool.pool[i]

\* Objects are recycled and addresses move from slot to slot, but the Server
\* open for a slot is connected to a node that may serve it by the last map.
\* This takes that every connect of replace_map could be begun: one that is
\* refused at once leaves its Server in the pool and in the map.
RightNode ==
    ~refusal =>
        \A s \in Slots : LET o == pool.slots[s]
                         IN  o # Nil /\ pool.open[o] => pool.addr[o] \in want[s]

\* A Server that serves no slot any more has been closed: no map leaves a
\* connection behind.
OpenServersMapped == ~refusal => OpenObjects(pool) \subseteq MappedObjects(pool)

\* No event makes the proxy read from or write to descriptor -1.
NoIOOnClosedFd == exited # "badio"
=============================================================================
