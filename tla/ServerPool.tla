----------------------------- MODULE ServerPool -----------------------------
(***************************************************************************)
(* The Server objects of a thread: servers_map, which finds the one        *)
(* connected to an address, servers_pool, which keeps the closed ones for  *)
(* reuse, and the slot map that points to them.                            *)
(*                                                                         *)
(* The methods are functions of one record, the fields of which are these  *)
(* variables.  Objects are numbered in the order they are allocated.  What *)
(* close_conn does to the commands of a server is in ServerConn.           *)
(*                                                                         *)
(* A MapThenFoldSet that chooses by Max goes up: the greatest is dealt     *)
(* with last.                                                              *)
(***************************************************************************)
EXTENDS FiniteSets, FiniteSetsExt, TLC, ClusterNodes

CONSTANTS
    Answers,        \* the answers the updaters may get
    ReadSlave,      \* whether slaves are to be read
    Filter,         \* the addresses that start with read-slave-filter
    PoolChunk,      \* the objects allocated at once, 8 in the code
    MaxObjects,     \* bound: the Server objects
    FdLimit         \* the descriptors the process may open

Objects == 1..MaxObjects

ASSUME PoolAssumption ==
    /\ Nil \notin Addrs
    /\ Slots \subseteq Nat /\ Answers \subseteq Answer
    /\ Filter \subseteq Addrs /\ ReadSlave \in BOOLEAN
    /\ {PoolChunk, MaxObjects, FdLimit} \subseteq Nat \ {0}

PoolType ==
    [objs : 0..MaxObjects,              \* how many were allocated
     open : [Objects -> BOOLEAN],       \* ~closed()
     addr : [Objects -> Addrs \cup {Nil}],
     map : UNION {[A -> Objects] : A \in SUBSET Addrs},     \* servers_map
     pool : Seq(Objects),               \* servers_pool
     slots : [Slots -> Objects \cup {Nil}],                 \* SlotMap
     shut : SUBSET Objects]             \* those closed in this operation

NoServers ==
    [objs |-> 0,
     open |-> [o \in Objects |-> FALSE],
     addr |-> [o \in Objects |-> Nil],
     map |-> <<>>,
     pool |-> <<>>,
     slots |-> [s \in Slots |-> Nil],
     shut |-> {}]

OpenObjects(p) == {o \in Objects : p.open[o]}
MappedObjects(p) == {p.slots[s] : s \in Slots} \ {Nil}

-----------------------------------------------------------------------------
\* remove_entry.
RemoveEntry(p, o) ==
    [p EXCEPT !.map = [a \in DOMAIN p.map \ {p.addr[o]} |-> p.map[a]],
              !.pool = Append(@, o)]

CloseConnAgain(p, o) ==
    RemoveEntry([p EXCEPT !.open[o] = FALSE, !.shut = @ \cup {o}], o)

\* close_conn, which does nothing to a closed server.  Its long connections
\* are dealt with at the end of the operation, by what it leaves in shut.
CloseConn(p, o) ==
    IF ~p.open[o] THEN p
    ELSE RemoveEntry([p EXCEPT !.open[o] = FALSE, !.shut = @ \cup {o}], o)

CloseAll(p, S) ==
    MapThenFoldSet(LAMBDA o, q : CloseConn(q, o), p, LAMBDA o : o, Max, S)

\* _reconnect and the handler of its failure: without a free descriptor the
\* object stays as it was; a refused connection is closed again.
Reconnect(p, o, a, refused, used) ==
    LET opened == [p EXCEPT !.open[o] = TRUE, !.addr[o] = a]
    IN  IF used + Cardinality(OpenObjects(p)) >= FdLimit THEN p
        ELSE IF refused THEN CloseConn(opened, o) ELSE opened

\* An empty pool is filled with new objects.
Filled(p) ==
    IF p.pool # <<>> THEN p
    ELSE [p EXCEPT !.pool = [i \in 1..PoolChunk |-> p.objs + i],
                   !.objs = @ + PoolChunk]

\* get_server and _alloc_server: the pool's last object serves address a.
\* insert leaves an entry that is there as it is.
GetServer(p, a, refused, used) ==
    LET full == Filled(p)
        o == full.pool[Len(full.pool)]
        tried == Reconnect(full, o, a, refused, used)
        taken == [tried EXCEPT !.pool = SubSeq(@, 1, Len(@) - 1)]
    IN  IF a \in DOMAIN p.map /\ p.open[p.map[a]]
        THEN [pool |-> p, server |-> p.map[a]]
        ELSE [pool |-> [taken EXCEPT !.map = @ @@ (a :> o)], server |-> o]

-----------------------------------------------------------------------------
SlaveOfAny(nodes) ==
    MapThenFoldSet(LAMBDA n, m : IF n.master = Nil THEN m ELSE (n.master :> n.addr) @@ m,
                   <<>>, LAMBDA i : nodes[i], Max, DOMAIN nodes)

\* slave_of_map: the slave to be used for each master.  Once one that
\* matches the filter is found it is kept, else the next one replaces it.
SlaveOf(nodes) ==
    MapThenFoldSet(LAMBDA n, m :
                        IF \/ n.master = Nil
                           \/ n.master \in DOMAIN m /\ m[n.master] \in Filter
                        THEN m ELSE (n.master :> n.addr) @@ m,
                   <<>>, LAMBDA i : nodes[i], Max, DOMAIN nodes)

\* The address that is to serve the slots of node n.
AddressFor(nodes, n) ==
    LET slave == SlaveOf(nodes)
    IN  IF ReadSlave /\ n.id \in DOMAIN slave THEN slave[n.id] ELSE n.addr

RemovedServersNone(removed, mapped) == {}

RemovedServers(removed, mapped) == (removed \ mapped) \ {Nil}

\* replace_map: the slots of each node in turn are given its server; then the
\* servers that lost a slot and were given none are closed.  The connections
\* to the addresses in refused fail.
ReplaceMap(p, nodes, refused, used) ==
    LET Place(n, acc) ==
            LET a == AddressFor(nodes, n)
                g == GetServer(acc.pool, a, a \in refused, used)
            IN  IF n.slots = {} THEN acc
                ELSE [pool |-> [g.pool EXCEPT !.slots =
                                [s \in Slots |-> IF s \in n.slots
                                    THEN g.server ELSE g.pool.slots[s]]],
                      removed |-> acc.removed \cup
                                  {g.pool.slots[s] : s \in n.slots},
                      mapped |-> acc.mapped \cup {g.server}]
        placed == MapThenFoldSet(Place, [pool |-> p, removed |-> {}, mapped |-> {}],
                                 LAMBDA i : nodes[i], Max, DOMAIN nodes)
    IN  CloseAll(placed.pool, RemovedServers(placed.removed, placed.mapped))

\* SlotMap::clear.
ClearMap(p) ==
    [CloseAll(p, MappedObjects(p)) EXCEPT !.slots = [s \in Slots |-> Nil]]

-----------------------------------------------------------------------------
\* What the configuration promises: a slot is served by the node that has it
\* and works; with read-slave by a slave of it that works, one that matches
\* the filter if there is one.
Acceptable(answer, s) ==
    LET works == {n \in Range(answer.lines) :
                    n.words >= 8 /\ "fail" \notin n.flags /\ "fail?" \notin n.flags}
        master == CHOOSE n \in works :
                    \E r \in RangesAre("range", n) : s \in r.first..r.last
        slaves == {n \in works : n.master = master.id}
        best == {n \in slaves : n.host \in Filter}
    IN  {IF n.host = Nil THEN answer.from ELSE n.host :
            n \in IF ~ReadSlave \/ slaves = {} THEN {master}
                  ELSE IF best = {} THEN slaves ELSE best}
=============================================================================
