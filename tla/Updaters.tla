------------------------------ MODULE Updaters ------------------------------
(***************************************************************************)
(* The slot map updates of the proxy's threads: in a round a thread asks   *)
(* all known remotes at once for CLUSTER NODES, one SlotsMapUpdater each.  *)
(* The list of remotes is shared by the threads; UPDATESLOTMAP and         *)
(* SETREMOTES, given to one thread, ask every thread for an update.        *)
(*                                                                         *)
(* The commands that wait for a new map are the set of their slots; an     *)
(* answer is the slots it covers and the nodes it names.                   *)
(***************************************************************************)
EXTENDS Integers, FiniteSets

CONSTANTS
    Threads,
    Slots,
    Addrs,          \* the addresses of the redis nodes
    Answers,        \* the answers a node may give: [slots, nodes]
    Coverages,      \* the settings of cluster-require-full-coverage
    QuietClose,     \* whether a node may close a connection it was asked on
    MaxOrders       \* bound: client requests that ask for an update

ASSUME AnswersAssumption ==
    /\ IsFiniteSet(Slots) /\ Slots # {}
    /\ Answers \subseteq [slots : SUBSET Slots, nodes : SUBSET Addrs]
    /\ Coverages \subseteq BOOLEAN /\ QuietClose \in BOOLEAN
    /\ MaxOrders \in Nat

VARIABLES
    reqFullCov,     \* req_full_cov, set when the program starts
    remotes,        \* remote_addrs, shared
    updater,        \* [Threads -> _slot_updaters], by address
    finished,       \* [Threads -> _finished_slot_updaters], by address
    events,         \* [Threads -> the events of the batch still to handle]
    inbatch,        \* the threads inside handle_events
    lost,           \* the threads with a closed server among active_conns
    retry,          \* [Threads -> the slots of _retrying_commands]
    served,         \* [Threads -> the slots with a Server in _server_map, be it
                    \* open or closed]
    expired,        \* [Threads -> _slot_map_expired]
    orders,         \* the client requests that have asked for an update
    exited          \* the process has ended

vars == <<reqFullCov, remotes, updater, finished, events, inbatch, lost, retry,
          served, expired, orders, exited>>

None == [state |-> "none", slots |-> {}, nodes |-> {}]
New  == [None EXCEPT !.state = "connecting"]

ClosedNot(S, N) == [state |-> "asked", slots |-> S, nodes |-> N]

\* An updater that is through, with the slots and the nodes of its answer.
Closed(S, N) == [state |-> "closed", slots |-> S, nodes |-> N]

\* The event of some client or server.
Other == "other"

\* Only an updater that is closed has got anything (_notify_updated closes it
\* before it tells the proxy).
UpdaterType ==
    [state : {"none", "connecting", "asked", "eof"}, slots : {{}}, nodes : {{}}]
        \cup [state : {"closed"}, slots : SUBSET Slots, nodes : SUBSET Addrs]

TypeOK ==
    /\ reqFullCov \in BOOLEAN
    /\ remotes \subseteq Addrs
    /\ updater \in [Threads -> [Addrs -> UpdaterType]]
    /\ finished \in [Threads -> [Addrs -> UpdaterType]]
    /\ events \in [Threads -> SUBSET (Addrs \cup {Other})]
    /\ inbatch \subseteq Threads
    /\ lost \subseteq Threads
    /\ retry \in [Threads -> SUBSET Slots]
    /\ served \in [Threads -> SUBSET Slots]
    /\ expired \in [Threads -> BOOLEAN]
    /\ orders \in Nat
    /\ exited \in BOOLEAN

Init ==
    /\ reqFullCov \in Coverages
    /\ remotes \in SUBSET Addrs
    /\ updater = [t \in Threads |-> [a \in Addrs |-> None]]
    /\ finished = [t \in Threads |-> [a \in Addrs |-> None]]
    /\ events = [t \in Threads |-> {}]
    /\ inbatch = {}
    /\ lost = {}
    /\ retry = [t \in Threads |-> {}]
    /\ served = [t \in Threads |-> {}]
    /\ expired = [t \in Threads |-> TRUE]
    /\ orders = 0
    /\ exited = FALSE

Round(t) == {a \in Addrs : updater[t][a].state # "none"}
Past(t) == {a \in Addrs : finished[t][a].state # "none"}
Open(t) == {a \in Addrs : updater[t][a].state \in {"connecting", "asked", "eof"}}

-----------------------------------------------------------------------------
(***************************************************************************)
(* The end of a round.                                                     *)
(***************************************************************************)
FinishedDropped(t, us) == [a \in Addrs |-> None]

\* _move_closed_slot_updaters: the updaters live on to the end of the batch.
Finished(t, us) ==
    [a \in Addrs |-> IF us[a].state # "none" THEN us[a] ELSE finished[t][a]]

MoveClosedSlotUpdaters(t, us) ==
    /\ finished' = [finished EXCEPT ![t] = Finished(t, us)]
    /\ updater' = [updater EXCEPT ![t] = [a \in Addrs |-> None]]

\* _set_slot_map: the commands for a slot without a Server, or with a closed
\* one, are kept, and make the map expire at once.  A slot's Server is closed
\* if it cannot be connected to, or if the map does not cover the slot and
\* replace_map has closed it.
SetSlotMap(t, u) ==
    /\ served' = [served EXCEPT ![t] = @ \cup u.slots]
    /\ \E down \in SUBSET served'[t] :
            retry' = [retry EXCEPT ![t] = @ \ (served'[t] \ down)]
    /\ expired' = [expired EXCEPT ![t] = retry'[t] # {}]
    /\ remotes' = u.nodes

CandidatesAny(us) == DOMAIN us

\* Of the closed updaters, one of those with the most slots.
Candidates(us) ==
    {a \in DOMAIN us :
        \A b \in DOMAIN us : Cardinality(us[b].slots) <= Cardinality(us[a].slots)}

\* All commands are answered CLUSTERDOWN and the map is cleared.
ClearSlotMap(t) ==
    /\ served' = [served EXCEPT ![t] = {}]
    /\ retry' = [retry EXCEPT ![t] = {}]
    /\ expired' = [expired EXCEPT ![t] = FALSE]
    /\ UNCHANGED remotes

\* _update_slot_map_failed, us being the updaters of the round.
UpdateSlotMapFailed(t, us) ==
    IF \E a \in DOMAIN us : us[a].state \notin {"none", "closed"}
    THEN /\ updater' = [updater EXCEPT ![t] = us]
         /\ UNCHANGED <<finished, retry, served, expired, remotes>>
    ELSE /\ MoveClosedSlotUpdaters(t, us)
         /\ \E a \in Candidates(us) :
                IF ~reqFullCov /\ us[a].slots # {}
                THEN SetSlotMap(t, us[a])
                ELSE ClearSlotMap(t)

AlreadyUpdatedNever(t, a) == FALSE

\* _proxy_already_updated: the round of this updater has ended.
AlreadyUpdated(t, a) == a \in Past(t)

\* SlotsMapUpdater::_notify_updated, and Proxy::notify_slot_map_updated, by
\* the updater of a with the answer u: a complete map ends the round.  What an
\* updater gets after its round is not looked at.
NotifyUpdated(t, a, u) ==
    LET us == [updater[t] EXCEPT ![a] = u]
    IN  IF AlreadyUpdated(t, a)
        THEN UNCHANGED <<updater, finished, retry, served, expired, remotes>>
        ELSE IF u.slots = Slots
        THEN SetSlotMap(t, u) /\ MoveClosedSlotUpdaters(t, us)
        ELSE UpdateSlotMapFailed(t, us)

-----------------------------------------------------------------------------
(***************************************************************************)
(* The events of a batch.                                                  *)
(***************************************************************************)
\* epoll_wait returns.
Wait(t) ==
    /\ ~exited /\ t \notin inbatch
    /\ \E E \in SUBSET (Open(t) \cup {Other}) :
            E # {} /\ events' = [events EXCEPT ![t] = E]
    /\ inbatch' = inbatch \cup {t}
    /\ UNCHANGED <<reqFullCov, remotes, updater, finished, lost, retry, served, expired,
                   orders, exited>>

Handle(t, x) ==
    /\ ~exited /\ x \in events[t]
    /\ events' = [events EXCEPT ![t] = @ \ {x}]
    /\ UNCHANGED <<reqFullCov, exited>>

\* SlotsMapUpdater::on_events for a writable socket: _send_cmd.
SendCmd(t, a) ==
    /\ Handle(t, a)
    /\ updater[t][a].state = "connecting"
    /\ updater' = [updater EXCEPT ![t][a].state = "asked"]
    /\ UNCHANGED <<remotes, finished, inbatch, lost, retry, served, expired, orders>>

\* SlotsMapUpdater::on_events for a readable socket: _recv_rsp gets a part of
\* the answer, or nothing because the node has closed the connection, and
\* waits for more.
AwaitData(t, a) ==
    /\ Handle(t, a)
    /\ \/ updater[t][a].state \in {"asked", "eof"} /\ UNCHANGED updater
       \/ /\ QuietClose
          /\ updater[t][a].state = "asked"
          /\ updater' = [updater EXCEPT ![t][a].state = "eof"]
    /\ UNCHANGED <<remotes, finished, inbatch, lost, retry, served, expired, orders>>

\* _recv_rsp gets the answer r.
RecvRsp(t, a, r) ==
    /\ Handle(t, a)
    /\ updater[t][a].state = "asked" \/ a \in Past(t)
    /\ NotifyUpdated(t, a, Closed(r.slots, r.nodes))
    /\ UNCHANGED <<inbatch, lost, orders>>

\* SlotsMapUpdater::on_events or on_error for a broken connection.
HungUp(t, a) ==
    /\ Handle(t, a)
    /\ updater[t][a].state \in {"connecting", "asked"} \/ a \in Past(t)
    /\ NotifyUpdated(t, a, Closed({}, {}))
    /\ UNCHANGED <<inbatch, lost, orders>>

\* The event of a client or a server: commands are to be retried, for the
\* slots X, a blocked pop was moved and calls update_slot_map, or a server is
\* closed.
Disturb(t) ==
    /\ Handle(t, Other)
    /\ \E X \in SUBSET Slots, moved \in BOOLEAN, L \in SUBSET {t} :
            /\ retry' = [retry EXCEPT ![t] = @ \cup X]
            /\ expired' = [expired EXCEPT ![t] = @ \/ moved]
            /\ lost' = lost \cup L
    /\ UNCHANGED <<remotes, updater, finished, inbatch, served, orders>>

\* notify_each_thread_update_slot_map.  A thread that waits in epoll_wait is not
\* woken; it finds its flag set after its next event.
Order(t) ==
    /\ Handle(t, Other)
    /\ orders < MaxOrders
    /\ orders' = orders + 1
    /\ expired' = [u \in Threads |-> TRUE]
    /\ UNCHANGED <<updater, finished, inbatch, lost, retry, served>>

UpdateSlotMapCmd(t) == Order(t) /\ UNCHANGED remotes

SetRemotesCmd(t) ==
    /\ Order(t)
    /\ \E R \in SUBSET Addrs \ {{}} : remotes' = R

-----------------------------------------------------------------------------
(***************************************************************************)
(* The end of a batch: the finished updaters are freed, and a new round is *)
(* begun if it is time.                                                    *)
(***************************************************************************)
ShouldUpdateExpired(t) == Round(t) = {} /\ (expired[t] \/ t \in lost)

\* _should_update_slot_map, after_events of the closed servers having called
\* update_slot_map.
ShouldUpdateSlotMap(t) ==
    Round(t) = {} /\ (retry[t] # {} \/ expired[t] \/ t \in lost)

\* _retrieve_slot_map: those in C can be connected to, at least to begin with.
RetrieveSlotMap(t) ==
    \E C \in SUBSET remotes :
        IF C = {}
        THEN ClearSlotMap(t) /\ UNCHANGED updater
        ELSE /\ updater' = [updater EXCEPT ![t] =
                                [a \in Addrs |-> IF a \in C THEN New ELSE None]]
             /\ expired' = [expired EXCEPT ![t] = @ \/ t \in lost]
             /\ UNCHANGED <<remotes, retry, served>>

EndBatch(t) ==
    /\ ~exited /\ t \in inbatch
    /\ events[t] = {}
    /\ inbatch' = inbatch \ {t}
    /\ lost' = lost \ {t}
    /\ finished' = [finished EXCEPT ![t] = [a \in Addrs |-> None]]
    /\ IF ShouldUpdateSlotMap(t)
       THEN RetrieveSlotMap(t)
       ELSE /\ expired' = [expired EXCEPT ![t] = @ \/ t \in lost]
            /\ UNCHANGED <<remotes, updater, retry, served>>
    /\ UNCHANGED <<reqFullCov, events, orders, exited>>

\* _retrieve_slot_map finds no descriptor left for an updater: nothing catches
\* the IOError of new_stream_socket, and the process ends.
SocketFails(t) ==
    /\ ~exited /\ t \in inbatch
    /\ events[t] = {}
    /\ ShouldUpdateSlotMap(t) /\ remotes # {}
    /\ exited' = TRUE
    /\ UNCHANGED <<reqFullCov, remotes, updater, finished, events, inbatch, lost, retry,
                   served, expired, orders>>

Next ==
    \E t \in Threads :
        \/ Wait(t)
        \/ \E a \in Addrs : \/ SendCmd(t, a) \/ AwaitData(t, a) \/ HungUp(t, a)
                            \/ \E r \in Answers : RecvRsp(t, a, r)
        \/ Disturb(t) \/ UpdateSlotMapCmd(t) \/ SetRemotesCmd(t)
        \/ EndBatch(t) \/ SocketFails(t)

Spec == Init /\ [][Next]_vars

(***************************************************************************)
(* Fairness.  A thread that has events goes through them to the end of the *)
(* batch.  An updater's socket that stays ready is reported again, for     *)
(* _await_data re-arms it, and a node answers in the end, or its           *)
(* connection breaks.  Nothing is assumed of the other connections: with   *)
(* no event of theirs epoll_wait, which has no timeout, need not return.   *)
(***************************************************************************)
Answered(t, a) ==
    HungUp(t, a) \/ SendCmd(t, a) \/ \E r \in Answers : RecvRsp(t, a, r)

Fairness ==
    \A t \in Threads :
        /\ WF_vars(EndBatch(t))
        /\ WF_vars(Disturb(t))
        /\ \A a \in Addrs : /\ SF_vars(Wait(t) /\ a \in events'[t])
                            /\ WF_vars(AwaitData(t, a) \/ Answered(t, a))
                            /\ SF_vars(Answered(t, a))

FairSpec == Spec /\ Fairness

-----------------------------------------------------------------------------
(***************************************************************************)
(* Properties.                                                             *)
(***************************************************************************)

\* An event still to be handled is that of an updater that has not been
\* freed: the updaters of a round that has ended in the middle of a batch are
\* kept to the end of it (_finished_slot_updaters).
UpdatersOutliveEvents ==
    \A t \in Threads : events[t] \ {Other} \subseteq Round(t) \cup Past(t)

\* When a thread goes back to epoll_wait with commands waiting for a new map,
\* a round is on its way to get them one: no command is left in
\* _retrying_commands with nobody to come back for it.
RetriesHaveRound ==
    \A t \in Threads : t \notin inbatch /\ retry[t] # {} => Round(t) # {}

\* A map of the slots S may end a round.
Usable(S) == S # {} /\ (reqFullCov => S = Slots)

Most(us, a) == \A b \in Addrs : Cardinality(us[b].slots) <= Cardinality(us[a].slots)

\* A round ends with the best of the answers its updaters have got, the one
\* that ends it included: with the map, and the remotes, of an updater that has
\* as many slots as any, if that is a map that may be used; and in CLUSTERDOWN
\* only if no updater of the round has got a map that may be used (the choice
\* among the closed updaters in _update_slot_map_failed, and the complete map
\* that notify_slot_map_updated does not wait for them with).
BestAnswerUsed ==
    [][\A t \in Threads :
         Round(t) # {} /\ Round(t)' = {} =>
            \/ \E a \in Addrs :
                /\ Usable(finished'[t][a].slots) /\ Most(finished'[t], a)
                /\ served'[t] = served[t] \cup finished'[t][a].slots
                /\ remotes' = finished'[t][a].nodes
            \/ /\ \A a \in Addrs : ~Usable(finished'[t][a].slots)
               /\ served'[t] = {} /\ retry'[t] = {}]_vars

\* The updaters of a round, however their answers are interleaved, amount to
\* one outcome for the round: one map, complete if it has to be, or a cleared
\* one.  An answer that comes after it changes nothing.
SlotMapRounds ==
    INSTANCE SlotMapRound WITH
        updating <- {t \in Threads : Round(t) # {}},
        settled  <- {t \in Threads : Past(t) # {}}

OneOutcome == SlotMapRounds!Spec

\* Every round ends, unless the process does: the commands that wait for it
\* are sent or answered.
RoundEnds ==
    \A t \in Threads : Round(t) # {} ~> exited \/ Round(t) = {}

\* Every round ends unless a node has closed the connection it was asked on
\* without an answer: answers, failed connects and broken connections, in any
\* order and any number, are enough.
RoundEndsUnlessCut ==
    \A t \in Threads :
        Round(t) # {} ~> \/ exited \/ Round(t) = {}
                         \/ \E a \in Addrs : updater[t][a].state = "eof"
=============================================================================
