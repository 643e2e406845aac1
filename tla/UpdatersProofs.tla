--------------------------- MODULE UpdatersProofs ---------------------------
(***************************************************************************)
(* Proofs about Updaters, for any threads, slots, nodes and answers.       *)
(***************************************************************************)
EXTENDS Updaters, FiniteSetTheorems, TLAPS

\* The records of updaters have their type, and those of another state too.
LEMMA UpdaterTyped ==
    /\ None \in UpdaterType /\ New \in UpdaterType
    /\ \A S \in SUBSET Slots, N \in SUBSET Addrs : Closed(S, N) \in UpdaterType
    /\ \A u \in UpdaterType :
        u.state # "closed" => /\ [u EXCEPT !.state = "asked"] \in UpdaterType
                              /\ [u EXCEPT !.state = "eof"] \in UpdaterType
<1>1. None \in UpdaterType /\ New \in UpdaterType
  BY DEF UpdaterType, None, New
<1>2. \A S \in SUBSET Slots, N \in SUBSET Addrs : Closed(S, N) \in UpdaterType
  BY DEF UpdaterType, Closed
<1>3. ASSUME NEW u \in UpdaterType, u.state # "closed"
      PROVE  /\ [u EXCEPT !.state = "asked"] \in UpdaterType
             /\ [u EXCEPT !.state = "eof"] \in UpdaterType
  BY <1>3 DEF UpdaterType
<1> QED
  BY <1>1, <1>2, <1>3

\* What an updater has got; one that is not closed has got nothing.
LEMMA UpdaterHas ==
    \A u \in UpdaterType : /\ u.slots \in SUBSET Slots /\ u.nodes \in SUBSET Addrs
                           /\ u.state # "closed" => u.slots = {}
BY DEF UpdaterType

\* What the outcome of a round leaves has its type.
LEMMA SetSlotMapTyped ==
    ASSUME TypeOK, NEW t \in Threads, NEW u \in UpdaterType, SetSlotMap(t, u)
    PROVE  /\ served' \in [Threads -> SUBSET Slots]
           /\ retry' \in [Threads -> SUBSET Slots]
           /\ expired' \in [Threads -> BOOLEAN]
           /\ remotes' \subseteq Addrs
<1>1. u.slots \subseteq Slots /\ u.nodes \subseteq Addrs
  BY UpdaterHas
<1>2. served' \in [Threads -> SUBSET Slots]
  BY <1>1 DEF TypeOK, SetSlotMap
<1>3. retry' \in [Threads -> SUBSET Slots]
  BY DEF TypeOK, SetSlotMap
<1>4. (retry'[t] # {}) \in BOOLEAN
  OBVIOUS
<1>5. expired' \in [Threads -> BOOLEAN]
  BY <1>4 DEF TypeOK, SetSlotMap
<1>6. remotes' \subseteq Addrs
  BY <1>1 DEF SetSlotMap
<1> QED
  BY <1>2, <1>3, <1>5, <1>6

\* Giving up keeps the types.
LEMMA ClearSlotMapTyped ==
    ASSUME TypeOK, NEW t \in Threads, ClearSlotMap(t)
    PROVE  /\ served' \in [Threads -> SUBSET Slots]
           /\ retry' \in [Threads -> SUBSET Slots]
           /\ expired' \in [Threads -> BOOLEAN]
           /\ remotes' \subseteq Addrs
BY DEF TypeOK, ClearSlotMap

\* _move_closed_slot_updaters keeps the types.
LEMMA MoveClosedTyped ==
    ASSUME TypeOK, NEW t \in Threads, NEW us \in [Addrs -> UpdaterType],
           MoveClosedSlotUpdaters(t, us)
    PROVE  /\ finished' \in [Threads -> [Addrs -> UpdaterType]]
           /\ updater' \in [Threads -> [Addrs -> UpdaterType]]
<1>1. finished[t] \in [Addrs -> UpdaterType]
  BY DEF TypeOK
<1>2. Finished(t, us) \in [Addrs -> UpdaterType]
  BY <1>1 DEF Finished
<1>3. [a \in Addrs |-> None] \in [Addrs -> UpdaterType]
  BY UpdaterTyped
<1> QED
  BY <1>2, <1>3 DEF TypeOK, MoveClosedSlotUpdaters

\* So does what the end of an updater leads to.
LEMMA NotifyTyped ==
    ASSUME TypeOK, NEW t \in Threads, NEW a \in Addrs, NEW u \in UpdaterType,
           NotifyUpdated(t, a, u)
    PROVE  /\ served' \in [Threads -> SUBSET Slots]
           /\ retry' \in [Threads -> SUBSET Slots]
           /\ expired' \in [Threads -> BOOLEAN]
           /\ remotes' \subseteq Addrs
           /\ finished' \in [Threads -> [Addrs -> UpdaterType]]
           /\ updater' \in [Threads -> [Addrs -> UpdaterType]]
<1> DEFINE us == [updater[t] EXCEPT ![a] = u]
<1>0. updater \in [Threads -> [Addrs -> UpdaterType]]
  BY DEF TypeOK
<1>1. us \in [Addrs -> UpdaterType]
  BY <1>0
<1>2. CASE AlreadyUpdated(t, a)
  BY <1>2, <1>0 DEF NotifyUpdated, TypeOK
<1>3. CASE ~AlreadyUpdated(t, a) /\ u.slots = Slots
  <2>1. SetSlotMap(t, u) /\ MoveClosedSlotUpdaters(t, us)
    BY <1>3 DEF NotifyUpdated
  <2> HIDE DEF us
  <2> QED
    BY <1>1, <2>1, SetSlotMapTyped, MoveClosedTyped
<1>4. CASE ~AlreadyUpdated(t, a) /\ u.slots # Slots
  <2> HIDE DEF us
  <2>1. UpdateSlotMapFailed(t, us)
    BY <1>4 DEF NotifyUpdated, us
  <2>2. CASE \E b \in DOMAIN us : us[b].state \notin {"none", "closed"}
    <3>1. updater' = [updater EXCEPT ![t] = us]
      BY <2>1, <2>2 DEF UpdateSlotMapFailed
    <3>2. UNCHANGED <<finished, retry, served, expired, remotes>>
      BY <2>1, <2>2 DEF UpdateSlotMapFailed
    <3> QED
      BY <3>1, <3>2, <1>0, <1>1 DEF TypeOK
  <2>3. CASE ~\E b \in DOMAIN us : us[b].state \notin {"none", "closed"}
    <3>1. MoveClosedSlotUpdaters(t, us)
      BY <2>1, <2>3 DEF UpdateSlotMapFailed
    <3>2. PICK b \in Candidates(us) :
                IF ~reqFullCov /\ us[b].slots # {}
                THEN SetSlotMap(t, us[b]) ELSE ClearSlotMap(t)
      BY <2>1, <2>3 DEF UpdateSlotMapFailed
    <3>3. us[b] \in UpdaterType
      BY <1>1 DEF Candidates
    <3> QED
      BY <1>1, <3>1, <3>2, <3>3, SetSlotMapTyped, ClearSlotMapTyped, MoveClosedTyped
  <2> QED
    BY <2>2, <2>3
<1> QED
  BY <1>2, <1>3, <1>4

\* The answers are such that an updater can keep them.
LEMMA AnswerTyped ==
    /\ \A r \in Answers : Closed(r.slots, r.nodes) \in UpdaterType
    /\ Closed({}, {}) \in UpdaterType
BY AnswersAssumption, UpdaterTyped

\* The types hold at first.
LEMMA TypeInit == Init => TypeOK
<1> SUFFICES ASSUME Init PROVE TypeOK
  OBVIOUS
<1>1. reqFullCov \in BOOLEAN
  BY AnswersAssumption DEF Init
<1>2. updater \in [Threads -> [Addrs -> UpdaterType]]
  BY UpdaterTyped DEF Init
<1>3. finished \in [Threads -> [Addrs -> UpdaterType]]
  BY UpdaterTyped DEF Init
<1> QED
  BY <1>1, <1>2, <1>3, Zenon DEF Init, TypeOK

\* The step of an updater that is through with u: RecvRsp and HungUp.
Notified(t, a, u) ==
    /\ Handle(t, a)
    /\ updater[t][a].state \in {"connecting", "asked"} \/ a \in Past(t)
    /\ u.state = "closed"
    /\ NotifyUpdated(t, a, u)
    /\ UNCHANGED <<inbatch, lost, orders>>

\* The actions of Next, the alike ones taken together.
LEMMA NextCases ==
    ASSUME Next
    PROVE  \E t \in Threads :
            \/ Wait(t)
            \/ \E a \in Addrs : SendCmd(t, a)
            \/ \E a \in Addrs : AwaitData(t, a)
            \/ \E a \in Addrs, u \in UpdaterType : Notified(t, a, u)
            \/ Disturb(t)
            \/ Order(t) /\ (remotes' = remotes \/ remotes' \subseteq Addrs)
            \/ EndBatch(t)
            \/ SocketFails(t)
<1>1. PICK t \in Threads :
        \/ Wait(t)
        \/ \E a \in Addrs : \/ SendCmd(t, a) \/ AwaitData(t, a) \/ HungUp(t, a)
                            \/ \E r \in Answers : RecvRsp(t, a, r)
        \/ Disturb(t) \/ UpdateSlotMapCmd(t) \/ SetRemotesCmd(t)
        \/ EndBatch(t) \/ SocketFails(t)
  BY DEF Next
<1>2. ASSUME NEW a \in Addrs, NEW r \in Answers, RecvRsp(t, a, r)
      PROVE  Notified(t, a, Closed(r.slots, r.nodes))
  BY <1>2 DEF RecvRsp, Closed, Notified
<1>3. ASSUME NEW a \in Addrs, HungUp(t, a) PROVE Notified(t, a, Closed({}, {}))
  BY <1>3 DEF HungUp, Closed, Notified
<1>4. UpdateSlotMapCmd(t) => Order(t) /\ remotes' = remotes
  BY DEF UpdateSlotMapCmd
<1>5. SetRemotesCmd(t) => Order(t) /\ remotes' \subseteq Addrs
  BY DEF SetRemotesCmd
<1> QED
  BY <1>1, <1>2, <1>3, <1>4, <1>5, AnswerTyped

\* Every step keeps the types.
LEMMA TypeNext ==
    ASSUME TypeOK, Next
    PROVE  TypeOK'
<1>0. updater \in [Threads -> [Addrs -> UpdaterType]]
  BY DEF TypeOK
<1>1. ASSUME NEW t \in Threads, Wait(t) PROVE TypeOK'
  <2>1. PICK E \in SUBSET (Open(t) \cup {Other}) : events' = [events EXCEPT ![t] = E]
    BY <1>1, Zenon DEF Wait
  <2>2. events' \in [Threads -> SUBSET (Addrs \cup {Other})]
    BY <2>1 DEF TypeOK, Open
  <2> QED
    BY <1>1, <2>2 DEF TypeOK, Wait
<1>2. ASSUME NEW t \in Threads, NEW x \in Addrs \cup {Other}, Handle(t, x)
      PROVE  /\ events' \in [Threads -> SUBSET (Addrs \cup {Other})]
             /\ reqFullCov' = reqFullCov /\ exited' = exited
  BY <1>2 DEF TypeOK, Handle
<1>3. ASSUME NEW t \in Threads, NEW a \in Addrs, SendCmd(t, a) PROVE TypeOK'
  <2>0. updater[t][a].state = "connecting" /\ updater[t][a] \in UpdaterType
    BY <1>0, <1>3 DEF SendCmd
  <2>1. [updater[t][a] EXCEPT !.state = "asked"] \in UpdaterType
    BY <2>0, UpdaterTyped, Zenon
  <2>2. updater' = [updater EXCEPT ![t] =
                    [updater[t] EXCEPT ![a] = [updater[t][a] EXCEPT !.state = "asked"]]]
    BY <1>3 DEF SendCmd
  <2>3. updater' \in [Threads -> [Addrs -> UpdaterType]]
    BY <1>0, <2>1, <2>2
  <2> QED
    BY <1>2, <1>3, <2>3, Zenon DEF TypeOK, SendCmd
<1>4. ASSUME NEW t \in Threads, NEW a \in Addrs, AwaitData(t, a) PROVE TypeOK'
  <2>1. ASSUME updater[t][a].state = "asked"
        PROVE  [updater[t] EXCEPT ![a] = [updater[t][a] EXCEPT !.state = "eof"]]
                    \in [Addrs -> UpdaterType]
    <3>1. updater[t][a] \in UpdaterType
      BY <1>0
    <3>2. [updater[t][a] EXCEPT !.state = "eof"] \in UpdaterType
      BY <2>1, <3>1, UpdaterTyped, Zenon
    <3> QED
      BY <1>0, <3>2
  <2>2. \/ updater' = updater
        \/ /\ updater[t][a].state = "asked"
           /\ updater' = [updater EXCEPT ![t] =
                    [updater[t] EXCEPT ![a] = [updater[t][a] EXCEPT !.state = "eof"]]]
    BY <1>4 DEF AwaitData
  <2>4. updater' \in [Threads -> [Addrs -> UpdaterType]]
    <3>1. CASE updater' = updater
      BY <1>0, <3>1
    <3>2. CASE updater' # updater
      BY <1>0, <2>1, <2>2, <3>2, Zenon
    <3> QED
      BY <3>1, <3>2
  <2> QED
    BY <1>2, <1>4, <2>4 DEF TypeOK, AwaitData
<1>5. ASSUME NEW t \in Threads, NEW a \in Addrs, NEW u \in UpdaterType, Notified(t, a, u)
      PROVE  TypeOK'
  <2>1. /\ served' \in [Threads -> SUBSET Slots]
        /\ retry' \in [Threads -> SUBSET Slots]
        /\ expired' \in [Threads -> BOOLEAN]
        /\ remotes' \subseteq Addrs
        /\ finished' \in [Threads -> [Addrs -> UpdaterType]]
        /\ updater' \in [Threads -> [Addrs -> UpdaterType]]
    BY <1>5, NotifyTyped DEF Notified
  <2>2. /\ events' \in [Threads -> SUBSET (Addrs \cup {Other})]
        /\ reqFullCov' = reqFullCov /\ exited' = exited
    BY <1>2, <1>5 DEF Notified
  <2>3. UNCHANGED <<inbatch, lost, orders>>
    BY <1>5 DEF Notified
  <2> QED
    BY <2>1, <2>2, <2>3 DEF TypeOK
<1>6. ASSUME NEW t \in Threads, Disturb(t) PROVE TypeOK'
  <2>1. PICK X \in SUBSET Slots, moved \in BOOLEAN, L \in SUBSET {t} :
            /\ retry' = [retry EXCEPT ![t] = @ \cup X]
            /\ expired' = [expired EXCEPT ![t] = @ \/ moved]
            /\ lost' = lost \cup L
    BY <1>6, Zenon DEF Disturb
  <2>2. (expired[t] \/ moved) \in BOOLEAN
    OBVIOUS
  <2>3. /\ retry' \in [Threads -> SUBSET Slots]
        /\ expired' \in [Threads -> BOOLEAN]
        /\ lost' \subseteq Threads
    BY <2>1, <2>2 DEF TypeOK
  <2> QED
    BY <1>2, <1>6, <2>3 DEF TypeOK, Disturb
<1>7. ASSUME NEW t \in Threads, Order(t), remotes' = remotes \/ remotes' \subseteq Addrs
      PROVE  TypeOK'
  <2>1. expired' \in [Threads -> BOOLEAN] /\ orders' \in Nat
    BY <1>7 DEF TypeOK, Order
  <2> QED
    BY <1>2, <1>7, <2>1 DEF TypeOK, Order
<1>8. ASSUME NEW t \in Threads, EndBatch(t) PROVE TypeOK'
  <2>1. (expired[t] \/ t \in lost) \in BOOLEAN
    OBVIOUS
  <2>2. /\ inbatch' \subseteq Threads /\ lost' \subseteq Threads
        /\ UNCHANGED <<reqFullCov, events, orders, exited>>
    BY <1>8 DEF TypeOK, EndBatch
  <2>5. finished' \in [Threads -> [Addrs -> UpdaterType]]
    <3>1. [a \in Addrs |-> None] \in [Addrs -> UpdaterType]
      BY UpdaterTyped
    <3> QED
      BY <1>8, <3>1 DEF TypeOK, EndBatch
  <2>3. CASE ~ShouldUpdateSlotMap(t)
    <3>1. /\ expired' = [expired EXCEPT ![t] = @ \/ t \in lost]
          /\ UNCHANGED <<remotes, updater, retry, served>>
      BY <1>8, <2>3 DEF EndBatch
    <3>2. expired' \in [Threads -> BOOLEAN]
      BY <3>1, <2>1 DEF TypeOK
    <3> QED
      BY <2>2, <2>5, <3>1, <3>2 DEF TypeOK
  <2>4. CASE ShouldUpdateSlotMap(t)
    <3>1. RetrieveSlotMap(t)
      BY <1>8, <2>4 DEF EndBatch
    <3>3. PICK C \in SUBSET remotes :
            IF C = {}
            THEN ClearSlotMap(t) /\ UNCHANGED updater
            ELSE /\ updater' = [updater EXCEPT ![t] =
                                    [a \in Addrs |-> IF a \in C THEN New ELSE None]]
                 /\ expired' = [expired EXCEPT ![t] = @ \/ t \in lost]
                 /\ UNCHANGED <<remotes, retry, served>>
      BY <3>1 DEF RetrieveSlotMap
    <3>4. CASE C = {}
      BY <3>3, <3>4, <2>2, <2>5, ClearSlotMapTyped DEF TypeOK
    <3>5. CASE C # {}
      <4>1. [a \in Addrs |-> IF a \in C THEN New ELSE None] \in [Addrs -> UpdaterType]
        BY UpdaterTyped
      <4>2. updater' \in [Threads -> [Addrs -> UpdaterType]]
        BY <3>3, <3>5, <4>1, <1>0
      <4>3. expired' \in [Threads -> BOOLEAN]
        BY <3>3, <3>5, <2>1, Zenon DEF TypeOK
      <4> QED
        BY <3>3, <3>5, <4>2, <4>3, <2>2, <2>5 DEF TypeOK
    <3> QED
      BY <3>4, <3>5
  <2> QED
    BY <2>3, <2>4
<1>9. ASSUME NEW t \in Threads, SocketFails(t) PROVE TypeOK'
  BY <1>9 DEF TypeOK, SocketFails
<1> QED
  BY <1>1, <1>3, <1>4, <1>5, <1>6, <1>7, <1>8, <1>9, NextCases

-----------------------------------------------------------------------------
(***************************************************************************)
(* The inductive invariant: besides the invariants themselves, a thread    *)
(* has events only inside handle_events, and no round together with the    *)
(* updaters of an earlier one.                                             *)
(***************************************************************************)
EventsInBatch == \A t \in Threads : events[t] # {} => t \in inbatch

OneRound == \A t \in Threads : Past(t) # {} => Round(t) = {}

Inv ==
    /\ TypeOK
    /\ UpdatersOutliveEvents
    /\ RetriesHaveRound
    /\ EventsInBatch
    /\ OneRound

\* The round of t ends, with the map of v or with none.
Ended(t) ==
    /\ Round(t) # {} /\ Past(t) = {}
    /\ Round(t)' = {} /\ Past(t)' = Round(t)
    /\ \A x \in Threads \ {t} : Round(x)' = Round(x) /\ Past(x)' = Past(x)
    /\ \/ \E v \in UpdaterType :
            /\ v.slots # {}
            /\ reqFullCov => v.slots = Slots
            /\ SetSlotMap(t, v)
       \/ ClearSlotMap(t)

\* The rounds and what they have led to stay as they are.
Kept ==
    /\ \A x \in Threads : Round(x)' = Round(x)
    /\ UNCHANGED <<finished, retry, served>>

\* The rounds depend on the states of the updaters only.
LEMMA RoundsUnchanged ==
    ASSUME UNCHANGED updater
    PROVE  \A x \in Threads : Round(x)' = Round(x)
BY DEF Round

\* So do the finished updaters that are kept.
LEMMA PastUnchanged ==
    ASSUME UNCHANGED finished
    PROVE  \A x \in Threads : Past(x)' = Past(x)
BY DEF Past

\* _move_closed_slot_updaters ends the round, whose updaters are us, and keeps
\* what they have got.
LEMMA MoveClosedRounds ==
    ASSUME TypeOK, NEW t \in Threads, NEW us \in [Addrs -> UpdaterType],
           MoveClosedSlotUpdaters(t, us), Past(t) = {},
           \A b \in Addrs : us[b].state # "none" <=> b \in Round(t)
    PROVE  /\ Round(t)' = {} /\ Past(t)' = Round(t)
           /\ \A x \in Threads \ {t} : Round(x)' = Round(x) /\ Past(x)' = Past(x)
           /\ \A b \in Addrs : /\ finished'[t][b].slots = us[b].slots
                               /\ us[b].slots # {} => finished'[t][b] = us[b]
<1>1. updater' = [updater EXCEPT ![t] = [a \in Addrs |-> None]]
  BY DEF MoveClosedSlotUpdaters
<1>2. \A x \in Threads \ {t} : updater'[x] = updater[x] /\ finished'[x] = finished[x]
  BY <1>1 DEF TypeOK, MoveClosedSlotUpdaters
<1>3. updater'[t] = [a \in Addrs |-> None]
  BY <1>1 DEF TypeOK
<1>4. None.state = "none"
  BY DEF None
<1>5. Round(t)' = {}
  BY <1>3, <1>4 DEF Round
<1>6. \A x \in Threads \ {t} : Round(x)' = Round(x) /\ Past(x)' = Past(x)
  BY <1>2 DEF Round, Past
<1>7. \A b \in Addrs : finished'[t][b] =
                        IF us[b].state # "none" THEN us[b] ELSE finished[t][b]
  BY DEF TypeOK, MoveClosedSlotUpdaters, Finished
<1>8. \A b \in Addrs : finished[t][b].state = "none" /\ finished[t][b] \in UpdaterType
  BY DEF TypeOK, Past
<1>9. Round(t) \subseteq Addrs
  BY DEF Round
<1>10. Past(t)' = Round(t)
  BY <1>7, <1>8, <1>9 DEF Past
<1>11. ASSUME NEW b \in Addrs
       PROVE  /\ finished'[t][b].slots = us[b].slots
              /\ us[b].slots # {} => finished'[t][b] = us[b]
  <2>1. us[b] \in UpdaterType
    OBVIOUS
  <2>2. us[b].state = "none" => us[b].slots = {} /\ finished[t][b].slots = {}
    BY <1>8, <2>1, UpdaterHas
  <2> QED
    BY <1>7, <2>2, Zenon
<1> QED
  BY <1>5, <1>6, <1>10, <1>11

\* The updaters of the round of t, that of a being through with u.
LEMMA RoundWith ==
    ASSUME TypeOK, NEW t \in Threads, NEW a \in Round(t), NEW u \in UpdaterType,
           u.state = "closed"
    PROVE  LET us == [updater[t] EXCEPT ![a] = u]
           IN  /\ us \in [Addrs -> UpdaterType]
               /\ \A b \in Addrs : us[b].state # "none" <=> b \in Round(t)
<1>1. updater[t] \in [Addrs -> UpdaterType] /\ a \in Addrs
  BY DEF TypeOK, Round
<1> QED
  BY <1>1 DEF Round

\* An updater that is through ends its round or changes nothing.
LEMMA NotifiedOutcome ==
    ASSUME TypeOK, OneRound, NEW t \in Threads, NEW a \in Addrs, NEW u \in UpdaterType,
           Notified(t, a, u)
    PROVE  Ended(t) \/ Kept
<1> DEFINE us == [updater[t] EXCEPT ![a] = u]
<1>0. updater \in [Threads -> [Addrs -> UpdaterType]]
  BY DEF TypeOK
<1>1. us \in [Addrs -> UpdaterType]
  BY <1>0
<1>2. CASE AlreadyUpdated(t, a)
  <2>1. UNCHANGED <<updater, finished, retry, served>>
    BY <1>2 DEF Notified, NotifyUpdated
  <2> QED
    BY <2>1, RoundsUnchanged DEF Kept
<1>3. CASE ~AlreadyUpdated(t, a)
  <2>1. updater[t][a].state \in {"connecting", "asked"}
    BY <1>3 DEF AlreadyUpdated, Notified
  <2>2. a \in Round(t)
    BY <2>1 DEF Round
  <2>3. Round(t) # {} /\ Past(t) = {}
    BY <2>2 DEF OneRound
  <2>6. \A b \in Addrs : us[b].state # "none" <=> b \in Round(t)
    BY <2>2, RoundWith DEF Notified
  <2>4. CASE u.slots = Slots
    <3>1. SetSlotMap(t, u) /\ MoveClosedSlotUpdaters(t, us)
      BY <1>3, <2>4 DEF Notified, NotifyUpdated
    <3>2. u.slots # {} /\ (reqFullCov => u.slots = Slots)
      BY <2>4, AnswersAssumption
    <3> HIDE DEF us
    <3> QED
      BY <1>1, <2>3, <2>6, <3>1, <3>2, MoveClosedRounds DEF Ended
  <2>5. CASE u.slots # Slots
    <3>1. UpdateSlotMapFailed(t, us)
      BY <1>3, <2>5 DEF Notified, NotifyUpdated
    <3> HIDE DEF us
    <3>2. CASE \E b \in DOMAIN us : us[b].state \notin {"none", "closed"}
      <4>1. updater' = [updater EXCEPT ![t] = us] /\ UNCHANGED <<finished, retry, served>>
        BY <3>1, <3>2 DEF UpdateSlotMapFailed
      <4>2. \A x \in Threads \ {t} : updater'[x] = updater[x]
        BY <4>1, <1>0
      <4>3. \A x \in Threads \ {t} : Round(x)' = Round(x)
        BY <4>2 DEF Round
      <4>4. updater'[t] = us
        BY <4>1, <1>0
      <4>7. Round(t)' = Round(t)
        BY <2>6, <4>4 DEF Round
      <4> QED
        BY <4>1, <4>3, <4>7 DEF Kept
    <3>3. CASE ~\E b \in DOMAIN us : us[b].state \notin {"none", "closed"}
      <4>1. MoveClosedSlotUpdaters(t, us)
        BY <3>1, <3>3 DEF UpdateSlotMapFailed
      <4>2. PICK b \in Candidates(us) :
                IF ~reqFullCov /\ us[b].slots # {}
                THEN SetSlotMap(t, us[b]) ELSE ClearSlotMap(t)
        BY <3>1, <3>3 DEF UpdateSlotMapFailed
      <4>3. us[b] \in UpdaterType
        BY <1>1 DEF Candidates
      <4> QED
        BY <1>1, <2>3, <2>6, <4>1, <4>2, <4>3, MoveClosedRounds DEF Ended
    <3> QED
      BY <3>2, <3>3
  <2> QED
    BY <2>4, <2>5
<1> QED
  BY <1>2, <1>3

\* An updater that is asked, or waits for more, stays in its round.
LEMMA WaitingKept ==
    ASSUME TypeOK, NEW t \in Threads, NEW a \in Addrs, SendCmd(t, a) \/ AwaitData(t, a)
    PROVE  Kept
<1> DEFINE As(s) == [updater EXCEPT ![t] =
                        [updater[t] EXCEPT ![a] = [updater[t][a] EXCEPT !.state = s]]]
<1>0. updater \in [Threads -> [Addrs -> UpdaterType]]
  BY DEF TypeOK
<1>1. UNCHANGED <<finished, retry, served>>
  BY DEF SendCmd, AwaitData
<1>2. \/ updater' = updater
      \/ updater[t][a].state # "none" /\ updater' = As("asked")
      \/ updater[t][a].state # "none" /\ updater' = As("eof")
  BY DEF SendCmd, AwaitData
<1>3. ASSUME NEW s \in {"asked", "eof"}, updater[t][a].state # "none", updater' = As(s)
      PROVE  \A x \in Threads : Round(x)' = Round(x)
  <2>1. \A x \in Threads \ {t} : updater'[x] = updater[x]
    BY <1>0, <1>3
  <2>2. \A b \in Addrs \ {a} : updater'[t][b] = updater[t][b]
    BY <1>0, <1>3
  <2>3. updater'[t][a] = [updater[t][a] EXCEPT !.state = s]
    BY <1>0, <1>3
  <2>4. updater'[t][a].state # "none"
    BY <1>0, <2>3 DEF UpdaterType
  <2>5. Round(t)' = Round(t)
    BY <1>3, <2>2, <2>4 DEF Round
  <2> QED
    BY <2>1, <2>5 DEF Round
<1> QED
  BY <1>1, <1>2, <1>3, RoundsUnchanged DEF Kept

\* The invariant holds at first.
LEMMA InvInit == Init => Inv
<1> SUFFICES ASSUME Init PROVE Inv
  OBVIOUS
<1>1. \A t \in Threads : events[t] = {} /\ retry[t] = {} /\ Past(t) = {}
  BY DEF Init, Past, None
<1> QED
  BY <1>1, TypeInit
     DEF Inv, UpdatersOutliveEvents, RetriesHaveRound, EventsInBatch, OneRound

\* What a handled event leaves of the batch.
LEMMA Handled ==
    ASSUME TypeOK, EventsInBatch, NEW t \in Threads, NEW x, Handle(t, x)
    PROVE  /\ t \in inbatch
           /\ \A y \in Threads : events'[y] \subseteq events[y]
BY DEF TypeOK, EventsInBatch, Handle

\* A step that keeps the rounds, and the commands of the threads that are not
\* in a batch, keeps the invariant.
LEMMA RoundsKept ==
    ASSUME Inv, TypeOK',
           \A x \in Threads : Round(x)' = Round(x) /\ Past(x)' = Past(x),
           \A x \in Threads : events'[x] \subseteq events[x],
           \A x \in Threads : x \notin inbatch => retry'[x] = retry[x],
           inbatch' = inbatch
    PROVE  Inv'
<1>1. UpdatersOutliveEvents'
  BY DEF Inv, UpdatersOutliveEvents
<1>2. RetriesHaveRound'
  BY DEF Inv, RetriesHaveRound
<1>3. EventsInBatch'
  BY DEF Inv, EventsInBatch
<1>4. OneRound'
  BY DEF Inv, OneRound
<1> QED
  BY <1>1, <1>2, <1>3, <1>4 DEF Inv

\* The end of a round keeps the invariant: its updaters become finished.
LEMMA EndedKeeps ==
    ASSUME Inv, TypeOK', NEW t \in Threads, NEW a, Handle(t, a), Ended(t), inbatch' = inbatch
    PROVE  Inv'
<1>0. t \in inbatch /\ \A y \in Threads : events'[y] \subseteq events[y]
  BY Handled DEF Inv
<1>1. \A x \in Threads \ {t} : retry'[x] = retry[x]
  BY Zenon DEF Inv, TypeOK, Ended, SetSlotMap, ClearSlotMap
<1>3. \A x \in Threads : Round(x)' \cup Past(x)' = Round(x) \cup Past(x)
  BY Zenon DEF Ended
<1>4. UpdatersOutliveEvents'
  BY <1>0, <1>3, Zenon DEF Inv, UpdatersOutliveEvents
<1>5. RetriesHaveRound'
  BY <1>0, <1>1 DEF Inv, RetriesHaveRound, Ended
<1>6. EventsInBatch'
  BY <1>0 DEF Inv, EventsInBatch
<1>7. OneRound'
  BY DEF Inv, OneRound, Ended
<1> QED
  BY <1>4, <1>5, <1>6, <1>7 DEF Inv

\* The end of a batch goes on as before, begins a round, or clears the map.
GoesOn(t) ==
    /\ \A x \in Threads : Round(x)' = Round(x)
    /\ UNCHANGED <<retry, served>>
    /\ retry[t] # {} => Round(t) # {}

Begins(t) ==
    /\ Round(t) = {} /\ Round(t)' # {}
    /\ \A x \in Threads \ {t} : Round(x)' = Round(x)
    /\ UNCHANGED <<retry, served>>

Clears(t) ==
    /\ Round(t) = {}
    /\ \A x \in Threads : Round(x)' = Round(x)
    /\ ClearSlotMap(t)

\* The end of a batch begins a round, gives up, or leaves the rounds alone.
LEMMA EndBatchOutcome ==
    ASSUME TypeOK, NEW t \in Threads, EndBatch(t)
    PROVE  GoesOn(t) \/ Begins(t) \/ Clears(t)
<1>1. CASE ~ShouldUpdateSlotMap(t)
  <2>1. UNCHANGED <<updater, retry, served>>
    BY <1>1, Zenon DEF EndBatch
  <2>2. retry[t] # {} => Round(t) # {}
    BY <1>1 DEF ShouldUpdateSlotMap
  <2> QED
    BY <2>1, <2>2, RoundsUnchanged DEF GoesOn
<1>2. CASE ShouldUpdateSlotMap(t)
  <2>1. Round(t) = {}
    BY <1>2 DEF ShouldUpdateSlotMap
  <2>2. PICK C \in SUBSET remotes :
            IF C = {}
            THEN ClearSlotMap(t) /\ UNCHANGED updater
            ELSE /\ updater' = [updater EXCEPT ![t] =
                                    [a \in Addrs |-> IF a \in C THEN New ELSE None]]
                 /\ expired' = [expired EXCEPT ![t] = @ \/ t \in lost]
                 /\ UNCHANGED <<remotes, retry, served>>
    BY <1>2 DEF EndBatch, RetrieveSlotMap
  <2>3. CASE C = {}
    BY <2>1, <2>2, <2>3, RoundsUnchanged DEF Clears
  <2>4. CASE C # {}
    <3>1. /\ updater' = [updater EXCEPT ![t] =
                            [a \in Addrs |-> IF a \in C THEN New ELSE None]]
          /\ UNCHANGED <<retry, served>>
      BY <2>2, <2>4
    <3>2. updater'[t] = [a \in Addrs |-> IF a \in C THEN New ELSE None]
      BY <3>1 DEF TypeOK
    <3>3. \A x \in Threads \ {t} : updater'[x] = updater[x]
      BY <3>1 DEF TypeOK
    <3>4. PICK c \in C : c \in Addrs
      BY <2>4 DEF TypeOK
    <3>5. updater'[t][c].state # "none"
      BY <3>2, <3>4 DEF New, None
    <3>6. c \in Round(t)'
      BY <3>4, <3>5 DEF Round
    <3>7. \A x \in Threads \ {t} : Round(x)' = Round(x)
      BY <3>3 DEF Round
    <3> QED
      BY <2>1, <3>1, <3>6, <3>7 DEF Begins
  <2> QED
    BY <2>3, <2>4
<1> QED
  BY <1>1, <1>2

\* The end of a batch frees the finished updaters.
LEMMA EndBatchFrees ==
    ASSUME TypeOK, NEW t \in Threads, EndBatch(t)
    PROVE  Past(t)' = {} /\ \A x \in Threads \ {t} : Past(x)' = Past(x)
<1>1. /\ finished'[t] = [a \in Addrs |-> None]
      /\ \A x \in Threads \ {t} : finished'[x] = finished[x]
  BY DEF EndBatch, TypeOK
<1> QED
  BY <1>1 DEF Past, None

\* The end of a batch keeps the invariant.
LEMMA EndBatchKeeps ==
    ASSUME Inv, TypeOK', NEW t \in Threads, EndBatch(t)
    PROVE  Inv'
<1>1. events[t] = {} /\ events' = events /\ inbatch' = inbatch \ {t}
  BY Zenon DEF EndBatch
<1>2. Past(t)' = {} /\ \A x \in Threads \ {t} : Past(x)' = Past(x)
  BY EndBatchFrees DEF Inv
<1>3. GoesOn(t) \/ Begins(t) \/ Clears(t)
  BY EndBatchOutcome DEF Inv
<1>4. \A x \in Threads \ {t} : Round(x)' = Round(x)
  BY <1>3 DEF GoesOn, Begins, Clears
<1>5. \A x \in Threads \ {t} : retry'[x] = retry[x]
  BY <1>3 DEF GoesOn, Begins, Clears, ClearSlotMap, Inv, TypeOK
<1>6. retry'[t] # {} => Round(t)' # {}
  <2>1. CASE GoesOn(t)
    BY <2>1 DEF GoesOn
  <2>2. CASE Begins(t)
    BY <2>2 DEF Begins
  <2>3. CASE Clears(t)
    BY <2>3 DEF Clears, ClearSlotMap, Inv, TypeOK
  <2> QED
    BY <1>3, <2>1, <2>2, <2>3
<1>7. UpdatersOutliveEvents'
  BY <1>1, <1>2, <1>4 DEF Inv, UpdatersOutliveEvents
<1>8. RetriesHaveRound'
  BY <1>1, <1>4, <1>5, <1>6 DEF Inv, RetriesHaveRound
<1>9. EventsInBatch'
  BY <1>1 DEF Inv, EventsInBatch
<1>10. OneRound'
  BY <1>2, <1>4 DEF Inv, OneRound
<1> QED
  BY <1>7, <1>8, <1>9, <1>10 DEF Inv

\* Every step keeps the invariant.
LEMMA InvNext ==
    ASSUME Inv, [Next]_vars
    PROVE  Inv'
<1>0. TypeOK
  BY DEF Inv
<1>1. CASE UNCHANGED vars
  <2>1. \A x \in Threads : Round(x)' = Round(x)
    BY <1>1, RoundsUnchanged DEF vars
  <2>2. TypeOK'
    BY <1>0, <1>1 DEF vars, TypeOK
  <2> QED
    BY <1>1, <2>1, <2>2, RoundsKept, PastUnchanged DEF vars
<1>2. CASE Next
  <2>0. TypeOK'
    BY <1>0, <1>2, TypeNext
  <2>1. ASSUME NEW t \in Threads, Wait(t) PROVE Inv'
    <3>1. UNCHANGED <<updater, finished, retry>> /\ inbatch' = inbatch \cup {t}
      BY <2>1 DEF Wait
    <3>2. \A x \in Threads : Round(x)' = Round(x) /\ Past(x)' = Past(x)
      BY <3>1, RoundsUnchanged, PastUnchanged
    <3>3. events'[t] \subseteq Open(t) \cup {Other}
      BY <1>0, <2>1 DEF Wait, TypeOK
    <3>4. \A x \in Threads \ {t} : events'[x] = events[x]
      BY <1>0, <2>1 DEF Wait, TypeOK
    <3>5. Open(t) \subseteq Round(t)
      BY DEF Open, Round
    <3>6. UpdatersOutliveEvents'
      BY <3>1, <3>2, <3>3, <3>4, <3>5 DEF Inv, UpdatersOutliveEvents
    <3>7. RetriesHaveRound'
      BY <3>1, <3>2 DEF Inv, RetriesHaveRound
    <3>8. EventsInBatch'
      BY <3>1, <3>4 DEF Inv, EventsInBatch
    <3>9. OneRound'
      BY <3>1, <3>2 DEF Inv, OneRound
    <3> QED
      BY <2>0, <3>6, <3>7, <3>8, <3>9 DEF Inv
  <2>2. ASSUME NEW t \in Threads, NEW a \in Addrs, SendCmd(t, a) \/ AwaitData(t, a)
        PROVE  Inv'
    <3>1. Handle(t, a) /\ inbatch' = inbatch
      BY <2>2 DEF SendCmd, AwaitData
    <3> QED
      BY <1>0, <2>0, <2>2, <3>1, WaitingKept, RoundsKept, PastUnchanged, Handled, Zenon DEF Inv, Kept
  <2>3. ASSUME NEW t \in Threads, NEW a \in Addrs, NEW u \in UpdaterType, Notified(t, a, u)
        PROVE  Inv'
    <3>1. Handle(t, a) /\ inbatch' = inbatch
      BY <2>3 DEF Notified
    <3>2. CASE Ended(t)
      BY <2>0, <3>1, <3>2, EndedKeeps
    <3>3. CASE Kept
      BY <2>0, <3>1, <3>3, RoundsKept, PastUnchanged, Handled, Zenon DEF Inv, Kept
    <3> QED
      BY <2>3, <3>2, <3>3, NotifiedOutcome DEF Inv
  <2>4. ASSUME NEW t \in Threads, Disturb(t) PROVE Inv'
    <3>1. Handle(t, Other) /\ UNCHANGED <<updater, finished, inbatch>>
      BY <2>4 DEF Disturb
    <3>2. \A x \in Threads \ {t} : retry'[x] = retry[x]
      BY <1>0, <2>4 DEF Disturb, TypeOK
    <3>3. \A x \in Threads : Round(x)' = Round(x) /\ Past(x)' = Past(x)
      BY <3>1, RoundsUnchanged, PastUnchanged
    <3>4. t \in inbatch /\ \A y \in Threads : events'[y] \subseteq events[y]
      BY <3>1, Handled, Zenon DEF Inv
    <3> QED
      BY <2>0, <3>1, <3>2, <3>3, <3>4, RoundsKept, Zenon
  <2>5. ASSUME NEW t \in Threads, Order(t) PROVE Inv'
    <3>1. Handle(t, Other) /\ UNCHANGED <<updater, finished, inbatch, retry>>
      BY <2>5 DEF Order
    <3>2. \A x \in Threads : Round(x)' = Round(x) /\ Past(x)' = Past(x)
      BY <3>1, RoundsUnchanged, PastUnchanged
    <3>3. \A y \in Threads : events'[y] \subseteq events[y]
      BY <3>1, Handled DEF Inv
    <3> QED
      BY <2>0, <3>1, <3>2, <3>3, RoundsKept
  <2>6. ASSUME NEW t \in Threads, EndBatch(t) PROVE Inv'
    BY <2>0, <2>6, EndBatchKeeps
  <2>7. ASSUME NEW t \in Threads, SocketFails(t) PROVE Inv'
    <3>1. UNCHANGED <<updater, finished, events, inbatch, retry>>
      BY <2>7, Zenon DEF SocketFails
    <3> QED
      BY <2>0, <3>1, RoundsKept, RoundsUnchanged, PastUnchanged
  <2> QED
    BY <1>2, <2>1, <2>2, <2>3, <2>4, <2>5, <2>6, <2>7, NextCases
<1> QED
  BY <1>1, <1>2

\* Every state of every behaviour satisfies the inductive invariant: with
\* any number of threads, nodes and slots, an updater that an event is still to
\* be handled for has not been freed, and no command waits for a slot map that
\* nobody is getting.
THEOREM InvAlways == Spec => []Inv
<1>1. Init => Inv
  BY InvInit
<1>2. Inv /\ [Next]_vars => Inv'
  BY InvNext
<1> QED
  BY <1>1, <1>2, PTL DEF Spec

\* The variables have their types.
THEOREM TypeCorrect == Spec => []TypeOK
<1>1. Inv => TypeOK
  BY DEF Inv
<1> QED
  BY <1>1, InvAlways, PTL

\* The events of a batch never reach an updater that has been freed
\* (_move_closed_slot_updaters).
THEOREM NoFreedUpdater == Spec => []UpdatersOutliveEvents
<1>1. Inv => UpdatersOutliveEvents
  BY DEF Inv
<1> QED
  BY <1>1, InvAlways, PTL

\* A thread that goes to epoll_wait with commands in _retrying_commands has a
\* round going on (_should_update_slot_map at the end of handle_events).
THEOREM NoRetryForgotten == Spec => []RetriesHaveRound
<1>1. Inv => RetriesHaveRound
  BY DEF Inv
<1> QED
  BY <1>1, InvAlways, PTL

-----------------------------------------------------------------------------
(***************************************************************************)
(* The updaters of a round implement SlotMapRound.                         *)
(***************************************************************************)
Updating == {t \in Threads : Round(t) # {}}
Settled == {t \in Threads : Past(t) # {}}

\* The rounds start as SlotMapRound says.
LEMMA RefineInit == Init => SlotMapRounds!Init
<1> SUFFICES ASSUME Init PROVE SlotMapRounds!Init
  OBVIOUS
<1>1. \A t \in Threads : Round(t) = {}
  BY DEF Init, Round, None
<1>2. \A t \in Threads : Past(t) = {}
  BY Zenon DEF Init, Past, None
<1>3. reqFullCov \in BOOLEAN /\ served = [t \in Threads |-> {}]
  BY AnswersAssumption DEF Init
<1> QED
  BY <1>1, <1>2, <1>3 DEF SlotMapRounds!Init

\* reqFullCov is set when the program starts.
LEMMA CoverageFixed == ASSUME Next PROVE reqFullCov' = reqFullCov
BY DEF Next, Wait, SendCmd, AwaitData, RecvRsp, HungUp, Disturb, UpdateSlotMapCmd,
       SetRemotesCmd, Order, EndBatch, SocketFails, Handle

\* The end of a round is one of SlotMapRound.
LEMMA RefineEnded ==
    ASSUME TypeOK, NEW t \in Threads, Ended(t)
    PROVE  \/ \E S \in SUBSET Slots : SlotMapRounds!Install(t, S)
           \/ SlotMapRounds!Fail(t)
<1>1. t \in Updating /\ Updating' = Updating \ {t}
  BY Zenon DEF Ended, Updating
<1>4. Settled' = Settled \cup {t}
  BY DEF Settled, Ended
<1>5. SlotMapRounds!End(t)
  BY <1>1, <1>4 DEF SlotMapRounds!End, Updating, Settled
<1>6. ASSUME NEW v \in UpdaterType, v.slots # {}, reqFullCov => v.slots = Slots,
             SetSlotMap(t, v)
      PROVE  v.slots \in SUBSET Slots /\ SlotMapRounds!Install(t, v.slots)
  <2>1. v.slots \in SUBSET Slots
    BY UpdaterHas
  <2>2. served' = [served EXCEPT ![t] = @ \cup v.slots]
    BY <1>6 DEF SetSlotMap
  <2> QED
    BY <1>5, <1>6, <2>1, <2>2 DEF SlotMapRounds!Install
<1>7. ASSUME ClearSlotMap(t) PROVE SlotMapRounds!Fail(t)
  BY <1>5, <1>7 DEF SlotMapRounds!Fail, ClearSlotMap
<1> QED
  BY <1>6, <1>7, Zenon DEF Ended

\* The end of a batch is a step of SlotMapRound, or none.
LEMMA RefineEndBatch ==
    ASSUME Inv, NEW t \in Threads, EndBatch(t)
    PROVE  \/ SlotMapRounds!Begin(t)
           \/ SlotMapRounds!BatchOver(t)
           \/ UNCHANGED <<Updating, Settled, served>>
<1>0. TypeOK
  BY DEF Inv
<1>1. Past(t)' = {} /\ \A x \in Threads \ {t} : Past(x)' = Past(x)
  BY <1>0, EndBatchFrees
<1>2. Settled' = Settled \ {t}
  BY <1>1 DEF Settled
<1>3. CASE GoesOn(t)
  <2>1. UNCHANGED <<Updating, served>>
    BY <1>3 DEF GoesOn, Updating
  <2>2. CASE t \in Updating
    <3>1. t \notin Settled
      BY <2>2 DEF Inv, OneRound, Updating, Settled
    <3> QED
      BY <1>2, <2>1, <3>1
  <2>3. CASE t \notin Updating
    <3>1. SlotMapRounds!BatchOver(t)
      BY <1>2, <2>1, <2>3 DEF SlotMapRounds!BatchOver, Updating, Settled
    <3> QED
      BY <3>1
  <2> QED
    BY <2>2, <2>3
<1>4. CASE Begins(t)
  <2>1. t \notin Updating /\ Updating' = Updating \cup {t} /\ served' = served
    BY <1>4 DEF Begins, Updating
  <2> QED
    BY <1>2, <2>1 DEF SlotMapRounds!Begin, Updating, Settled
<1>5. CASE Clears(t)
  <2>1. t \notin Updating /\ Updating' = Updating
    BY <1>5 DEF Clears, Updating
  <2>2. served' = [served EXCEPT ![t] = {}]
    BY <1>5 DEF Clears, ClearSlotMap
  <2> QED
    BY <1>2, <2>1, <2>2 DEF SlotMapRounds!BatchOver, Updating, Settled
<1> QED
  BY <1>0, <1>3, <1>4, <1>5, EndBatchOutcome

\* A step that changes neither rounds nor what is served is no step.
LEMMA RefineKept ==
    ASSUME \A x \in Threads : Round(x)' = Round(x), UNCHANGED <<finished, served>>
    PROVE  UNCHANGED <<Updating, Settled, served>>
BY PastUnchanged DEF Updating, Settled

\* So is every other step.
LEMMA RefineNext ==
    ASSUME Inv, [Next]_vars
    PROVE  [SlotMapRounds!Next]_<<Updating, Settled, served, reqFullCov>>
<1>0. TypeOK
  BY DEF Inv
<1>1. CASE UNCHANGED vars
  BY <1>1, RoundsUnchanged, RefineKept DEF vars
<1>2. CASE Next
  <2>0. reqFullCov' = reqFullCov
    BY <1>2, CoverageFixed
  <2>1. ASSUME NEW t \in Threads, Wait(t)
        PROVE  UNCHANGED <<Updating, Settled, served>>
    BY <2>1, RoundsUnchanged, RefineKept DEF Wait
  <2>2. ASSUME NEW t \in Threads, NEW a \in Addrs, SendCmd(t, a) \/ AwaitData(t, a)
        PROVE  UNCHANGED <<Updating, Settled, served>>
    BY <1>0, <2>2, WaitingKept, RefineKept DEF Kept
  <2>3. ASSUME NEW t \in Threads, NEW a \in Addrs, NEW u \in UpdaterType, Notified(t, a, u)
        PROVE  SlotMapRounds!Next \/ UNCHANGED <<Updating, Settled, served>>
    <3>1. CASE Ended(t)
      BY <1>0, <2>0, <3>1, RefineEnded DEF SlotMapRounds!Next
    <3>2. CASE Kept
      BY <3>2, RefineKept DEF Kept
    <3> QED
      BY <2>3, <3>1, <3>2, NotifiedOutcome DEF Inv
  <2>4. ASSUME NEW t \in Threads, Disturb(t) \/ Order(t) \/ SocketFails(t)
        PROVE  UNCHANGED <<Updating, Settled, served>>
    BY <2>4, RoundsUnchanged, RefineKept, Zenon DEF Disturb, Order, SocketFails
  <2>5. ASSUME NEW t \in Threads, EndBatch(t)
        PROVE  SlotMapRounds!Next \/ UNCHANGED <<Updating, Settled, served>>
    BY <2>0, <2>5, RefineEndBatch DEF SlotMapRounds!Next
  <2> QED
    BY <1>2, <2>0, <2>1, <2>2, <2>3, <2>4, <2>5, NextCases
<1> QED
  BY <1>1, <1>2

\* Whatever the order of the answers, a round of updaters is one outcome:
\* one map, complete where it must be, or a cleared one.
THEOREM RoundsImplemented == Spec => OneOutcome
<1>1. Init => SlotMapRounds!Init
  BY RefineInit
<1>2. Inv /\ [Next]_vars => [SlotMapRounds!Next]_<<Updating, Settled, served, reqFullCov>>
  BY RefineNext
<1> QED
  BY <1>1, <1>2, InvAlways, PTL DEF Spec, OneOutcome, SlotMapRounds!Spec, Updating, Settled

-----------------------------------------------------------------------------
(***************************************************************************)
(* The best answer is used.  It takes that no updater of a round that goes *)
(* on has a complete map.                                                  *)
(***************************************************************************)
Incomplete == \A t \in Threads : \A a \in Addrs : updater[t][a].slots # Slots

\* The updaters of t become us, the others stay as they are.
LEMMA IncompleteWith ==
    ASSUME TypeOK, Incomplete, NEW t \in Threads, NEW us \in [Addrs -> UpdaterType],
           \A a \in Addrs : us[a].slots # Slots, updater' = [updater EXCEPT ![t] = us]
    PROVE  Incomplete'
<1>1. updater'[t] = us /\ \A x \in Threads \ {t} : updater'[x] = updater[x]
  BY DEF TypeOK
<1> QED
  BY <1>1, Zenon DEF Incomplete

\* No updater has an answer at first.
LEMMA IncompleteInit == Init => Incomplete
BY AnswersAssumption DEF Init, Incomplete, None

\* A complete map ends the round of its updater.
LEMMA IncompleteNext ==
    ASSUME TypeOK, Incomplete, [Next]_vars
    PROVE  Incomplete'
<1>0. updater \in [Threads -> [Addrs -> UpdaterType]]
  BY DEF TypeOK
<1>1. ASSUME UNCHANGED updater PROVE Incomplete'
  BY <1>1 DEF Incomplete
<1>2. None.slots # Slots /\ New.slots # Slots
  BY AnswersAssumption DEF None, New
<1>3. ASSUME NEW t \in Threads, NEW C, updater' = [updater EXCEPT ![t] =
                                    [b \in Addrs |-> IF b \in C THEN New ELSE None]]
      PROVE  Incomplete'
  <2> DEFINE us == [b \in Addrs |-> IF b \in C THEN New ELSE None]
  <2>1. us \in [Addrs -> UpdaterType] /\ \A b \in Addrs : us[b].slots # Slots
    BY <1>2, UpdaterTyped
  <2>2. updater' = [updater EXCEPT ![t] = us]
    BY <1>3
  <2> HIDE DEF us
  <2> QED
    BY <2>1, <2>2, IncompleteWith, Zenon
<1>4. ASSUME NEW t \in Threads, NEW us, MoveClosedSlotUpdaters(t, us) PROVE Incomplete'
  <2> DEFINE none == [b \in Addrs |-> None]
  <2>1. none \in [Addrs -> UpdaterType] /\ \A b \in Addrs : none[b].slots # Slots
    BY <1>2, UpdaterTyped
  <2>2. updater' = [updater EXCEPT ![t] = none]
    BY <1>4 DEF MoveClosedSlotUpdaters
  <2> HIDE DEF none
  <2> QED
    BY <2>1, <2>2, IncompleteWith, Zenon
<1>5. ASSUME NEW t \in Threads, NEW a \in Addrs, NEW s \in {"asked", "eof"},
             updater[t][a].state # "closed",
             updater' = [updater EXCEPT ![t] =
                    [updater[t] EXCEPT ![a] = [updater[t][a] EXCEPT !.state = s]]]
      PROVE  Incomplete'
  <2> DEFINE us == [updater[t] EXCEPT ![a] = [updater[t][a] EXCEPT !.state = s]]
  <2>1. updater[t][a] \in UpdaterType
    BY <1>0
  <2>2. [updater[t][a] EXCEPT !.state = s] \in UpdaterType
    BY <1>5, <2>1, UpdaterTyped, Zenon
  <2>3. [updater[t][a] EXCEPT !.state = s].slots = updater[t][a].slots
    BY <2>1 DEF UpdaterType
  <2>4. us \in [Addrs -> UpdaterType]
    BY <1>0, <2>2
  <2>5. \A b \in Addrs : us[b].slots # Slots
    BY <1>0, <2>3 DEF Incomplete
  <2>6. updater' = [updater EXCEPT ![t] = us]
    BY <1>5
  <2> HIDE DEF us
  <2> QED
    BY <2>4, <2>5, <2>6, IncompleteWith, Zenon
<1>6. ASSUME NEW t \in Threads, NEW a \in Addrs, SendCmd(t, a) \/ AwaitData(t, a)
      PROVE  Incomplete'
  <2>1. \/ UNCHANGED updater
        \/ \E s \in {"asked", "eof"} :
            /\ updater[t][a].state # "closed"
            /\ updater' = [updater EXCEPT ![t] =
                    [updater[t] EXCEPT ![a] = [updater[t][a] EXCEPT !.state = s]]]
    BY <1>6, Zenon DEF SendCmd, AwaitData
  <2> QED
    BY <1>1, <1>5, <2>1
<1>7. ASSUME NEW t \in Threads, NEW a \in Addrs, NEW u \in UpdaterType, Notified(t, a, u)
      PROVE  Incomplete'
  <2> DEFINE us == [updater[t] EXCEPT ![a] = u]
  <2>1. us \in [Addrs -> UpdaterType]
    BY <1>0
  <2>2. u.slots # Slots => \A b \in Addrs : us[b].slots # Slots
    BY <1>0 DEF Incomplete
  <2>3. \/ UNCHANGED updater
        \/ MoveClosedSlotUpdaters(t, us)
        \/ u.slots # Slots /\ updater' = [updater EXCEPT ![t] = us]
    BY <1>7, Zenon DEF Notified, NotifyUpdated, UpdateSlotMapFailed
  <2> HIDE DEF us
  <2> QED
    BY <1>1, <1>4, <2>1, <2>2, <2>3, IncompleteWith
<1>8. ASSUME NEW t \in Threads, EndBatch(t) PROVE Incomplete'
  <2>1. \/ UNCHANGED updater
        \/ \E C \in SUBSET remotes : updater' = [updater EXCEPT ![t] =
                            [b \in Addrs |-> IF b \in C THEN New ELSE None]]
    BY <1>8, Zenon DEF EndBatch, RetrieveSlotMap
  <2> QED
    BY <1>1, <1>3, <2>1
<1>9. ASSUME NEW t \in Threads, Wait(t) \/ Disturb(t) \/ Order(t) \/ SocketFails(t)
      PROVE  UNCHANGED updater
  BY <1>9 DEF Wait, Disturb, Order, SocketFails
<1>10. CASE UNCHANGED vars
  BY <1>1, <1>10 DEF vars
<1>11. CASE Next
  BY <1>1, <1>6, <1>7, <1>8, <1>9, <1>11, NextCases
<1> QED
  BY <1>10, <1>11

\* What BestAnswerUsed says of the thread t.
Best(t) ==
    Round(t) # {} /\ Round(t)' = {} =>
        \/ \E a \in Addrs :
            /\ Usable(finished'[t][a].slots) /\ Most(finished'[t], a)
            /\ served'[t] = served[t] \cup finished'[t][a].slots
            /\ remotes' = finished'[t][a].nodes
        \/ /\ \A a \in Addrs : ~Usable(finished'[t][a].slots)
           /\ served'[t] = {} /\ retry'[t] = {}

\* Sets of slots can be counted.
LEMMA SlotsFinite == \A S \in SUBSET Slots : IsFiniteSet(S) /\ Cardinality(S) \in Nat
BY AnswersAssumption, FS_Subset, FS_CardinalityType

\* A part of a set of slots has no more of them.
LEMMA SlotsMonotone ==
    \A S, T \in SUBSET Slots : S \subseteq T => Cardinality(S) <= Cardinality(T)
BY SlotsFinite, FS_Subset

\* A set of no slots is empty.
LEMMA SlotsEmpty == \A S \in SUBSET Slots : Cardinality(S) <= 0 => S = {}
<1> SUFFICES ASSUME NEW S \in SUBSET Slots, Cardinality(S) <= 0 PROVE S = {}
  OBVIOUS
<1>1. IsFiniteSet(S) /\ Cardinality(S) \in Nat
  BY SlotsFinite
<1>2. Cardinality(S) = 0
  BY <1>1
<1> QED
  BY <1>1, <1>2, FS_EmptySet

\* With the map of the updater of b, which has as many slots as any of us.
LEMMA BestInstalled ==
    ASSUME TypeOK, NEW t \in Threads, NEW us \in [Addrs -> UpdaterType], NEW b \in Addrs,
           SetSlotMap(t, us[b]), Usable(us[b].slots), Most(us, b),
           \A c \in Addrs : /\ finished'[t][c].slots = us[c].slots
                            /\ us[c].slots # {} => finished'[t][c] = us[c]
    PROVE  Best(t)
<1>1. served'[t] = served[t] \cup us[b].slots /\ remotes' = us[b].nodes
  BY Zenon DEF SetSlotMap, TypeOK
<1>2. finished'[t][b] = us[b]
  BY Zenon DEF Usable
<1>3. Most(finished'[t], b)
  BY Zenon DEF Most
<1> QED
  BY <1>1, <1>2, <1>3, Zenon DEF Best

\* The end of an updater installs the best answer, if any may be used.
LEMMA BestNotified ==
    ASSUME TypeOK, OneRound, Incomplete, NEW t \in Threads, NEW a \in Addrs,
           NEW u \in UpdaterType, Notified(t, a, u), Round(t) # {}, Round(t)' = {}
    PROVE  Best(t)
<1> DEFINE us == [updater[t] EXCEPT ![a] = u]
<1>0. updater \in [Threads -> [Addrs -> UpdaterType]]
  BY DEF TypeOK
<1>1. ~AlreadyUpdated(t, a)
  BY RoundsUnchanged, Zenon DEF Notified, NotifyUpdated
<1>2. a \in Round(t)
  BY <1>1, Zenon DEF Notified, AlreadyUpdated, Round
<1>3. /\ us \in [Addrs -> UpdaterType]
      /\ \A b \in Addrs : us[b].state # "none" <=> b \in Round(t)
  BY <1>2, RoundWith, Zenon DEF Notified
<1>4. us[a] = u
  BY <1>0
<1>5. \A b \in Addrs : us[b].slots \in SUBSET Slots
  BY <1>3, UpdaterHas, Zenon
<1>6. Past(t) = {}
  BY DEF OneRound
<1>9. u.slots # Slots => \A b \in Addrs : us[b].slots # Slots
  BY <1>0 DEF Incomplete
<1>7. CASE u.slots = Slots
  <2>1. SetSlotMap(t, u) /\ MoveClosedSlotUpdaters(t, us)
    BY <1>1, <1>7, Zenon DEF Notified, NotifyUpdated
  <2> HIDE DEF us
  <2>2. Usable(us[a].slots)
    BY <1>4, <1>7, AnswersAssumption, Zenon DEF Usable
  <2>3. Most(us, a)
    BY <1>4, <1>5, <1>7, SlotsMonotone DEF Most
  <2>4. \A c \in Addrs : /\ finished'[t][c].slots = us[c].slots
                         /\ us[c].slots # {} => finished'[t][c] = us[c]
    BY <1>3, <1>6, <2>1, MoveClosedRounds, Zenon
  <2> QED
    BY <1>3, <1>4, <2>1, <2>2, <2>3, <2>4, BestInstalled, Zenon
<1>8. CASE u.slots # Slots
  <2>1. UpdateSlotMapFailed(t, us)
    BY <1>1, <1>8, Zenon DEF Notified, NotifyUpdated
  <2> HIDE DEF us
  <2>2. ~\E b \in DOMAIN us : us[b].state \notin {"none", "closed"}
    <3> SUFFICES ASSUME NEW b \in Addrs, us[b].state \notin {"none", "closed"} PROVE FALSE
      BY <1>3
    <3>1. updater'[t] = us
      BY <1>0, <1>3, <2>1, Zenon DEF UpdateSlotMapFailed
    <3> QED
      BY <3>1, Zenon DEF Round
  <2>3. MoveClosedSlotUpdaters(t, us)
    BY <2>1, <2>2, Zenon DEF UpdateSlotMapFailed
  <2>4. \A c \in Addrs : /\ finished'[t][c].slots = us[c].slots
                         /\ us[c].slots # {} => finished'[t][c] = us[c]
    BY <1>3, <1>6, <2>3, MoveClosedRounds, Zenon
  <2>5. PICK b \in Candidates(us) :
            IF ~reqFullCov /\ us[b].slots # {}
            THEN SetSlotMap(t, us[b]) ELSE ClearSlotMap(t)
    BY <2>1, <2>2, Zenon DEF UpdateSlotMapFailed
  <2>6. b \in Addrs /\ Most(us, b)
    BY <1>3 DEF Candidates, Most
  <2>7. CASE ~reqFullCov /\ us[b].slots # {}
    <3>1. Usable(us[b].slots) /\ SetSlotMap(t, us[b])
      BY <2>5, <2>7, Zenon DEF Usable
    <3> QED
      BY <1>3, <2>4, <2>6, <3>1, BestInstalled, Zenon
  <2>8. CASE reqFullCov \/ us[b].slots = {}
    <3>0. ClearSlotMap(t)
      BY <2>5, <2>8, Zenon
    <3>1. served'[t] = {} /\ retry'[t] = {}
      BY <3>0, Zenon DEF ClearSlotMap, TypeOK
    <3>2. ASSUME NEW c \in Addrs PROVE ~Usable(us[c].slots)
      <4>1. CASE reqFullCov
        <5>1. us[c].slots # Slots
          BY <1>8, <1>9, Zenon
        <5> QED
          BY <4>1, <5>1, Zenon DEF Usable
      <4>2. CASE us[b].slots = {}
        <5>1. Cardinality(us[b].slots) = 0
          BY <4>2, FS_EmptySet, Zenon
        <5>2. Cardinality(us[c].slots) <= 0
          BY <2>6, <5>1 DEF Most
        <5> QED
          BY <1>5, <5>2, SlotsEmpty, Zenon DEF Usable
      <4> QED
        BY <2>8, <4>1, <4>2, Zenon
    <3> QED
      BY <2>4, <3>1, <3>2, Zenon DEF Best
  <2> QED
    BY <2>7, <2>8
<1> QED
  BY <1>7, <1>8

\* Every step installs the best answer, or none.
LEMMA BestNext ==
    ASSUME Inv, Incomplete, Next
    PROVE  \A t \in Threads : Best(t)
<1>0. TypeOK
  BY DEF Inv
<1>1. ASSUME NEW t \in Threads, NEW x \in Threads, Round(x)' = Round(x) PROVE Best(x)
  BY <1>1, Zenon DEF Best
<1>2. ASSUME NEW t \in Threads, Wait(t) \/ Disturb(t) \/ Order(t) \/ SocketFails(t)
      PROVE  \A x \in Threads : Best(x)
  <2>1. UNCHANGED updater
    BY <1>2, Zenon DEF Wait, Disturb, Order, SocketFails
  <2> QED
    BY <1>1, <2>1, RoundsUnchanged
<1>3. ASSUME NEW t \in Threads, NEW a \in Addrs, SendCmd(t, a) \/ AwaitData(t, a)
      PROVE  \A x \in Threads : Best(x)
  BY <1>0, <1>1, <1>3, WaitingKept DEF Kept
<1>4. ASSUME NEW t \in Threads, NEW a \in Addrs, NEW u \in UpdaterType, Notified(t, a, u)
      PROVE  \A x \in Threads : Best(x)
  <2>1. \A x \in Threads \ {t} : Round(x)' = Round(x)
    BY <1>4, NotifiedOutcome, Zenon DEF Inv, Ended, Kept
  <2>2. Best(t)
    <3>1. CASE Round(t) # {} /\ Round(t)' = {}
      BY <1>0, <1>4, <3>1, BestNotified DEF Inv
    <3>2. CASE ~(Round(t) # {} /\ Round(t)' = {})
      BY <3>2, Zenon DEF Best
    <3> QED
      BY <3>1, <3>2
  <2> QED
    BY <1>1, <2>1, <2>2
<1>5. ASSUME NEW t \in Threads, EndBatch(t) PROVE \A x \in Threads : Best(x)
  <2>1. GoesOn(t) \/ Begins(t) \/ Clears(t)
    BY <1>0, <1>5, EndBatchOutcome
  <2>2. \A x \in Threads \ {t} : Round(x)' = Round(x)
    BY <2>1, Zenon DEF GoesOn, Begins, Clears
  <2>3. Round(t)' = Round(t) \/ Round(t) = {}
    BY <2>1, Zenon DEF GoesOn, Begins, Clears
  <2>4. Best(t)
    BY <2>3, Zenon DEF Best
  <2> QED
    BY <1>1, <2>2, <2>4
<1> QED
  BY <1>2, <1>3, <1>4, <1>5, NextCases

\* Every round ends with the best of its answers, or, if none of them may be
\* used, in CLUSTERDOWN (notify_slot_map_updated, _update_slot_map_failed).
THEOREM BestUsed == Spec => BestAnswerUsed
<1>1. Init => Incomplete
  BY IncompleteInit
<1>2. Inv /\ Incomplete /\ [Next]_vars => Incomplete'
  BY IncompleteNext DEF Inv
<1>3. Inv /\ Incomplete /\ [Next]_vars => [\A t \in Threads : Best(t)]_vars
  BY BestNext
<1> QED
  BY <1>1, <1>2, <1>3, InvAlways, PTL DEF Spec, BestAnswerUsed, Best
=============================================================================
