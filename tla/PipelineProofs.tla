--------------------------- MODULE PipelineProofs ---------------------------
(***************************************************************************)
(* Type correctness of the event loop, the pipeline of a client, and the   *)
(* service it gets.  One thing in the types is not a matter of shape: the  *)
(* steps of a command are always steps it has, so that its slot is one the *)
(* slot map knows.  The requests keep their order on the way through the   *)
(* Client, so the proxy implements Service, whatever the workload and the  *)
(* faults.                                                                 *)
(***************************************************************************)
EXTENDS ProxyProofs, ClientProofs

-----------------------------------------------------------------------------
(***************************************************************************)
(* The types.                                                              *)
(***************************************************************************)
ClientsTyped == client \in [Clients -> ClientType]

PollTypes ==
    /\ spoll \in [Servers -> {"none", "ro", "rw"}]
    /\ want \in SUBSET (Clients \cup Servers)

FlagTypes ==
    /\ expired \in BOOLEAN
    /\ updating \in BOOLEAN
    /\ phase \in {"events", "retrieve", "replace", "clear"}
    /\ closing \in SUBSET Servers

CountTypes ==
    /\ left \in [Groups -> Int]
    /\ stage \in [Commands -> Nat]
    /\ issued \in SUBSET Commands
    /\ answered \in SUBSET Commands
    /\ StagesInRange

BatchTypes ==
    /\ active \in SUBSET Conns
    /\ batch \in Nat
    /\ faults \in Nat

TypeInv ==
    /\ ServerInv
    /\ ClientsTyped
    /\ PollTypes
    /\ MapType
    /\ FlagTypes
    /\ CountTypes
    /\ BatchTypes

\* The invariant implies the type invariant of the model.
LEMMA TypeInvImplies == TypeInv => TypeOK
BY DEF TypeInv, TypeOK, ServerInv, QueueTypes, StreamTypes, ClientsTyped,
       PollTypes, MapType, FlagTypes, CountTypes, BatchTypes, Ref

\* The parts an action leaves alone.
LEMMA Frame ==
    ASSUME TypeInv
    PROVE  /\ UNCHANGED client => ClientsTyped'
           /\ UNCHANGED <<spoll, want>> => PollTypes'
           /\ UNCHANGED slotmap => MapType'
           /\ UNCHANGED <<expired, updating, phase, closing>> => FlagTypes'
           /\ UNCHANGED <<left, stage, issued, answered>> => CountTypes'
           /\ UNCHANGED <<active, batch, faults>> => BatchTypes'
BY DEF TypeInv, ClientsTyped, PollTypes, MapType, FlagTypes, CountTypes,
       BatchTypes, StagesInRange

\* Dispatching an event keeps the types of the batch.
LEMMA DispatchType ==
    ASSUME BatchTypes, NEW x \in Conns, Dispatch(x), Fault \/ UNCHANGED faults
    PROVE  BatchTypes'
BY DEF BatchTypes, Dispatch, Fault

\* Counting responses keeps the types of the counters.
LEMMA CountResponsesType ==
    ASSUME CountTypes, NEW A \in SUBSET Commands, CountResponses(A)
    PROVE  left' \in [Groups -> Int] /\ answered' \in SUBSET Commands
<1>1. ASSUME NEW g \in Groups
      PROVE  left[g] - Cardinality(A \cap CommandsOf(g)) \in Int
  <2>1. A \cap CommandsOf(g) \in SUBSET Commands
    OBVIOUS
  <2>2. Cardinality(A \cap CommandsOf(g)) \in Nat
    BY <2>1, CommandsFinite
  <2>3. left[g] \in Int
    BY DEF CountTypes
  <2> QED BY <2>2, <2>3
<1> QED BY <1>1 DEF CountResponses, CountTypes

\* The types hold at first.
LEMMA TypeInit == Init => TypeInv
<1> SUFFICES ASSUME Init PROVE TypeInv
  OBVIOUS
<1>1. ServerInv
  BY ServerInvInit
<1>2. ClientsTyped
  BY NewClientType DEF Init, ClientsTyped
<1>3. PollTypes /\ MapType /\ FlagTypes /\ BatchTypes
  BY Zenon DEF Init, PollTypes, MapType, FlagTypes, BatchTypes
<1>4. CountTypes
  <2>1. ASSUME NEW g \in Groups PROVE Cardinality(CommandsOf(g)) \in Int
    <3>1. CommandsOf(g) \in SUBSET Commands
      BY DEF CommandsOf
    <3> QED BY <3>1, CommandsFinite
  <2>2. ASSUME NEW m \in Commands PROVE 1 \in 1..Len(Steps[m])
    <3>1. Steps[m] \in Seq(Slots) /\ Steps[m] # <<>>
      BY WorkloadAssumption
    <3> QED BY <3>1
  <2> QED BY <2>1, <2>2 DEF Init, CountTypes, StagesInRange
<1> QED BY <1>1, <1>2, <1>3, <1>4 DEF TypeInv

-----------------------------------------------------------------------------
(***************************************************************************)
(* The actions.                                                            *)
(***************************************************************************)
\* The acceptor keeps the types.
LEMMA AcceptType == ASSUME TypeInv, ServerInv', Accept PROVE TypeInv'
<1>1. PICK S : /\ Dispatch(Acceptor)
               /\ client' = [c \in Clients |-> IF c \in S
                        THEN [client[c] EXCEPT !.fd = "open"] ELSE client[c]]
               /\ UNCHANGED <<serverVars, proxyVars, groupVars, phase, closing,
                              faults>>
  BY Zenon DEF Accept
<1>2. ClientsTyped'
  <2>1. \A c \in Clients : client[c] \in ClientType
    BY DEF TypeInv, ClientsTyped
  <2>2. \A c \in Clients : [client[c] EXCEPT !.fd = "open"] \in ClientType
    BY <2>1, WithFd, Zenon
  <2> QED BY <1>1, <2>1, <2>2 DEF ClientsTyped
<1>3. BatchTypes'
  BY <1>1, DispatchType, Zenon DEF TypeInv, Conns
<1> QED BY <1>1, <1>2, <1>3, Frame
        DEF TypeInv, serverVars, proxyVars, groupVars

\* A client that leaves keeps the types.
LEMMA ClientQuitType ==
    ASSUME TypeInv, ServerInv', NEW c \in Clients, ClientQuit(c) PROVE TypeInv'
<1>1. /\ Dispatch(c) /\ Fault
      /\ client' = [client EXCEPT ![c].fd = "closed"]
      /\ UNCHANGED <<serverVars, proxyVars, groupVars, phase, closing>>
  BY Zenon DEF ClientQuit
<1>2. ClientsTyped'
  <2>1. [client[c] EXCEPT !.fd = "closed"] \in ClientType
    BY WithFd, Zenon DEF TypeInv, ClientsTyped
  <2>2. client' = [client EXCEPT ![c] = [client[c] EXCEPT !.fd = "closed"]]
    BY <1>1, Zenon
  <2> QED BY <2>1, <2>2, Zenon DEF TypeInv, ClientsTyped
<1>3. BatchTypes'
  BY <1>1, DispatchType, Zenon DEF TypeInv, Conns
<1> QED BY <1>1, <1>2, <1>3, Frame, Zenon
        DEF TypeInv, serverVars, proxyVars, groupVars

\* An event of a client keeps the types.
LEMMA ClientEventType ==
    ASSUME TypeInv, ServerInv', NEW c \in Clients, ClientEvent(c) PROVE TypeInv'
<1>1. PICK rd \in BOOLEAN, wr \in BOOLEAN, broken \in BOOLEAN :
        \E j \in 0..(Len(Requests[c]) - client[c].asked) :
            /\ client[c].fd = "open"
            /\ rd \/ (wr /\ j = 0)
            /\ wr => c \in want
            /\ Dispatch(c)
            /\ \E h \in ClientOnEvents(client[c], c, rd, j, wr) :
                /\ broken => wr /\ h.fd = "open" /\ h.out # <<>>
                /\ client' = [client EXCEPT ![c] =
                                IF broken THEN [h EXCEPT !.fd = "closed"] ELSE h]
                /\ Issue(c, h)
            /\ IF broken THEN Fault ELSE UNCHANGED faults
            /\ UNCHANGED <<up, sent, output, wire, slotmap, expired, updating,
                           want, left, stage, answered, phase, closing>>
  BY Zenon DEF ClientEvent
<1>2. PICK j \in 0..(Len(Requests[c]) - client[c].asked) :
        /\ Dispatch(c)
        /\ \E h \in ClientOnEvents(client[c], c, rd, j, wr) :
            /\ client' = [client EXCEPT ![c] =
                            IF broken THEN [h EXCEPT !.fd = "closed"] ELSE h]
            /\ Issue(c, h)
        /\ IF broken THEN Fault ELSE UNCHANGED faults
        /\ UNCHANGED <<slotmap, expired, updating, want, left, stage, answered,
                       phase, closing>>
  BY <1>1, Zenon
<1>3. PICK h \in ClientOnEvents(client[c], c, rd, j, wr) :
            /\ client' = [client EXCEPT ![c] =
                            IF broken THEN [h EXCEPT !.fd = "closed"] ELSE h]
            /\ Issue(c, h)
  BY <1>2, Zenon
<1>4. client[c] \in ClientType
  BY DEF TypeInv, ClientsTyped
<1>5. h \in ClientType
  BY <1>4, OnEventsType DEF TypeInv, CountTypes
<1>6. ClientsTyped'
  <2>1. [h EXCEPT !.fd = "closed"] \in ClientType
    BY <1>5, WithFd, Zenon
  <2> QED BY <2>1, <1>3, <1>5 DEF TypeInv, ClientsTyped
<1>7. PollTypes'
  BY <1>2, <1>3, Zenon DEF TypeInv, PollTypes, Issue, PeersPolled
<1>8. CountTypes'
  BY <1>2, <1>3, Zenon DEF TypeInv, CountTypes, StagesInRange, Issue
<1>9. BatchTypes'
  BY <1>2, DispatchType DEF TypeInv, Conns
<1> QED BY <1>2, <1>6, <1>7, <1>8, <1>9, Frame, Zenon DEF TypeInv

\* A lost server keeps the types.
LEMMA ServerLostType ==
    ASSUME TypeInv, ServerInv', NEW s \in Servers, ServerLost(s) PROVE TypeInv'
<1>1. /\ Dispatch(s) /\ Fault /\ want' = want \ {s}
      /\ UNCHANGED <<client, spoll, slotmap, expired, updating, groupVars,
                     phase, closing>>
  BY DEF ServerLost, CloseConn
<1>2. BatchTypes'
  BY <1>1, DispatchType DEF TypeInv, Conns
<1>3. PollTypes'
  BY <1>1 DEF TypeInv, PollTypes
<1> QED BY <1>1, <1>2, <1>3, Frame DEF TypeInv, groupVars

\* A server that is removed keeps the types.
LEMMA CloseRemovedType ==
    ASSUME TypeInv, ServerInv', NEW s \in Servers, CloseRemoved(s) PROVE TypeInv'
<1>1. /\ want' = want \ {s} /\ closing' = closing \ {s}
      /\ UNCHANGED <<client, spoll, slotmap, expired, updating, groupVars,
                     phase, faults>>
      /\ \/ UNCHANGED <<active, batch>>
         \/ active' = active \cup {s} /\ batch' = batch + 1
  BY DEF CloseRemoved, CloseConn
<1>2. BatchTypes'
  BY <1>1 DEF TypeInv, BatchTypes, Conns
<1>3. PollTypes' /\ FlagTypes'
  BY <1>1 DEF TypeInv, PollTypes, FlagTypes
<1> QED BY <1>1, <1>2, <1>3, Frame DEF TypeInv, groupVars

\* The slot map points to servers.
LEMMA MappedType ==
    ASSUME MapType, NEW S \in SUBSET Slots PROVE Mapped(S) \subseteq Servers
BY DEF MapType, Mapped

\* A new map keeps the types.
LEMMA UpdaterDoneType ==
    ASSUME TypeInv, ServerInv', NEW nm \in Maps, UpdaterDone(nm) PROVE TypeInv'
<1> DEFINE new == ToConnect(nm)
<1>1. /\ batch' = batch + 1 /\ active' = active \cup {Updater} \cup new
      /\ updating' = FALSE /\ want' = want \cup new /\ phase' = "replace"
      /\ slotmap' = [x \in Slots |-> IF x \in DOMAIN nm THEN nm[x] ELSE slotmap[x]]
      /\ closing' = {s \in Mapped(DOMAIN nm) \ Range(nm) : up[s]}
      /\ UNCHANGED <<client, spoll, expired, groupVars, faults>>
  BY Zenon DEF UpdaterDone
<1>2. DOMAIN nm \in SUBSET Slots /\ nm \in [DOMAIN nm -> Servers]
  BY WorkloadAssumption
<1>3. new \subseteq Servers
  BY <1>2 DEF ToConnect, Range
<1>4. Mapped(DOMAIN nm) \subseteq Servers
  BY <1>2, MappedType DEF TypeInv
<1> HIDE DEF new
<1>5. PollTypes' /\ FlagTypes'
  BY <1>1, <1>3, <1>4, Zenon DEF TypeInv, PollTypes, FlagTypes
<1>6. MapType'
  BY <1>1, <1>2 DEF TypeInv, MapType
<1>7. BatchTypes'
  BY <1>1, <1>3 DEF TypeInv, BatchTypes, Conns
<1> QED BY <1>1, <1>5, <1>6, <1>7, Frame DEF TypeInv, groupVars

\* A failed update keeps the types.
LEMMA UpdaterFailedType == ASSUME TypeInv, ServerInv', UpdaterFailed PROVE TypeInv'
<1>1. /\ Dispatch(Updater) /\ Fault /\ updating' = FALSE /\ phase' = "clear"
      /\ closing' = {s \in Mapped(Slots) : up[s]}
      /\ UNCHANGED <<client, serverVars, slotmap, expired, want, groupVars>>
  BY Zenon DEF UpdaterFailed
<1>2. Mapped(Slots) \subseteq Servers
  BY MappedType DEF TypeInv
<1>3. FlagTypes'
  BY <1>1, <1>2, Zenon DEF TypeInv, FlagTypes
<1>4. BatchTypes'
  BY <1>1, DispatchType, Zenon DEF TypeInv, Conns
<1> QED BY <1>1, <1>3, <1>4, Frame, Zenon DEF TypeInv, groupVars, serverVars

\* _retrieve_slot_map keeps the types.
LEMMA RetrieveType == ASSUME TypeInv, ServerInv', Retrieve PROVE TypeInv'
<1>1. /\ UNCHANGED <<client, serverVars, slotmap, expired, want, groupVars,
                     active, batch>>
      /\ \/ /\ updating' = TRUE /\ phase' = "events" /\ UNCHANGED <<closing, faults>>
         \/ /\ Fault /\ phase' = "clear" /\ UNCHANGED updating
            /\ closing' = {s \in Mapped(Slots) : up[s]}
  BY DEF Retrieve
<1>2. Mapped(Slots) \subseteq Servers
  BY MappedType DEF TypeInv
<1>3. FlagTypes'
  BY <1>1, <1>2, Zenon DEF TypeInv, FlagTypes
<1>4. BatchTypes'
  BY <1>1 DEF TypeInv, BatchTypes, Fault
<1> QED BY <1>1, <1>3, <1>4, Frame, Zenon DEF TypeInv, groupVars, serverVars

\* _set_slot_map keeps the types.
LEMMA SetSlotMapType == ASSUME TypeInv, ServerInv', SetSlotMap PROVE TypeInv'
<1> DEFINE To == [m \in Range(retrying) |-> Target(m)]
<1>1. /\ client' = [c \in Clients |-> AddPeers(client[c], c, To)]
      /\ expired' = (Nul \in Range(To))
      /\ want' = want \cup (Range(To) \ {Nul})
      /\ phase' = "events"
      /\ UNCHANGED <<spoll, slotmap, updating, groupVars, closing, active,
                     batch, faults>>
  BY DEF SetSlotMap, RetriedPolled
<1>2. Range(retrying) \subseteq Commands
  BY DEF TypeInv, ServerInv, QueueTypes, Range
<1>3. \A m \in DOMAIN To : To[m] \in Servers \cup {Nul}
  BY <1>2, TargetType DEF TypeInv, CountTypes
<1> HIDE DEF To
<1>4. Range(To) \ {Nul} \subseteq Servers
  BY <1>3 DEF Range
<1>5. ClientsTyped'
  BY <1>1, <1>3, AddPeersType, Zenon DEF TypeInv, ClientsTyped
<1>6. PollTypes' /\ FlagTypes'
  BY <1>1, <1>4 DEF TypeInv, PollTypes, FlagTypes
<1> QED BY <1>1, <1>5, <1>6, Frame DEF TypeInv, groupVars

\* poll_ctl leaves Clients.
LEMMA PollDoneType ==
    ASSUME NEW cls \in [Clients -> ClientType]
    PROVE  PollDone(cls) \in [Clients -> ClientType]
BY WithPoll, Zenon DEF PollDone

\* _update_slot_map_failed keeps the types.
LEMMA DiscardType == ASSUME TypeInv, ServerInv', Discard PROVE TypeInv'
<1> DEFINE cls == Responded(Range(retrying), client)
<1>1. /\ slotmap' = [x \in Slots |-> Nul]
      /\ CountResponses(Range(retrying))
      /\ expired' = FALSE /\ phase' = "events"
      /\ UNCHANGED <<updating, stage, issued, closing, active, batch, faults>>
      /\ \/ client' = PollDone(cls) /\ spoll' = NoPoll /\ want' = PollCtl(cls)
         \/ client' = cls /\ UNCHANGED <<spoll, want>>
  BY DEF Discard
<1>2. Range(retrying) \in SUBSET Commands
  BY DEF TypeInv, ServerInv, QueueTypes, Range
<1>3. cls \in [Clients -> ClientType]
  BY RespondedType DEF TypeInv, ClientsTyped
<1> HIDE DEF cls
<1>4. ClientsTyped'
  BY <1>1, <1>3, PollDoneType DEF ClientsTyped
<1>5. PollTypes'
  BY <1>1 DEF TypeInv, PollTypes, NoPoll, PollCtl
<1>6. MapType' /\ FlagTypes'
  BY <1>1, Zenon DEF TypeInv, MapType, FlagTypes
<1>7. CountTypes'
  <2>1. left' \in [Groups -> Int] /\ answered' \in SUBSET Commands
    BY <1>1, <1>2, CountResponsesType, Zenon DEF TypeInv
  <2> QED BY <1>1, <2>1, Zenon DEF TypeInv, CountTypes, StagesInRange
<1> QED BY <1>1, <1>4, <1>5, <1>6, <1>7, Frame, Zenon DEF TypeInv

\* The end of a batch keeps the types.
LEMMA EndBatchType == ASSUME TypeInv, ServerInv', EndBatch PROVE TypeInv'
<1> DEFINE gone == {c \in active \cap Clients : client[c].fd = "closed"}
<1>1. /\ want' = PollCtl(client) /\ spoll' = NoPoll
      /\ client' = [c \in Clients |-> IF c \in gone THEN Deleted(client[c])
                                      ELSE [client[c] EXCEPT !.poll = "none"]]
      /\ expired' = (expired \/ ServerClosed)
      /\ active' = {} /\ batch' = 0
      /\ phase' \in {"retrieve", "events"}
      /\ UNCHANGED <<slotmap, updating, groupVars, closing, faults>>
  BY DEF EndBatch
<1> HIDE DEF gone
<1>2. ClientsTyped'
  <2>1. \A c \in Clients : client[c] \in ClientType
    BY DEF TypeInv, ClientsTyped
  <2>2. \A c \in Clients : [client[c] EXCEPT !.poll = "none"] \in ClientType
    BY <2>1, WithPoll, Zenon
  <2>3. \A c \in Clients : Deleted(client[c]) \in ClientType
    BY <2>1, DeletedType, Zenon
  <2> QED BY <1>1, <2>2, <2>3 DEF ClientsTyped
<1>3. PollTypes'
  BY <1>1 DEF PollTypes, NoPoll, PollCtl
<1>4. FlagTypes' /\ BatchTypes'
  BY <1>1 DEF TypeInv, FlagTypes, BatchTypes
<1> QED BY <1>1, <1>2, <1>3, <1>4, Frame DEF TypeInv, groupVars

\* An event of a server keeps the types, and takes a command to a step it has.
LEMMA ServerEventType ==
    ASSUME TypeInv, ServerInv', NEW s \in Servers, ServerEvent(s) PROVE TypeInv'
<1>1. PICK rd \in BOOLEAN, wr \in BOOLEAN, broken \in BOOLEAN,
           k \in 0..Len(wire[s]) :
        \E moved \in SUBSET (IF Redirects THEN RepliedTo(s, k) ELSE {}) :
        \E cut \in SUBSET {m \in RepliedTo(s, k) \ moved : MoreSteps(m)} :
            ServerOnEvents(s, rd, wr, broken, k, moved, cut)
  BY DEF ServerEvent
<1>2. PICK moved, cut : ServerOnEvents(s, rd, wr, broken, k, moved, cut)
  BY <1>1
<1> DEFINE next == {m \in RepliedTo(s, k) \ (moved \cup cut) : MoreSteps(m)}
           done == RespondedTo(RepliedTo(s, k), moved, next)
           To == [m \in next |-> ServerAt(m, stage[m] + 1)]
           cls == [c \in Clients |-> AddPeers(client[c], c, To)]
<1>3. /\ Dispatch(s)
      /\ client' = Responded(done, cls)
      /\ CountResponses(done)
      /\ stage' = [m \in Commands |-> IF m \in next THEN stage[m] + 1 ELSE stage[m]]
      /\ IF broken \/ moved # {} THEN Fault ELSE UNCHANGED faults
      /\ UNCHANGED <<slotmap, expired, updating, issued, phase, closing>>
  BY <1>2, Zenon DEF ServerOnEvents
<1>4. spoll' \in [Servers -> {"none", "ro", "rw"}]
  BY <1>2, Zenon DEF ServerOnEvents, TypeInv, PollTypes
<1>5. want' \subseteq want
  BY <1>2, Zenon DEF ServerOnEvents, CloseConn
<1>6. RepliedTo(s, k) \subseteq Commands
  BY RepliedToType DEF TypeInv
<1>7. next \subseteq Commands /\ done \in SUBSET Commands
  BY <1>6 DEF RespondedTo
<1>8. \A m \in next : stage[m] + 1 \in 1..Len(Steps[m])
  <2> SUFFICES ASSUME NEW m \in next PROVE stage[m] + 1 \in 1..Len(Steps[m])
    OBVIOUS
  <2>1. m \in Commands /\ stage[m] < Len(Steps[m])
    BY <1>7 DEF MoreSteps
  <2>2. Len(Steps[m]) \in Nat
    BY <2>1, WorkloadAssumption
  <2>3. stage[m] \in 1..Len(Steps[m])
    BY <2>1 DEF TypeInv, CountTypes, StagesInRange
  <2> QED BY <2>1, <2>2, <2>3
<1> HIDE DEF next, done
<1>9. \A m \in DOMAIN To : To[m] \in Servers \cup {Nul}
  BY <1>7, <1>8, ServerAtType DEF TypeInv
<1> HIDE DEF To
<1>10. cls \in [Clients -> ClientType]
  BY <1>9, AddPeersType DEF TypeInv, ClientsTyped
<1> HIDE DEF cls
<1>11. ClientsTyped'
  BY <1>3, <1>10, RespondedType DEF ClientsTyped
<1>12. CountTypes'
  <2>1. left' \in [Groups -> Int] /\ answered' \in SUBSET Commands
    BY <1>3, <1>7, CountResponsesType DEF TypeInv
  <2>2. stage' \in [Commands -> Nat] /\ StagesInRange'
    BY <1>3, <1>8 DEF TypeInv, CountTypes, StagesInRange
  <2> QED BY <1>3, <2>1, <2>2, Zenon DEF TypeInv, CountTypes
<1>13. PollTypes'
  BY <1>4, <1>5 DEF TypeInv, PollTypes
<1>14. BatchTypes'
  BY <1>3, DispatchType DEF TypeInv, Conns
<1> QED BY <1>3, <1>11, <1>12, <1>13, <1>14, Frame, Zenon DEF TypeInv

\* Every step keeps the types.
LEMMA TypeNext == TypeInv /\ [Next]_vars => TypeInv'
<1> SUFFICES ASSUME TypeInv, [Next]_vars PROVE TypeInv'
  OBVIOUS
<1>1. ServerInv'
  BY ServerInvNext DEF TypeInv
<1>2. CASE UNCHANGED vars
  BY <1>1, <1>2, Frame, Zenon
     DEF TypeInv, vars, serverVars, proxyVars, groupVars, loopVars
<1>3. CASE Accept \/ UpdaterFailed \/ SetSlotMap \/ Discard \/ EndBatch \/ Retrieve
  BY <1>1, <1>3, AcceptType, UpdaterFailedType, SetSlotMapType, DiscardType,
     EndBatchType, RetrieveType
<1>4. ASSUME NEW c \in Clients, ClientEvent(c) \/ ClientQuit(c) PROVE TypeInv'
  BY <1>1, <1>4, ClientEventType, ClientQuitType
<1>5. ASSUME NEW s \in Servers, ServerEvent(s) \/ ServerLost(s) \/ CloseRemoved(s)
      PROVE  TypeInv'
  BY <1>1, <1>5, ServerEventType, ServerLostType, CloseRemovedType
<1>6. ASSUME NEW nm \in Maps, UpdaterDone(nm) PROVE TypeInv'
  BY <1>1, <1>6, UpdaterDoneType
<1> QED BY <1>2, <1>3, <1>4, <1>5, <1>6 DEF Next

\* Every variable of the event loop keeps its type: whatever the requests, the
\* replies, the maps and the failures, the handlers of Client, Server and Proxy
\* only ever cut pipes out of the groups parsed, and route commands by slots
\* of the map.
THEOREM TypeCorrect == Spec => []TypeOK
BY TypeInvImplies, TypeInit, TypeNext, PTL DEF Spec

-----------------------------------------------------------------------------
(***************************************************************************)
(* The requests of the clients, in order.  A step of the loop is an        *)
(* exchange with one client, or is not noticed by any.                     *)
(***************************************************************************)
AllTidy == \A c \in Clients : Tidy(client[c], c)

PipeInv == TypeInv /\ AllTidy

Disconnected == {"closed", "deleted", "badio"}

\* A client c that does not notice that its Client goes from cl to h.
Stays(cl, h, c) ==
    /\ Tidy(h, c)
    /\ h.asked = cl.asked /\ h.got = cl.got
    /\ h.fd \in Disconnected <=> cl.fd \in Disconnected

Unnoticed == \A c \in Clients : Stays(client[c], client'[c], c)

Exchange(c) ==
    /\ client[c].fd = "open"
    /\ Good(client[c], client'[c], c)
    /\ \A d \in Clients \ {c} : client'[d] = client[d]

\* A Client whose fields for polling, peers and counting alone are changed.
LEMMA SameStays ==
    ASSUME NEW c, NEW cl, NEW h, Tidy(cl, c), h \in ClientType,
           h.asked = cl.asked, h.got = cl.got, h.out = cl.out,
           h.awaiting = cl.awaiting, h.parsed = cl.parsed, h.fd = cl.fd
    PROVE  Stays(cl, h, c)
BY SameTidy DEF Stays

\* A Client that is not noticed twice is not noticed.
LEMMA StaysTwice ==
    ASSUME NEW c, NEW cl, NEW g, NEW h, Stays(cl, g, c), Stays(g, h, c)
    PROVE  Stays(cl, h, c)
BY Zenon DEF Stays

\* group_responsed only fills the output buffers.
LEMMA GroupResponsedStays ==
    ASSUME NEW c, NEW cl, Tidy(cl, c), NEW n \in Nat
    PROVE  Stays(cl, GroupResponsed(cl, n), c)
<1> DEFINE d == [cl EXCEPT !.count = cl.count - n]
<1>1. cl \in ClientType /\ cl.count - n \in Int
  BY Fields DEF Tidy
<1>2. /\ d \in ClientType /\ d.asked = cl.asked /\ d.got = cl.got /\ d.out = cl.out
      /\ d.awaiting = cl.awaiting /\ d.parsed = cl.parsed /\ d.fd = cl.fd
  BY <1>1, Zenon DEF ClientType
<1>3. GroupResponsed(cl, n) = IF n = 0 THEN cl ELSE PushAwaitingsToReady(d)
  BY DEF GroupResponsed
<1> HIDE DEF d
<1>4. Stays(cl, d, c) /\ Tidy(d, c)
  BY <1>2, SameStays, Zenon DEF Stays
<1>5. Stays(d, PushAwaitingsToReady(d), c)
  BY <1>4, PushTidy, Zenon DEF Stays
<1>6. Stays(cl, cl, c)
  BY <1>1, SameStays
<1> QED BY <1>3, <1>4, <1>5, <1>6, StaysTwice

\* So do the responses to any set of commands.
LEMMA RespondedStays ==
    ASSUME NEW A, NEW cls, NEW c \in Clients, Tidy(cls[c], c)
    PROVE  Stays(cls[c], Responded(A, cls)[c], c)
<1>1. CompletedBy(A, c) \in SUBSET Groups
  BY Zenon DEF CompletedBy, GroupsOf
<1>2. Cardinality(CompletedBy(A, c)) \in Nat
  BY <1>1, GroupsFinite
<1>3. Stays(cls[c], GroupResponsed(cls[c], Cardinality(CompletedBy(A, c))), c)
  BY <1>2, GroupResponsedStays
<1> QED BY <1>3 DEF Responded

\* add_peer changes the peers alone.
LEMMA AddPeersStays ==
    ASSUME NEW c, NEW cl, Tidy(cl, c), NEW To,
           \A m \in DOMAIN To : To[m] \in Servers \cup {Nul}
    PROVE  Stays(cl, AddPeers(cl, c, To), c)
<1>1. cl \in ClientType
  BY DEF Tidy
<1>2. AddPeers(cl, c, To) \in ClientType
  BY <1>1, AddPeersType
<1>3. LET h == AddPeers(cl, c, To)
      IN  /\ h.asked = cl.asked /\ h.got = cl.got /\ h.out = cl.out
          /\ h.awaiting = cl.awaiting /\ h.parsed = cl.parsed /\ h.fd = cl.fd
  BY <1>1 DEF AddPeers, ClientType
<1> QED BY <1>2, <1>3, SameStays, Zenon

\* poll_ctl forgets the entry of each client.
LEMMA PollStays ==
    ASSUME NEW c, NEW cl, Tidy(cl, c)
    PROVE  Stays(cl, [cl EXCEPT !.poll = "none"], c)
<1>1. cl \in ClientType
  BY Zenon DEF Tidy
<1>2. [cl EXCEPT !.poll = "none"] \in ClientType
  BY <1>1, WithPoll, Zenon
<1>3. LET h == [cl EXCEPT !.poll = "none"]
      IN  /\ h.asked = cl.asked /\ h.got = cl.got /\ h.out = cl.out
          /\ h.awaiting = cl.awaiting /\ h.parsed = cl.parsed /\ h.fd = cl.fd
  BY <1>1 DEF ClientType
<1> QED BY <1>2, <1>3, SameStays, Zenon

\* A Client that is deleted was closed; what it received is the beginning of
\* what it asked for.
LEMMA DeletedStays ==
    ASSUME NEW c, NEW cl, Tidy(cl, c), cl.fd = "closed"
    PROVE  Stays(cl, Deleted(cl), c)
<1> DEFINE h == Deleted(cl)
<1>1. cl \in ClientType
  BY DEF Tidy
<1>2. /\ cl.got \in Seq(Groups) /\ cl.out \in Seq(Groups)
      /\ cl.awaiting \in Seq(Groups)
  BY <1>1, Fields, Zenon
<1>3. h \in ClientType
  BY <1>1, DeletedType
<1>4. /\ h.asked = cl.asked /\ h.got = cl.got /\ h.out = <<>>
      /\ h.awaiting = <<>> /\ h.fd = "deleted"
  BY DEF Deleted, NewClient
<1> HIDE DEF h
<1>5. Front(h) = cl.got
  <2>1. Front(h) = Cat(Cat(cl.got, <<>>), <<>>)
    BY <1>4, Zenon DEF Front
  <2> QED BY <1>2, <2>1, CatEmpty, Zenon
<1>6. PICK r \in Seq(Groups) : Cat(Front(cl), r) = Due(c, cl.asked)
  BY DEF Tidy
<1>7. Cat(cl.out, cl.awaiting) \in Seq(Groups)
  BY <1>2, CatType, Zenon
<1>8. Cat(Cat(cl.out, cl.awaiting), r) \in Seq(Groups)
  BY <1>7, CatType
<1>9. Cat(cl.got, Cat(Cat(cl.out, cl.awaiting), r)) = Due(c, h.asked)
  BY <1>1, <1>2, <1>4, <1>6, <1>7, FrontType, CatAssociative
<1>10. Tidy(h, c)
  BY <1>3, <1>4, <1>5, <1>8, <1>9, Zenon DEF Tidy
<1> QED BY <1>4, <1>10, Zenon DEF Stays, Disconnected, h

\* Accept opens Clients that have exchanged nothing yet.
LEMMA AcceptUnnoticed ==
    ASSUME AllTidy, Accept PROVE Unnoticed
<1>1. PICK S \in SUBSET {c \in Clients : client[c].fd = "none"} :
        client' = [c \in Clients |-> IF c \in S
                    THEN [client[c] EXCEPT !.fd = "open"] ELSE client[c]]
  BY Zenon DEF Accept
<1> SUFFICES ASSUME NEW c \in Clients PROVE Stays(client[c], client'[c], c)
  BY DEF Unnoticed
<1> DEFINE cl == client[c]
           h == [cl EXCEPT !.fd = "open"]
<1>2. Tidy(cl, c) /\ cl \in ClientType
  BY Zenon DEF AllTidy, Tidy
<1>3. Stays(cl, cl, c)
  BY <1>2, SameStays, Zenon
<1>4. CASE c \in S
  <2>1. h \in ClientType
    BY <1>2, WithFd, Zenon
  <2>2. /\ h.asked = cl.asked /\ h.got = cl.got /\ h.out = cl.out
        /\ h.awaiting = cl.awaiting /\ h.parsed = cl.parsed /\ h.fd = "open"
    BY <1>2 DEF ClientType
  <2>3. cl.fd = "none" /\ client'[c] = h
    BY <1>1, <1>4
  <2> HIDE DEF h, cl
  <2>4. Tidy(h, c)
    BY <1>2, <2>1, <2>2, <2>3, SameTidy, Zenon
  <2> QED BY <2>2, <2>3, <2>4, Zenon DEF Stays, Disconnected, cl
<1>5. CASE c \notin S
  BY <1>1, <1>3, <1>5
<1> QED BY <1>4, <1>5

\* An event of a client is an exchange with it.
LEMMA ClientEventExchange ==
    ASSUME TypeInv, AllTidy, NEW c \in Clients, ClientEvent(c) PROVE Exchange(c)
<1>1. PICK rd \in BOOLEAN, wr \in BOOLEAN, broken \in BOOLEAN :
        \E j \in 0..(Len(Requests[c]) - client[c].asked) :
            /\ client[c].fd = "open"
            /\ rd \/ (wr /\ j = 0)
            /\ wr => c \in want
            /\ Dispatch(c)
            /\ \E h \in ClientOnEvents(client[c], c, rd, j, wr) :
                /\ broken => wr /\ h.fd = "open" /\ h.out # <<>>
                /\ client' = [client EXCEPT ![c] =
                                IF broken THEN [h EXCEPT !.fd = "closed"] ELSE h]
                /\ Issue(c, h)
            /\ IF broken THEN Fault ELSE UNCHANGED faults
            /\ UNCHANGED <<up, sent, output, wire, slotmap, expired, updating,
                           want, left, stage, answered, phase, closing>>
  BY Zenon DEF ClientEvent
<1>2. PICK j \in 0..(Len(Requests[c]) - client[c].asked) :
        /\ client[c].fd = "open"
        /\ \E h \in ClientOnEvents(client[c], c, rd, j, wr) :
            client' = [client EXCEPT ![c] =
                            IF broken THEN [h EXCEPT !.fd = "closed"] ELSE h]
  BY <1>1, Zenon
<1>3. PICK h \in ClientOnEvents(client[c], c, rd, j, wr) :
            client' = [client EXCEPT ![c] =
                            IF broken THEN [h EXCEPT !.fd = "closed"] ELSE h]
  BY <1>2, Zenon
<1>4. Good(client[c], h, c)
  <2>1. Tidy(client[c], c) /\ MapType /\ StagesInRange
    BY Zenon DEF AllTidy, TypeInv, CountTypes
  <2> QED BY <1>2, <2>1, OnEventsTidy
<1>5. Good(client[c], [h EXCEPT !.fd = "closed"], c)
  <2> DEFINE z == [h EXCEPT !.fd = "closed"]
  <2>1. h \in ClientType /\ Tidy(h, c)
    BY <1>4, Zenon DEF Good, Tidy
  <2>2. z \in ClientType
    BY <2>1, WithFd, Zenon
  <2>3. /\ z.asked = h.asked /\ z.got = h.got /\ z.out = h.out
        /\ z.awaiting = h.awaiting /\ z.fd = "closed"
    BY <2>1 DEF ClientType
  <2> HIDE DEF z
  <2>4. Tidy(z, c)
    BY <2>1, <2>2, <2>3, SameTidy, Zenon
  <2> QED BY <1>4, <2>3, <2>4 DEF Good, Moves, z
<1>6. DOMAIN client = Clients
  BY DEF TypeInv, ClientsTyped
<1>7. client'[c] = h \/ client'[c] = [h EXCEPT !.fd = "closed"]
  BY <1>3, <1>6
<1>8. \A d \in Clients \ {c} : client'[d] = client[d]
  BY <1>3, <1>6
<1> QED BY <1>2, <1>4, <1>5, <1>7, <1>8 DEF Exchange

\* So is its departure.
LEMMA ClientQuitExchange ==
    ASSUME TypeInv, AllTidy, NEW c \in Clients, ClientQuit(c) PROVE Exchange(c)
<1> DEFINE cl == client[c]
           z == [cl EXCEPT !.fd = "closed"]
<1>1. cl.fd = "open" /\ client' = [client EXCEPT ![c] = z]
  BY DEF ClientQuit
<1>2. DOMAIN client = Clients
  BY DEF TypeInv, ClientsTyped
<1>3. cl \in ClientType /\ Tidy(cl, c)
  BY Zenon DEF AllTidy, Tidy
<1>4. z \in ClientType
  BY <1>3, WithFd, Zenon
<1>5. /\ z.asked = cl.asked /\ z.got = cl.got /\ z.out = cl.out
      /\ z.awaiting = cl.awaiting /\ z.fd = "closed"
  BY <1>3 DEF ClientType
<1>6. cl.asked \in Nat /\ Len(cl.got) \in Nat
  BY <1>3, Fields
<1>7. client'[c] = z /\ \A d \in Clients \ {c} : client'[d] = client[d]
  BY <1>1, <1>2
<1> HIDE DEF z, cl
<1>8. Tidy(z, c)
  BY <1>3, <1>4, <1>5, SameTidy
<1>9. Good(cl, z, c)
  BY <1>5, <1>6, <1>8 DEF Good, Moves
<1> QED BY <1>1, <1>7, <1>9 DEF Exchange, cl

\* A server's replies fill output buffers; no client notices yet.
LEMMA ServerEventUnnoticed ==
    ASSUME TypeInv, AllTidy, NEW s \in Servers, ServerEvent(s) PROVE Unnoticed
<1>1. PICK rd \in BOOLEAN, wr \in BOOLEAN, broken \in BOOLEAN,
           k \in 0..Len(wire[s]) :
        \E moved \in SUBSET (IF Redirects THEN RepliedTo(s, k) ELSE {}) :
        \E cut \in SUBSET {m \in RepliedTo(s, k) \ moved : MoreSteps(m)} :
            ServerOnEvents(s, rd, wr, broken, k, moved, cut)
  BY DEF ServerEvent
<1>2. PICK moved, cut : ServerOnEvents(s, rd, wr, broken, k, moved, cut)
  BY <1>1
<1> DEFINE next == {m \in RepliedTo(s, k) \ (moved \cup cut) : MoreSteps(m)}
           done == RespondedTo(RepliedTo(s, k), moved, next)
           To == [m \in next |-> ServerAt(m, stage[m] + 1)]
           cls == [c \in Clients |-> AddPeers(client[c], c, To)]
<1>3. client' = Responded(done, cls)
  BY <1>2, Zenon DEF ServerOnEvents
<1>4. \A m \in next : m \in Commands /\ stage[m] + 1 \in 1..Len(Steps[m])
  <2> SUFFICES ASSUME NEW m \in next
               PROVE  m \in Commands /\ stage[m] + 1 \in 1..Len(Steps[m])
    OBVIOUS
  <2>1. m \in Commands /\ stage[m] < Len(Steps[m])
    BY RepliedToType DEF TypeInv, MoreSteps
  <2>2. Len(Steps[m]) \in Nat
    BY <2>1, WorkloadAssumption
  <2>3. stage[m] \in 1..Len(Steps[m])
    BY <2>1 DEF TypeInv, CountTypes, StagesInRange
  <2> QED BY <2>1, <2>2, <2>3
<1> HIDE DEF next, done
<1>5. \A m \in DOMAIN To : To[m] \in Servers \cup {Nul}
  BY <1>4, ServerAtType DEF TypeInv
<1> HIDE DEF To
<1>6. ASSUME NEW c \in Clients PROVE Stays(client[c], client'[c], c)
  <2>1. Tidy(client[c], c)
    BY DEF AllTidy
  <2>2. cls[c] = AddPeers(client[c], c, To)
    OBVIOUS
  <2> HIDE DEF cls
  <2>3. Stays(client[c], cls[c], c)
    BY <1>5, <2>1, <2>2, AddPeersStays, Zenon
  <2>4. Tidy(cls[c], c)
    BY <2>3, Zenon DEF Stays
  <2>5. Stays(cls[c], client'[c], c)
    BY <1>3, <2>4, RespondedStays, Zenon
  <2> QED BY <2>3, <2>5, StaysTwice, Zenon
<1> QED BY <1>6, Zenon DEF Unnoticed

\* The commands to retry are sent on their way.
LEMMA SetSlotMapUnnoticed ==
    ASSUME TypeInv, AllTidy, SetSlotMap PROVE Unnoticed
<1> DEFINE To == [m \in Range(retrying) |-> Target(m)]
<1>1. client' = [c \in Clients |-> AddPeers(client[c], c, To)]
  BY Zenon DEF SetSlotMap
<1>2. Range(retrying) \subseteq Commands
  BY DEF TypeInv, ServerInv, QueueTypes, Range
<1>3. \A m \in DOMAIN To : To[m] \in Servers \cup {Nul}
  BY <1>2, TargetType DEF TypeInv, CountTypes
<1> HIDE DEF To
<1>4. ASSUME NEW c \in Clients PROVE Stays(client[c], client'[c], c)
  <2>1. Tidy(client[c], c) /\ client'[c] = AddPeers(client[c], c, To)
    BY <1>1 DEF AllTidy
  <2> QED BY <1>3, <2>1, AddPeersStays, Zenon
<1> QED BY <1>4, Zenon DEF Unnoticed

\* They are answered with CLUSTERDOWN.
LEMMA DiscardUnnoticed ==
    ASSUME TypeInv, AllTidy, Discard PROVE Unnoticed
<1> DEFINE cls == Responded(Range(retrying), client)
<1>1. client' = PollDone(cls) \/ client' = cls
  BY Zenon DEF Discard
<1>2. ASSUME NEW c \in Clients PROVE Stays(client[c], client'[c], c)
  <2>1. Tidy(client[c], c)
    BY DEF AllTidy
  <2>2. Stays(client[c], cls[c], c)
    BY <2>1, RespondedStays, Zenon
  <2> HIDE DEF cls
  <2>3. Tidy(cls[c], c)
    BY <2>2, Zenon DEF Stays
  <2>4. Stays(cls[c], [cls[c] EXCEPT !.poll = "none"], c)
    BY <2>3, PollStays
  <2>5. client'[c] = cls[c] \/ client'[c] = [cls[c] EXCEPT !.poll = "none"]
    BY <1>1 DEF PollDone
  <2> QED BY <2>2, <2>4, <2>5, StaysTwice
<1> QED BY <1>2 DEF Unnoticed

\* The closed Clients of a batch are deleted.
LEMMA EndBatchUnnoticed ==
    ASSUME AllTidy, EndBatch PROVE Unnoticed
<1> DEFINE gone == {c \in active \cap Clients : client[c].fd = "closed"}
<1>1. client' = [c \in Clients |-> IF c \in gone THEN Deleted(client[c])
                                   ELSE [client[c] EXCEPT !.poll = "none"]]
  BY DEF EndBatch
<1>2. ASSUME NEW c \in Clients PROVE Stays(client[c], client'[c], c)
  <2>1. Tidy(client[c], c)
    BY DEF AllTidy
  <2>2. c \in gone => client[c].fd = "closed"
    OBVIOUS
  <2> HIDE DEF gone
  <2>3. client'[c] = IF c \in gone THEN Deleted(client[c])
                     ELSE [client[c] EXCEPT !.poll = "none"]
    BY <1>1
  <2> QED BY <2>1, <2>2, <2>3, DeletedStays, PollStays
<1> QED BY <1>2 DEF Unnoticed

\* What does not touch the Clients is not noticed.
LEMMA FrameUnnoticed == ASSUME AllTidy, UNCHANGED client PROVE Unnoticed
<1>1. ASSUME NEW c \in Clients PROVE Stays(client[c], client'[c], c)
  <2>1. Tidy(client[c], c) /\ client[c] \in ClientType /\ client'[c] = client[c]
    BY Zenon DEF AllTidy, Tidy
  <2> QED BY <2>1, SameStays, Zenon
<1> QED BY <1>1 DEF Unnoticed

\* Each step is an exchange with one client, or is not noticed by any.
LEMMA StepNoticed ==
    ASSUME TypeInv, AllTidy, [Next]_vars
    PROVE  Unnoticed \/ \E c \in Clients : Exchange(c)
<1>1. CASE UNCHANGED vars
  BY <1>1, FrameUnnoticed DEF vars
<1>2. CASE Accept \/ SetSlotMap \/ Discard \/ EndBatch
  BY <1>2, AcceptUnnoticed, SetSlotMapUnnoticed, DiscardUnnoticed,
     EndBatchUnnoticed
<1>3. ASSUME UpdaterFailed \/ Retrieve PROVE Unnoticed
  BY <1>3, FrameUnnoticed, Zenon DEF UpdaterFailed, Retrieve
<1>4. ASSUME NEW c \in Clients, ClientEvent(c) \/ ClientQuit(c) PROVE Exchange(c)
  BY <1>4, ClientEventExchange, ClientQuitExchange
<1>5. ASSUME NEW s \in Servers, ServerEvent(s) \/ ServerLost(s) \/ CloseRemoved(s)
      PROVE  Unnoticed
  BY <1>5, ServerEventUnnoticed, FrameUnnoticed, Zenon DEF ServerLost, CloseRemoved
<1>6. ASSUME NEW nm \in Maps, UpdaterDone(nm) PROVE Unnoticed
  BY <1>6, FrameUnnoticed, Zenon DEF UpdaterDone
<1> QED BY <1>1, <1>2, <1>3, <1>4, <1>5, <1>6, Zenon DEF Next

\* The Clients stay tidy.
LEMMA TidyNext == ASSUME TypeInv, AllTidy, [Next]_vars PROVE AllTidy'
<1>1. CASE Unnoticed
  BY <1>1, Zenon DEF Unnoticed, Stays, AllTidy
<1>2. ASSUME NEW c \in Clients, Exchange(c) PROVE AllTidy'
  <2>1. ASSUME NEW d \in Clients PROVE Tidy(client'[d], d)
    <3>1. CASE d = c
      BY <1>2, <3>1, Zenon DEF Exchange, Good
    <3>2. CASE d # c
      BY <1>2, <3>2, Zenon DEF Exchange, AllTidy
    <3> QED BY <3>1, <3>2
  <2> QED BY <2>1, Zenon DEF AllTidy
<1> QED BY <1>1, <1>2, StepNoticed

\* A new Client is tidy.
LEMMA TidyInit == Init => AllTidy
<1> SUFFICES ASSUME Init, NEW c \in Clients PROVE Tidy(client[c], c)
  BY DEF AllTidy
<1>0. client[c] = NewClient
  BY DEF Init
<1>1. Len(Requests[c]) \in Nat /\ 0 \in 0..Len(Requests[c])
  BY WorkloadAssumption
<1>2. /\ NewClient.asked = 0 /\ NewClient.got = <<>> /\ NewClient.out = <<>>
      /\ NewClient.awaiting = <<>> /\ NewClient.parsed = <<>>
  BY Zenon DEF NewClient
<1>3. <<>> \in Seq(Groups) /\ Cat(<<>>, <<>>) = <<>>
  <2>1. <<>> \in Seq(Groups)
    OBVIOUS
  <2> QED BY <2>1, CatEmpty, Zenon
<1>4. Due(c, 0) = <<>>
  <2>1. Due(c, 0) \in Seq(Groups) /\ Len(Due(c, 0)) = 0
    BY <1>1, DueType
  <2> QED BY <2>1, EmptySeq
<1>5. Cat(Front(NewClient), <<>>) = Due(c, 0)
  BY <1>2, <1>3, <1>4, Zenon DEF Front
<1> QED BY <1>0, <1>1, <1>2, <1>3, <1>5, NewClientType, Zenon DEF Tidy

\* The requests of an open client are where PipelineIntact says.
LEMMA TidyIntact == PipeInv => PipelineIntact
<1> SUFFICES ASSUME AllTidy, NEW c \in Clients, client[c].fd = "open"
             PROVE  client[c].got \o client[c].out \o client[c].awaiting
                        \o client[c].parsed
                      = SubSeq(Requests[c], 1, client[c].asked)
  BY Zenon DEF PipeInv, PipelineIntact
<1>1. Cat(Front(client[c]), client[c].parsed) = Due(c, client[c].asked)
  BY Zenon DEF AllTidy, Tidy
<1> QED BY <1>1, Zenon DEF Front, Cat, Due

\* What an open client has received, the replies in its output buffers, its
\* _awaiting_groups and its _parsed_groups are together the requests it sent,
\* in order, for any workload, MAX_PIPE and MAX_RESPONSES and any faults.
THEOREM PipelineCorrect == Spec => []PipelineIntact
<1>1. Init => PipeInv
  BY TypeInit, TidyInit DEF PipeInv
<1>2. PipeInv /\ [Next]_vars => PipeInv'
  BY TypeNext, TidyNext DEF PipeInv
<1> QED BY <1>1, <1>2, TidyIntact, PTL DEF Spec

-----------------------------------------------------------------------------
(***************************************************************************)
(* The service.                                                            *)
(***************************************************************************)
\* The proxy starts as the service does.
LEMMA ServiceInit == Init => Promise!Init
<1> SUFFICES ASSUME Init PROVE Promise!Init
  OBVIOUS
<1>1. \A c \in Clients : client[c] = NewClient
  BY DEF Init
<1>2. NewClient.asked = 0 /\ NewClient.got = <<>> /\ NewClient.fd = "none"
  BY Zenon DEF NewClient
<1> QED BY <1>1, <1>2 DEF Promise!Init

\* A step that no client notices is none of the service.
LEMMA UnnoticedStutters == ASSUME Unnoticed PROVE UNCHANGED Promise!vars
<1>1. \A c \in Clients : /\ client'[c].asked = client[c].asked
                         /\ client'[c].got = client[c].got
                         /\ client'[c].fd \in Disconnected
                                <=> client[c].fd \in Disconnected
  BY Zenon DEF Unnoticed, Stays
<1> QED BY <1>1, Zenon DEF Promise!vars, Disconnected

\* What a client has received is made of its first requests.
LEMMA GotBegins ==
    ASSUME NEW c \in Clients, NEW cl, Tidy(cl, c)
    PROVE  /\ Len(cl.got) \in 0..cl.asked
           /\ cl.got = SubSeq(Requests[c], 1, Len(cl.got))
<1>1. cl \in ClientType /\ cl.asked \in 0..Len(Requests[c])
  BY DEF Tidy
<1>2. /\ cl.got \in Seq(Groups) /\ cl.out \in Seq(Groups)
      /\ cl.awaiting \in Seq(Groups)
  BY <1>1, Fields, Zenon
<1>3. PICK r \in Seq(Groups) : Cat(Front(cl), r) = Due(c, cl.asked)
  BY DEF Tidy
<1> DEFINE q == Cat(Cat(cl.out, cl.awaiting), r)
<1>4. Cat(cl.out, cl.awaiting) \in Seq(Groups)
  BY <1>2, CatType, Zenon
<1>5. q \in Seq(Groups)
  BY <1>4, CatType
<1>6. Cat(cl.got, q) = Due(c, cl.asked)
  <2> DEFINE m == Cat(cl.out, cl.awaiting)
  <2>1. Front(cl) = Cat(cl.got, m)
    BY <1>1, FrontType, Zenon
  <2>2. m \in Seq(Groups)
    BY <1>4
  <2> HIDE DEF m
  <2>3. Cat(Cat(cl.got, m), r) = Cat(cl.got, Cat(m, r))
    BY <1>2, <2>2, CatAssociative
  <2>4. Cat(cl.got, Cat(m, r)) = Due(c, cl.asked)
    BY <1>3, <2>1, <2>3
  <2> QED BY <2>4, Zenon DEF m
<1> HIDE DEF q
<1>7. Len(cl.got) \in 0..cl.asked /\ cl.got = Due(c, Len(cl.got))
  BY <1>1, <1>2, <1>5, <1>6, DueBegins, Zenon
<1> QED BY <1>7 DEF Due

\* An exchange with a client is a turn of the service.
LEMMA ExchangeTurns ==
    ASSUME TypeInv, AllTidy, NEW c \in Clients, Exchange(c)
    PROVE  Promise!Turn(c)
<1> DEFINE cl == client[c]
           h == client'[c]
           n == h.asked
           k == Len(h.got)
<1>1. /\ Tidy(h, c) /\ Tidy(cl, c) /\ cl.fd = "open"
      /\ n >= cl.asked /\ k >= Len(cl.got)
      /\ h.fd \in {"open", "closed", "badio"}
  BY Zenon DEF Exchange, Good, Moves, AllTidy
<1>2. \A d \in Clients \ {c} : client'[d] = client[d]
  BY Zenon DEF Exchange
<1>3. k \in 0..n /\ h.got = SubSeq(Requests[c], 1, k)
  BY <1>1, GotBegins, Zenon
<1>4. /\ cl.asked \in Nat /\ n \in 0..Len(Requests[c]) /\ Len(cl.got) \in Nat
      /\ Len(Requests[c]) \in Nat
  <2>1. cl \in ClientType /\ n \in 0..Len(Requests[c])
    BY <1>1, Zenon DEF Tidy
  <2>2. cl.asked \in Nat /\ cl.got \in Seq(Groups)
    BY <2>1, Fields, Zenon
  <2>3. Requests \in [Clients -> Seq(Groups)]
    BY WorkloadAssumption
  <2>4. Requests[c] \in Seq(Groups)
    BY <2>3
  <2>5. Len(cl.got) \in Nat
    BY <2>2, LenProperties
  <2>6. Len(Requests[c]) \in Nat
    BY <2>4, LenProperties
  <2> HIDE DEF cl, n
  <2> QED BY <2>1, <2>2, <2>5, <2>6
<1>5. n \in cl.asked..Len(Requests[c]) /\ k \in Len(cl.got)..n
  <2> HIDE DEF n, k
  <2> QED BY <1>1, <1>3, <1>4
<1> DEFINE Asked == [d \in Clients |-> client[d].asked]
           Got == [d \in Clients |-> client[d].got]
           Gone == {d \in Clients : client[d].fd \in {"closed", "deleted", "badio"}}
<1>6. Asked' = [Asked EXCEPT ![c] = n]
  BY <1>2, Zenon
<1>7. Got' = [Got EXCEPT ![c] = SubSeq(Requests[c], 1, k)]
  BY <1>2, <1>3, Zenon
<1>8. Gone' \in {Gone, Gone \cup {c}} /\ c \notin Gone
  BY <1>1, <1>2, Zenon
<1>9. Asked[c] = cl.asked /\ Got[c] = cl.got
  OBVIOUS
<1> HIDE DEF n, k
<1> QED BY <1>5, <1>6, <1>7, <1>8, <1>9, Zenon DEF Promise!Turn

\* The proxy implements the service: each client receives the replies to its
\* requests in the order it sent them, none before its request, none twice and
\* none after it is disconnected, for any workload, any number of clients and
\* servers, any slot maps and any faults.
THEOREM ServiceImplemented == Spec => ServiceSafety
<1>1. Init => PipeInv /\ Promise!Init
  BY TypeInit, TidyInit, ServiceInit DEF PipeInv
<1>2. PipeInv /\ [Next]_vars => PipeInv'
  BY TypeNext, TidyNext DEF PipeInv
<1>3. PipeInv /\ [Next]_vars => [Promise!Next]_(Promise!vars)
  <2> SUFFICES ASSUME PipeInv, [Next]_vars
               PROVE  Promise!Next \/ UNCHANGED Promise!vars
    OBVIOUS
  <2>1. TypeInv /\ AllTidy
    BY DEF PipeInv
  <2>2. Unnoticed \/ \E c \in Clients : Exchange(c)
    BY <2>1, StepNoticed
  <2>3. ASSUME NEW c \in Clients, Exchange(c) PROVE Promise!Next
    BY <2>1, <2>3, ExchangeTurns DEF Promise!Next
  <2> QED BY <2>2, <2>3, UnnoticedStutters
<1> QED BY <1>1, <1>2, <1>3, PTL DEF Spec, ServiceSafety, Promise!Spec
=============================================================================
