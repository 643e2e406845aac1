--------------------------- MODULE CommandProofs ---------------------------
(***************************************************************************)
(* The commands of the clients, from select_remote to their responses, and *)
(* who waits for them: the queues refer to every command that waits, the   *)
(* counts are those of the commands still to be answered, and no reply is  *)
(* sent before its group is complete.  Each needs the others: a deleted    *)
(* Client takes back what it counts, through the servers it knows.         *)
(***************************************************************************)
EXTENDS PipelineProofs

-----------------------------------------------------------------------------
(***************************************************************************)
(* The invariant.                                                          *)
(***************************************************************************)
AllSound == \A c \in Clients : Sound(client[c], c, answered, issued, Held)

LeftExact == \A g \in Groups : left[g] = Cardinality(CommandsOf(g) \ answered)

CountInv == AllSound /\ LeftExact /\ answered \subseteq issued

CommandInv == PipeInv /\ CountInv /\ PlaceInv

\* It is the invariant of the queues, and more.
LEMMA QueuesToo == CommandInv => QueueInv
<1> SUFFICES ASSUME CommandInv PROVE QueueInv
  OBVIOUS
<1>1. MapType /\ StagesInRange /\ ServerInv /\ PlaceInv
  BY DEF CommandInv, PipeInv, TypeInv, CountTypes
<1>2. ASSUME NEW m \in Commands PROVE Target(m) \in Servers \cup {Nul}
  BY <1>1, TargetType
<1>3. ASSUME NEW m \in Commands, MoreSteps(m)
      PROVE  ServerAt(m, stage[m] + 1) \in Servers \cup {Nul}
  <2>1. stage[m] < Len(Steps[m])
    BY <1>3 DEF MoreSteps
  <2>2. Len(Steps[m]) \in Nat
    BY WorkloadAssumption
  <2>3. stage[m] \in 1..Len(Steps[m])
    BY <1>1 DEF StagesInRange
  <2>4. stage[m] + 1 \in 1..Len(Steps[m])
    BY <2>1, <2>2, <2>3
  <2> QED BY <1>1, <2>4, ServerAtType
<1> QED BY <1>1, <1>2, <1>3 DEF QueueInv, Routable

\* What it says of one Client.
LEMMA SoundOf ==
    ASSUME CommandInv, NEW c \in Clients
    PROVE  /\ Sound(client[c], c, answered, issued, Held)
           /\ Tidy(client[c], c) /\ client[c] \in ClientType
BY DEF CommandInv, CountInv, AllSound, Sound, Tidy

-----------------------------------------------------------------------------
(***************************************************************************)
(* The steps that leave the counts alone.                                  *)
(***************************************************************************)
\* The counts do not change either.
LEMMA QuietCounts ==
    ASSUME CountInv, Held' = Held, UNCHANGED <<left, issued, answered>>,
           \A c \in Clients : Sound(client'[c], c, answered, issued, Held)
    PROVE  CountInv'
BY DEF CountInv, AllSound, LeftExact

\* Nothing at all changes.
LEMMA Unchanged ==
    ASSUME CommandInv,
           UNCHANGED <<client, up, commands, sent, retrying, left, issued, answered>>
    PROVE  CountInv' /\ PlaceInv'
<1>1. PlaceInv' /\ Held' = Held
  BY QuietPlaces DEF CommandInv, NoneDeleted
<1>2. \A c \in Clients : Sound(client'[c], c, answered, issued, Held)
  BY DEF CommandInv, CountInv, AllSound
<1> QED BY <1>1, <1>2, QuietCounts DEF CommandInv

\* Accept.
LEMMA AcceptCounts ==
    ASSUME CommandInv, AllTidy', Accept PROVE CountInv' /\ PlaceInv'
<1>1. PICK S \in SUBSET {c \in Clients : client[c].fd = "none"} :
        /\ client' = [c \in Clients |-> IF c \in S
                        THEN [client[c] EXCEPT !.fd = "open"] ELSE client[c]]
        /\ UNCHANGED <<serverVars, proxyVars, groupVars>>
  BY Zenon DEF Accept
<1>2. ASSUME NEW c \in Clients
      PROVE  /\ Sound(client'[c], c, answered, issued, Held)
             /\ client'[c].fd = "deleted" <=> client[c].fd = "deleted"
  <2>1. Sound(client[c], c, answered, issued, Held) /\ Tidy(client'[c], c)
    BY SoundOf DEF AllTidy
  <2>2. CASE c \in S
    <3>1. client[c].fd = "none" /\ client'[c] = [client[c] EXCEPT !.fd = "open"]
      BY <1>1, <2>2
    <3> QED BY <2>1, <3>1, FdSound
  <2>3. CASE c \notin S
    BY <1>1, <2>1, <2>3
  <2> QED BY <2>2, <2>3
<1>3. UNCHANGED <<up, commands, sent, retrying, left, issued, answered>>
  BY <1>1 DEF serverVars, proxyVars, groupVars
<1>4. PlaceInv' /\ Held' = Held
  BY <1>2, <1>3, QuietPlaces DEF CommandInv, NoneDeleted
<1> QED BY <1>2, <1>3, <1>4, QuietCounts DEF CommandInv

\* A client closes its connection.
LEMMA ClientQuitCounts ==
    ASSUME CommandInv, AllTidy', NEW c \in Clients, ClientQuit(c)
    PROVE  CountInv' /\ PlaceInv'
<1>1. /\ client[c].fd = "open"
      /\ client' = [client EXCEPT ![c] = [client[c] EXCEPT !.fd = "closed"]]
      /\ UNCHANGED <<serverVars, proxyVars, groupVars>>
  BY DEF ClientQuit
<1>2. DOMAIN client = Clients
  BY DEF CommandInv, PipeInv, TypeInv, ClientsTyped
<1>3. ASSUME NEW d \in Clients
      PROVE  /\ Sound(client'[d], d, answered, issued, Held)
             /\ client'[d].fd = "deleted" <=> client[d].fd = "deleted"
  <2>1. Sound(client[d], d, answered, issued, Held) /\ Tidy(client'[d], d)
    BY SoundOf DEF AllTidy
  <2>2. CASE d = c
    <3>1. client'[d] = [client[d] EXCEPT !.fd = "closed"]
      BY <1>1, <1>2, <2>2
    <3> QED BY <1>1, <2>1, <2>2, <3>1, FdSound
  <2>3. CASE d # c
    BY <1>1, <1>2, <2>1, <2>3
  <2> QED BY <2>2, <2>3
<1>4. UNCHANGED <<up, commands, sent, retrying, left, issued, answered>>
  BY <1>1 DEF serverVars, proxyVars, groupVars
<1>5. PlaceInv' /\ Held' = Held
  BY <1>3, <1>4, QuietPlaces, Zenon DEF CommandInv, NoneDeleted
<1> QED BY <1>3, <1>4, <1>5, QuietCounts DEF CommandInv

\* A connection is closed, and its commands are to be retried.
LEMMA ServerLostCounts ==
    ASSUME CommandInv, NEW s \in Servers, ServerLost(s) \/ CloseRemoved(s)
    PROVE  CountInv' /\ PlaceInv'
<1>1. PlaceInv' /\ \A m \in Commands : Held'[m] \subseteq Held[m]
  BY QueuesToo, ServerLostPlaces
<1>2. UNCHANGED <<client, left, issued, answered>>
  BY Zenon DEF ServerLost, CloseRemoved, groupVars
<1>3. ASSUME NEW c \in Clients PROVE Sound(client[c], c, answered, issued, Held')
  BY <1>1, SoundOf, SoundAgain, Zenon
<1>4. CountInv'
  BY <1>2, <1>3, Zenon DEF CommandInv, CountInv, AllSound, LeftExact
<1> QED BY <1>1, <1>4

\* A connection is opened.
LEMMA UpdaterDoneCounts ==
    ASSUME CommandInv, NEW nm \in Maps, UpdaterDone(nm)
    PROVE  CountInv' /\ PlaceInv'
<1>1. PlaceInv' /\ Held' = Held
  BY QueuesToo, UpdaterDonePlaces
<1>2. UNCHANGED <<client, left, issued, answered>>
  BY DEF UpdaterDone, groupVars
<1>3. \A c \in Clients : Sound(client'[c], c, answered, issued, Held)
  BY <1>2, SoundOf
<1> QED BY <1>1, <1>2, <1>3, QuietCounts, Zenon DEF CommandInv

\* _set_slot_map makes the servers known to the Clients.
LEMMA SetSlotMapCounts ==
    ASSUME CommandInv, AllTidy', SetSlotMap PROVE CountInv' /\ PlaceInv'
<1> DEFINE To == [m \in Range(retrying) |-> Target(m)]
<1>1. /\ client' = [c \in Clients |-> AddPeers(client[c], c, To)]
      /\ UNCHANGED <<left, issued, answered>>
  BY DEF SetSlotMap, groupVars
<1>2. NoneDeleted
  BY <1>1, SoundOf DEF NoneDeleted, AddPeers, ClientType
<1>3. /\ PlaceInv'
      /\ \A m \in Commands : Held'[m] \subseteq
            Held[m] \cup ({To[x] : x \in {m} \cap DOMAIN To} \ {Nul})
  BY <1>2, QueuesToo, SetSlotMapPlaces
<1> HIDE DEF To
<1>4. ASSUME NEW c \in Clients
      PROVE  Sound(client'[c], c, answered, issued, Held')
  <2>1. Sound(client[c], c, answered, issued, Held)
    BY SoundOf
  <2>2. client'[c] = AddPeers(client[c], c, To) /\ Tidy(client'[c], c)
    BY <1>1 DEF AllTidy
  <2> QED BY <1>3, <2>1, <2>2, AddPeersSound
<1>5. CountInv'
  BY <1>1, <1>4 DEF CommandInv, CountInv, AllSound, LeftExact
<1> QED BY <1>3, <1>5, Zenon

\* A Client refers through _peers to the servers that refer to its commands.
LEMMA PendingKnown ==
    ASSUME CommandInv, NEW m \in Commands, Pending(m)
    PROVE  Held[m] \subseteq client[Owner(m)].peers
<1> DEFINE c == Owner(m)
<1>1. c \in Clients
  BY WorkloadAssumption DEF Owner
<1>2. Sound(client[c], c, answered, issued, Held)
  BY <1>1 DEF CommandInv, CountInv, AllSound
<1>3. m \in issued \ answered /\ client[c].fd # "deleted"
  BY DEF Pending
<1>4. GroupOf[m] \in Range(Front(client[c]))
  BY <1>2, <1>3 DEF Sound, Entered
<1>5. Waits(GroupOf[m], answered)
  BY <1>3 DEF Waits, CommandsOf
<1>6. GroupOf[m] \notin Replied(client[c])
  BY <1>2, <1>5 DEF Sound, Complete
<1>7. GroupOf[m] \in Range(client[c].awaiting)
  <2>1. client[c] \in ClientType
    BY <1>2, Zenon DEF Sound, Tidy
  <2> QED BY <1>4, <1>6, <2>1, Ranges
<1> QED BY <1>2, <1>3, <1>7 DEF Sound, Known

\* The end of a batch: the Clients that are deleted take their commands back.
LEMMA EndBatchCounts ==
    ASSUME CommandInv, AllTidy', EndBatch PROVE CountInv' /\ PlaceInv'
<1> DEFINE gone == {c \in active \cap Clients : client[c].fd = "closed"}
<1>1. /\ client' = [c \in Clients |-> IF c \in gone THEN Deleted(client[c])
                                      ELSE [client[c] EXCEPT !.poll = "none"]]
      /\ UNCHANGED <<left, issued, answered>>
  BY DEF EndBatch, groupVars
<1>2. \A c \in Clients : c \in gone <=> c \in active /\ client[c].fd = "closed"
  OBVIOUS
<1> HIDE DEF gone
<1>3. ASSUME NEW c \in Clients
      PROVE  client'[c].fd = "deleted" <=> c \in gone \/ client[c].fd = "deleted"
  <2>1. [client[c] EXCEPT !.poll = "none"].fd = client[c].fd
    BY SoundOf DEF ClientType
  <2>2. Deleted(client[c]).fd = "deleted"
    BY DEF Deleted, NewClient
  <2>3. client'[c] = IF c \in gone THEN Deleted(client[c])
                     ELSE [client[c] EXCEPT !.poll = "none"]
    BY <1>1
  <2> QED BY <2>1, <2>2, <2>3
<1>4. PlaceInv' /\ \A m \in Commands : Held'[m] \subseteq Held[m]
  BY <1>2, <1>3, QueuesToo, PendingKnown, EndBatchPlaces
<1>5. ASSUME NEW c \in Clients
      PROVE  Sound(client'[c], c, answered, issued, Held')
  <2>1. Sound(client[c], c, answered, issued, Held) /\ Tidy(client'[c], c)
    BY SoundOf DEF AllTidy
  <2>2. CASE c \in gone
    <3>1. client'[c] = Deleted(client[c])
      BY <1>1, <2>2
    <3> QED BY <2>1, <3>1, DeletedSound
  <2>3. CASE c \notin gone
    <3> DEFINE cl == client[c]
               h == client'[c]
    <3>1. h = [cl EXCEPT !.poll = "none"]
      BY <1>1, <2>3
    <3>2. cl \in ClientType
      BY <2>1, Zenon DEF Sound, Tidy
    <3>3. /\ h.got = cl.got /\ h.out = cl.out /\ h.awaiting = cl.awaiting
          /\ h.count = cl.count /\ h.peers = cl.peers /\ h.fd = cl.fd
      BY <3>1, <3>2 DEF ClientType
    <3> HIDE DEF cl, h
    <3>4. Sound(cl, c, answered, issued, Held')
      BY <1>4, <2>1, SoundAgain DEF cl
    <3>5. Sound(h, c, answered, issued, Held')
      BY <2>1, <3>3, <3>4, SameSound, Zenon DEF h
    <3> QED BY <3>5 DEF h
  <2> QED BY <2>2, <2>3
<1>6. CountInv'
  BY <1>1, <1>5 DEF CommandInv, CountInv, AllSound, LeftExact
<1> QED BY <1>4, <1>6

-----------------------------------------------------------------------------
(***************************************************************************)
(* The steps that answer commands.                                         *)
(***************************************************************************)
\* The groups are counted down by the commands answered.
LEMMA LeftNext ==
    ASSUME LeftExact, NEW B, B \subseteq Commands \ answered, CountResponses(B)
    PROVE  LeftExact'
<1> SUFFICES ASSUME NEW g \in Groups
             PROVE  left'[g] = Cardinality(CommandsOf(g) \ answered')
  BY DEF LeftExact
<1> DEFINE S == CommandsOf(g) \ (answered \cup B)
           T == B \cap CommandsOf(g)
<1>1. /\ left'[g] = left[g] - Cardinality(T) /\ answered' = answered \cup B
      /\ left[g] = Cardinality(CommandsOf(g) \ answered)
  BY DEF CountResponses, LeftExact
<1>2. CommandsOf(g) \ answered = S \cup T /\ S \cap T = {}
  OBVIOUS
<1>3. S \in SUBSET Commands /\ T \in SUBSET Commands
  BY DEF CommandsOf
<1> HIDE DEF S, T
<1>4. /\ IsFiniteSet(S) /\ IsFiniteSet(T)
      /\ Cardinality(S) \in Nat /\ Cardinality(T) \in Nat
  BY <1>3, CommandsFinite
<1>5. Cardinality(S \cup T) = Cardinality(S) + Cardinality(T)
  BY <1>2, <1>4, DisjointUnion, Zenon
<1>6. left[g] = Cardinality(S) + Cardinality(T)
  BY <1>1, <1>2, <1>5, Zenon
<1>7. left'[g] = Cardinality(S)
  BY ONLY <1>1, <1>4, <1>6
<1> QED BY <1>1, <1>7 DEF S

\* The Clients whose commands B are answered.
LEMMA RespondedSound ==
    ASSUME NEW B, NEW cls, NEW H, LeftExact,
           answered \subseteq Commands, issued \subseteq Commands,
           NEW c \in Clients, Sound(cls[c], c, answered, issued, H),
           B \subseteq issued \ answered,
           \A m \in B : Owner(m) = c => cls[c].fd # "deleted"
    PROVE  Sound(Responded(B, cls)[c], c, answered \cup B, issued, H)
<1>1. Responded(B, cls)[c] = GroupResponsed(cls[c], Cardinality(CompletedBy(B, c)))
  BY Zenon DEF Responded
<1>2. \A g \in Groups : left[g] = Cardinality(CommandsOf(g) \ answered)
  BY DEF LeftExact
<1> QED BY <1>1, <1>2, RespondSound

\* _update_slot_map_failed answers the commands to retry.
LEMMA DiscardCounts ==
    ASSUME CommandInv, AllTidy', Discard PROVE CountInv' /\ PlaceInv'
<1> DEFINE B == Range(retrying)
           cls == Responded(B, client)
<1>1. /\ CountResponses(B)
      /\ issued' = issued
      /\ client' = PollDone(cls) \/ client' = cls
  BY DEF Discard
<1>2. answered' = answered \cup B
  BY <1>1 DEF CountResponses
<1>3. \A m \in B : m \in Commands /\ Pending(m)
  BY QueuesToo, RetryingPending
<1>4. B \subseteq issued \ answered /\ B \subseteq Commands \ answered
  BY <1>3 DEF Pending
<1>5. LeftExact /\ answered \subseteq Commands /\ issued \subseteq Commands
      /\ answered \subseteq issued
  BY DEF CommandInv, CountInv, PipeInv, TypeInv, CountTypes
<1>6. ASSUME NEW c \in Clients
      PROVE  /\ Sound(client'[c], c, answered', issued, Held)
             /\ client'[c].fd = client[c].fd
  <2>1. Sound(client[c], c, answered, issued, Held)
    BY SoundOf
  <2>2. \A m \in B : Owner(m) = c => client[c].fd # "deleted"
    BY <1>3 DEF Pending
  <2> HIDE DEF B
  <2>3. Sound(cls[c], c, answered', issued, Held)
    BY <1>2, <1>4, <1>5, <2>1, <2>2, RespondedSound, Zenon
  <2>4. cls[c] \in ClientType
    BY <2>3, Zenon DEF Sound, Tidy
  <2>5. client'[c] = cls[c] \/ client'[c] = [cls[c] EXCEPT !.poll = "none"]
    BY <1>1 DEF PollDone
  <2> HIDE DEF cls
  <2> DEFINE g == cls[c]
             h == client'[c]
  <2>6. /\ h.got = g.got /\ h.out = g.out /\ h.awaiting = g.awaiting
        /\ h.count = g.count /\ h.peers = g.peers /\ h.fd = g.fd
    BY <2>4, <2>5, Zenon DEF ClientType
  <2>7. Tidy(h, c)
    BY DEF AllTidy
  <2> HIDE DEF g, h
  <2>8. Sound(h, c, answered', issued, Held)
    BY <2>3, <2>6, <2>7, SameSound, Zenon DEF g
  <2>9. g.fd = client[c].fd
    BY <2>1, GroupResponsedFd, Zenon DEF g, cls, Responded, Sound, Tidy
  <2> QED BY <2>6, <2>8, <2>9, Zenon DEF h
<1>7. PlaceInv' /\ Held' = Held
  BY <1>6, QueuesToo, DiscardPlaces, Zenon DEF NoneDeleted
<1>8. AllSound'
  BY <1>1, <1>6, <1>7 DEF AllSound
<1>9. LeftExact' /\ answered' \subseteq issued'
  BY <1>1, <1>2, <1>4, <1>5, LeftNext
<1> QED BY <1>7, <1>8, <1>9 DEF CountInv

\* Server::on_events answers the commands that are done.
LEMMA ServerEventCounts ==
    ASSUME CommandInv, AllTidy', NEW s \in Servers, ServerEvent(s)
    PROVE  CountInv' /\ PlaceInv'
<1>1. PICK k \in 0..Len(wire[s]), broken \in BOOLEAN :
        \E moved, next, To : Replies(s, k, broken, moved, next, To)
  BY QueuesToo, ServerEventMeans
<1>2. PICK moved, next, To : Replies(s, k, broken, moved, next, To)
  BY <1>1
<1> DEFINE done == RepliedTo(s, k) \ (moved \cup next)
           cls == [c \in Clients |-> AddPeers(client[c], c, To)]
<1>3. /\ DOMAIN To = next
      /\ \A m \in next : To[m] \in Servers \cup {Nul}
      /\ client' = Responded(done, cls)
      /\ CountResponses(done)
      /\ issued' = issued
  BY <1>2, Zenon DEF Replies
<1>4. ASSUME NEW c \in Clients
      PROVE  /\ Tidy(AddPeers(client[c], c, To), c)
             /\ cls[c] = AddPeers(client[c], c, To)
             /\ cls[c] \in ClientType
             /\ cls[c].fd = client[c].fd /\ client'[c].fd = client[c].fd
  <2>1. Tidy(AddPeers(client[c], c, To), c)
    BY <1>3, SoundOf, AddPeersTidy, Zenon
  <2>2. client[c] \in ClientType /\ cls[c] \in ClientType
    BY <2>1, SoundOf, Zenon DEF Tidy
  <2>3. cls[c].fd = client[c].fd
    BY <2>2, Zenon DEF AddPeers, ClientType
  <2>4. cls[c] = AddPeers(client[c], c, To)
    OBVIOUS
  <2> HIDE DEF cls, done
  <2>5. client'[c].fd = cls[c].fd
    BY <1>3, <2>2, GroupResponsedFd, Zenon DEF Responded
  <2> QED BY <2>1, <2>2, <2>3, <2>4, <2>5, Zenon
<1>5. NoneDeleted
  BY <1>4, Zenon DEF NoneDeleted
<1>6. /\ PlaceInv'
      /\ \A m \in RepliedTo(s, k) : m \in Commands /\ Pending(m)
      /\ \A m \in Commands : Held'[m] \subseteq
            Held[m] \cup ({To[x] : x \in {m} \cap DOMAIN To} \ {Nul})
  BY <1>2, <1>5, QueuesToo, RepliesPlaces, Zenon
<1>7. \A m \in done : m \in Commands /\ Pending(m)
  BY <1>6, Zenon
<1> HIDE DEF done, cls
<1>8. done \subseteq issued \ answered /\ done \subseteq Commands \ answered
  BY <1>7, Zenon DEF Pending
<1>9. answered' = answered \cup done
  BY <1>3, Zenon DEF CountResponses
<1>10. /\ LeftExact /\ answered \subseteq Commands /\ issued \subseteq Commands
       /\ answered \subseteq issued
  BY Zenon DEF CommandInv, CountInv, PipeInv, TypeInv, CountTypes
<1>11. ASSUME NEW c \in Clients
       PROVE  Sound(client'[c], c, answered', issued, Held')
  <2>1. Sound(client[c], c, answered, issued, Held)
    BY SoundOf, Zenon
  <2>2. Sound(AddPeers(client[c], c, To), c, answered, issued, Held')
    BY <1>4, <1>6, <2>1, AddPeersSound, Zenon
  <2>3. Sound(cls[c], c, answered, issued, Held')
    BY <1>4, <2>2, Zenon
  <2>4. \A m \in done : Owner(m) = c => cls[c].fd # "deleted"
    BY <1>4, <1>7, Zenon DEF Pending
  <2>5. Sound(Responded(done, cls)[c], c, answered \cup done, issued, Held')
    BY <1>8, <1>10, <2>3, <2>4, RespondedSound, Zenon
  <2> QED BY <1>3, <1>9, <2>5, Zenon
<1>12. AllSound'
  BY <1>3, <1>11, Zenon DEF AllSound
<1>13. LeftExact' /\ answered' \subseteq issued'
  BY <1>3, <1>8, <1>9, <1>10, LeftNext, Zenon
<1> QED BY <1>6, <1>12, <1>13 DEF CountInv

-----------------------------------------------------------------------------
(***************************************************************************)
(* The events of a client.                                                 *)
(***************************************************************************)
\* The servers that refer to a command of c, or are about to.
Expected(c) ==
    [m \in Commands |-> IF GroupOf[m] \in Range(client[c].awaiting) THEN Held[m]
                        ELSE {Target(m)} \ {Nul}]

\* An event of a client, for what it changes.
LEMMA ClientEventMeans ==
    ASSUME CommandInv, NEW c \in Clients, ClientEvent(c)
    PROVE  /\ client[c].fd = "open"
           /\ \A d \in Clients \ {c} : client'[d] = client[d]
           /\ UNCHANGED <<up, sent, left, answered>>
           /\ \E h : /\ \E rd, wr \in BOOLEAN :
                        \E j \in 0..(Len(Requests[c]) - client[c].asked) :
                            h \in ClientOnEvents(client[c], c, rd, j, wr)
                     /\ client'[c] = h \/ client'[c] = [h EXCEPT !.fd = "closed"]
                     /\ Issue(c, h)
<1>1. PICK rd \in BOOLEAN, wr \in BOOLEAN, broken \in BOOLEAN :
        \E j \in 0..(Len(Requests[c]) - client[c].asked) :
            /\ client[c].fd = "open"
            /\ rd \/ (wr /\ j = 0)
            /\ wr => c \in want
            /\ Dispatch(c)
            /\ \E h \in ClientOnEvents(client[c], c, rd, j, wr) :
                /\ broken => wr /\ h.fd = "open" /\ h.out # <<>>
                /\ client' = [client EXCEPT ![c] =
                                IF broken THEN [h EXCEPT !.fd = "closed"] ELSE h]
                /\ Issue(c, h)
            /\ IF broken THEN Fault ELSE UNCHANGED faults
            /\ UNCHANGED <<up, sent, output, wire, slotmap, expired, updating,
                           want, left, stage, answered, phase, closing>>
  BY Zenon DEF ClientEvent
<1>2. PICK j \in 0..(Len(Requests[c]) - client[c].asked) :
        /\ client[c].fd = "open"
        /\ \E h \in ClientOnEvents(client[c], c, rd, j, wr) :
            /\ client' = [client EXCEPT ![c] =
                            IF broken THEN [h EXCEPT !.fd = "closed"] ELSE h]
            /\ Issue(c, h)
        /\ UNCHANGED <<up, sent, left, answered>>
  BY <1>1, Zenon
<1>3. PICK h \in ClientOnEvents(client[c], c, rd, j, wr) :
        /\ client' = [client EXCEPT ![c] =
                        IF broken THEN [h EXCEPT !.fd = "closed"] ELSE h]
        /\ Issue(c, h)
  BY <1>2, Zenon
<1>4. DOMAIN client = Clients
  BY Zenon DEF CommandInv, PipeInv, TypeInv, ClientsTyped
<1>5. client'[c] = IF broken THEN [h EXCEPT !.fd = "closed"] ELSE h
  BY <1>3, <1>4, Zenon
<1>6. \A d \in Clients \ {c} : client'[d] = client[d]
  BY <1>3, <1>4, Zenon
<1> QED BY <1>2, <1>3, <1>5, <1>6, Zenon

\* The groups that _process makes awaiting are new, and so are their commands.
LEMMA EventSound ==
    ASSUME CommandInv, NEW c \in Clients, client[c].fd = "open", NEW h,
           \E rd, wr \in BOOLEAN :
           \E j \in 0..(Len(Requests[c]) - client[c].asked) :
                h \in ClientOnEvents(client[c], c, rd, j, wr)
    PROVE  /\ Sound(h, c, answered, issued, Expected(c)) /\ h.fd # "deleted"
           /\ \A m \in NewOf(client[c], h) : m \notin issued /\ Owner(m) = c
<1> DEFINE cl == client[c]
           H == Expected(c)
<1>1. PICK rd \in BOOLEAN, wr \in BOOLEAN,
           j \in 0..(Len(Requests[c]) - cl.asked) :
                h \in ClientOnEvents(cl, c, rd, j, wr)
  OBVIOUS
<1>2. Sound(cl, c, answered, issued, Held)
  BY SoundOf, Zenon
<1>3. MapType /\ StagesInRange /\ answered \subseteq issued /\ issued \subseteq Commands
  BY Zenon DEF CommandInv, CountInv, PipeInv, TypeInv, CountTypes
<1>4. \A m \in Commands \ issued : Held[m] = {}
  BY Zenon DEF CommandInv, PlaceInv, AllPlaced, Pending, Nowhere, Held
<1>5. Fresh(H, issued)
  BY <1>4, Zenon DEF Fresh, Expected
<1>6. Sound(cl, c, answered, issued, H)
  <2>1. \A m \in Commands \ answered :
            GroupOf[m] \in Range(cl.awaiting) => H[m] \subseteq Held[m]
    BY Zenon DEF Expected
  <2> HIDE DEF H, cl
  <2> QED BY <1>2, <2>1, SoundAgain, Zenon
<1> HIDE DEF H
<1>7. Sound(h, c, answered, issued, H) /\ Grows(cl, h)
  BY <1>1, <1>3, <1>5, <1>6, OnEventsSound, Zenon
<1>8. h.fd # "deleted"
  <2>1. Good(cl, h, c)
    BY <1>1, <1>2, <1>3, OnEventsTidy, Zenon DEF Sound
  <2> QED BY <2>1, Zenon DEF Good
<1>9. cl \in ClientType /\ h \in ClientType /\ Tidy(h, c)
  BY <1>2, <1>7, Zenon DEF Sound, Tidy
<1>10. /\ Replied(h) \cap Range(h.awaiting) = {}
       /\ Range(Front(h)) \subseteq GroupsOf(c)
  BY <1>9, TidyApart, Zenon
<1>11. ASSUME NEW m \in NewOf(cl, h) PROVE m \notin issued /\ Owner(m) = c
  <2>1. m \in Commands /\ GroupOf[m] \in Range(h.awaiting) \ Range(cl.awaiting)
    BY Zenon DEF NewOf
  <2>2. GroupOf[m] \in GroupsOf(c)
    BY <1>9, <1>10, <2>1, Ranges, Zenon
  <2>3. Owner(m) = c
    BY <2>2, Zenon DEF GroupsOf, Owner
  <2>4. ASSUME m \in issued PROVE FALSE
    <3>1. GroupOf[m] \in Range(Front(cl))
      BY <1>2, <2>3, <2>4, Zenon DEF Sound, Entered
    <3>2. GroupOf[m] \in Replied(cl)
      BY <1>9, <2>1, <3>1, Ranges, Zenon
    <3> QED BY <1>7, <1>10, <2>1, <3>2, Zenon DEF Grows
  <2> QED BY <2>3, <2>4, Zenon
<1> QED BY <1>7, <1>8, <1>11, Zenon DEF H

\* Client::on_events hands the commands of the new groups to select_remote.
LEMMA ClientEventCounts ==
    ASSUME CommandInv, AllTidy', NEW c \in Clients, ClientEvent(c)
    PROVE  CountInv' /\ PlaceInv'
<1>1. /\ client[c].fd = "open"
      /\ \A d \in Clients \ {c} : client'[d] = client[d]
      /\ UNCHANGED <<up, sent, left, answered>>
  BY ClientEventMeans
<1>2. PICK h : /\ \E rd, wr \in BOOLEAN :
                  \E j \in 0..(Len(Requests[c]) - client[c].asked) :
                      h \in ClientOnEvents(client[c], c, rd, j, wr)
               /\ client'[c] = h \/ client'[c] = [h EXCEPT !.fd = "closed"]
               /\ Issue(c, h)
  BY ClientEventMeans, Zenon
<1>3. /\ Sound(h, c, answered, issued, Expected(c)) /\ h.fd # "deleted"
      /\ \A m \in NewOf(client[c], h) : m \notin issued /\ Owner(m) = c
  BY <1>1, <1>2, EventSound
<1>4. client'[c].fd # "deleted" /\ client[c].fd # "deleted"
  <2>1. h \in ClientType
    BY <1>3 DEF Sound, Tidy
  <2>2. [h EXCEPT !.fd = "closed"].fd = "closed"
    BY <2>1 DEF ClientType
  <2> QED BY <1>1, <1>2, <1>3, <2>2, Zenon
<1> DEFINE new == NewOf(client[c], h)
<1>5. new \subseteq Commands /\ Nul \notin Servers
  BY WorkloadAssumption DEF NewOf
<1>6. \A m \in new : m \notin issued \cup answered /\ Owner(m) = c
  BY <1>3 DEF CommandInv, CountInv
<1>7. /\ PlaceInv' /\ issued' = issued \cup new
      /\ \A m \in Commands :
            Held'[m] = Held[m] \cup {s \in Servers : m \in new /\ Target(m) = s}
  BY <1>1, <1>2, <1>4, <1>6, QueuesToo, IssuePlaces
<1> HIDE DEF new
<1>8. \A m \in new : Held[m] = {}
  BY <1>5, <1>6, Zenon DEF CommandInv, PlaceInv, AllPlaced, Pending, Nowhere, Held
<1>9. ASSUME NEW d \in Clients
      PROVE  Sound(client'[d], d, answered, issued', Held')
  <2>1. CASE d # c
    <3>1. Sound(client[d], d, answered, issued, Held)
      BY SoundOf, Zenon
    <3>2. \A m \in issued' : Owner(m) = d => m \in issued
      BY <1>6, <1>7, <2>1, Zenon
    <3>3. ASSUME NEW m \in Commands, GroupOf[m] \in Range(client[d].awaiting)
          PROVE  Held'[m] \subseteq Held[m]
      <4>1. client[d] \in ClientType /\ Tidy(client[d], d)
        BY <3>1, Zenon DEF Sound, Tidy
      <4>2. GroupOf[m] \in GroupsOf(d)
        BY <3>3, <4>1, Ranges, TidyApart, Zenon
      <4>3. m \notin new
        BY <1>6, <2>1, <4>2, Zenon DEF GroupsOf, Owner
      <4> QED BY <1>7, <4>3, Zenon
    <3>4. Sound(client[d], d, answered, issued', Held')
      BY <3>1, <3>2, <3>3, SoundAgain, Zenon
    <3> QED BY <1>1, <2>1, <3>4, Zenon
  <2>2. CASE d = c
    <3>1. \A m \in issued' : Owner(m) = c =>
                m \in issued \/ GroupOf[m] \in Range(Front(h))
      <4>1. h \in ClientType
        BY <1>3, Zenon DEF Sound, Tidy
      <4>2. \A m \in new : GroupOf[m] \in Range(h.awaiting)
        BY Zenon DEF new, NewOf
      <4> QED BY <1>7, <4>1, <4>2, Ranges, Zenon
    <3>2. ASSUME NEW m \in Commands, GroupOf[m] \in Range(h.awaiting)
          PROVE  Held'[m] \subseteq Expected(c)[m]
      <4>1. CASE m \in new
        <5>1. Held[m] = {} /\ GroupOf[m] \notin Range(client[c].awaiting)
          BY <1>8, <4>1, Zenon DEF new, NewOf
        <5>2. Expected(c)[m] = {Target(m)} \ {Nul}
          BY <5>1, Zenon DEF Expected
        <5> QED BY <1>5, <1>7, <4>1, <5>1, <5>2, Zenon
      <4>2. CASE m \notin new
        <5>1. GroupOf[m] \in Range(client[c].awaiting)
          BY <3>2, <4>2, Zenon DEF new, NewOf
        <5>2. Expected(c)[m] = Held[m]
          BY <5>1, Zenon DEF Expected
        <5> QED BY <1>7, <4>2, <5>2, Zenon
      <4> QED BY <4>1, <4>2, Zenon
    <3>3. Sound(h, c, answered, issued', Held')
      BY <1>3, <3>1, <3>2, SoundAgain, Zenon
    <3>4. Tidy(client'[c], c)
      BY DEF AllTidy
    <3>5. Sound(client'[c], c, answered, issued', Held')
      BY <1>2, <1>3, <3>3, <3>4, FdSound
    <3> QED BY <2>2, <3>5
  <2> QED BY <2>1, <2>2, Zenon
<1>10. CountInv'
  BY <1>1, <1>7, <1>9, Zenon DEF CommandInv, CountInv, AllSound, LeftExact
<1> QED BY <1>7, <1>10, Zenon

-----------------------------------------------------------------------------
(***************************************************************************)
(* The theorems.                                                           *)
(***************************************************************************)
\* There are no commands at first.
LEMMA CountInit == ASSUME Init, AllTidy PROVE CountInv
<1>1. /\ client = [c \in Clients |-> NewClient]
      /\ issued = {} /\ answered = {}
      /\ left = [g \in Groups |-> Cardinality(CommandsOf(g))]
  BY Zenon DEF Init
<1>2. Range(<<>>) = {}
  BY RangeEmpty
<1>3. ASSUME NEW c \in Clients PROVE Sound(client[c], c, answered, issued, Held)
  <2> DEFINE cl == client[c]
  <2>1. cl = NewClient /\ Tidy(cl, c)
    BY <1>1 DEF AllTidy
  <2>2. cl.got = <<>> /\ cl.out = <<>> /\ cl.awaiting = <<>> /\ cl.count = 0
    BY <2>1 DEF NewClient
  <2>3. cl \in ClientType
    BY <2>1, Zenon DEF Tidy
  <2> HIDE DEF cl
  <2>4. Range(cl.awaiting) = {} /\ Replied(cl) = {}
    BY <1>2, <2>2, <2>3, Ranges, Zenon
  <2>5. Counted(cl, answered)
    <3>1. {g \in Range(cl.awaiting) : Waits(g, answered)} = {}
      BY <2>4, Zenon
    <3> QED BY <2>2, <3>1, FS_EmptySet, Zenon DEF Counted
  <2>6. Complete(cl, answered) /\ Known(cl, answered, Held) /\ Entered(cl, c, issued)
    BY <1>1, <2>4, Zenon DEF Complete, Known, Entered
  <2> QED BY <2>1, <2>5, <2>6, Zenon DEF Sound, cl
<1>4. LeftExact
  <2>1. \A g \in Groups : CommandsOf(g) \ {} = CommandsOf(g)
    OBVIOUS
  <2> QED BY <1>1, <2>1 DEF LeftExact
<1> QED BY <1>1, <1>3, <1>4 DEF CountInv, AllSound

\* The invariant holds at first.
LEMMA CommandInit == Init => CommandInv
BY TypeInit, TidyInit, CountInit, PlacesInit DEF CommandInv, PipeInv

\* Every step keeps the counts and the places.
LEMMA CountNext ==
    ASSUME CommandInv, AllTidy', [Next]_vars PROVE CountInv' /\ PlaceInv'
<1>1. CASE UNCHANGED vars
  BY <1>1, Unchanged, Zenon DEF vars, serverVars, proxyVars, groupVars
<1>2. CASE UpdaterFailed \/ Retrieve
  <2>1. UNCHANGED <<client, up, commands, sent, retrying, left, issued, answered>>
    BY <1>2, Zenon DEF UpdaterFailed, Retrieve, serverVars, groupVars
  <2> QED BY <2>1, Unchanged
<1>3. CASE Accept \/ SetSlotMap \/ Discard \/ EndBatch
  BY <1>3, AcceptCounts, SetSlotMapCounts, DiscardCounts, EndBatchCounts
<1>4. ASSUME NEW c \in Clients, ClientEvent(c) \/ ClientQuit(c)
      PROVE  CountInv' /\ PlaceInv'
  BY <1>4, ClientEventCounts, ClientQuitCounts
<1>5. ASSUME NEW s \in Servers, ServerEvent(s) \/ ServerLost(s) \/ CloseRemoved(s)
      PROVE  CountInv' /\ PlaceInv'
  BY <1>5, ServerEventCounts, ServerLostCounts
<1>6. ASSUME NEW nm \in Maps, UpdaterDone(nm) PROVE CountInv' /\ PlaceInv'
  BY <1>6, UpdaterDoneCounts
<1> QED BY <1>1, <1>2, <1>3, <1>4, <1>5, <1>6, Zenon DEF Next

\* Every step keeps the invariant.
LEMMA CommandNext == CommandInv /\ [Next]_vars => CommandInv'
<1> SUFFICES ASSUME CommandInv, [Next]_vars PROVE CommandInv'
  OBVIOUS
<1>1. TypeInv' /\ AllTidy'
  BY TypeNext, TidyNext DEF CommandInv, PipeInv
<1>2. CountInv' /\ PlaceInv'
  BY <1>1, CountNext
<1> QED BY <1>1, <1>2 DEF CommandInv, PipeInv

\* Every command handed to select_remote is referred to exactly once, by one
\* queue of one Server or by _retrying_commands, until it is answered or its
\* Client is deleted, and no command is referred to then: ~Client finds all
\* of its commands through _peers.
THEOREM CommandsInOnePlace == Spec => []OnePlace
<1>1. CommandInv => OnePlace
  BY InvOnePlace DEF CommandInv
<1> QED BY <1>1, CommandInit, CommandNext, PTL DEF Spec

\* The counts are exact.
LEMMA InvCountsExact == CommandInv => CountsExact
<1> SUFFICES ASSUME CommandInv PROVE CountsExact
  OBVIOUS
<1>1. \A g \in Groups : left[g] = Cardinality(CommandsOf(g) \ answered)
  BY Zenon DEF CommandInv, CountInv, LeftExact
<1>2. ASSUME NEW c \in Clients
      PROVE  client[c].count = Cardinality({g \in Range(client[c].awaiting) :
                                            ~(CommandsOf(g) \subseteq answered)})
  BY Zenon DEF CommandInv, CountInv, AllSound, Sound, Counted, Waits
<1> QED BY <1>1, <1>2, Zenon DEF CountsExact

\* awaiting_count of every group and _awaiting_count of every Client are the
\* numbers of the commands and groups that have yet to be answered.
THEOREM CountsCorrect == Spec => []CountsExact
BY CommandInit, CommandNext, InvCountsExact, PTL DEF Spec

\* The replies are complete.
LEMMA InvRepliesComplete == CommandInv => RepliesComplete
<1> SUFFICES ASSUME CommandInv, NEW c \in Clients,
                    NEW g \in Range(client[c].got \o client[c].out)
             PROVE  CommandsOf(g) \subseteq answered
  BY DEF RepliesComplete
<1>1. Complete(client[c], answered)
  BY Zenon DEF CommandInv, CountInv, AllSound, Sound
<1> QED BY <1>1, Zenon DEF Complete, Replied, Waits, Cat

\* No reply gets into the output buffers of a Client before every command of
\* its group is answered.
THEOREM RepliesWhole == Spec => []RepliesComplete
BY CommandInit, CommandNext, InvRepliesComplete, PTL DEF Spec
=============================================================================
