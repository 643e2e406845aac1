---------------------------- MODULE ClientProofs ----------------------------
(***************************************************************************)
(* What the methods of a Client do to its fields, for any workload and any *)
(* limits.  They keep the types: the pipe that _process cuts off           *)
(* _parsed_groups is always a part of it.  And they keep the order: the    *)
(* requests move from _parsed_groups to _awaiting_groups, to the output    *)
(* buffers and, as replies, to the client, and none overtakes another.     *)
(***************************************************************************)
EXTENDS Proxy, SubsequenceProofs

\* A command is at one of its steps.
StagesInRange == \A m \in Commands : stage[m] \in 1..Len(Steps[m])

MapType == slotmap \in [Slots -> Servers \cup {Nul}]

-----------------------------------------------------------------------------
(***************************************************************************)
(* The fields of a Client.                                                 *)
(***************************************************************************)
\* The fields of a Client have their types.
LEMMA Fields ==
    ASSUME NEW cl \in ClientType
    PROVE  /\ cl.asked \in Nat /\ cl.count \in Int /\ cl.peers \subseteq Servers
           /\ cl.parsed \in Seq(Groups) /\ cl.awaiting \in Seq(Groups)
           /\ cl.ready \in Seq(Groups) /\ cl.out \in Seq(Groups)
           /\ cl.got \in Seq(Groups)
           /\ cl.poll \in {"none", "ro", "rw"}
BY DEF ClientType

\* A Client opened, closed or failed is a Client.
LEMMA WithFd ==
    ASSUME NEW cl \in ClientType
    PROVE  /\ [cl EXCEPT !.fd = "open"] \in ClientType
           /\ [cl EXCEPT !.fd = "closed"] \in ClientType
           /\ [cl EXCEPT !.fd = "badio"] \in ClientType
BY DEF ClientType

\* A Client with another poll entry is a Client.
LEMMA WithPoll ==
    ASSUME NEW cl \in ClientType, NEW p \in {"none", "ro", "rw"}
    PROVE  [cl EXCEPT !.poll = p] \in ClientType
BY Zenon DEF ClientType

\* A Client with other peers is a Client.
LEMMA WithPeers ==
    ASSUME NEW cl \in ClientType, NEW P \in SUBSET Servers
    PROVE  [cl EXCEPT !.peers = P] \in ClientType
BY Zenon DEF ClientType

\* A Client with other queues is a Client.
LEMMA WithQueues ==
    ASSUME NEW cl \in ClientType, NEW o \in Seq(Groups), NEW r \in Seq(Groups),
           NEW a \in Seq(Groups)
    PROVE  [cl EXCEPT !.out = o, !.ready = r, !.awaiting = a] \in ClientType
BY Zenon DEF ClientType

\* A Client with other ready groups and peers is a Client.
LEMMA WithReadyPeers ==
    ASSUME NEW cl \in ClientType, NEW r \in Seq(Groups), NEW P \in SUBSET Servers
    PROVE  [cl EXCEPT !.ready = r, !.peers = P] \in ClientType
BY Zenon DEF ClientType

\* A new Client is a Client.
LEMMA NewClientType == NewClient \in ClientType
BY DEF NewClient, ClientType

\* What a deleted Client leaves behind has the type of a Client.
LEMMA DeletedType == ASSUME NEW cl \in ClientType PROVE Deleted(cl) \in ClientType
<1>1. cl.asked \in Nat /\ cl.got \in Seq(Groups)
  BY Fields
<1> QED BY <1>1, NewClientType, Zenon DEF Deleted, ClientType

-----------------------------------------------------------------------------
(***************************************************************************)
(* The methods of a Client.                                                *)
(***************************************************************************)
\* set_conn_poll_rw keeps the types.
LEMMA ArmType == ASSUME NEW cl \in ClientType PROVE Arm(cl) \in ClientType
BY WithPoll, Zenon DEF Arm

\* _push_awaitings_to_ready keeps the types.
LEMMA PushType ==
    ASSUME NEW cl \in ClientType PROVE PushAwaitingsToReady(cl) \in ClientType
<1> DEFINE p == [cl EXCEPT !.out = @ \o cl.awaiting, !.ready = @ \o cl.awaiting,
                           !.awaiting = <<>>]
<1>1. cl.out \o cl.awaiting \in Seq(Groups) /\ cl.ready \o cl.awaiting \in Seq(Groups)
  BY Fields, ConcatProperties
<1>2. p \in ClientType
  <2> DEFINE o == cl.out \o cl.awaiting
             r == cl.ready \o cl.awaiting
  <2>1. p = [cl EXCEPT !.out = o, !.ready = r, !.awaiting = <<>>]
    OBVIOUS
  <2>2. o \in Seq(Groups) /\ r \in Seq(Groups) /\ <<>> \in Seq(Groups)
    BY <1>1
  <2> HIDE DEF o, r, p
  <2> QED BY <2>1, <2>2, WithQueues, Zenon
<1> HIDE DEF p
<1>3. Arm(p) \in ClientType
  BY <1>2, ArmType
<1> QED BY <1>3 DEF PushAwaitingsToReady, p

\* The pipe is a beginning of the n groups looked at.
LEMMA PipeLengthBound ==
    ASSUME NEW cl, NEW n \in Nat
    PROVE  PipeLength(cl, n) \in 0..n
<1> DEFINE long == {i \in 1..n : cl.parsed[i] \in LongGroups}
<1>1. CASE long = {}
  BY <1>1 DEF PipeLength
<1>2. CASE long # {}
  <2>1. \E i \in long : \A j \in long : i <= j
    <3>1. long \in SUBSET Nat
      OBVIOUS
    <3> HIDE DEF long
    <3> QED BY <3>1, <1>2, LeastElement
  <2> DEFINE first == CHOOSE i \in long : \A j \in long : i <= j
  <2>2. first \in long
    BY <2>1
  <2>3. PipeLength(cl, n) = first - 1
    BY <1>2 DEF PipeLength
  <2>4. first \in 1..n
    BY <2>2
  <2> HIDE DEF first
  <2> QED BY <2>3, <2>4
<1> QED BY <1>1, <1>2

\* The slot of a step of a command is in the map.
LEMMA ServerAtType ==
    ASSUME MapType, NEW m \in Commands, NEW n \in 1..Len(Steps[m])
    PROVE  ServerAt(m, n) \in Servers \cup {Nul}
<1>1. Steps[m] \in Seq(Slots)
  BY WorkloadAssumption
<1>2. Steps[m][n] \in Slots
  BY <1>1
<1>3. slotmap[Steps[m][n]] \in Servers \cup {Nul}
  BY <1>2 DEF MapType
<1> QED BY <1>3 DEF ServerAt

\* The server of a command is a server, or none.
LEMMA TargetType ==
    ASSUME MapType, StagesInRange, NEW m \in Commands
    PROVE  Target(m) \in Servers \cup {Nul}
BY ServerAtType DEF Target, StagesInRange

\* Sets of groups can be counted.
LEMMA GroupsFinite ==
    ASSUME NEW S \in SUBSET Groups PROVE IsFiniteSet(S) /\ Cardinality(S) \in Nat
BY WorkloadAssumption, FS_Subset, FS_CardinalityType

\* Sets of commands can be counted.
LEMMA CommandsFinite ==
    ASSUME NEW S \in SUBSET Commands PROVE IsFiniteSet(S) /\ Cardinality(S) \in Nat
BY WorkloadAssumption, FS_Subset, FS_CardinalityType

\* _process keeps the types.
LEMMA ProcessType ==
    ASSUME MapType, StagesInRange, NEW cl \in ClientType
    PROVE  Process(cl) \in ClientType
<1> DEFINE n == IF Len(cl.parsed) < MaxPipe THEN Len(cl.parsed) ELSE MaxPipe
           p == PipeLength(cl, n)
           pipe == SubSeq(cl.parsed, 1, p)
           remote == {g \in Range(pipe) : WaitRemote(g)}
           targets == {Target(m) : m \in {x \in Commands : GroupOf[x] \in remote}}
           a == [cl EXCEPT !.count = @ + Cardinality(remote),
                           !.awaiting = @ \o pipe,
                           !.peers = @ \cup (targets \ {Nul})]
           b == [a EXCEPT !.parsed = RestParsed(cl, n)]
<1>1. cl.parsed \in Seq(Groups) /\ Len(cl.parsed) \in Nat /\ MaxPipe \in Nat
  BY Fields, BoundsAssumption
<1>2. n \in Nat /\ n \in 0..Len(cl.parsed)
  BY <1>1
<1>3. p \in 0..n
  BY <1>2, PipeLengthBound
<1>4. p \in 0..Len(cl.parsed)
  <2> HIDE DEF n, p
  <2> QED BY <1>1, <1>2, <1>3
<1>5. pipe \in Seq(Groups)
  <2> HIDE DEF n, p
  <2> QED BY <1>1, <1>4, Divided
<1>6. remote \subseteq Groups
  <2>1. Range(pipe) \subseteq Groups
    <3> HIDE DEF pipe
    <3> QED BY <1>5 DEF Range
  <2> QED BY <2>1
<1>7. Cardinality(remote) \in Nat
  <2> HIDE DEF remote
  <2> QED BY <1>6, GroupsFinite
<1>8. targets \ {Nul} \subseteq Servers
  <2> HIDE DEF remote
  <2> QED BY TargetType
<1>9. RestParsed(cl, n) \in Seq(Groups)
  <2> HIDE DEF n
  <2> QED BY <1>1, <1>2, Rest DEF RestParsed
<1>10. Process(cl) = IF p < n THEN [a EXCEPT !.fd = "closed"]
                     ELSE IF b.count > 0 THEN b ELSE PushAwaitingsToReady(b)
  BY DEF Process
<1> HIDE DEF n, p, pipe, remote, targets
<1>11. a \in ClientType
  <2>1. /\ cl.count + Cardinality(remote) \in Int
        /\ cl.awaiting \o pipe \in Seq(Groups)
        /\ cl.peers \cup (targets \ {Nul}) \in SUBSET Servers
    BY <1>5, <1>7, <1>8, Fields, ConcatProperties
  <2> QED BY <2>1, Zenon DEF ClientType
<1> HIDE DEF a
<1>12. b \in ClientType
  BY <1>9, <1>11, Zenon DEF ClientType
<1> HIDE DEF b
<1>13. [a EXCEPT !.fd = "closed"] \in ClientType
  BY <1>11, WithFd, Zenon
<1>14. PushAwaitingsToReady(b) \in ClientType
  BY <1>12, PushType
<1> QED BY <1>10, <1>12, <1>13, <1>14

\* _send_buffer_set keeps the types.
LEMMA SendType ==
    ASSUME MapType, StagesInRange, NEW cl \in ClientType, NEW k \in 0..Len(cl.out)
    PROVE  SendBufferSet(cl, k) \in ClientType
<1> DEFINE g == cl.got \o SubSeq(cl.out, 1, k)
           u == Unwritten(cl, k)
           w == [cl EXCEPT !.got = @ \o SubSeq(cl.out, 1, k),
                           !.out = Unwritten(cl, k)]
           r == [w EXCEPT !.ready = <<>>, !.peers = PeersCleared(w)]
<1>1. g \in Seq(Groups) /\ u \in Seq(Groups)
  <2>1. cl.out \in Seq(Groups) /\ cl.got \in Seq(Groups)
    BY Fields
  <2>2. SubSeq(cl.out, 1, k) \in Seq(Groups) /\ u \in Seq(Groups)
    BY <2>1, Divided, Rest DEF Unwritten
  <2> QED BY <2>1, <2>2, ConcatProperties
<1>2. w = [cl EXCEPT !.got = g, !.out = u]
  OBVIOUS
<1>3. SendBufferSet(cl, k) =
        IF cl.fd # "open" /\ cl.out # <<>> THEN [cl EXCEPT !.fd = "badio"]
        ELSE IF w.out # <<>> THEN w
        ELSE IF r.parsed = <<>> THEN r ELSE Process(r)
  BY DEF SendBufferSet
<1> HIDE DEF g, u, w
<1>4. w \in ClientType
  BY <1>1, <1>2, Zenon DEF ClientType
<1>5. PeersCleared(w) \subseteq Servers
  BY <1>4, Fields DEF PeersCleared
<1>6. r \in ClientType
  <2> DEFINE P == PeersCleared(w)
  <2>1. r = [w EXCEPT !.ready = <<>>, !.peers = P] /\ P \in SUBSET Servers
    BY <1>5
  <2>2. <<>> \in Seq(Groups)
    OBVIOUS
  <2> HIDE DEF r, P
  <2> QED BY <2>1, <2>2, <1>4, WithReadyPeers, Zenon
<1> HIDE DEF r
<1>7. Process(r) \in ClientType /\ [cl EXCEPT !.fd = "badio"] \in ClientType
  BY <1>6, ProcessType, WithFd, Zenon
<1> QED BY <1>3, <1>4, <1>6, <1>7

\* _write_response keeps the types.
LEMMA WriteType ==
    ASSUME MapType, StagesInRange, NEW cl \in ClientType
    PROVE  WriteResponse(cl) \subseteq ClientType
<1> DEFINE first == IF cl.out = <<>> THEN {cl}
                    ELSE {SendBufferSet(cl, k) : k \in 0..Len(cl.out)}
           again(a) == {SendBufferSet(PushAwaitingsToReady(a), k) :
                            k \in 0..Len(PushAwaitingsToReady(a).out)}
<1>1. first \subseteq ClientType
  BY SendType
<1>2. ASSUME NEW a \in ClientType PROVE again(a) \subseteq ClientType
  <2>1. PushAwaitingsToReady(a) \in ClientType
    BY PushType
  <2> QED BY <2>1, SendType
<1>3. WriteResponse(cl) =
        UNION {IF a.awaiting = <<>> \/ a.count # 0 THEN {a} ELSE again(a) :
               a \in first}
  BY DEF WriteResponse
<1> HIDE DEF first, again
<1> QED BY <1>1, <1>2, <1>3

\* _read_request keeps the types.
LEMMA ReadType ==
    ASSUME MapType, StagesInRange, NEW c \in Clients, NEW cl \in ClientType,
           NEW j \in 0..(Len(Requests[c]) - cl.asked)
    PROVE  ReadRequest(cl, c, j) \in ClientType
<1> DEFINE more == SubSeq(Requests[c], cl.asked + 1, cl.asked + j)
           q == cl.parsed \o more
           r == [cl EXCEPT !.asked = @ + j,
                           !.parsed = @ \o SubSeq(Requests[c], cl.asked + 1,
                                                  cl.asked + j)]
<1>1. /\ cl.asked \in Nat /\ cl.parsed \in Seq(Groups)
      /\ Requests[c] \in Seq(Groups) /\ Len(Requests[c]) \in Nat
  BY Fields, WorkloadAssumption
<1>2. cl.asked + j \in Nat /\ cl.asked + j <= Len(Requests[c])
  BY <1>1
<1>3. more \in Seq(Groups)
  <2>1. \A i \in (cl.asked + 1)..(cl.asked + j) : i \in 1..Len(Requests[c])
    BY <1>1, <1>2
  <2>2. \A i \in (cl.asked + 1)..(cl.asked + j) : Requests[c][i] \in Groups
    BY <1>1, <2>1
  <2>3. cl.asked + 1 \in Int /\ cl.asked + j \in Int
    BY <1>1
  <2> QED BY <2>2, <2>3, SubSeqProperties
<1>4. q \in Seq(Groups)
  <2> HIDE DEF more
  <2> QED BY <1>1, <1>3, ConcatProperties
<1>5. r = [cl EXCEPT !.asked = cl.asked + j, !.parsed = q]
  OBVIOUS
<1>6. ReadRequest(cl, c, j) = IF r.awaiting = <<>> THEN Process(r) ELSE r
  BY DEF ReadRequest
<1> HIDE DEF q, r
<1>7. r \in ClientType
  BY <1>2, <1>4, <1>5, Zenon DEF ClientType
<1> QED BY <1>6, <1>7, ProcessType

\* The poll entry set at the end of on_events is one.
LEMMA SetPollType ==
    ASSUME NEW cl \in ClientType PROVE SetConnPoll(cl) \in ClientType
<1> DEFINE p == IF cl.out # <<>> \/ cl.poll = "rw" THEN "rw" ELSE "ro"
<1>1. SetConnPoll(cl) = [cl EXCEPT !.poll = p] /\ p \in {"none", "ro", "rw"}
  BY DEF SetConnPoll
<1> HIDE DEF p
<1> QED BY <1>1, WithPoll, Zenon

\* on_events keeps the types.
LEMMA OnEventsType ==
    ASSUME MapType, StagesInRange, NEW c \in Clients, NEW cl \in ClientType,
           NEW j \in 0..(Len(Requests[c]) - cl.asked), NEW rd, NEW wr
    PROVE  ClientOnEvents(cl, c, rd, j, wr) \subseteq ClientType
<1> DEFINE r == IF rd THEN ReadRequest(cl, c, j) ELSE cl
<1>1. r \in ClientType
  BY ReadType
<1>2. ClientOnEvents(cl, c, rd, j, wr) =
        IF r.fd = "closed" THEN {r}
        ELSE {SetConnPoll(w) : w \in IF wr THEN WriteResponse(r) ELSE {r}}
  BY DEF ClientOnEvents
<1> HIDE DEF r
<1>3. (IF wr THEN WriteResponse(r) ELSE {r}) \subseteq ClientType
  BY <1>1, WriteType
<1>4. ASSUME NEW w \in (IF wr THEN WriteResponse(r) ELSE {r})
      PROVE  SetConnPoll(w) \in ClientType
  BY <1>3, SetPollType
<1> QED BY <1>1, <1>2, <1>4

\* group_responsed keeps the types.
LEMMA GroupResponsedType ==
    ASSUME NEW cl \in ClientType, NEW n \in Nat
    PROVE  GroupResponsed(cl, n) \in ClientType
<1> DEFINE d == [cl EXCEPT !.count = cl.count - n]
<1>1. cl.count - n \in Int
  BY Fields
<1>2. d \in ClientType
  BY <1>1, Zenon DEF ClientType
<1>3. GroupResponsed(cl, n) = IF n = 0 THEN cl ELSE PushAwaitingsToReady(d)
  BY DEF GroupResponsed
<1> HIDE DEF d
<1> QED BY <1>2, <1>3, PushType

\* So do the responses to any set of commands.
LEMMA RespondedType ==
    ASSUME NEW A, NEW cls \in [Clients -> ClientType]
    PROVE  Responded(A, cls) \in [Clients -> ClientType]
<1>1. ASSUME NEW c \in Clients
      PROVE  GroupResponsed(cls[c], Cardinality(CompletedBy(A, c))) \in ClientType
  <2>1. CompletedBy(A, c) \in SUBSET Groups
    BY DEF CompletedBy, GroupsOf
  <2> QED BY <2>1, GroupsFinite, GroupResponsedType
<1> QED BY <1>1 DEF Responded

\* add_peer keeps the types.
LEMMA AddPeersType ==
    ASSUME NEW cl \in ClientType, NEW c, NEW To,
           \A m \in DOMAIN To : To[m] \in Servers \cup {Nul}
    PROVE  AddPeers(cl, c, To) \in ClientType
<1> DEFINE P == cl.peers \cup
                    ({To[m] : m \in {n \in DOMAIN To : Owner(n) = c}} \ {Nul})
<1>1. P \in SUBSET Servers
  BY Fields
<1>2. AddPeers(cl, c, To) = [cl EXCEPT !.peers = P]
  BY DEF AddPeers
<1> HIDE DEF P
<1> QED BY <1>1, <1>2, WithPeers

-----------------------------------------------------------------------------
(***************************************************************************)
(* The order of the requests.                                              *)
(***************************************************************************)

\* What the client has received or will receive of the groups processed.
Front(cl) == Cat(Cat(cl.got, cl.out), cl.awaiting)

\* The requests client c has sent when it has sent n.
Due(c, n) == SubSeq(Requests[c], 1, n)

\* The groups processed are the first of the requests sent, and those parsed
\* are the others, at least until the client is closed: a request for a long
\* connection leaves the groups before it in both queues.
Tidy(cl, c) ==
    /\ cl \in ClientType
    /\ cl.asked \in 0..Len(Requests[c])
    /\ \E r \in Seq(Groups) :
        /\ Cat(Front(cl), r) = Due(c, cl.asked)
        /\ cl.fd \in {"none", "open"} => r = cl.parsed

\* A method leads from cl to h: requests and replies are not taken back.
Moves(cl, h) ==
    /\ h.asked >= cl.asked
    /\ Len(h.got) >= Len(cl.got)

-----------------------------------------------------------------------------
(***************************************************************************)
(* Sequences.                                                              *)
(***************************************************************************)
\* The empty sequence adds nothing.
LEMMA CatEmpty ==
    ASSUME NEW C, NEW p \in Seq(C)
    PROVE  Cat(p, <<>>) = p /\ Cat(<<>>, p) = p
BY ConcatEmptySeq DEF Cat

\* The first requests are a sequence of requests.
LEMMA DueType ==
    ASSUME NEW c \in Clients, NEW n \in 0..Len(Requests[c])
    PROVE  Due(c, n) \in Seq(Groups) /\ Len(Due(c, n)) = n
<1>1. Requests[c] \in Seq(Groups) /\ Len(Requests[c]) \in Nat
  BY WorkloadAssumption
<1>2. \A i \in 1..n : Requests[c][i] \in Groups
  BY <1>1
<1>3. n \in Int /\ 1 \in Int
  BY <1>1
<1>4. /\ SubSeq(Requests[c], 1, n) \in Seq(Groups)
      /\ Len(SubSeq(Requests[c], 1, n)) = IF 1 <= n THEN n - 1 + 1 ELSE 0
  BY <1>2, <1>3, SubSeqProperties
<1> QED BY <1>1, <1>4 DEF Due

\* The requests sent, and j more.
LEMMA DueMore ==
    ASSUME NEW c \in Clients, NEW n \in Nat, NEW j \in Nat,
           n + j <= Len(Requests[c])
    PROVE  Cat(Due(c, n), SubSeq(Requests[c], n + 1, n + j)) = Due(c, n + j)
<1>1. Requests[c] \in Seq(Groups) /\ Len(Requests[c]) \in Nat
  BY WorkloadAssumption
<1>2. /\ 1 \in 1..(Len(Requests[c]) + 1) /\ n \in (1 - 1)..Len(Requests[c])
      /\ n + j \in n..Len(Requests[c])
  BY <1>1
<1> QED BY <1>1, <1>2, ConcatAdjacentSubSeq DEF Cat, Due

\* A beginning of the requests sent is made of the first requests.
LEMMA DueBegins ==
    ASSUME NEW c \in Clients, NEW n \in 0..Len(Requests[c]),
           NEW p \in Seq(Groups), NEW q \in Seq(Groups), Cat(p, q) = Due(c, n)
    PROVE  Len(p) \in 0..n /\ p = Due(c, Len(p))
<1>1. Len(p) \in Nat /\ Len(q) \in Nat /\ Len(Requests[c]) \in Nat
  BY WorkloadAssumption
<1>2. Len(p) \in 0..n
  <2>1. Len(Cat(p, q)) = Len(p) + Len(q)
    BY CatType
  <2>2. Len(Due(c, n)) = n
    BY DueType
  <2>3. Len(p) + Len(q) = n
    BY <2>1, <2>2
  <2> QED BY <1>1, <2>3
<1>3. Due(c, Len(p)) \in Seq(Groups) /\ Len(Due(c, Len(p))) = Len(p)
  BY <1>1, <1>2, DueType
<1>4. ASSUME NEW i \in 1..Len(p) PROVE p[i] = Due(c, Len(p))[i]
  <2>1. Cat(p, q)[i] = p[i]
    BY ConcatProperties DEF Cat
  <2>2. Due(c, n)[i] = Requests[c][i] /\ Due(c, Len(p))[i] = Requests[c][i]
    BY <1>1, <1>2 DEF Due
  <2> QED BY <2>1, <2>2
<1> QED BY <1>2, <1>3, <1>4, SeqEqual

-----------------------------------------------------------------------------
(***************************************************************************)
(* The methods of a Client keep it tidy.                                   *)
(***************************************************************************)
\* A method that leaves the queues alone, and opens nothing, keeps it tidy.
LEMMA SameTidy ==
    ASSUME NEW c, NEW cl, NEW h, Tidy(cl, c), h \in ClientType,
           h.asked = cl.asked, h.got = cl.got, h.out = cl.out,
           h.awaiting = cl.awaiting,
           h.fd \in {"none", "open"} =>
                cl.fd \in {"none", "open"} /\ h.parsed = cl.parsed
    PROVE  Tidy(h, c)
<1>1. Front(h) = Front(cl)
  BY DEF Front
<1> QED BY <1>1 DEF Tidy

\* The front of a Client is a sequence of groups.
LEMMA FrontType ==
    ASSUME NEW cl \in ClientType
    PROVE  /\ Front(cl) \in Seq(Groups)
           /\ Cat(cl.got, cl.out) \in Seq(Groups)
           /\ Front(cl) = Cat(cl.got, Cat(cl.out, cl.awaiting))
<1>1. cl.got \in Seq(Groups) /\ cl.out \in Seq(Groups) /\ cl.awaiting \in Seq(Groups)
  BY Fields
<1>2. Cat(cl.got, cl.out) \in Seq(Groups)
  BY <1>1, CatType, Zenon
<1>3. Cat(Cat(cl.got, cl.out), cl.awaiting) \in Seq(Groups)
  BY <1>1, <1>2, CatType, Zenon
<1>4. Cat(Cat(cl.got, cl.out), cl.awaiting) = Cat(cl.got, Cat(cl.out, cl.awaiting))
  BY <1>1, CatAssociative
<1> QED BY <1>2, <1>3, <1>4 DEF Front

\* _push_awaitings_to_ready moves the awaiting groups, all or none.
LEMMA PushTidy ==
    ASSUME NEW c, NEW cl, Tidy(cl, c)
    PROVE  LET h == PushAwaitingsToReady(cl)
           IN  /\ Tidy(h, c)
               /\ h.asked = cl.asked /\ h.got = cl.got /\ h.fd = cl.fd
               /\ cl.count = 0 /\ cl.ready = <<>> /\ cl.awaiting # <<>> =>
                    h.out # <<>>
<1> DEFINE p == [cl EXCEPT !.out = @ \o cl.awaiting, !.ready = @ \o cl.awaiting,
                           !.awaiting = <<>>]
           h == PushAwaitingsToReady(cl)
<1>1. cl \in ClientType
  BY DEF Tidy
<1>2. /\ cl.got \in Seq(Groups) /\ cl.out \in Seq(Groups)
      /\ cl.awaiting \in Seq(Groups)
  BY <1>1, Fields
<1>3. h \in ClientType
  BY <1>1, PushType
<1>4. CASE ~MayPush(cl)
  BY <1>4, Zenon DEF PushAwaitingsToReady, MayPush
<1>5. CASE MayPush(cl)
  <2>1. /\ p.asked = cl.asked /\ p.got = cl.got /\ p.fd = cl.fd
        /\ p.out = cl.out \o cl.awaiting /\ p.awaiting = <<>>
        /\ p.parsed = cl.parsed
    BY <1>1 DEF ClientType
  <2>2. h = Arm(p)
    BY <1>5 DEF PushAwaitingsToReady
  <2>3. p = [p EXCEPT !.poll = p.poll]
    BY <1>1, Zenon DEF ClientType
  <2> HIDE DEF p, h
  <2>4. /\ h.asked = p.asked /\ h.got = p.got /\ h.fd = p.fd /\ h.out = p.out
        /\ h.awaiting = p.awaiting /\ h.parsed = p.parsed
    BY <2>2 DEF Arm
  <2>5. h.out = Cat(cl.out, cl.awaiting)
    BY <2>1, <2>4 DEF Cat
  <2>6. Front(h) = Front(cl)
    <3>1. Cat(cl.got, Cat(cl.out, cl.awaiting)) \in Seq(Groups)
      BY <1>1, FrontType
    <3>2. Front(h) = Cat(Cat(cl.got, Cat(cl.out, cl.awaiting)), <<>>)
      BY <2>1, <2>4, <2>5 DEF Front
    <3> QED BY <1>1, <3>1, <3>2, CatEmpty, FrontType
  <2>7. Tidy(h, c)
    BY <1>3, <2>1, <2>4, <2>6 DEF Tidy
  <2>8. cl.awaiting # <<>> => h.out # <<>>
    BY <1>2, <2>1, <2>4
  <2> QED BY <2>1, <2>4, <2>7, <2>8 DEF h
<1> QED BY <1>4, <1>5

\* _process cut the groups in pipe off the groups parsed of client c, which
\* took its Client from cl to e.
Enters(cl, e, pipe, c) ==
    LET remote == {g \in Range(pipe) : WaitRemote(g)}
        targets == {Target(m) : m \in {x \in Commands : GroupOf[x] \in remote}}
    IN  /\ pipe \in Seq(Groups) /\ Range(pipe) \subseteq Range(cl.parsed)
        /\ Tidy(e, c)
        /\ e.asked = cl.asked /\ e.got = cl.got /\ e.out = cl.out
        /\ e.ready = cl.ready
        /\ e.awaiting = Cat(cl.awaiting, pipe)
        /\ e.count = cl.count + Cardinality(remote)
        /\ e.peers = cl.peers \cup (targets \ {Nul})
        /\ e.fd \in {"open", "closed"}
        /\ e.fd = "open" /\ e.parsed # <<>> => pipe # <<>>

\* _process takes the first groups parsed, in order, and leaves the others; if
\* it meets a request for a long connection it closes the client.
LEMMA ProcessEnters ==
    ASSUME MapType, StagesInRange, NEW c, NEW cl, Tidy(cl, c), cl.fd = "open"
    PROVE  \E e, pipe :
                /\ Enters(cl, e, pipe, c)
                /\ Process(cl) = IF e.fd = "closed" \/ e.count > 0 THEN e
                                 ELSE PushAwaitingsToReady(e)
<1> DEFINE n == IF Len(cl.parsed) < MaxPipe THEN Len(cl.parsed) ELSE MaxPipe
           p == PipeLength(cl, n)
           pipe == SubSeq(cl.parsed, 1, p)
           rest == SubSeq(cl.parsed, p + 1, Len(cl.parsed))
           remote == {g \in Range(pipe) : WaitRemote(g)}
           targets == {Target(m) : m \in {x \in Commands : GroupOf[x] \in remote}}
           a == [cl EXCEPT !.count = @ + Cardinality(remote),
                           !.awaiting = @ \o pipe,
                           !.peers = @ \cup (targets \ {Nul})]
           b == [a EXCEPT !.parsed = RestParsed(cl, n)]
           z == [a EXCEPT !.fd = "closed"]
           h == Process(cl)
<1>1. cl \in ClientType
  BY DEF Tidy
<1>2. /\ cl.parsed \in Seq(Groups) /\ Len(cl.parsed) \in Nat /\ MaxPipe \in Nat
      /\ cl.got \in Seq(Groups) /\ cl.out \in Seq(Groups)
      /\ cl.awaiting \in Seq(Groups) /\ MaxPipe # 0
  BY <1>1, Fields, BoundsAssumption
<1>3. /\ n \in Nat /\ n \in 0..Len(cl.parsed)
      /\ n = 0 => Len(cl.parsed) = 0
  BY <1>2
<1>4. p \in 0..n
  BY <1>3, PipeLengthBound
<1>5. h = IF p < n THEN z ELSE IF b.count > 0 THEN b ELSE PushAwaitingsToReady(b)
  BY DEF Process
<1>6. p \in 0..Len(cl.parsed)
  <2> HIDE DEF n, p
  <2> QED BY <1>2, <1>3, <1>4
<1>7. /\ pipe \in Seq(Groups) /\ rest \in Seq(Groups) /\ Cat(pipe, rest) = cl.parsed
      /\ Len(pipe) = p
  <2> HIDE DEF n, p
  <2>1. pipe \in Seq(Groups) /\ rest \in Seq(Groups) /\ Cat(pipe, rest) = cl.parsed
    BY <1>2, <1>6, Divided, Rest, Zenon DEF Cat
  <2>2. Len(pipe) = p
    BY <1>2, <1>6
  <2> QED BY <2>1, <2>2
<1>8. Range(pipe) \subseteq Range(cl.parsed) /\ Range(pipe) \subseteq Groups
  <2> HIDE DEF pipe, rest
  <2>1. Range(cl.parsed) = Range(pipe) \cup Range(rest)
    BY <1>7, RangeCat
  <2> QED BY <1>7, <2>1, RangeType
<1>9. Cardinality(remote) \in Nat
  <2>1. remote \subseteq Groups
    BY <1>8
  <2> HIDE DEF remote
  <2> QED BY <2>1, GroupsFinite
<1>10. targets \ {Nul} \subseteq Servers
  <2> HIDE DEF remote
  <2> QED BY TargetType
<1>11. RestParsed(cl, n) \in Seq(Groups)
  <2> HIDE DEF n
  <2> QED BY <1>2, <1>3, Rest DEF RestParsed
<1>12. /\ a.asked = cl.asked /\ a.got = cl.got /\ a.fd = "open"
       /\ a.out = cl.out /\ a.ready = cl.ready /\ a.awaiting = cl.awaiting \o pipe
       /\ a.count = cl.count + Cardinality(remote)
       /\ a.peers = cl.peers \cup (targets \ {Nul})
  BY <1>1, Zenon DEF ClientType
<1>13. a \in ClientType
  <2> HIDE DEF n, p, pipe, remote, targets
  <2>1. /\ cl.count + Cardinality(remote) \in Int
        /\ cl.awaiting \o pipe \in Seq(Groups)
        /\ cl.peers \cup (targets \ {Nul}) \in SUBSET Servers
    BY <1>1, <1>2, <1>7, <1>9, <1>10, Fields, ConcatProperties
  <2> QED BY <1>1, <2>1, Zenon DEF ClientType
<1> HIDE DEF a
<1>14. /\ z.asked = a.asked /\ z.got = a.got /\ z.fd = "closed"
       /\ z.out = a.out /\ z.ready = a.ready /\ z.awaiting = a.awaiting
       /\ z.count = a.count /\ z.peers = a.peers
  BY <1>13 DEF ClientType
<1>15. /\ b.asked = a.asked /\ b.got = a.got /\ b.fd = a.fd
       /\ b.out = a.out /\ b.ready = a.ready /\ b.awaiting = a.awaiting
       /\ b.count = a.count /\ b.peers = a.peers
       /\ b.parsed = RestParsed(cl, n)
  BY <1>13 DEF ClientType
<1>16. b \in ClientType /\ z \in ClientType
  <2>1. b \in ClientType
    <3> HIDE DEF n
    <3> QED BY <1>11, <1>13, Zenon DEF ClientType
  <2> QED BY <1>13, <2>1, WithFd, Zenon
<1> HIDE DEF n, b, z, h, p, pipe, rest
<1>17. Cat(Front(cl), cl.parsed) = Due(c, cl.asked)
  BY DEF Tidy
<1>18. ASSUME NEW g, g.got = cl.got, g.out = cl.out,
              g.awaiting = cl.awaiting \o pipe
       PROVE  Cat(Front(g), rest) = Due(c, cl.asked)
  <2>1. Front(g) = Cat(Cat(cl.got, cl.out), Cat(cl.awaiting, pipe))
    BY <1>18 DEF Front, Cat
  <2>2. Cat(cl.got, cl.out) \in Seq(Groups)
    BY <1>2, CatType, Zenon
  <2>3. Front(g) = Cat(Front(cl), pipe)
    BY <2>1, <2>2, <1>2, <1>7, CatAssociative DEF Front
  <2>4. Front(cl) \in Seq(Groups)
    BY <1>1, FrontType
  <2>5. Cat(Cat(Front(cl), pipe), rest) = Cat(Front(cl), Cat(pipe, rest))
    BY <2>4, <1>7, CatAssociative
  <2> QED BY <2>3, <2>5, <1>7, <1>17
<1>19. cl.asked \in 0..Len(Requests[c])
  BY DEF Tidy
<1>20. a.awaiting = Cat(cl.awaiting, pipe)
  BY <1>12 DEF Cat
<1>21. CASE p < n
  <2>1. h = z
    BY <1>5, <1>21
  <2>2. Cat(Front(z), rest) = Due(c, cl.asked)
    BY <1>12, <1>14, <1>18, Zenon
  <2>3. Tidy(z, c)
    BY <1>7, <1>12, <1>14, <1>16, <1>19, <2>2, Zenon DEF Tidy
  <2>4. Enters(cl, z, pipe, c)
    BY <1>7, <1>8, <1>12, <1>14, <1>20, <2>3, Zenon DEF Enters
  <2> QED BY <1>14, <2>1, <2>4 DEF h
<1>22. CASE ~(p < n)
  <2>1. p = n
    BY <1>3, <1>4, <1>22
  <2>2. b.parsed = rest
    BY <2>1, <1>15 DEF rest, RestParsed
  <2>3. Cat(Front(b), rest) = Due(c, cl.asked)
    BY <1>12, <1>15, <1>18, Zenon
  <2>4. Tidy(b, c)
    BY <1>7, <1>12, <1>15, <1>16, <1>19, <2>2, <2>3, Zenon DEF Tidy
  <2>5. pipe = <<>> => b.parsed = <<>>
    <3>1. pipe = <<>> => Len(cl.parsed) = 0
      BY <1>3, <1>7, <2>1
    <3>2. pipe = <<>> => cl.parsed = <<>>
      BY <1>2, <3>1, EmptySeq
    <3>3. pipe = <<>> => Cat(pipe, rest) = rest
      BY <1>7, CatEmpty
    <3> QED BY <1>7, <2>2, <3>2, <3>3
  <2>6. Enters(cl, b, pipe, c)
    BY <1>7, <1>8, <1>12, <1>15, <1>20, <2>4, <2>5, Zenon DEF Enters
  <2>7. h = IF b.fd = "closed" \/ b.count > 0 THEN b ELSE PushAwaitingsToReady(b)
    BY <1>5, <1>12, <1>15, <1>22, Zenon
  <2> QED BY <2>6, <2>7 DEF h
<1> QED BY <1>21, <1>22

\* _process keeps a Client tidy.
LEMMA ProcessTidy ==
    ASSUME MapType, StagesInRange, NEW c, NEW cl, Tidy(cl, c), cl.fd = "open"
    PROVE  LET h == Process(cl)
           IN  /\ Tidy(h, c)
               /\ h.asked = cl.asked /\ h.got = cl.got
               /\ h.fd \in {"open", "closed"}
               /\ h.fd = "closed" => h.ready = cl.ready
<1> DEFINE h == Process(cl)
<1>1. PICK e, pipe : /\ Enters(cl, e, pipe, c)
                     /\ h = IF e.fd = "closed" \/ e.count > 0 THEN e
                            ELSE PushAwaitingsToReady(e)
  BY ProcessEnters
<1>2. /\ Tidy(e, c) /\ e.asked = cl.asked /\ e.got = cl.got /\ e.ready = cl.ready
      /\ e.fd \in {"open", "closed"}
  BY <1>1 DEF Enters
<1>3. LET g == PushAwaitingsToReady(e)
      IN  Tidy(g, c) /\ g.asked = e.asked /\ g.got = e.got /\ g.fd = e.fd
  BY <1>2, PushTidy
<1> HIDE DEF h
<1>4. h = e \/ (e.fd # "closed" /\ h = PushAwaitingsToReady(e))
  BY <1>1
<1> QED BY <1>2, <1>3, <1>4 DEF h

\* A Client when writev has written k of the pending replies, and when all
\* are written.
Written(cl, k) == [cl EXCEPT !.got = @ \o SubSeq(cl.out, 1, k),
                             !.out = Unwritten(cl, k)]
Cleared(w) == [w EXCEPT !.ready = <<>>, !.peers = PeersCleared(w)]

\* Writing hands the first of the pending replies to the client.
LEMMA WrittenTidy ==
    ASSUME NEW c, NEW cl, Tidy(cl, c), NEW k \in 0..Len(cl.out)
    PROVE  LET w == Written(cl, k)
           IN  /\ Tidy(w, c)
               /\ w.asked = cl.asked /\ w.fd = cl.fd /\ w.parsed = cl.parsed
               /\ w.awaiting = cl.awaiting /\ w.ready = cl.ready
               /\ w.count = cl.count /\ w.peers = cl.peers
               /\ Len(w.got) >= Len(cl.got)
               /\ Cat(w.got, w.out) = Cat(cl.got, cl.out)
<1> DEFINE x == SubSeq(cl.out, 1, k)
           u == Unwritten(cl, k)
           g == cl.got \o x
           w == Written(cl, k)
<1>1. cl \in ClientType
  BY DEF Tidy
<1>2. cl.got \in Seq(Groups) /\ cl.out \in Seq(Groups)
  BY <1>1, Fields
<1>3. x \in Seq(Groups) /\ u \in Seq(Groups) /\ Cat(x, u) = cl.out
  BY <1>2, Divided, Rest, Zenon DEF Unwritten, Cat
<1>4. w = [cl EXCEPT !.got = g, !.out = u]
  BY DEF Written
<1> HIDE DEF x, u
<1>5. /\ g \in Seq(Groups) /\ Len(g) = Len(cl.got) + Len(x)
      /\ Len(x) \in Nat /\ Len(cl.got) \in Nat /\ g = Cat(cl.got, x)
  BY <1>2, <1>3, ConcatProperties DEF Cat
<1> HIDE DEF w, g
<1>6. w \in ClientType
  BY <1>1, <1>3, <1>4, <1>5, Zenon DEF ClientType
<1>7. /\ w.asked = cl.asked /\ w.fd = cl.fd /\ w.parsed = cl.parsed
      /\ w.awaiting = cl.awaiting /\ w.ready = cl.ready
      /\ w.count = cl.count /\ w.peers = cl.peers /\ w.got = g /\ w.out = u
  BY <1>1, <1>4 DEF ClientType
<1>8. Cat(w.got, w.out) = Cat(cl.got, cl.out)
  BY <1>2, <1>3, <1>5, <1>7, CatAssociative
<1>9. Front(w) = Front(cl)
  BY <1>7, <1>8 DEF Front
<1>10. Tidy(w, c)
  BY <1>6, <1>7, <1>9 DEF Tidy
<1>11. Len(w.got) >= Len(cl.got)
  BY <1>5, <1>7
<1> QED BY <1>7, <1>8, <1>10, <1>11 DEF w

\* When all is written the ready groups and, if no group waits, the peers are
\* forgotten.
LEMMA ClearedTidy ==
    ASSUME NEW c, NEW w, Tidy(w, c)
    PROVE  LET r == Cleared(w)
           IN  /\ Tidy(r, c)
               /\ r.asked = w.asked /\ r.fd = w.fd /\ r.parsed = w.parsed
               /\ r.got = w.got /\ r.out = w.out /\ r.awaiting = w.awaiting
               /\ r.count = w.count /\ r.ready = <<>>
               /\ r.peers = IF w.awaiting = <<>> THEN {} ELSE w.peers
<1> DEFINE P == PeersCleared(w)
           r == Cleared(w)
<1>1. w \in ClientType
  BY DEF Tidy
<1>2. P \in SUBSET Servers
  BY <1>1, Fields DEF PeersCleared
<1>3. r = [w EXCEPT !.ready = <<>>, !.peers = P] /\ <<>> \in Seq(Groups)
  BY DEF Cleared
<1>4. P = IF w.awaiting = <<>> THEN {} ELSE w.peers
  BY DEF PeersCleared
<1> HIDE DEF r, P
<1>5. r \in ClientType
  BY <1>1, <1>2, <1>3, WithReadyPeers, Zenon
<1>6. /\ r.asked = w.asked /\ r.fd = w.fd /\ r.parsed = w.parsed
      /\ r.got = w.got /\ r.out = w.out /\ r.awaiting = w.awaiting
      /\ r.count = w.count /\ r.ready = <<>> /\ r.peers = P
  BY <1>1, <1>3 DEF ClientType
<1>7. Tidy(r, c)
  BY <1>5, <1>6, SameTidy
<1> QED BY <1>4, <1>6, <1>7 DEF r

\* _send_buffer_set of an open client.
LEMMA SendMeans ==
    ASSUME NEW cl, NEW k, cl.fd = "open"
    PROVE  SendBufferSet(cl, k) =
            LET w == Written(cl, k)
                r == Cleared(w)
            IN  IF w.out # <<>> THEN w
                ELSE IF r.parsed = <<>> THEN r ELSE Process(r)
BY DEF SendBufferSet, Written, Cleared

\* _send_buffer_set keeps a Client tidy.
LEMMA SendTidy ==
    ASSUME MapType, StagesInRange, NEW c, NEW cl, Tidy(cl, c), cl.fd = "open",
           NEW k \in 0..Len(cl.out)
    PROVE  LET h == SendBufferSet(cl, k)
           IN  /\ Tidy(h, c)
               /\ h.asked = cl.asked /\ Len(h.got) >= Len(cl.got)
               /\ h.fd \in {"open", "closed"}
               /\ h.fd = "closed" => h.ready = <<>>
<1> DEFINE w == Written(cl, k)
           r == Cleared(w)
           h == SendBufferSet(cl, k)
<1>1. h = IF w.out # <<>> THEN w ELSE IF r.parsed = <<>> THEN r ELSE Process(r)
  BY SendMeans
<1>2. /\ Tidy(w, c) /\ w.asked = cl.asked /\ w.fd = "open"
      /\ Len(w.got) >= Len(cl.got)
  BY WrittenTidy
<1> HIDE DEF w, h
<1>3. /\ Tidy(r, c) /\ r.asked = w.asked /\ r.fd = w.fd /\ r.got = w.got
      /\ r.ready = <<>>
  BY <1>2, ClearedTidy, Zenon
<1> HIDE DEF r
<1>4. LET g == Process(r)
      IN  /\ Tidy(g, c) /\ g.asked = r.asked /\ g.got = r.got
          /\ g.fd \in {"open", "closed"}
          /\ g.fd = "closed" => g.ready = r.ready
  BY <1>2, <1>3, ProcessTidy, Zenon
<1>5. h \in {w, r, Process(r)}
  BY <1>1
<1> QED BY <1>2, <1>3, <1>4, <1>5 DEF h

\* The outcome h of a method of the open client cl.
Good(cl, h, c) ==
    /\ Tidy(h, c)
    /\ Moves(cl, h)
    /\ h.fd \in {"open", "closed", "badio"}

\* _write_response: a client that _process closed on the way has something to
\* write, and fails to.
LEMMA WriteTidy ==
    ASSUME MapType, StagesInRange, NEW c, NEW cl, Tidy(cl, c), cl.fd = "open",
           NEW h \in WriteResponse(cl)
    PROVE  Good(cl, h, c) /\ h.asked = cl.asked
<1> DEFINE first == IF cl.out = <<>> THEN {cl}
                    ELSE {SendBufferSet(cl, k) : k \in 0..Len(cl.out)}
           again(a) == {SendBufferSet(PushAwaitingsToReady(a), k) :
                            k \in 0..Len(PushAwaitingsToReady(a).out)}
<1>1. WriteResponse(cl) =
        UNION {IF a.awaiting = <<>> \/ a.count # 0 THEN {a} ELSE again(a) :
               a \in first}
  BY DEF WriteResponse
<1>2. PICK a \in first :
        h \in IF a.awaiting = <<>> \/ a.count # 0 THEN {a} ELSE again(a)
  BY <1>1
<1>3. cl \in ClientType /\ Len(cl.got) \in Nat /\ cl.asked \in Nat
  BY Fields DEF Tidy
<1>4. /\ Tidy(a, c) /\ a.asked = cl.asked /\ Len(a.got) >= Len(cl.got)
      /\ a.fd \in {"open", "closed"}
      /\ a.fd = "closed" => a.ready = <<>>
  <2>1. CASE a = cl
    BY <1>3, <2>1
  <2>2. CASE a # cl
    <3>1. PICK k \in 0..Len(cl.out) : a = SendBufferSet(cl, k)
      BY <2>2
    <3> QED BY <3>1, SendTidy
  <2> QED BY <2>1, <2>2
<1>5. a \in ClientType /\ Len(a.got) \in Nat
  BY <1>4, Fields DEF Tidy
<1> HIDE DEF first
<1>6. CASE h = a
  BY <1>3, <1>4, <1>6 DEF Good, Moves
<1>7. CASE h # a
  <2> DEFINE p == PushAwaitingsToReady(a)
  <2>1. a.awaiting # <<>> /\ a.count = 0 /\ h \in again(a)
    BY <1>2, <1>7
  <2>2. PICK k \in 0..Len(p.out) : h = SendBufferSet(p, k)
    BY <2>1
  <2>3. /\ Tidy(p, c) /\ p.asked = a.asked /\ p.got = a.got /\ p.fd = a.fd
        /\ a.ready = <<>> => p.out # <<>>
    BY <1>4, <2>1, PushTidy
  <2> HIDE DEF p
  <2>4. CASE p.fd = "open"
    <3>1. /\ Tidy(h, c) /\ h.asked = p.asked /\ Len(h.got) >= Len(p.got)
          /\ h.fd \in {"open", "closed"}
      BY <2>2, <2>3, <2>4, SendTidy
    <3>2. Len(h.got) \in Nat
      BY <3>1, Fields DEF Tidy
    <3> QED BY <1>3, <1>4, <1>5, <2>3, <3>1, <3>2 DEF Good, Moves
  <2>5. CASE p.fd # "open"
    <3>1. p.out # <<>>
      BY <1>4, <2>3, <2>5
    <3>2. h = [p EXCEPT !.fd = "badio"]
      BY <2>2, <2>5, <3>1 DEF SendBufferSet
    <3>3. p \in ClientType
      BY <2>3 DEF Tidy
    <3>4. h \in ClientType
      BY <3>2, <3>3, WithFd, Zenon
    <3>5. /\ h.asked = p.asked /\ h.got = p.got /\ h.out = p.out
          /\ h.awaiting = p.awaiting /\ h.fd = "badio"
      BY <3>2, <3>3 DEF ClientType
    <3>6. Tidy(h, c)
      BY <2>3, <3>4, <3>5, SameTidy
    <3> QED BY <1>3, <1>4, <2>3, <3>5, <3>6 DEF Good, Moves
  <2> QED BY <2>4, <2>5
<1> QED BY <1>6, <1>7

\* A Client when j more requests have arrived.
Received(cl, c, j) ==
    [cl EXCEPT !.asked = @ + j,
               !.parsed = @ \o SubSeq(Requests[c], cl.asked + 1, cl.asked + j)]

\* The requests that arrive are put behind those parsed.
LEMMA ReceivedTidy ==
    ASSUME NEW c \in Clients, NEW cl, Tidy(cl, c),
           cl.fd = "open", NEW j \in 0..(Len(Requests[c]) - cl.asked)
    PROVE  LET r == Received(cl, c, j)
           IN  /\ Tidy(r, c) /\ r.asked >= cl.asked /\ r.fd = "open"
               /\ r.got = cl.got /\ r.out = cl.out /\ r.awaiting = cl.awaiting
               /\ r.ready = cl.ready /\ r.count = cl.count /\ r.peers = cl.peers
               /\ r.poll = cl.poll
<1> DEFINE more == SubSeq(Requests[c], cl.asked + 1, cl.asked + j)
           q == cl.parsed \o more
           r == Received(cl, c, j)
<1>1. cl \in ClientType
  BY DEF Tidy
<1>2. /\ cl.asked \in Nat /\ cl.parsed \in Seq(Groups)
      /\ Requests[c] \in Seq(Groups) /\ Len(Requests[c]) \in Nat
      /\ cl.asked <= Len(Requests[c])
  BY <1>1, Fields, WorkloadAssumption DEF Tidy
<1>3. j \in Nat /\ cl.asked + j \in Nat /\ cl.asked + j <= Len(Requests[c])
  BY <1>2
<1>4. more \in Seq(Groups)
  <2>1. \A i \in (cl.asked + 1)..(cl.asked + j) : i \in 1..Len(Requests[c])
    BY <1>2, <1>3
  <2>2. \A i \in (cl.asked + 1)..(cl.asked + j) : Requests[c][i] \in Groups
    BY <1>2, <2>1
  <2>3. cl.asked + 1 \in Int /\ cl.asked + j \in Int
    BY <1>2, <1>3
  <2> QED BY <2>2, <2>3, SubSeqProperties
<1>5. q \in Seq(Groups)
  <2> HIDE DEF more
  <2> QED BY <1>2, <1>4, ConcatProperties
<1>6. r = [cl EXCEPT !.asked = cl.asked + j, !.parsed = q]
  BY DEF Received
<1>7. Cat(Due(c, cl.asked), more) = Due(c, cl.asked + j)
  BY <1>2, <1>3, DueMore
<1> HIDE DEF more, r
<1>8. q = Cat(cl.parsed, more)
  BY DEF Cat
<1> HIDE DEF q
<1>9. r \in ClientType
  BY <1>1, <1>3, <1>5, <1>6, Zenon DEF ClientType
<1>10. /\ r.asked = cl.asked + j /\ r.parsed = q /\ r.fd = "open"
       /\ r.got = cl.got /\ r.out = cl.out /\ r.awaiting = cl.awaiting
       /\ r.ready = cl.ready /\ r.count = cl.count /\ r.peers = cl.peers
       /\ r.poll = cl.poll
  BY <1>1, <1>6 DEF ClientType
<1>11. Tidy(r, c)
  <2>1. Front(r) = Front(cl) /\ Front(cl) \in Seq(Groups)
    BY <1>1, <1>10, FrontType, Zenon DEF Front
  <2>2. Cat(Front(cl), cl.parsed) = Due(c, cl.asked)
    BY DEF Tidy
  <2>3. Cat(Front(cl), q) = Cat(Cat(Front(cl), cl.parsed), more)
    BY <1>2, <1>4, <1>8, <2>1, CatAssociative
  <2>4. Cat(Front(r), q) = Due(c, r.asked)
    BY <1>7, <1>10, <2>1, <2>2, <2>3
  <2>5. r.asked \in 0..Len(Requests[c])
    BY <1>3, <1>10
  <2> QED BY <1>5, <1>9, <1>10, <2>4, <2>5 DEF Tidy
<1>12. r.asked >= cl.asked
  BY <1>2, <1>3, <1>10
<1> QED BY <1>10, <1>11, <1>12 DEF r

\* _read_request.
LEMMA ReadMeans ==
    ASSUME NEW cl, NEW c, NEW j
    PROVE  ReadRequest(cl, c, j) =
            LET r == Received(cl, c, j)
            IN  IF r.awaiting = <<>> THEN Process(r) ELSE r
BY DEF ReadRequest, Received

\* _read_request keeps a Client tidy.
LEMMA ReadTidy ==
    ASSUME MapType, StagesInRange, NEW c \in Clients, NEW cl, Tidy(cl, c),
           cl.fd = "open", NEW j \in 0..(Len(Requests[c]) - cl.asked)
    PROVE  LET h == ReadRequest(cl, c, j)
           IN  /\ Tidy(h, c) /\ h.asked >= cl.asked /\ h.got = cl.got
               /\ h.fd \in {"open", "closed"}
<1> DEFINE r == Received(cl, c, j)
           h == ReadRequest(cl, c, j)
<1>1. h = IF r.awaiting = <<>> THEN Process(r) ELSE r
  BY ReadMeans
<1>2. /\ Tidy(r, c) /\ r.asked >= cl.asked /\ r.fd = "open" /\ r.got = cl.got
  BY ReceivedTidy
<1> HIDE DEF r, h
<1>3. LET g == Process(r)
      IN  Tidy(g, c) /\ g.asked = r.asked /\ g.got = r.got
          /\ g.fd \in {"open", "closed"}
  BY <1>2, ProcessTidy
<1>4. h = r \/ h = Process(r)
  BY <1>1
<1> QED BY <1>2, <1>3, <1>4 DEF h

\* on_events of an open client, for any events.
LEMMA OnEventsTidy ==
    ASSUME MapType, StagesInRange, NEW c \in Clients, NEW cl, Tidy(cl, c),
           cl.fd = "open", NEW j \in 0..(Len(Requests[c]) - cl.asked),
           NEW rd, NEW wr, NEW h \in ClientOnEvents(cl, c, rd, j, wr)
    PROVE  Good(cl, h, c)
<1> DEFINE r == IF rd THEN ReadRequest(cl, c, j) ELSE cl
<1>1. cl \in ClientType /\ Len(cl.got) \in Nat /\ cl.asked \in Nat
  BY Fields DEF Tidy
<1>2. /\ Tidy(r, c) /\ r.asked >= cl.asked /\ r.got = cl.got
      /\ r.fd \in {"open", "closed"}
  BY <1>1, ReadTidy
<1>3. ClientOnEvents(cl, c, rd, j, wr) =
        IF r.fd = "closed" THEN {r}
        ELSE {SetConnPoll(w) : w \in IF wr THEN WriteResponse(r) ELSE {r}}
  BY DEF ClientOnEvents
<1> HIDE DEF r
<1>4. r \in ClientType /\ r.asked \in Nat
  BY <1>2, Fields, Zenon DEF Tidy
<1>5. Good(cl, r, c)
  BY <1>1, <1>2 DEF Good, Moves
<1>6. CASE r.fd = "closed"
  BY <1>3, <1>5, <1>6
<1>7. CASE r.fd = "open"
  <2>1. PICK w \in (IF wr THEN WriteResponse(r) ELSE {r}) : h = SetConnPoll(w)
    BY <1>3, <1>7
  <2>2. Good(r, w, c)
    <3>1. Good(r, r, c)
      BY <1>2, <1>1, <1>4 DEF Good, Moves
    <3> QED BY <1>2, <1>7, <2>1, <3>1, WriteTidy
  <2>3. w \in ClientType /\ w.asked \in Nat /\ Len(w.got) \in Nat
    <3>1. w \in ClientType
      BY <2>2, Zenon DEF Good, Tidy
    <3>2. w.asked \in Nat /\ w.got \in Seq(Groups)
      BY <3>1, Fields, Zenon
    <3> QED BY <3>1, <3>2
  <2>4. h \in ClientType
    BY <2>1, <2>3, SetPollType
  <2>5. /\ h.asked = w.asked /\ h.got = w.got /\ h.out = w.out
        /\ h.awaiting = w.awaiting /\ h.parsed = w.parsed /\ h.fd = w.fd
    BY <2>1, <2>3 DEF SetConnPoll, ClientType
  <2>6. Tidy(h, c)
    BY <2>2, <2>4, <2>5, SameTidy DEF Good
  <2>7. Moves(cl, h)
    BY <1>1, <1>2, <1>4, <2>2, <2>3, <2>5 DEF Good, Moves
  <2> QED BY <2>2, <2>5, <2>6, <2>7 DEF Good
<1> QED BY <1>2, <1>6, <1>7

-----------------------------------------------------------------------------
(***************************************************************************)
(* The groups of a Client.                                                 *)
(***************************************************************************)
\* The groups whose reply is in the output buffers, or has been sent.
Replied(cl) == Range(Cat(cl.got, cl.out))

\* Group g waits for a command that is not among the commands A answered.
Waits(g, A) == ~(CommandsOf(g) \subseteq A)

\* _awaiting_count is the number of groups that wait.
Counted(cl, A) ==
    cl.count = Cardinality({g \in Range(cl.awaiting) : Waits(g, A)})

\* No group has its reply in the output buffers before it is complete.
Complete(cl, A) == \A g \in Replied(cl) : ~Waits(g, A)

\* The Client knows the servers H[m] that may refer to a command m of its
\* _awaiting_groups, as long as it waits for it.
Known(cl, A, H) ==
    \A m \in Commands \ A :
        GroupOf[m] \in Range(cl.awaiting) => H[m] \subseteq cl.peers

\* The commands I handed to select_remote belong to the groups processed.
Entered(cl, c, I) ==
    cl.fd # "deleted" =>
        \A m \in I : Owner(m) = c => GroupOf[m] \in Range(Front(cl))

Sound(cl, c, A, I, H) ==
    /\ Tidy(cl, c)
    /\ Counted(cl, A)
    /\ Complete(cl, A)
    /\ Known(cl, A, H)
    /\ Entered(cl, c, I)

\* A method takes the Client from cl to h: no group is taken back.
Grows(cl, h) ==
    /\ Replied(cl) \subseteq Replied(h)
    /\ Range(Front(cl)) \subseteq Range(Front(h))

\* The groups of a Client, by its queues.
LEMMA Ranges ==
    ASSUME NEW cl \in ClientType
    PROVE  /\ Replied(cl) = Range(cl.got) \cup Range(cl.out)
           /\ Range(Front(cl)) = Replied(cl) \cup Range(cl.awaiting)
           /\ Range(cl.awaiting) \subseteq Groups
<1>1. /\ cl.got \in Seq(Groups) /\ cl.out \in Seq(Groups)
      /\ cl.awaiting \in Seq(Groups)
  BY Fields
<1>2. Cat(cl.got, cl.out) \in Seq(Groups)
  BY <1>1, CatType, Zenon
<1> QED BY <1>1, <1>2, RangeCat, RangeType DEF Replied, Front

\* The requests of a client are all different and its own.
LEMMA DueOnce ==
    ASSUME NEW c \in Clients, NEW n \in 0..Len(Requests[c])
    PROVE  Once(Due(c, n), Groups) /\ Range(Due(c, n)) \subseteq GroupsOf(c)
<1> DEFINE d == Due(c, n)
<1>1. Requests[c] \in Seq(Groups) /\ Len(Requests[c]) \in Nat
  BY WorkloadAssumption
<1>2. d \in Seq(Groups) /\ Len(d) = n /\ DOMAIN d = 1..n
  BY DueType
<1>3. \A i \in 1..n : i \in DOMAIN Requests[c] /\ d[i] = Requests[c][i]
  BY <1>1 DEF Due
<1> HIDE DEF d
<1>4. NoRepeat(Requests[c]) /\ Range(Requests[c]) \subseteq GroupsOf(c)
  BY WorkloadAssumption DEF GroupsOf
<1>5. Once(d, Groups)
  BY <1>2, <1>3, <1>4 DEF Once, NoRepeat
<1>6. Range(d) \subseteq GroupsOf(c)
  BY <1>2, <1>3, <1>4 DEF Range
<1> QED BY <1>5, <1>6 DEF d

\* A group is in one queue of its Client.
LEMMA TidyApart ==
    ASSUME NEW c \in Clients, NEW cl, Tidy(cl, c)
    PROVE  /\ Replied(cl) \cap Range(cl.awaiting) = {}
           /\ Range(Front(cl)) \subseteq GroupsOf(c)
           /\ cl.fd \in {"none", "open"} =>
                /\ Range(cl.parsed) \cap Range(Front(cl)) = {}
                /\ Range(cl.parsed) \subseteq GroupsOf(c)
                /\ Once(cl.parsed, Groups)
<1>1. cl \in ClientType /\ cl.asked \in 0..Len(Requests[c])
  BY DEF Tidy
<1>2. PICK r \in Seq(Groups) : /\ Cat(Front(cl), r) = Due(c, cl.asked)
                               /\ cl.fd \in {"none", "open"} => r = cl.parsed
  BY DEF Tidy
<1>3. /\ Front(cl) \in Seq(Groups) /\ Cat(cl.got, cl.out) \in Seq(Groups)
      /\ cl.awaiting \in Seq(Groups)
  BY <1>1, FrontType, Fields
<1>4. /\ Once(Cat(Front(cl), r), Groups)
      /\ Range(Cat(Front(cl), r)) \subseteq GroupsOf(c)
  BY <1>1, <1>2, DueOnce
<1>5. /\ Once(Front(cl), Groups) /\ Once(r, Groups)
      /\ Range(Front(cl)) \cap Range(r) \cap Groups = {}
  BY <1>3, <1>4, OnceParts
<1>6. Range(Front(cl)) \subseteq GroupsOf(c) /\ Range(r) \subseteq GroupsOf(c)
  BY <1>3, <1>4, RangeCat
<1>7. Once(Cat(Cat(cl.got, cl.out), cl.awaiting), Groups)
  BY <1>5 DEF Front
<1>8. Replied(cl) \cap Range(cl.awaiting) \cap Groups = {}
  BY <1>3, <1>7, OnceParts DEF Replied
<1>9. Range(cl.awaiting) \subseteq Groups /\ Range(r) \subseteq Groups
  BY <1>3, RangeType
<1> QED BY <1>2, <1>5, <1>6, <1>8, <1>9, Zenon

\* A method that leaves the queues, the count and the peers alone.
LEMMA SameSound ==
    ASSUME NEW c, NEW cl, NEW h, NEW A, NEW I, NEW H, Sound(cl, c, A, I, H),
           Tidy(h, c), h.got = cl.got, h.out = cl.out, h.awaiting = cl.awaiting,
           h.count = cl.count, cl.peers \subseteq h.peers,
           h.fd # "deleted" => cl.fd # "deleted"
    PROVE  Sound(h, c, A, I, H) /\ Grows(cl, h)
<1>1. Front(h) = Front(cl) /\ Replied(h) = Replied(cl)
  BY Zenon DEF Front, Replied
<1>2. Counted(h, A) /\ Complete(h, A) /\ Entered(h, c, I)
  BY <1>1, Zenon DEF Sound, Counted, Complete, Entered
<1>3. Known(h, A, H)
  BY Zenon DEF Sound, Known
<1> QED BY <1>1, <1>2, <1>3, Zenon DEF Sound, Grows

\* No group waits if the count is 0.
LEMMA NoneWaits ==
    ASSUME NEW cl \in ClientType, NEW A, Counted(cl, A)
    PROVE  /\ cl.count \in Nat
           /\ cl.count = 0 => \A g \in Range(cl.awaiting) : ~Waits(g, A)
           /\ cl.awaiting = <<>> => cl.count = 0
<1> DEFINE S == {g \in Range(cl.awaiting) : Waits(g, A)}
<1>1. S \subseteq Groups
  BY Ranges
<1>2. IsFiniteSet(S) /\ Cardinality(S) \in Nat
  BY <1>1, GroupsFinite
<1>3. cl.count = Cardinality(S)
  BY DEF Counted
<1>4. cl.awaiting = <<>> => S = {}
  BY RangeEmpty
<1>5. Cardinality(S) = 0 <=> S = {}
  <2> HIDE DEF S
  <2> QED BY <1>2, FS_EmptySet
<1> QED BY <1>2, <1>3, <1>4, <1>5, Zenon

\* _push_awaitings_to_ready moves complete groups.
LEMMA PushSound ==
    ASSUME NEW c, NEW cl, NEW A, NEW I, NEW H, Sound(cl, c, A, I, H)
    PROVE  LET h == PushAwaitingsToReady(cl)
           IN  Sound(h, c, A, I, H) /\ Grows(cl, h)
<1> DEFINE p == [cl EXCEPT !.out = @ \o cl.awaiting, !.ready = @ \o cl.awaiting,
                           !.awaiting = <<>>]
           h == PushAwaitingsToReady(cl)
<1>1. cl \in ClientType /\ Tidy(cl, c)
  BY DEF Sound, Tidy
<1>2. Tidy(h, c) /\ h \in ClientType
  BY <1>1, PushTidy, Zenon DEF Tidy
<1>3. CASE ~MayPush(cl)
  <2>1. h = cl
    BY <1>3 DEF PushAwaitingsToReady
  <2> HIDE DEF h
  <2> QED BY <1>1, <2>1, SameSound, Zenon DEF h
<1>4. CASE MayPush(cl)
  <2>1. /\ p.got = cl.got /\ p.fd = cl.fd /\ p.out = cl.out \o cl.awaiting
        /\ p.awaiting = <<>> /\ p.count = cl.count /\ p.peers = cl.peers
    BY <1>1 DEF ClientType
  <2>2. h = Arm(p)
    BY <1>4 DEF PushAwaitingsToReady
  <2>3. p = [p EXCEPT !.poll = p.poll]
    BY <1>1, Zenon DEF ClientType
  <2> HIDE DEF p, h
  <2>4. /\ h.got = p.got /\ h.fd = p.fd /\ h.out = p.out /\ h.awaiting = p.awaiting
        /\ h.count = p.count /\ h.peers = p.peers
    BY <2>2 DEF Arm
  <2>5. cl.got \in Seq(Groups) /\ cl.out \in Seq(Groups) /\ cl.awaiting \in Seq(Groups)
    BY <1>1, Fields, Zenon
  <2>6. h.out = Cat(cl.out, cl.awaiting)
    BY <2>1, <2>4 DEF Cat
  <2>7. Range(h.out) = Range(cl.out) \cup Range(cl.awaiting)
    BY <2>5, <2>6, RangeCat
  <2>8. Range(h.awaiting) = {}
    BY <2>1, <2>4, RangeEmpty
  <2>9. /\ Replied(cl) = Range(cl.got) \cup Range(cl.out)
        /\ Replied(h) = Range(h.got) \cup Range(h.out)
        /\ Range(Front(cl)) = Replied(cl) \cup Range(cl.awaiting)
        /\ Range(Front(h)) = Replied(h) \cup Range(h.awaiting)
    BY <1>1, <1>2, Ranges, Zenon
  <2>10. /\ Replied(h) = Replied(cl) \cup Range(cl.awaiting)
         /\ Range(Front(h)) = Range(Front(cl))
    BY <2>1, <2>4, <2>7, <2>8, <2>9, Zenon
  <2>11. cl.count = 0 /\ Counted(cl, A)
    BY <1>4 DEF MayPush, Sound
  <2>12. \A g \in Range(cl.awaiting) : ~Waits(g, A)
    BY <1>1, <2>11, NoneWaits, Zenon
  <2>13. Complete(h, A)
    BY <2>10, <2>12 DEF Complete, Sound
  <2>14. Counted(h, A)
    <3>1. {g \in Range(h.awaiting) : Waits(g, A)} = {}
      BY <2>8
    <3> QED BY <2>1, <2>4, <2>11, <3>1, FS_EmptySet, Zenon DEF Counted
  <2>15. Known(h, A, H)
    BY <2>8 DEF Known
  <2>16. Entered(h, c, I)
    BY <2>1, <2>4, <2>10, Zenon DEF Entered, Sound
  <2>17. Grows(cl, h)
    BY <2>10 DEF Grows
  <2> QED BY <1>2, <2>13, <2>14, <2>15, <2>16, <2>17 DEF Sound, h
<1> QED BY <1>3, <1>4

\* Disjoint sets are counted one after the other.
LEMMA DisjointUnion ==
    ASSUME NEW S, IsFiniteSet(S), NEW T, IsFiniteSet(T), S \cap T = {}
    PROVE  Cardinality(S \cup T) = Cardinality(S) + Cardinality(T)
<1>1. Cardinality(S \cap T) = 0
  BY FS_EmptySet
<1>2. Cardinality(S) \in Nat /\ Cardinality(T) \in Nat
  BY FS_CardinalityType
<1>3. Cardinality(S \cup T) = Cardinality(S) + Cardinality(T) - Cardinality(S \cap T)
  BY FS_Union
<1> QED BY ONLY <1>1, <1>2, <1>3

\* The servers that may refer to a command not handed to select_remote yet.
Fresh(H, I) == \A m \in Commands \ I : H[m] \subseteq {Target(m)} \ {Nul}

\* The groups _process takes wait for all their commands, if they have any.
LEMMA EnterSound ==
    ASSUME NEW c \in Clients, NEW cl, NEW e, NEW pipe, NEW A, NEW I, NEW H,
           A \subseteq I, Fresh(H, I),
           Sound(cl, c, A, I, H), cl.fd = "open", Enters(cl, e, pipe, c)
    PROVE  Sound(e, c, A, I, H) /\ Grows(cl, e)
<1> DEFINE remote == {g \in Range(pipe) : WaitRemote(g)}
           targets == {Target(m) : m \in {x \in Commands : GroupOf[x] \in remote}}
           S == {g \in Range(cl.awaiting) : Waits(g, A)}
           T == {g \in Range(e.awaiting) : Waits(g, A)}
<1>1. cl \in ClientType /\ Tidy(cl, c) /\ e \in ClientType /\ Tidy(e, c)
  BY Zenon DEF Sound, Enters, Tidy
<1>2. /\ pipe \in Seq(Groups) /\ Range(pipe) \subseteq Range(cl.parsed)
      /\ e.got = cl.got /\ e.out = cl.out /\ e.awaiting = Cat(cl.awaiting, pipe)
      /\ e.count = cl.count + Cardinality(remote)
      /\ e.peers = cl.peers \cup (targets \ {Nul})
  BY Zenon DEF Enters
<1>3. Range(e.awaiting) = Range(cl.awaiting) \cup Range(pipe)
  <2>1. cl.awaiting \in Seq(Groups) /\ pipe \in Seq(Groups)
    BY <1>1, <1>2, Fields, Zenon
  <2>2. Range(Cat(cl.awaiting, pipe)) = Range(cl.awaiting) \cup Range(pipe)
    BY <2>1, RangeCat
  <2> QED BY <1>2, <2>2, Zenon
<1>4. /\ Range(Front(cl)) = Replied(cl) \cup Range(cl.awaiting)
      /\ Range(Front(e)) = Replied(e) \cup Range(e.awaiting)
      /\ Range(cl.awaiting) \subseteq Groups /\ Range(e.awaiting) \subseteq Groups
  BY <1>1, Ranges, Zenon
<1>5. Replied(e) = Replied(cl)
  BY <1>2, Zenon DEF Replied
<1>6. /\ Range(cl.parsed) \cap Range(Front(cl)) = {}
      /\ Range(cl.parsed) \subseteq GroupsOf(c)
  BY <1>1, TidyApart, Zenon
<1>7. ASSUME NEW g \in Range(pipe), NEW m \in CommandsOf(g) PROVE m \notin I
  <2>1. GroupOf[m] = g /\ g \in GroupsOf(c) /\ g \notin Range(Front(cl))
    BY <1>2, <1>6, Zenon DEF CommandsOf
  <2>2. Owner(m) = c
    BY <2>1, Zenon DEF Owner, GroupsOf
  <2> QED BY <2>1, <2>2 DEF Sound, Entered
<1>8. \A g \in Range(pipe) : Waits(g, A) <=> WaitRemote(g)
  BY <1>7 DEF Waits, WaitRemote
<1>9. T = S \cup remote /\ S \cap remote = {}
  BY <1>2, <1>3, <1>4, <1>6, <1>8, Zenon
<1>10. Counted(e, A)
  <2>1. S \subseteq Groups /\ remote \subseteq Groups
    BY <1>3, <1>4
  <2>2. cl.count = Cardinality(S)
    BY DEF Sound, Counted
  <2> HIDE DEF S, remote, T
  <2>3. /\ IsFiniteSet(S) /\ IsFiniteSet(remote)
        /\ Cardinality(S) \in Nat /\ Cardinality(remote) \in Nat
    BY <2>1, GroupsFinite
  <2>4. Cardinality(T) = Cardinality(S) + Cardinality(remote)
    BY <1>9, <2>3, DisjointUnion, Zenon
  <2> QED BY <1>2, <2>2, <2>4, Zenon DEF Counted, T
<1>11. Complete(e, A)
  BY <1>5, Zenon DEF Sound, Complete
<1>12. Known(e, A, H)
  <2> SUFFICES ASSUME NEW m \in Commands \ A, GroupOf[m] \in Range(e.awaiting)
               PROVE  H[m] \subseteq e.peers
    BY Zenon DEF Known
  <2>1. CASE GroupOf[m] \in Range(cl.awaiting)
    BY <1>2, <2>1, Zenon DEF Sound, Known
  <2>2. CASE GroupOf[m] \in Range(pipe)
    <3>1. m \in CommandsOf(GroupOf[m])
      BY DEF CommandsOf
    <3>2. m \notin I /\ GroupOf[m] \in remote
      BY <1>7, <2>2, <3>1 DEF WaitRemote
    <3>3. H[m] \subseteq {Target(m)} \ {Nul}
      BY <3>2, Zenon DEF Fresh
    <3>4. Target(m) \in targets
      BY <3>2
    <3> QED BY <1>2, <3>3, <3>4
  <2> QED BY <1>3, <2>1, <2>2, Zenon
<1>13. Range(Front(cl)) \subseteq Range(Front(e))
  BY <1>3, <1>4, <1>5
<1>14. Entered(e, c, I)
  BY <1>13 DEF Sound, Entered
<1> QED BY <1>1, <1>5, <1>10, <1>11, <1>12, <1>13, <1>14 DEF Sound, Grows

\* A Client that is sound with the groups it took is sound afterwards.
LEMMA ProcessSound ==
    ASSUME MapType, StagesInRange,
           NEW c \in Clients, NEW cl, NEW A, NEW I, NEW H,
           A \subseteq I, Fresh(H, I), Sound(cl, c, A, I, H), cl.fd = "open"
    PROVE  LET h == Process(cl)
           IN  Sound(h, c, A, I, H) /\ Grows(cl, h)
<1> DEFINE h == Process(cl)
<1>1. Tidy(cl, c)
  BY DEF Sound
<1>2. PICK e, pipe : /\ Enters(cl, e, pipe, c)
                     /\ h = IF e.fd = "closed" \/ e.count > 0 THEN e
                            ELSE PushAwaitingsToReady(e)
  BY <1>1, ProcessEnters
<1>3. Sound(e, c, A, I, H) /\ Grows(cl, e)
  BY <1>2, EnterSound
<1>4. LET g == PushAwaitingsToReady(e)
      IN  Sound(g, c, A, I, H) /\ Grows(e, g)
  BY <1>3, PushSound
<1> HIDE DEF h
<1>5. h = e \/ h = PushAwaitingsToReady(e)
  BY <1>2
<1> QED BY <1>3, <1>4, <1>5, Zenon DEF Grows, h

\* Writing replies makes no group wait.
LEMMA WrittenSound ==
    ASSUME NEW c, NEW cl, NEW A, NEW I, NEW H, Sound(cl, c, A, I, H),
           NEW k \in 0..Len(cl.out)
    PROVE  LET w == Written(cl, k)
           IN  Sound(w, c, A, I, H) /\ Grows(cl, w)
<1> DEFINE w == Written(cl, k)
<1>1. Tidy(cl, c)
  BY DEF Sound
<1>2. /\ Tidy(w, c) /\ w.fd = cl.fd /\ w.awaiting = cl.awaiting
      /\ w.count = cl.count /\ w.peers = cl.peers
      /\ Cat(w.got, w.out) = Cat(cl.got, cl.out)
  BY <1>1, WrittenTidy, Zenon
<1> HIDE DEF w
<1>3. Replied(w) = Replied(cl) /\ Front(w) = Front(cl)
  BY <1>2, Zenon DEF Replied, Front
<1>4. Counted(w, A) /\ Complete(w, A) /\ Known(w, A, H) /\ Entered(w, c, I)
  BY <1>2, <1>3, Zenon DEF Sound, Counted, Complete, Known, Entered
<1> QED BY <1>2, <1>3, <1>4, Zenon DEF Sound, Grows, w

\* The peers are only forgotten when no group waits for them.
LEMMA ClearedSound ==
    ASSUME NEW c, NEW w, NEW A, NEW I, NEW H, Sound(w, c, A, I, H)
    PROVE  LET r == Cleared(w)
           IN  Sound(r, c, A, I, H) /\ Grows(w, r)
<1> DEFINE r == Cleared(w)
<1>1. Tidy(w, c)
  BY DEF Sound
<1>2. /\ Tidy(r, c) /\ r.fd = w.fd /\ r.got = w.got /\ r.out = w.out
      /\ r.awaiting = w.awaiting /\ r.count = w.count
      /\ r.peers = IF w.awaiting = <<>> THEN {} ELSE w.peers
  BY <1>1, ClearedTidy, Zenon
<1> HIDE DEF r
<1>3. Replied(r) = Replied(w) /\ Front(r) = Front(w)
  BY <1>2, Zenon DEF Replied, Front
<1>4. Counted(r, A) /\ Complete(r, A) /\ Entered(r, c, I)
  BY <1>2, <1>3, Zenon DEF Sound, Counted, Complete, Entered
<1>5. Known(r, A, H)
  <2>1. CASE w.awaiting = <<>>
    BY <1>2, <2>1, RangeEmpty, Zenon DEF Known
  <2>2. CASE w.awaiting # <<>>
    BY <1>2, <2>2, Zenon DEF Sound, Known
  <2> QED BY <2>1, <2>2
<1> QED BY <1>2, <1>3, <1>4, <1>5, Zenon DEF Sound, Grows, r

\* _send_buffer_set of an open client.
LEMMA SendSound ==
    ASSUME MapType, StagesInRange,
           NEW c \in Clients, NEW cl, NEW A, NEW I, NEW H,
           A \subseteq I, Fresh(H, I), Sound(cl, c, A, I, H), cl.fd = "open",
           NEW k \in 0..Len(cl.out)
    PROVE  LET h == SendBufferSet(cl, k)
           IN  Sound(h, c, A, I, H) /\ Grows(cl, h)
<1> DEFINE w == Written(cl, k)
           r == Cleared(w)
           h == SendBufferSet(cl, k)
<1>1. h = IF w.out # <<>> THEN w ELSE IF r.parsed = <<>> THEN r ELSE Process(r)
  BY SendMeans, Zenon
<1>2. Tidy(cl, c)
  BY DEF Sound
<1>3. Sound(w, c, A, I, H) /\ Grows(cl, w)
  BY WrittenSound
<1>4. w.fd = "open" /\ Tidy(w, c)
  BY <1>2, WrittenTidy, Zenon
<1> HIDE DEF w, h
<1>5. Sound(r, c, A, I, H) /\ Grows(w, r)
  BY <1>3, ClearedSound
<1>6. r.fd = "open"
  BY <1>4, ClearedTidy, Zenon
<1> HIDE DEF r
<1>7. LET g == Process(r)
      IN  Sound(g, c, A, I, H) /\ Grows(r, g)
  BY <1>5, <1>6, ProcessSound
<1>8. h \in {w, r, Process(r)}
  BY <1>1, Zenon
<1> QED BY <1>3, <1>5, <1>7, <1>8, Zenon DEF Grows, h

\* _write_response writes, and if no group waits pushes and writes again.
LEMMA WriteMeans ==
    ASSUME NEW cl, NEW h \in WriteResponse(cl)
    PROVE  \E a : /\ \/ a = cl
                     \/ \E k \in 0..Len(cl.out) : a = SendBufferSet(cl, k)
                  /\ \/ h = a
                     \/ /\ a.awaiting # <<>> /\ a.count = 0
                        /\ LET p == PushAwaitingsToReady(a)
                           IN  \E k \in 0..Len(p.out) : h = SendBufferSet(p, k)
<1> DEFINE first == IF cl.out = <<>> THEN {cl}
                    ELSE {SendBufferSet(cl, k) : k \in 0..Len(cl.out)}
           again(a) == {SendBufferSet(PushAwaitingsToReady(a), k) :
                            k \in 0..Len(PushAwaitingsToReady(a).out)}
<1>1. WriteResponse(cl) =
        UNION {IF a.awaiting = <<>> \/ a.count # 0 THEN {a} ELSE again(a) :
               a \in first}
  BY DEF WriteResponse
<1>2. PICK a \in first :
        h \in IF a.awaiting = <<>> \/ a.count # 0 THEN {a} ELSE again(a)
  BY <1>1
<1>3. a = cl \/ \E k \in 0..Len(cl.out) : a = SendBufferSet(cl, k)
  BY <1>2
<1>4. h = a \/ (a.awaiting # <<>> /\ a.count = 0 /\ h \in again(a))
  BY <1>2
<1> QED BY <1>3, <1>4

\* _write_response: so do the replies it writes.
LEMMA WriteSound ==
    ASSUME MapType, StagesInRange,
           NEW c \in Clients, NEW cl, NEW A, NEW I, NEW H,
           A \subseteq I, Fresh(H, I), Sound(cl, c, A, I, H), cl.fd = "open",
           NEW h \in WriteResponse(cl)
    PROVE  Sound(h, c, A, I, H) /\ Grows(cl, h)
<1>1. PICK a : /\ \/ a = cl
                  \/ \E k \in 0..Len(cl.out) : a = SendBufferSet(cl, k)
               /\ \/ h = a
                  \/ /\ a.awaiting # <<>> /\ a.count = 0
                     /\ LET p == PushAwaitingsToReady(a)
                        IN  \E k \in 0..Len(p.out) : h = SendBufferSet(p, k)
  BY WriteMeans, Zenon
<1>2. Tidy(cl, c)
  BY DEF Sound
<1>3. /\ Sound(a, c, A, I, H) /\ Grows(cl, a)
      /\ a.fd \in {"open", "closed"} /\ (a.fd = "closed" => a.ready = <<>>)
  <2>1. CASE a = cl
    BY <2>1, Zenon DEF Grows
  <2>2. CASE a # cl
    <3>1. PICK k \in 0..Len(cl.out) : a = SendBufferSet(cl, k)
      BY <1>1, <2>2, Zenon
    <3>2. a.fd \in {"open", "closed"} /\ (a.fd = "closed" => a.ready = <<>>)
      BY <1>2, <3>1, SendTidy, Zenon
    <3>3. Sound(a, c, A, I, H) /\ Grows(cl, a)
      BY <3>1, SendSound
    <3> QED BY <3>2, <3>3, Zenon
  <2> QED BY <2>1, <2>2, Zenon
<1>4. CASE h = a
  BY <1>3, <1>4, Zenon
<1>5. CASE h # a
  <2> DEFINE p == PushAwaitingsToReady(a)
  <2>1. a.awaiting # <<>> /\ a.count = 0
    BY <1>1, <1>5, Zenon
  <2>2. PICK k \in 0..Len(p.out) : h = SendBufferSet(p, k)
    BY <1>1, <1>5, Zenon
  <2>3. Tidy(a, c)
    BY <1>3, Zenon DEF Sound
  <2>4. Tidy(p, c) /\ p.fd = a.fd /\ (a.ready = <<>> => p.out # <<>>)
    BY <2>1, <2>3, PushTidy, Zenon
  <2>5. Sound(p, c, A, I, H) /\ Grows(a, p)
    BY <1>3, PushSound, Zenon
  <2> HIDE DEF p
  <2>6. CASE p.fd = "open"
    <3>1. Sound(h, c, A, I, H) /\ Grows(p, h)
      BY <2>2, <2>5, <2>6, SendSound
    <3> QED BY <1>3, <2>5, <3>1, Zenon DEF Grows
  <2>7. CASE p.fd # "open"
    <3>1. p.out # <<>>
      BY <1>3, <2>4, <2>7, Zenon
    <3>2. h = [p EXCEPT !.fd = "badio"]
      BY <2>2, <2>7, <3>1 DEF SendBufferSet
    <3>3. p \in ClientType
      BY <2>4, Zenon DEF Tidy
    <3>4. h \in ClientType
      BY <3>2, <3>3, WithFd, Zenon
    <3>5. /\ h.asked = p.asked /\ h.got = p.got /\ h.out = p.out
          /\ h.awaiting = p.awaiting /\ h.fd = "badio" /\ h.count = p.count
          /\ h.peers = p.peers
      BY <3>2, <3>3 DEF ClientType
    <3>6. Tidy(h, c)
      BY <2>4, <3>4, <3>5, SameTidy, Zenon
    <3>7. p.fd # "deleted"
      BY <1>3, <2>4, Zenon
    <3>8. Sound(h, c, A, I, H) /\ Grows(p, h)
      BY <2>5, <3>5, <3>6, <3>7, SameSound, Zenon
    <3> QED BY <1>3, <2>5, <3>8, Zenon DEF Grows
  <2> QED BY <2>6, <2>7
<1> QED BY <1>4, <1>5

\* _read_request.
LEMMA ReadSound ==
    ASSUME MapType, StagesInRange,
           NEW c \in Clients, NEW cl, NEW A, NEW I, NEW H,
           A \subseteq I, Fresh(H, I), Sound(cl, c, A, I, H), cl.fd = "open",
           NEW j \in 0..(Len(Requests[c]) - cl.asked)
    PROVE  LET h == ReadRequest(cl, c, j)
           IN  Sound(h, c, A, I, H) /\ Grows(cl, h)
<1> DEFINE r == Received(cl, c, j)
           h == ReadRequest(cl, c, j)
<1>1. h = IF r.awaiting = <<>> THEN Process(r) ELSE r
  BY ReadMeans, Zenon
<1>2. Tidy(cl, c)
  BY DEF Sound
<1>3. /\ Tidy(r, c) /\ r.fd = "open" /\ r.got = cl.got /\ r.out = cl.out
      /\ r.awaiting = cl.awaiting /\ r.count = cl.count /\ r.peers = cl.peers
  BY <1>2, ReceivedTidy, Zenon
<1> HIDE DEF r, h
<1>4. Sound(r, c, A, I, H) /\ Grows(cl, r)
  BY <1>3, SameSound, Zenon
<1>5. LET g == Process(r)
      IN  Sound(g, c, A, I, H) /\ Grows(r, g)
  BY <1>3, <1>4, ProcessSound, Zenon
<1>6. h = r \/ h = Process(r)
  BY <1>1, Zenon
<1> QED BY <1>4, <1>5, <1>6, Zenon DEF Grows, h

\* on_events of an open client, for any events.
LEMMA OnEventsSound ==
    ASSUME MapType, StagesInRange,
           NEW c \in Clients, NEW cl, NEW A, NEW I, NEW H,
           A \subseteq I, Fresh(H, I), Sound(cl, c, A, I, H), cl.fd = "open",
           NEW j \in 0..(Len(Requests[c]) - cl.asked),
           NEW rd, NEW wr, NEW h \in ClientOnEvents(cl, c, rd, j, wr)
    PROVE  Sound(h, c, A, I, H) /\ Grows(cl, h)
<1> DEFINE r == IF rd THEN ReadRequest(cl, c, j) ELSE cl
<1>1. Tidy(cl, c)
  BY DEF Sound
<1>2. Sound(r, c, A, I, H) /\ Grows(cl, r)
  <2>1. Grows(cl, cl)
    BY DEF Grows
  <2> QED BY <2>1, ReadSound
<1>3. r.fd \in {"open", "closed"}
  BY <1>1, ReadTidy
<1>4. ClientOnEvents(cl, c, rd, j, wr) =
        IF r.fd = "closed" THEN {r}
        ELSE {SetConnPoll(w) : w \in IF wr THEN WriteResponse(r) ELSE {r}}
  BY Zenon DEF ClientOnEvents
<1>5. Tidy(h, c)
  BY <1>1, OnEventsTidy DEF Good
<1> HIDE DEF r
<1>6. CASE r.fd = "closed"
  BY <1>2, <1>4, <1>6
<1>7. CASE r.fd = "open"
  <2>1. PICK w \in (IF wr THEN WriteResponse(r) ELSE {r}) : h = SetConnPoll(w)
    BY <1>4, <1>7
  <2>2. Sound(w, c, A, I, H) /\ Grows(r, w)
    <3>1. Grows(r, r)
      BY DEF Grows
    <3> QED BY <1>2, <1>7, <2>1, <3>1, WriteSound
  <2>3. w \in ClientType
    BY <2>2, Zenon DEF Sound, Tidy
  <2>4. /\ h.got = w.got /\ h.out = w.out /\ h.awaiting = w.awaiting
        /\ h.fd = w.fd /\ h.count = w.count /\ h.peers = w.peers
    BY <2>1, <2>3 DEF SetConnPoll, ClientType
  <2>5. Sound(h, c, A, I, H) /\ Grows(w, h)
    BY <1>5, <2>2, <2>4, SameSound, Zenon
  <2> QED BY <1>2, <2>2, <2>5, Zenon DEF Grows
<1> QED BY <1>3, <1>6, <1>7

\* The groups of a Client that have their last response among the commands B.
Ends(cl, A, B) == {g \in Range(cl.awaiting) : Waits(g, A) /\ ~Waits(g, A \cup B)}

\* The groups counted down to 0 are those that have their last response.
LEMMA CompletedAre ==
    ASSUME NEW c \in Clients, NEW cl, NEW A, NEW I, NEW H, NEW B,
           Sound(cl, c, A, I, H), A \subseteq Commands, I \subseteq Commands,
           B \subseteq I \ A, \A m \in B : Owner(m) = c => cl.fd # "deleted",
           \A g \in Groups : left[g] = Cardinality(CommandsOf(g) \ A)
    PROVE  CompletedBy(B, c) = Ends(cl, A, B)
<1>1. cl \in ClientType /\ Tidy(cl, c)
  BY DEF Sound, Tidy
<1>2. /\ Range(Front(cl)) = Replied(cl) \cup Range(cl.awaiting)
      /\ Range(Front(cl)) \subseteq GroupsOf(c)
  BY <1>1, Ranges, TidyApart, Zenon
<1>3. ASSUME NEW g \in CompletedBy(B, c) PROVE g \in Ends(cl, A, B)
  <2> DEFINE L == CommandsOf(g) \ A
             M == B \cap CommandsOf(g)
  <2>1. g \in GroupsOf(c) /\ g \in Groups /\ M # {} /\ left[g] = Cardinality(M)
    BY <1>3, Zenon DEF CompletedBy, GroupsOf
  <2>2. M \subseteq L /\ L \subseteq Commands /\ Cardinality(M) = Cardinality(L)
    BY <2>1, Zenon DEF CommandsOf
  <2>3. PICK m \in B : GroupOf[m] = g
    BY <2>1, Zenon DEF CommandsOf
  <2>4. Owner(m) = c
    BY <2>1, <2>3, Zenon DEF Owner, GroupsOf
  <2>5. g \in Range(Front(cl))
    BY <2>3, <2>4 DEF Sound, Entered
  <2>6. m \in CommandsOf(g) /\ m \notin A
    BY <2>3, Zenon DEF CommandsOf
  <2>7. Waits(g, A)
    BY <2>6 DEF Waits
  <2>8. g \in Range(cl.awaiting)
    BY <1>2, <2>5, <2>7 DEF Sound, Complete
  <2>9. L = M
    <3> HIDE DEF L, M
    <3>1. IsFiniteSet(L)
      BY <2>2, CommandsFinite
    <3> QED BY <2>2, <3>1, FS_Subset
  <2>10. ~Waits(g, A \cup B)
    BY <2>9 DEF Waits
  <2> QED BY <2>7, <2>8, <2>10 DEF Ends
<1>4. ASSUME NEW g \in Ends(cl, A, B) PROVE g \in CompletedBy(B, c)
  <2>1. /\ g \in GroupsOf(c) /\ ~(CommandsOf(g) \subseteq A)
        /\ CommandsOf(g) \subseteq A \cup B
    BY <1>2, <1>4 DEF Ends, Waits
  <2>2. CommandsOf(g) \ A = B \cap CommandsOf(g) /\ B \cap CommandsOf(g) # {}
    BY <2>1
  <2>3. left[g] = Cardinality(B \cap CommandsOf(g))
    BY <2>1, <2>2, Zenon DEF GroupsOf
  <2> QED BY <2>1, <2>2, <2>3 DEF CompletedBy
<1> QED BY <1>3, <1>4, Zenon

\* group_responsed, with the number of groups that have their last response.
LEMMA RespondSound ==
    ASSUME NEW c \in Clients, NEW cl, NEW A, NEW I, NEW H, NEW B,
           Sound(cl, c, A, I, H), A \subseteq Commands, I \subseteq Commands,
           B \subseteq I \ A, \A m \in B : Owner(m) = c => cl.fd # "deleted",
           \A g \in Groups : left[g] = Cardinality(CommandsOf(g) \ A)
    PROVE  LET h == GroupResponsed(cl, Cardinality(CompletedBy(B, c)))
           IN  Sound(h, c, A \cup B, I, H) /\ Grows(cl, h)
<1> DEFINE E == Ends(cl, A, B)
           S == {g \in Range(cl.awaiting) : Waits(g, A)}
           T == {g \in Range(cl.awaiting) : Waits(g, A \cup B)}
           n == Cardinality(E)
           d == [cl EXCEPT !.count = cl.count - n]
           h == GroupResponsed(cl, n)
<1>1. CompletedBy(B, c) = E
  BY CompletedAre
<1>2. cl \in ClientType /\ Tidy(cl, c) /\ cl.count = Cardinality(S)
  BY Zenon DEF Sound, Tidy, Counted
<1>3. S = T \cup E /\ T \cap E = {}
  BY DEF Ends, Waits
<1>4. T \subseteq Groups /\ E \subseteq Groups
  BY <1>2, Ranges, Zenon DEF Ends
<1> HIDE DEF S, E, T
<1>5. /\ IsFiniteSet(E) /\ IsFiniteSet(T) /\ n \in Nat
      /\ Cardinality(T) \in Nat
  BY <1>4, GroupsFinite
<1>6. Cardinality(S) = Cardinality(T) + n
  BY <1>3, <1>5, DisjointUnion, Zenon
<1>7. /\ cl.count - n = Cardinality(T) /\ cl.count - n \in Int
      /\ n = 0 => cl.count = Cardinality(T)
  BY <1>2, <1>5, <1>6
<1> HIDE DEF n
<1>8. d \in ClientType
  BY <1>2, <1>7, Zenon DEF ClientType
<1>9. /\ d.asked = cl.asked /\ d.got = cl.got /\ d.out = cl.out
      /\ d.awaiting = cl.awaiting /\ d.parsed = cl.parsed /\ d.fd = cl.fd
      /\ d.peers = cl.peers /\ d.count = Cardinality(T)
  BY <1>2, <1>7 DEF ClientType
<1>10. h = IF n = 0 THEN cl ELSE PushAwaitingsToReady(d)
  BY DEF GroupResponsed
<1> HIDE DEF d, h
<1>11. Tidy(d, c)
  BY <1>2, <1>8, <1>9, SameTidy, Zenon
<1>12. Replied(d) = Replied(cl) /\ Front(d) = Front(cl)
  BY <1>9, Zenon DEF Replied, Front
<1>13. Sound(d, c, A \cup B, I, H)
  <2>1. Counted(d, A \cup B)
    BY <1>9, Zenon DEF Counted, T
  <2>2. Complete(d, A \cup B)
    BY <1>12 DEF Sound, Complete, Waits
  <2>3. Known(d, A \cup B, H)
    BY <1>9, Zenon DEF Sound, Known
  <2>4. Entered(d, c, I)
    BY <1>9, <1>12, Zenon DEF Sound, Entered
  <2> QED BY <1>11, <2>1, <2>2, <2>3, <2>4, Zenon DEF Sound
<1>14. Grows(cl, d)
  BY <1>12 DEF Grows
<1>15. CASE n = 0
  <2>1. cl.count = d.count
    BY <1>7, <1>9, <1>15, Zenon
  <2>2. Sound(cl, c, A \cup B, I, H)
    BY <1>2, <1>9, <1>13, <2>1, SameSound, Zenon
  <2>3. Grows(cl, cl) /\ h = cl
    BY <1>10, <1>15 DEF Grows
  <2> QED BY <1>1, <2>2, <2>3, Zenon DEF h, n
<1>16. CASE n # 0
  <2>1. h = PushAwaitingsToReady(d)
    BY <1>10, <1>16
  <2>2. Sound(h, c, A \cup B, I, H) /\ Grows(d, h)
    BY <1>13, <2>1, PushSound, Zenon
  <2>3. Grows(cl, h)
    BY <1>14, <2>2 DEF Grows
  <2> QED BY <1>1, <2>2, <2>3, Zenon DEF h, n
<1> QED BY <1>15, <1>16, Zenon

\* add_peer changes the peers alone.
LEMMA AddPeersTidy ==
    ASSUME NEW c, NEW cl, Tidy(cl, c), NEW To,
           \A m \in DOMAIN To : To[m] \in Servers \cup {Nul}
    PROVE  Tidy(AddPeers(cl, c, To), c)
<1> DEFINE h == AddPeers(cl, c, To)
<1>1. cl \in ClientType
  BY DEF Tidy
<1>2. h \in ClientType
  BY <1>1, AddPeersType
<1>3. /\ h.asked = cl.asked /\ h.got = cl.got /\ h.out = cl.out
      /\ h.awaiting = cl.awaiting /\ h.parsed = cl.parsed /\ h.fd = cl.fd
  BY <1>1 DEF AddPeers, ClientType
<1> HIDE DEF h
<1> QED BY <1>2, <1>3, SameTidy, Zenon DEF h

\* add_peer, for the commands routed to the servers To.
LEMMA AddPeersSound ==
    ASSUME NEW c \in Clients, NEW cl, NEW A, NEW I, NEW H, NEW K, NEW To,
           Sound(cl, c, A, I, H), Tidy(AddPeers(cl, c, To), c),
           \A m \in Commands \ A : Owner(m) = c =>
                K[m] \subseteq H[m] \cup ({To[x] : x \in {m} \cap DOMAIN To} \ {Nul})
    PROVE  LET h == AddPeers(cl, c, To)
           IN  Sound(h, c, A, I, K) /\ Grows(cl, h)
<1> DEFINE P == {To[m] : m \in {n \in DOMAIN To : Owner(n) = c}} \ {Nul}
           h == AddPeers(cl, c, To)
<1>1. cl \in ClientType /\ Tidy(cl, c)
  BY Zenon DEF Sound, Tidy
<1>2. /\ h.got = cl.got /\ h.out = cl.out /\ h.awaiting = cl.awaiting
      /\ h.fd = cl.fd /\ h.count = cl.count /\ h.peers = cl.peers \cup P
  BY <1>1 DEF AddPeers, ClientType
<1> HIDE DEF h
<1>3. Sound(h, c, A, I, H) /\ Grows(cl, h)
  BY <1>2, SameSound, Zenon DEF h
<1>4. Range(cl.awaiting) \subseteq GroupsOf(c)
  BY <1>1, Ranges, TidyApart, Zenon
<1>5. Known(h, A, K)
  <2> SUFFICES ASSUME NEW m \in Commands \ A, GroupOf[m] \in Range(cl.awaiting)
               PROVE  K[m] \subseteq h.peers
    BY <1>2, Zenon DEF Known
  <2>1. Owner(m) = c
    BY <1>4, Zenon DEF Owner, GroupsOf
  <2>2. {To[x] : x \in {m} \cap DOMAIN To} \ {Nul} \subseteq P
    BY <2>1, Zenon
  <2>3. H[m] \subseteq cl.peers
    BY Zenon DEF Sound, Known
  <2> QED BY <1>2, <2>1, <2>2, <2>3, Zenon
<1> QED BY <1>3, <1>5, Zenon DEF Sound, h

\* More commands are handed on, and other servers refer to them.
LEMMA SoundAgain ==
    ASSUME NEW c, NEW cl, NEW A, NEW I, NEW H, NEW J, NEW K, Sound(cl, c, A, I, H),
           \A m \in J : Owner(m) = c => m \in I \/ GroupOf[m] \in Range(Front(cl)),
           \A m \in Commands \ A :
                GroupOf[m] \in Range(cl.awaiting) => K[m] \subseteq H[m]
    PROVE  Sound(cl, c, A, J, K)
<1>1. Known(cl, A, K)
  BY Zenon DEF Sound, Known
<1>2. Entered(cl, c, J)
  BY Zenon DEF Sound, Entered
<1> QED BY <1>1, <1>2, Zenon DEF Sound

-----------------------------------------------------------------------------
(***************************************************************************)
(* Clients that are opened, closed and deleted.                            *)
(***************************************************************************)
\* A Client is opened or closed.
LEMMA FdSound ==
    ASSUME NEW c, NEW cl, NEW h, NEW A, NEW I, NEW H, Sound(cl, c, A, I, H),
           cl.fd # "deleted", Tidy(h, c),
           h = [cl EXCEPT !.fd = "open"] \/ h = [cl EXCEPT !.fd = "closed"]
    PROVE  Sound(h, c, A, I, H) /\ h.fd # "deleted"
<1>1. cl \in ClientType
  BY DEF Sound, Tidy
<1>2. /\ h.got = cl.got /\ h.out = cl.out /\ h.awaiting = cl.awaiting
      /\ h.count = cl.count /\ h.peers = cl.peers /\ h.fd # "deleted"
  BY <1>1 DEF ClientType
<1> QED BY <1>2, SameSound

\* group_responsed closes nothing.
LEMMA GroupResponsedFd ==
    ASSUME NEW cl \in ClientType, NEW n PROVE GroupResponsed(cl, n).fd = cl.fd
BY DEF GroupResponsed, PushAwaitingsToReady, Arm, ClientType

\* A deleted Client is sound: it has no groups.
LEMMA DeletedSound ==
    ASSUME NEW c, NEW cl, NEW A, NEW I, NEW H, NEW K, Sound(cl, c, A, I, H),
           Tidy(Deleted(cl), c)
    PROVE  Sound(Deleted(cl), c, A, I, K)
<1> DEFINE h == Deleted(cl)
<1>1. /\ h.got = cl.got /\ h.out = <<>> /\ h.awaiting = <<>> /\ h.fd = "deleted"
      /\ h.count = 0
  BY DEF Deleted, NewClient
<1>2. cl \in ClientType /\ h \in ClientType
  BY DEF Sound, Tidy
<1> HIDE DEF h
<1>3. Replied(h) \subseteq Replied(cl)
  BY <1>1, <1>2, Ranges, RangeEmpty, Zenon
<1>4. Range(h.awaiting) = {}
  BY <1>1, RangeEmpty, Zenon
<1>5. Counted(h, A)
  <2>1. {g \in Range(h.awaiting) : Waits(g, A)} = {}
    BY <1>4
  <2> QED BY <1>1, <2>1, FS_EmptySet, Zenon DEF Counted
<1>6. Complete(h, A)
  BY <1>3 DEF Sound, Complete
<1>7. Known(h, A, K) /\ Entered(h, c, I)
  BY <1>1, <1>4, Zenon DEF Known, Entered
<1> QED BY <1>5, <1>6, <1>7 DEF Sound, h
=============================================================================
