---------------------------- MODULE ProxyProofs ----------------------------
(***************************************************************************)
(* Proofs about the event loop, for any clients, servers, workload, slot   *)
(* maps and limits.                                                        *)
(***************************************************************************)
EXTENDS Proxy, SubsequenceProofs

Ref == Commands \cup {Nul}

(***************************************************************************)
(* The queues of the servers and the commands to retry.                    *)
(***************************************************************************)
QueueTypes ==
    /\ commands \in [Servers -> Seq(Commands)]
    /\ retrying \in Seq(Commands)

StreamTypes ==
    /\ up \in [Servers -> BOOLEAN]
    /\ sent \in [Servers -> Seq(Ref)]
    /\ output \in [Servers -> Seq(Commands)]
    /\ wire \in [Servers -> Seq(Ref)]

\* Keep, into a given set.
LEMMA KeepInto ==
    ASSUME NEW A, NEW B, NEW s \in Seq(A), NEW S, A \cap S \subseteq B
    PROVE  Keep(s, S) \in Seq(B)
<1>1. Keep(s, S) \in Seq(A \cap S)
  BY KeepType, Zenon
<1> QED BY <1>1

\* Commands are references.
LEMMA SeqOfRefs == ASSUME NEW q \in Seq(Commands) PROVE q \in Seq(Ref)
BY DEF Ref

\* Routing keeps the types of the queues.
LEMMA RoutedType ==
    ASSUME QueueTypes, NEW q \in Seq(Ref), NEW To, DOMAIN To \subseteq Commands
    PROVE  /\ Routed(q, To) \in [Servers -> Seq(Commands)]
           /\ Unrouted(q, To) \in Seq(Commands)
<1>1. ASSUME NEW x PROVE Keep(q, {m \in DOMAIN To : To[m] = x}) \in Seq(Commands)
  <2> DEFINE S == {m \in DOMAIN To : To[m] = x}
  <2>1. Ref \cap S \subseteq Commands
    OBVIOUS
  <2> HIDE DEF S
  <2>2. Keep(q, S) \in Seq(Commands)
    BY <2>1, KeepInto, Zenon
  <2> QED BY <2>2, Zenon DEF S
<1>2. ASSUME NEW s \in Servers
      PROVE  commands[s] \o Keep(q, {m \in DOMAIN To : To[m] = s}) \in Seq(Commands)
  <2>1. commands[s] \in Seq(Commands)
    BY Zenon DEF QueueTypes
  <2>2. Keep(q, {m \in DOMAIN To : To[m] = s}) \in Seq(Commands)
    BY <1>1, Zenon
  <2> QED BY <2>1, <2>2, ConcatProperties, Zenon
<1>3. Routed(q, To) \in [Servers -> Seq(Commands)]
  BY <1>2, Zenon DEF Routed
<1> QED BY <1>1, <1>3, Zenon DEF Unrouted

\* What close_conn gives to the retry list are commands.
LEMMA RequeuedType ==
    ASSUME NEW q \in Seq(Commands), NEW r \in Seq(Ref)
    PROVE  Requeued(q, r) \in Seq(Commands)
<1>1. Keep(r, Commands) \in Seq(Commands)
  BY KeepInto, Zenon
<1> QED BY <1>1 DEF Requeued

\* What close_conn leaves.
LEMMA CloseConnTypes ==
    ASSUME StreamTypes, NEW s \in Servers, NEW retry \in Seq(Commands),
           NEW q \in Seq(Commands), NEW r \in Seq(Ref),
           CloseConn(s, retry, q, r)
    PROVE  StreamTypes' /\ retrying' \in Seq(Commands)
<1>1. retrying' \in Seq(Commands)
  BY RequeuedType DEF CloseConn
<1>2. <<>> \in Seq(Ref) /\ <<>> \in Seq(Commands)
  OBVIOUS
<1>3. StreamTypes'
  BY <1>2, Zenon DEF CloseConn, StreamTypes
<1> QED BY <1>1, <1>3, Zenon

-----------------------------------------------------------------------------
(***************************************************************************)
(* Reply alignment.                                                        *)
(***************************************************************************)
\* A closed connection has nothing to write: close_conn clears the output
\* buffers, so that a connection opened again starts with none.
ClosedSilent == \A s \in Servers : ~up[s] => output[s] = <<>>

Aligned == \A s \in Servers : Follows(Nul, sent[s], wire[s] \o output[s])

ServerInv == QueueTypes /\ StreamTypes /\ ClosedSilent /\ Aligned

\* Aligned is RepliesAligned, said with Follows.
LEMMA AlignedMeans == StreamTypes => (Aligned <=> RepliesAligned)
<1> SUFFICES ASSUME StreamTypes PROVE Aligned <=> RepliesAligned
  OBVIOUS
<1>1. \A s \in Servers : DOMAIN sent[s] = 1..Len(sent[s])
  BY DEF StreamTypes
<1> QED BY <1>1, Zenon DEF Aligned, RepliesAligned, Follows

\* An action that leaves the streams alone keeps them aligned.
LEMMA StreamsUnchanged ==
    ASSUME ServerInv, UNCHANGED <<up, sent, output, wire>>
    PROVE  StreamTypes' /\ ClosedSilent' /\ Aligned'
BY Zenon DEF ServerInv, StreamTypes, ClosedSilent, Aligned

\* A new connection is aligned.
LEMMA FollowsNone == Follows(Nul, <<>>, <<>> \o <<>>)
<1>1. <<>> \o <<>> = <<>> /\ Len(<<>>) = 0
  OBVIOUS
<1> QED BY <1>1, Zenon DEF Follows

\* A connection that is closed loses both sides of the correspondence.
LEMMA CloseConnInv ==
    ASSUME ServerInv, NEW s \in Servers, NEW retry \in Seq(Commands),
           NEW q \in Seq(Commands), NEW r \in Seq(Ref),
           CloseConn(s, retry, q, r), commands' \in [Servers -> Seq(Commands)]
    PROVE  ServerInv'
<1>1. StreamTypes' /\ retrying' \in Seq(Commands)
  BY CloseConnTypes, Zenon DEF ServerInv
<1>2. ASSUME NEW t \in Servers
      PROVE  \/ up'[t] = up[t] /\ sent'[t] = sent[t] /\ wire'[t] = wire[t]
                /\ output'[t] = output[t]
             \/ sent'[t] = <<>> /\ wire'[t] = <<>> /\ output'[t] = <<>>
  BY Zenon DEF CloseConn, ServerInv, StreamTypes
<1>3. ClosedSilent'
  BY <1>2, Zenon DEF ClosedSilent, ServerInv
<1>4. Aligned'
  BY <1>2, FollowsNone, Zenon DEF Aligned, ServerInv
<1> QED BY <1>1, <1>3, <1>4, Zenon DEF ServerInv, QueueTypes

\* There is no connection at first.
LEMMA ServerInvInit == Init => ServerInv
<1> SUFFICES ASSUME Init PROVE ServerInv
  OBVIOUS
<1>1. <<>> \in Seq(Commands) /\ <<>> \in Seq(Ref)
  OBVIOUS
<1>2. QueueTypes /\ StreamTypes /\ ClosedSilent
  BY <1>1, Zenon DEF Init, QueueTypes, StreamTypes, ClosedSilent
<1>3. Aligned
  BY FollowsNone, Zenon DEF Init, Aligned
<1> QED BY <1>2, <1>3, Zenon DEF ServerInv

\* An event of a client only adds commands to send or to retry.
LEMMA ClientEventInv ==
    ASSUME ServerInv, NEW c \in Clients, ClientEvent(c)
    PROVE  ServerInv'
<1>1. PICK h : Issue(c, h)
  BY Zenon DEF ClientEvent
<1>2. UNCHANGED <<up, sent, output, wire>>
  BY Zenon DEF ClientEvent
<1> DEFINE new == {m \in Commands : GroupOf[m] \in
                        Range(h.awaiting) \ Range(client[c].awaiting)}
           q == Keep(Script[c], new)
           To == [m \in new |-> Target(m)]
<1>3. commands' = Routed(q, To) /\ retrying' = retrying \o Unrouted(q, To)
  BY <1>1, Zenon DEF Issue
<1>4. Script[c] \in Seq(Commands)
  BY WorkloadAssumption, Zenon
<1>5. q \in Seq(Commands) /\ q \in Seq(Ref)
  <2>1. q \in Seq(Commands)
    BY <1>4, KeepInto, Zenon
  <2> QED BY <2>1, SeqOfRefs, Zenon
<1>6. DOMAIN To \subseteq Commands
  OBVIOUS
<1> HIDE DEF q, To
<1>7. /\ Routed(q, To) \in [Servers -> Seq(Commands)]
      /\ Unrouted(q, To) \in Seq(Commands)
  BY <1>5, <1>6, RoutedType, Zenon DEF ServerInv
<1>8. QueueTypes'
  <2>1. retrying \in Seq(Commands)
    BY Zenon DEF ServerInv, QueueTypes
  <2> QED BY <2>1, <1>3, <1>7, ConcatProperties, Zenon DEF QueueTypes
<1> QED BY <1>2, <1>8, StreamsUnchanged, Zenon DEF ServerInv

\* A server that is closed has nothing left to align.
LEMMA ServerLostInv ==
    ASSUME ServerInv, NEW s \in Servers, ServerLost(s) \/ CloseRemoved(s)
    PROVE  ServerInv'
<1>1. /\ CloseConn(s, retrying, commands[s], sent[s])
      /\ commands' = [commands EXCEPT ![s] = <<>>]
  BY Zenon DEF ServerLost, CloseRemoved
<1>2. /\ retrying \in Seq(Commands) /\ commands[s] \in Seq(Commands)
      /\ sent[s] \in Seq(Ref) /\ <<>> \in Seq(Commands)
  BY DEF ServerInv, QueueTypes, StreamTypes
<1>3. commands' \in [Servers -> Seq(Commands)]
  BY <1>1, <1>2, Zenon DEF ServerInv, QueueTypes
<1> QED BY <1>1, <1>2, <1>3, CloseConnInv, Zenon

\* A connection opens with READONLY and a reference for its reply, or empty.
LEMMA UpdaterDoneInv ==
    ASSUME ServerInv, NEW nm \in Maps, UpdaterDone(nm)
    PROVE  ServerInv'
<1> DEFINE new == ToConnect(nm)
<1>1. /\ up' = [s \in Servers |-> up[s] \/ s \in new]
      /\ sent' = [s \in Servers |-> IF s \in new THEN ReadonlyRef ELSE sent[s]]
      /\ wire' = [s \in Servers |-> IF s \in new THEN ReadonlyRequest ELSE wire[s]]
      /\ output' = output /\ UNCHANGED <<commands, retrying>>
  BY Zenon DEF UpdaterDone
<1>2. ReadonlyRef \in Seq(Ref) /\ ReadonlyRequest \in Seq(Ref)
  <2>1. Nul \in Ref
    BY Zenon DEF Ref
  <2>2. <<Nul>> \in Seq(Ref) /\ <<>> \in Seq(Ref)
    BY <2>1
  <2> QED BY <2>2, Zenon DEF ReadonlyRef, ReadonlyRequest
<1>3. \A s \in Servers : s \in new => ~up[s]
  BY Zenon DEF ToConnect
<1> HIDE DEF new
<1>4. StreamTypes' /\ QueueTypes'
  BY <1>1, <1>2, Zenon DEF ServerInv, StreamTypes, QueueTypes
<1>5. ClosedSilent'
  BY <1>1, Zenon DEF ServerInv, ClosedSilent
<1>6. ASSUME NEW s \in Servers
      PROVE  Follows(Nul, sent'[s], wire'[s] \o output'[s])
  <2>1. CASE s \in new
    <3>1. sent'[s] = ReadonlyRef /\ wire'[s] = ReadonlyRequest /\ output'[s] = <<>>
      BY <2>1, <1>1, <1>3, Zenon DEF ServerInv, ClosedSilent
    <3>2. ReadonlyRequest \o <<>> = ReadonlyRequest
      BY <1>2
    <3>3. Follows(Nul, ReadonlyRef, ReadonlyRequest)
      BY Zenon DEF Follows, ReadonlyRef, ReadonlyRequest
    <3> QED BY <3>1, <3>2, <3>3, Zenon
  <2>2. CASE s \notin new
    BY <2>2, <1>1, Zenon DEF ServerInv, Aligned
  <2> QED BY <2>1, <2>2, Zenon
<1> QED BY <1>4, <1>5, <1>6, Zenon DEF ServerInv, Aligned

\* _set_slot_map moves commands from the retry list to the queues.
LEMMA SetSlotMapInv == ASSUME ServerInv, SetSlotMap PROVE ServerInv'
<1> DEFINE To == [m \in Range(retrying) |-> Target(m)]
<1>1. /\ commands' = Routed(retrying, To) /\ retrying' = Unrouted(retrying, To)
      /\ UNCHANGED <<up, sent, output, wire>>
  BY Zenon DEF SetSlotMap
<1>2. retrying \in Seq(Commands) /\ retrying \in Seq(Ref)
  BY SeqOfRefs, Zenon DEF ServerInv, QueueTypes
<1>3. DOMAIN To \subseteq Commands
  BY <1>2 DEF Range
<1> HIDE DEF To
<1>4. QueueTypes'
  BY <1>1, <1>2, <1>3, RoutedType, Zenon DEF ServerInv, QueueTypes
<1> QED BY <1>1, <1>4, StreamsUnchanged, Zenon DEF ServerInv

\* _update_slot_map_failed empties the retry list.
LEMMA DiscardInv == ASSUME ServerInv, Discard PROVE ServerInv'
<1>1. retrying' = <<>> /\ UNCHANGED <<up, commands, sent, output, wire>>
  BY Zenon DEF Discard
<1>2. QueueTypes'
  BY <1>1 DEF ServerInv, QueueTypes
<1> QED BY <1>1, <1>2, StreamsUnchanged, Zenon DEF ServerInv

\* A client that is deleted leaves null references, and the queues in place.
LEMMA EndBatchInv == ASSUME ServerInv, EndBatch PROVE ServerInv'
<1> DEFINE gone == {c \in active \cap Clients : client[c].fd = "closed"}
<1>1. /\ commands' = [s \in Servers |->
                        Keep(commands[s], Commands \ HeldFor(s, gone))]
      /\ sent' = [s \in Servers |-> SentNulled(s, gone)]
      /\ retrying' = RetriesKept(gone)
      /\ UNCHANGED <<up, output, wire>>
  BY Zenon DEF EndBatch
<1> HIDE DEF gone
<1>2. QueueTypes'
  <2>1. retrying' \in Seq(Commands)
    <3>1. retrying \in Seq(Commands)
      BY Zenon DEF ServerInv, QueueTypes
    <3> QED BY <3>1, <1>1, KeepInto, Zenon DEF RetriesKept
  <2>2. ASSUME NEW s \in Servers
        PROVE  Keep(commands[s], Commands \ HeldFor(s, gone)) \in Seq(Commands)
    <3>1. commands[s] \in Seq(Commands)
      BY Zenon DEF ServerInv, QueueTypes
    <3> QED BY <3>1, KeepInto, Zenon
  <2> QED BY <2>1, <2>2, <1>1, Zenon DEF QueueTypes
<1>3. ASSUME NEW s \in Servers
      PROVE  /\ SentNulled(s, gone) \in Seq(Ref)
             /\ Len(SentNulled(s, gone)) = Len(sent[s])
             /\ \A i \in 1..Len(sent[s]) :
                    SentNulled(s, gone)[i] \in {Nul, sent[s][i]}
  <2>1. sent[s] \in Seq(Ref) /\ DOMAIN sent[s] = 1..Len(sent[s])
    BY DEF ServerInv, StreamTypes
  <2>2. Nul \in Ref
    BY Zenon DEF Ref
  <2>3. \A i \in 1..Len(sent[s]) : sent[s][i] \in Ref
    BY <2>1
  <2> DEFINE n == [i \in 1..Len(sent[s]) |->
                    IF sent[s][i] \in HeldFor(s, gone) THEN Nul ELSE sent[s][i]]
  <2>4. n = SentNulled(s, gone)
    BY <2>1, Zenon DEF SentNulled
  <2>5. n \in Seq(Ref) /\ Len(n) = Len(sent[s])
    BY <2>1, <2>2, <2>3
  <2>6. \A i \in 1..Len(sent[s]) : n[i] \in {Nul, sent[s][i]}
    OBVIOUS
  <2> QED BY <2>4, <2>5, <2>6, Zenon
<1>4. StreamTypes' /\ ClosedSilent'
  BY <1>1, <1>3, Zenon DEF ServerInv, StreamTypes, ClosedSilent
<1>5. Aligned'
  BY <1>1, <1>3, Zenon DEF ServerInv, Aligned, Follows
<1> QED BY <1>2, <1>4, <1>5, Zenon DEF ServerInv

\* A position in a queue is one in a longer queue.
LEMMA Wider == \A a, b \in Nat : \A k \in 0..a : k \in 0..(a + b)
OBVIOUS

\* The replies read answer commands.
LEMMA RepliedToType ==
    ASSUME ServerInv, NEW s \in Servers, NEW k \in 0..Len(wire[s])
    PROVE  /\ k \in 0..Len(sent[s])
           /\ SubSeq(sent[s], 1, k) \in Seq(Ref)
           /\ RepliedTo(s, k) \subseteq Commands
<1>1. /\ sent[s] \in Seq(Ref) /\ wire[s] \in Seq(Ref) /\ output[s] \in Seq(Ref)
      /\ Follows(Nul, sent[s], wire[s] \o output[s])
  BY SeqOfRefs, Zenon DEF ServerInv, StreamTypes, Aligned
<1>2. k \in 0..Len(sent[s])
  <2>1. Len(sent[s]) = Len(wire[s] \o output[s])
    BY <1>1, Zenon DEF Follows
  <2>2. Len(wire[s] \o output[s]) = Len(wire[s]) + Len(output[s])
    BY <1>1, ConcatProperties, Zenon
  <2>3. Len(wire[s]) \in Nat /\ Len(output[s]) \in Nat
    BY <1>1
  <2>4. k \in 0..(Len(wire[s]) + Len(output[s]))
    BY <2>3, Wider, Zenon
  <2> QED BY <2>1, <2>2, <2>4, Zenon
<1> DEFINE replied == SubSeq(sent[s], 1, k)
<1>3. replied \in Seq(Ref)
  BY <1>1, <1>2, Divided, Zenon
<1>4. Range(replied) \subseteq Ref
  <2> HIDE DEF replied
  <2> QED BY <1>3 DEF Range
<1> QED BY <1>2, <1>3, <1>4, Zenon DEF RepliedTo, Ref

\* Replies are read, their commands take another step, commands are sent and
\* requests written, all in one event of a server.
LEMMA ServerEventInv ==
    ASSUME ServerInv, NEW s \in Servers, ServerEvent(s)
    PROVE  ServerInv'
<1>1. PICK rd \in BOOLEAN, wr \in BOOLEAN, broken \in BOOLEAN,
           k \in 0..Len(wire[s]) :
        \E moved \in SUBSET (IF Redirects THEN RepliedTo(s, k) ELSE {}) :
        \E cut \in SUBSET {m \in RepliedTo(s, k) \ moved : MoreSteps(m)} :
            ServerOnEvents(s, rd, wr, broken, k, moved, cut)
  BY Zenon DEF ServerEvent
<1>2. PICK moved, cut : /\ moved \subseteq RepliedTo(s, k)
                        /\ ServerOnEvents(s, rd, wr, broken, k, moved, cut)
  BY <1>1, Zenon
<1> DEFINE replied == SubSeq(sent[s], 1, k)
           next == {m \in RepliedTo(s, k) \ (moved \cup cut) : MoreSteps(m)}
           To == [m \in next |-> ServerAt(m, stage[m] + 1)]
           queued == Routed(replied, To)
           pending == SubSeq(sent[s], k + 1, Len(sent[s])) \o queued[s]
           buffers == output[s] \o queued[s]
           again == moved \cup {m \in next : To[m] = Nul}
           retry == retrying \o Keep(replied, again)
<1>3. PICK w \in 0..Len(buffers) :
        /\ up[s]
        /\ commands' = [queued EXCEPT ![s] = <<>>]
        /\ IF broken
           THEN CloseConn(s, retry, <<>>, pending)
           ELSE /\ sent' = [sent EXCEPT ![s] = pending]
                /\ output' = [output EXCEPT ![s] =
                                SubSeq(buffers, w + 1, Len(buffers))]
                /\ wire' = [wire EXCEPT ![s] =
                                SubSeq(@, k + 1, Len(@)) \o SubSeq(buffers, 1, w)]
                /\ retrying' = retry
                /\ UNCHANGED <<up, want>>
  BY <1>2, Zenon DEF ServerOnEvents
<1>4. /\ sent[s] \in Seq(Ref) /\ wire[s] \in Seq(Ref)
      /\ output[s] \in Seq(Commands) /\ output[s] \in Seq(Ref)
      /\ commands \in [Servers -> Seq(Commands)] /\ retrying \in Seq(Commands)
      /\ Follows(Nul, sent[s], wire[s] \o output[s])
  BY SeqOfRefs, Zenon DEF ServerInv, QueueTypes, StreamTypes, Aligned
<1>5. k \in 0..Len(sent[s])
  BY RepliedToType, Zenon
<1>6. replied \in Seq(Ref) /\ SubSeq(sent[s], k + 1, Len(sent[s])) \in Seq(Ref)
  BY <1>4, <1>5, Divided, Rest, Zenon
<1>7. RepliedTo(s, k) \subseteq Commands
  BY RepliedToType, Zenon
<1>8. DOMAIN To \subseteq Commands /\ again \subseteq Commands
  <2>1. DOMAIN To = next /\ next \subseteq Commands
    BY <1>7, Zenon
  <2>2. moved \subseteq Commands
    BY <1>2, <1>7, Zenon
  <2> HIDE DEF next, To
  <2> QED BY <2>1, <2>2, Zenon
<1> HIDE DEF replied, next, To
<1>9. queued \in [Servers -> Seq(Commands)]
  BY <1>6, <1>8, RoutedType, Zenon DEF ServerInv
<1>10. Keep(replied, again) \in Seq(Commands)
  BY <1>6, <1>8, KeepInto, Zenon
<1> HIDE DEF queued, again
<1>11. queued[s] \in Seq(Commands) /\ queued[s] \in Seq(Ref) /\ <<>> \in Seq(Commands)
  BY <1>9, SeqOfRefs
<1>12. retry \in Seq(Commands)
  BY <1>4, <1>10, ConcatProperties, Zenon
<1>13. pending \in Seq(Ref)
  BY <1>6, <1>11, ConcatProperties, Zenon
<1>14. buffers \in Seq(Commands)
  BY <1>4, <1>11, ConcatProperties, Zenon
<1>15. commands' \in [Servers -> Seq(Commands)]
  BY <1>3, <1>9, <1>11, Zenon
<1>16. CASE broken
  <2>1. CloseConn(s, retry, <<>>, pending)
    BY <1>3, <1>16, Zenon
  <2> HIDE DEF retry, pending
  <2> QED BY <2>1, <1>11, <1>12, <1>13, <1>15, CloseConnInv, Zenon
<1>17. CASE ~broken
  <2> DEFINE written == SubSeq(buffers, 1, w)
             unwritten == SubSeq(buffers, w + 1, Len(buffers))
             unread == SubSeq(wire[s], k + 1, Len(wire[s]))
  <2>1. /\ sent' = [sent EXCEPT ![s] = pending]
        /\ output' = [output EXCEPT ![s] = unwritten]
        /\ wire' = [wire EXCEPT ![s] = unread \o written]
        /\ retrying' = retry /\ up' = up
    BY <1>3, <1>17, Zenon
  <2>2. Follows(Nul, pending, (unread \o written) \o unwritten)
    BY <1>4, <1>11, FollowsAdvance, Zenon
  <2>3. written \in Seq(Commands) /\ unwritten \in Seq(Commands)
    BY <1>14, Divided, Rest, Zenon
  <2>4. unread \in Seq(Ref)
    BY <1>4, Rest, Zenon
  <2> HIDE DEF pending, retry, written, unwritten, unread
  <2>5. unread \o written \in Seq(Ref)
    BY <2>3, <2>4, SeqOfRefs, ConcatProperties, Zenon
  <2>6. StreamTypes' /\ QueueTypes'
    BY <2>1, <2>3, <2>5, <1>12, <1>13, <1>15, Zenon DEF ServerInv, StreamTypes, QueueTypes
  <2>7. ClosedSilent'
    BY <2>1, <1>3, Zenon DEF ServerInv, StreamTypes, ClosedSilent
  <2>8. Aligned'
    BY <2>1, <2>2, Zenon DEF ServerInv, StreamTypes, Aligned
  <2> QED BY <2>6, <2>7, <2>8, Zenon DEF ServerInv
<1> QED BY <1>16, <1>17, Zenon

\* A step of something else changes nothing.
LEMMA ServerInvStutter == ASSUME ServerInv, UNCHANGED vars PROVE ServerInv'
<1>1. UNCHANGED <<commands, retrying>> /\ UNCHANGED <<up, sent, output, wire>>
  BY Zenon DEF vars, serverVars, proxyVars
<1>2. QueueTypes'
  BY <1>1, Zenon DEF ServerInv, QueueTypes
<1> QED BY <1>1, <1>2, StreamsUnchanged, Zenon DEF ServerInv

\* These actions do not touch the servers.
LEMMA ServerInvFrame ==
    ASSUME ServerInv, Accept \/ UpdaterFailed \/ Retrieve
                      \/ \E c \in Clients : ClientQuit(c)
    PROVE  ServerInv'
<1>1. UNCHANGED <<commands, retrying>> /\ UNCHANGED <<up, sent, output, wire>>
  BY Zenon DEF Accept, UpdaterFailed, Retrieve, ClientQuit, serverVars, proxyVars
<1>2. QueueTypes'
  BY <1>1, Zenon DEF ServerInv, QueueTypes
<1> QED BY <1>1, <1>2, StreamsUnchanged, Zenon DEF ServerInv

\* Every step keeps the streams aligned.
LEMMA ServerInvNext == ServerInv /\ [Next]_vars => ServerInv'
<1> SUFFICES ASSUME ServerInv, [Next]_vars PROVE ServerInv'
  OBVIOUS
<1>1. CASE UNCHANGED vars
  BY <1>1, ServerInvStutter, Zenon
<1>2. CASE Accept \/ UpdaterFailed \/ Retrieve \/ \E c \in Clients : ClientQuit(c)
  BY <1>2, ServerInvFrame, Zenon
<1>3. ASSUME NEW c \in Clients, ClientEvent(c) PROVE ServerInv'
  BY <1>3, ClientEventInv, Zenon
<1>4. ASSUME NEW s \in Servers, ServerEvent(s) PROVE ServerInv'
  BY <1>4, ServerEventInv, Zenon
<1>5. ASSUME NEW s \in Servers, ServerLost(s) \/ CloseRemoved(s) PROVE ServerInv'
  BY <1>5, ServerLostInv, Zenon
<1>6. ASSUME NEW nm \in Maps, UpdaterDone(nm) PROVE ServerInv'
  BY <1>6, UpdaterDoneInv, Zenon
<1>7. CASE SetSlotMap
  BY <1>7, SetSlotMapInv, Zenon
<1>8. CASE Discard
  BY <1>8, DiscardInv, Zenon
<1>9. CASE EndBatch
  BY <1>9, EndBatchInv, Zenon
<1> QED BY <1>1, <1>2, <1>3, <1>4, <1>5, <1>6, <1>7, <1>8, <1>9, Zenon DEF Next

\* For any clients, servers, workload and sequence of events, each reply of a
\* server is given to the command whose request it answers, or dropped if the
\* client of that request is gone: Server::_recv_from pairs them rightly.
THEOREM RepliesCorrect == Spec => []RepliesAligned
<1>1. ServerInv => RepliesAligned
  BY AlignedMeans, Zenon DEF ServerInv
<1> QED BY <1>1, ServerInvInit, ServerInvNext, PTL DEF Spec

-----------------------------------------------------------------------------
(***************************************************************************)
(* The commands to retry are not forgotten.                                *)
(***************************************************************************)
\* RetriesAttended alone is not inductive: SetSlotMap leaves commands to retry
\* without an updater, and it is the updater's own event, still in the batch,
\* that makes handle_events look at them again.
Attended ==
    /\ RetriesAttended
    /\ phase = "replace" => Updater \in active

\* The steps of the loop between two batches.
LEMMA AttendedLoop ==
    ASSUME Attended, EndBatch \/ Retrieve \/ SetSlotMap \/ Discard PROVE Attended'
<1>1. CASE EndBatch
  <2>1. /\ phase' = IF ShouldUpdate THEN "retrieve" ELSE "events"
        /\ updating' = updating
    BY <1>1, Zenon DEF EndBatch
  <2>2. CASE ShouldUpdate
    BY <2>1, <2>2, Zenon DEF Attended, RetriesAttended, Idle
  <2>3. CASE ~ShouldUpdate
    <3>1. phase' = "events" /\ (updating \/ retrying' = <<>>)
      BY <2>1, <2>3, Zenon DEF ShouldUpdate
    <3> QED BY <2>1, <3>1, Zenon DEF Attended, RetriesAttended, Idle
  <2> QED BY <2>2, <2>3, Zenon
<1>2. CASE Retrieve
  BY <1>2, Zenon DEF Retrieve, Attended, RetriesAttended, Idle
<1>3. CASE SetSlotMap
  <2>1. Updater \in active' /\ phase' = "events"
    BY <1>3, Zenon DEF SetSlotMap, Attended
  <2> QED BY <2>1, Zenon DEF Attended, RetriesAttended, Idle
<1>4. CASE Discard
  BY <1>4, Zenon DEF Discard, Attended, RetriesAttended, Idle
<1> QED BY <1>1, <1>2, <1>3, <1>4, Zenon

\* The events: each leaves its connection in the batch.
LEMMA AttendedEvents ==
    ASSUME NEW x, x \in active', phase' # "replace" PROVE Attended'
BY Zenon DEF Attended, RetriesAttended, Idle

\* Every step of the loop.
LEMMA AttendedNext == Attended /\ [Next]_vars => Attended'
<1> SUFFICES ASSUME Attended, [Next]_vars PROVE Attended'
  OBVIOUS
<1>1. CASE UNCHANGED vars
  BY <1>1, Zenon DEF vars, proxyVars, loopVars, Attended, RetriesAttended, Idle
<1>2. CASE EndBatch \/ Retrieve \/ SetSlotMap \/ Discard
  BY <1>2, AttendedLoop, Zenon
<1>3. ASSUME Accept PROVE Attended'
  <2>1. Acceptor \in active' /\ phase' = "events"
    BY <1>3, Zenon DEF Accept, Dispatch
  <2> QED BY <2>1, AttendedEvents, Zenon
<1>4. ASSUME NEW c \in Clients, ClientEvent(c) \/ ClientQuit(c) PROVE Attended'
  <2>1. c \in active' /\ phase' = "events"
    BY <1>4, Zenon DEF ClientEvent, ClientQuit, Dispatch
  <2> QED BY <2>1, AttendedEvents, Zenon
<1>5. ASSUME NEW s \in Servers, ServerEvent(s) \/ ServerLost(s) PROVE Attended'
  <2>1. CASE ServerLost(s)
    BY <2>1, AttendedEvents, Zenon DEF ServerLost, Dispatch
  <2>2. CASE ServerEvent(s)
    <3>1. PICK rd, wr, broken, k, moved, cut :
            ServerOnEvents(s, rd, wr, broken, k, moved, cut)
      BY <2>2, Zenon DEF ServerEvent
    <3>2. Dispatch(s) /\ UNCHANGED phase
      BY <3>1, Zenon DEF ServerOnEvents
    <3> QED BY <3>2, AttendedEvents, Zenon DEF Dispatch
  <2> QED BY <1>5, <2>1, <2>2, Zenon
<1>6. ASSUME NEW s \in Servers, CloseRemoved(s) PROVE Attended'
  BY <1>6, Zenon DEF CloseRemoved, Attended, RetriesAttended, Idle
<1>7. ASSUME NEW nm \in Maps, UpdaterDone(nm) PROVE Attended'
  BY <1>7, Zenon DEF UpdaterDone, Attended, RetriesAttended, Idle
<1>8. ASSUME UpdaterFailed PROVE Attended'
  BY <1>8, Zenon DEF UpdaterFailed, Dispatch, Attended, RetriesAttended, Idle
<1> QED BY <1>1, <1>2, <1>3, <1>4, <1>5, <1>6, <1>7, <1>8, Zenon DEF Next

\* Whenever the loop waits, a command in _retrying_commands has an updater at
\* work: handle_events has called _retrieve_slot_map if it had to, whatever
\* closed, redirected or failed in the batch.
THEOREM RetriesNotForgotten == Spec => []RetriesAttended
<1>1. Init => Attended
  BY Zenon DEF Init, Attended, RetriesAttended
<1>2. Attended => RetriesAttended
  BY Zenon DEF Attended
<1> QED BY <1>1, <1>2, AttendedNext, PTL DEF Spec

-----------------------------------------------------------------------------
(***************************************************************************)
(* Where the commands are: one that waits for its response is in one queue *)
(* of one server, or is to be retried.                                     *)
(***************************************************************************)
\* The servers that refer to a command.
Held == [m \in Commands |->
            {s \in Servers : m \in Range(commands[s]) \cup Range(sent[s])}]

\* Command m is in no queue; in _retrying_commands alone; in the _commands of
\* server s alone; in its _sent_commands alone.
Nowhere(m) ==
    /\ m \notin Range(retrying)
    /\ \A t \in Servers : m \notin Range(commands[t]) /\ m \notin Range(sent[t])
Retried(m) ==
    /\ m \in Range(retrying)
    /\ \A t \in Servers : m \notin Range(commands[t]) /\ m \notin Range(sent[t])
Queued(m, s) ==
    /\ m \notin Range(retrying)
    /\ m \in Range(commands[s])
    /\ \A t \in Servers : /\ m \notin Range(sent[t])
                          /\ m \in Range(commands[t]) => t = s
OnItsWay(m, s) ==
    /\ m \notin Range(retrying)
    /\ m \in Range(sent[s])
    /\ \A t \in Servers : /\ m \notin Range(commands[t])
                          /\ m \in Range(sent[t]) => t = s

Placed(m) == Retried(m) \/ \E s \in Servers : Queued(m, s) \/ OnItsWay(m, s)

AllPlaced == \A m \in Commands : IF Pending(m) THEN Placed(m) ELSE Nowhere(m)

AllOnce ==
    /\ Once(retrying, Commands)
    /\ \A s \in Servers : Once(commands[s], Commands) /\ Once(sent[s], Commands)

ClosedBare ==
    \A s \in Servers : ~up[s] => \A m \in Commands : /\ m \notin Range(commands[s])
                                                     /\ m \notin Range(sent[s])

PlaceInv == AllPlaced /\ AllOnce /\ ClosedBare

\* The servers that commands are sent to are servers.
Routable ==
    \A m \in Commands :
        /\ Target(m) \in Servers \cup {Nul}
        /\ MoreSteps(m) => ServerAt(m, stage[m] + 1) \in Servers \cup {Nul}

QueueInv == ServerInv /\ PlaceInv /\ Routable

\* No Client is deleted.
NoneDeleted ==
    \A c \in Clients : client'[c].fd = "deleted" <=> client[c].fd = "deleted"

-----------------------------------------------------------------------------
(***************************************************************************)
(* The steps that leave the queues alone.                                  *)
(***************************************************************************)
\* The queues refer to the same commands.
Same ==
    \A m \in Commands :
        /\ m \in Range(retrying') <=> m \in Range(retrying)
        /\ \A t \in Servers :
            /\ m \in Range(commands'[t]) <=> m \in Range(commands[t])
            /\ m \in Range(sent'[t]) <=> m \in Range(sent[t])

\* The commands stay where they are.
LEMMA SamePlaces ==
    ASSUME AllPlaced, Same, \A m \in Commands : Pending(m)' <=> Pending(m)
    PROVE  AllPlaced' /\ Held' = Held
<1>1. ASSUME NEW m \in Commands
      PROVE  (Placed(m)' <=> Placed(m)) /\ (Nowhere(m)' <=> Nowhere(m))
  BY Zenon DEF Same, Placed, Retried, Queued, OnItsWay, Nowhere
<1>2. AllPlaced'
  BY <1>1, Zenon DEF AllPlaced
<1>3. Held' = Held
  BY Zenon DEF Same, Held
<1> QED BY <1>2, <1>3, Zenon

\* The clients may be opened and closed meanwhile.
LEMMA QuietPlaces ==
    ASSUME PlaceInv, UNCHANGED <<up, commands, sent, retrying, issued, answered>>,
           NoneDeleted
    PROVE  PlaceInv' /\ Held' = Held
<1>1. \A m \in Commands : Owner(m) \in Clients
  BY WorkloadAssumption, Zenon DEF Owner
<1>2. \A m \in Commands : Pending(m)' <=> Pending(m)
  BY <1>1, Zenon DEF Pending, NoneDeleted
<1>3. AllPlaced' /\ Held' = Held
  BY <1>2, SamePlaces, Zenon DEF Same, PlaceInv
<1>4. AllOnce' /\ ClosedBare'
  BY Zenon DEF PlaceInv, AllOnce, ClosedBare
<1> QED BY <1>3, <1>4, Zenon DEF PlaceInv

-----------------------------------------------------------------------------
(***************************************************************************)
(* The steps that move commands between the queues.                        *)
(***************************************************************************)
\* The types of the queues.
LEMMA QueuesTyped ==
    ASSUME QueueInv
    PROVE  /\ retrying \in Seq(Ref) /\ retrying \in Seq(Commands)
           /\ commands \in [Servers -> Seq(Commands)]
           /\ \A s \in Servers : /\ commands[s] \in Seq(Ref)
                                 /\ commands[s] \in Seq(Commands)
           /\ sent \in [Servers -> Seq(Ref)]
           /\ \A s \in Servers : sent[s] \in Seq(Ref)
BY SeqOfRefs, Zenon DEF QueueInv, ServerInv, QueueTypes, StreamTypes

\* A command is in one queue at most.
LEMMA Alone ==
    ASSUME QueueInv, NEW m \in Commands
    PROVE  \A s, t \in Servers :
                /\ ~(m \in Range(retrying) /\ m \in Range(commands[s]))
                /\ ~(m \in Range(retrying) /\ m \in Range(sent[s]))
                /\ ~(m \in Range(commands[s]) /\ m \in Range(sent[t]))
                /\ m \in Range(commands[s]) /\ m \in Range(commands[t]) => s = t
                /\ m \in Range(sent[s]) /\ m \in Range(sent[t]) => s = t
<1>1. Placed(m) \/ Nowhere(m)
  BY Zenon DEF QueueInv, PlaceInv, AllPlaced
<1> QED BY <1>1, Zenon DEF Placed, Nowhere, Retried, Queued, OnItsWay

\* What is to be retried is pending.
LEMMA RetryingPending ==
    ASSUME QueueInv, NEW m \in Range(retrying)
    PROVE  m \in Commands /\ Pending(m)
<1>1. m \in Commands
  BY QueuesTyped, RangeType, Zenon
<1> QED BY <1>1, Zenon DEF QueueInv, PlaceInv, AllPlaced, Nowhere

\* So is what a server refers to.
LEMMA HeldPending ==
    ASSUME QueueInv, NEW s \in Servers, NEW m \in Commands,
           m \in Range(commands[s]) \/ m \in Range(sent[s])
    PROVE  Pending(m)
BY Zenon DEF QueueInv, PlaceInv, AllPlaced, Nowhere

\* close_conn and the two queues of the server: what they referred to is to
\* be retried.
LEMMA ServerLostPlaces ==
    ASSUME QueueInv, NEW s \in Servers, ServerLost(s) \/ CloseRemoved(s)
    PROVE  PlaceInv' /\ \A m \in Commands : Held'[m] \subseteq Held[m]
<1>1. /\ up' = [up EXCEPT ![s] = FALSE]
      /\ sent' = [sent EXCEPT ![s] = <<>>]
      /\ commands' = [commands EXCEPT ![s] = <<>>]
      /\ retrying' = Cat(retrying, Cat(commands[s], Keep(sent[s], Commands)))
      /\ UNCHANGED <<client, groupVars>>
  BY Zenon DEF ServerLost, CloseRemoved, CloseConn, Requeued, Cat
<1> DEFINE q == commands[s]
           r == Keep(sent[s], Commands)
<1>2. /\ retrying \in Seq(Ref) /\ q \in Seq(Ref) /\ sent[s] \in Seq(Ref)
      /\ DOMAIN sent = Servers /\ DOMAIN commands = Servers /\ DOMAIN up = Servers
      /\ q \in Seq(Commands)
  BY QueuesTyped, Zenon DEF QueueInv, ServerInv, StreamTypes
<1>3. r \in Seq(Ref) /\ Range(r) = Range(sent[s]) \cap Commands
  BY <1>2, KeepInto, RangeKeep, Zenon
<1>4. Cat(q, r) \in Seq(Ref)
  BY <1>2, <1>3, CatType, Zenon
<1> HIDE DEF q, r
<1>5. Range(Cat(q, r)) = Range(q) \cup Range(r)
  BY <1>2, <1>3, RangeCat
<1>6. Range(retrying') = Range(retrying) \cup Range(Cat(q, r))
  BY <1>1, <1>2, <1>4, RangeCat DEF q, r
<1>7. /\ Range(commands'[s]) = {} /\ Range(sent'[s]) = {}
      /\ \A t \in Servers \ {s} : commands'[t] = commands[t] /\ sent'[t] = sent[t]
  BY <1>1, <1>2, RangeEmpty, Zenon
<1>8. \A m \in Commands : m \in Range(retrying') <=>
            m \in Range(retrying) \/ m \in Range(commands[s]) \/ m \in Range(sent[s])
  BY <1>3, <1>5, <1>6, Zenon DEF q
<1>9. AllPlaced'
  <2> SUFFICES ASSUME NEW m \in Commands
               PROVE  IF Pending(m)' THEN Placed(m)' ELSE Nowhere(m)'
    BY Zenon DEF AllPlaced
  <2>1. Pending(m)' <=> Pending(m)
    BY <1>1, Zenon DEF Pending, groupVars
  <2>2. Nowhere(m) => Nowhere(m)'
    BY <1>7, <1>8, Zenon DEF Nowhere
  <2>3. Retried(m) => Retried(m)'
    BY <1>7, <1>8, Zenon DEF Retried
  <2>4. ASSUME NEW t \in Servers, Queued(m, t), t # s PROVE Queued(m, t)'
    BY <1>7, <1>8, <2>4, Zenon DEF Queued
  <2>5. ASSUME NEW t \in Servers, OnItsWay(m, t), t # s PROVE OnItsWay(m, t)'
    BY <1>7, <1>8, <2>5, Zenon DEF OnItsWay
  <2>6. ASSUME Queued(m, s) \/ OnItsWay(m, s) PROVE Retried(m)'
    BY <1>7, <1>8, <2>6, Zenon DEF Queued, OnItsWay, Retried
  <2>7. IF Pending(m) THEN Placed(m) ELSE Nowhere(m)
    BY Zenon DEF QueueInv, PlaceInv, AllPlaced
  <2>8. Placed(m) => Placed(m)'
    BY <2>3, <2>4, <2>5, <2>6, Zenon DEF Placed
  <2> QED BY <2>1, <2>2, <2>7, <2>8, Zenon
<1>10. AllOnce'
  <2>1. /\ Once(retrying, Commands) /\ Once(q, Commands) /\ Once(sent[s], Commands)
        /\ \A t \in Servers : Once(commands[t], Commands) /\ Once(sent[t], Commands)
    BY Zenon DEF QueueInv, PlaceInv, AllOnce, q
  <2>2. Once(r, Commands)
    BY <1>2, <2>1, OnceKeep, Zenon DEF r
  <2>3. \A m \in Commands : /\ ~(m \in Range(q) /\ m \in Range(r))
                            /\ ~(m \in Range(retrying) /\ m \in Range(q))
                            /\ ~(m \in Range(retrying) /\ m \in Range(r))
    BY <1>3, Alone, Zenon DEF q
  <2>4. Once(Cat(q, r), Commands)
    BY <1>2, <1>3, <2>1, <2>2, <2>3, OnceCat, Zenon
  <2>5. Range(retrying) \cap Range(Cat(q, r)) \cap Commands = {}
    BY <1>5, <2>3, Zenon
  <2>6. Once(retrying', Commands)
    BY <1>1, <1>2, <1>4, <2>1, <2>4, <2>5, OnceCat, Zenon DEF q, r
  <2>7. Once(<<>>, Commands)
    BY DEF Once
  <2>8. \A t \in Servers : Once(commands'[t], Commands) /\ Once(sent'[t], Commands)
    BY <1>1, <1>2, <2>1, <2>7, Zenon
  <2> QED BY <2>6, <2>8, Zenon DEF AllOnce
<1>11. ClosedBare'
  BY <1>1, <1>2, <1>7, Zenon DEF QueueInv, PlaceInv, ClosedBare
<1>12. \A m \in Commands : Held'[m] \subseteq Held[m]
  BY <1>7, Zenon DEF Held
<1> QED BY <1>9, <1>10, <1>11, <1>12, Zenon DEF PlaceInv

\* Routing the commands of q.
LEMMA RoutedAre ==
    ASSUME QueueInv, NEW q \in Seq(Ref), NEW To, DOMAIN To \subseteq Commands
    PROVE  /\ \A s \in Servers : \A m \in Commands :
                m \in Range(Routed(q, To)[s]) <=>
                    \/ m \in Range(commands[s])
                    \/ m \in Range(q) /\ m \in DOMAIN To /\ To[m] = s
           /\ \A m \in Commands :
                m \in Range(Unrouted(q, To)) <=>
                    m \in Range(q) /\ m \in DOMAIN To /\ To[m] = Nul
<1>1. ASSUME NEW x
      PROVE  /\ Keep(q, {m \in DOMAIN To : To[m] = x}) \in Seq(Ref)
             /\ Range(Keep(q, {m \in DOMAIN To : To[m] = x}))
                    = Range(q) \cap {m \in DOMAIN To : To[m] = x}
  <2> DEFINE S == {m \in DOMAIN To : To[m] = x}
  <2> HIDE DEF S
  <2>1. Keep(q, S) \in Seq(Ref) /\ Range(Keep(q, S)) = Range(q) \cap S
    BY KeepInto, RangeKeep, Zenon
  <2> QED BY <2>1, Zenon DEF S
<1>2. ASSUME NEW s \in Servers
      PROVE  Range(Routed(q, To)[s]) =
                Range(commands[s]) \cup (Range(q) \cap {m \in DOMAIN To : To[m] = s})
  <2> DEFINE k == Keep(q, {m \in DOMAIN To : To[m] = s})
  <2>1. commands[s] \in Seq(Ref) /\ k \in Seq(Ref)
    BY <1>1, QueuesTyped, Zenon
  <2>2. Routed(q, To)[s] = Cat(commands[s], k)
    BY Zenon DEF Routed, Cat
  <2> HIDE DEF k
  <2>3. Range(Routed(q, To)[s]) = Range(commands[s]) \cup Range(k)
    BY <2>1, <2>2, RangeCat
  <2> QED BY <1>1, <2>3, Zenon DEF k
<1>3. Range(Unrouted(q, To)) = Range(q) \cap {m \in DOMAIN To : To[m] = Nul}
  BY <1>1, Zenon DEF Unrouted
<1> QED BY <1>2, <1>3

\* Commands that no server has are not repeated by routing them.
LEMMA RoutedOnce ==
    ASSUME QueueInv, NEW q \in Seq(Ref), NEW To, Once(q, Commands),
           \A s \in Servers : \A m \in Commands :
                ~(m \in Range(commands[s]) /\ m \in Range(q))
    PROVE  /\ \A s \in Servers : Once(Routed(q, To)[s], Commands)
           /\ Once(Unrouted(q, To), Commands)
<1>1. ASSUME NEW S
      PROVE  /\ Keep(q, S) \in Seq(Ref) /\ Range(Keep(q, S)) \subseteq Range(q)
             /\ Once(Keep(q, S), Commands)
  <2>1. Keep(q, S) \in Seq(Ref) /\ Range(Keep(q, S)) = Range(q) \cap S
    BY KeepInto, RangeKeep, Zenon
  <2>2. Once(Keep(q, S), Commands)
    BY OnceKeep, Zenon
  <2> QED BY <2>1, <2>2, Zenon
<1>2. ASSUME NEW s \in Servers PROVE Once(Routed(q, To)[s], Commands)
  <2> DEFINE k == Keep(q, {m \in DOMAIN To : To[m] = s})
  <2>1. Routed(q, To)[s] = Cat(commands[s], k)
    BY Zenon DEF Routed, Cat
  <2>2. k \in Seq(Ref) /\ Range(k) \subseteq Range(q) /\ Once(k, Commands)
    BY <1>1, Zenon
  <2> HIDE DEF k
  <2>3. commands[s] \in Seq(Ref) /\ Once(commands[s], Commands)
    BY QueuesTyped, Zenon DEF QueueInv, PlaceInv, AllOnce
  <2>4. Range(commands[s]) \cap Range(k) \cap Commands = {}
    BY <2>2, Zenon
  <2> QED BY <2>1, <2>2, <2>3, <2>4, OnceCat, Zenon
<1>3. Once(Unrouted(q, To), Commands)
  BY <1>1, Zenon DEF Unrouted
<1> QED BY <1>2, <1>3, Zenon

\* The server of a command is connected.
LEMMA TargetUp ==
    ASSUME NEW m, NEW n, ServerAt(m, n) # Nul PROVE up[ServerAt(m, n)]
BY Zenon DEF ServerAt

\* _set_slot_map sends the commands to retry on their way.
LEMMA SetSlotMapPlaces ==
    ASSUME QueueInv, SetSlotMap, NoneDeleted
    PROVE  LET To == [m \in Range(retrying) |-> Target(m)]
           IN  /\ PlaceInv'
               /\ \A m \in Commands : Held'[m] \subseteq
                    Held[m] \cup ({To[x] : x \in {m} \cap DOMAIN To} \ {Nul})
<1> DEFINE To == [m \in Range(retrying) |-> Target(m)]
<1>1. /\ commands' = Routed(retrying, To) /\ retrying' = Unrouted(retrying, To)
      /\ UNCHANGED <<up, sent, groupVars>>
  BY Zenon DEF SetSlotMap
<1>2. retrying \in Seq(Ref) /\ Range(retrying) \subseteq Commands
  BY QueuesTyped, RangeType, Zenon
<1>3. \A m \in DOMAIN To : To[m] \in Servers \cup {Nul}
  BY <1>2, Zenon DEF QueueInv, Routable
<1>4. \A m \in DOMAIN To : To[m] # Nul => up[To[m]]
  BY TargetUp, Zenon DEF Target
<1>5. DOMAIN To = Range(retrying) /\ Nul \notin Servers
  BY WorkloadAssumption, Zenon
<1> HIDE DEF To
<1>6. \A m \in Commands :
        /\ \A s \in Servers : m \in Range(commands'[s]) <=>
                \/ m \in Range(commands[s])
                \/ m \in Range(retrying) /\ To[m] = s
        /\ m \in Range(retrying') <=> m \in Range(retrying) /\ To[m] = Nul
  BY <1>1, <1>2, <1>5, RoutedAre
<1>7. AllPlaced'
  <2> SUFFICES ASSUME NEW m \in Commands
               PROVE  IF Pending(m)' THEN Placed(m)' ELSE Nowhere(m)'
    BY Zenon DEF AllPlaced
  <2>1. Pending(m)' <=> Pending(m)
    <3>1. Owner(m) \in Clients
      BY WorkloadAssumption, Zenon DEF Owner
    <3> QED BY <1>1, <3>1, Zenon DEF Pending, groupVars, NoneDeleted
  <2>2. sent' = sent
    BY <1>1, Zenon
  <2>3. Nowhere(m) => Nowhere(m)'
    BY <1>6, <2>2, Zenon DEF Nowhere
  <2>4. ASSUME Retried(m) PROVE Placed(m)'
    <3>1. CASE To[m] = Nul
      BY <1>5, <1>6, <2>2, <2>4, <3>1 DEF Retried, Placed
    <3>2. CASE To[m] # Nul
      <4>1. PICK s \in Servers : s = To[m]
        BY <1>3, <1>5, <2>4, <3>2, Zenon DEF Retried
      <4>2. Queued(m, s)'
        BY <1>6, <2>2, <2>4, <3>2, <4>1, Zenon DEF Retried, Queued
      <4> QED BY <4>1, <4>2, Zenon DEF Placed
    <3> QED BY <3>1, <3>2, Zenon
  <2>5. ASSUME NEW s \in Servers PROVE Queued(m, s) => Queued(m, s)'
    BY <1>6, <2>2, Zenon DEF Queued
  <2>6. ASSUME NEW s \in Servers PROVE OnItsWay(m, s) => OnItsWay(m, s)'
    BY <1>6, <2>2, Zenon DEF OnItsWay
  <2>7. IF Pending(m) THEN Placed(m) ELSE Nowhere(m)
    BY Zenon DEF QueueInv, PlaceInv, AllPlaced
  <2>8. Placed(m) => Placed(m)'
    BY <2>4, <2>5, <2>6, Zenon DEF Placed
  <2> QED BY <2>1, <2>3, <2>7, <2>8, Zenon
<1>8. AllOnce'
  <2>1. Once(retrying, Commands) /\ \A s \in Servers : Once(sent[s], Commands)
    BY Zenon DEF QueueInv, PlaceInv, AllOnce
  <2>2. \A s \in Servers : \A m \in Commands :
            ~(m \in Range(commands[s]) /\ m \in Range(retrying))
    BY Alone, Zenon
  <2> QED BY <1>1, <1>2, <2>1, <2>2, RoutedOnce, Zenon DEF AllOnce
<1>9. ClosedBare'
  <2> SUFFICES ASSUME NEW s \in Servers, ~up[s], NEW m \in Commands
               PROVE  m \notin Range(commands'[s]) /\ m \notin Range(sent[s])
    BY <1>1, Zenon DEF ClosedBare
  <2>1. m \notin Range(commands[s]) /\ m \notin Range(sent[s])
    BY Zenon DEF QueueInv, PlaceInv, ClosedBare
  <2>2. ~(m \in Range(retrying) /\ To[m] = s)
    BY <1>4, <1>5, Zenon
  <2> QED BY <1>6, <2>1, <2>2, Zenon
<1>10. ASSUME NEW m \in Commands
       PROVE  Held'[m] \subseteq
                Held[m] \cup ({To[x] : x \in {m} \cap DOMAIN To} \ {Nul})
  <2> SUFFICES ASSUME NEW s \in Held'[m], s \notin Held[m]
               PROVE  s \in {To[x] : x \in {m} \cap DOMAIN To} \ {Nul}
    OBVIOUS
  <2>1. s \in Servers /\ m \in Range(commands'[s]) /\ m \notin Range(commands[s])
    BY <1>1, Zenon DEF Held
  <2>2. m \in DOMAIN To /\ To[m] = s /\ s # Nul
    BY <1>5, <1>6, <2>1, Zenon
  <2> QED BY <2>2, Zenon
<1> QED BY <1>7, <1>8, <1>9, <1>10, Zenon DEF PlaceInv, To

\* _update_slot_map_failed answers the commands to retry.
LEMMA DiscardPlaces ==
    ASSUME QueueInv, Discard, NoneDeleted PROVE PlaceInv' /\ Held' = Held
<1> DEFINE B == Range(retrying)
<1>1. /\ CountResponses(B) /\ retrying' = <<>>
      /\ UNCHANGED <<up, commands, sent, issued>>
  BY Zenon DEF Discard
<1>2. answered' = answered \cup B
  BY <1>1, Zenon DEF CountResponses
<1>3. Range(retrying') = {}
  BY <1>1, RangeEmpty, Zenon
<1>4. AllPlaced'
  <2> SUFFICES ASSUME NEW m \in Commands
               PROVE  IF Pending(m)' THEN Placed(m)' ELSE Nowhere(m)'
    BY Zenon DEF AllPlaced
  <2>1. Owner(m) \in Clients
    BY WorkloadAssumption, Zenon DEF Owner
  <2>2. Pending(m)' <=> Pending(m) /\ m \notin B
    BY <1>1, <1>2, <2>1, Zenon DEF Pending, NoneDeleted
  <2>3. IF Pending(m) THEN Placed(m) ELSE Nowhere(m)
    BY Zenon DEF QueueInv, PlaceInv, AllPlaced
  <2>4. commands' = commands /\ sent' = sent /\ m \notin Range(retrying')
    BY <1>1, <1>3, Zenon
  <2>5. Nowhere(m) \/ Retried(m) => Nowhere(m)'
    BY <2>4, Zenon DEF Nowhere, Retried
  <2>6. \A s \in Servers : /\ Queued(m, s) => Queued(m, s)'
                           /\ OnItsWay(m, s) => OnItsWay(m, s)'
    BY <2>4, Zenon DEF Queued, OnItsWay
  <2>7. (Retried(m) => m \in B) /\ (Nowhere(m) => m \notin B)
        /\ \A s \in Servers : Queued(m, s) \/ OnItsWay(m, s) => m \notin B
    BY Zenon DEF Retried, Nowhere, Queued, OnItsWay
  <2> HIDE DEF B
  <2> QED BY <2>2, <2>3, <2>5, <2>6, <2>7, Zenon DEF Placed
<1>5. AllOnce' /\ ClosedBare'
  <2>1. Once(<<>>, Commands)
    BY DEF Once
  <2> QED BY <1>1, <2>1, Zenon DEF QueueInv, PlaceInv, AllOnce, ClosedBare
<1>6. Held' = Held
  BY <1>1, Zenon DEF Held
<1> QED BY <1>4, <1>5, <1>6, Zenon DEF PlaceInv

\* A new connection refers to no command.
LEMMA UpdaterDonePlaces ==
    ASSUME QueueInv, NEW nm \in Maps, UpdaterDone(nm)
    PROVE  PlaceInv' /\ Held' = Held
<1> DEFINE new == ToConnect(nm)
<1>1. /\ up' = [s \in Servers |-> up[s] \/ s \in new]
      /\ sent' = [s \in Servers |-> IF s \in new THEN ReadonlyRef ELSE sent[s]]
      /\ UNCHANGED <<client, commands, retrying, groupVars>>
  BY Zenon DEF UpdaterDone
<1>2. \A s \in new : ~up[s]
  BY Zenon DEF ToConnect
<1> HIDE DEF new
<1>3. \A m \in Commands : m \notin Range(ReadonlyRef)
  BY WorkloadAssumption DEF ReadonlyRef, Range
<1>4. ASSUME NEW s \in Servers, NEW m \in Commands
      PROVE  m \in Range(sent'[s]) <=> m \in Range(sent[s])
  <2>1. CASE s \in new
    <3>1. m \notin Range(sent[s])
      BY <1>2, <2>1, Zenon DEF QueueInv, PlaceInv, ClosedBare
    <3> QED BY <1>1, <1>3, <2>1, <3>1, Zenon
  <2>2. CASE s \notin new
    BY <1>1, <2>2, Zenon
  <2> QED BY <2>1, <2>2, Zenon
<1>5. Same
  BY <1>1, <1>4, Zenon DEF Same
<1>6. \A m \in Commands : Pending(m)' <=> Pending(m)
  BY <1>1, Zenon DEF Pending, groupVars
<1>7. AllPlaced' /\ Held' = Held
  BY <1>5, <1>6, SamePlaces, Zenon DEF QueueInv, PlaceInv
<1>8. AllOnce'
  <2>1. Once(ReadonlyRef, Commands)
    BY DEF ReadonlyRef, Once
  <2> QED BY <1>1, <2>1, Zenon DEF QueueInv, PlaceInv, AllOnce
<1>9. ClosedBare'
  BY <1>1, <1>4, Zenon DEF QueueInv, PlaceInv, ClosedBare
<1> QED BY <1>7, <1>8, <1>9, Zenon DEF PlaceInv

\* The null references keep the places of the others.
LEMMA NulledAre ==
    ASSUME NEW s \in Servers, sent[s] \in Seq(Ref), NEW gone
    PROVE  /\ \A m \in Commands : m \in Range(SentNulled(s, gone)) <=>
                    m \in Range(sent[s]) /\ m \notin HeldFor(s, gone)
           /\ Once(sent[s], Commands) => Once(SentNulled(s, gone), Commands)
<1> DEFINE q == sent[s]
           n == SentNulled(s, gone)
           S == HeldFor(s, gone)
<1>1. /\ DOMAIN n = DOMAIN q
      /\ \A i \in DOMAIN q : n[i] = IF q[i] \in S THEN Nul ELSE q[i]
  BY Zenon DEF SentNulled
<1>2. Nul \notin Commands
  BY WorkloadAssumption, Zenon
<1> HIDE DEF q, n, S
<1>3. \A m \in Commands : m \in Range(n) <=> m \in Range(q) /\ m \notin S
  BY <1>1, <1>2, Zenon DEF Range
<1>4. Once(q, Commands) => Once(n, Commands)
  BY <1>1, <1>2, Zenon DEF Once
<1> QED BY <1>3, <1>4, Zenon DEF q, n, S

\* The end of a batch: the Clients that are deleted take their commands back.
LEMMA EndBatchPlaces ==
    ASSUME QueueInv, EndBatch,
           \A c \in Clients : client'[c].fd = "deleted" <=>
                \/ c \in active /\ client[c].fd = "closed"
                \/ client[c].fd = "deleted",
           \A m \in Commands : Pending(m) => Held[m] \subseteq client[Owner(m)].peers
    PROVE  PlaceInv' /\ \A m \in Commands : Held'[m] \subseteq Held[m]
<1> DEFINE gone == {c \in active \cap Clients : client[c].fd = "closed"}
<1>1. /\ commands' = [s \in Servers |->
                          Keep(commands[s], Commands \ HeldFor(s, gone))]
      /\ sent' = [s \in Servers |-> SentNulled(s, gone)]
      /\ retrying' = Keep(retrying, {m \in Commands : Owner(m) \notin gone})
      /\ UNCHANGED <<up, groupVars>>
  BY Zenon DEF EndBatch, RetriesKept
<1>2. \A c \in Clients :
        client'[c].fd = "deleted" <=> c \in gone \/ client[c].fd = "deleted"
  OBVIOUS
<1> HIDE DEF gone
<1>3. ASSUME NEW m \in Commands
      PROVE  /\ m \in Range(retrying') <=> m \in Range(retrying) /\ Owner(m) \notin gone
             /\ \A s \in Servers :
                 /\ m \in Range(commands'[s]) <=>
                        m \in Range(commands[s]) /\ m \notin HeldFor(s, gone)
                 /\ m \in Range(sent'[s]) <=>
                        m \in Range(sent[s]) /\ m \notin HeldFor(s, gone)
  <2>1. Range(retrying') = Range(retrying) \cap {x \in Commands : Owner(x) \notin gone}
    BY <1>1, QueuesTyped, RangeKeep, Zenon
  <2>2. ASSUME NEW s \in Servers
        PROVE  Range(commands'[s]) = Range(commands[s]) \cap (Commands \ HeldFor(s, gone))
    <3>1. commands[s] \in Seq(Ref)
      BY QueuesTyped, Zenon
    <3> QED BY <1>1, <3>1, RangeKeep, Zenon
  <2>3. ASSUME NEW s \in Servers
        PROVE  m \in Range(sent'[s]) <=> m \in Range(sent[s]) /\ m \notin HeldFor(s, gone)
    <3>1. sent[s] \in Seq(Ref)
      BY QueuesTyped, Zenon
    <3> QED BY <1>1, <3>1, NulledAre, Zenon
  <2> QED BY <2>1, <2>2, <2>3, Zenon
<1>4. ASSUME NEW m \in Commands, Owner(m) \notin gone, NEW s \in Servers
      PROVE  m \notin HeldFor(s, gone)
  BY <1>4, Zenon DEF HeldFor
<1>5. ASSUME NEW m \in Commands, Owner(m) \in gone PROVE Nowhere(m)'
  <2>1. m \notin Range(retrying')
    BY <1>3, <1>5, Zenon
  <2>2. ASSUME NEW s \in Servers, m \in Range(commands[s]) \/ m \in Range(sent[s])
        PROVE  m \in HeldFor(s, gone)
    <3>1. Pending(m)
      BY <2>2, HeldPending, Zenon
    <3>2. s \in Held[m]
      BY <2>2, Zenon DEF Held
    <3>3. s \in client[Owner(m)].peers
      BY <3>1, <3>2, Zenon
    <3> QED BY <1>5, <3>3, Zenon DEF HeldFor
  <2> QED BY <1>3, <2>1, <2>2, Zenon DEF Nowhere
<1>6. ASSUME NEW m \in Commands
      PROVE  Pending(m)' <=> Pending(m) /\ Owner(m) \notin gone
  <2>1. Owner(m) \in Clients
    BY WorkloadAssumption, Zenon DEF Owner
  <2> QED BY <1>1, <1>2, <2>1, Zenon DEF Pending, groupVars
<1>7. AllPlaced'
  <2> SUFFICES ASSUME NEW m \in Commands
               PROVE  IF Pending(m)' THEN Placed(m)' ELSE Nowhere(m)'
    BY Zenon DEF AllPlaced
  <2>1. CASE Owner(m) \in gone
    BY <1>5, <1>6, <2>1, Zenon
  <2>2. CASE Owner(m) \notin gone
    <3>1. /\ m \in Range(retrying') <=> m \in Range(retrying)
          /\ \A s \in Servers : /\ m \in Range(commands'[s]) <=> m \in Range(commands[s])
                                /\ m \in Range(sent'[s]) <=> m \in Range(sent[s])
      BY <1>3, <1>4, <2>2, Zenon
    <3>2. (Placed(m)' <=> Placed(m)) /\ (Nowhere(m)' <=> Nowhere(m))
      BY <3>1, Zenon DEF Placed, Retried, Queued, OnItsWay, Nowhere
    <3>3. IF Pending(m) THEN Placed(m) ELSE Nowhere(m)
      BY Zenon DEF QueueInv, PlaceInv, AllPlaced
    <3> QED BY <1>6, <2>2, <3>2, <3>3, Zenon
  <2> QED BY <2>1, <2>2, Zenon
<1>8. AllOnce'
  <2>1. Once(retrying, Commands)
    BY Zenon DEF QueueInv, PlaceInv, AllOnce
  <2>2. Once(retrying', Commands)
    BY <1>1, <2>1, QueuesTyped, OnceKeep, Zenon
  <2>3. ASSUME NEW s \in Servers
        PROVE  Once(commands'[s], Commands) /\ Once(sent'[s], Commands)
    <3>1. /\ commands[s] \in Seq(Ref) /\ sent[s] \in Seq(Ref)
          /\ Once(commands[s], Commands) /\ Once(sent[s], Commands)
      BY QueuesTyped, Zenon DEF QueueInv, PlaceInv, AllOnce
    <3>2. Once(commands'[s], Commands)
      BY <1>1, <3>1, OnceKeep, Zenon
    <3>3. Once(sent'[s], Commands)
      BY <1>1, <3>1, NulledAre, Zenon
    <3> QED BY <3>2, <3>3, Zenon
  <2> QED BY <2>2, <2>3, Zenon DEF AllOnce
<1>9. ClosedBare'
  BY <1>1, <1>3, Zenon DEF QueueInv, PlaceInv, ClosedBare
<1>10. \A m \in Commands : Held'[m] \subseteq Held[m]
  BY <1>3, Zenon DEF Held
<1> QED BY <1>7, <1>8, <1>9, <1>10, Zenon DEF PlaceInv

-----------------------------------------------------------------------------
(***************************************************************************)
(* What the invariant of the places says.                                  *)
(***************************************************************************)
\* The places of a command, one by one.
LEMMA PlacesAre ==
    ASSUME NEW m, NEW x
    PROVE  x \in Places(m) <=>
            \/ \E s \in Servers : \E i \in DOMAIN commands[s] :
                    commands[s][i] = m /\ x = <<"commands", s, i>>
            \/ \E s \in Servers : \E i \in DOMAIN sent[s] :
                    sent[s][i] = m /\ x = <<"sent", s, i>>
            \/ \E i \in DOMAIN retrying :
                    retrying[i] = m /\ x = <<"retrying", Nul, i>>
<1> DEFINE R == {<<"retrying", Nul, i>> : i \in {n \in DOMAIN retrying :
                                                    retrying[n] = m}}
           C(s) == {<<"commands", s, i>> : i \in {n \in DOMAIN commands[s] :
                                                    commands[s][n] = m}}
           S(s) == {<<"sent", s, i>> : i \in {n \in DOMAIN sent[s] :
                                                    sent[s][n] = m}}
<1>1. Places(m) = R \cup (UNION {C(s) : s \in Servers})
                    \cup (UNION {S(s) : s \in Servers})
  BY Zenon DEF Places
<1>2. x \in R <=> \E i \in DOMAIN retrying :
                        retrying[i] = m /\ x = <<"retrying", Nul, i>>
  BY Zenon
<1>3. ASSUME NEW s
      PROVE  /\ x \in C(s) <=> \E i \in DOMAIN commands[s] :
                        commands[s][i] = m /\ x = <<"commands", s, i>>
             /\ x \in S(s) <=> \E i \in DOMAIN sent[s] :
                        sent[s][i] = m /\ x = <<"sent", s, i>>
  BY Zenon
<1> HIDE DEF R, C, S
<1>4. x \in Places(m) <=> \/ \E s \in Servers : x \in C(s)
                          \/ \E s \in Servers : x \in S(s)
                          \/ x \in R
  BY <1>1, Zenon
<1> QED BY <1>2, <1>3, <1>4, Zenon

\* A command is in one place, if it waits, and in none otherwise.
LEMMA InvOnePlace == PlaceInv => OnePlace
<1> SUFFICES ASSUME PlaceInv, NEW m \in Commands
             PROVE  Cardinality(Places(m)) = IF Pending(m) THEN 1 ELSE 0
  BY Zenon DEF OnePlace
<1>1. /\ Once(retrying, Commands)
      /\ \A s \in Servers : Once(commands[s], Commands) /\ Once(sent[s], Commands)
      /\ IF Pending(m) THEN Placed(m) ELSE Nowhere(m)
  BY Zenon DEF PlaceInv, AllPlaced, AllOnce
<1>2. ASSUME Nowhere(m) PROVE Cardinality(Places(m)) = 0
  <2>1. ASSUME NEW x \in Places(m) PROVE FALSE
    BY <1>2, <2>1, PlacesAre DEF Nowhere, Range
  <2>2. Places(m) = {}
    BY <2>1, Zenon
  <2> QED BY <2>2, FS_EmptySet, Zenon
<1>3. ASSUME NEW x, x \in Places(m), \A y \in Places(m) : y = x
      PROVE  Cardinality(Places(m)) = 1
  <2>1. Places(m) = {x}
    BY <1>3, Zenon
  <2> QED BY <2>1, FS_Singleton, Zenon
<1>4. ASSUME Retried(m) PROVE Cardinality(Places(m)) = 1
  <2>1. PICK i \in DOMAIN retrying : retrying[i] = m
    BY <1>4, Zenon DEF Retried, Range
  <2>2. \A j \in DOMAIN retrying : retrying[j] = m => j = i
    BY <1>1, <2>1, Zenon DEF Once
  <2>3. \A s \in Servers : /\ \A j \in DOMAIN commands[s] : commands[s][j] # m
                           /\ \A j \in DOMAIN sent[s] : sent[s][j] # m
    BY <1>4, Zenon DEF Retried, Range
  <2> DEFINE x == <<"retrying", Nul, i>>
  <2>4. x \in Places(m)
    BY <2>1, PlacesAre, Zenon
  <2>5. \A y \in Places(m) : y = x
    BY <2>2, <2>3, PlacesAre
  <2> HIDE DEF x
  <2> QED BY <1>3, <2>4, <2>5, Zenon
<1>5. ASSUME NEW s \in Servers, Queued(m, s) PROVE Cardinality(Places(m)) = 1
  <2>1. PICK i \in DOMAIN commands[s] : commands[s][i] = m
    BY <1>5, Zenon DEF Queued, Range
  <2>2. \A j \in DOMAIN commands[s] : commands[s][j] = m => j = i
    BY <1>1, <2>1, Zenon DEF Once
  <2>3. /\ \A j \in DOMAIN retrying : retrying[j] # m
        /\ \A t \in Servers :
            /\ \A j \in DOMAIN commands[t] : commands[t][j] = m => t = s
            /\ \A j \in DOMAIN sent[t] : sent[t][j] # m
    BY <1>5, Zenon DEF Queued, Range
  <2> DEFINE x == <<"commands", s, i>>
  <2>4. x \in Places(m)
    BY <2>1, PlacesAre, Zenon
  <2>5. \A y \in Places(m) : y = x
    BY <2>2, <2>3, PlacesAre, Zenon
  <2> HIDE DEF x
  <2> QED BY <1>3, <2>4, <2>5, Zenon
<1>6. ASSUME NEW s \in Servers, OnItsWay(m, s) PROVE Cardinality(Places(m)) = 1
  <2>1. PICK i \in DOMAIN sent[s] : sent[s][i] = m
    BY <1>6, Zenon DEF OnItsWay, Range
  <2>2. \A j \in DOMAIN sent[s] : sent[s][j] = m => j = i
    BY <1>1, <2>1, Zenon DEF Once
  <2>3. /\ \A j \in DOMAIN retrying : retrying[j] # m
        /\ \A t \in Servers :
            /\ \A j \in DOMAIN commands[t] : commands[t][j] # m
            /\ \A j \in DOMAIN sent[t] : sent[t][j] = m => t = s
    BY <1>6, Zenon DEF OnItsWay, Range
  <2> DEFINE x == <<"sent", s, i>>
  <2>4. x \in Places(m)
    BY <2>1, PlacesAre, Zenon
  <2>5. \A y \in Places(m) : y = x
    BY <2>2, <2>3, PlacesAre, Zenon
  <2> HIDE DEF x
  <2> QED BY <1>3, <2>4, <2>5, Zenon
<1> QED BY <1>1, <1>2, <1>4, <1>5, <1>6, Zenon DEF Placed

\* No queue refers to a command at first.
LEMMA PlacesInit == Init => PlaceInv
<1> SUFFICES ASSUME Init PROVE PlaceInv
  OBVIOUS
<1>1. /\ up = [s \in Servers |-> FALSE]
      /\ commands = [s \in Servers |-> <<>>] /\ sent = [s \in Servers |-> <<>>]
      /\ retrying = <<>> /\ issued = {} /\ answered = {}
  BY Zenon DEF Init
<1>2. Range(<<>>) = {} /\ Once(<<>>, Commands)
  BY RangeEmpty DEF Once
<1> QED BY <1>1, <1>2, Zenon DEF PlaceInv, AllPlaced, AllOnce, ClosedBare, Pending, Nowhere

-----------------------------------------------------------------------------
(***************************************************************************)
(* The events of a client.                                                 *)
(***************************************************************************)
\* The commands that a Client enters when it goes from cl to h.
NewOf(cl, h) ==
    {m \in Commands : GroupOf[m] \in Range(h.awaiting) \ Range(cl.awaiting)}

\* Client::on_events hands the commands of the new groups to select_remote.
LEMMA IssuePlaces ==
    ASSUME QueueInv, NEW c \in Clients, NEW h, Issue(c, h),
           UNCHANGED <<up, sent, answered>>,
           client[c].fd # "deleted", client'[c].fd # "deleted",
           \A d \in Clients \ {c} : client'[d] = client[d],
           \A m \in NewOf(client[c], h) : m \notin issued \cup answered /\ Owner(m) = c
    PROVE  LET new == NewOf(client[c], h)
           IN  /\ PlaceInv'
               /\ issued' = issued \cup new
               /\ \A m \in Commands :
                    Held'[m] = Held[m] \cup {s \in Servers : m \in new /\ Target(m) = s}
<1> DEFINE new == NewOf(client[c], h)
           q == Keep(Script[c], new)
           To == [m \in new |-> Target(m)]
<1>1. /\ commands' = Routed(q, To)
      /\ retrying' = Cat(retrying, Unrouted(q, To))
      /\ issued' = issued \cup new
  BY Zenon DEF Issue, NewOf, Cat
<1>2. new \subseteq Commands /\ DOMAIN To = new /\ Nul \notin Servers
  BY WorkloadAssumption, Zenon DEF NewOf
<1>3. \A m \in new : /\ To[m] \in Servers \cup {Nul}
                     /\ To[m] # Nul => up[To[m]]
                     /\ To[m] = Target(m)
  BY <1>2, TargetUp, Zenon DEF Target, QueueInv, Routable
<1> HIDE DEF To
<1>4. q \in Seq(Ref) /\ Range(q) = new /\ Once(q, Commands)
  <2>1. Script[c] \in Seq(Commands) /\ Script[c] \in Seq(Ref)
    BY SeqOfRefs, WorkloadAssumption, Zenon
  <2>2. new \subseteq Range(Script[c])
    BY <1>2, WorkloadAssumption DEF Owner
  <2>3. Once(Script[c], Commands)
    BY WorkloadAssumption, Zenon DEF NoRepeat, Once
  <2> HIDE DEF new
  <2>4. q \in Seq(Ref) /\ Range(q) = Range(Script[c]) \cap new
    BY <2>1, KeepInto, RangeKeep, Zenon
  <2>5. Once(q, Commands)
    BY <2>1, <2>3, OnceKeep, Zenon
  <2> QED BY <2>2, <2>4, <2>5, Zenon
<1> HIDE DEF new, q
<1>5. \A m \in new : m \notin issued /\ m \notin answered /\ Owner(m) = c
  BY Zenon DEF new
<1>6. \A m \in new : ~Pending(m) /\ Nowhere(m)
  BY <1>2, <1>5, Zenon DEF QueueInv, PlaceInv, AllPlaced, Pending
<1>7. Unrouted(q, To) \in Seq(Ref) /\ retrying \in Seq(Ref)
  BY <1>4, QueuesTyped, KeepInto, Zenon DEF Unrouted
<1>8. ASSUME NEW m \in Commands
       PROVE  /\ \A s \in Servers : m \in Range(commands'[s]) <=>
                    \/ m \in Range(commands[s])
                    \/ m \in new /\ To[m] = s
              /\ m \in Range(retrying') <=>
                    m \in Range(retrying) \/ (m \in new /\ To[m] = Nul)
  <2> DEFINE isFor(x) == m \in Range(q) /\ m \in DOMAIN To /\ To[m] = x
  <2>1. q \in Seq(Ref) /\ DOMAIN To \subseteq Commands
    BY <1>2, <1>4, Zenon
  <2>2. \A x : isFor(x) <=> m \in new /\ To[m] = x
    BY <1>2, <1>4, Zenon
  <2>3. /\ \A s \in Servers : m \in Range(Routed(q, To)[s]) <=>
                                m \in Range(commands[s]) \/ isFor(s)
        /\ m \in Range(Unrouted(q, To)) <=> isFor(Nul)
    BY <2>1, RoutedAre
  <2> HIDE DEF isFor
  <2>4. \A s \in Servers : m \in Range(commands'[s]) <=>
                    \/ m \in Range(commands[s])
                    \/ m \in new /\ To[m] = s
    BY <1>1, <2>2, <2>3, Zenon
  <2>5. m \in Range(Unrouted(q, To)) <=> m \in new /\ To[m] = Nul
    BY <2>2, <2>3, Zenon
  <2>6. Range(retrying') = Range(retrying) \cup Range(Unrouted(q, To))
    BY <1>1, <1>7, RangeCat
  <2> QED BY <2>4, <2>5, <2>6, Zenon
<1>9. AllPlaced'
  <2> SUFFICES ASSUME NEW m \in Commands
               PROVE  IF Pending(m)' THEN Placed(m)' ELSE Nowhere(m)'
    BY Zenon DEF AllPlaced
  <2>1. sent' = sent
    OBVIOUS
  <2>2. CASE m \in new
    <3>1. Nowhere(m)
      BY <1>6, <2>2, Zenon
    <3>2. Pending(m)'
      BY <1>1, <1>5, <2>2, Zenon DEF Pending
    <3>3. ASSUME To[m] = Nul PROVE Retried(m)'
      BY <1>2, <1>8, <2>1, <2>2, <3>1, <3>3 DEF Nowhere, Retried
    <3>4. ASSUME To[m] # Nul PROVE \E s \in Servers : Queued(m, s)'
      <4>1. PICK s \in Servers : s = To[m]
        BY <1>3, <2>2, <3>4, Zenon
      <4>2. Queued(m, s)'
        BY <1>8, <2>1, <2>2, <3>1, <3>4, <4>1, Zenon DEF Nowhere, Queued
      <4> QED BY <4>2, Zenon
    <3> QED BY <3>2, <3>3, <3>4, Zenon DEF Placed
  <2>3. CASE m \notin new
    <3>1. /\ m \in Range(retrying') <=> m \in Range(retrying)
          /\ \A s \in Servers : /\ m \in Range(commands'[s]) <=> m \in Range(commands[s])
                                /\ m \in Range(sent'[s]) <=> m \in Range(sent[s])
      BY <1>8, <2>1, <2>3, Zenon
    <3>2. (Placed(m)' <=> Placed(m)) /\ (Nowhere(m)' <=> Nowhere(m))
      BY <3>1 DEF Placed, Retried, Queued, OnItsWay, Nowhere
    <3>3. Owner(m) \in Clients
      BY WorkloadAssumption, Zenon DEF Owner
    <3>4. client'[Owner(m)].fd = "deleted" <=> client[Owner(m)].fd = "deleted"
      BY <3>3, Zenon
    <3>5. Pending(m)' <=> Pending(m)
      BY <1>1, <2>3, <3>4, Zenon DEF Pending
    <3>6. IF Pending(m) THEN Placed(m) ELSE Nowhere(m)
      BY Zenon DEF QueueInv, PlaceInv, AllPlaced
    <3> QED BY <3>2, <3>5, <3>6, Zenon
  <2> QED BY <2>2, <2>3, Zenon
<1>10. AllOnce'
  <2>1. \A s \in Servers : \A m \in Commands :
            ~(m \in Range(commands[s]) /\ m \in Range(q))
    BY <1>4, <1>6, Zenon DEF Nowhere
  <2>2. /\ \A s \in Servers : Once(commands'[s], Commands)
        /\ Once(Unrouted(q, To), Commands)
    BY <1>1, <1>4, <2>1, RoutedOnce, Zenon
  <2>3. Range(retrying) \cap Range(Unrouted(q, To)) \cap Commands = {}
    BY <1>2, <1>4, <1>6, RoutedAre, Zenon DEF Nowhere
  <2>4. Once(retrying, Commands) /\ \A s \in Servers : Once(sent[s], Commands)
    BY Zenon DEF QueueInv, PlaceInv, AllOnce
  <2>5. Once(retrying', Commands)
    BY <1>1, <1>7, <2>2, <2>3, <2>4, OnceCat, Zenon
  <2> QED BY <2>2, <2>4, <2>5, Zenon DEF AllOnce
<1>11. ClosedBare'
  <2> SUFFICES ASSUME NEW s \in Servers, ~up[s], NEW m \in Commands
               PROVE  m \notin Range(commands'[s]) /\ m \notin Range(sent[s])
    BY Zenon DEF ClosedBare
  <2>1. m \notin Range(commands[s]) /\ m \notin Range(sent[s])
    BY Zenon DEF QueueInv, PlaceInv, ClosedBare
  <2>2. ~(m \in new /\ To[m] = s)
    BY <1>2, <1>3
  <2> QED BY <1>8, <2>1, <2>2, Zenon
<1>12. \A m \in Commands :
            Held'[m] = Held[m] \cup {s \in Servers : m \in new /\ To[m] = s}
  BY <1>8, Zenon DEF Held
<1>13. \A m \in Commands :
            Held'[m] = Held[m] \cup {s \in Servers : m \in new /\ Target(m) = s}
  BY <1>3, <1>12
<1> QED BY <1>1, <1>9, <1>10, <1>11, <1>13, Zenon DEF PlaceInv, new

-----------------------------------------------------------------------------
(***************************************************************************)
(* The events of a server.                                                 *)
(***************************************************************************)
\* The replies that are read and the commands that still wait for theirs are
\* the commands sent.
LEMMA SentSplit ==
    ASSUME QueueInv, NEW s \in Servers, NEW k \in 0..Len(wire[s])
    PROVE  LET p == SubSeq(sent[s], 1, k)
               r == SubSeq(sent[s], k + 1, Len(sent[s]))
           IN  /\ p \in Seq(Ref) /\ r \in Seq(Ref)
               /\ Range(sent[s]) = Range(p) \cup Range(r)
               /\ Once(p, Commands) /\ Once(r, Commands)
               /\ Range(p) \cap Range(r) \cap Commands = {}
               /\ RepliedTo(s, k) = Range(p) \cap Commands
<1> DEFINE p == SubSeq(sent[s], 1, k)
           r == SubSeq(sent[s], k + 1, Len(sent[s]))
<1>1. sent[s] \in Seq(Ref) /\ Once(sent[s], Commands)
  BY QueuesTyped, Zenon DEF QueueInv, PlaceInv, AllOnce
<1>2. k \in 0..Len(sent[s]) /\ RepliedTo(s, k) \subseteq Commands
  BY RepliedToType, Zenon DEF QueueInv
<1>3. p \in Seq(Ref) /\ r \in Seq(Ref) /\ Cat(p, r) = sent[s]
  BY <1>1, <1>2, Divided, Rest, Zenon DEF Cat
<1>4. RepliedTo(s, k) = Range(p) \cap Commands
  BY <1>2, WorkloadAssumption, Zenon DEF RepliedTo
<1> HIDE DEF p, r
<1>5. Range(sent[s]) = Range(p) \cup Range(r)
  BY <1>3, RangeCat
<1>6. Once(p, Commands) /\ Once(r, Commands) /\ Range(p) \cap Range(r) \cap Commands = {}
  BY <1>1, <1>3, OnceParts
<1> QED BY <1>3, <1>4, <1>5, <1>6, Zenon DEF p, r

\* An event of a server, for what it changes.  The commands replied to are
\* those of p, and r are the others sent; To gives the server for those that
\* have another step, and the commands in again are to be retried.
Served(s, p, r, again, To, broken) ==
    LET queued == Routed(p, To)
        pending == Cat(r, queued[s])
        retry == Cat(retrying, Keep(p, again))
    IN  /\ commands' = [queued EXCEPT ![s] = <<>>]
        /\ IF broken
           THEN /\ up' = [up EXCEPT ![s] = FALSE]
                /\ sent' = [sent EXCEPT ![s] = <<>>]
                /\ retrying' = Cat(retry, Keep(pending, Commands))
           ELSE /\ sent' = [sent EXCEPT ![s] = pending]
                /\ retrying' = retry
                /\ up' = up

\* The k replies that s sends: those in moved redirect a command, those in
\* next leave it another step, and the others answer it.
Replies(s, k, broken, moved, next, To) ==
    LET done == RepliedTo(s, k) \ (moved \cup next)
    IN  /\ next \subseteq RepliedTo(s, k) /\ moved \subseteq RepliedTo(s, k)
        /\ moved \cap next = {}
        /\ DOMAIN To = next
        /\ \A m \in next : /\ To[m] \in Servers \cup {Nul}
                           /\ To[m] # Nul => up[To[m]]
        /\ client' = Responded(done, [c \in Clients |-> AddPeers(client[c], c, To)])
        /\ CountResponses(done)
        /\ Served(s, SubSeq(sent[s], 1, k), SubSeq(sent[s], k + 1, Len(sent[s])),
                  moved \cup {m \in next : To[m] = Nul}, To, broken)
        /\ issued' = issued

LEMMA ServerEventMeans ==
    ASSUME QueueInv, NEW s \in Servers, ServerEvent(s)
    PROVE  \E k \in 0..Len(wire[s]), broken \in BOOLEAN :
           \E moved, next, To : Replies(s, k, broken, moved, next, To)
<1>1. PICK rd \in BOOLEAN, wr \in BOOLEAN, broken \in BOOLEAN,
           k \in 0..Len(wire[s]) :
        \E moved \in SUBSET (IF Redirects THEN RepliedTo(s, k) ELSE {}) :
        \E cut \in SUBSET {m \in RepliedTo(s, k) \ moved : MoreSteps(m)} :
            ServerOnEvents(s, rd, wr, broken, k, moved, cut)
  BY Zenon DEF ServerEvent
<1>2. PICK moved, cut : /\ moved \subseteq RepliedTo(s, k)
                        /\ ServerOnEvents(s, rd, wr, broken, k, moved, cut)
  BY <1>1, Zenon
<1> DEFINE p == SubSeq(sent[s], 1, k)
           r == SubSeq(sent[s], k + 1, Len(sent[s]))
           next == {m \in RepliedTo(s, k) \ (moved \cup cut) : MoreSteps(m)}
           done == RespondedTo(RepliedTo(s, k), moved, next)
           To == [m \in next |-> ServerAt(m, stage[m] + 1)]
           queued == Routed(p, To)
           pending == r \o queued[s]
           again == moved \cup {m \in next : To[m] = Nul}
           retry == retrying \o Keep(p, again)
<1>3. /\ client' = Responded(done, [c \in Clients |-> AddPeers(client[c], c, To)])
      /\ CountResponses(done) /\ issued' = issued
      /\ commands' = [queued EXCEPT ![s] = <<>>]
      /\ IF broken THEN CloseConn(s, retry, <<>>, pending)
         ELSE sent' = [sent EXCEPT ![s] = pending] /\ retrying' = retry /\ up' = up
  <2> DEFINE buffer == output[s] \o queued[s]
  <2>1. PICK w :
          /\ client' = Responded(done, [c \in Clients |-> AddPeers(client[c], c, To)])
          /\ CountResponses(done)
          /\ commands' = [queued EXCEPT ![s] = <<>>]
          /\ IF broken
             THEN CloseConn(s, retry, <<>>, pending)
             ELSE /\ sent' = [sent EXCEPT ![s] = pending]
                  /\ output' = [output EXCEPT ![s] = SubSeq(buffer, w + 1, Len(buffer))]
                  /\ wire' = [wire EXCEPT ![s] =
                                SubSeq(@, k + 1, Len(@)) \o SubSeq(buffer, 1, w)]
                  /\ retrying' = retry
                  /\ UNCHANGED <<up, want>>
          /\ UNCHANGED <<slotmap, expired, updating, issued, phase, closing>>
    BY <1>2, Zenon DEF ServerOnEvents
  <2> QED BY <2>1, Zenon
<1>4. \A m \in next : m \in Commands /\ MoreSteps(m)
  BY RepliedToType, Zenon DEF QueueInv
<1>5. next \subseteq RepliedTo(s, k) /\ moved \cap next = {}
  OBVIOUS
<1>6. done = RepliedTo(s, k) \ (moved \cup next)
  BY Zenon DEF RespondedTo
<1> HIDE DEF next, done
<1>7. \A m \in next : /\ To[m] \in Servers \cup {Nul}
                      /\ To[m] # Nul => up[To[m]]
  BY <1>4, TargetUp, Zenon DEF QueueInv, Routable
<1>8. DOMAIN To = next
  OBVIOUS
<1> HIDE DEF To, p, r
<1>9. <<>> \o Keep(pending, Commands) = Keep(pending, Commands)
  <2>1. r \in Seq(Ref) /\ p \in Seq(Ref)
    BY SentSplit, Zenon DEF p, r
  <2>3. queued[s] \in Seq(Ref)
    <3>1. DOMAIN To \subseteq Commands
      BY <1>4, <1>8, Zenon
    <3>2. queued \in [Servers -> Seq(Commands)]
      BY <2>1, <3>1, RoutedType, Zenon DEF QueueInv, ServerInv
    <3> QED BY <3>2, SeqOfRefs, Zenon
  <2> HIDE DEF queued
  <2>4. pending \in Seq(Ref)
    BY <2>1, <2>3, ConcatProperties, Zenon
  <2> HIDE DEF pending
  <2>5. Keep(pending, Commands) \in Seq(Commands)
    BY <2>4, KeepInto, Zenon
  <2> QED BY <2>5, ConcatEmptySeq, Zenon
<1>10. Served(s, p, r, again, To, broken)
  BY <1>3, <1>9, Zenon DEF Served, CloseConn, Requeued, Cat
<1>11. Replies(s, k, broken, moved, next, To)
  BY <1>2, <1>3, <1>5, <1>6, <1>7, <1>8, <1>10, Zenon DEF Replies, p, r
<1> QED BY <1>11, Zenon

\* The queues that Served concatenates.
LEMMA ServedTyped ==
    ASSUME QueueInv, NEW s \in Servers, NEW p \in Seq(Ref), NEW r \in Seq(Ref),
           NEW again, NEW To, DOMAIN To \subseteq Commands
    PROVE  LET queued == Routed(p, To)
               pending == Cat(r, queued[s])
           IN  /\ DOMAIN queued = Servers /\ queued[s] \in Seq(Ref)
               /\ pending \in Seq(Ref) /\ Keep(pending, Commands) \in Seq(Ref)
               /\ retrying \in Seq(Ref) /\ Keep(p, again) \in Seq(Ref)
               /\ Cat(retrying, Keep(p, again)) \in Seq(Ref)
<1>1. Routed(p, To) \in [Servers -> Seq(Commands)]
  BY RoutedType, Zenon DEF QueueInv, ServerInv
<1>2. DOMAIN Routed(p, To) = Servers /\ Routed(p, To)[s] \in Seq(Ref)
  BY <1>1, SeqOfRefs, Zenon
<1>3. Cat(r, Routed(p, To)[s]) \in Seq(Ref)
  BY <1>2, CatType, Zenon
<1>4. /\ Keep(p, again) \in Seq(Ref) /\ retrying \in Seq(Ref)
      /\ Keep(Cat(r, Routed(p, To)[s]), Commands) \in Seq(Ref)
  BY <1>3, KeepInto, QueuesTyped, Zenon
<1>5. Cat(retrying, Keep(p, again)) \in Seq(Ref)
  BY <1>4, CatType, Zenon
<1> QED BY <1>2, <1>3, <1>4, <1>5, Zenon

\* Where a command is after an event of server s: with s, if it waited for it
\* or To says so, but to be retried if the write failed.
ServedPlace(s, r, again, To, broken, m) ==
    LET kept == \/ m \in Range(r) \/ m \in Range(commands[s])
                \/ m \in DOMAIN To /\ To[m] = s
    IN  /\ m \notin Range(commands'[s])
        /\ m \in Range(sent'[s]) <=> ~broken /\ kept
        /\ m \in Range(retrying') <=>
                m \in Range(retrying) \/ m \in again \/ (broken /\ kept)
        /\ \A t \in Servers \ {s} :
                /\ m \in Range(sent'[t]) <=> m \in Range(sent[t])
                /\ m \in Range(commands'[t]) <=>
                    m \in Range(commands[t]) \/ (m \in DOMAIN To /\ To[m] = t)

LEMMA ServedAre ==
    ASSUME QueueInv, NEW s \in Servers, NEW p \in Seq(Ref), NEW r \in Seq(Ref),
           NEW again, again \subseteq Range(p), NEW To,
           DOMAIN To \subseteq Range(p) \cap Commands, NEW broken \in BOOLEAN,
           Served(s, p, r, again, To, broken), NEW m \in Commands
    PROVE  ServedPlace(s, r, again, To, broken, m)
<1> DEFINE queued == Routed(p, To)
           pending == Cat(r, queued[s])
           k == Keep(p, again)
           z == Keep(pending, Commands)
           retry == Cat(retrying, k)
           kept == \/ m \in Range(r) \/ m \in Range(commands[s])
                   \/ m \in DOMAIN To /\ To[m] = s
<1>1. /\ DOMAIN queued = Servers /\ queued[s] \in Seq(Ref)
      /\ pending \in Seq(Ref) /\ z \in Seq(Ref) /\ retrying \in Seq(Ref)
      /\ k \in Seq(Ref) /\ retry \in Seq(Ref)
  BY ServedTyped, Zenon
<1>2. /\ commands' = [queued EXCEPT ![s] = <<>>]
      /\ IF broken
         THEN sent' = [sent EXCEPT ![s] = <<>>] /\ retrying' = Cat(retry, z)
         ELSE sent' = [sent EXCEPT ![s] = pending] /\ retrying' = retry
  BY Zenon DEF Served
<1>3. \A t \in Servers : m \in Range(queued[t]) <=>
            m \in Range(commands[t]) \/ (m \in DOMAIN To /\ To[m] = t)
  BY RoutedAre
<1> HIDE DEF queued
<1>4. Range(pending) = Range(r) \cup Range(queued[s])
  BY <1>1, RangeCat
<1>5. Range(z) = Range(pending) \cap Commands
  <2> HIDE DEF pending
  <2> QED BY <1>1, RangeKeep, Zenon
<1>6. Range(k) = again
  <2>1. Range(k) = Range(p) \cap again
    BY RangeKeep, Zenon
  <2> QED BY <2>1, Zenon
<1> HIDE DEF k, z, pending
<1>7. Range(retry) = Range(retrying) \cup again
  BY <1>1, <1>6, RangeCat
<1> HIDE DEF retry
<1>8. Range(Cat(retry, z)) = Range(retry) \cup Range(z)
  BY <1>1, RangeCat
<1>9. m \in Range(pending) <=> kept
  BY <1>3, <1>4, Zenon
<1> HIDE DEF kept
<1>10. DOMAIN sent = Servers
  BY QueuesTyped, Zenon
<1>11. /\ m \notin Range(commands'[s])
       /\ \A t \in Servers \ {s} : commands'[t] = queued[t] /\ sent'[t] = sent[t]
  BY <1>1, <1>2, <1>10, RangeEmpty, Zenon
<1>12. m \in Range(sent'[s]) <=> ~broken /\ kept
  BY <1>2, <1>9, <1>10, RangeEmpty, Zenon
<1>13. m \in Range(retrying') <=>
            m \in Range(retrying) \/ m \in again \/ (broken /\ kept)
  BY <1>2, <1>5, <1>7, <1>8, <1>9, Zenon
<1> QED BY <1>3, <1>11, <1>12, <1>13, Zenon DEF ServedPlace, kept

\* No queue refers to a command twice after an event of server s.
LEMMA ServedOnce ==
    ASSUME QueueInv, NEW s \in Servers, NEW p \in Seq(Ref), NEW r \in Seq(Ref),
           Range(sent[s]) = Range(p) \cup Range(r),
           Once(p, Commands), Once(r, Commands),
           Range(p) \cap Range(r) \cap Commands = {},
           NEW again, again \subseteq Range(p) \cap Commands, NEW To,
           DOMAIN To \subseteq Range(p) \cap Commands, NEW broken \in BOOLEAN,
           \A m \in again : ~(m \in DOMAIN To /\ To[m] = s),
           Served(s, p, r, again, To, broken)
    PROVE  AllOnce'
<1> DEFINE queued == Routed(p, To)
           pending == Cat(r, queued[s])
           k == Keep(p, again)
           z == Keep(pending, Commands)
           retry == Cat(retrying, k)
<1>1. /\ DOMAIN queued = Servers /\ queued[s] \in Seq(Ref)
      /\ pending \in Seq(Ref) /\ z \in Seq(Ref) /\ retrying \in Seq(Ref)
      /\ k \in Seq(Ref) /\ retry \in Seq(Ref)
  BY ServedTyped, Zenon
<1>2. /\ commands' = [queued EXCEPT ![s] = <<>>]
      /\ IF broken
         THEN sent' = [sent EXCEPT ![s] = <<>>] /\ retrying' = Cat(retry, z)
         ELSE sent' = [sent EXCEPT ![s] = pending] /\ retrying' = retry
  BY Zenon DEF Served
<1>3. \A m \in Commands : m \in Range(queued[s]) <=>
            m \in Range(commands[s]) \/ (m \in DOMAIN To /\ To[m] = s)
  BY RoutedAre
<1>4. ASSUME NEW m \in Commands, m \in Range(p) \/ m \in Range(r)
      PROVE  /\ m \notin Range(retrying)
             /\ \A t \in Servers : m \notin Range(commands[t])
  BY <1>4, Alone, Zenon
<1>5. \A t \in Servers : Once(queued[t], Commands)
  BY <1>4, RoutedOnce, Zenon
<1>6. Once(k, Commands) /\ Range(k) = Range(p) \cap again
  BY OnceKeep, RangeKeep, Zenon
<1> HIDE DEF queued, k
<1>7. Once(pending, Commands) /\ Range(pending) = Range(r) \cup Range(queued[s])
  <2>1. Range(r) \cap Range(queued[s]) \cap Commands = {}
    BY <1>3, <1>4, Zenon
  <2>2. Once(queued[s], Commands)
    BY <1>5, Zenon
  <2>3. Once(pending, Commands)
    BY <1>1, <2>1, <2>2, OnceCat, Zenon
  <2>4. Range(pending) = Range(r) \cup Range(queued[s])
    BY <1>1, RangeCat
  <2> QED BY <2>3, <2>4, Zenon
<1> HIDE DEF pending
<1>8. Once(z, Commands) /\ Range(z) = Range(pending) \cap Commands
  BY <1>1, <1>7, OnceKeep, RangeKeep, Zenon
<1>9. Once(retrying, Commands) /\ \A t \in Servers : Once(sent[t], Commands)
  BY Zenon DEF QueueInv, PlaceInv, AllOnce
<1>10. Once(retry, Commands) /\ Range(retry) = Range(retrying) \cup Range(k)
  <2>1. Range(retrying) \cap Range(k) \cap Commands = {}
    BY <1>4, <1>6, Zenon
  <2>2. Once(retrying, Commands) /\ Once(k, Commands)
    BY <1>6, <1>9, Zenon
  <2>3. Once(retry, Commands)
    BY <1>1, <2>1, <2>2, OnceCat, Zenon
  <2>4. Range(retry) = Range(retrying) \cup Range(k)
    BY <1>1, RangeCat
  <2> QED BY <2>3, <2>4, Zenon
<1> HIDE DEF retry, z
<1>11. Once(Cat(retry, z), Commands)
  <2>1. ASSUME NEW m \in Commands, m \in Range(retry), m \in Range(z) PROVE FALSE
    <3>1. \/ m \in Range(r) \/ m \in Range(commands[s])
          \/ m \in DOMAIN To /\ To[m] = s
      BY <1>3, <1>7, <1>8, <2>1, Zenon
    <3>2. m \notin Range(retrying)
      BY <1>4, <3>1, Alone, Zenon
    <3>3. m \in again
      BY <1>6, <1>10, <2>1, <3>2, Zenon
    <3> QED BY <1>4, <3>1, <3>3, Zenon
  <2>2. Range(retry) \cap Range(z) \cap Commands = {}
    BY <2>1, Zenon
  <2> QED BY <1>1, <1>8, <1>10, <2>2, OnceCat, Zenon
<1>12. Once(<<>>, Commands)
  BY DEF Once
<1>13. DOMAIN sent = Servers
  BY QueuesTyped, Zenon
<1>14. \A t \in Servers : Once(commands'[t], Commands)
  BY <1>1, <1>2, <1>5, <1>12, Zenon
<1>15. \A t \in Servers : Once(sent'[t], Commands)
  BY <1>2, <1>7, <1>9, <1>12, <1>13, Zenon
<1>16. Once(retrying', Commands)
  BY <1>2, <1>10, <1>11, Zenon
<1> QED BY <1>14, <1>15, <1>16, Zenon DEF AllOnce

\* Server s has been sent p, which is replied to, and r, which is not.  Of p,
\* again are to be retried, and To says which servers others go to.
Parted(s, p, r, again, To) ==
    /\ p \in Seq(Ref) /\ r \in Seq(Ref)
    /\ Range(sent[s]) = Range(p) \cup Range(r)
    /\ Once(p, Commands) /\ Once(r, Commands)
    /\ Range(p) \cap Range(r) \cap Commands = {}
    /\ again \subseteq Range(p) \cap Commands
    /\ DOMAIN To \subseteq Range(p) \cap Commands
    /\ \A m \in again : ~(m \in DOMAIN To /\ To[m] = s)

LEMMA PartedServed ==
    ASSUME QueueInv, NEW s \in Servers, NEW p, NEW r, NEW again, NEW To,
           NEW broken \in BOOLEAN, Parted(s, p, r, again, To),
           Served(s, p, r, again, To, broken)
    PROVE  /\ AllOnce'
           /\ \A m \in Commands : ServedPlace(s, r, again, To, broken, m)
<1>1. AllOnce'
  BY ServedOnce DEF Parted
<1>2. p \in Seq(Ref) /\ r \in Seq(Ref) /\ again \subseteq Range(p)
      /\ DOMAIN To \subseteq Range(p) \cap Commands
  BY Zenon DEF Parted
<1>3. \A m \in Commands : ServedPlace(s, r, again, To, broken, m)
  BY <1>2, ServedAre, Zenon
<1> QED BY <1>1, <1>3, Zenon

\* Server::on_events: the commands replied to are answered, sent again or to
\* be retried, and the others wait for their replies.
LEMMA RepliesPlaces ==
    ASSUME QueueInv, NoneDeleted, NEW s \in Servers, NEW k \in 0..Len(wire[s]),
           NEW broken \in BOOLEAN, NEW moved, NEW next, NEW To,
           Replies(s, k, broken, moved, next, To)
    PROVE  /\ PlaceInv'
           /\ \A m \in RepliedTo(s, k) : m \in Commands /\ Pending(m)
           /\ \A m \in Commands : Held'[m] \subseteq
                Held[m] \cup ({To[x] : x \in {m} \cap DOMAIN To} \ {Nul})
<1> DEFINE p == SubSeq(sent[s], 1, k)
           r == SubSeq(sent[s], k + 1, Len(sent[s]))
           done == RepliedTo(s, k) \ (moved \cup next)
           again == moved \cup {m \in next : To[m] = Nul}
<1>1. /\ next \subseteq RepliedTo(s, k) /\ moved \subseteq RepliedTo(s, k)
      /\ moved \cap next = {} /\ DOMAIN To = next
      /\ \A m \in next : /\ To[m] \in Servers \cup {Nul}
                         /\ To[m] # Nul => up[To[m]]
      /\ CountResponses(done)
      /\ Served(s, p, r, again, To, broken)
      /\ issued' = issued
  BY Zenon DEF Replies
<1>2. /\ p \in Seq(Ref) /\ r \in Seq(Ref)
      /\ Range(sent[s]) = Range(p) \cup Range(r)
      /\ Once(p, Commands) /\ Once(r, Commands)
      /\ Range(p) \cap Range(r) \cap Commands = {}
      /\ RepliedTo(s, k) = Range(p) \cap Commands
  BY SentSplit, Zenon
<1>3. Nul \notin Servers
  BY WorkloadAssumption, Zenon
<1> HIDE DEF p, r
<1>4. /\ done \subseteq Range(p) \cap Commands /\ again \subseteq Range(p) \cap Commands
      /\ DOMAIN To \subseteq Range(p) \cap Commands
      /\ \A m \in Commands : m \in Range(p) <=> m \in done \/ m \in moved \/ m \in next
      /\ \A m \in again : ~(m \in DOMAIN To /\ To[m] = s)
  BY <1>1, <1>2, <1>3, Zenon
<1>5. /\ done \cap moved = {} /\ done \cap next = {}
      /\ \A m : m \in again <=> m \in moved \/ (m \in next /\ To[m] = Nul)
  OBVIOUS
<1> HIDE DEF done, again
<1>6. /\ AllOnce'
      /\ \A m \in Commands : ServedPlace(s, r, again, To, broken, m)
  <2>1. Parted(s, p, r, again, To)
    BY <1>2, <1>4, Zenon DEF Parted
  <2> QED BY <1>1, <2>1, PartedServed, Zenon
<1>7. ASSUME NEW m \in Commands
      PROVE  LET kept == \/ m \in Range(r) \/ m \in Range(commands[s])
                         \/ m \in next /\ To[m] = s
             IN  /\ m \notin Range(commands'[s])
                 /\ m \in Range(sent'[s]) <=> ~broken /\ kept
                 /\ m \in Range(retrying') <=>
                        m \in Range(retrying) \/ m \in again \/ (broken /\ kept)
                 /\ \A t \in Servers \ {s} :
                        /\ m \in Range(sent'[t]) <=> m \in Range(sent[t])
                        /\ m \in Range(commands'[t]) <=>
                            m \in Range(commands[t]) \/ (m \in next /\ To[m] = t)
  <2>1. ServedPlace(s, r, again, To, broken, m)
    BY <1>6, Zenon
  <2> QED BY <1>1, <2>1, Zenon DEF ServedPlace
<1>8. \A m \in RepliedTo(s, k) : m \in Commands /\ Pending(m)
  BY <1>2, HeldPending, Zenon
<1>9. answered' = answered \cup done
  BY <1>1, Zenon DEF CountResponses
<1>10. \A m \in Commands : Held'[m] \subseteq
            Held[m] \cup ({To[x] : x \in {m} \cap DOMAIN To} \ {Nul})
  <2> SUFFICES ASSUME NEW m \in Commands, NEW t \in Held'[m], t \notin Held[m]
               PROVE  t \in {To[x] : x \in {m} \cap DOMAIN To} \ {Nul}
    BY Zenon
  <2>1. /\ t \in Servers
        /\ m \in Range(commands'[t]) \/ m \in Range(sent'[t])
        /\ m \notin Range(commands[t]) /\ m \notin Range(sent[t])
    BY Zenon DEF Held
  <2>2. m \in next /\ To[m] = t
    BY <1>2, <1>7, <2>1, Zenon
  <2> QED BY <1>1, <1>3, <2>1, <2>2, Zenon
<1>11. AllPlaced'
  <2> SUFFICES ASSUME NEW m \in Commands
               PROVE  IF Pending(m)' THEN Placed(m)' ELSE Nowhere(m)'
    BY Zenon DEF AllPlaced
  <2>1. Owner(m) \in Clients
    BY WorkloadAssumption, Zenon DEF Owner
  <2>2. Pending(m)' <=> Pending(m) /\ m \notin done
    BY <1>1, <1>9, <2>1, Zenon DEF Pending, NoneDeleted
  <2>3. IF Pending(m) THEN Placed(m) ELSE Nowhere(m)
    BY Zenon DEF QueueInv, PlaceInv, AllPlaced
  <2>4. CASE m \in Range(p)
    <3>1. Pending(m) /\ m \notin Range(r)
      BY <1>2, <2>4, HeldPending, Zenon
    <3>2. /\ m \notin Range(retrying)
          /\ \A t \in Servers : m \notin Range(commands[t])
          /\ \A t \in Servers \ {s} : m \notin Range(sent[t])
      BY <1>2, <2>4, Alone, Zenon
    <3>3. CASE m \in done
      <4>1. m \notin next /\ m \notin again
        BY <1>5, <3>3, Zenon
      <4>2. Nowhere(m)'
        BY <1>7, <3>1, <3>2, <4>1, Zenon DEF Nowhere
      <4> QED BY <2>2, <3>3, <4>2, Zenon
    <3>4. CASE m \in again
      <4>1. m \notin done /\ ~(m \in next /\ To[m] \in Servers)
        BY <1>1, <1>3, <1>5, <3>4, Zenon
      <4>2. Retried(m)'
        BY <1>7, <3>1, <3>2, <3>4, <4>1 DEF Retried
      <4> QED BY <2>2, <3>1, <4>1, <4>2, Zenon DEF Placed
    <3>5. CASE m \in next /\ To[m] # Nul
      <4>1. m \notin done /\ m \notin again
        BY <1>1, <1>5, <3>5, Zenon
      <4>2. PICK t \in Servers : t = To[m]
        BY <1>1, <3>5, Zenon
      <4>3. CASE t # s
        <5>1. Queued(m, t)'
          BY <1>7, <3>1, <3>2, <3>5, <4>1, <4>2, <4>3, Zenon DEF Queued
        <5> QED BY <2>2, <3>1, <4>1, <5>1, Zenon DEF Placed
      <4>4. CASE t = s /\ broken
        <5>1. Retried(m)'
          BY <1>7, <3>1, <3>2, <3>5, <4>1, <4>2, <4>4, Zenon DEF Retried
        <5> QED BY <2>2, <3>1, <4>1, <5>1, Zenon DEF Placed
      <4>5. CASE t = s /\ ~broken
        <5>1. OnItsWay(m, s)'
          BY <1>7, <3>1, <3>2, <3>5, <4>1, <4>2, <4>5, Zenon DEF OnItsWay
        <5> QED BY <2>2, <3>1, <4>1, <5>1, Zenon DEF Placed
      <4> QED BY <4>3, <4>4, <4>5, Zenon
    <3> QED BY <1>4, <1>5, <2>4, <3>3, <3>4, <3>5, Zenon
  <2>5. CASE m \notin Range(p)
    <3>1. m \notin done /\ m \notin next /\ m \notin again
      BY <1>4, <1>1, <2>5, Zenon
    <3>2. m \in Range(sent[s]) <=> m \in Range(r)
      BY <1>2, <2>5, Zenon
    <3>3. Nowhere(m) => Nowhere(m)'
      BY <1>7, <3>1, <3>2, Zenon DEF Nowhere
    <3>4. Retried(m) => Retried(m)'
      BY <1>7, <3>1, <3>2, Zenon DEF Retried
    <3>5. ASSUME NEW t \in Servers, Queued(m, t), t # s PROVE Queued(m, t)'
      BY <1>7, <3>1, <3>2, <3>5, Zenon DEF Queued
    <3>6. ASSUME NEW t \in Servers, OnItsWay(m, t), t # s PROVE OnItsWay(m, t)'
      BY <1>7, <3>1, <3>2, <3>6, Zenon DEF OnItsWay
    <3>7. ASSUME Queued(m, s) \/ OnItsWay(m, s), broken PROVE Retried(m)'
      BY <1>7, <3>1, <3>2, <3>7, Zenon DEF Queued, OnItsWay, Retried
    <3>8. ASSUME Queued(m, s) \/ OnItsWay(m, s), ~broken PROVE OnItsWay(m, s)'
      BY <1>7, <3>1, <3>2, <3>8, Zenon DEF Queued, OnItsWay
    <3>9. Placed(m) => Placed(m)'
      BY <3>4, <3>5, <3>6, <3>7, <3>8, Zenon DEF Placed
    <3> QED BY <2>2, <2>3, <3>1, <3>3, <3>9, Zenon
  <2> QED BY <2>4, <2>5, Zenon
<1>12. ClosedBare'
  <2> SUFFICES ASSUME NEW t \in Servers, ~up'[t], NEW m \in Commands
               PROVE  m \notin Range(commands'[t]) /\ m \notin Range(sent'[t])
    BY Zenon DEF ClosedBare
  <2>1. DOMAIN up = Servers
    BY Zenon DEF QueueInv, ServerInv, StreamTypes
  <2>2. (t = s /\ broken) \/ ~up[t]
    BY <1>1, <2>1, Zenon DEF Served
  <2>3. ASSUME ~up[t]
        PROVE  /\ m \notin Range(commands[t]) /\ m \notin Range(sent[t])
               /\ ~(m \in next /\ To[m] = t)
    BY <1>1, <1>3, <2>3, Zenon DEF QueueInv, PlaceInv, ClosedBare
  <2> QED BY <1>2, <1>7, <2>2, <2>3, Zenon
<1> QED BY <1>6, <1>8, <1>10, <1>11, <1>12, Zenon DEF PlaceInv
=============================================================================
