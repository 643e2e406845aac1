------------------------- MODULE ConnectionsProofs -------------------------
(***************************************************************************)
(* Descriptors and the objects that hold them, for any number of clients,  *)
(* long connections and Servers and batches of any size: each descriptor   *)
(* has one owner, no deleted object gets an event, every long connection   *)
(* can still be deleted, and the acceptor wakes up.  None of this depends  *)
(* on what the slot map and the pool of Servers hold.                      *)
(***************************************************************************)
EXTENDS Connections, FiniteSetTheorems, TLAPS

-----------------------------------------------------------------------------
(***************************************************************************)
(* The invariant.                                                          *)
(***************************************************************************)
ConnType ==
    /\ sock \in [Socks -> {"off", "waiting", "open", "other"}]
    /\ client \in [Socks -> {"none", "open", "thrown", "closed"}]
    /\ long \in [Longs -> LongType]

\* An open descriptor has an owner, a Client or a LongConnection, and one only.
Owned ==
    \A k \in Socks :
        /\ sock[k] = "open" <=>
            client[k] = "open" \/ \E l \in Longs : long[l].near = k
        /\ sock[k] = "waiting" => client[k] = "none"
        /\ \A l \in Longs : long[l].near = k =>
            /\ client[k] \notin {"open", "thrown"}
            /\ \A m \in Longs : long[m].near = k => m = l

Phased ==
    /\ phase # "events" => batch = {}
    /\ phase = "wait" => active = {} /\ ~fdClosed
    /\ \A k \in Socks : client[k] = "thrown" => phase = "events"

\* The Client an event is to come for is open, and the client of a long
\* connection an event is to come for has no Client left.
InBatch ==
    /\ \A k \in Socks : OfClient(k) \in batch => client[k] = "open"
    /\ \A l \in Longs : Near(l) \in batch \/ Far(l) \in batch =>
        \A k \in Socks : long[l].near = k => client[k] = "none"

\* Who closes a Client or a far end in a batch looks at it at its end.
Handled ==
    /\ \A k \in Socks : client[k] \in {"closed", "thrown"} => OfClient(k) \in active
    /\ \A l \in Live : ~long[l].far => Far(l) \in active

\* A Server and the long connections attached to it know each other.
Attached ==
    /\ attached \in [Objects -> SUBSET Longs]
    /\ \A o \in Objects : \A l \in attached[o] : l \in Live /\ long[l].server = o
    /\ \A l \in Live :
        /\ long[l].server \in Objects
        /\ long[l].near # Nil => l \in attached[long[l].server] \cup inactive

FlagType ==
    /\ fdClosed \in BOOLEAN /\ accepting \in BOOLEAN
    /\ edge \in BOOLEAN /\ slipped \in BOOLEAN

\* A descriptor was freed since the acceptor stopped, or the end of the batch
\* will find one, that of a Client about to catch an exception included.
Due == fdClosed \/ Thrown # {} \/ active \cap (ClosedEnds \cup ClosedClients) # {}

Stopped == ~accepting /\ ~slipped /\ Room # 0 => Due

Woken == Waiting # {} /\ accepting => edge \/ slipped

HoldInv ==
    /\ ConnType /\ Owned /\ OnlyLive /\ Phased
    /\ InBatch /\ ObjectsOutliveEvents /\ Handled

FlagsInv == FlagType /\ Stopped /\ Woken

ConnInv == HoldInv /\ Attached /\ FlagsInv

-----------------------------------------------------------------------------
(***************************************************************************)
(* The connections of a batch.                                             *)
(***************************************************************************)
\* No connection is two objects.
LEMMA Distinct ==
    /\ \A l, m : Near(l) # Far(m)
    /\ \A l, m : (Near(l) = Near(m) => l = m) /\ (Far(l) = Far(m) => l = m)
    /\ \A k, j : OfClient(k) = OfClient(j) => k = j
    /\ \A l, k : Near(l) # OfClient(k) /\ Far(l) # OfClient(k)
<1>1. \A l, m : Near(l) # Far(m)
  BY DEF Near, Far
<1>2. \A l, m : (Near(l) = Near(m) => l = m) /\ (Far(l) = Far(m) => l = m)
  BY DEF Near, Far
<1>3. \A k, j : OfClient(k) = OfClient(j) => k = j
  BY DEF OfClient
<1>4. \A l, k : Near(l) # OfClient(k) /\ Far(l) # OfClient(k)
  BY DEF Near, Far, OfClient
<1> QED BY <1>1, <1>2, <1>3, <1>4

\* The other connections are none of these.
LEMMA Others ==
    ASSUME NEW o
    PROVE  /\ \A l : OfServer(o) # Near(l) /\ OfServer(o) # Far(l)
           /\ \A l : Acceptor # Near(l) /\ Acceptor # Far(l)
           /\ \A l : Updater # Near(l) /\ Updater # Far(l)
           /\ \A k : OfServer(o) # OfClient(k)
           /\ \A k : Acceptor # OfClient(k) /\ Updater # OfClient(k)
<1>1. \A l : OfServer(o) # Near(l) /\ OfServer(o) # Far(l)
  BY DEF OfServer, Near, Far
<1>2. \A l : Acceptor # Near(l) /\ Acceptor # Far(l)
  BY DEF Acceptor, Near, Far
<1>3. \A l : Updater # Near(l) /\ Updater # Far(l)
  BY DEF Updater, Near, Far
<1>4. \A k : OfServer(o) # OfClient(k)
  BY DEF OfServer, OfClient
<1>5. \A k : Acceptor # OfClient(k) /\ Updater # OfClient(k)
  BY DEF Acceptor, Updater, OfClient
<1> QED BY <1>1, <1>2, <1>3, <1>4, <1>5

\* The object of a connection.
LEMMA Objs ==
    /\ \A l : Near(l)[2] = l /\ Far(l)[2] = l
    /\ \A k : OfClient(k)[2] = k
<1>1. \A l : Near(l)[2] = l /\ Far(l)[2] = l
  BY DEF Near, Far
<1>2. \A k : OfClient(k)[2] = k
  BY DEF OfClient
<1> QED BY <1>1, <1>2

-----------------------------------------------------------------------------
(***************************************************************************)
(* Owners and events.                                                      *)
(***************************************************************************)
\* Of each descriptor it is closed, in K, or what is said of it stays true.
LEMMA OwnedReleased ==
    ASSUME Owned, NEW K,
           \A k \in Socks : IF k \in K
             THEN /\ sock'[k] = "off" /\ client'[k] # "open"
                  /\ \A l \in Longs : long'[l].near # k
             ELSE /\ sock'[k] = sock[k]
                  /\ client'[k] = "open" <=> client[k] = "open"
                  /\ client'[k] = "thrown" => client[k] = "thrown"
                  /\ client[k] = "none" => client'[k] = "none"
                  /\ \A l \in Longs : long'[l].near = k <=> long[l].near = k
    PROVE  Owned'
BY DEF Owned

\* The event of c is handled, and all the rest stays as it is.
LEMMA HandleHolds ==
    ASSUME HoldInv, NEW c, Handle(c), UNCHANGED longVars
    PROVE  HoldInv'
<1>1. ConnType' /\ Owned' /\ OnlyLive' /\ Phased'
  BY DEF HoldInv, ConnType, Owned, OnlyLive, Phased, Live, Handle, longVars
<1>2. InBatch' /\ ObjectsOutliveEvents' /\ Handled'
  BY DEF HoldInv, InBatch, ObjectsOutliveEvents, Handled, Live, Handle, longVars
<1> QED BY <1>1, <1>2 DEF HoldInv

\* An event of long connection l takes it to rec.  It may close its far end,
\* if it is the event of that, and its near end, or give this to a Client.
EndEvent(l, rec, c) ==
    /\ c \in {Near(l), Far(l)} /\ Handle(c)
    /\ long' = [long EXCEPT ![l] = rec]
    /\ rec \in LongType
    /\ rec.state = long[l].state /\ rec.server = long[l].server
    /\ rec.far = long[l].far \/ (~rec.far /\ c = Far(l))
    /\ \/ rec.near = long[l].near /\ UNCHANGED <<sock, client>>
       \/ /\ rec.near = Nil /\ UNCHANGED client
          /\ sock' = [k \in Socks |-> IF k = long[l].near THEN "off" ELSE sock[k]]
       \/ /\ rec.near = Nil /\ UNCHANGED sock
          /\ client' = [k \in Socks |-> IF k = long[l].near THEN "open"
                                                           ELSE client[k]]

\* It leaves each descriptor with one owner and the object in place.
LEMMA EndHolds ==
    ASSUME HoldInv, NEW l \in Longs, NEW rec, NEW c, EndEvent(l, rec, c)
    PROVE  HoldInv'
<1>1. /\ l \in Live /\ phase' = "events" /\ phase = "events"
      /\ active' = active \cup {c} /\ batch' = batch \ {c} /\ c \in batch
  BY DEF HoldInv, ObjectsOutliveEvents, EndEvent, Handle
<1>2. /\ \A m \in Longs \ {l} : long'[m] = long[m]
      /\ long'[l] = rec /\ long' \in [Longs -> LongType]
  BY DEF EndEvent, HoldInv, ConnType
<1>3. Live' = Live /\ rec.near \in {long[l].near, Nil}
  BY <1>1, <1>2 DEF EndEvent, Live
<1>4. ConnType'
  BY <1>2 DEF HoldInv, ConnType, EndEvent
<1>5. Owned'
  BY <1>2, ConnectionsAssumption DEF HoldInv, ConnType, Owned, EndEvent
<1>6. OnlyLive' /\ Phased'
  BY <1>1, <1>2, <1>3 DEF HoldInv, OnlyLive, Phased
<1>7. InBatch'
  BY <1>1, <1>2, <1>3, Distinct, ConnectionsAssumption
  DEF HoldInv, ConnType, InBatch, Owned, EndEvent
<1>8. ObjectsOutliveEvents'
  BY <1>1, <1>3 DEF HoldInv, ObjectsOutliveEvents
<1>9. Handled'
  BY <1>1, <1>2, <1>3 DEF HoldInv, ConnType, Handled, EndEvent
<1> QED BY <1>4, <1>5, <1>6, <1>7, <1>8, <1>9 DEF HoldInv

\* The events of a long connection that close something, or may, are such.
LEMMA EndEventIs ==
    ASSUME HoldInv, NEW l \in Longs,
           NearGone(l) \/ FarGone(l) \/ Message(l) \/ PopReply(l)
    PROVE  \E rec, c : EndEvent(l, rec, c)
<1>1. /\ long[l] \in LongType /\ long \in [Longs -> LongType]
      /\ sock \in [Socks -> {"off", "waiting", "open", "other"}]
  BY DEF HoldInv, ConnType
<1>2. Nil \in Socks \cup {Nil}
  OBVIOUS
<1>3. CASE NearGone(l)
  <2>1. EndEvent(l, [long[l] EXCEPT !.near = Nil], Near(l))
    BY <1>1, <1>3 DEF NearGone, EndEvent, LongType
  <2> QED BY <2>1
<1>4. CASE FarGone(l) /\ long[l].kind = "pop"
  <2>1. EndEvent(l, [long[l] EXCEPT !.far = FALSE, !.near = Nil], Far(l))
    BY <1>1, <1>4, Zenon DEF FarGone, EndEvent, LongType, RestoreClient, Restored
  <2> QED BY <2>1
<1>5. CASE FarGone(l) /\ long[l].kind # "pop"
  <2>1. EndEvent(l, [long[l] EXCEPT !.far = FALSE], Far(l))
    BY <1>1, <1>5, Zenon DEF FarGone, EndEvent, LongType
  <2> QED BY <2>1
<1>6. CASE Message(l) /\ UNCHANGED long
  <2>1. EndEvent(l, long[l], Far(l))
    BY <1>1, <1>6 DEF Message, EndEvent
  <2> QED BY <2>1
<1>7. CASE Message(l) /\ ~UNCHANGED long
  <2>1. EndEvent(l, [long[l] EXCEPT !.far = FALSE], Far(l))
    BY <1>1, <1>7, Zenon DEF Message, EndEvent, LongType
  <2> QED BY <2>1
<1>8. CASE PopReply(l) /\ UNCHANGED longVars
  <2>1. EndEvent(l, long[l], Far(l))
    BY <1>1, <1>8 DEF PopReply, EndEvent, longVars
  <2> QED BY <2>1
<1>9. CASE PopReply(l) /\ ~UNCHANGED longVars
  <2>1. EndEvent(l, [long[l] EXCEPT !.near = Nil], Far(l))
    BY <1>1, <1>9 DEF PopReply, EndEvent, LongType, RestoreClient, Restored
  <2> QED BY <2>1
<1> QED BY <1>3, <1>4, <1>5, <1>6, <1>7, <1>8, <1>9

\* The descriptor of a Client is closed in an event of its own, by the Client or
\* by an exception on its way to it.
LEMMA LetGoHolds ==
    ASSUME HoldInv, NEW k \in Socks, Handle(OfClient(k)),
           NEW st \in {"closed", "thrown"}, client' = [client EXCEPT ![k] = st],
           sock' = [sock EXCEPT ![k] = "off"], UNCHANGED long
    PROVE  HoldInv'
<1>1. /\ OfClient(k) \in batch /\ client[k] = "open"
      /\ \A l \in Longs : long[l].near # k
      /\ phase = "events" /\ phase' = "events" /\ long' = long
      /\ batch' = batch \ {OfClient(k)} /\ active' = active \cup {OfClient(k)}
  BY DEF HoldInv, InBatch, Owned, Handle
<1>2. \A j \in Socks : /\ client'[j] = IF j = k THEN st ELSE client[j]
                       /\ sock'[j] = IF j = k THEN "off" ELSE sock[j]
  BY DEF HoldInv, ConnType
<1>3. ConnType'
  BY DEF HoldInv, ConnType
<1>4. Owned'
  BY <1>1, <1>2 DEF HoldInv, Owned
<1>5. OnlyLive' /\ Phased' /\ Live' = Live
  BY <1>1 DEF HoldInv, OnlyLive, Phased, Live
<1>6. InBatch'
  BY <1>1, <1>2 DEF HoldInv, InBatch
<1>7. ObjectsOutliveEvents' /\ Handled'
  BY <1>1, <1>2, <1>5, Distinct DEF HoldInv, ObjectsOutliveEvents, Handled
<1> QED BY <1>3, <1>4, <1>5, <1>6, <1>7 DEF HoldInv

\* A Client is closed, by an event of its own.
LEMMA CloseHolds ==
    ASSUME HoldInv, NEW k \in Socks, Handle(OfClient(k)), CloseClient(k)
    PROVE  HoldInv'
BY LetGoHolds, Zenon DEF CloseClient

\* The number a Client is left with is given to another thread, or the Client
\* closes it.
LEMMA AgainHolds ==
    ASSUME HoldInv, NEW k \in Socks, NumberReused(k) \/ CloseAgain(k)
    PROVE  HoldInv'
<1>1. /\ client[k] = "thrown" /\ phase = "events" /\ OfClient(k) \in active
      /\ \A l \in Longs : long[l].near # k
      /\ UNCHANGED <<long, phase, batch, active>>
  BY DEF NumberReused, CloseAgain, CloseClient, Thrown, loopVars, HoldInv, Phased,
         Handled, Owned
<1>2. /\ client' \in [Socks -> {"none", "open", "thrown", "closed"}]
      /\ sock' \in [Socks -> {"off", "waiting", "open", "other"}]
      /\ client'[k] \in {"thrown", "closed"} /\ sock'[k] \in {"off", "other"}
      /\ \A j \in Socks \ {k} : client'[j] = client[j] /\ sock'[j] = sock[j]
  BY <1>1 DEF NumberReused, CloseAgain, CloseClient, HoldInv, ConnType
<1>3. ConnType'
  BY <1>1, <1>2 DEF HoldInv, ConnType
<1>4. Owned'
  BY <1>1, <1>2 DEF HoldInv, Owned
<1>5. OnlyLive' /\ Phased' /\ Live' = Live
  BY <1>1 DEF HoldInv, OnlyLive, Phased, Live
<1>6. InBatch'
  BY <1>1, <1>2 DEF HoldInv, InBatch
<1>7. ObjectsOutliveEvents' /\ Handled'
  BY <1>1, <1>2, <1>5 DEF HoldInv, ObjectsOutliveEvents, Handled
<1> QED BY <1>3, <1>4, <1>5, <1>6, <1>7 DEF HoldInv

\* A Client gives its descriptor to a new LongConnection.
LEMMA ConvertHolds ==
    ASSUME HoldInv, NEW k \in Socks, Handle(OfClient(k)), NEW l \in Longs,
           long[l].state = "new", NEW kind \in {"sub", "pop"},
           NEW o \in Objects, Convert(k, l, kind, o)
    PROVE  HoldInv'
<1>1. /\ OfClient(k) \in batch /\ client[k] = "open" /\ sock[k] = "open"
      /\ \A m \in Longs : long[m].near # k
      /\ phase' = "events" /\ sock' = sock
      /\ batch' = batch \ {OfClient(k)} /\ active' = active \cup {OfClient(k)}
  BY DEF HoldInv, InBatch, Owned, Handle, Convert
<1>2. /\ \A j \in Socks : client'[j] = IF j = k THEN "closed" ELSE client[j]
      /\ \A m \in Longs \ {l} : long'[m] = long[m]
      /\ long'[l].near = k /\ long'[l].far = TRUE /\ long'[l].state = "live"
  BY DEF HoldInv, ConnType, Convert
<1>3. ConnType'
  BY DEF HoldInv, ConnType, Convert, LongType
<1>4. /\ l \notin Live /\ long[l].near = Nil /\ Live' = Live \cup {l}
      /\ Near(l) \notin batch \cup active /\ Far(l) \notin batch \cup active
  <2>1. l \notin Live
    BY DEF Live
  <2>2. long[l].near = Nil
    BY <2>1 DEF HoldInv, OnlyLive
  <2>3. Live' = Live \cup {l}
    BY <1>2 DEF Live
  <2>4. Near(l) \notin batch \cup active /\ Far(l) \notin batch \cup active
    BY <2>1 DEF HoldInv, ObjectsOutliveEvents
  <2> QED BY <2>1, <2>2, <2>3, <2>4
<1>5. Owned'
  BY <1>1, <1>2, <1>4, ConnectionsAssumption DEF HoldInv, Owned
<1>6. OnlyLive' /\ Phased'
  BY <1>1, <1>2, <1>4, Zenon DEF HoldInv, OnlyLive, Phased
<1>7. InBatch'
  <2>1. \A j \in Socks : OfClient(j) \in batch' => client'[j] = "open"
    BY <1>1, <1>2, Zenon DEF HoldInv, InBatch
  <2>2. ASSUME NEW m \in Longs, Near(m) \in batch' \/ Far(m) \in batch',
               NEW j \in Socks, long'[m].near = j
        PROVE  client'[j] = "none"
    <3>1. m # l /\ long[m].near = j /\ j # k
      BY <1>1, <1>2, <1>4, <2>2, Zenon
    <3>2. client[j] = "none"
      BY <1>1, <2>2, <3>1, Zenon DEF HoldInv, InBatch
    <3> QED BY <1>2, <3>1, <3>2
  <2> QED BY <2>1, <2>2 DEF InBatch
<1>8. ObjectsOutliveEvents'
  BY <1>1, <1>4, Distinct DEF HoldInv, ObjectsOutliveEvents
<1>9. Handled'
  <2>1. \A j \in Socks : client'[j] \in {"closed", "thrown"} => OfClient(j) \in active'
    BY <1>1, <1>2 DEF HoldInv, Handled
  <2>2. \A m \in Live' : ~long'[m].far => Far(m) \in active'
    BY <1>1, <1>2, <1>4, Zenon DEF HoldInv, Handled, Live
  <2> QED BY <2>1, <2>2 DEF Handled
<1> QED BY <1>3, <1>5, <1>6, <1>7, <1>8, <1>9 DEF HoldInv

\* epoll reports the connections of objects that exist.
LEMMA ReadyFor ==
    /\ \A l : Near(l) \in Ready \/ Far(l) \in Ready => l \in Live
    /\ \A k : OfClient(k) \in Ready => k \in Socks /\ client[k] = "open"
<1>1. ASSUME NEW l, Near(l) \in Ready \/ Far(l) \in Ready
      PROVE  l \in Live
  BY <1>1 DEF Ready, Near, Far, OfClient, OfServer, Updater, Acceptor
<1>2. ASSUME NEW k, OfClient(k) \in Ready
      PROVE  k \in Socks /\ client[k] = "open"
  BY <1>2 DEF Ready, Near, Far, OfClient, OfServer, Updater, Acceptor
<1> QED BY <1>1, <1>2

\* A batch begins: the near ends of the inactive long connections are closed.
LEMMA WaitHolds ==
    ASSUME HoldInv, Wait
    PROVE  HoldInv'
<1> DEFINE ended == {long[l].near : l \in inactive} \ {Nil}
<1>1. /\ inactive \subseteq Live /\ phase' = "events" /\ client' = client
      /\ active = {} /\ active' = {} /\ batch' \subseteq Ready
      /\ \A l \in inactive : Near(l) \notin batch'
  BY DEF Wait, HoldInv, Phased
<1>2. /\ \A k \in Socks : sock'[k] = IF k \in ended THEN "off" ELSE sock[k]
      /\ \A l \in Longs \ inactive : long'[l] = long[l]
  BY DEF Wait
<1>3. \A l \in inactive : /\ long'[l] = [long[l] EXCEPT !.near = Nil]
                          /\ l \in Longs /\ long[l] \in LongType
  BY <1>1 DEF Wait, HoldInv, ConnType, Live
<1>4. \A l \in inactive : /\ long'[l].near = Nil /\ long'[l].far = long[l].far
                          /\ long'[l].state = long[l].state
  BY <1>3, Zenon DEF LongType
<1>5. Live' = Live
  BY <1>2, <1>4 DEF Live
<1>6. ConnType'
  <2>1. \A l \in inactive : long'[l] \in LongType
    BY <1>3, Zenon DEF LongType
  <2> QED BY <1>2, <2>1, Zenon DEF Wait, HoldInv, ConnType
<1>7. Owned'
  <2>1. ASSUME NEW k \in Socks, k \in ended
        PROVE  /\ sock'[k] = "off" /\ client'[k] # "open"
               /\ \A l \in Longs : long'[l].near # k
    <3>1. PICK m \in inactive : long[m].near = k /\ m \in Longs
      BY <2>1, <1>3, Zenon
    <3> QED BY <1>1, <1>2, <1>4, <3>1, ConnectionsAssumption DEF HoldInv, Owned
  <2>2. ASSUME NEW k \in Socks, k \notin ended
        PROVE  /\ sock'[k] = sock[k]
               /\ \A l \in Longs : long'[l].near = k <=> long[l].near = k
    BY <2>2, <1>2, <1>4, ConnectionsAssumption, Zenon
  <2>3. Owned /\ UNCHANGED client
    BY <1>1 DEF HoldInv
  <2> HIDE DEF ended
  <2> QED BY <2>1, <2>2, <2>3, OwnedReleased
<1>8. OnlyLive' /\ Phased'
  BY <1>1, <1>2, <1>4, <1>5 DEF HoldInv, OnlyLive, Phased
<1>9. /\ \A l \in Longs : Near(l) \in batch' \/ Far(l) \in batch' => l \in Live
      /\ \A k \in Socks : OfClient(k) \in batch' => client[k] = "open"
  BY <1>1, ReadyFor
<1>10. InBatch'
  <2>1. ASSUME NEW l \in Longs, NEW k \in Socks, long'[l].near = k
        PROVE  client'[k] = "none"
    <3>1. long[l].near = k
      BY <2>1, <1>2, <1>4, ConnectionsAssumption, Zenon
    <3>2. client[k] \in {"none", "closed"}
      BY <3>1 DEF HoldInv, ConnType, Owned
    <3> QED BY <1>1, <3>2 DEF HoldInv, Handled
  <2> QED BY <1>1, <1>9, <2>1 DEF InBatch
<1>11. ObjectsOutliveEvents'
  BY <1>1, <1>5, <1>9 DEF ObjectsOutliveEvents
<1>12. Handled'
  <2>1. \A l \in Live : long'[l].far = long[l].far
    BY <1>2, <1>4 DEF Live
  <2> QED BY <1>1, <1>5, <2>1 DEF HoldInv, Handled
<1> QED BY <1>6, <1>7, <1>8, <1>10, <1>11, <1>12 DEF HoldInv

\* A client connects.
LEMMA ConnectHolds ==
    ASSUME HoldInv, NEW k \in Socks, Connect(k)
    PROVE  HoldInv'
<1>1. \A j \in Socks : sock'[j] = IF j = k THEN "waiting" ELSE sock[j]
  BY DEF HoldInv, ConnType, Connect
<1>2. ConnType' /\ Owned'
  BY <1>1 DEF HoldInv, ConnType, Owned, Connect
<1>3. OnlyLive' /\ Phased' /\ InBatch' /\ ObjectsOutliveEvents' /\ Handled'
  BY Zenon DEF HoldInv, OnlyLive, Phased, InBatch, ObjectsOutliveEvents, Handled,
         Connect, Live, loopVars
<1> QED BY <1>2, <1>3 DEF HoldInv

\* Connections are accepted.
LEMMA AcceptHolds ==
    ASSUME HoldInv, NEW S \in SUBSET Waiting, Accept(S)
    PROVE  HoldInv'
<1>1. /\ long' = long /\ phase' = "events"
      /\ batch' \subseteq batch /\ active' = active \cup {Acceptor}
      /\ \A k \in Socks : client'[k] = IF k \in S THEN "open" ELSE client[k]
  BY DEF Accept, Handle
<1>2. /\ sock' \in [Socks -> {"off", "waiting", "open", "other"}]
      /\ \A k \in Socks : k \in S => sock'[k] = "open"
      /\ \A k \in Socks \ S : \/ sock'[k] = sock[k]
                              \/ sock[k] = "waiting" /\ sock'[k] = "off"
  BY DEF Accept, HoldInv, ConnType, Waiting
<1>3. \A k \in S : k \in Socks /\ sock[k] = "waiting" /\ client[k] = "none"
  BY DEF HoldInv, Owned, Waiting
<1>4. ConnType'
  BY <1>1, <1>2 DEF HoldInv, ConnType, Accept
<1>5. Owned'
  BY <1>1, <1>2, <1>3 DEF HoldInv, Owned
<1>6. OnlyLive' /\ Phased' /\ ObjectsOutliveEvents'
  BY <1>1, Others, Zenon DEF HoldInv, OnlyLive, Phased, ObjectsOutliveEvents, Live
<1>7. InBatch'
  BY <1>1, <1>3 DEF HoldInv, InBatch, Owned
<1>8. Handled'
  BY <1>1, Zenon DEF HoldInv, Handled, Live
<1> QED BY <1>4, <1>5, <1>6, <1>7, <1>8 DEF HoldInv

\* The loop over the events ends, or handle_events does.
LEMMA LoopHolds ==
    ASSUME HoldInv, EndEvents \/ Finish
    PROVE  HoldInv'
<1>1. ConnType' /\ Owned' /\ OnlyLive' /\ Phased'
  BY DEF HoldInv, ConnType, Owned, OnlyLive, Phased, Live, Thrown, EndEvents, Finish,
         longVars
<1>2. InBatch' /\ ObjectsOutliveEvents' /\ Handled'
  BY Zenon DEF HoldInv, InBatch, ObjectsOutliveEvents, Handled, Live, EndEvents, Finish,
         longVars
<1> QED BY <1>1, <1>2 DEF HoldInv

\* What after_events looks at.
LEMMA ClosedAre ==
    /\ \A l \in Longs : Near(l) \in ClosedEnds <=> long[l].near = Nil
    /\ \A l \in Longs : Far(l) \in ClosedEnds <=> ~long[l].far
    /\ \A c \in ClosedEnds : /\ c[2] \in Longs /\ c \in {Near(c[2]), Far(c[2])}
    /\ \A k \in Socks : OfClient(k) \in ClosedClients <=> client[k] = "closed"
    /\ \A c \in ClosedClients : c[2] \in Socks /\ c = OfClient(c[2])
<1>1. \A l \in Longs : Near(l) \in ClosedEnds <=> long[l].near = Nil
  BY Distinct DEF ClosedEnds
<1>2. \A l \in Longs : Far(l) \in ClosedEnds <=> ~long[l].far
  BY Distinct DEF ClosedEnds
<1>3. \A c \in ClosedEnds : c[2] \in Longs /\ c \in {Near(c[2]), Far(c[2])}
  BY Objs DEF ClosedEnds
<1>4. \A k \in Socks : OfClient(k) \in ClosedClients <=> client[k] = "closed"
  BY Distinct DEF ClosedClients
<1>5. \A c \in ClosedClients : c[2] \in Socks /\ c = OfClient(c[2])
  BY Objs DEF ClosedClients
<1> QED BY <1>1, <1>2, <1>3, <1>4, <1>5

\* A LongConnection is deleted at the end of the batch.
LEMMA FreeHolds ==
    ASSUME HoldInv, NEW l \in Longs, phase = "clean", Free(l),
           UNCHANGED <<phase, batch>>, NEW c \in {Near(l), Far(l)},
           active' = active \ ({c} \cup Erased(l))
    PROVE  HoldInv'
<1>1. /\ client' = client /\ batch = {} /\ batch' = {}
      /\ active' = active \ {Near(l), Far(l)}
  BY DEF Free, Erased, HoldInv, Phased
<1>2. /\ \A k \in Socks : sock'[k] = IF k = long[l].near THEN "off" ELSE sock[k]
      /\ \A m \in Longs \ {l} : long'[m] = long[m]
      /\ long'[l].near = Nil /\ long'[l].far = FALSE /\ long'[l].state = "freed"
  BY DEF Free, Freed, HoldInv, ConnType, LongType
<1>3. Live' = Live \ {l}
  BY <1>2 DEF Live
<1>4. ConnType'
  <2>1. long[l] \in LongType /\ long \in [Longs -> LongType]
    BY DEF HoldInv, ConnType
  <2>2. Freed(long[l]) \in LongType
    BY <2>1, Zenon DEF Freed, LongType
  <2>3. long' = [long EXCEPT ![l] = Freed(long[l])]
    BY <2>1, Zenon DEF Free
  <2>4. long' \in [Longs -> LongType]
    BY <2>1, <2>2, <2>3
  <2> QED BY <1>1, <2>4 DEF HoldInv, ConnType, Free
<1>5. Owned'
  <2>1. Owned
    BY DEF HoldInv
  <2>2. \A k \in Socks, m \in Longs : long'[m].near = k <=> m # l /\ long[m].near = k
    BY <1>2, ConnectionsAssumption, Zenon
  <2> SUFFICES ASSUME NEW k \in Socks
               PROVE  /\ sock'[k] = "open" <=>
                          client[k] = "open" \/ \E m \in Longs : long'[m].near = k
                      /\ sock'[k] = "waiting" => client[k] = "none"
                      /\ \A m \in Longs : long'[m].near = k =>
                          /\ client[k] \notin {"open", "thrown"}
                          /\ \A n \in Longs : long'[n].near = k => n = m
    BY <1>1 DEF Owned
  <2>3. CASE k = long[l].near
    <3>1. /\ sock'[k] = "off" /\ client[k] # "open"
          /\ \A m \in Longs : long'[m].near # k
      BY <1>2, <2>1, <2>2, <2>3 DEF Owned
    <3> QED BY <3>1
  <2>4. CASE k # long[l].near
    <3>1. sock'[k] = sock[k] /\ \A m \in Longs : long'[m].near = k <=> long[m].near = k
      BY <1>2, <2>2, <2>4, Zenon
    <3> QED BY <2>1, <3>1 DEF Owned
  <2> QED BY <2>3, <2>4
<1>6. OnlyLive' /\ Phased'
  BY <1>1, <1>2, <1>3, Zenon DEF HoldInv, OnlyLive, Phased
<1>7. InBatch' /\ ObjectsOutliveEvents'
  BY <1>1, <1>3, Distinct, Zenon DEF HoldInv, InBatch, ObjectsOutliveEvents
<1>8. Handled'
  <2>1. \A k \in Socks : client'[k] \in {"closed", "thrown"} => OfClient(k) \in active'
    BY <1>1, Distinct DEF HoldInv, Handled
  <2>2. \A m \in Live' : ~long'[m].far => Far(m) \in active'
    BY <1>1, <1>2, <1>3, Distinct, Zenon DEF HoldInv, Handled, Live
  <2> QED BY <2>1, <2>2 DEF Handled
<1> QED BY <1>4, <1>5, <1>6, <1>7, <1>8 DEF HoldInv

\* A Client is deleted at the end of the batch.
LEMMA DeleteHolds ==
    ASSUME HoldInv, NEW k \in Socks, phase = "clean", client[k] = "closed",
           Delete(k), UNCHANGED <<phase, batch>>,
           active' = active \ {OfClient(k)}
    PROVE  HoldInv'
<1>1. /\ sock' = sock /\ long' = long /\ batch = {} /\ batch' = {} /\ Live' = Live
      /\ \A j \in Socks : client'[j] = IF j = k THEN "none" ELSE client[j]
  BY DEF Delete, HoldInv, ConnType, Phased, Live
<1>2. ConnType'
  BY DEF HoldInv, ConnType, Delete
<1>3. Owned'
  BY <1>1 DEF HoldInv, Owned
<1>4. OnlyLive' /\ Phased' /\ InBatch' /\ ObjectsOutliveEvents'
  BY <1>1, Zenon DEF HoldInv, OnlyLive, Phased, InBatch, ObjectsOutliveEvents
<1>5. Handled'
  BY <1>1, Distinct, Zenon DEF HoldInv, Handled
<1> QED BY <1>2, <1>3, <1>4, <1>5 DEF HoldInv

\* after_events of c: it deletes the object c is closed of, or nothing.
LEMMA AfterEventsHolds ==
    ASSUME HoldInv, NEW c \in active, AfterEvents(c)
    PROVE  HoldInv'
<1>1. phase = "clean" /\ UNCHANGED <<phase, batch>>
  BY DEF AfterEvents
<1>2. CASE /\ c \in ClosedEnds /\ Free(c[2])
           /\ active' = active \ ({c} \cup Erased(c[2]))
  <2>1. c[2] \in Longs /\ c \in {Near(c[2]), Far(c[2])}
    BY <1>2, ClosedAre, Zenon
  <2> QED BY <1>1, <1>2, <2>1, FreeHolds
<1>3. CASE c \in ClosedClients /\ Delete(c[2]) /\ active' = active \ {c}
  <2>1. c[2] \in Socks /\ c = OfClient(c[2]) /\ client[c[2]] = "closed"
    BY <1>3, ClosedAre
  <2> QED BY <1>1, <1>3, <2>1, DeleteHolds
<1>4. CASE /\ c \notin ClosedEnds \cup ClosedClients /\ active' = active \ {c}
           /\ UNCHANGED longVars
  <2>1. /\ UNCHANGED <<sock, client, long>> /\ Live' = Live
        /\ batch = {} /\ batch' = {}
    BY <1>1, <1>4 DEF longVars, Live, HoldInv, Phased
  <2>2. /\ \A l \in Live : ~long[l].far => Far(l) # c
        /\ \A k \in Socks : client[k] \in {"closed", "thrown"} => OfClient(k) # c
    BY <1>1, <1>4, ClosedAre, Zenon DEF Live, HoldInv, Phased
  <2>3. ConnType' /\ Owned' /\ OnlyLive' /\ Phased' /\ InBatch'
    BY <1>1, <2>1 DEF HoldInv, ConnType, Owned, OnlyLive, Phased, InBatch
  <2>4. ObjectsOutliveEvents' /\ Handled'
    BY <1>4, <2>1, <2>2, Zenon DEF HoldInv, ObjectsOutliveEvents, Handled
  <2> QED BY <2>3, <2>4 DEF HoldInv
<1> QED BY <1>2, <1>3, <1>4 DEF AfterEvents

\* Every step preserves all of this.
LEMMA HoldNext ==
    ASSUME HoldInv, [Next]_vars
    PROVE  HoldInv'
<1>1. CASE Wait \/ EndEvents \/ Finish
  BY <1>1, WaitHolds, LoopHolds
<1>2. CASE UNCHANGED <<longVars, loopVars, fdClosed>>
  <2>1. ConnType' /\ Owned' /\ OnlyLive' /\ Phased'
    BY <1>2 DEF HoldInv, ConnType, Owned, OnlyLive, Phased, Live, longVars, loopVars
  <2>2. InBatch' /\ ObjectsOutliveEvents' /\ Handled'
    BY <1>2, Zenon DEF HoldInv, InBatch, ObjectsOutliveEvents, Handled, Live, longVars,
                loopVars
  <2> QED BY <2>1, <2>2 DEF HoldInv
<1>3. CASE WaitDangling
  BY <1>2, <1>3 DEF WaitDangling, Exit
<1>4. CASE \E c \in active : AfterEvents(c)
  BY <1>4, AfterEventsHolds
<1>5. ASSUME NEW k \in Socks,
             Connect(k) \/ ClientGone(k) \/ NumberReused(k) \/ CloseAgain(k)
      PROVE  HoldInv'
  BY <1>5, ConnectHolds, CloseHolds, AgainHolds, Zenon DEF ClientGone
<1>6. ASSUME NEW k \in Socks, NEW s \in Slots, NEW kind \in {"sub", "pop"},
             AskLong(k, kind, s) \/ AskLongThrows(k, kind, s)
      PROVE  HoldInv'
  <2>1. CASE Handle(OfClient(k)) /\ CloseClient(k)
    BY <2>1, CloseHolds
  <2>2. ASSUME NEW o \in Objects, NEW l \in Longs, long[l].state = "new",
               Handle(OfClient(k)), Convert(k, l, kind, o)
        PROVE  HoldInv'
    BY <2>2, ConvertHolds, Zenon
  <2>3. CASE AskLongThrows(k, kind, s)
    BY <2>3, LetGoHolds, Zenon DEF AskLongThrows
  <2> QED BY <1>6, <2>1, <2>2, <2>3, Zenon DEF AskLong
<1>7. ASSUME NEW k \in Socks, NEW s \in Slots, AskLongNull(k, s)
      PROVE  HoldInv'
  BY <1>7, HandleHolds, Zenon DEF AskLongNull, Exit
<1>8. ASSUME NEW S \in SUBSET Waiting, Accept(S)
      PROVE  HoldInv'
  BY <1>8, AcceptHolds
<1>9. ASSUME NEW l \in Longs,
             NearGone(l) \/ FarGone(l) \/ Message(l) \/ PopReply(l)
      PROVE  HoldInv'
  BY <1>9, EndEventIs, EndHolds
<1>10. ASSUME NEW l \in Longs, NearData(l) \/ BadIO(l) \/ RestoreFails(l) \/ BadReply(l)
       PROVE  HoldInv'
  BY <1>10, HandleHolds, Zenon DEF NearData, BadIO, RestoreFails, BadReply, Exit
<1>11. ASSUME NEW o \in Objects, ServerGone(o) \/ ServerData(o)
       PROVE  HoldInv'
  BY <1>11, HandleHolds DEF ServerGone, ServerData
<1>12. CASE Update \/ UpdateFailed
  BY <1>12, HandleHolds, Zenon DEF Update, UpdateFailed
<1>13. CASE UNCHANGED vars
  BY <1>2, <1>13 DEF vars
<1> QED BY <1>1, <1>3, <1>4, <1>5, <1>6, <1>7, <1>8, <1>9, <1>10, <1>11, <1>12,
           <1>13, Zenon DEF Next

\* At first there are no descriptors and no events.
LEMMA HoldInit ==
    ASSUME Init
    PROVE  HoldInv
<1>1. ConnType
  BY Zenon DEF Init, ConnType, LongType
<1>2. Owned /\ OnlyLive /\ Phased
  BY ConnectionsAssumption, Zenon DEF Init, Owned, OnlyLive, Phased
<1>3. InBatch /\ ObjectsOutliveEvents /\ Handled
  BY Zenon DEF Init, InBatch, ObjectsOutliveEvents, Handled, Live
<1> QED BY <1>1, <1>2, <1>3 DEF HoldInv

-----------------------------------------------------------------------------
(***************************************************************************)
(* Long connections and their Servers.                                     *)
(***************************************************************************)
\* The long connections of Servers that are closed become inactive.
LEMMA PoolAttached ==
    ASSUME Attached, NEW p, PoolBecomes(p), UNCHANGED long
    PROVE  Attached'
<1>1. /\ attached' = [o \in Objects |-> IF o \in p.shut THEN {} ELSE attached[o]]
      /\ inactive' = inactive \cup UNION {attached[o] : o \in Objects \cap p.shut}
      /\ Live' = Live /\ long' = long
  BY DEF PoolBecomes, Live
<1> DEFINE shut == p.shut
<1> HIDE DEF shut
<1> QED BY <1>1 DEF Attached, shut

\* Every step preserves what Servers and long connections know of each other.
LEMMA AttachedNext ==
    ASSUME HoldInv, Attached, [Next]_vars
    PROVE  Attached'
<1>0. long \in [Longs -> LongType]
  BY DEF HoldInv, ConnType
<1>1. CASE UNCHANGED <<long, attached, inactive>>
  BY <1>1, Zenon DEF Attached, Live
<1>2. CASE \E p : PoolBecomes(p) /\ UNCHANGED long
  BY <1>2, PoolAttached
<1>3. CASE Wait
  <2>1. /\ inactive \subseteq Live /\ attached' = attached /\ inactive' = {}
        /\ long' = [l \in Longs |-> IF l \in inactive
                        THEN [long[l] EXCEPT !.near = Nil] ELSE long[l]]
    BY <1>3 DEF Wait
  <2>2. \A l \in Longs : /\ long'[l].state = long[l].state
                         /\ long'[l].server = long[l].server
                         /\ l \in inactive => long'[l].near = Nil
                         /\ l \notin inactive => long'[l].near = long[l].near
    BY <1>0, <2>1 DEF LongType
  <2>3. Live' = Live
    BY <2>2 DEF Live
  <2> QED BY <2>1, <2>2, <2>3 DEF Attached, Live
<1>4. ASSUME NEW l \in Longs, NEW rec, NEW c, EndEvent(l, rec, c),
             UNCHANGED <<attached, inactive>>
      PROVE  Attached'
  <2>1. \A m \in Longs : /\ long'[m].state = long[m].state
                         /\ long'[m].server = long[m].server
                         /\ long'[m].near \in {long[m].near, Nil}
    BY <1>0, <1>4, Zenon DEF EndEvent
  <2>2. Live' = Live
    BY <2>1 DEF Live
  <2> QED BY <1>4, <2>1, <2>2, Zenon DEF Attached, Live
<1>5. ASSUME NEW l \in Longs, NEW k \in Socks, NEW kind, NEW o \in Objects,
             long[l].state = "new", Convert(k, l, kind, o)
      PROVE  Attached'
  <2>1. /\ attached' = [attached EXCEPT ![o] = @ \cup {l}] /\ inactive' = inactive
        /\ long'[l].state = "live" /\ long'[l].server = o /\ l \notin Live
        /\ \A m \in Longs \ {l} : long'[m] = long[m]
    BY <1>0, <1>5, Zenon DEF Convert, Live
  <2>2. Live' = Live \cup {l}
    BY <2>1, Zenon DEF Live
  <2> QED BY <2>1, <2>2 DEF Attached, Live
<1>6. ASSUME NEW l \in Live, Free(l)
      PROVE  Attached'
  <2>1. /\ attached' = [attached EXCEPT ![long[l].server] = @ \ {l}]
        /\ inactive' = inactive /\ long'[l].state = "freed"
        /\ \A m \in Longs \ {l} : long'[m] = long[m]
    BY <1>0, <1>6 DEF Free, Freed, Live, LongType
  <2>2. Live' = Live \ {l}
    BY <2>1, Zenon DEF Live
  <2> QED BY <2>1, <2>2 DEF Attached, Live
<1>7. CASE \E c \in active : AfterEvents(c)
  <2>1. PICK c \in active : AfterEvents(c)
    BY <1>7
  <2>2. CASE c \in ClosedEnds /\ Free(c[2])
    <3>1. c[2] \in Live
      BY <2>2, ClosedAre, Zenon DEF HoldInv, ObjectsOutliveEvents
    <3> QED BY <1>6, <2>2, <3>1
  <2> QED BY <1>1, <2>1, <2>2, Zenon DEF AfterEvents, Delete, poolVars, longVars
<1>8. ASSUME NEW k \in Socks, NEW s \in Slots, NEW kind \in {"sub", "pop"},
             AskLong(k, kind, s) \/ AskLongThrows(k, kind, s)
      PROVE  Attached'
  BY <1>1, <1>5, <1>8, Zenon DEF AskLong, AskLongThrows, CloseClient, poolVars
<1>9. ASSUME NEW l \in Longs,
             NearGone(l) \/ FarGone(l) \/ Message(l) \/ PopReply(l)
      PROVE  Attached'
  <2>1. UNCHANGED <<attached, inactive>>
    BY <1>9 DEF NearGone, FarGone, Message, PopReply, poolVars
  <2> QED BY <1>4, <1>9, <2>1, EndEventIs
<1>10. ASSUME NEW o \in Objects, ServerGone(o) \/ ServerData(o)
       PROVE  Attached'
  BY <1>1, <1>2, <1>10, Zenon DEF ServerGone, ServerData, longVars, poolVars
<1>11. CASE Update \/ UpdateFailed
  BY <1>2, <1>11, Zenon DEF Update, UpdateFailed, longVars
<1>12. CASE WaitDangling \/ EndEvents \/ Finish \/ UNCHANGED vars
  BY <1>1, <1>12, Zenon DEF WaitDangling, Exit, EndEvents, Finish, vars, poolVars, longVars
<1>13. ASSUME NEW k \in Socks,
              \/ Connect(k) \/ ClientGone(k) \/ NumberReused(k) \/ CloseAgain(k)
              \/ \E s \in Slots : AskLongNull(k, s)
       PROVE  Attached'
  BY <1>1, <1>13, Zenon
  DEF Connect, ClientGone, NumberReused, CloseAgain, CloseClient, AskLongNull, Exit,
      poolVars, longVars
<1>14. ASSUME NEW S, Accept(S)
       PROVE  Attached'
  BY <1>1, <1>14, Zenon DEF Accept, poolVars
<1>15. ASSUME NEW l \in Longs, NearData(l) \/ BadIO(l) \/ RestoreFails(l) \/ BadReply(l)
       PROVE  Attached'
  BY <1>1, <1>15, Zenon DEF NearData, BadIO, RestoreFails, BadReply, Exit, poolVars, longVars
<1> QED BY <1>3, <1>7, <1>8, <1>9, <1>10, <1>11, <1>12, <1>13, <1>14, <1>15, Zenon
        DEF Next

-----------------------------------------------------------------------------
(***************************************************************************)
(* The acceptor.                                                           *)
(***************************************************************************)
\* A step that leaves the acceptor alone and adds no waiting connection: an
\* acceptor that has stopped is passed over, or will be woken, or there is no
\* more room than there was.
LEMMA StillAwake ==
    ASSUME FlagsInv, UNCHANGED acceptVars, Waiting' \subseteq Waiting,
           slipped' \in BOOLEAN, fdClosed' \in BOOLEAN, slipped => slipped',
           \/ ~accepting => slipped'
           \/ Due'
           \/ Room' = Room /\ (Due => Due')
    PROVE  FlagsInv'
<1>1. FlagType'
  BY DEF FlagsInv, FlagType, acceptVars
<1>2. Stopped'
  BY DEF FlagsInv, Stopped, acceptVars
<1>3. Woken'
  BY DEF FlagsInv, Woken, acceptVars
<1> QED BY <1>1, <1>2, <1>3 DEF FlagsInv

\* What is counted of the descriptors are those of clients, of far ends and of
\* Servers.
LEMMA SameRoom ==
    ASSUME UNCHANGED pool,
           \A k \in Socks : sock'[k] = "open" <=> sock[k] = "open",
           \A l \in Longs : long'[l].far <=> long[l].far
    PROVE  Room' = Room
<1>1. {k \in Socks : sock'[k] = "open"} = {k \in Socks : sock[k] = "open"}
  OBVIOUS
<1>2. {l \in Longs : long'[l].far} = {l \in Longs : long[l].far}
  OBVIOUS
<1>3. OpenObjects(pool)' = OpenObjects(pool)
  BY DEF OpenObjects
<1> QED BY <1>1, <1>2, <1>3, Zenon DEF Room, Used

\* An event that changes none of the descriptors.
LEMMA QuietAwake ==
    ASSUME FlagsInv, UNCHANGED <<pool, longVars, fdClosed, acceptVars, slipped>>,
           active \subseteq active'
    PROVE  FlagsInv'
<1>1. Room' = Room
  BY SameRoom DEF longVars
<1>2. Due => Due'
  BY DEF Due, Thrown, ClosedEnds, ClosedClients, longVars
<1>3. Waiting' = Waiting
  BY DEF Waiting, longVars
<1> QED BY <1>1, <1>2, <1>3, StillAwake DEF FlagsInv, FlagType

\* A Client or an end of a long connection that is closed in the batch will be
\* found by after_events.
LEMMA ClosedDue ==
    /\ \A k \in Socks : client'[k] = "thrown" => Due'
    /\ \A k \in Socks : client'[k] = "closed" /\ OfClient(k) \in active' => Due'
    /\ \A l \in Longs : long'[l].near = Nil /\ Near(l) \in active' => Due'
    /\ \A l \in Longs : ~long'[l].far /\ Far(l) \in active' => Due'
BY Zenon DEF Due, Thrown, ClosedEnds, ClosedClients

\* A batch begins.  Only the near ends of inactive long connections are closed,
\* which sets fdClosed.
LEMMA WaitAwake ==
    ASSUME HoldInv, FlagsInv, Wait
    PROVE  FlagsInv'
<1>1. /\ UNCHANGED <<acceptVars, slipped, active, pool, client>>
      /\ fdClosed' = (fdClosed \/ inactive # {})
  BY DEF Wait
<1>2. Waiting' \subseteq Waiting
  BY DEF Wait, Waiting
<1>3. CASE inactive # {}
  <2>1. fdClosed' /\ fdClosed' \in BOOLEAN /\ slipped' \in BOOLEAN
    BY <1>1, <1>3, Zenon DEF FlagsInv, FlagType
  <2> QED BY <1>1, <1>2, <2>1, StillAwake, Zenon DEF Due
<1>4. CASE inactive = {}
  <2>1. sock' = sock /\ long' = long
    BY <1>4 DEF Wait, HoldInv, ConnType
  <2>2. UNCHANGED longVars /\ UNCHANGED fdClosed
    BY <1>1, <1>4, <2>1 DEF longVars, FlagsInv, FlagType
  <2> QED BY <1>1, <2>2, QuietAwake
<1> QED BY <1>3, <1>4

\* The end of handle_events: the acceptor is turned on again.
LEMMA FinishAwake ==
    ASSUME HoldInv, FlagsInv, Finish
    PROVE  FlagsInv'
<1>1. FlagType'
  <2>1. fdClosed' \in BOOLEAN /\ accepting' \in BOOLEAN
    BY Zenon DEF FlagsInv, FlagType, Finish, TurnOn
  <2>2. edge' \in BOOLEAN /\ slipped' \in BOOLEAN
    BY DEF FlagsInv, FlagType, Finish
  <2> QED BY <2>1, <2>2 DEF FlagType
<1>2. Room' = Room /\ Waiting' = Waiting
  BY SameRoom, Zenon DEF Finish, poolVars, longVars, Waiting
<1>3. Stopped'
  <2>1. Thrown = {} /\ active = {}
    BY DEF HoldInv, Phased, Thrown, Finish
  <2> QED BY <1>2, <2>1 DEF FlagsInv, FlagType, Stopped, Finish, TurnOn, Due
<1>4. Woken'
  BY <1>2 DEF FlagsInv, FlagType, Woken, Finish, TurnOn
<1> QED BY <1>1, <1>3, <1>4 DEF FlagsInv

\* A client connects.
LEMMA ConnectAwake ==
    ASSUME HoldInv, FlagsInv, NEW k \in Socks, Connect(k)
    PROVE  FlagsInv'
<1>1. FlagType'
  BY Zenon DEF FlagsInv, FlagType, Connect
<1>2. Room' = Room
  <2>1. \A j \in Socks : sock'[j] = "open" <=> sock[j] = "open"
    BY DEF HoldInv, ConnType, Connect
  <2> QED BY <2>1, SameRoom, Zenon DEF Connect, poolVars
<1>3. Due' = Due
  BY Zenon DEF Due, Connect, Thrown, ClosedEnds, ClosedClients, loopVars
<1>4. Stopped'
  BY <1>2, <1>3, Zenon DEF FlagsInv, FlagType, Stopped, Connect
<1>5. accepting' = accepting /\ (accepting => edge')
  BY Zenon DEF FlagsInv, FlagType, Connect
<1>6. Woken'
  BY <1>5 DEF Woken
<1> QED BY <1>1, <1>4, <1>6 DEF FlagsInv

\* The acceptor stops when it has taken the last descriptor.
LEMMA AcceptFull ==
    ASSUME NEW S \in SUBSET Waiting, UNCHANGED <<pool, long>>,
           Cardinality(S) = Room,
           sock' = [k \in Socks |-> IF k \in S THEN "open" ELSE sock[k]]
    PROVE  Room' = 0
<1> DEFINE O == {k \in Socks : sock[k] = "open"}
           F == Cardinality({l \in Longs : long[l].far})
           P == Cardinality(OpenObjects(pool))
<1>1. /\ IsFiniteSet(O) /\ IsFiniteSet(S)
      /\ IsFiniteSet({l \in Longs : long[l].far})
      /\ IsFiniteSet(OpenObjects(pool))
  <2>1. IsFiniteSet(O)
    BY ConnectionsAssumption, FS_Subset
  <2>2. IsFiniteSet(S)
    BY ConnectionsAssumption, FS_Subset, Zenon DEF Waiting
  <2>3. IsFiniteSet({l \in Longs : long[l].far})
    BY ConnectionsAssumption, FS_Subset, Zenon
  <2>4. IsFiniteSet(OpenObjects(pool))
    <3>1. IsFiniteSet(Objects)
      BY PoolAssumption, FS_Interval DEF Objects
    <3> QED BY <3>1, FS_Subset, Zenon DEF OpenObjects
  <2> QED BY <2>1, <2>2, <2>3, <2>4, Zenon
<1>2. O \cap S = {} /\ {k \in Socks : sock'[k] = "open"} = O \cup S
  BY DEF Waiting
<1>3. Cardinality(O \cup S) = Cardinality(O) + Cardinality(S)
  <2>1. Cardinality({}) = 0
    BY FS_EmptySet
  <2>2. /\ Cardinality(O \cup S)
             = Cardinality(O) + Cardinality(S) - Cardinality(O \cap S)
        /\ Cardinality(O) \in Nat /\ Cardinality(S) \in Nat
    BY <1>1, FS_Union, FS_CardinalityType, Zenon
  <2>3. Cardinality(O \cap S) = 0
    BY <1>2, <2>1, Zenon
  <2> HIDE DEF O
  <2> QED BY <2>1, <2>2, <2>3
<1>4. Cardinality(O) \in Nat /\ Cardinality(S) \in Nat /\ F \in Nat /\ P \in Nat
  BY <1>1, FS_CardinalityType, Zenon
<1>5. Room = FdLimit - (Cardinality(O) + F) - P
  BY Zenon DEF Room, Used
<1>6. Room' = FdLimit - (Cardinality(O \cup S) + F) - P
  BY <1>2, Zenon DEF Room, Used
<1> HIDE DEF O, F, P
<1> QED BY <1>3, <1>4, <1>5, <1>6, PoolAssumption

\* The acceptor has taken connections, and met an error.
LEMMA AcceptAwake ==
    ASSUME HoldInv, FlagsInv, NEW S \in SUBSET Waiting, Accept(S)
    PROVE  FlagsInv'
<1>1. /\ UNCHANGED <<pool, long, fdClosed>> /\ active \subseteq active'
      /\ edge' = FALSE /\ Thrown = {}
      /\ \A k \in Socks : client'[k] = IF k \in S THEN "open" ELSE client[k]
  BY Zenon DEF Accept, Handle, poolVars
<1>2. Due => Due'
  <2>1. \A k \in Socks : client[k] = "closed" => client'[k] = "closed"
    BY <1>1, Zenon DEF HoldInv, Owned, Waiting
  <2>2. ClosedClients \subseteq ClosedClients'
    BY <2>1, Zenon DEF ClosedClients
  <2>3. ClosedEnds' = ClosedEnds
    BY <1>1, Zenon DEF ClosedEnds
  <2> QED BY <1>1, <2>2, <2>3, Zenon DEF Due
<1>3. CASE /\ Cardinality(S) = Room /\ accepting' = FALSE /\ UNCHANGED slipped
           /\ sock' = [k \in Socks |-> IF k \in S THEN "open" ELSE sock[k]]
  <2>1. Room' = 0
    BY <1>1, <1>3, AcceptFull, Zenon
  <2> QED BY <1>1, <1>3, <2>1, Zenon DEF FlagsInv, FlagType, Stopped, Woken
<1>4. CASE /\ Cardinality(S) < Room /\ S = Waiting
           /\ UNCHANGED <<accepting, slipped>>
           /\ sock' = [k \in Socks |-> IF k \in S THEN "open" ELSE sock[k]]
  <2>1. Waiting' = {}
    BY <1>4, Zenon DEF Waiting
  <2>2. Room # 0
    <3>1. IsFiniteSet(S)
      BY ConnectionsAssumption, FS_Subset DEF Waiting
    <3>2. Cardinality(S) \in Nat
      BY <3>1, FS_CardinalityType
    <3> QED BY <1>4, <3>2
  <2>3. FlagType' /\ Woken'
    BY <1>1, <1>4, <2>1, Zenon DEF FlagsInv, FlagType, Woken
  <2>4. Stopped'
    BY <1>2, <1>4, <2>2 DEF FlagsInv, Stopped
  <2> QED BY <2>3, <2>4 DEF FlagsInv
<1>5. CASE slipped' = TRUE /\ UNCHANGED accepting
  BY <1>1, <1>5, Zenon DEF FlagsInv, FlagType, Stopped, Woken
<1> QED BY <1>3, <1>4, <1>5, Zenon DEF Accept

\* A Client is closed or converted.
LEMMA ClientAwake ==
    ASSUME HoldInv, FlagsInv, NEW k \in Socks, OfClient(k) \in active',
           UNCHANGED <<acceptVars, slipped, fdClosed>>,
           CloseClient(k) \/ \E l, kind, o : Convert(k, l, kind, o)
    PROVE  FlagsInv'
<1>1. client'[k] = "closed" /\ OfClient(k) \in active'
  BY Zenon DEF HoldInv, ConnType, CloseClient, Convert
<1>2. Waiting' \subseteq Waiting
  BY Zenon DEF HoldInv, ConnType, Waiting, CloseClient, Convert
<1> QED BY <1>1, <1>2, ClosedDue, StillAwake, Zenon DEF FlagsInv, FlagType

\* The far end of a new long connection could not be made, or the number of the
\* descriptor closed thereby is used by another thread, or closed once more.
LEMMA ThrownAwake ==
    ASSUME HoldInv, FlagsInv, NEW k \in Socks,
           \/ \E kind, s : AskLongThrows(k, kind, s)
           \/ NumberReused(k) \/ CloseAgain(k)
    PROVE  FlagsInv'
<1>1. UNCHANGED <<acceptVars, slipped, fdClosed>>
  BY Zenon DEF AskLongThrows, NumberReused, CloseAgain
<1>2. CASE CloseAgain(k)
  <2>1. OfClient(k) \in active' /\ CloseClient(k)
    BY <1>2 DEF CloseAgain, Thrown, HoldInv, Handled, loopVars
  <2> QED BY <1>1, <2>1, ClientAwake, Zenon
<1>3. CASE \/ \E kind, s : AskLongThrows(k, kind, s)
           \/ NumberReused(k)
  <2>1. client'[k] = "thrown"
    BY <1>3, Zenon DEF AskLongThrows, NumberReused, Thrown, HoldInv, ConnType
  <2>2. Waiting' \subseteq Waiting
    BY <1>3, Zenon DEF AskLongThrows, NumberReused, Waiting, HoldInv, ConnType
  <2> QED BY <1>1, <2>1, <2>2, ClosedDue, StillAwake, Zenon DEF FlagsInv, FlagType
<1> QED BY <1>2, <1>3

\* An event of an end of a long connection.
LEMMA EndAwake ==
    ASSUME HoldInv, FlagsInv, NEW l \in Longs,
           NearGone(l) \/ FarGone(l) \/ Message(l) \/ PopReply(l)
    PROVE  FlagsInv'
<1>0. long \in [Longs -> LongType] /\ long[l] \in LongType
  BY DEF HoldInv, ConnType
<1>1. /\ UNCHANGED <<pool, fdClosed, acceptVars, slipped>>
      /\ Waiting' \subseteq Waiting
  BY Zenon DEF NearGone, FarGone, Message, PopReply, poolVars, Waiting, longVars,
         RestoreClient
<1>2. CASE Due'
  BY <1>1, <1>2, StillAwake, Zenon DEF FlagsInv, FlagType
<1>3. CASE active \subseteq active' /\ UNCHANGED longVars
  BY <1>1, <1>3, QuietAwake
<1>4. CASE NearGone(l)
  <2>1. long'[l].near = Nil /\ Near(l) \in active'
    BY <1>0, <1>4 DEF NearGone, Handle, LongType
  <2> QED BY <1>2, <2>1, ClosedDue, Zenon
<1>5. CASE FarGone(l)
  <2>1. ~long'[l].far /\ Far(l) \in active'
    <3>1. CASE long[l].kind = "pop"
      <4>1. long' = [long EXCEPT ![l] = [long[l] EXCEPT !.far = FALSE,
                                                        !.near = Nil]]
        BY <1>0, <1>5, <3>1 DEF FarGone, LongType, RestoreClient, Restored
      <4> QED BY <1>0, <1>5, <4>1 DEF FarGone, Handle, LongType
    <3>2. CASE long[l].kind # "pop"
      BY <1>0, <1>5, <3>2 DEF FarGone, Handle, LongType
    <3> QED BY <3>1, <3>2, Zenon
  <2> QED BY <1>2, <2>1, ClosedDue, Zenon
<1>6. CASE Message(l)
  <2>1. active \subseteq active' /\ Far(l) \in active' /\ UNCHANGED <<sock, client>>
    BY <1>6 DEF Message, Handle
  <2>2. UNCHANGED long \/ ~long'[l].far
    BY <1>0, <1>6 DEF Message, LongType
  <2> QED BY <1>2, <1>3, <2>1, <2>2, ClosedDue, Zenon DEF longVars
<1>7. CASE PopReply(l)
  <2>1. active \subseteq active' /\ Far(l) \in batch /\ Thrown = {}
    BY <1>7, Zenon DEF PopReply, Handle
  <2>2. CASE RestoreClient(l, long[l])
    <3>1. UNCHANGED sock /\ \A m \in Longs : long'[m].far = long[m].far
      BY <1>0, <2>2 DEF RestoreClient, Restored, LongType
    <3>2. \A m \in Longs : long[m].near = Nil => long'[m].near = Nil
      BY <1>0, <2>2 DEF RestoreClient, Restored, LongType
    <3>3. \A k \in Socks : client[k] = "closed" => client'[k] = "closed"
      BY <2>1, <2>2, Zenon DEF RestoreClient, HoldInv, InBatch
    <3>4. Due => Due'
      <4>1. ClosedClients \subseteq ClosedClients'
        BY <3>3, Zenon DEF ClosedClients
      <4>2. ClosedEnds \subseteq ClosedEnds'
        BY <3>1, <3>2, Zenon DEF ClosedEnds
      <4> QED BY <1>1, <2>1, <4>1, <4>2, Zenon DEF Due
    <3>5. Room' = Room
      BY <1>1, <3>1, SameRoom, Zenon
    <3> QED BY <1>1, <3>4, <3>5, StillAwake, Zenon DEF FlagsInv, FlagType
  <2> QED BY <1>3, <1>7, <2>1, <2>2, Zenon DEF PopReply
<1> QED BY <1>4, <1>5, <1>6, <1>7

\* The end of a batch.
LEMMA AfterEventsAwake ==
    ASSUME HoldInv, FlagsInv, NEW c \in active, AfterEvents(c)
    PROVE  FlagsInv'
<1>1. UNCHANGED acceptVars
  BY Zenon DEF AfterEvents
<1>2. CASE Free(c[2])
  <2>1. Waiting' \subseteq Waiting /\ UNCHANGED fdClosed
    <3>1. UNCHANGED fdClosed /\ \A k \in Socks : sock'[k] \in {"off", sock[k]}
      BY <1>2, Zenon DEF Free
    <3> QED BY <3>1, Zenon DEF Waiting
  <2>2. slipped' = (slipped \/ ~accepting)
    BY <1>2 DEF Free
  <2>3. slipped' \in BOOLEAN /\ fdClosed' \in BOOLEAN
    BY <2>1, <2>2, Zenon DEF FlagsInv, FlagType
  <2>4. (slipped => slipped') /\ (~accepting => slipped')
    BY <2>2, Zenon
  <2> QED BY <1>1, <2>1, <2>3, <2>4, StillAwake, Zenon
<1>3. CASE Delete(c[2])
  <2>1. Waiting' = Waiting /\ UNCHANGED slipped /\ fdClosed' = TRUE
    BY <1>3 DEF Delete, FdClosed, Waiting
  <2> QED BY <1>1, <2>1, StillAwake, Zenon DEF FlagsInv, FlagType, Due
<1>4. CASE /\ c \notin ClosedEnds \cup ClosedClients /\ active' = active \ {c}
           /\ UNCHANGED <<poolVars, longVars, fdClosed, slipped>>
  <2>1. Room' = Room /\ Waiting' = Waiting
    BY <1>4, SameRoom, Zenon DEF poolVars, longVars, Waiting
  <2>2. Due => Due'
    BY <1>4, Zenon DEF Due, Thrown, ClosedEnds, ClosedClients, longVars
  <2> QED BY <1>1, <1>4, <2>1, <2>2, StillAwake, Zenon DEF FlagsInv, FlagType
<1> QED BY <1>2, <1>3, <1>4, Zenon DEF AfterEvents

\* Every step keeps the acceptor awake.
LEMMA FlagsNext ==
    ASSUME HoldInv, FlagsInv, [Next]_vars
    PROVE  FlagsInv'
<1>1. CASE /\ UNCHANGED <<pool, longVars, fdClosed, acceptVars, slipped>>
           /\ active \subseteq active'
  BY <1>1, QuietAwake
<1>2. CASE Wait \/ Finish
  BY <1>2, WaitAwake, FinishAwake
<1>3. CASE WaitDangling \/ EndEvents \/ UNCHANGED vars
  BY <1>1, <1>3, Zenon DEF WaitDangling, Exit, EndEvents, vars, poolVars, loopVars
<1>4. CASE \E c \in active : AfterEvents(c)
  BY <1>4, AfterEventsAwake
<1>5. ASSUME NEW k \in Socks,
             Connect(k) \/ ClientGone(k) \/ NumberReused(k) \/ CloseAgain(k)
      PROVE  FlagsInv'
  BY <1>5, ConnectAwake, ClientAwake, ThrownAwake, Zenon DEF ClientGone, Handle
<1>6. ASSUME NEW k \in Socks, NEW s \in Slots, NEW kind \in {"sub", "pop"},
             AskLong(k, kind, s) \/ AskLongThrows(k, kind, s)
      PROVE  FlagsInv'
  <2>1. CASE AskLong(k, kind, s)
    <3>1. /\ OfClient(k) \in active' /\ UNCHANGED <<acceptVars, slipped, fdClosed>>
          /\ CloseClient(k) \/ \E l, o : Convert(k, l, kind, o)
      BY <2>1, Zenon DEF AskLong, Handle
    <3> QED BY <3>1, ClientAwake, Zenon
  <2> QED BY <1>6, <2>1, ThrownAwake, Zenon
<1>7. ASSUME NEW k \in Socks, NEW s \in Slots, AskLongNull(k, s)
      PROVE  FlagsInv'
  BY <1>1, <1>7, Zenon DEF AskLongNull, Exit, Handle, poolVars
<1>8. ASSUME NEW S \in SUBSET Waiting, Accept(S)
      PROVE  FlagsInv'
  BY <1>8, AcceptAwake
<1>9. ASSUME NEW l \in Longs,
             NearGone(l) \/ FarGone(l) \/ Message(l) \/ PopReply(l)
      PROVE  FlagsInv'
  BY <1>9, EndAwake
<1>10. ASSUME NEW l \in Longs, NearData(l) \/ BadIO(l) \/ RestoreFails(l) \/ BadReply(l)
       PROVE  FlagsInv'
  BY <1>1, <1>10, Zenon DEF NearData, BadIO, RestoreFails, BadReply, Exit, Handle, poolVars
<1>11. CASE /\ UNCHANGED <<longVars, fdClosed, acceptVars>>
            /\ slipped' = (slipped \/ ~accepting)
  <2>1. slipped' \in BOOLEAN /\ fdClosed' \in BOOLEAN
    BY <1>11, Zenon DEF FlagsInv, FlagType
  <2>2. (slipped => slipped') /\ (~accepting => slipped')
    BY <1>11, Zenon
  <2>3. Waiting' = Waiting
    BY <1>11 DEF longVars, Waiting
  <2> QED BY <1>11, <2>1, <2>2, <2>3, StillAwake, Zenon
<1>12. ASSUME NEW o \in Objects, ServerGone(o)
       PROVE  FlagsInv'
  <2>1. CASE pool.open[o]
    <3>1. slipped' = (slipped \/ ~accepting)
      BY <1>12, <2>1, Zenon DEF ServerGone
    <3> QED BY <1>11, <1>12, <3>1 DEF ServerGone
  <2>2. CASE ~pool.open[o]
    <3>1. slipped' = slipped
      BY <1>12, <2>2, Zenon DEF ServerGone, FlagsInv, FlagType
    <3> QED BY <1>1, <1>12, <2>2, <3>1, Zenon DEF ServerGone, Handle, poolVars
  <2> QED BY <2>1, <2>2
<1>13. ASSUME NEW o \in Objects, ServerData(o)
       PROVE  FlagsInv'
  BY <1>1, <1>13, Zenon DEF ServerData, Handle, poolVars
<1>14. CASE Update \/ UpdateFailed
  <2>1. /\ UNCHANGED <<longVars, fdClosed, acceptVars>>
        /\ slipped' = (slipped \/ ~accepting)
    BY <1>14, Zenon DEF Update, UpdateFailed
  <2> QED BY <1>11, <2>1
<1> QED BY <1>2, <1>3, <1>4, <1>5, <1>6, <1>7, <1>8, <1>9, <1>10, <1>12, <1>13,
           <1>14, Zenon DEF Next

-----------------------------------------------------------------------------
(***************************************************************************)
(* The theorems.                                                           *)
(***************************************************************************)
\* The invariant holds of the initial states, and every step preserves it.
LEMMA ConnCorrect == Spec => []ConnInv
<1>1. Init => ConnInv
  <2>1. ASSUME Init
        PROVE  Attached
    BY <2>1, Zenon DEF Init, Attached, Live
  <2>2. ASSUME Init
        PROVE  FlagsInv
    <3>1. Waiting = {}
      BY <2>2, Zenon DEF Init, Waiting
    <3> QED BY <2>2, <3>1, Zenon DEF Init, FlagsInv, FlagType, Stopped, Woken
  <2> QED BY <2>1, <2>2, HoldInit DEF ConnInv
<1>2. ConnInv /\ [Next]_vars => ConnInv'
  BY HoldNext, AttachedNext, FlagsNext DEF ConnInv
<1> QED BY <1>1, <1>2, PTL DEF Spec

\* Each descriptor of a client has one owner while it is open, and none when it
\* is not: conversion to a long connection and restore_client hand it over.
\* Only while the exception of a far end's constructor is on its way does a
\* Client have the number of a closed one, and it alone.
THEOREM DescriptorsOwned == Spec => []OneOwner
<1>1. ConnInv => OneOwner
  <2> SUFFICES ASSUME ConnInv, NEW k \in Socks
               PROVE  /\ Cardinality(Holders(k))
                           = IF sock[k] = "open" \/ k \in Thrown THEN 1 ELSE 0
                      /\ k \in Thrown => sock[k] # "open" /\ phase = "events"
    BY DEF OneOwner
  <2>1. ConnType /\ Owned /\ OnlyLive
    BY DEF ConnInv, HoldInv
  <2>2. k \in Thrown => sock[k] # "open" /\ phase = "events"
    BY <2>1 DEF Owned, Thrown, ConnInv, HoldInv, Phased
  <2>3. CASE client[k] \in {"open", "thrown"}
    <3>1. Holders(k) = {OfClient(k)}
      BY <2>1, <2>3 DEF Holders, Owned, Live
    <3>2. Cardinality(Holders(k)) = 1
      BY <3>1, FS_Singleton, Zenon
    <3>3. sock[k] = "open" \/ k \in Thrown
      BY <2>1, <2>3, Zenon DEF Owned, Thrown
    <3> QED BY <2>2, <3>2, <3>3, Zenon
  <2>4. ASSUME NEW l \in Longs, long[l].near = k
        PROVE  Cardinality(Holders(k)) = 1 /\ sock[k] = "open"
    <3>1. l \in Live
      BY <2>1, <2>4, ConnectionsAssumption, Zenon DEF OnlyLive
    <3>2. Holders(k) = {Near(l)}
      BY <2>1, <2>4, <3>1 DEF Holders, Owned, Live
    <3>3. Cardinality(Holders(k)) = 1
      BY <3>2, FS_Singleton, Zenon
    <3> QED BY <2>1, <2>4, <3>3, Zenon DEF Owned
  <2>5. CASE /\ client[k] \notin {"open", "thrown"}
             /\ \A l \in Longs : long[l].near # k
    <3>1. Holders(k) = {}
      BY <2>5, Zenon DEF Holders, Live
    <3>2. Cardinality(Holders(k)) = 0
      BY <3>1, FS_EmptySet, Zenon
    <3>3. sock[k] # "open" /\ k \notin Thrown
      BY <2>1, <2>5, Zenon DEF Owned, Thrown
    <3> QED BY <2>2, <3>2, <3>3, Zenon
  <2> QED BY <2>2, <2>3, <2>4, <2>5, Zenon
<1> QED BY <1>1, ConnCorrect, PTL

\* No deleted LongConnection is called, in whatever order a batch has the
\* events of its two ends.
THEOREM EventsOfLive == Spec => []ObjectsOutliveEvents
<1>1. ConnInv => ObjectsOutliveEvents
  BY DEF ConnInv, HoldInv
<1> QED BY <1>1, ConnCorrect, PTL

\* Every long connection keeps an end whose event can delete it, and its Server
\* knows of it.
THEOREM LongsKept == Spec => []LongsAttended
<1>1. ConnInv => LongsAttended
  <2> SUFFICES ASSUME ConnInv
               PROVE  LongsAttended
    OBVIOUS
  <2>1. phase = "wait" => \A l \in Live : long[l].far
    BY DEF ConnInv, HoldInv, Phased, Handled
  <2>2. /\ \A l \in Live : long[l].near # Nil
                            => l \in attached[long[l].server] \cup inactive
        /\ \A o \in Objects : attached[o] \subseteq Live
    BY Zenon DEF ConnInv, Attached
  <2> QED BY <2>1, <2>2, Zenon DEF LongsAttended
<1> QED BY <1>1, ConnCorrect, PTL

\* The acceptor never sleeps while connections wait and there is room.
THEOREM AcceptorWakes == Spec => []AcceptorAwake
<1>1. ConnInv => AcceptorAwake
  BY DEF ConnInv, HoldInv, Phased, FlagsInv, Stopped, Woken, Due, Thrown, AcceptorAwake
<1> QED BY <1>1, ConnCorrect, PTL
=============================================================================
