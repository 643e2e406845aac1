------------------------------ MODULE MCProxy ------------------------------
(***************************************************************************)
(* Small instances of Proxy: two redis nodes n1 and n2, two slots x and y, *)
(* and one of four workloads.                                              *)
(***************************************************************************)
EXTENDS Proxy, TLC

CONSTANTS c1, c2,           \* clients
          n1, n2,           \* redis nodes
          x, y,             \* slots
          g1, g2, g3, ping, subscribe,  \* requests
          m1, m2, m3, m4    \* commands

OneClient == {c1}
TwoClients == {c1, c2}
TwoServers == {n1, n2}
TwoSlots == {x, y}

\* A map, the map after slot x has migrated, and a partial map that tells of
\* the migration alone.
Before == (x :> n1) @@ (y :> n2)
After  == (x :> n2) @@ (y :> n2)
Moved  == x :> n2
BeforeMap == {Before}
FullMaps  == {Before, After}
MovedMaps == {Before, Moved}

\* Pipe: c1 sends a GET, a PING, an MGET of keys in both slots and a GET, in
\* a pipeline.
PipeGroups   == {ping, g1, g2, g3}
PipeCommands == {m1, m2, m3, m4}
PipeClientOf == [g \in PipeGroups |-> c1]
PipeGroupOf  == (m1 :> g1) @@ (m2 :> g2) @@ (m3 :> g2) @@ (m4 :> g3)
PipeRequests == c1 :> <<g1, ping, g2, g3>>
PipeScript   == c1 :> <<m1, m2, m3, m4>>
PipeSteps    == (m1 :> <<x>>) @@ (m2 :> <<x>>) @@ (m3 :> <<y>>) @@ (m4 :> <<y>>)

\* Live: c1 sends an MGET of keys in both slots and then a PING.
LiveGroups   == {g1, ping}
LiveCommands == {m1, m2}
LiveClientOf == [g \in LiveGroups |-> c1]
LiveGroupOf  == (m1 :> g1) @@ (m2 :> g1)
LiveRequests == c1 :> <<g1, ping>>
LiveScript   == c1 :> <<m1, m2>>
LiveSteps    == (m1 :> <<x>>) @@ (m2 :> <<y>>)

\* Rename: c1 renames a key of slot x to one of slot y, c2 sends a GET.
RenameGroups   == {g1, g2}
RenameCommands == {m1, m2}
RenameClientOf == (g1 :> c1) @@ (g2 :> c2)
RenameGroupOf  == (m1 :> g1) @@ (m2 :> g2)
RenameRequests == (c1 :> <<g1>>) @@ (c2 :> <<g2>>)
RenameScript   == (c1 :> <<m1>>) @@ (c2 :> <<m2>>)
RenameSteps    == (m1 :> <<x, y, x>>) @@ (m2 :> <<y>>)

\* Long: c1 sends a GET, a PING and a SUBSCRIBE.
LongSet      == {subscribe}
LongGroupSet == {g1, ping, subscribe}
LongCommands == {m1}
LongClientOf == [g \in LongGroupSet |-> c1]
LongGroupOf  == m1 :> g1
LongRequests == c1 :> <<g1, ping, subscribe>>
LongScript   == c1 :> <<m1>>
LongSteps    == m1 :> <<x>>
=============================================================================
