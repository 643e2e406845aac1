---------------------------- MODULE MCConnections ----------------------------
(***************************************************************************)
(* Small instances of Connections: four redis nodes and two slots.         *)
(***************************************************************************)
EXTENDS Connections

CONSTANTS Na, Nb, Nc, Nd,   \* addresses, and the nodes at them
          k1, k2, l1, l2    \* sockets and long connections

Of(addr, host, flags, master, ranges) ==
    [words |-> 8 + Len(ranges), id |-> addr, host |-> host, flags |-> flags,
     master |-> master, ranges |-> ranges]

Slave(addr, flags) == Of(addr, addr, flags \cup {"slave"}, Na, <<>>)
All == Of(Na, Nil, {"myself", "master"}, Nil, <<SlotRange("range", 0, 1)>>)
Header == [Slave(Na, {}) EXCEPT !.words = 1]

Told(lines) == [from |-> Na, lines |-> <<Header>> \o lines]

\* A slot for each of two masters, one moving; after a failover one master
\* with both, and three slaves, of which one fails; and answers that do not
\* cover all slots: a master is suspected, has no address, or has a line that
\* cannot be read.
TwoMasters(flags, host, more) ==
    Told(<<Of(Na, Nil, {"myself", "master"}, Nil,
              <<SlotRange("range", 0, 0), SlotRange("moving", 1, 1)>>),
           Of(Nb, host, flags \cup {"master"}, Nil,
              <<SlotRange("range", 1, 1)>> \o more)>>)

SomeAnswers ==
    {TwoMasters({}, Nb, <<>>),
     Told(<<Slave(Nd, {"fail"}), All, Slave(Nb, {}), Slave(Nc, {})>>),
     TwoMasters({"fail?"}, Nb, <<>>), TwoMasters({}, Nil, <<>>),
     TwoMasters({}, Nb, <<SlotRange("junk", 0, 0)>>)}

Symmetric == Permutations(Socks) \cup Permutations(Longs)
=============================================================================
