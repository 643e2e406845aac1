---------------------------- MODULE ClusterNodes ----------------------------
(***************************************************************************)
(* The answer to CLUSTER NODES and what is read from it: parse_slot_map.   *)
(*                                                                         *)
(* A line is given with its words told apart: how many they are, the id,   *)
(* the host of the address (Nil if it is empty), the flags, the id of the  *)
(* master (Nil for "-"), and the ranges.  The ports play no part.          *)
(***************************************************************************)
EXTENDS Integers, Sequences, Functions

CONSTANTS
    Addrs,          \* the addresses of the redis nodes, and their ids
    Slots,          \* the key slots
    Nil             \* the null pointer, the empty address, descriptor -1

Flags == {"myself", "master", "slave", "fail", "fail?"}

\* A range; slots on their way ("[...") ; or a word that is no number.
SlotRange(is, first, last) == [is |-> is, first |-> first, last |-> last]
SlotRanges ==
    {SlotRange(is, i, j) : is \in {"range", "moving", "junk"}, i \in Slots, j \in Slots}

Line == [words : Nat, id : Addrs, host : Addrs \cup {Nil}, flags : SUBSET Flags,
         master : Addrs \cup {Nil}, ranges : Seq(SlotRanges)]

\* An answer, and the host that gave it.
Answer == [from : Addrs, lines : Seq(Line)]

\* A RedisNode; a master's "master" is Nil.
Node == [addr : Addrs \cup {Nil}, id : Addrs, master : Addrs \cup {Nil},
         slots : SUBSET Slots]

RangesAre(is, line) == {r \in Range(line.ranges) : r.is = is}

\* parse_node, for a line without junk, and the host put in for an empty one.
ParseNode(line, defaultHost) ==
    [addr |-> IF line.host = Nil /\ "myself" \in line.flags
              THEN defaultHost ELSE line.host,
     id |-> line.id,
     master |-> line.master,
     slots |-> UNION {r.first..r.last : r \in RangesAre("range", line)}]

\* Lines that are too short, of a node that fails or may fail, or for which
\* parse_node throws, are left out.
Discarded(line) ==
    \/ line.words < 8
    \/ line.flags \cap {"fail", "fail?"} # {}
    \/ RangesAre("junk", line) # {}

ParseSlotMap(answer) ==
    LET kept == SelectSeq(answer.lines, LAMBDA line : ~Discarded(line))
    IN  [i \in 1..Len(kept) |-> ParseNode(kept[i], answer.from)]

\* _recv_rsp: _covered_slots, of the nodes that have an address.
CoveredSlots(nodes) == UNION {n.slots : n \in {m \in Range(nodes) : m.addr # Nil}}
=============================================================================
