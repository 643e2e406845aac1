------------------------------ MODULE Service ------------------------------
(***************************************************************************)
(* What the proxy promises each client: the replies to its requests, one   *)
(* for each, in the order it sent them, for as long as it stays connected. *)
(***************************************************************************)
EXTENDS Naturals, Sequences

CONSTANTS Clients, Requests     \* Requests \in [Clients -> Seq(request)]

VARIABLES
    asked,      \* how many of its requests each client has sent
    got,        \* the replies each client has received
    gone        \* the clients that have been disconnected

vars == <<asked, got, gone>>

Init ==
    /\ asked = [c \in Clients |-> 0]
    /\ got = [c \in Clients |-> <<>>]
    /\ gone = {}

\* A client sends some requests and receives some of the replies due, or its
\* connection ends; once it has ended nothing more is exchanged on it.
Turn(c) ==
    /\ c \notin gone
    /\ \E n \in asked[c]..Len(Requests[c]) :
       \E k \in Len(got[c])..n :
            /\ asked' = [asked EXCEPT ![c] = n]
            /\ got' = [got EXCEPT ![c] = SubSeq(Requests[c], 1, k)]
    /\ gone' \in {gone, gone \cup {c}}

Next == \E c \in Clients : Turn(c)

Spec == Init /\ [][Next]_vars

\* Each request is answered in the end, unless its client is disconnected.
Responsive ==
    \A c \in Clients : \A n \in 1..Len(Requests[c]) :
        (asked[c] >= n) ~> (Len(got[c]) >= n \/ c \in gone)
=============================================================================
