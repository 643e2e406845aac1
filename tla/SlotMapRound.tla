---------------------------- MODULE SlotMapRound ----------------------------
(***************************************************************************)
(* What a thread's slot map updaters amount to, as Proxy.tla assumes it:   *)
(* a round begins, and ends once, with a map installed, a complete one if  *)
(* it has to be, or with the map cleared; then nothing changes the slots   *)
(* served before the batch of events is over.                              *)
(***************************************************************************)
CONSTANTS Threads, Slots

VARIABLES
    updating,   \* the threads that have a round going on
    settled,    \* the threads whose round has ended in the batch at hand
    served,     \* the slots that the map of each thread has a server for
    reqFullCov  \* whether a map has to be complete

Init ==
    /\ updating = {}
    /\ settled = {}
    /\ served = [t \in Threads |-> {}]
    /\ reqFullCov \in BOOLEAN

Begin(t) ==
    /\ t \notin updating
    /\ updating' = updating \cup {t}
    /\ settled' = settled \ {t}
    /\ UNCHANGED served

End(t) ==
    /\ t \in updating
    /\ updating' = updating \ {t}
    /\ settled' = settled \cup {t}

\* The slots of the new map get their server, the others keep theirs.
Install(t, S) ==
    /\ End(t)
    /\ S # {}
    /\ reqFullCov => S = Slots
    /\ served' = [served EXCEPT ![t] = @ \cup S]

Fail(t) ==
    /\ End(t)
    /\ served' = [served EXCEPT ![t] = {}]

\* The batch is over, and no new round begins; it may be that one should have
\* and no node could be asked.
BatchOver(t) ==
    /\ t \notin updating
    /\ settled' = settled \ {t}
    /\ served' \in {served, [served EXCEPT ![t] = {}]}
    /\ UNCHANGED updating

Next ==
    /\ \E t \in Threads : \/ Begin(t)
                          \/ \E S \in SUBSET Slots : Install(t, S)
                          \/ Fail(t)
                          \/ BatchOver(t)
    /\ UNCHANGED reqFullCov

Spec == Init /\ [][Next]_<<updating, settled, served, reqFullCov>>
=============================================================================
