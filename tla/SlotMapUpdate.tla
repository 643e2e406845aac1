--------------------------- MODULE SlotMapUpdate ---------------------------
(***************************************************************************)
(* The slot map and its updates: SlotMap, SlotsMapUpdater and the part of  *)
(* Proxy that installs a new map, or gives up, and retries or discards the *)
(* commands that wait for it.                                              *)
(***************************************************************************)
EXTENDS ServerConn

(***************************************************************************)
(* The slot map.                                                           *)
(***************************************************************************)
Mapped(S) == {slotmap[x] : x \in S} \ {Nul}

\* get_server opens a connection to each server of the map that has none.
ToConnect(nm) == {s \in Range(nm) : ~up[s]}

ReadonlyRefNone == <<>>

\* With -r, READONLY is written to a new connection (ReadonlyRequest), and a
\* null reference takes its reply (ReadonlyRef).
ReadonlyRequest == IF ReadOnly THEN <<Nul>> ELSE <<>>
ReadonlyRef == IF ReadOnly THEN <<Nul>> ELSE <<>>

\* An updater has brought the map nm: replace_map connects the servers that
\* are not connected and maps the slots, then closes the servers removed.
UpdaterDone(nm) ==
    LET new == ToConnect(nm)
    IN  /\ updating
        /\ phase = "events"
        /\ Updater \notin active
        /\ batch < MaxBatch
        /\ batch' = batch + 1
        /\ active' = active \cup {Updater} \cup new
        /\ updating' = FALSE
        /\ up' = [s \in Servers |-> up[s] \/ s \in new]
        /\ sent' = [s \in Servers |-> IF s \in new THEN ReadonlyRef ELSE sent[s]]
        /\ wire' = [s \in Servers |-> IF s \in new THEN ReadonlyRequest
                                                  ELSE wire[s]]
        /\ want' = want \cup new
        /\ slotmap' = [x \in Slots |-> IF x \in DOMAIN nm THEN nm[x]
                                                          ELSE slotmap[x]]
        /\ closing' = {s \in Mapped(DOMAIN nm) \ Range(nm) : up[s]}
        /\ phase' = "replace"
        /\ UNCHANGED <<client, commands, output, spoll, retrying, expired,
                       groupVars, faults>>

\* No updater has brought a usable map: SlotMap::clear closes the servers.
UpdaterFailed ==
    /\ updating
    /\ Dispatch(Updater)
    /\ Fault
    /\ updating' = FALSE
    /\ closing' = {s \in Mapped(Slots) : up[s]}
    /\ phase' = "clear"
    /\ UNCHANGED <<client, serverVars, retrying, slotmap, expired, want, groupVars>>

\* replace_map and clear close one server after the other; the event of one
\* may still be to come in this batch, and finds it closed.
CloseRemoved(s) ==
    /\ phase \in {"replace", "clear"}
    /\ s \in closing
    /\ CloseConn(s, retrying, commands[s], sent[s])
    /\ commands' = [commands EXCEPT ![s] = <<>>]
    /\ closing' = closing \ {s}
    /\ \/ UNCHANGED <<active, batch>>
       \/ /\ batch \in 1..(MaxBatch - 1)
          /\ s \notin active
          /\ active' = active \cup {s}
          /\ batch' = batch + 1
    /\ UNCHANGED <<client, spoll, slotmap, expired, updating, groupVars,
                   phase, faults>>

RetriedNotPolled(To) == want

\* poll_rw for the servers that get a retried command.
RetriedPolled(To) == want \cup (Range(To) \ {Nul})

\* The rest of _set_slot_map: the commands to retry are sent on their way, and
\* their servers registered for writing at once.
SetSlotMap ==
    LET To == [m \in Range(retrying) |-> Target(m)]
    IN  /\ phase = "replace"
        /\ closing = {}
        /\ commands' = Routed(retrying, To)
        /\ retrying' = Unrouted(retrying, To)
        /\ client' = [c \in Clients |-> AddPeers(client[c], c, To)]
        /\ expired' = (Nul \in Range(To))
        /\ want' = RetriedPolled(To)
        /\ phase' = "events"
        /\ UNCHANGED <<up, sent, output, wire, spoll, slotmap, updating,
                       groupVars, closing, active, batch, faults>>

\* poll_ctl: the open connections are registered as their entries in
\* _conn_poll_type say.
PollEntry(x, cls) == IF x \in Clients THEN cls[x].poll ELSE spoll[x]
IsOpen(x, cls) == IF x \in Clients THEN cls[x].fd = "open" ELSE up[x]
PollCtl(cls) ==
    {x \in Clients \cup Servers :
        IsOpen(x, cls) /\ \/ PollEntry(x, cls) = "rw"
                          \/ PollEntry(x, cls) = "none" /\ x \in want}
PollDone(cls) == [c \in Clients |-> [cls[c] EXCEPT !.poll = "none"]]
NoPoll == [s \in Servers |-> "none"]

\* The rest of _update_slot_map_failed: the commands to retry are answered
\* with CLUSTERDOWN.  When no updater could be started at all this comes after
\* the batch, and poll_ctl is run once more.
Discard ==
    /\ phase = "clear"
    /\ closing = {}
    /\ slotmap' = [x \in Slots |-> Nul]
    /\ CountResponses(Range(retrying))
    /\ LET cls == Responded(Range(retrying), client)
       IN  IF batch = 0
           THEN /\ client' = PollDone(cls)
                /\ spoll' = NoPoll
                /\ want' = PollCtl(cls)
           ELSE /\ client' = cls
                /\ UNCHANGED <<spoll, want>>
    /\ retrying' = <<>>
    /\ expired' = FALSE
    /\ phase' = "events"
    /\ UNCHANGED <<up, commands, sent, output, wire, updating, stage, issued,
                   closing, active, batch, faults>>
=============================================================================
