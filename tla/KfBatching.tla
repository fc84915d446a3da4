----------------------------- MODULE KfBatching -----------------------------
(***************************************************************************)
(* What the debounce of server/kf_debounce.go promises for one session: a  *)
(* message is received once, waits, and is handed to the agent once, in    *)
(* one batch with others that were waiting.                                *)
(***************************************************************************)
CONSTANT Msgs

VARIABLES waiting, batches

Init == waiting = {} /\ batches = {}

Arrive(m) ==
    /\ m \notin waiting \cup UNION batches
    /\ waiting' = waiting \cup {m}
    /\ UNCHANGED batches

HandOver(batch) ==
    /\ batch # {}
    /\ waiting' = waiting \ batch
    /\ batches' = batches \cup {batch}

Next ==
    \/ \E m \in Msgs : Arrive(m)
    \/ \E batch \in SUBSET waiting : HandOver(batch)

Spec == Init /\ [][Next]_<<waiting, batches>>
=============================================================================
