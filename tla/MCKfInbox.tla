----------------------------- MODULE MCKfInbox -----------------------------
(***************************************************************************)
(* Instance for TLC: the poll worker w and a callback goroutine c1, with   *)
(* two messages that come in within one day, or one and the days after it. *)
(***************************************************************************)
EXTENDS KfInbox, TLC

CONSTANTS w, c1

OneCallback == {c1}
TextMsgs == {1, 2}

\* Two messages are in each other's way on the day they come and in their first attempts; what is
\* tried again and what is purged, each on its own.
Bounds == arrived <= 1 \/ (day = 0 /\ \A m \in Msgs : row[m].attempts <= 1)
=============================================================================
