--------------------------- MODULE MCWecomIngress ---------------------------
(***************************************************************************)
(* Instance for TLC: the main shop s1 and its branch s2, with the same     *)
(* customer-service account or with two, and one callback of each kind.    *)
(***************************************************************************)
EXTENDS WecomIngress, TLC

CONSTANTS s1, s2, k1, k2, nokf, noid

Callbacks == {[id |-> 1, kind |-> "event", kf |-> k1], [id |-> 2, kind |-> "event", kf |-> k2],
              [id |-> 3, kind |-> "text", kf |-> nokf], [id |-> noid, kind |-> "contact", kf |-> nokf]}
=============================================================================
