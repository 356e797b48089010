--------------------------- MODULE MCEventDelivery ---------------------------
(***************************************************************************)
(* Instance of EventDelivery for TLC: one client with two subscriptions to *)
(* a session and to the roster; a line has events for both or for none.    *)
(***************************************************************************)
EXTENDS EventDelivery, TLC

\* Subscription ids are compared and nothing else.
Symmetry == Permutations(SubIds)
=============================================================================
