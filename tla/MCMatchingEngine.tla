--------------------------- MODULE MCMatchingEngine ---------------------------
(* The matching engine on a small instance. *)
EXTENDS MatchingEngine

CONSTANTS id1, id2, id3

(* Uuids are only ever compared for equality, so it is enough to hand them
   out in one order. *)
IdsInOrder ==
  \E n \in 0..3 : DOMAIN placed = {<<id1, id2, id3>>[i] : i \in 1..n}

(* A refused order leaves nothing behind but the history of having been
   placed, so one such order stands for all. *)
RefusedAlike ==
  \A id \in DOMAIN placed : placed[id].quantity = 0 =>
    /\ placed[id].side = "Bid"
    /\ placed[id].order_type = "Limit"
    /\ placed[id].price = NoPrice

Representative == IdsInOrder /\ RefusedAlike
=============================================================================
