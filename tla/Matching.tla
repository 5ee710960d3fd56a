------------------------------- MODULE Matching -------------------------------
(***************************************************************************)
(* The decisions of the matching loop (crates/clob-engine/src/matching.rs) *)
(* as operators on a book and an order: when the loop goes on, how much is *)
(* filled and what the fill does to the maker.  MatchingEngine takes the   *)
(* loop step by step, Recovery a whole call at a time.                     *)
(***************************************************************************)
EXTENDS OrderBook

(* taker.price.unwrap_or(ZERO) for a bid, unwrap_or(MAX) for an ask. *)
LimitPrice(o) ==
  IF o.price # NoPrice THEN o.price
  ELSE IF o.side = "Bid" THEN 0 ELSE MaxPrice

(* Mutant of Crosses: equal prices do not match. *)
CrossesStrictly(o, price) ==
  \/ o.order_type = "Market"
  \/ IF o.side = "Bid" THEN price < LimitPrice(o) ELSE price > LimitPrice(o)

(* The price check of match_against_book; sweep_book has none. *)
Crosses(o, price) ==
  \/ o.order_type = "Market"
  \/ IF o.side = "Bid" THEN price <= LimitPrice(o) ELSE price >= LimitPrice(o)

(* Mutants of Matches: the price is not checked; the loop stops with one
   unit left. *)
MatchesAnyPrice(b, o) ==
  Remaining(o) > 0 /\ HasBest(b, Opposite(o.side))

MatchesLeavesOne(b, o) ==
  /\ Remaining(o) > 1
  /\ HasBest(b, Opposite(o.side))
  /\ Crosses(o, Best(b, Opposite(o.side)))

(* The loop condition of match_against_book and of sweep_book. *)
Matches(b, o) ==
  /\ Remaining(o) > 0
  /\ HasBest(b, Opposite(o.side))
  /\ Crosses(o, Best(b, Opposite(o.side)))

(* Mutant of FillQty: the maker's remaining quantity is not considered. *)
FillQtyOfTaker(b, o, key) == Remaining(o)

FillQty(b, o, key) ==
  IF Remaining(o) < Remaining(b.orders[key])
  THEN Remaining(o) ELSE Remaining(b.orders[key])

(* The status that follows from the filled quantity after a fill. *)
WithStatus(o) ==
  [o EXCEPT !.status = IF o.filled >= o.quantity
                       THEN "Filled" ELSE "PartiallyFilled"]

(* filled += qty, then the status. *)
Filled(o, qty) == WithStatus([o EXCEPT !.filled = o.filled + qty])

(* Mutant of FillMaker: a filled maker stays at the front of its level. *)
FillMakerKeeps(b, side, key, price, qty) ==
  BookOf([orders |-> Put(b.orders, key, Filled(b.orders[key], qty)),
          vacant |-> b.vacant, len |-> b.len],
         b.index, b.levels)

(* The book after the maker at key has been filled by qty: a maker with
   nothing left is popped from the front of its level. *)
FillMaker(b, side, key, price, qty) ==
  LET maker  == Filled(b.orders[key], qty)
      marked == BookOf([orders |-> Put(b.orders, key, maker),
                        vacant |-> b.vacant, len |-> b.len],
                       b.index, b.levels)
  IN  IF Remaining(maker) <= 0 THEN PopFront(marked, side, price) ELSE marked
===============================================================================
