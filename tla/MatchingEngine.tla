----------------------------- MODULE MatchingEngine -----------------------------
(***************************************************************************)
(* The matching engine (crates/clob-engine/src/matching.rs).  It is owned  *)
(* by one thread and has two entry points, process_order and cancel.  A    *)
(* call of process_order is Accept (or Reject), then one ExecuteFill per   *)
(* iteration of the matching loop, then Finish; between Accept and Finish  *)
(* the taker is in flight and no other call can begin, which is what       *)
(* taker # NoOrder says.                                                   *)
(***************************************************************************)
EXTENDS Matching

CONSTANTS
  Quantities,   \* the quantities orders may carry
  NoOrder,      \* no call of process_order is in progress
  MaxSequence   \* bound on the calls of next_sequence

ASSUME EngineAssumption ==
  /\ Quantities \subseteq Int
  /\ NoOrder \notin Order
  /\ MaxSequence \in Nat

VARIABLES
  book,      \* MatchingEngine::book
  sequence,  \* MatchingEngine::sequence
  taker,     \* the order process_order is working on, or NoOrder
  fills,     \* the Vec<Fill> of the current, or the last, call
  result,    \* what the last call returned
  offset,    \* the number of orders handed to the engine so far
  (* History, read only by the properties. *)
  placed,    \* id -> the order as it was handed to process_order
  traded     \* id -> quantity over all fills the id took part in

vars == <<book, sequence, taker, fills, result, offset, placed, traded>>

Result == {"None", "Fills", "Resting", "Cancelled", "InvalidQuantity",
           "OrderNotFound"}

Fill == [maker : Ids, taker : Ids, price : Prices, quantity : Int,
         sequence : Nat]
-----------------------------------------------------------------------------
Init ==
  /\ book = EmptyBook
  /\ sequence = 0
  /\ taker = NoOrder
  /\ fills = << >>
  /\ result = "None"
  /\ offset = 0
  /\ placed = EmptyMap
  /\ traded = [id \in Ids |-> 0]

Idle == taker = NoOrder

(* The orders a caller builds: nothing filled, open, a fresh id, numbered in
   the order of arrival (the consumer stamps the Kafka offset).  Neither a
   limit order without a price nor a market order with one is refused. *)
Incoming ==
  [id : Ids \ DOMAIN placed, side : Side, order_type : OrderType,
   price : Prices \cup {NoPrice}, quantity : Quantities, filled : {0},
   status : {"Open"}, sequence : {offset + 1}]

(* process_order: a quantity that is not positive is refused before
   anything else happens. *)
Reject(o) ==
  /\ Idle
  /\ o.quantity <= 0
  /\ offset' = offset + 1
  /\ placed' = Put(placed, o.id, o)
  /\ result' = "InvalidQuantity"
  /\ fills' = << >>
  /\ UNCHANGED <<book, sequence, taker, traded>>

Accept(o) ==
  /\ Idle
  /\ o.quantity > 0
  /\ offset' = offset + 1
  /\ placed' = Put(placed, o.id, o)
  /\ taker' = o
  /\ fills' = << >>
  /\ UNCHANGED <<book, sequence, result, traded>>

(* One iteration of the loop: execute_fill at the best opposing price.  Its
   early returns (no such maker, nothing to fill) change nothing, and the
   loop would come back to the same state for ever. *)
ExecuteFill ==
  LET side  == Opposite(taker.side)
      price == Best(book, side)
      key   == BestFront(book, side)
      qty   == FillQty(book, taker, key)
      maker == book.orders[key].id
  IN  /\ ~Idle
      /\ Matches(book, taker)
      /\ IF key \notin DOMAIN book.orders \/ qty <= 0
         THEN UNCHANGED vars
         ELSE /\ sequence' = sequence + 1
              /\ book' = FillMaker(book, side, key, price, qty)
              /\ taker' = Filled(taker, qty)
              /\ fills' = Append(fills,
                            [maker |-> maker, taker |-> taker.id,
                             price |-> price, quantity |-> qty,
                             sequence |-> sequence + 1])
              /\ traded' = [traded EXCEPT ![maker] = @ + qty,
                                          ![taker.id] = @ + qty]
              /\ UNCHANGED <<result, offset, placed>>

(* The end of process_limit and of process_market: the rest of a limit order
   goes into the book, unless insert_order refuses it; the rest of a market
   order is discarded.  A refused rest is an error, and an error carries no
   fills. *)
Finish ==
  LET rests   == taker.order_type = "Limit" /\ Remaining(taker) > 0
      refused == rests /\ InsertRejected(taker)
  IN  /\ ~Idle
      /\ ~Matches(book, taker)
      /\ taker' = NoOrder
      /\ book' = IF rests /\ ~refused THEN InsertOrder(book, taker) ELSE book
      /\ result' = IF refused THEN "InvalidQuantity"
                   ELSE IF rests /\ fills = << >> THEN "Resting" ELSE "Fills"
      /\ fills' = IF refused THEN << >> ELSE fills
      /\ UNCHANGED <<sequence, offset, placed, traded>>

(* cancel: every book error is reported as OrderNotFound. *)
Cancel(id) ==
  /\ Idle
  /\ book' = IF CancelRejected(book, id) THEN book ELSE CancelOrder(book, id)
  /\ result' = IF CancelRejected(book, id) THEN "OrderNotFound" ELSE "Cancelled"
  /\ fills' = << >>
  /\ UNCHANGED <<sequence, taker, offset, placed, traded>>

(* next_sequence. *)
NextSequence ==
  /\ Idle
  /\ sequence < MaxSequence
  /\ sequence' = sequence + 1
  /\ UNCHANGED <<book, taker, fills, result, offset, placed, traded>>

Next ==
  \/ \E o \in Incoming : Reject(o) \/ Accept(o)
  \/ ExecuteFill
  \/ Finish
  \/ \E id \in Ids : Cancel(id)
  \/ NextSequence

Spec == Init /\ [][Next]_vars

(* The engine thread runs its loop to the end: a step of a call in progress
   is not postponed for ever. *)
FairSpec == Spec /\ WF_vars(ExecuteFill) /\ WF_vars(Finish)
-----------------------------------------------------------------------------
(* Every variable holds a value of its type, in particular every map of the
   book is a map over slab keys, ids and prices. *)
TypeOK ==
  /\ IsBook(book)
  /\ sequence \in Nat
  /\ taker \in Order \cup {NoOrder}
  /\ fills \in Seq(Fill)
  /\ result \in Result
  /\ offset \in Nat
  /\ IsMap(placed, Ids, Order)
  /\ traded \in [Ids -> Int]

(* The four structures of the book tell one story, also half way through a
   call: every live order is in exactly one queue, of its side and price,
   and in the index; every queued key and every indexed key is a live order
   (self.orders[key] in cancel_order cannot panic); no level is empty; no
   completed order is left behind (AlreadyComplete cannot happen). *)
BookConsistent ==
  /\ SlabSound(book)
  /\ LevelsSound(book)
  /\ QueuedOnce(book)
  /\ LevelsComplete(book)
  /\ IndexSound(book)
  /\ LiveOrdersOpen(book)

(* The best bid is always below the best ask, also between two fills of a
   call: invariant_book_bid_ask_never_cross for every history. *)
NeverCrossed == Uncrossed(book)

(* What an order has been filled by never exceeds its quantity, over all
   calls it took part in as maker or as taker, and the filled field of the
   live order and of the order in flight is exactly that amount. *)
FillsConserved ==
  /\ \A id \in DOMAIN placed :
       traded[id] > 0 => traded[id] <= placed[id].quantity
  /\ \A k \in DOMAIN book.orders :
       LET o == book.orders[k]
       IN  /\ o.id \in DOMAIN placed
           /\ o.filled = traded[o.id]
           /\ o.quantity = placed[o.id].quantity
  /\ ~Idle => /\ taker.id \in DOMAIN placed
              /\ taker.filled = traded[taker.id]
              /\ taker.quantity = placed[taker.id].quantity

(* No order trades at a price worse than its limit, and every fill is at the
   price its maker was placed with, whatever the taker offered. *)
FillsHonourLimits ==
  \A i \in 1..Len(fills) :
    /\ fills[i].price = placed[fills[i].maker].price
    /\ placed[fills[i].maker].side # placed[fills[i].taker].side
    /\ Crosses(placed[fills[i].taker], fills[i].price)

(* Within a level the queue is in arrival order. *)
TimePriority == TimeOrdered(book)

(* o ranks before m on its side of the book: a better price, or the same
   price and an earlier arrival. *)
Precedes(o, m) ==
  \/ IF o.side = "Bid" THEN o.price > m.price ELSE o.price < m.price
  \/ o.price = m.price /\ o.sequence < m.sequence

(* Price-time priority: the maker of a fill is the one live order on the
   other side that no live order there precedes. *)
PriceTimePriority ==
  [][ Len(fills') > Len(fills) =>
        LET m == placed[fills'[Len(fills')].maker]
        IN  \A k \in DOMAIN book.orders :
              book.orders[k].side = m.side => ~Precedes(book.orders[k], m)
    ]_vars

(* Every call returns: the matching loop cannot spin on a maker that is
   gone or has nothing left. *)
CallsReturn == ~Idle ~> Idle
-----------------------------------------------------------------------------
(* The refinement mapping: the slab's orders with their open quantities, the
   prices the taker's checks let through, and the fills of the call. *)
RestingOrders ==
  {[id |-> book.orders[k].id, side |-> book.orders[k].side,
    price |-> book.orders[k].price, left |-> Remaining(book.orders[k]),
    arrival |-> book.orders[k].sequence] : k \in DOMAIN book.orders}

IncomingOrder ==
  IF Idle THEN NoOrder
  ELSE [id |-> taker.id, side |-> taker.side,
        accepts |-> {p \in Prices : Crosses(taker, p)},
        keep |-> taker.price,
        rest |-> IF taker.order_type = "Market" THEN "drop"
                 ELSE IF InsertRejected(taker) THEN "refuse" ELSE "keep",
        left |-> Remaining(taker), arrival |-> taker.sequence]

Tape ==
  [i \in 1..Len(fills) |->
     [maker |-> fills[i].maker, taker |-> fills[i].taker,
      price |-> fills[i].price, quantity |-> fills[i].quantity]]

Abstract == INSTANCE PriceTimeBook
  WITH resting <- RestingOrders, incoming <- IncomingOrder, tape <- Tape

(* No order at all is not mistaken for an order of the abstract book. *)
ASSUME NoOrderAssumption == NoOrder \notin Abstract!IncomingType

(* The engine, with its slab, index and queues, does nothing a
   price-time-priority book would not do. *)
ImplementsPriceTimeBook == Abstract!AbsSpec
=============================================================================
