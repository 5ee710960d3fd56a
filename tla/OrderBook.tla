------------------------------- MODULE OrderBook -------------------------------
(***************************************************************************)
(* The order book of clob-engine (crates/clob-engine/src/orderbook.rs): a  *)
(* slab of live orders, an index from order ids to slab keys and, on each  *)
(* side, a map from prices to FIFO queues of slab keys.  The module is     *)
(* constant-level: a book is a record and every method is an operator from *)
(* books to books, so that the matching engine, the snapshot codec and the *)
(* recovery models all use the same definitions.                           *)
(*                                                                         *)
(* Decimals are integers: the code only compares, adds and subtracts them. *)
(* market_id is left out: neither the book nor the engine ever reads it.   *)
(***************************************************************************)
EXTENDS Integers, Sequences

CONSTANTS
  Ids,       \* order ids (Uuid)
  Prices,    \* the prices orders may carry
  NoPrice,   \* Option::None in an order's price
  MaxPrice   \* Decimal::MAX

(* Decimal is a finite ordered type, so every non-empty set of prices has a
   least and a greatest member; nothing exceeds Decimal::MAX. *)
ASSUME PriceAssumption ==
  /\ Prices \subseteq Int
  /\ MaxPrice \in Int
  /\ \A p \in Prices : p <= MaxPrice
  /\ NoPrice \notin Prices
  /\ \A P \in (SUBSET Prices) \ {{}} :
       /\ \E lo \in P : \A p \in P : lo <= p
       /\ \E hi \in P : \A p \in P : p <= hi
-----------------------------------------------------------------------------
Side == {"Bid", "Ask"}
OrderType == {"Limit", "Market"}
OrderStatus == {"Open", "PartiallyFilled", "Filled", "Cancelled"}

Order == [id : Ids, side : Side, order_type : OrderType,
          price : Prices \cup {NoPrice}, quantity : Int, filled : Int,
          status : OrderStatus, sequence : Int]

Opposite(side) == IF side = "Bid" THEN "Ask" ELSE "Bid"

Remaining(o) == o.quantity - o.filled

IsComplete(o) == o.status \in {"Filled", "Cancelled"}
-----------------------------------------------------------------------------
(* Maps: insertion into, and removal from, a map with a changing domain. *)
Put(f, k, v) == [x \in DOMAIN f \cup {k} |-> IF x = k THEN v ELSE f[x]]
Drop(f, k) == [x \in DOMAIN f \ {k} |-> f[x]]

(* The slab crate: len is the number of slots ever allocated, vacant the
   free list with the most recently freed key first, orders the occupied
   slots.  A freed key is reused before the slab grows. *)
SlabKey(b) == IF b.vacant = << >> THEN b.len ELSE Head(b.vacant)

SlabInsert(b, o) ==
  [orders |-> Put(b.orders, SlabKey(b), o),
   vacant |-> IF b.vacant = << >> THEN b.vacant ELSE Tail(b.vacant),
   len    |-> IF b.vacant = << >> THEN b.len + 1 ELSE b.len]

SlabRemove(b, key) ==
  [orders |-> Drop(b.orders, key),
   vacant |-> << key >> \o b.vacant,
   len    |-> b.len]

(* A book from its slab, its index and its levels. *)
BookOf(slab, index, levels) ==
  [orders |-> slab.orders, vacant |-> slab.vacant, len |-> slab.len,
   index |-> index, levels |-> levels]
-----------------------------------------------------------------------------
EmptyMap == [x \in {} |-> x]

EmptyBook ==
  [orders |-> EmptyMap, vacant |-> << >>, len |-> 0, index |-> EmptyMap,
   levels |-> [s \in Side |-> EmptyMap]]

(* Mutant of InsertRejected: an order without a price is let in. *)
InsertRejectedNoPriceCheck(o) == o.quantity <= 0

(* insert_order: the error cases, then slab, index and the price level's
   queue, which is created when the price is new. *)
InsertRejected(o) == o.price = NoPrice \/ o.quantity <= 0

(* Mutant of InsertOrder: push_front for push_back. *)
InsertOrderInFront(b, o) ==
  LET key   == SlabKey(b)
      level == IF o.price \in DOMAIN b.levels[o.side]
               THEN b.levels[o.side][o.price] ELSE << >>
  IN  BookOf(SlabInsert(b, o),
             Put(b.index, o.id, key),
             [b.levels EXCEPT ![o.side] = Put(b.levels[o.side], o.price,
                                              << key >> \o level)])

InsertOrder(b, o) ==
  LET key   == SlabKey(b)
      level == IF o.price \in DOMAIN b.levels[o.side]
               THEN b.levels[o.side][o.price] ELSE << >>
  IN  BookOf(SlabInsert(b, o),
             Put(b.index, o.id, key),
             [b.levels EXCEPT ![o.side] = Put(b.levels[o.side], o.price,
                                              Append(level, key))])

(* A queue without its element at position at. *)
Without(level, at) ==
  [i \in 1..(Len(level) - 1) |-> IF i < at THEN level[i] ELSE level[i + 1]]

(* VecDeque::retain(|k| k != key).  A key is queued at most once (the
   invariant QueuedOnce), so at most one element goes. *)
Retain(level, key) ==
  IF \E i \in 1..Len(level) : level[i] = key
  THEN Without(level, CHOOSE i \in 1..Len(level) : level[i] = key)
  ELSE level

(* Mutant of SetLevel: an emptied level stays in the map. *)
SetLevelKeepsEmpty(b, side, price, level) ==
  [b.levels EXCEPT ![side] = Put(b.levels[side], price, level)]

(* A level replaced by what is left of it: an emptied one leaves the map. *)
SetLevel(b, side, price, level) ==
  [b.levels EXCEPT ![side] = IF level = << >>
                             THEN Drop(b.levels[side], price)
                             ELSE Put(b.levels[side], price, level)]

(* cancel_order: the error cases (NotFound, AlreadyComplete, no price) and
   the removal from level, slab and index. *)
CancelRejected(b, id) ==
  \/ id \notin DOMAIN b.index
  \/ IsComplete(b.orders[b.index[id]])
  \/ b.orders[b.index[id]].price = NoPrice

CancelOrder(b, id) ==
  LET key   == b.index[id]
      o     == b.orders[key]
      level == Retain(b.levels[o.side][o.price], key)
  IN  BookOf(SlabRemove(b, key),
             Drop(b.index, id),
             IF o.price \in DOMAIN b.levels[o.side]
             THEN SetLevel(b, o.side, o.price, level) ELSE b.levels)

(* best_bid / best_ask, for a side that has a level, and the key at the
   front of the best level. *)
HasBest(b, side) == DOMAIN b.levels[side] # {}

(* Mutant of Best: next and next_back swapped. *)
BestSwapped(b, side) ==
  CHOOSE p \in DOMAIN b.levels[side] :
    \A q \in DOMAIN b.levels[side] :
      IF side = "Bid" THEN p <= q ELSE q <= p

Best(b, side) ==
  CHOOSE p \in DOMAIN b.levels[side] :
    \A q \in DOMAIN b.levels[side] :
      IF side = "Bid" THEN q <= p ELSE p <= q

BestFront(b, side) == Head(b.levels[side][Best(b, side)])

(* pop_front: the filled order leaves its level, the slab and the index. *)
PopFront(b, side, price) ==
  LET level == b.levels[side][price]
      key   == Head(level)
  IN  IF price \notin DOMAIN b.levels[side] THEN b
      ELSE IF key \notin DOMAIN b.orders
           THEN BookOf(b, b.index, SetLevel(b, side, price, Tail(level)))
           ELSE BookOf(SlabRemove(b, key),
                       Drop(b.index, b.orders[key].id),
                       SetLevel(b, side, price, Tail(level)))
-----------------------------------------------------------------------------
(* What a well-formed book is. *)
IsMap(f, K, V) == DOMAIN f \subseteq K /\ f \in [DOMAIN f -> V]

IsBook(b) ==
  /\ b = BookOf(b, b.index, b.levels)
  /\ IsMap(b.orders, Nat, Order)
  /\ b.vacant \in Seq(Nat)
  /\ b.len \in Nat
  /\ IsMap(b.index, Ids, Nat)
  /\ b.levels = [s \in Side |-> b.levels[s]]
  /\ \A s \in Side : IsMap(b.levels[s], Prices, Seq(Nat))

(* The free list and the occupied slots partition the slots in use. *)
SlabSound(b) ==
  /\ \A k \in DOMAIN b.orders : k < b.len
  /\ \A i \in 1..Len(b.vacant) :
       b.vacant[i] < b.len /\ b.vacant[i] \notin DOMAIN b.orders
  /\ \A i, j \in 1..Len(b.vacant) : b.vacant[i] = b.vacant[j] => i = j

(* Every queued key is a live order of that side and price; no level is
   empty. *)
LevelsSound(b) ==
  \A s \in Side : \A p \in DOMAIN b.levels[s] :
    /\ b.levels[s][p] # << >>
    /\ \A i \in 1..Len(b.levels[s][p]) :
         /\ b.levels[s][p][i] \in DOMAIN b.orders
         /\ b.orders[b.levels[s][p][i]].side = s
         /\ b.orders[b.levels[s][p][i]].price = p

(* No key is queued twice. *)
QueuedOnce(b) ==
  \A s \in Side : \A p \in DOMAIN b.levels[s] :
    \A i, j \in 1..Len(b.levels[s][p]) :
      b.levels[s][p][i] = b.levels[s][p][j] => i = j

(* Every live order is queued at its side and price. *)
LevelsComplete(b) ==
  \A k \in DOMAIN b.orders :
    LET o == b.orders[k]
    IN  /\ o.price \in DOMAIN b.levels[o.side]
        /\ \E i \in 1..Len(b.levels[o.side][o.price]) :
             b.levels[o.side][o.price][i] = k

(* The index is exactly the inverse of the ids of the live orders. *)
IndexSound(b) ==
  /\ \A id \in DOMAIN b.index :
       b.index[id] \in DOMAIN b.orders /\ b.orders[b.index[id]].id = id
  /\ \A k \in DOMAIN b.orders :
       b.orders[k].id \in DOMAIN b.index /\ b.index[b.orders[k].id] = k

(* A resting order is open: it has quantity left and its status says so. *)
LiveOrdersOpen(b) ==
  \A k \in DOMAIN b.orders :
    /\ 0 <= b.orders[k].filled
    /\ Remaining(b.orders[k]) > 0
    /\ b.orders[k].price # NoPrice
    /\ b.orders[k].status = IF b.orders[k].filled = 0
                            THEN "Open" ELSE "PartiallyFilled"

(* The best bid is below the best ask. *)
Uncrossed(b) ==
  \A p \in DOMAIN b.levels["Bid"], q \in DOMAIN b.levels["Ask"] : p < q

(* Within a level, orders are queued in the order of their sequence. *)
TimeOrdered(b) ==
  \A s \in Side : \A p \in DOMAIN b.levels[s] :
    \A i, j \in 1..Len(b.levels[s][p]) :
      i < j => b.orders[b.levels[s][p][i]].sequence
                 < b.orders[b.levels[s][p][j]].sequence
=============================================================================
