------------------------- MODULE MatchingEngineProofs -------------------------
(***************************************************************************)
(* The matching engine keeps its book well-formed, uncrossed and in order  *)
(* of arrival, for every set of ids, prices and quantities.  From that     *)
(* follows what its fills say about the orders that were handed to it:     *)
(* quantity is conserved over all calls, limits are honoured, and every    *)
(* fill is with the order that price-time priority puts first.             *)
(***************************************************************************)
EXTENDS MatchingEngine, OrderBookProofs

(* The live orders are older than the order in flight. *)
LiveOrdersOlder ==
  \A k \in DOMAIN book.orders :
    /\ book.orders[k].sequence <= offset
    /\ book.orders[k].id \in DOMAIN placed
    /\ ~Idle => book.orders[k].sequence < taker.sequence

(* The order in flight is the latest, it is not in the book, and its status
   says how much of it is filled. *)
TakerSound ==
  ~Idle =>
    /\ taker.id \in DOMAIN placed
    /\ taker.id \notin DOMAIN book.index
    /\ taker.sequence <= offset
    /\ 0 <= taker.filled
    /\ taker.filled <= taker.quantity
    /\ taker.filled < taker.quantity =>
         taker.status = IF taker.filled = 0 THEN "Open" ELSE "PartiallyFilled"

(* The inductive invariant. *)
IInv ==
  /\ TypeOK
  /\ BookConsistent
  /\ NeverCrossed
  /\ TimePriority
  /\ LiveOrdersOlder
  /\ TakerSound
-----------------------------------------------------------------------------
(* The engine starts with an empty book. *)
LEMMA InitIInv == Init => IInv
<1> SUFFICES ASSUME Init PROVE IInv
  OBVIOUS
<1>1. /\ DOMAIN book.orders = {} /\ DOMAIN book.index = {}
      /\ book.vacant = << >> /\ book.len = 0
      /\ book.levels = [s \in Side |-> book.levels[s]]
      /\ \A s \in Side : DOMAIN book.levels[s] = {}
      /\ book = BookOf(book, book.index, book.levels)
  BY DEF Init, EmptyBook, EmptyMap, BookOf
<1>2. /\ IsMap(book.orders, Nat, Order) /\ IsMap(book.index, Ids, Nat)
      /\ \A s \in Side : IsMap(book.levels[s], Prices, Seq(Nat))
      /\ IsMap(placed, Ids, Order)
  BY DEF Init, EmptyBook, EmptyMap, IsMap
<1>3. TypeOK
  BY <1>1, <1>2 DEF Init, TypeOK, IsBook, Result
<1>4. BookConsistent
  BY <1>1 DEF BookConsistent, SlabSound, LevelsSound, QueuedOnce, LevelsComplete,
              IndexSound, LiveOrdersOpen
<1>5. NeverCrossed /\ TimePriority
  BY <1>1 DEF NeverCrossed, Uncrossed, TimePriority, TimeOrdered, Side
<1>6. LiveOrdersOlder /\ TakerSound
  BY <1>1 DEF LiveOrdersOlder, TakerSound, Init, Idle
<1> QED BY <1>3, <1>4, <1>5, <1>6 DEF IInv

(* What a new order is: an order with a fresh id, later than all others. *)
LEMMA IncomingFacts ==
  ASSUME TypeOK, NEW o \in Incoming
  PROVE  /\ o \in Order /\ o.id \in Ids /\ o.id \notin DOMAIN placed
         /\ o.sequence = offset + 1 /\ o.filled = 0 /\ o.status = "Open"
         /\ o.quantity \in Int
<1>1. offset + 1 \in Int /\ Quantities \subseteq Int
  BY EngineAssumption DEF TypeOK
<1>2. /\ o = [id |-> o.id, side |-> o.side, order_type |-> o.order_type,
              price |-> o.price, quantity |-> o.quantity, filled |-> o.filled,
              status |-> o.status, sequence |-> o.sequence]
      /\ o.id \in Ids /\ o.id \notin DOMAIN placed /\ o.side \in Side
      /\ o.order_type \in OrderType /\ o.price \in Prices \cup {NoPrice}
      /\ o.quantity \in Quantities /\ o.filled = 0 /\ o.status = "Open"
      /\ o.sequence = offset + 1
  BY DEF Incoming
<1>3. o \in Order
  BY <1>1, <1>2 DEF Order, OrderStatus
<1> QED BY <1>1, <1>2, <1>3

(* The history of the placed orders grows by the new one. *)
LEMMA PlacedGrows ==
  ASSUME TypeOK, NEW o \in Order, o.id \in Ids
  PROVE  /\ IsMap(Put(placed, o.id, o), Ids, Order)
         /\ DOMAIN Put(placed, o.id, o) = DOMAIN placed \cup {o.id}
<1>1. IsMap(placed, Ids, Order)
  BY DEF TypeOK
<1>2. IsMap(Put(placed, o.id, o), Ids, Order)
  BY <1>1, PutIsMap
<1> QED BY <1>2 DEF Put

(* process_order with a quantity that is not positive keeps the invariant. *)
LEMMA RejectIInv ==
  ASSUME IInv, NEW o \in Incoming, Reject(o)
  PROVE  IInv'
<1>1. o \in Order /\ o.id \in Ids
  BY IncomingFacts DEF IInv
<1>2. /\ book' = book /\ sequence' = sequence /\ taker' = taker /\ traded' = traded
      /\ fills' = << >> /\ result' = "InvalidQuantity" /\ offset' = offset + 1
      /\ placed' = Put(placed, o.id, o) /\ taker = NoOrder
  BY DEF Reject, Idle
<1>3. IsMap(placed', Ids, Order) /\ DOMAIN placed \subseteq DOMAIN placed'
  BY <1>1, <1>2, PlacedGrows DEF IInv
<1>4. TypeOK'
  BY <1>2, <1>3 DEF IInv, TypeOK, Result
<1>5. BookConsistent' /\ NeverCrossed' /\ TimePriority'
  BY <1>2 DEF IInv, BookConsistent, NeverCrossed, TimePriority
<1>6. LiveOrdersOlder' /\ TakerSound'
  <2>1. \A k \in DOMAIN book.orders : book.orders[k].sequence \in Int
    BY DEF IInv, TypeOK, IsBook, IsMap, Order
  <2> QED BY <1>2, <1>3, <2>1 DEF IInv, LiveOrdersOlder, TakerSound, Idle, TypeOK
<1> QED BY <1>4, <1>5, <1>6 DEF IInv

(* The beginning of process_order keeps the invariant: the new order is the
   latest and not in the book. *)
LEMMA AcceptIInv ==
  ASSUME IInv, NEW o \in Incoming, Accept(o)
  PROVE  IInv'
<1>1. /\ o \in Order /\ o.id \in Ids /\ o.id \notin DOMAIN placed
      /\ o.sequence = offset + 1 /\ o.filled = 0 /\ o.status = "Open"
      /\ o.quantity \in Int
  BY IncomingFacts DEF IInv
<1>2. /\ book' = book /\ sequence' = sequence /\ taker' = o /\ traded' = traded
      /\ fills' = << >> /\ result' = result /\ offset' = offset + 1
      /\ placed' = Put(placed, o.id, o) /\ o.quantity > 0
  BY DEF Accept
<1>3. /\ IsMap(placed', Ids, Order) /\ DOMAIN placed \subseteq DOMAIN placed'
      /\ o.id \in DOMAIN placed'
  BY <1>1, <1>2, PlacedGrows DEF IInv
<1>4. TypeOK'
  BY <1>1, <1>2, <1>3 DEF IInv, TypeOK
<1>5. BookConsistent' /\ NeverCrossed' /\ TimePriority'
  BY <1>2 DEF IInv, BookConsistent, NeverCrossed, TimePriority
<1>6. LiveOrdersOlder'
  <2>1. \A k \in DOMAIN book.orders : book.orders[k].sequence \in Int
    BY DEF IInv, TypeOK, IsBook, IsMap, Order
  <2> QED BY <1>1, <1>2, <1>3, <2>1 DEF IInv, LiveOrdersOlder, TypeOK
<1>7. TakerSound'
  <2>1. o.id \notin DOMAIN book.index
    BY <1>1 DEF IInv, LiveOrdersOlder, BookConsistent, IndexSound
  <2> QED BY <1>1, <1>2, <1>3, <2>1 DEF IInv, TakerSound, TypeOK
<1> QED BY <1>4, <1>5, <1>6, <1>7 DEF IInv

(* BookConsistent in terms of the book's structure. *)
LEMMA ConsistentIsStructure ==
  /\ BookConsistent <=> Structure(book) /\ LiveOrdersOpen(book)
  /\ BookConsistent' <=> Structure(book') /\ LiveOrdersOpen(book')
BY DEF BookConsistent, Structure

(* The end of process_order keeps the invariant: the rest of a limit order
   goes into the book only when no opposing price crosses it. *)
LEMMA FinishIInv ==
  ASSUME IInv, Finish
  PROVE  IInv'
<1> DEFINE rests   == taker.order_type = "Limit" /\ Remaining(taker) > 0
           refused == rests /\ InsertRejected(taker)
<1>1. /\ taker # NoOrder /\ ~Matches(book, taker) /\ taker' = NoOrder
      /\ book' = IF rests /\ ~refused THEN InsertOrder(book, taker) ELSE book
      /\ result' \in Result
      /\ fills' = << >> \/ fills' = fills
      /\ sequence' = sequence /\ offset' = offset /\ placed' = placed
      /\ traded' = traded
  BY DEF Finish, Idle, Result
<1>2. /\ taker \in Order /\ taker.side \in Side /\ taker.filled \in Int
      /\ taker.quantity \in Int /\ taker.sequence \in Int
      /\ taker.price \in Prices \cup {NoPrice}
  BY <1>1 DEF IInv, TypeOK, Order
<1>3. Structure(book) /\ Core(book) /\ LiveOrdersOpen(book) /\ IsBook(book)
  BY ConsistentIsStructure, StructureIsCore DEF IInv, TypeOK
<1>4. TakerSound' /\ fills' \in Seq(Fill)
  <2>1. TakerSound'
    BY <1>1 DEF TakerSound, Idle
  <2>2. << >> \in Seq(Fill) /\ fills \in Seq(Fill)
    BY DEF IInv, TypeOK
  <2> QED BY <1>1, <2>1, <2>2
<1>5. CASE ~(rests /\ ~refused)
  <2>1. book' = book
    BY <1>1, <1>5
  <2>2. TypeOK'
    BY <1>1, <1>4, <2>1 DEF IInv, TypeOK
  <2>3. BookConsistent' /\ NeverCrossed' /\ TimePriority'
    BY <2>1 DEF IInv, BookConsistent, NeverCrossed, TimePriority
  <2>4. LiveOrdersOlder'
    BY <1>1, <2>1 DEF IInv, LiveOrdersOlder, Idle
  <2> QED BY <1>4, <2>2, <2>3, <2>4 DEF IInv
<1>6. CASE rests /\ ~refused
  <2>1. book' = InsertOrder(book, taker)
    BY <1>1, <1>6
  <2>2. taker.price \in Prices
    BY <1>2, <1>6 DEF InsertRejected
  <2>3. taker.id \notin DOMAIN book.index /\ taker.id \in DOMAIN placed
    BY <1>1 DEF IInv, TakerSound, Idle
  <2>4. Grown(book, taker, book')
    BY <1>2, <1>3, <2>1, <2>2, InsertGrows, StructureIsCore
  <2>5. TypeOK'
    BY <1>1, <1>4, <2>4 DEF IInv, TypeOK, Grown
  <2>6. LiveOrdersOpen(book')
    <3>1. /\ 0 <= taker.filled /\ Remaining(taker) > 0 /\ taker.price # NoPrice
          /\ taker.status = IF taker.filled = 0 THEN "Open" ELSE "PartiallyFilled"
      BY <1>1, <1>2, <1>6, <2>2, PriceAssumption
      DEF IInv, TakerSound, Idle, Remaining
    <3> QED BY <1>3, <2>4, <3>1 DEF LiveOrdersOpen, Grown
  <2>7. BookConsistent'
    BY <1>3, <2>3, <2>4, <2>6, ConsistentIsStructure, StructureIsCore DEF Grown
  <2>8. NeverCrossed'
    BY <1>1, <1>2, <1>3, <1>6, <2>2, <2>4, RestUncrossed DEF IInv, NeverCrossed
  <2>9. TimePriority'
    <3>1. \A k \in DOMAIN book.orders : book.orders[k].sequence < taker.sequence
      BY <1>1 DEF IInv, LiveOrdersOlder, Idle
    <3> QED BY <2>4, <3>1 DEF Grown, IInv, TimePriority
  <2>10. LiveOrdersOlder'
    <3>1. taker.sequence <= offset
      BY <1>1 DEF IInv, TakerSound, Idle
    <3> QED BY <1>1, <2>3, <2>4, <3>1 DEF IInv, LiveOrdersOlder, Grown, Idle
  <2> QED BY <1>4, <2>5, <2>7, <2>8, <2>9, <2>10 DEF IInv
<1> QED BY <1>5, <1>6

(* Steps that only wear the book down. *)
LEMMA WornIInv ==
  ASSUME IInv, Worn(book, book'), TypeOK', offset' = offset, placed' = placed,
         taker' # NoOrder => taker # NoOrder /\ taker'.sequence = taker.sequence
  PROVE  BookConsistent' /\ NeverCrossed' /\ TimePriority' /\ LiveOrdersOlder'
<1>1. /\ Uncrossed(book') /\ TimeOrdered(book')
  BY WornKeeps DEF IInv, NeverCrossed, TimePriority, Worn
<1>2. BookConsistent'
  BY ConsistentIsStructure, StructureIsCore DEF IInv, Worn
<1>3. LiveOrdersOlder'
  BY DEF IInv, LiveOrdersOlder, Worn, Idle
<1> QED BY <1>1, <1>2, <1>3 DEF NeverCrossed, TimePriority

(* One execute_fill keeps the invariant: the book only wears down. *)
LEMMA ExecuteFillIInv ==
  ASSUME IInv, ExecuteFill
  PROVE  IInv'
<1> DEFINE side  == Opposite(taker.side)
           price == Best(book, side)
           key   == BestFront(book, side)
           qty   == FillQty(book, taker, key)
           maker == book.orders[key].id
           fill  == [maker |-> maker, taker |-> taker.id, price |-> price,
                     quantity |-> qty, sequence |-> sequence + 1]
<1>1. taker # NoOrder /\ Matches(book, taker)
  BY DEF ExecuteFill, Idle
<1>2. /\ taker \in Order /\ taker.id \in Ids /\ taker.side \in Side
      /\ taker.filled \in Int /\ taker.quantity \in Int
  BY <1>1 DEF IInv, TypeOK, Order
<1>3. Structure(book) /\ Core(book) /\ LiveOrdersOpen(book) /\ IsBook(book)
  BY ConsistentIsStructure, StructureIsCore DEF IInv, TypeOK
<1>4. side \in Side /\ HasBest(book, side) /\ Remaining(taker) > 0
  BY <1>1, <1>2 DEF Matches, Opposite, Side
<1>5. key \in DOMAIN book.orders
  BY <1>3, <1>4, BestFrontLive
<1>6. price \in Prices
  BY <1>3, <1>4, BestIsBest DEF IsBook, IsMap
<1>7. book.orders[key] \in Order /\ maker \in Ids /\ Remaining(book.orders[key]) > 0
  BY <1>3, <1>5 DEF IsBook, IsMap, Order, LiveOrdersOpen
<1>8. Remaining(book.orders[key]) \in Int /\ Remaining(taker) \in Int
  BY <1>2, <1>7 DEF Order, Remaining
<1>9. /\ qty \in Int /\ 0 < qty /\ qty <= Remaining(taker)
      /\ qty <= Remaining(book.orders[key])
  BY <1>4, <1>7, <1>8 DEF FillQty
<1>10. /\ sequence' = sequence + 1
       /\ book' = FillMaker(book, side, key, price, qty)
       /\ taker' = Filled(taker, qty)
       /\ fills' = Append(fills, fill)
       /\ traded' = [traded EXCEPT ![maker] = @ + qty, ![taker.id] = @ + qty]
       /\ result' = result /\ offset' = offset /\ placed' = placed
  <2> HIDE DEF side, key, qty
  <2>1. ~(key \notin DOMAIN book.orders \/ qty <= 0)
    BY <1>5, <1>9
  <2> QED BY <2>1 DEF ExecuteFill, side, key, qty
<1>11. /\ taker' \in Order /\ taker'.id = taker.id /\ taker'.sequence = taker.sequence
       /\ taker'.quantity = taker.quantity /\ taker'.filled = taker.filled + qty
       /\ taker'.status = IF taker.filled + qty >= taker.quantity
                          THEN "Filled" ELSE "PartiallyFilled"
  BY <1>2, <1>9, <1>10, FilledFields
<1>12. Worn(book, book')
  BY <1>3, <1>4, <1>9, <1>10, FillWears
<1> HIDE DEF side, price, key, qty, maker
<1>13. TypeOK'
  <2>1. fill \in Fill
    BY <1>2, <1>6, <1>7, <1>9 DEF Fill, IInv, TypeOK
  <2>2. fills' \in Seq(Fill)
    BY <1>10, <2>1, AppendProperties DEF IInv, TypeOK
  <2>3. traded' \in [Ids -> Int]
    BY <1>2, <1>7, <1>9, <1>10 DEF IInv, TypeOK
  <2> QED BY <1>10, <1>11, <1>12, <2>2, <2>3 DEF IInv, TypeOK, Worn
<1>14. BookConsistent' /\ NeverCrossed' /\ TimePriority' /\ LiveOrdersOlder'
  BY <1>1, <1>10, <1>11, <1>12, <1>13, WornIInv
<1>15. TakerSound'
  <2>1. DOMAIN book'.index \subseteq DOMAIN book.index
    BY <1>3, <1>12, WornKeeps DEF IInv, NeverCrossed, Structure
  <2>2. /\ taker.id \in DOMAIN placed /\ taker.id \notin DOMAIN book.index
        /\ taker.sequence <= offset
        /\ 0 <= taker.filled /\ taker.filled <= taker.quantity
    BY <1>1 DEF IInv, TakerSound, Idle
  <2>3. 0 < taker'.filled /\ taker'.filled <= taker'.quantity
    BY <1>2, <1>9, <1>11, <2>2 DEF Remaining
  <2>4. taker'.filled < taker'.quantity => taker'.status = "PartiallyFilled"
    BY <1>2, <1>9, <1>11
  <2>5. /\ taker'.id \in DOMAIN placed' /\ taker'.id \notin DOMAIN book'.index
        /\ taker'.sequence <= offset'
    BY <1>10, <1>11, <2>1, <2>2
  <2>6. taker'.filled \in Int
    BY <1>2, <1>9, <1>11
  <2> QED BY <2>3, <2>4, <2>5, <2>6 DEF TakerSound
<1> QED BY <1>13, <1>14, <1>15 DEF IInv

(* cancel keeps the invariant, whether the id is known or not. *)
LEMMA CancelIInv ==
  ASSUME IInv, NEW id \in Ids, Cancel(id)
  PROVE  IInv'
<1>1. /\ taker = NoOrder /\ taker' = taker /\ result' \in Result
      /\ fills' = << >> /\ sequence' = sequence /\ offset' = offset
      /\ placed' = placed /\ traded' = traded
      /\ book' = IF CancelRejected(book, id) THEN book ELSE CancelOrder(book, id)
  BY DEF Cancel, Idle, Result
<1>2. << >> \in Seq(Fill)
  OBVIOUS
<1>3. Structure(book) /\ Core(book) /\ LiveOrdersOpen(book) /\ IsBook(book)
  BY ConsistentIsStructure, StructureIsCore DEF IInv, TypeOK
<1>4. TakerSound'
  BY <1>1 DEF TakerSound, Idle
<1>5. Worn(book, book')
  <2>1. CASE CancelRejected(book, id)
    BY <1>1, <1>3, <2>1 DEF Worn
  <2>2. CASE ~CancelRejected(book, id)
    <3>1. id \in DOMAIN book.index
      BY <2>2 DEF CancelRejected
    <3> QED BY <1>1, <1>3, <2>2, <3>1, CancelWears
  <2> QED BY <2>1, <2>2
<1>6. TypeOK'
  BY <1>1, <1>2, <1>5 DEF IInv, TypeOK, Worn
<1>7. BookConsistent' /\ NeverCrossed' /\ TimePriority' /\ LiveOrdersOlder'
  BY <1>1, <1>5, <1>6, WornIInv
<1> QED BY <1>4, <1>6, <1>7 DEF IInv

(* next_sequence touches nothing the invariant speaks of but the counter. *)
LEMMA UnchangedIInv ==
  ASSUME IInv, NextSequence \/ UNCHANGED vars
  PROVE  IInv'
<1>1. /\ book' = book /\ taker' = taker /\ fills' = fills /\ result' = result
      /\ offset' = offset /\ placed' = placed /\ traded' = traded
      /\ sequence' = sequence \/ sequence' = sequence + 1
  BY DEF NextSequence, vars
<1>2. TypeOK'
  BY <1>1 DEF IInv, TypeOK
<1>3. BookConsistent' /\ NeverCrossed' /\ TimePriority'
  BY <1>1 DEF IInv, BookConsistent, NeverCrossed, TimePriority
<1>4. LiveOrdersOlder' /\ TakerSound'
  BY <1>1 DEF IInv, LiveOrdersOlder, TakerSound, Idle
<1> QED BY <1>2, <1>3, <1>4 DEF IInv

(* The invariant is inductive: every step of the engine keeps it. *)
LEMMA NextIInv == IInv /\ [Next]_vars => IInv'
<1> SUFFICES ASSUME IInv, [Next]_vars PROVE IInv'
  OBVIOUS
<1>1. ASSUME NEW o \in Incoming, Reject(o) PROVE IInv'
  BY <1>1, RejectIInv
<1>2. ASSUME NEW o \in Incoming, Accept(o) PROVE IInv'
  BY <1>2, AcceptIInv
<1>3. CASE ExecuteFill
  BY <1>3, ExecuteFillIInv
<1>4. CASE Finish
  BY <1>4, FinishIInv
<1>5. ASSUME NEW id \in Ids, Cancel(id) PROVE IInv'
  BY <1>5, CancelIInv
<1>6. CASE NextSequence \/ UNCHANGED vars
  BY <1>6, UnchangedIInv
<1> QED BY <1>1, <1>2, <1>3, <1>4, <1>5, <1>6 DEF Next

(* The inductive invariant holds in every state of every run of the engine. *)
THEOREM Invariance == Spec => []IInv
BY InitIInv, NextIInv, PTL DEF Spec

(* Type correctness of the engine and its book. *)
THEOREM TypeCorrect == Spec => []TypeOK
<1>1. IInv => TypeOK
  BY DEF IInv
<1> QED BY <1>1, Invariance, PTL

(* The slab, the index and the queues of the book always agree and hold no
   completed order, whatever orders and cancels arrive: none of the lookups
   of cancel_order, execute_fill and pop_front can fail. *)
THEOREM Consistency == Spec => []BookConsistent
<1>1. IInv => BookConsistent
  BY DEF IInv
<1> QED BY <1>1, Invariance, PTL

(* The best bid stays below the best ask, also between two fills of a
   call. *)
THEOREM NoCross == Spec => []NeverCrossed
<1>1. IInv => NeverCrossed
  BY DEF IInv
<1> QED BY <1>1, Invariance, PTL

(* Every queue stays in order of arrival. *)
THEOREM ArrivalOrder == Spec => []TimePriority
<1>1. IInv => TimePriority
  BY DEF IInv
<1> QED BY <1>1, Invariance, PTL
-----------------------------------------------------------------------------
(* The order o of the engine is the one that was handed to process_order
   under its id, filled by what that id has traded. *)
AsPlaced(o) ==
  /\ o.id \in DOMAIN placed
  /\ o.side = placed[o.id].side
  /\ o.order_type = placed[o.id].order_type
  /\ o.price = placed[o.id].price
  /\ o.quantity = placed[o.id].quantity
  /\ o.sequence = placed[o.id].sequence
  /\ o.filled = traded[o.id]

(* Every order the engine holds is as it was placed. *)
OrdersAsPlaced ==
  /\ \A k \in DOMAIN book.orders : AsPlaced(book.orders[k])
  /\ ~Idle => AsPlaced(taker)

(* An id that was never placed has not traded, and no id trades more than
   its order's quantity. *)
TradedSound ==
  /\ \A id \in Ids \ DOMAIN placed : traded[id] = 0
  /\ \A id \in DOMAIN placed :
       traded[id] > 0 => traded[id] <= placed[id].quantity

(* The inductive invariant, given that of the book. *)
HInv == OrdersAsPlaced /\ TradedSound /\ FillsHonourLimits
-----------------------------------------------------------------------------
(* What one execute_fill does, once the early returns are known not to
   happen: the taker meets the front of the best opposing level. *)
Executes(key, qty) ==
  LET side == Opposite(taker.side)
      m    == book.orders[key]
  IN  /\ taker # NoOrder /\ taker \in Order /\ Remaining(taker) > 0
      /\ side \in Side /\ side # taker.side /\ HasBest(book, side)
      /\ key = BestFront(book, side)
      /\ key \in DOMAIN book.orders /\ m \in Order
      /\ m.side = side /\ m.price = Best(book, side)
      /\ m.price \in Prices /\ Crosses(taker, m.price)
      /\ qty \in Int /\ 0 < qty
      /\ qty = FillQty(book, taker, key)
      /\ qty <= Remaining(taker) /\ qty <= Remaining(m)
      /\ OneFilled(book, key, Filled(m, qty), book')
      /\ taker' = Filled(taker, qty)
      /\ fills' = Append(fills, [maker |-> m.id, taker |-> taker.id,
                                 price |-> m.price, quantity |-> qty,
                                 sequence |-> sequence + 1])
      /\ traded' = [traded EXCEPT ![m.id] = @ + qty, ![taker.id] = @ + qty]
      /\ UNCHANGED <<result, offset, placed>>

(* execute_fill never takes its early returns. *)
LEMMA ExecuteFillExecutes ==
  ASSUME IInv, ExecuteFill
  PROVE  \E key, qty : Executes(key, qty)
<1> DEFINE side  == Opposite(taker.side)
           price == Best(book, side)
           key   == BestFront(book, side)
           m     == book.orders[key]
           qty   == FillQty(book, taker, key)
<1>1. taker # NoOrder /\ Matches(book, taker)
  BY DEF ExecuteFill, Idle
<1>2. /\ taker \in Order /\ taker.side \in Side
      /\ taker.filled \in Int /\ taker.quantity \in Int
  BY <1>1 DEF IInv, TypeOK, Order
<1>3. Structure(book) /\ Core(book) /\ LiveOrdersOpen(book) /\ IsBook(book)
  BY ConsistentIsStructure, StructureIsCore DEF IInv, TypeOK
<1>4. /\ side \in Side /\ side # taker.side /\ HasBest(book, side)
      /\ Remaining(taker) > 0 /\ Crosses(taker, price)
  BY <1>1, <1>2 DEF Matches, Opposite, Side
<1>5. key \in DOMAIN book.orders /\ m.side = side /\ m.price = price
  BY <1>3, <1>4, BestFrontLive
<1>6. price \in Prices
  BY <1>3, <1>4, BestIsBest DEF IsBook, IsMap
<1>7. m \in Order /\ Remaining(m) > 0
  BY <1>3, <1>5 DEF IsBook, IsMap, LiveOrdersOpen
<1>8. Remaining(m) \in Int /\ Remaining(taker) \in Int
  BY <1>2, <1>7 DEF Order, Remaining
<1>9. qty \in Int /\ 0 < qty /\ qty <= Remaining(taker) /\ qty <= Remaining(m)
  BY <1>4, <1>7, <1>8 DEF FillQty
<1>10. /\ book' = FillMaker(book, side, key, price, qty)
       /\ taker' = Filled(taker, qty)
       /\ fills' = Append(fills, [maker |-> m.id, taker |-> taker.id,
                                  price |-> price, quantity |-> qty,
                                  sequence |-> sequence + 1])
       /\ traded' = [traded EXCEPT ![m.id] = @ + qty, ![taker.id] = @ + qty]
       /\ UNCHANGED <<result, offset, placed>>
  <2> HIDE DEF side, key, qty
  <2>1. ~(key \notin DOMAIN book.orders \/ qty <= 0)
    BY <1>5, <1>9
  <2> QED BY <2>1 DEF ExecuteFill, side, key, qty
<1>11. OneFilled(book, key, Filled(m, qty), book')
  BY <1>3, <1>4, <1>9, <1>10, FillTouchesMaker
<1>12. Executes(key, qty)
  <2> HIDE DEF key, qty
  <2>1. key = BestFront(book, side) /\ qty = FillQty(book, taker, key)
    BY DEF key, qty
  <2> QED BY <1>1, <1>2, <1>4, <1>5, <1>6, <1>7, <1>9, <1>10, <1>11, <2>1
      DEF Executes
<1> QED BY <1>12

(* Steps that fill nothing: what is left of the book was there before, or is
   the order in flight that comes to rest. *)
LEMMA NoFillHInv ==
  ASSUME HInv, UNCHANGED <<placed, traded>>,
         \A k \in DOMAIN book'.orders :
           \/ k \in DOMAIN book.orders /\ book'.orders[k] = book.orders[k]
           \/ ~Idle /\ book'.orders[k] = taker,
         taker' = taker \/ taker' = NoOrder,
         fills' = fills \/ fills' = << >>
  PROVE  HInv'
<1>1. OrdersAsPlaced'
  <2>1. \A o : AsPlaced(o)' <=> AsPlaced(o)
    BY DEF AsPlaced
  <2> QED BY <2>1 DEF HInv, OrdersAsPlaced, Idle, AsPlaced
<1>2. TradedSound'
  BY DEF HInv, TradedSound
<1>3. FillsHonourLimits'
  BY DEF HInv, FillsHonourLimits
<1> QED BY <1>1, <1>2, <1>3 DEF HInv

(* A new order is recorded under a fresh id: what is known of the others
   stays as it was. *)
LEMMA PlacedHInv ==
  ASSUME IInv, HInv, NEW o \in Incoming, placed' = Put(placed, o.id, o),
         UNCHANGED <<book, traded>>, Idle, fills' = << >>,
         taker' = taker \/ taker' = o
  PROVE  HInv'
<1>1. /\ o \in Order /\ o.id \in Ids /\ o.id \notin DOMAIN placed /\ o.filled = 0
  BY IncomingFacts DEF IInv
<1>2. /\ DOMAIN placed' = DOMAIN placed \cup {o.id}
      /\ placed'[o.id] = o
      /\ \A id \in DOMAIN placed : placed'[id] = placed[id]
  BY <1>1 DEF Put
<1>3. traded[o.id] = 0
  BY <1>1 DEF HInv, TradedSound
<1>4. OrdersAsPlaced'
  <2>1. \A k \in DOMAIN book.orders : AsPlaced(book.orders[k])'
    BY <1>2 DEF HInv, OrdersAsPlaced, AsPlaced
  <2>2. ~Idle' => AsPlaced(taker)'
    BY <1>1, <1>2, <1>3 DEF AsPlaced, Idle
  <2> QED BY <2>1, <2>2 DEF OrdersAsPlaced
<1>5. TradedSound'
  BY <1>1, <1>2, <1>3 DEF HInv, TradedSound
<1>6. FillsHonourLimits'
  BY DEF FillsHonourLimits
<1> QED BY <1>4, <1>5, <1>6 DEF HInv

(* Two live orders never share an id, and the order in flight shares its id
   with none of them: a fill is accounted to the right orders. *)
LEMMA IdsDiffer ==
  ASSUME IInv, NEW key \in DOMAIN book.orders
  PROVE  /\ \A k \in DOMAIN book.orders :
              k # key => book.orders[k].id # book.orders[key].id
         /\ ~Idle => book.orders[key].id # taker.id
<1>1. /\ \A k \in DOMAIN book.orders :
           /\ book.orders[k].id \in DOMAIN book.index
           /\ book.index[book.orders[k].id] = k
      /\ ~Idle => taker.id \notin DOMAIN book.index
  BY DEF IInv, BookConsistent, IndexSound, TakerSound
<1> QED BY <1>1

(* A fill moves the same quantity on both sides of it, and both orders allow
   its price. *)
LEMMA ExecutesHInv ==
  ASSUME IInv, HInv, NEW key, NEW qty, Executes(key, qty)
  PROVE  HInv'
<1> DEFINE m == book.orders[key]
<1>1. /\ taker # NoOrder /\ taker \in Order /\ taker.id \in Ids
      /\ key \in DOMAIN book.orders /\ m \in Order /\ m.id \in Ids
      /\ taker.filled \in Int /\ taker.quantity \in Int
      /\ m.filled \in Int /\ m.quantity \in Int
      /\ qty \in Int /\ 0 < qty
      /\ qty <= taker.quantity - taker.filled /\ qty <= m.quantity - m.filled
  BY DEF Executes, Order, Remaining
<1>2. /\ taker.id # m.id
      /\ \A k \in DOMAIN book.orders : k # key =>
           book.orders[k].id # m.id /\ book.orders[k].id # taker.id
  BY <1>1, IdsDiffer DEF Idle
<1>3. traded \in [Ids -> Int]
  BY DEF IInv, TypeOK
<1>4. /\ traded'[m.id] = traded[m.id] + qty
      /\ traded'[taker.id] = traded[taker.id] + qty
      /\ \A id \in Ids : id # m.id /\ id # taker.id => traded'[id] = traded[id]
  <2>1. traded' = [traded EXCEPT ![m.id] = @ + qty, ![taker.id] = @ + qty]
    BY DEF Executes
  <2> QED BY <1>1, <1>2, <1>3, <2>1
<1>5. placed' = placed /\ AsPlaced(taker) /\ AsPlaced(m)
  BY <1>1 DEF HInv, OrdersAsPlaced, Executes, Idle
<1>6. AsPlaced(taker)'
  <2> DEFINE t == Filled(taker, qty)
  <2>1. /\ t.id = taker.id /\ t.side = taker.side
        /\ t.order_type = taker.order_type /\ t.price = taker.price
        /\ t.quantity = taker.quantity /\ t.sequence = taker.sequence
        /\ t.filled = taker.filled + qty
    BY <1>1, FilledFields
  <2>2. taker' = t
    BY DEF Executes
  <2> HIDE DEF t
  <2> QED BY <1>4, <1>5, <2>1, <2>2 DEF AsPlaced
<1>7. ASSUME NEW k \in DOMAIN book'.orders PROVE AsPlaced(book.orders[k])'
  <2>1. OneFilled(book, key, Filled(m, qty), book')
    BY DEF Executes
  <2>2. CASE k = key
    <3>1. book'.orders[k] = Filled(m, qty)
      BY <1>7, <2>1, <2>2 DEF OneFilled
    <3> DEFINE n == Filled(m, qty)
    <3>2. /\ n.id = m.id /\ n.side = m.side
          /\ n.order_type = m.order_type /\ n.price = m.price
          /\ n.quantity = m.quantity /\ n.sequence = m.sequence
          /\ n.filled = m.filled + qty
      BY <1>1, FilledFields
    <3> HIDE DEF n
    <3>3. book'.orders[k] = n
      BY <3>1 DEF n
    <3> QED BY <1>4, <1>5, <3>2, <3>3 DEF AsPlaced
  <2>3. CASE k # key
    <3>1. k \in DOMAIN book.orders /\ book'.orders[k] = book.orders[k]
      BY <1>7, <2>1, <2>3 DEF OneFilled
    <3>2. AsPlaced(book.orders[k]) /\ book.orders[k].id \in Ids
      BY <3>1 DEF HInv, OrdersAsPlaced, IInv, TypeOK, IsBook, IsMap, Order
    <3> QED BY <1>2, <1>4, <1>5, <2>3, <3>1, <3>2 DEF AsPlaced
  <2> QED BY <2>2, <2>3
<1>8. TradedSound'
  <2>1. DOMAIN placed \subseteq Ids
    BY DEF IInv, TypeOK, IsMap
  <2>2. /\ traded'[m.id] <= placed[m.id].quantity
        /\ traded'[taker.id] <= placed[taker.id].quantity
    BY <1>1, <1>4, <1>5 DEF AsPlaced
  <2>3. m.id \in DOMAIN placed /\ taker.id \in DOMAIN placed
    BY <1>5 DEF AsPlaced
  <2> QED BY <1>4, <1>5, <2>1, <2>2, <2>3 DEF HInv, TradedSound
<1>9. FillsHonourLimits'
  <2> DEFINE f == [maker |-> m.id, taker |-> taker.id, price |-> m.price,
                   quantity |-> qty, sequence |-> sequence + 1]
  <2>1. fills' = Append(fills, f) /\ fills \in Seq(Fill) /\ f.price = m.price
        /\ f.maker = m.id /\ f.taker = taker.id
    BY DEF Executes, IInv, TypeOK
  <2>2. /\ m.price = placed[m.id].price
        /\ placed[m.id].side # placed[taker.id].side
    BY <1>5 DEF AsPlaced, Executes
  <2>3. Crosses(placed[taker.id], m.price)
    BY <1>5 DEF AsPlaced, Executes, Crosses, LimitPrice
  <2> HIDE DEF f
  <2>4. /\ Len(fills') = Len(fills) + 1 /\ Len(fills) \in Nat
        /\ \A i \in 1..Len(fills) : fills'[i] = fills[i]
        /\ fills'[Len(fills) + 1] = f
    BY <2>1
  <2> SUFFICES ASSUME NEW i \in 1..Len(fills')
               PROVE  /\ fills'[i].price = placed[fills'[i].maker].price
                      /\ placed[fills'[i].maker].side # placed[fills'[i].taker].side
                      /\ Crosses(placed[fills'[i].taker], fills'[i].price)
    BY <1>5 DEF FillsHonourLimits, Crosses, LimitPrice
  <2>5. CASE i = Len(fills) + 1
    BY <2>1, <2>2, <2>3, <2>4, <2>5
  <2>6. CASE i # Len(fills) + 1
    <3>1. i \in 1..Len(fills) /\ fills'[i] = fills[i]
      BY <2>4, <2>6
    <3> QED BY <3>1 DEF HInv, FillsHonourLimits
  <2> QED BY <2>5, <2>6
<1> QED BY <1>6, <1>7, <1>8, <1>9 DEF HInv, OrdersAsPlaced

(* Every step of the engine keeps the history sound. *)
LEMMA NextHInv == IInv /\ HInv /\ [Next]_vars => HInv'
<1> SUFFICES ASSUME IInv, HInv, [Next]_vars PROVE HInv'
  OBVIOUS
<1>1. ASSUME NEW o \in Incoming, Reject(o) PROVE HInv'
  BY <1>1, PlacedHInv DEF Reject
<1>2. ASSUME NEW o \in Incoming, Accept(o) PROVE HInv'
  BY <1>2, PlacedHInv DEF Accept
<1>3. CASE ExecuteFill
  BY <1>3, ExecuteFillExecutes, ExecutesHInv
<1>4. CASE Finish
  <2>1. taker \in Order /\ ~Idle
    BY <1>4 DEF IInv, TypeOK, Finish, Idle
  <2>2. book' = book \/ book' = InsertOrder(book, taker)
    BY <1>4 DEF Finish
  <2>3. InsertOrder(book, taker).orders = Put(book.orders, SlabKey(book), taker)
    BY <2>1, InsertFields DEF IInv, TypeOK
  <2>4. \A k \in DOMAIN book'.orders :
          \/ k \in DOMAIN book.orders /\ book'.orders[k] = book.orders[k]
          \/ ~Idle /\ book'.orders[k] = taker
    BY <2>1, <2>2, <2>3 DEF Put
  <2> QED BY <1>4, <2>4, NoFillHInv DEF Finish
<1>5. ASSUME NEW id \in Ids, Cancel(id) PROVE HInv'
  <2>1. Structure(book) /\ IsBook(book)
    BY ConsistentIsStructure DEF IInv, TypeOK
  <2>2. CASE CancelRejected(book, id)
    BY <1>5, <2>2, NoFillHInv DEF Cancel
  <2>3. CASE ~CancelRejected(book, id)
    <3>1. id \in DOMAIN book.index /\ book' = CancelOrder(book, id)
      BY <1>5, <2>3 DEF CancelRejected, Cancel
    <3>2. Shrunk(book, book.index[id], book')
      BY <2>1, <3>1, CancelShrinks, StructureIsCore
    <3>3. \A k \in DOMAIN book'.orders :
            k \in DOMAIN book.orders /\ book'.orders[k] = book.orders[k]
      BY <3>2 DEF Shrunk
    <3> QED BY <1>5, <3>3, NoFillHInv DEF Cancel
  <2> QED BY <2>2, <2>3
<1>6. CASE NextSequence \/ UNCHANGED vars
  BY <1>6, NoFillHInv DEF NextSequence, vars
<1> QED BY <1>1, <1>2, <1>3, <1>4, <1>5, <1>6 DEF Next

(* Nothing is placed and nothing has traded when the engine starts. *)
LEMMA InitHInv == Init => HInv
<1> SUFFICES ASSUME Init PROVE HInv
  OBVIOUS
<1>1. DOMAIN book.orders = {} /\ DOMAIN placed = {}
  BY DEF Init, EmptyBook, EmptyMap
<1> QED BY <1>1 DEF Init, HInv, OrdersAsPlaced, TradedSound, FillsHonourLimits, Idle

(* The history is sound in every state of every run of the engine. *)
THEOREM History == Spec => []HInv
BY InitHInv, NextHInv, Invariance, PTL DEF Spec

(* Over all the calls an order takes part in, as taker and then as maker, it
   is never filled beyond its quantity, and the filled field of the order
   that rests or is in flight is exactly what its id has traded. *)
THEOREM Conservation == Spec => []FillsConserved
<1>1. HInv => FillsConserved
  BY DEF HInv, OrdersAsPlaced, AsPlaced, TradedSound, FillsConserved
<1> QED BY <1>1, History, PTL

(* Every fill is at the limit of its maker, between opposite sides, and at a
   price its taker accepts. *)
THEOREM Limits == Spec => []FillsHonourLimits
<1>1. HInv => FillsHonourLimits
  BY DEF HInv
<1> QED BY <1>1, History, PTL
-----------------------------------------------------------------------------
(* The front of the best level comes before every other live order of its
   side: its price is the best one, and its queue is in order of arrival. *)
LEMMA FrontIsFirst ==
  ASSUME NEW b, IsBook(b), Structure(b), TimeOrdered(b),
         NEW s \in Side, HasBest(b, s),
         NEW k \in DOMAIN b.orders, b.orders[k].side = s
  PROVE  ~Precedes(b.orders[k], b.orders[BestFront(b, s)])
<1> DEFINE o   == b.orders[k]
           p   == Best(b, s)
           key == BestFront(b, s)
           m   == b.orders[key]
           lev == b.levels[s][p]
<1>1. key \in DOMAIN b.orders /\ m.side = s /\ m.price = p
  BY BestFrontLive, StructureIsCore
<1>2. /\ p \in DOMAIN b.levels[s]
      /\ \A q \in DOMAIN b.levels[s] : IF s = "Bid" THEN q <= p ELSE p <= q
  BY BestIsBest
<1>3. /\ o.price \in DOMAIN b.levels[s]
      /\ \E i \in 1..Len(b.levels[s][o.price]) : b.levels[s][o.price][i] = k
  BY DEF Structure, LevelsComplete
<1>4. o.price \in Int /\ p \in Int /\ o.sequence \in Int /\ m.sequence \in Int
  BY <1>1, <1>2, <1>3, PriceAssumption DEF IsBook, IsMap, Order
<1>5. lev \in Seq(Nat) /\ lev # << >>
  BY <1>2 DEF IsBook, IsMap, Structure, LevelsSound
<1>6. 1 \in 1..Len(lev) /\ key = lev[1]
  BY <1>5, TailIsWithout DEF BestFront
<1>7. o.price = p => ~(o.sequence < m.sequence)
  <2> HAVE o.price = p
  <2>1. PICK i \in 1..Len(lev) : lev[i] = k
    BY <1>3
  <2>2. CASE i = 1
    BY <1>4, <1>6, <2>1, <2>2
  <2>3. CASE i # 1
    <3>1. 1 < i
      BY <1>5, <2>1, <2>3
    <3>2. b.orders[lev[1]].sequence < b.orders[lev[i]].sequence
      BY <1>2, <1>6, <2>1, <3>1 DEF TimeOrdered
    <3>3. m.sequence < o.sequence
      BY <1>6, <2>1, <3>2
    <3> HIDE DEF m, o
    <3> QED BY <1>4, <3>3
  <2> QED BY <2>2, <2>3
<1>8. IF s = "Bid" THEN o.price <= p ELSE p <= o.price
  BY <1>2, <1>3
<1> HIDE DEF o, m, key, p
<1>9. o.side = s
  BY DEF o
<1>10. ~Precedes(o, m)
  BY <1>1, <1>4, <1>7, <1>8, <1>9 DEF Precedes
<1> QED BY <1>10 DEF o, m, key, p

(* Whoever is filled was first in price-time priority among the live orders
   of its side at that moment. *)
THEOREM Priority == Spec => PriceTimePriority
<1> DEFINE A == Len(fills') > Len(fills) =>
                  LET m == placed[fills'[Len(fills')].maker]
                  IN  \A k \in DOMAIN book.orders :
                        book.orders[k].side = m.side => ~Precedes(book.orders[k], m)
<1>1. ASSUME IInv, HInv, [Next]_vars PROVE A
  <2>1. CASE ExecuteFill
    <3>1. PICK key, qty : Executes(key, qty)
      BY <1>1, <2>1, ExecuteFillExecutes
    <3> DEFINE n == book.orders[key]
               f == [maker |-> n.id, taker |-> taker.id, price |-> n.price,
                     quantity |-> qty, sequence |-> sequence + 1]
               m == placed[fills'[Len(fills')].maker]
    <3>2. fills \in Seq(Fill) /\ fills' = Append(fills, f) /\ f.maker = n.id
      BY <1>1, <3>1 DEF IInv, TypeOK, Executes
    <3>3. fills'[Len(fills')] = f
      <4> HIDE DEF f
      <4> QED BY <3>2
    <3>4. key \in DOMAIN book.orders /\ AsPlaced(n)
      BY <1>1, <3>1 DEF HInv, OrdersAsPlaced, Executes
    <3>5. m = placed[n.id]
      BY <3>2, <3>3
    <3>6. n.side = m.side /\ n.price = m.price /\ n.sequence = m.sequence
      BY <3>4, <3>5 DEF AsPlaced
    <3> HIDE DEF m, n, f
    <3>7. ASSUME NEW k \in DOMAIN book.orders, book.orders[k].side = m.side
          PROVE  ~Precedes(book.orders[k], m)
      <4>1. IsBook(book) /\ Structure(book) /\ TimeOrdered(book)
        BY <1>1, ConsistentIsStructure DEF IInv, TypeOK, TimePriority
      <4>2. /\ n.side \in Side /\ HasBest(book, n.side)
            /\ key = BestFront(book, n.side)
        BY <3>1 DEF Executes, n
      <4>3. ~Precedes(book.orders[k], n)
        BY <3>6, <3>7, <4>1, <4>2, FrontIsFirst DEF n
      <4> QED BY <3>6, <4>3 DEF Precedes
    <3> QED BY <3>7 DEF m
  <2>2. ASSUME fills' = fills \/ fills' = << >> PROVE A
    <3>1. fills \in Seq(Fill)
      BY <1>1 DEF IInv, TypeOK
    <3>2. ~(Len(fills') > Len(fills))
      BY <2>2, <3>1
    <3> QED BY <3>2
  <2>3. CASE ~ExecuteFill
    <3>1. fills' = fills \/ fills' = << >>
      BY <1>1, <2>3 DEF Next, Reject, Accept, Finish, Cancel, NextSequence, vars
    <3> QED BY <2>2, <3>1
  <2> QED BY <2>1, <2>3
<1>2. ASSUME IInv, HInv, [Next]_vars PROVE [A]_vars
  BY <1>1, <1>2
<1>3. IInv /\ HInv /\ [Next]_vars => [A]_vars
  BY <1>2
<1> QED BY <1>3, Invariance, History, PTL DEF Spec, PriceTimePriority
===============================================================================
