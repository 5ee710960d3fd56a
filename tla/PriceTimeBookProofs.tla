------------------------- MODULE PriceTimeBookProofs -------------------------
(***************************************************************************)
(* The matching engine implements the abstract price-time book: its empty  *)
(* book maps to the initial state of PriceTimeBook and every step of the   *)
(* engine maps to a step of PriceTimeBook or changes nothing there.        *)
(***************************************************************************)
EXTENDS MatchingEngineProofs

(* What the abstract book knows of a resting order. *)
AsResting(o) ==
  [id |-> o.id, side |-> o.side, price |-> o.price, left |-> Remaining(o),
   arrival |-> o.sequence]

(* What it knows of the order being matched. *)
AsIncoming(o) ==
  [id |-> o.id, side |-> o.side,
   accepts |-> {p \in Prices : Crosses(o, p)},
   keep |-> o.price,
   rest |-> IF o.order_type = "Market" THEN "drop"
            ELSE IF InsertRejected(o) THEN "refuse" ELSE "keep",
   left |-> Remaining(o), arrival |-> o.sequence]

(* What it knows of the fills of a call. *)
AsTape(fs) ==
  [i \in 1..Len(fs) |->
     [maker |-> fs[i].maker, taker |-> fs[i].taker,
      price |-> fs[i].price, quantity |-> fs[i].quantity]]

(* The refinement mapping in these terms. *)
LEMMA Mapping ==
  /\ RestingOrders = {AsResting(book.orders[k]) : k \in DOMAIN book.orders}
  /\ RestingOrders' = {AsResting(book'.orders[k]) : k \in DOMAIN book'.orders}
  /\ IncomingOrder = IF Idle THEN NoOrder ELSE AsIncoming(taker)
  /\ IncomingOrder' = IF Idle' THEN NoOrder ELSE AsIncoming(taker')
  /\ Tape = AsTape(fills) /\ Tape' = AsTape(fills')
BY DEF RestingOrders, IncomingOrder, Tape, AsResting, AsIncoming, AsTape

(* A call without fills has an empty tape. *)
LEMMA EmptyTape == AsTape(<< >>) = << >>
BY DEF AsTape

(* Another fill is another trade on the tape. *)
LEMMA LongerTape ==
  ASSUME NEW fs \in Seq(Fill), NEW f \in Fill
  PROVE  AsTape(Append(fs, f))
           = Append(AsTape(fs), [maker |-> f.maker, taker |-> f.taker,
                                 price |-> f.price, quantity |-> f.quantity])
<1> DEFINE T(g) == [maker |-> g.maker, taker |-> g.taker, price |-> g.price,
                    quantity |-> g.quantity]
           gs == Append(fs, f)
<1>1. /\ gs \in Seq(Fill) /\ Len(fs) \in Nat /\ Len(gs) = Len(fs) + 1
      /\ \A i \in 1..Len(fs) : gs[i] = fs[i]
      /\ gs[Len(fs) + 1] = f
  OBVIOUS
<1>2. AsTape(fs) = [i \in 1..Len(fs) |-> T(fs[i])]
  BY DEF AsTape
<1>3. AsTape(gs) = [i \in 1..Len(gs) |-> T(gs[i])]
  BY DEF AsTape
<1> HIDE DEF gs, T
<1>4. AsTape(fs) \in Seq({T(g) : g \in Fill}) /\ Len(AsTape(fs)) = Len(fs)
  <2>1. AsTape(fs) \in [1..Len(fs) -> {T(g) : g \in Fill}]
    BY <1>1, <1>2
  <2> QED BY <1>1, <2>1
<1>5. T(f) \in {T(g) : g \in Fill}
  OBVIOUS
<1> DEFINE as == AsTape(fs)
           bs == Append(as, T(f))
<1> HIDE DEF as
<1>6. /\ bs \in Seq({T(g) : g \in Fill})
      /\ Len(bs) = Len(fs) + 1
      /\ \A i \in 1..Len(fs) : bs[i] = as[i]
      /\ bs[Len(fs) + 1] = T(f)
  BY <1>1, <1>4, <1>5 DEF as
<1> HIDE DEF bs
<1>7. bs = [i \in 1..Len(bs) |-> bs[i]]
  BY <1>6
<1>8. \A i \in 1..Len(gs) : bs[i] = T(gs[i])
  BY <1>1, <1>2, <1>6 DEF as
<1>9. AsTape(gs) = bs
  BY <1>1, <1>3, <1>6, <1>7, <1>8
<1> QED BY <1>9 DEF bs, as, gs, T

(* An order that is not NoOrder maps to one that is not. *)
LEMMA IncomingInType ==
  ASSUME NEW o \in Order
  PROVE  AsIncoming(o) \in Abstract!IncomingType /\ AsIncoming(o) # NoOrder
<1>1. /\ o.id \in Ids /\ o.side \in {"Bid", "Ask"} /\ o.price \in Prices \cup {NoPrice}
      /\ Remaining(o) \in Int /\ o.sequence \in Int
  BY DEF Order, Side, Remaining
<1>2. {p \in Prices : Crosses(o, p)} \in SUBSET Prices
  OBVIOUS
<1>3. AsIncoming(o) \in Abstract!IncomingType
  BY <1>1, <1>2 DEF AsIncoming, Abstract!IncomingType
<1> QED BY <1>3, NoOrderAssumption
-----------------------------------------------------------------------------
(* process_order refuses an order: Refuse. *)
LEMMA RejectRefines ==
  ASSUME NEW o \in Incoming, Reject(o)
  PROVE  Abstract!Refuse
<1>1. book' = book /\ taker' = taker /\ fills' = << >> /\ Idle /\ Idle'
  BY DEF Reject, Idle
<1>2. RestingOrders' = RestingOrders /\ IncomingOrder' = IncomingOrder
  BY <1>1, Mapping
<1>3. IncomingOrder = NoOrder /\ Tape' = << >>
  BY <1>1, Mapping, EmptyTape
<1> QED BY <1>2, <1>3 DEF Abstract!Refuse

(* process_order begins: Arrive. *)
LEMMA AcceptRefines ==
  ASSUME IInv, NEW o \in Incoming, Accept(o)
  PROVE  Abstract!Arrive
<1>1. /\ book' = book /\ taker' = o /\ fills' = << >> /\ Idle /\ o.quantity > 0
  BY DEF Accept
<1>2. /\ o \in Order /\ o.id \notin DOMAIN placed /\ o.sequence = offset + 1
      /\ o.filled = 0 /\ o.quantity \in Int
  BY IncomingFacts DEF IInv
<1>3. ~Idle'
  BY <1>1, <1>2, EngineAssumption DEF Idle
<1>4. /\ IncomingOrder = NoOrder /\ IncomingOrder' = AsIncoming(o)
      /\ RestingOrders' = RestingOrders /\ Tape' = << >>
  BY <1>1, <1>3, Mapping, EmptyTape
<1>5. /\ AsIncoming(o) \in Abstract!IncomingType
      /\ AsIncoming(o).id = o.id /\ AsIncoming(o).arrival = o.sequence
      /\ AsIncoming(o).left > 0
  BY <1>1, <1>2, IncomingInType DEF AsIncoming, Remaining
<1>6. ASSUME NEW r \in RestingOrders
      PROVE  r.id # AsIncoming(o).id /\ r.arrival < AsIncoming(o).arrival
  <2>1. PICK k \in DOMAIN book.orders : r = AsResting(book.orders[k])
    BY <1>6, Mapping
  <2>2. r.id = book.orders[k].id /\ r.arrival = book.orders[k].sequence
    BY <2>1 DEF AsResting
  <2>3. /\ book.orders[k].sequence <= offset /\ book.orders[k].id \in DOMAIN placed
        /\ book.orders[k].sequence \in Int /\ offset \in Nat
    BY <2>1 DEF IInv, LiveOrdersOlder, TypeOK, IsBook, IsMap, Order
  <2> QED BY <1>2, <1>5, <2>2, <2>3
<1> QED BY <1>4, <1>5, <1>6 DEF Abstract!Arrive

(* cancel: Remove, also of an order that is not there. *)
LEMMA CancelRefines ==
  ASSUME IInv, NEW id \in Ids, Cancel(id)
  PROVE  Abstract!Remove(id)
<1>1. /\ taker' = taker /\ fills' = << >> /\ Idle /\ Idle'
      /\ book' = IF CancelRejected(book, id) THEN book ELSE CancelOrder(book, id)
  BY DEF Cancel, Idle
<1>2. IncomingOrder = NoOrder /\ IncomingOrder' = IncomingOrder /\ Tape' = << >>
  BY <1>1, Mapping, EmptyTape
<1>3. Structure(book) /\ LiveOrdersOpen(book) /\ IsBook(book)
  BY ConsistentIsStructure DEF IInv, TypeOK
<1>4. /\ DOMAIN book'.orders = {k \in DOMAIN book.orders : book.orders[k].id # id}
      /\ \A k \in DOMAIN book'.orders : book'.orders[k] = book.orders[k]
  <2>1. CASE CancelRejected(book, id)
    <3>1. book' = book
      BY <1>1, <2>1
    <3>2. \A k \in DOMAIN book.orders : ~IsComplete(book.orders[k])
                                        /\ book.orders[k].price # NoPrice
      BY <1>3 DEF LiveOrdersOpen, IsComplete
    <3>3. id \notin DOMAIN book.index
      BY <1>3, <2>1, <3>2 DEF CancelRejected, Structure, IndexSound
    <3>4. \A k \in DOMAIN book.orders : book.orders[k].id # id
      BY <1>3, <3>3 DEF Structure, IndexSound
    <3> QED BY <3>1, <3>4
  <2>2. CASE ~CancelRejected(book, id)
    <3>1. id \in DOMAIN book.index /\ book' = CancelOrder(book, id)
      BY <1>1, <2>2 DEF CancelRejected
    <3>2. Shrunk(book, book.index[id], book')
      BY <1>3, <3>1, CancelShrinks, StructureIsCore
    <3>3. \A k \in DOMAIN book.orders : k = book.index[id] <=> book.orders[k].id = id
      BY <1>3, <3>1 DEF Structure, IndexSound
    <3> QED BY <3>2, <3>3 DEF Shrunk
  <2> QED BY <2>1, <2>2
<1>5. \A o : AsResting(o).id = o.id
  BY DEF AsResting
<1>6. RestingOrders' = {r \in RestingOrders : r.id # id}
  <2>1. ASSUME NEW r \in RestingOrders'
        PROVE  r \in RestingOrders /\ r.id # id
    <3>1. PICK k \in DOMAIN book'.orders : r = AsResting(book'.orders[k])
      BY <2>1, Mapping
    <3>2. /\ k \in DOMAIN book.orders /\ r = AsResting(book.orders[k])
          /\ book.orders[k].id # id
      BY <1>4, <3>1
    <3> QED BY <1>5, <3>2, Mapping
  <2>2. ASSUME NEW r \in RestingOrders, r.id # id PROVE r \in RestingOrders'
    <3>1. PICK k \in DOMAIN book.orders : r = AsResting(book.orders[k])
      BY <2>2, Mapping
    <3>2. k \in DOMAIN book'.orders /\ r = AsResting(book'.orders[k])
      BY <1>4, <1>5, <2>2, <3>1
    <3> QED BY <3>2, Mapping
  <2> QED BY <2>1, <2>2
<1> QED BY <1>2, <1>6 DEF Abstract!Remove

(* A fill leaves what the taker accepts and what becomes of its rest as they
   are. *)
LEMMA FilledIncoming ==
  ASSUME NEW o \in Order, NEW qty \in Int
  PROVE  AsIncoming(Filled(o, qty)) = [AsIncoming(o) EXCEPT !.left = @ - qty]
<1> DEFINE f == Filled(o, qty)
<1>1. /\ f.id = o.id /\ f.side = o.side /\ f.order_type = o.order_type
      /\ f.price = o.price /\ f.quantity = o.quantity
      /\ f.sequence = o.sequence /\ f.filled = o.filled + qty
  BY FilledFields
<1> HIDE DEF f
<1>2. Remaining(f) = Remaining(o) - qty
  BY <1>1 DEF Remaining, Order
<1>3. {p \in Prices : Crosses(f, p)} = {p \in Prices : Crosses(o, p)}
  BY <1>1 DEF Crosses, LimitPrice
<1> DEFINE accepts(t) == {p \in Prices : Crosses(t, p)}
           rest(t)    == IF t.order_type = "Market" THEN "drop"
                         ELSE IF InsertRejected(t) THEN "refuse" ELSE "keep"
           left(t)    == Remaining(t)
<1>4. accepts(f) = accepts(o) /\ rest(f) = rest(o) /\ left(f) = left(o) - qty
  BY <1>1, <1>2, <1>3 DEF InsertRejected
<1>5. \A t : AsIncoming(t) = [id |-> t.id, side |-> t.side, accepts |-> accepts(t),
                              keep |-> t.price, rest |-> rest(t),
                              left |-> left(t), arrival |-> t.sequence]
  BY DEF AsIncoming
<1> HIDE DEF accepts, rest, left
<1>6. AsIncoming(f) = [AsIncoming(o) EXCEPT !.left = @ - qty]
  BY <1>1, <1>4, <1>5
<1> QED BY <1>6 DEF f

(* A fill takes its quantity off what the abstract book knows of a maker. *)
LEMMA FilledResting ==
  ASSUME NEW o \in Order, NEW qty \in Int
  PROVE  /\ AsResting(Filled(o, qty)) = [AsResting(o) EXCEPT !.left = @ - qty]
         /\ AsResting(Filled(o, qty)).left = Remaining(Filled(o, qty))
         /\ AsResting(Filled(o, qty)).left \in Int
<1> DEFINE f == Filled(o, qty)
<1>1. /\ f.id = o.id /\ f.side = o.side /\ f.price = o.price
      /\ f.quantity = o.quantity /\ f.sequence = o.sequence
      /\ f.filled = o.filled + qty
  BY FilledFields
<1> HIDE DEF f
<1>2. Remaining(f) = Remaining(o) - qty /\ Remaining(f) \in Int
  BY <1>1 DEF Remaining, Order
<1>3. AsResting(f) = [AsResting(o) EXCEPT !.left = @ - qty]
  BY <1>1, <1>2 DEF AsResting
<1>4. AsResting(f).left = Remaining(f)
  BY DEF AsResting
<1> QED BY <1>2, <1>3, <1>4 DEF f

(* The abstract book ranks resting orders as the engine does. *)
LEMMA SameRanking ==
  ASSUME NEW o, NEW m
  PROVE  Abstract!Better(AsResting(o), AsResting(m)) <=> Precedes(o, m)
BY DEF Abstract!Better, Precedes, AsResting

(* The resting orders after a fill: the maker is replaced by what is left of
   it, if anything is. *)
LEMMA RestingAfterFill ==
  ASSUME IInv, NEW key, NEW qty, Executes(key, qty)
  PROVE  LET m == AsResting(book.orders[key])
             n == AsResting(Filled(book.orders[key], qty))
         IN  /\ m \in RestingOrders
             /\ RestingOrders' = (RestingOrders \ {m}) \cup {r \in {n} : r.left > 0}
<1> DEFINE o == book.orders[key]
           f == Filled(o, qty)
           m == AsResting(o)
           n == AsResting(f)
<1>1. /\ key \in DOMAIN book.orders /\ o \in Order /\ qty \in Int
      /\ OneFilled(book, key, f, book')
  BY DEF Executes
<1>2. n.left = Remaining(f) /\ n.left \in Int
  BY <1>1, FilledResting
<1>3. \A k \in DOMAIN book.orders : k # key => AsResting(book.orders[k]) # m
  <2>1. \A k \in DOMAIN book.orders : k # key => book.orders[k].id # o.id
    BY <1>1, IdsDiffer
  <2>2. \A t : AsResting(t).id = t.id
    BY DEF AsResting
  <2> QED BY <2>1, <2>2
<1>4. m \in RestingOrders
  BY <1>1, Mapping
<1> HIDE DEF m, n, f, o
<1>5. ASSUME NEW r \in RestingOrders'
      PROVE  r \in (RestingOrders \ {m}) \cup {t \in {n} : t.left > 0}
  <2>1. PICK k \in DOMAIN book'.orders : r = AsResting(book'.orders[k])
    BY <1>5, Mapping
  <2>2. CASE k = key
    <3>1. ~(Remaining(f) <= 0) /\ book'.orders[k] = f
      BY <1>1, <2>1, <2>2 DEF OneFilled
    <3>2. r = n
      BY <2>1, <3>1 DEF n
    <3> QED BY <1>2, <3>1, <3>2
  <2>3. CASE k # key
    <3>1. k \in DOMAIN book.orders /\ book'.orders[k] = book.orders[k]
      BY <1>1, <2>1, <2>3 DEF OneFilled
    <3>2. r = AsResting(book.orders[k]) /\ r # m /\ r \in RestingOrders
      BY <1>3, <2>1, <2>3, <3>1, Mapping
    <3> QED BY <3>2
  <2> QED BY <2>2, <2>3
<1>6. ASSUME NEW r \in RestingOrders, r # m PROVE r \in RestingOrders'
  <2>1. PICK k \in DOMAIN book.orders : r = AsResting(book.orders[k])
    BY <1>6, Mapping
  <2>2. k # key
    BY <1>6, <2>1 DEF m, o
  <2>3. k \in DOMAIN book'.orders /\ book'.orders[k] = book.orders[k]
    BY <1>1, <2>1, <2>2 DEF OneFilled
  <2> QED BY <2>1, <2>3, Mapping
<1>7. ASSUME n.left > 0 PROVE n \in RestingOrders'
  <2>1. ~(Remaining(f) <= 0)
    BY <1>2, <1>7
  <2>2. key \in DOMAIN book'.orders /\ book'.orders[key] = f
    BY <1>1, <2>1 DEF OneFilled
  <2> QED BY <2>2, Mapping DEF n
<1>8. RestingOrders' = (RestingOrders \ {m}) \cup {r \in {n} : r.left > 0}
  BY <1>5, <1>6, <1>7
<1> QED BY <1>4, <1>8 DEF m, n, f, o

(* One execute_fill: Trade, with the order no other one precedes. *)
LEMMA ExecutesRefines ==
  ASSUME IInv, NEW key, NEW qty, Executes(key, qty)
  PROVE  Abstract!Trade
<1> DEFINE o == book.orders[key]
           m == AsResting(o)
           t == AsIncoming(taker)
<1>1. /\ taker # NoOrder /\ taker \in Order /\ Remaining(taker) > 0
      /\ taker' = Filled(taker, qty) /\ qty \in Int
      /\ key \in DOMAIN book.orders /\ o \in Order
      /\ o.side \in Side /\ o.side # taker.side
      /\ o.price \in Prices /\ Crosses(taker, o.price)
      /\ HasBest(book, o.side) /\ key = BestFront(book, o.side)
      /\ qty = FillQty(book, taker, key)
  BY DEF Executes
<1>2. IncomingOrder = t /\ t # NoOrder
  BY <1>1, Mapping, IncomingInType DEF Idle
<1>3. IncomingOrder' = [t EXCEPT !.left = @ - qty]
  <2>1. taker' \in Order /\ taker' # NoOrder
    BY <1>1, FilledFields, EngineAssumption
  <2>2. IncomingOrder' = AsIncoming(taker')
    BY <2>1, Mapping DEF Idle
  <2> QED BY <1>1, <2>2, FilledIncoming
<1>4. /\ t.left = Remaining(taker) /\ t.side = taker.side /\ t.id = taker.id
      /\ t.accepts = {p \in Prices : Crosses(taker, p)}
  BY DEF AsIncoming
<1>5. m.id = o.id /\ m.side = o.side /\ m.price = o.price /\ m.left = Remaining(o)
  BY DEF AsResting
<1>6. qty = IF t.left < m.left THEN t.left ELSE m.left
  BY <1>1, <1>4, <1>5 DEF FillQty
<1>7. m \in RestingOrders
  BY <1>1, Mapping
<1>8. RestingOrders' = (RestingOrders \ {m}) \cup
        {r \in {[m EXCEPT !.left = @ - qty]} : r.left > 0}
  <2>1. AsResting(Filled(o, qty)) = [m EXCEPT !.left = @ - qty]
    BY <1>1, FilledResting
  <2> QED BY <2>1, RestingAfterFill
<1>9. ASSUME NEW r \in RestingOrders, r.side # t.side
      PROVE  ~Abstract!Better(r, m)
  <2>1. PICK k \in DOMAIN book.orders : r = AsResting(book.orders[k])
    BY <1>9, Mapping
  <2>2. book.orders[k].side \in Side /\ r.side = book.orders[k].side
    BY <2>1 DEF IInv, TypeOK, IsBook, IsMap, Order, AsResting
  <2>3. book.orders[k].side = o.side
    BY <1>1, <1>4, <1>9, <2>2 DEF Side, Order
  <2>4. IsBook(book) /\ Structure(book) /\ TimeOrdered(book)
    BY ConsistentIsStructure DEF IInv, TypeOK, TimePriority
  <2>5. ~Precedes(book.orders[k], o)
    BY <1>1, <2>3, <2>4, FrontIsFirst
  <2> QED BY <2>1, <2>5, SameRanking
<1>10. Tape' = Append(Tape, [maker |-> m.id, taker |-> t.id, price |-> m.price,
                             quantity |-> qty])
  <2> DEFINE f == [maker |-> o.id, taker |-> taker.id, price |-> o.price,
                   quantity |-> qty, sequence |-> sequence + 1]
  <2>1. fills' = Append(fills, f) /\ fills \in Seq(Fill) /\ sequence + 1 \in Nat
    BY DEF Executes, IInv, TypeOK
  <2>2. f \in Fill
    BY <1>1, <2>1 DEF Fill, Order
  <2>3. f.maker = m.id /\ f.taker = t.id /\ f.price = m.price /\ f.quantity = qty
    BY <1>4, <1>5
  <2> HIDE DEF f, m, t, o
  <2> QED BY <2>1, <2>2, <2>3, Mapping, LongerTape
<1> HIDE DEF m, t, o
<1>11. m \in Abstract!OtherSide
  BY <1>1, <1>2, <1>4, <1>5, <1>7 DEF Abstract!OtherSide
<1>12. \A r \in Abstract!OtherSide : ~Abstract!Better(r, m)
  BY <1>2, <1>9 DEF Abstract!OtherSide
<1>13. m.price \in t.accepts
  BY <1>1, <1>4, <1>5
<1>14. IncomingOrder # NoOrder /\ IncomingOrder.left > 0
  BY <1>1, <1>2, <1>4
<1> QED BY <1>2, <1>3, <1>6, <1>8, <1>10, <1>11, <1>12, <1>13, <1>14
    DEF Abstract!Trade

(* A taker that does not accept the best opposing price accepts none. *)
LEMMA NobodyAccepted ==
  ASSUME IInv, ~Idle, ~Matches(book, taker), Remaining(taker) > 0,
         NEW k \in DOMAIN book.orders, book.orders[k].side # taker.side
  PROVE  ~Crosses(taker, book.orders[k].price)
<1> DEFINE opp  == Opposite(taker.side)
           q    == book.orders[k].price
           best == Best(book, opp)
           lim  == LimitPrice(taker)
<1>1. /\ taker.side \in Side /\ taker.price \in Prices \cup {NoPrice}
      /\ book.orders[k].side \in Side
  BY DEF IInv, TypeOK, Idle, Order, IsBook, IsMap
<1>2. opp \in Side /\ book.orders[k].side = opp
  BY <1>1 DEF Opposite, Side
<1>3. Structure(book) /\ IsBook(book)
  BY ConsistentIsStructure DEF IInv, TypeOK
<1>4. q \in DOMAIN book.levels[opp]
  BY <1>2, <1>3 DEF Structure, LevelsComplete
<1>5. HasBest(book, opp)
  BY <1>4 DEF HasBest
<1>6. /\ best \in DOMAIN book.levels[opp]
      /\ \A r \in DOMAIN book.levels[opp] :
           IF opp = "Bid" THEN r <= best ELSE best <= r
  BY <1>2, <1>3, <1>5, BestIsBest
<1>7. best \in Int /\ q \in Int /\ lim \in Int
  <2>1. DOMAIN book.levels[opp] \subseteq Int
    BY <1>2, <1>3, PriceAssumption DEF IsBook, IsMap
  <2>2. lim \in Int
    <3>1. Prices \subseteq Int /\ MaxPrice \in Int
      BY PriceAssumption
    <3>2. taker.price # NoPrice => taker.price \in Int
      BY <1>1, <3>1
    <3>3. lim = IF taker.price # NoPrice THEN taker.price
                ELSE IF taker.side = "Bid" THEN 0 ELSE MaxPrice
      BY DEF LimitPrice
    <3> QED BY <3>1, <3>2, <3>3
  <2> QED BY <1>4, <1>6, <2>1, <2>2
<1>8. ~Crosses(taker, best)
  BY <1>5 DEF Matches
<1>9. taker.side = "Bid" => opp = "Ask" /\ best <= q
  BY <1>4, <1>6 DEF Opposite
<1>10. taker.side # "Bid" => opp = "Bid" /\ q <= best
  BY <1>4, <1>6 DEF Opposite
<1> HIDE DEF best, q, lim, opp
<1>11. ~Crosses(taker, q)
  <2>1. \A p : Crosses(taker, p) <=>
          \/ taker.order_type = "Market"
          \/ IF taker.side = "Bid" THEN p <= lim ELSE p >= lim
    BY DEF Crosses, lim
  <2> QED BY <1>7, <1>8, <1>9, <1>10, <2>1
<1> QED BY <1>11 DEF q

(* The end of process_order: Complete. *)
LEMMA FinishRefines ==
  ASSUME IInv, Finish
  PROVE  Abstract!Complete
<1> DEFINE t       == AsIncoming(taker)
           rests   == taker.order_type = "Limit" /\ Remaining(taker) > 0
           refused == rests /\ InsertRejected(taker)
           new     == AsResting(taker)
<1>1. /\ ~Idle /\ ~Matches(book, taker) /\ taker' = NoOrder
      /\ book' = IF rests /\ ~refused THEN InsertOrder(book, taker) ELSE book
      /\ fills' = IF refused THEN << >> ELSE fills
  BY DEF Finish
<1>2. taker \in Order /\ taker.order_type \in {"Limit", "Market"}
  BY <1>1 DEF IInv, TypeOK, Idle, Order, OrderType
<1>3. IncomingOrder = t /\ t # NoOrder /\ IncomingOrder' = NoOrder
  BY <1>1, <1>2, Mapping, IncomingInType DEF Idle
<1>4. /\ t.id = taker.id /\ t.left = Remaining(taker) /\ t.side = taker.side
      /\ t.keep = taker.price /\ t.arrival = taker.sequence
      /\ t.accepts = {p \in Prices : Crosses(taker, p)}
      /\ t.rest = IF taker.order_type = "Market" THEN "drop"
                  ELSE IF InsertRejected(taker) THEN "refuse" ELSE "keep"
  BY DEF AsIncoming
<1>5. /\ new = [id |-> t.id, side |-> t.side, price |-> t.keep, left |-> t.left,
               arrival |-> t.arrival]
      /\ new.left = t.left
  BY <1>4 DEF AsResting
<1>6. /\ (t.left > 0 /\ t.rest = "refuse") <=> refused
      /\ (t.left > 0 /\ t.rest = "keep") <=> (rests /\ ~refused)
  BY <1>2, <1>4
<1> HIDE DEF t, rests, refused, new
<1>7. t.left > 0 => \A r \in Abstract!OtherSide : r.price \notin t.accepts
  <2> SUFFICES ASSUME t.left > 0, NEW r \in RestingOrders, r.side # t.side
               PROVE  r.price \notin t.accepts
    BY <1>3 DEF Abstract!OtherSide
  <2>1. PICK k \in DOMAIN book.orders : r = AsResting(book.orders[k])
    BY Mapping
  <2>2. r.side = book.orders[k].side /\ r.price = book.orders[k].price
    BY <2>1 DEF AsResting
  <2>3. ~Crosses(taker, r.price)
    BY <1>1, <1>4, <2>1, <2>2, NobodyAccepted
  <2> QED BY <1>4, <2>3
<1>8. Tape' = IF t.left > 0 /\ t.rest = "refuse" THEN << >> ELSE Tape
  BY <1>1, <1>6, Mapping, EmptyTape
<1>9. RestingOrders' = RestingOrders \cup
                         {r \in {new} : r.left > 0 /\ t.rest = "keep"}
  <2>1. CASE ~(rests /\ ~refused)
    <3>1. book' = book
      BY <1>1, <2>1
    <3>2. RestingOrders' = RestingOrders
      BY <3>1, Mapping
    <3> QED BY <1>5, <1>6, <2>1, <3>2
  <2>2. CASE rests /\ ~refused
    <3> DEFINE key == SlabKey(book)
    <3>1. book' = InsertOrder(book, taker)
      BY <1>1, <2>2
    <3>2. Structure(book) /\ IsBook(book)
      BY ConsistentIsStructure DEF IInv, TypeOK
    <3>3. book'.orders = Put(book.orders, key, taker) /\ key \notin DOMAIN book.orders
      BY <1>2, <3>1, <3>2, InsertFields, SlabKeyFresh DEF Structure
    <3> HIDE DEF key
    <3>4. /\ DOMAIN book'.orders = DOMAIN book.orders \cup {key}
          /\ book'.orders[key] = taker
          /\ \A k \in DOMAIN book.orders : book'.orders[k] = book.orders[k]
      BY <3>3 DEF Put
    <3>5. ASSUME NEW r \in RestingOrders' PROVE r \in RestingOrders \cup {new}
      <4>1. PICK k \in DOMAIN book'.orders : r = AsResting(book'.orders[k])
        BY <3>5, Mapping
      <4>2. CASE k = key
        BY <3>4, <4>1, <4>2 DEF new
      <4>3. CASE k # key
        BY <3>4, <4>1, <4>3, Mapping
      <4> QED BY <4>2, <4>3
    <3>6. ASSUME NEW r \in RestingOrders PROVE r \in RestingOrders'
      <4>1. PICK k \in DOMAIN book.orders : r = AsResting(book.orders[k])
        BY <3>6, Mapping
      <4> QED BY <3>4, <4>1, Mapping
    <3>7. new \in RestingOrders'
      BY <3>4, Mapping DEF new
    <3>8. RestingOrders' = RestingOrders \cup {new}
      BY <3>5, <3>6, <3>7
    <3> QED BY <1>5, <1>6, <2>2, <3>8
  <2> QED BY <2>1, <2>2
<1> QED BY <1>3, <1>5, <1>7, <1>8, <1>9 DEF Abstract!Complete

(* The empty book of a new engine is the empty abstract book. *)
LEMMA InitRefines == Init => Abstract!AbsInit
<1> SUFFICES ASSUME Init PROVE Abstract!AbsInit
  OBVIOUS
<1>1. DOMAIN book.orders = {} /\ Idle /\ fills = << >>
  BY DEF Init, EmptyBook, EmptyMap, Idle
<1> QED BY <1>1, Mapping, EmptyTape DEF Abstract!AbsInit

(* Every step of the engine is a step of the abstract book, or none. *)
LEMMA NextRefines == IInv /\ [Next]_vars => [Abstract!AbsNext]_Abstract!absVars
<1> SUFFICES ASSUME IInv, [Next]_vars
             PROVE  Abstract!AbsNext \/ UNCHANGED Abstract!absVars
  OBVIOUS
<1>1. ASSUME NEW o \in Incoming, Reject(o) PROVE Abstract!AbsNext
  BY <1>1, RejectRefines DEF Abstract!AbsNext
<1>2. ASSUME NEW o \in Incoming, Accept(o) PROVE Abstract!AbsNext
  BY <1>2, AcceptRefines DEF Abstract!AbsNext
<1>3. CASE ExecuteFill
  BY <1>3, ExecuteFillExecutes, ExecutesRefines DEF Abstract!AbsNext
<1>4. CASE Finish
  BY <1>4, FinishRefines DEF Abstract!AbsNext
<1>5. ASSUME NEW id \in Ids, Cancel(id) PROVE Abstract!AbsNext
  BY <1>5, CancelRefines DEF Abstract!AbsNext
<1>6. CASE NextSequence \/ UNCHANGED vars
  <2>1. book' = book /\ taker' = taker /\ fills' = fills
    BY <1>6 DEF NextSequence, vars
  <2>2. /\ RestingOrders' = RestingOrders /\ IncomingOrder' = IncomingOrder
        /\ Tape' = Tape
    BY <2>1, Mapping DEF Idle
  <2> QED BY <2>2 DEF Abstract!absVars
<1> QED BY <1>1, <1>2, <1>3, <1>4, <1>5, <1>6 DEF Next

(* The engine, with its slab, index and queues, does nothing that a
   price-time-priority book would not do, for every set of ids, prices and
   quantities. *)
THEOREM Refinement == Spec => ImplementsPriceTimeBook
BY InitRefines, NextRefines, Invariance, PTL
DEF Spec, ImplementsPriceTimeBook, Abstract!AbsSpec
=============================================================================
