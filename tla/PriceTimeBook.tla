----------------------------- MODULE PriceTimeBook -----------------------------
(***************************************************************************)
(* What a price-time-priority matching engine promises, with no slab, no   *)
(* index and no queues: a set of resting orders, at most one order being   *)
(* matched, and the trades of the current call.                            *)
(***************************************************************************)
EXTENDS Integers, Sequences

CONSTANTS Ids, Prices, NoPrice, NoOrder

VARIABLES
  resting,   \* the set of resting orders
  incoming,  \* the order being matched, or NoOrder
  tape       \* the trades of the current, or the last, call

absVars == <<resting, incoming, tape>>

Resting == [id : Ids, side : {"Bid", "Ask"}, price : Prices, left : Int,
            arrival : Int]

(* accepts is the set of prices the order agrees to trade at; its unfilled
   rest is kept at keep, dropped, or refused. *)
IncomingType == [id : Ids, side : {"Bid", "Ask"}, accepts : SUBSET Prices,
                 keep : Prices \cup {NoPrice},
                 rest : {"keep", "drop", "refuse"}, left : Int, arrival : Int]

AbsInit == resting = {} /\ incoming = NoOrder /\ tape = << >>

Better(r, m) ==
  \/ IF r.side = "Bid" THEN r.price > m.price ELSE r.price < m.price
  \/ r.price = m.price /\ r.arrival < m.arrival

OtherSide == {r \in resting : r.side # incoming.side}

(* A new order, later than everything that rests. *)
Arrive ==
  /\ incoming = NoOrder
  /\ incoming' \in IncomingType
  /\ incoming'.left > 0
  /\ \A r \in resting : r.id # incoming'.id /\ r.arrival < incoming'.arrival
  /\ tape' = << >>
  /\ UNCHANGED resting

(* One trade, with the resting order that no other one precedes. *)
Trade ==
  /\ incoming # NoOrder
  /\ incoming.left > 0
  /\ \E m \in OtherSide :
       LET qty == IF incoming.left < m.left THEN incoming.left ELSE m.left
       IN  /\ m.price \in incoming.accepts
           /\ \A r \in OtherSide : ~Better(r, m)
           /\ incoming' = [incoming EXCEPT !.left = @ - qty]
           /\ resting' = (resting \ {m}) \cup
                {r \in {[m EXCEPT !.left = @ - qty]} : r.left > 0}
           /\ tape' = Append(tape, [maker |-> m.id, taker |-> incoming.id,
                                    price |-> m.price, quantity |-> qty])

(* The call ends only when the order is filled or nobody on the other side
   has a price it accepts.  An unfilled rest is kept at its price or dropped;
   a rest that is refused is an error, which carries none of the trades. *)
Complete ==
  /\ incoming # NoOrder
  /\ incoming.left > 0 => \A r \in OtherSide : r.price \notin incoming.accepts
  /\ resting' = resting \cup
       {r \in {[id |-> incoming.id, side |-> incoming.side,
                price |-> incoming.keep, left |-> incoming.left,
                arrival |-> incoming.arrival]} :
          r.left > 0 /\ incoming.rest = "keep"}
  /\ tape' = IF incoming.left > 0 /\ incoming.rest = "refuse" THEN << >> ELSE tape
  /\ incoming' = NoOrder

(* A call that removes the order id, if it rests, and trades nothing. *)
Remove(id) ==
  /\ incoming = NoOrder
  /\ resting' = {r \in resting : r.id # id}
  /\ tape' = << >>
  /\ UNCHANGED incoming

(* A call that is refused. *)
Refuse ==
  /\ incoming = NoOrder
  /\ tape' = << >>
  /\ UNCHANGED <<resting, incoming>>

AbsNext ==
  \/ Arrive
  \/ Trade
  \/ Complete
  \/ \E id \in Ids : Remove(id)
  \/ Refuse

AbsSpec == AbsInit /\ [][AbsNext]_absVars
=============================================================================
