------------------------------ MODULE MCRecovery ------------------------------
(* Recovery on a small instance. *)
EXTENDS Recovery

CONSTANTS id1, id2, id3, id4, pod1, pod2

(* The pods are alike. *)
PodSymmetry == Permutations({pod1, pod2})

(* What is produced late is only read late: with one partition it is enough
   that the processes start when the orders are there. *)
ProducedFirst == Running # {} => Cardinality(Produced) = MaxOrders

(* With one price the sides are mirror images, and the engine does not look at
   the price of a market order: the first order of a partition is a bid and
   market orders carry no price. *)
OneOfEachKind ==
  \A p \in Partitions :
    /\ log[p] # << >> => log[p][1].side = "Bid"
    /\ \A o \in Range(log[p]) : o.order_type = "Market" => o.price = NoPrice

(* A bound: market orders come in one size, large enough to leave a rest. *)
MarketOrdersLarge ==
  \A p \in Partitions : \A o \in Range(log[p]) :
    o.order_type = "Market" => \A q \in Quantities : q <= o.quantity

Representative == ProducedFirst /\ OneOfEachKind /\ MarketOrdersLarge
===============================================================================
