------------------------------- MODULE Snapshot -------------------------------
(***************************************************************************)
(* The snapshot codec (crates/clob-engine/src/snapshot.rs): a book as the  *)
(* list of its orders, and a fresh book rebuilt from such a list.  The     *)
(* postcard bytes are the list itself; market_id is left out as in         *)
(* OrderBook.                                                              *)
(***************************************************************************)
EXTENDS OrderBook, SequencesExt

(* Mutant of SnapshotOrder: the remaining quantity is stored as the
   quantity. *)
SnapshotOrderRemaining(o) == [o EXCEPT !.quantity = Remaining(o)]

(* price.unwrap_or_default(). *)
SnapshotOrder(o) == IF o.price = NoPrice THEN [o EXCEPT !.price = 0] ELSE o

(* The key that the iterator of the slab yields as the i-th: there are i - 1
   smaller ones. *)
SlabNth(b, i) ==
  CHOOSE k \in DOMAIN b.orders : Cardinality({j \in DOMAIN b.orders : j < k}) = i - 1

(* Mutant of SerializeBook: it goes through the index, which holds one order of
   an id. *)
SerializeBookIndexed(b) ==
  LET keys == SetToSortSeq({b.index[id] : id \in DOMAIN b.index}, LAMBDA j, k : j < k)
  IN  [i \in 1..Len(keys) |-> SnapshotOrder(b.orders[keys[i]])]

(* serialize_book iterates over the slab: increasing keys, whatever prices,
   levels and queues say. *)
SerializeBook(b) ==
  [i \in 1..Cardinality(DOMAIN b.orders) |-> SnapshotOrder(b.orders[SlabNth(b, i)])]

(* Mutant of Reinsert: orders come back unfilled. *)
ReinsertUnfilled(b, o) ==
  IF IsComplete(o) \/ InsertRejected(o) THEN b
  ELSE InsertOrder(b, [o EXCEPT !.filled = 0])

(* One iteration of deserialize_book's loop; the result of insert_order is
   ignored. *)
Reinsert(b, o) ==
  IF IsComplete(o) \/ InsertRejected(o) THEN b ELSE InsertOrder(b, o)

DeserializeBook(orders) ==
  LET restored[n \in Nat] ==
        IF n = 0 THEN EmptyBook ELSE Reinsert(restored[n - 1], orders[n])
  IN  restored[Len(orders)]
===============================================================================
