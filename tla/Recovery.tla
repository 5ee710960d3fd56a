------------------------------- MODULE Recovery -------------------------------
(***************************************************************************)
(* Durability and recovery: the orders-in topic, the engine that consumes  *)
(* it (consumer.rs, ingest/processor.rs, follower.rs), the snapshot row    *)
(* and the fills table in Postgres (persistence/), and what main does on   *)
(* start.  The processes of several pods run side by side, in any mode:    *)
(* two may be in leader mode at a time (LeaderElection), and then both     *)
(* write fills and replace the snapshot row.  All that survives a process  *)
(* is in Kafka and in Postgres.                                            *)
(*                                                                         *)
(* The order channel is a FIFO between one sender and one receiver and is  *)
(* lost with the process, so receiving a message and processing its order  *)
(* are one step.  The fill channels, the buffer of FillWriter and a batch  *)
(* on its way are one queue, outbox.                                       *)
(***************************************************************************)
EXTENDS Matching, Snapshot, Bags

CONSTANTS
  Pods,
  Partitions,     \* the partitions of orders-in
  Quantities,     \* the quantities orders may carry
  NoSnapshot,     \* the snapshots table has no row
  SnapshotEvery,  \* SNAPSHOT_EVERY
  MaxOrders,      \* bound on the orders produced
  MaxExpired,     \* bound on the records of a partition that expire
  MaxStops,       \* bound on crashes and promotions
  MaxFailures     \* bound on lost acknowledgements and failed statements

ASSUME RecoveryAssumption ==
  /\ SnapshotEvery \in Nat \ {0}
  /\ Quantities \subseteq Int
  /\ IsFiniteSet(Ids) /\ Cardinality(Ids) >= MaxOrders
  /\ {MaxOrders, MaxExpired, MaxStops, MaxFailures} \subseteq Nat

(* A record may be in the topic twice. *)
MaxMessages == MaxOrders + MaxFailures

VARIABLES
  log,        \* partition -> the messages of orders-in, also the expired ones
  low,        \* partition -> its low watermark: what is before it has expired
  saved,      \* the row of the snapshots table, or NoSnapshot
  db,         \* the rows of the fills table, a bag
  proc,       \* pod -> the memory of its process
  stops,      \* crashes and promotions so far
  failures    \* lost acknowledgements and failed statements so far

vars == <<log, low, saved, db, proc, stops, failures>>

(* The memory of a process.  next: the offset the consumer reads next in each
   partition; processed: orders processed since the start; saving: the engine
   thread waits for save_raw; outbox: fills sent by the engine and not yet in
   Postgres.  History: applied lists the messages that have gone into this book;
   intact are the partitions it has followed from their first message on, by
   itself or from a row whose offset was one of that partition, without an
   offset reset. *)
Down ==
  [mode |-> "down", next |-> [p \in Partitions |-> 0], book |-> EmptyBook,
   sequence |-> 0, processed |-> 0, saving |-> FALSE, last_offset |-> 0,
   outbox |-> << >>, applied |-> << >>, intact |-> {}]

Message(p, n) == [partition |-> p, offset |-> n]

(* A bag with one element more. *)
With(B, x) == B (+) SetToBag({x})

Running == {k \in Pods : proc[k].mode # "down"}

Init ==
  /\ log = [p \in Partitions |-> << >>]
  /\ low = [p \in Partitions |-> 0]
  /\ saved = NoSnapshot
  /\ db = EmptyBag
  /\ proc = [k \in Pods |-> Down]
  /\ stops = 0
  /\ failures = 0
-----------------------------------------------------------------------------
(* One iteration of the matching loop, on a call record: the book, the
   taker, the engine's sequence and the fills made so far.  The early returns
   of execute_fill change nothing. *)
FillStep(c) ==
  LET side  == Opposite(c.taker.side)
      price == Best(c.book, side)
      key   == BestFront(c.book, side)
      qty   == FillQty(c.book, c.taker, key)
  IN  IF ~Matches(c.book, c.taker) \/ key \notin DOMAIN c.book.orders \/ qty <= 0
      THEN c
      ELSE [book |-> FillMaker(c.book, side, key, price, qty),
            taker |-> Filled(c.taker, qty),
            sequence |-> c.sequence + 1,
            fills |-> Append(c.fills, [maker |-> c.book.orders[key].id,
                                       taker |-> c.taker.id,
                                       quantity |-> qty,
                                       sequence |-> c.sequence + 1])]

(* Mutant of FinishCall: the rest of a market order is inserted too. *)
FinishCallInsertsAll(c) ==
  [book |-> IF Remaining(c.taker) > 0 THEN InsertOrder(c.book, c.taker)
            ELSE c.book,
   sequence |-> c.sequence,
   fills |-> c.fills]

(* The rest of a limit order is inserted; if it is refused the fills of the
   call are not returned. *)
FinishCall(c) ==
  LET rests   == c.taker.order_type = "Limit" /\ Remaining(c.taker) > 0
      refused == rests /\ InsertRejected(c.taker)
  IN  [book |-> IF rests /\ ~refused THEN InsertOrder(c.book, c.taker)
                ELSE c.book,
       sequence |-> c.sequence,
       fills |-> IF refused THEN << >> ELSE c.fills]

(* Op(x), with x evaluated once. *)
Apply(Op(_), x) == CHOOSE r \in {Op(y) : y \in {x}} : TRUE

(* A whole call of process_order.  Every iteration but the last uses up a
   resting order, so the loop ends within as many as there are live orders. *)
ProcessOrder(b, o, seq) ==
  IF o.quantity <= 0 THEN [book |-> b, sequence |-> seq, fills |-> << >>]
  ELSE LET call == [book |-> b, taker |-> o, sequence |-> seq, fills |-> << >>]
           round[n \in Nat] ==
             IF n = 0 THEN call ELSE Apply(FillStep, round[n - 1])
       IN  Apply(FinishCall, round[Cardinality(DOMAIN b.orders)])
-----------------------------------------------------------------------------
Produced == UNION {Range(log[p]) : p \in Partitions}

(* Uuid::new_v4: ids are only ever compared, so any unused one will do. *)
FreshId == CHOOSE id \in Ids : \A o \in Produced : o.id # id

(* What place_order and map_update_to_order publish: a limit order has a
   price, the quantity is positive, the sequence is whatever it is. *)
NewOrders ==
  IF Cardinality(Produced) = MaxOrders THEN {} ELSE
  {o \in [id : {FreshId}, side : Side, order_type : OrderType,
          price : Prices \cup {NoPrice}, quantity : Quantities,
          filled : {0}, status : {"Open"}, sequence : {0}] :
     /\ o.order_type = "Limit" => o.price # NoPrice
     /\ o.quantity > 0}

(* send_order: the key of the record is the order id, so the partition may
   be any. *)
Produce(p, o) ==
  /\ log' = [log EXCEPT ![p] = Append(@, o)]
  /\ UNCHANGED <<low, saved, db, proc, stops, failures>>

(* The acknowledgement of a record is lost and librdkafka sends it again; the
   producer does not ask for idempotence, so the topic has it twice. *)
ProduceAgain(p, o) ==
  /\ failures < MaxFailures
  /\ failures' = failures + 1
  /\ log' = [log EXCEPT ![p] = Append(@, o)]
  /\ UNCHANGED <<low, saved, db, proc, stops>>

(* The topic is created with a retention of an hour: the oldest record of a
   partition is deleted, whoever has read it or not. *)
Expire(p) ==
  /\ low[p] < Len(log[p])
  /\ low[p] < MaxExpired
  /\ low' = [low EXCEPT ![p] = @ + 1]
  /\ UNCHANGED <<log, saved, db, proc, stops, failures>>

(* Mutant of StartOffset: the last message of the snapshot is read again. *)
StartOffsetAgain == IF saved = NoSnapshot THEN 0 ELSE saved.kafka_offset

(* main: the start offset, and seek_to with that offset on every partition. *)
StartOffset == IF saved = NoSnapshot THEN 0 ELSE saved.kafka_offset + 1

Seek == [p \in Partitions |-> StartOffset]

(* main, and the beginning of the engine thread: the book is restored, the
   engine's sequence and the counter are not.  The elector decides the mode. *)
Start(k) ==
  /\ proc[k].mode = "down"
  /\ \E mode \in {"leader", "follower"} :
       proc' = [proc EXCEPT ![k] = [Down EXCEPT
         !.mode = mode,
         !.next = Seek,
         !.book = IF saved = NoSnapshot THEN EmptyBook ELSE DeserializeBook(saved.orders),
         !.applied = IF saved = NoSnapshot THEN << >> ELSE saved.applied,
         !.intact = IF saved = NoSnapshot THEN Partitions ELSE saved.intact]]
  /\ UNCHANGED <<log, low, saved, db, stops, failures>>

(* Mutant of ResetOffset: without auto.offset.reset = earliest the error is
   reported and the position stays. *)
ResetOffsetReports(k, p) ==
  /\ k \in Running
  /\ proc[k].next[p] \notin low[p] .. Len(log[p])
  /\ UNCHANGED vars

(* auto.offset.reset = earliest: an offset beyond the end of a partition, or
   of a record that has expired, becomes the low watermark. *)
ResetOffset(k, p) ==
  /\ k \in Running
  /\ proc[k].next[p] \notin low[p] .. Len(log[p])
  /\ proc' = [proc EXCEPT ![k].next[p] = low[p], ![k].intact = @ \ {p}]
  /\ UNCHANGED <<log, low, saved, db, stops, failures>>

HasNext(r, p) == r.next[p] \in low[p] .. Len(log[p]) - 1

(* order.sequence = offset. *)
Stamped(r, p) == [log[p][r.next[p] + 1] EXCEPT !.sequence = r.next[p]]

(* One message: the consumer hands the order over, the engine processes it,
   and the fills are sent on or dropped. *)
Received(r, p, sends) ==
  CHOOSE s \in
    {[r EXCEPT !.next[p] = @ + 1,
               !.book = call.book,
               !.sequence = call.sequence,
               !.outbox = IF sends THEN @ \o call.fills ELSE @,
               !.applied = Append(@, Message(p, r.next[p])),
               !.processed = @ + 1] :
       call \in {ProcessOrder(r.book, Stamped(r, p), r.sequence)}} : TRUE

(* The engine thread sends the fills on, notes the offset and takes a
   snapshot every SnapshotEvery orders. *)
Consume(k, p) ==
  /\ proc[k].mode = "leader" /\ ~proc[k].saving
  /\ HasNext(proc[k], p)
  /\ proc' = [proc EXCEPT ![k] =
       [Received(@, p, TRUE) EXCEPT
          !.last_offset = proc[k].next[p],
          !.saving = ((proc[k].processed + 1) % SnapshotEvery = 0)]]
  /\ UNCHANGED <<log, low, saved, db, stops, failures>>

(* The follower's engine thread drops the fills and takes no snapshots. *)
Follow(k, p) ==
  /\ proc[k].mode = "follower"
  /\ HasNext(proc[k], p)
  /\ proc' = [proc EXCEPT ![k] = Received(@, p, FALSE)]
  /\ UNCHANGED <<log, low, saved, db, stops, failures>>

(* The row that the engine thread hands to save_raw.  Its offset says nothing
   of the partitions but the one of the last message. *)
Row(r) ==
  [orders |-> SerializeBook(r.book), kafka_offset |-> r.last_offset,
   applied |-> r.applied,
   intact |-> r.intact \cap {Last(r.applied).partition}]

(* save_raw returns: the row is replaced whatever it held, or the statement
   fails, which is only logged (so one that fails after it was applied is like
   one that succeeds). *)
SaveSnapshot(k) ==
  /\ proc[k].saving
  /\ proc' = [proc EXCEPT ![k].saving = FALSE]
  /\ \/ /\ saved' = Row(proc[k])
        /\ UNCHANGED failures
     \/ /\ failures < MaxFailures
        /\ failures' = failures + 1
        /\ UNCHANGED saved
  /\ UNCHANGED <<log, low, db, stops>>

(* FillWriter::flush: the batch is drained first; a failed insert loses it.
   The rows get new ids, so ON CONFLICT never finds one. *)
Flush(k) ==
  /\ \E n \in 1..Len(proc[k].outbox) :
       /\ proc' = [proc EXCEPT ![k].outbox = SubSeq(@, n + 1, Len(@))]
       /\ \/ /\ db' = FoldLeft(With, db, SubSeq(proc[k].outbox, 1, n))
             /\ UNCHANGED failures
          \/ /\ failures < MaxFailures
             /\ failures' = failures + 1
             /\ UNCHANGED db
  /\ UNCHANGED <<log, low, saved, stops>>

(* The process dies, or a promoted follower exits: everything in memory is
   gone, also what the engine had sent and nobody had written. *)
Stop(k) ==
  /\ k \in Running
  /\ stops < MaxStops
  /\ stops' = stops + 1
  /\ proc' = [proc EXCEPT ![k] = Down]
  /\ UNCHANGED <<log, low, saved, db, failures>>

Engine(k) ==
  \E p \in Partitions : ResetOffset(k, p) \/ Consume(k, p) \/ Follow(k, p)

Next ==
  \/ \E p \in Partitions : \E o \in NewOrders : Produce(p, o)
  \/ \E p \in Partitions : \E o \in Range(log[p]) : ProduceAgain(p, o)
  \/ \E p \in Partitions : Expire(p)
  \/ \E k \in Pods : Start(k) \/ Engine(k) \/ SaveSnapshot(k) \/ Flush(k) \/ Stop(k)

Spec == Init /\ [][Next]_vars

(* Kubernetes restarts the process, the consumer and the engine run, and a
   statement sent to Postgres returns. *)
FairSpec ==
  /\ Spec
  /\ \A k \in Pods : /\ WF_vars(Start(k)) /\ WF_vars(Engine(k))
                     /\ WF_vars(SaveSnapshot(k)) /\ WF_vars(Flush(k))
-----------------------------------------------------------------------------
(* The types of the variables. *)
TypeOK ==
  /\ log \in [Partitions -> Seq(Order)]
  /\ \A p \in Partitions : low[p] \in 0..Len(log[p])
  /\ saved # NoSnapshot => /\ saved.orders \in Seq(Order)
                           /\ saved.kafka_offset \in 0 .. MaxMessages - 1
  /\ \A k \in Pods :
       /\ proc[k].mode \in {"down", "leader", "follower"}
       /\ proc[k].next \in [Partitions -> 0..MaxMessages]
       /\ IsBook(proc[k].book)
       /\ {proc[k].sequence, proc[k].processed} \subseteq Nat
       /\ proc[k].last_offset \in 0..MaxMessages
       /\ proc[k].saving \in BOOLEAN
  /\ stops \in 0..MaxStops
  /\ failures \in 0..MaxFailures

(* Of the partition p, the messages in s are the ones before the offset n, each
   of them once and in their order. *)
AppliedBefore(s, p, n) ==
  /\ \A i \in 0 .. n - 1 : \E j \in 1..Len(s) : s[j] = Message(p, i)
  /\ \A j \in 1..Len(s) : s[j].partition = p => s[j].offset < n
  /\ \A i, j \in 1..Len(s) :
       i < j /\ s[i].partition = p /\ s[j].partition = p => s[i].offset < s[j].offset

(* In a partition that a process has followed from its beginning, by itself or
   through a snapshot taken at a message of that partition, the messages in its
   book are those before its consumer's position, each once and in order,
   whichever process took the snapshot, whoever overwrote the row since, and
   whatever happens in the other partitions. *)
AppliedOnce ==
  \A k \in Running : \A p \in proc[k].intact :
    AppliedBefore(proc[k].applied, p, proc[k].next[p])

(* README, 2.1: on restart the consumer seeks to the snapshot's offset + 1 "and
   replays only the delta": the same of every partition in which the consumer
   has a position. *)
ReplaysOnlyDelta ==
  \A k \in Running, p \in Partitions :
    proc[k].next[p] \in low[p] .. Len(log[p]) =>
      AppliedBefore(proc[k].applied, p, proc[k].next[p])

(* What the slot k of the slab adds to the depth of a side at a price. *)
Open(b, side, price) ==
  [k \in Nat |->
     IF k \in DOMAIN b.orders /\ b.orders[k].side = side /\ b.orders[k].price = price
     THEN Remaining(b.orders[k]) ELSE 0]

(* w[0] + ... + w[n - 1]. *)
Sum(w, n) ==
  LET sum[i \in Nat] == IF i = 0 THEN 0 ELSE sum[i - 1] + w[i - 1]
  IN  sum[n]

(* The open quantity on a side at a price. *)
Depth(b, side, price) == Sum(Open(b, side, price), b.len)

SameDepth(b, c) ==
  \A side \in Side, price \in Prices : Depth(b, side, price) = Depth(c, side, price)

(* The orders that the messages in s carry. *)
Heard(s) == [j \in 1..Len(s) |-> log[s[j].partition][s[j].offset + 1]]

(* The book of an engine that processes the orders t and never stops. *)
Replay(t) ==
  LET book[i \in Nat] ==
        IF i = 0 THEN EmptyBook ELSE ProcessOrder(book[i - 1], t[i], 0).book
  IN  book[Len(t)]

(* Whatever stops, failed saves, restores, offset resets and repeated records
   there have been, the depth of every level is that of an engine which has
   processed the same messages in the same order without a stop: a snapshot
   loses no quantity, and leader and follower agree where they have read the
   same. *)
DepthIsReplay ==
  \A k \in Running : SameDepth(proc[k].book, Replay(Heard(proc[k].applied)))

(* The structures of a restored book agree, however it goes on.  An order that
   is processed twice (a repeated record, or a message read again after an
   offset reset) puts two orders with one id into the book, and the index can
   hold only one of them; otherwise it is exact. *)
RestoredConsistent ==
  \A k \in Running :
    LET b == proc[k].book
    IN  /\ SlabSound(b) /\ LevelsSound(b) /\ QueuedOnce(b) /\ LevelsComplete(b)
        /\ LiveOrdersOpen(b) /\ Uncrossed(b)
        /\ \A id \in DOMAIN b.index :
             b.index[id] \in DOMAIN b.orders /\ b.orders[b.index[id]].id = id
        /\ IsInjective(Heard(proc[k].applied)) => IndexSound(b)

(* After the last stop every engine has processed the whole topic and every
   fill it made has been written or given up. *)
CatchesUp ==
  <>[](\A k \in Pods : /\ k \in Running
                       /\ \A p \in Partitions : proc[k].next[p] = Len(log[p])
                       /\ proc[k].outbox = << >>)

(* snapshot.rs: the orders are collected "in price-time order so restore is
   deterministic"; a restored level is in arrival order. *)
RestoredInTimeOrder == \A k \in Running : TimeOrdered(proc[k].book)

(* README, 4.11: the sequences of the fills table, sorted, have no gap. *)
NoFillGaps ==
  LET sequences == BagOfAll(LAMBDA f : f.sequence, db)
  IN  (\A k \in Pods : proc[k].outbox = << >>) =>
        sequences = SetToBag(1..BagCardinality(db))
===============================================================================
