------------------------------- MODULE Pipeline -------------------------------
(***************************************************************************)
(* The running process: the consumer task, the engine thread and the tasks *)
(* behind it (consumer.rs, ingest/processor.rs, follower.rs, run_leader    *)
(* and run_follower in main.rs, fills.rs), joined by bounded channels, and *)
(* how the process ends.                                                   *)
(*                                                                         *)
(* The consumer, the fan-out, the book and the writer task share the Tokio *)
(* workers.  A task gives its worker back at an await; order_tx.send is a  *)
(* crossbeam send and is no await, so a consumer in it keeps its worker.   *)
(*                                                                         *)
(* Matching is MatchingEngine's subject; here an order makes any number of *)
(* fills up to MaxFills and moves the best prices or does not.             *)
(***************************************************************************)
EXTENDS Integers, Sequences, FiniteSets

CONSTANTS
  Workers,        \* worker threads of the Tokio runtime
  OrderCap,       \* capacity of the order channel, ENGINE_CHANNEL_DEPTH
  FillCap,        \* capacity of the fill channel
  BookCap,        \* capacity of the BookUpdate channel
  DbCap,          \* capacity of the channel to FillWriter
  BatchSize,      \* DB_BATCH_SIZE
  SnapshotEvery,  \* SNAPSHOT_EVERY
  MaxOrders,      \* bound on the messages of orders-in
  MaxFills,       \* bound on the fills that are made
  MaxMoves,       \* bound on the changes of the best prices
  MaxFailures,    \* bound on failed and repeated requests
  FillPartition   \* fill -> the partition of fills-out its maker's id goes to

ASSUME PipelineAssumption ==
  /\ {Workers, OrderCap, FillCap, BookCap, DbCap, BatchSize, SnapshotEvery}
       \subseteq Nat \ {0}
  /\ {MaxOrders, MaxFills, MaxMoves, MaxFailures} \subseteq Nat
  /\ DOMAIN FillPartition = 1..MaxFills

VARIABLES
  role,      \* the mode main chose, "leader" or "follower"
  phase,     \* "running", "closing" (main has returned) or "exited"
  is_leader, \* what a follower reads to find out that it is promoted
  topic,     \* messages in orders-in
  read,      \* messages the consumer has read
  consumer,  \* what the consumer does: "next", "send" or "done"
  orderCh,   \* the order channel
  engine,    \* what the engine thread does
  alive,     \* health.engine_alive
  processed, \* orders the engine has processed
  best,      \* a version of the best bid and ask of the engine's book
  made,      \* fills the engine has made
  out,       \* fills of the current order that are still to be sent
  fillCh,    \* the fill channel
  bookCh,    \* the BookUpdate channel
  fan,       \* the fan-out task: what it does, and the fill it holds
  bookTask,  \* the book task: what it does, and the update it holds
  cache,     \* the version of the best prices in Redis
  dbCh,      \* the channel to FillWriter
  writer,    \* the writer task: what it does, its buffer and its batch
  settled,   \* fills of the batches that FillWriter has dealt with
  sinks,     \* the fills in the order they arrived: at the WebSocket, fills-out
             \* (all its partitions), Redis and Postgres
  failures   \* failed and repeated requests so far

process  == <<role, phase, is_leader>>
source   == <<topic, read, consumer, orderCh>>
thread   == <<engine, alive, processed, best, made, out>>
bookPath == <<bookCh, bookTask, cache>>
fillPath == <<fan, dbCh, writer, settled, sinks>>
vars == <<process, source, thread, fillCh, bookPath, fillPath, failures>>

(* run_follower spawns no fan-out, book and writer task. *)
Spawned == IF role = "leader" THEN "recv" ELSE "done"

Init ==
  /\ role \in {"leader", "follower"}
  /\ phase = "running"
  /\ is_leader = (role = "leader")
  /\ topic = 0 /\ read = 0
  /\ consumer = "next"
  /\ orderCh = << >>
  /\ engine = "recv" /\ alive = TRUE
  /\ processed = 0 /\ best = 0
  /\ made = 0 /\ out = << >>
  /\ fillCh = << >>
  /\ bookCh = << >> /\ cache = 0
  /\ bookTask = [step |-> Spawned, update |-> 0]
  /\ fan = [step |-> Spawned, hold |-> << >>]
  /\ dbCh = << >>
  /\ writer = [step |-> Spawned, buf |-> << >>, batch |-> << >>]
  /\ settled = << >>
  /\ sinks = [k \in {"ws", "kafka", "redis", "db"} |-> << >>]
  /\ failures = 0
-----------------------------------------------------------------------------
(* Mutant of WorkerFree: a consumer that waits for room keeps every worker. *)
WorkerFreeNever == phase # "exited" /\ consumer # "send"

(* Some worker is not held by a consumer in order_tx.send. *)
WorkerFree ==
  /\ phase # "exited"
  /\ Workers > (IF consumer = "send" THEN 1 ELSE 0)

Fails == failures < MaxFailures /\ failures' = failures + 1

(* run_ingestor of the leader, and place_order: a message more in orders-in.
   A send that fails is only logged. *)
Ingest ==
  /\ phase # "exited"
  /\ topic < MaxOrders
  /\ topic' = topic + 1
  /\ UNCHANGED <<process, read, consumer, orderCh, thread, fillCh, bookPath,
                 fillPath, failures>>

(* The consumer reads a message and enters order_tx.send. *)
ConsumerNext ==
  /\ WorkerFree
  /\ consumer = "next"
  /\ read < topic
  /\ read' = read + 1
  /\ consumer' = "send"
  /\ UNCHANGED <<process, topic, orderCh, thread, fillCh, bookPath, fillPath,
                 failures>>

(* Mutant of ConsumerSend: an unbounded order channel. *)
ConsumerSendUnbounded ==
  /\ phase # "exited"
  /\ consumer = "send"
  /\ orderCh' = Append(orderCh, read)
  /\ consumer' = "next"
  /\ UNCHANGED <<process, topic, read, thread, fillCh, bookPath, fillPath, failures>>

(* order_tx.send returns: there is room, or the engine is gone and the
   consumer ends. *)
ConsumerSend ==
  /\ phase # "exited"
  /\ consumer = "send"
  /\ \/ /\ engine = "dead"
        /\ consumer' = "done"
        /\ UNCHANGED orderCh
     \/ /\ engine # "dead"
        /\ Len(orderCh) < OrderCap
        /\ orderCh' = Append(orderCh, read)
        /\ consumer' = "next"
  /\ UNCHANGED <<process, topic, read, thread, fillCh, bookPath, fillPath,
                 failures>>
-----------------------------------------------------------------------------
(* What the thread does after the fills and after the update of an order. *)
AfterUpdate(count) == IF count % SnapshotEvery = 0 THEN "save" ELSE "recv"

(* process_order changes the best prices or does not. *)
BestMoves == best' \in {best, best + 1} /\ best' <= MaxMoves

(* The leader's engine thread receives an order and processes it: n fills, or
   a result without fills (an empty Vec<Fill> also sets had_fills). *)
EngineRecv ==
  /\ phase # "exited" /\ role = "leader"
  /\ engine = "recv"
  /\ orderCh # << >>
  /\ orderCh' = Tail(orderCh)
  /\ processed' = processed + 1
  /\ BestMoves
  /\ \E n \in 0 .. MaxFills - made, had_fills \in BOOLEAN :
       /\ n > 0 => had_fills
       /\ made' = made + n
       /\ out' = [i \in 1..n |-> made + i]
       /\ engine' = IF n > 0 THEN "fill"
                    ELSE IF had_fills THEN "update" ELSE AfterUpdate(processed')
  /\ UNCHANGED <<process, topic, read, consumer, alive, fillCh, bookPath, fillPath,
                 failures>>

(* Mutant of EngineSendFill: something keeps the receiver when the fan-out task
   is gone. *)
EngineSendFillWaits ==
  /\ phase # "exited"
  /\ engine = "fill"
  /\ Len(fillCh) < FillCap
  /\ fillCh' = Append(fillCh, Head(out))
  /\ out' = Tail(out)
  /\ engine' = IF Len(out) = 1 THEN "update" ELSE "fill"
  /\ UNCHANGED <<process, source, alive, processed, best, made, bookPath, fillPath,
                 failures>>

(* fill_tx.send returns: there is room, or the fan-out task is gone and the
   thread ends. *)
EngineSendFill ==
  /\ phase # "exited"
  /\ engine = "fill"
  /\ \/ /\ fan.step = "done"
        /\ engine' = "dead"
        /\ alive' = FALSE
        /\ UNCHANGED <<out, fillCh>>
     \/ /\ fan.step # "done"
        /\ Len(fillCh) < FillCap
        /\ fillCh' = Append(fillCh, Head(out))
        /\ out' = Tail(out)
        /\ engine' = IF Len(out) = 1 THEN "update" ELSE "fill"
        /\ UNCHANGED alive
  /\ UNCHANGED <<process, source, processed, best, made, bookPath, fillPath,
                 failures>>

(* book_tx.send returns; that the book task is gone is ignored. *)
EngineSendUpdate ==
  /\ phase # "exited"
  /\ engine = "update"
  /\ \/ bookTask.step = "done" /\ UNCHANGED bookCh
     \/ /\ bookTask.step # "done"
        /\ Len(bookCh) < BookCap
        /\ bookCh' = Append(bookCh, best)
  /\ engine' = AfterUpdate(processed)
  /\ UNCHANGED <<process, source, alive, processed, best, made, out, fillCh,
                 bookTask, cache, fillPath, failures>>

(* save_raw returns, with a new row or an error that is only logged. *)
EngineSave ==
  /\ phase # "exited"
  /\ engine = "save"
  /\ engine' = "recv"
  /\ UNCHANGED <<process, source, alive, processed, best, made, out, fillCh,
                 bookPath, fillPath, failures>>

(* The follower's engine thread looks at is_leader before every receive, and
   drops what an order gives. *)
EngineFollow ==
  /\ phase # "exited" /\ role = "follower"
  /\ engine = "recv"
  /\ ~is_leader
  /\ orderCh # << >>
  /\ orderCh' = Tail(orderCh)
  /\ processed' = processed + 1
  /\ BestMoves
  /\ UNCHANGED <<process, topic, read, consumer, engine, alive, made, out,
                 fillCh, bookPath, fillPath, failures>>

(* A promoted follower's engine thread returns; engine_alive stays set. *)
EnginePromoted ==
  /\ phase # "exited" /\ role = "follower"
  /\ engine = "recv"
  /\ is_leader
  /\ engine' = "dead"
  /\ UNCHANGED <<process, source, alive, processed, best, made, out, fillCh,
                 bookPath, fillPath, failures>>

(* The order channel is empty and its sender is gone. *)
EngineClosed ==
  /\ phase # "exited"
  /\ engine = "recv"
  /\ role = "follower" => ~is_leader
  /\ orderCh = << >> /\ consumer = "done"
  /\ engine' = "dead"
  /\ alive' = FALSE
  /\ UNCHANGED <<process, source, processed, best, made, out, fillCh, bookPath,
                 fillPath, failures>>
-----------------------------------------------------------------------------
(* try_recv of the fan-out task gives a fill; FillBroadcast::publish waits for
   nobody. *)
FanRecv ==
  /\ WorkerFree
  /\ fan.step = "recv"
  /\ fillCh # << >>
  /\ fan' = [step |-> "publish", hold |-> <<Head(fillCh)>>]
  /\ fillCh' = Tail(fillCh)
  /\ sinks' = [sinks EXCEPT !.ws = @ \o fan'.hold]
  /\ UNCHANGED <<process, source, thread, bookPath, dbCh, writer, settled,
                 failures>>

(* A request for the fills fs at a sink: they arrive, or an error is logged.
   One that arrives and then reports an error is like one that succeeds. *)
Request(sink, fs) ==
  \/ sinks' = [sinks EXCEPT ![sink] = @ \o fs] /\ UNCHANGED failures
  \/ Fails /\ UNCHANGED sinks

FanPublish ==
  /\ WorkerFree
  /\ fan.step = "publish"
  /\ Request("kafka", fan.hold)
  /\ fan' = [fan EXCEPT !.step = "push"]
  /\ UNCHANGED <<process, source, thread, fillCh, bookPath, dbCh, writer, settled>>

(* The acknowledgement of a fill is lost and librdkafka sends the record again;
   FillPublisher does not ask for idempotence, so fills-out has it twice.  A
   request that was given up may be appended long after, whatever has become of
   the task and the process since. *)
PublishAgain ==
  /\ Fails
  /\ \E i \in 1..Len(sinks.ws) : sinks' = [sinks EXCEPT !.kafka = @ \o <<sinks.ws[i]>>]
  /\ UNCHANGED <<process, source, thread, fillCh, bookPath, fan, dbCh, writer, settled>>

(* Mutant of FanPush: an error of Redis ends the task. *)
FanPushQuits ==
  /\ WorkerFree
  /\ fan.step = "push"
  /\ Request("redis", fan.hold)
  /\ fan' = [fan EXCEPT !.step = IF sinks' = sinks THEN "done" ELSE "db"]
  /\ UNCHANGED <<process, source, thread, fillCh, bookPath, dbCh, writer, settled>>

FanPush ==
  /\ WorkerFree
  /\ fan.step = "push"
  /\ Request("redis", fan.hold)
  /\ fan' = [fan EXCEPT !.step = "db"]
  /\ UNCHANGED <<process, source, thread, fillCh, bookPath, dbCh, writer, settled>>

(* Mutant of FanDb: a full channel drops the fill (try_send). *)
FanDbDrops ==
  /\ WorkerFree
  /\ fan.step = "db"
  /\ dbCh' = IF Len(dbCh) < DbCap THEN dbCh \o fan.hold ELSE dbCh
  /\ fan' = [step |-> "recv", hold |-> << >>]
  /\ UNCHANGED <<process, source, thread, fillCh, bookPath, writer, settled, sinks,
                 failures>>

(* db_tx.send returns: there is room, or the writer is gone and the task ends. *)
FanDb ==
  /\ WorkerFree
  /\ fan.step = "db"
  /\ \/ /\ writer.step = "done"
        /\ fan' = [fan EXCEPT !.step = "done"]
        /\ UNCHANGED dbCh
     \/ /\ writer.step # "done"
        /\ Len(dbCh) < DbCap
        /\ dbCh' = dbCh \o fan.hold
        /\ fan' = [step |-> "recv", hold |-> << >>]
  /\ UNCHANGED <<process, source, thread, fillCh, bookPath, writer, settled, sinks,
                 failures>>

(* The fill channel is empty and the engine thread is gone. *)
FanClosed ==
  /\ WorkerFree
  /\ fan.step = "recv"
  /\ fillCh = << >> /\ engine = "dead"
  /\ fan' = [fan EXCEPT !.step = "done"]
  /\ UNCHANGED <<process, source, thread, fillCh, bookPath, dbCh, writer, settled,
                 sinks, failures>>
-----------------------------------------------------------------------------
BookRecv ==
  /\ WorkerFree
  /\ bookTask.step = "recv"
  /\ bookCh # << >>
  /\ bookTask' = [step |-> "write", update |-> Head(bookCh)]
  /\ bookCh' = Tail(bookCh)
  /\ UNCHANGED <<process, source, thread, fillCh, cache, fillPath, failures>>

(* set_best_bid_ask; an error is only logged. *)
BookWrite ==
  /\ WorkerFree
  /\ bookTask.step = "write"
  /\ \/ cache' = bookTask.update /\ UNCHANGED failures
     \/ Fails /\ UNCHANGED cache
  /\ bookTask' = [bookTask EXCEPT !.step = "recv"]
  /\ UNCHANGED <<process, source, thread, fillCh, bookCh, fillPath>>

BookClosed ==
  /\ WorkerFree
  /\ bookTask.step = "recv"
  /\ bookCh = << >> /\ engine = "dead"
  /\ bookTask' = [bookTask EXCEPT !.step = "done"]
  /\ UNCHANGED <<process, source, thread, fillCh, bookCh, cache, fillPath,
                 failures>>
-----------------------------------------------------------------------------
(* Mutant of Flush: the buffer is cloned, not drained. *)
FlushClones(buf, next) == [step |-> next, buf |-> buf, batch |-> buf]

(* flush drains the buffer into a batch and inserts it; next is what the task
   does when insert_batch has returned. *)
Flush(buf, next) == [step |-> next, buf |-> << >>, batch |-> buf]

(* rx.recv gives a fill; a full buffer is flushed. *)
WriterRecv ==
  /\ WorkerFree
  /\ writer.step = "recv"
  /\ dbCh # << >>
  /\ dbCh' = Tail(dbCh)
  /\ LET buf == Append(writer.buf, Head(dbCh))
     IN  writer' = IF Len(buf) >= BatchSize THEN Flush(buf, "insert")
                   ELSE [writer EXCEPT !.buf = buf]
  /\ UNCHANGED <<process, source, thread, fillCh, bookPath, fan, settled, sinks,
                 failures>>

(* The interval of DB_FLUSH_MS is over. *)
WriterTick ==
  /\ WorkerFree
  /\ writer.step = "recv"
  /\ writer.buf # << >>
  /\ writer' = Flush(writer.buf, "insert")
  /\ UNCHANGED <<process, source, thread, fillCh, bookPath, fan, dbCh, settled,
                 sinks, failures>>

(* insert_batch returns; an error loses the batch. *)
WriterInsert ==
  /\ WorkerFree
  /\ writer.step \in {"insert", "last"}
  /\ Request("db", writer.batch)
  /\ settled' = settled \o writer.batch
  /\ writer' = [writer EXCEPT !.step = IF @ = "last" THEN "done" ELSE "recv",
                              !.batch = << >>]
  /\ UNCHANGED <<process, source, thread, fillCh, bookPath, fan, dbCh>>

(* The channel is empty and the fan-out task is gone: what is in the buffer
   goes first. *)
WriterClosed ==
  /\ WorkerFree
  /\ writer.step = "recv"
  /\ dbCh = << >> /\ fan.step = "done"
  /\ writer' = IF writer.buf = << >> THEN [writer EXCEPT !.step = "done"]
               ELSE Flush(writer.buf, "last")
  /\ UNCHANGED <<process, source, thread, fillCh, bookPath, fan, dbCh, settled,
                 sinks, failures>>
-----------------------------------------------------------------------------
(* The update stream ends or breaks: run_ingestor returns, and main with it,
   which runs on the main thread and needs no worker.  Dropping the runtime then
   waits for its workers. *)
StreamEnds ==
  /\ role = "leader" /\ phase = "running"
  /\ phase' = "closing"
  /\ UNCHANGED <<role, is_leader, source, thread, fillCh, bookPath, fillPath,
                 failures>>

(* A worker that shuts down drops a task at the task's next await; a consumer in
   order_tx.send has to come back first.  A request under way may have arrived. *)
CancelConsumer ==
  /\ WorkerFree /\ phase = "closing"
  /\ consumer = "next"
  /\ consumer' = "done"
  /\ UNCHANGED <<process, topic, read, orderCh, thread, fillCh, bookPath, fillPath,
                 failures>>

CancelFan ==
  /\ WorkerFree /\ phase = "closing"
  /\ fan.step # "done"
  /\ \/ UNCHANGED sinks
     \/ fan.step = "publish" /\ sinks' = [sinks EXCEPT !.kafka = @ \o fan.hold]
     \/ fan.step = "push" /\ sinks' = [sinks EXCEPT !.redis = @ \o fan.hold]
  /\ fan' = [fan EXCEPT !.step = "done"]
  /\ UNCHANGED <<process, source, thread, fillCh, bookPath, dbCh, writer, settled,
                 failures>>

CancelBook ==
  /\ WorkerFree /\ phase = "closing"
  /\ bookTask.step # "done"
  /\ cache' \in {cache} \cup {u \in {bookTask.update} : bookTask.step = "write"}
  /\ bookTask' = [bookTask EXCEPT !.step = "done"]
  /\ UNCHANGED <<process, source, thread, fillCh, bookCh, fillPath, failures>>

CancelWriter ==
  /\ WorkerFree /\ phase = "closing"
  /\ writer.step # "done"
  /\ \/ UNCHANGED sinks
     \/ sinks' = [sinks EXCEPT !.db = @ \o writer.batch]
  /\ writer' = [writer EXCEPT !.step = "done"]
  /\ UNCHANGED <<process, source, thread, fillCh, bookPath, fan, dbCh, settled,
                 failures>>

(* The runtime is dropped; the engine thread ends with the process. *)
Exit ==
  /\ phase = "closing" /\ consumer = "done"
  /\ {fan.step, bookTask.step, writer.step} = {"done"}
  /\ phase' = "exited"
  /\ UNCHANGED <<role, is_leader, source, thread, fillCh, bookPath, fillPath,
                 failures>>

(* The elector of a follower acquires the lease (LeaderElection). *)
Promote ==
  /\ WorkerFree
  /\ role = "follower" /\ ~is_leader
  /\ is_leader' = TRUE
  /\ UNCHANGED <<role, phase, source, thread, fillCh, bookPath, fillPath, failures>>

(* run_follower sees the promotion and calls process::exit.  It looks when its
   timer wakes it, and the runtime's timers are driven by its workers. *)
PromotedExit ==
  /\ WorkerFree
  /\ role = "follower" /\ is_leader
  /\ phase' = "exited"
  /\ UNCHANGED <<role, is_leader, source, thread, fillCh, bookPath, fillPath,
                 failures>>
-----------------------------------------------------------------------------
EngineNext ==
  \/ EngineRecv \/ EngineSendFill \/ EngineSendUpdate \/ EngineSave
  \/ EngineFollow \/ EnginePromoted \/ EngineClosed

FanNext == FanRecv \/ FanPublish \/ FanPush \/ FanDb \/ FanClosed

BookNext == BookRecv \/ BookWrite \/ BookClosed

WriterNext == WriterRecv \/ WriterTick \/ WriterInsert \/ WriterClosed

ShutdownNext ==
  \/ CancelConsumer \/ CancelFan \/ CancelBook \/ CancelWriter
  \/ Exit \/ PromotedExit

Next ==
  \/ Ingest \/ ConsumerNext \/ ConsumerSend
  \/ EngineNext \/ FanNext \/ BookNext \/ WriterNext \/ PublishAgain
  \/ StreamEnds \/ Promote \/ ShutdownNext

Spec == Init /\ [][Next]_vars

(* The operating system runs the engine thread, Tokio every task that can go
   on; that messages come, the stream ends or a promotion happens is nobody's
   duty.  A request returns because the clients have timeouts. *)
FairSpec ==
  /\ Spec
  /\ WF_vars(ConsumerNext) /\ WF_vars(ConsumerSend)
  /\ WF_vars(EngineNext) /\ WF_vars(FanNext) /\ WF_vars(BookNext)
  /\ WF_vars(WriterNext)
  /\ WF_vars(CancelConsumer) /\ WF_vars(CancelFan)
  /\ WF_vars(CancelBook) /\ WF_vars(CancelWriter)
  /\ WF_vars(Exit) /\ WF_vars(PromotedExit)
-----------------------------------------------------------------------------
(* The types of the variables; the channels keep to their capacities. *)
TypeOK ==
  /\ role \in {"leader", "follower"}
  /\ phase \in {"running", "closing", "exited"}
  /\ is_leader \in BOOLEAN
  /\ topic \in 0..MaxOrders /\ read \in 0..topic
  /\ consumer \in {"next", "send", "done"}
  /\ orderCh \in Seq(1..read) /\ Len(orderCh) <= OrderCap
  /\ engine \in {"recv", "fill", "update", "save", "dead"}
  /\ alive \in BOOLEAN
  /\ processed \in 0..read /\ best \in 0..processed /\ cache \in 0..best
  /\ made \in 0..MaxFills
  /\ {out, fillCh, dbCh, settled} \subseteq Seq(1..made)
  /\ Len(fillCh) <= FillCap /\ Len(dbCh) <= DbCap
  /\ bookCh \in Seq(0..best) /\ Len(bookCh) <= BookCap
  /\ bookTask \in [step : {"recv", "write", "done"}, update : 0..best]
  /\ fan \in [step : {"recv", "publish", "push", "db", "done"}, hold : Seq(1..made)]
  /\ writer \in [step : {"recv", "insert", "last", "done"},
                 buf : Seq(1..made), batch : Seq(1..made)]
  /\ sinks \in [{"ws", "kafka", "redis", "db"} -> Seq(1..made)]
  /\ failures \in 0..MaxFailures

(* The five places a fill passes between the engine and Postgres make one queue:
   no fill is lost, doubled or overtaken before its batch is settled. *)
Queue == INSTANCE FillQueue
  WITH queue <- writer.batch \o writer.buf \o dbCh \o fan.hold \o fillCh \o out

(* The way of a fill through the fill channel, the fan-out task, the channel to
   the writer and its buffer implements the queue that Recovery takes it for. *)
ImplementsFillQueue == Queue!QueueSpec

(* s lists fills in the order they were made, each at most once; the fills up to
   upTo that it lacks; the fills that the fan-out task has taken through the
   requests that lie before one of the steps. *)
Increasing(s) == \A i \in 1 .. Len(s) - 1 : s[i] < s[i + 1]

Lacking(s, upTo) == {f \in 1..upTo : \A i \in 1..Len(s) : s[i] # f}

Past(steps) ==
  IF fan.step \in steps THEN Len(sinks.ws) ELSE Len(sinks.ws) - Len(fan.hold)

(* The records of fills-out that come after one of a fill made later, or of the
   same fill, in their partition. *)
Overtaken ==
  {i \in 1..Len(sinks.kafka) : \E j \in 1 .. i - 1 :
     /\ FillPartition[sinks.kafka[j]] = FillPartition[sinks.kafka[i]]
     /\ sinks.kafka[j] >= sinks.kafka[i]}

(* The WebSocket sees every fill that is taken, once and in the order they were
   made; Redis and Postgres see them in that order, each at most once; a partition
   of fills-out has no more repeated or overtaken records than requests that failed
   or were sent again.  None of them misses a fill but the ones whose request failed
   (at Postgres: whose batch failed) or was never begun, and what fills-out has
   twice, or late, is not missing anywhere for the same failure. *)
SinksInOrder ==
  /\ \A i \in 1..Len(sinks.ws) : sinks.ws[i] = i
  /\ Increasing(sinks.redis) /\ Increasing(sinks.db)
  /\ Cardinality(Overtaken) <= failures
  /\ phase = "running" =>
       /\ Cardinality(Overtaken)
          + Cardinality(Lacking(sinks.kafka, Past({"push", "db"})))
          + Cardinality(Lacking(sinks.redis, Past({"db"}))) <= failures
       /\ Cardinality(Lacking(sinks.db, Len(settled))) <= BatchSize * failures

(* As long as the update stream is up, nothing a sink does ends the engine or a
   task of the leader, and engine_alive says so. *)
LeaderKeepsServing ==
  role = "leader" /\ phase = "running" =>
    /\ alive /\ engine # "dead"
    /\ "done" \notin {consumer, fan.step, bookTask.step, writer.step}

(* Every message that is in the topic reaches the book and every fill is
   settled, unless the process ends first: back-pressure from a full channel
   never becomes a standstill. *)
PipelineDrains ==
  []<>(\/ processed = topic /\ Len(settled) = made
       \/ phase # "running"
       \/ role = "follower" /\ is_leader)

(* A leader whose stream has ended and a follower that is promoted come to their
   end, so that Kubernetes starts a new process: no thread that waits for room
   in a channel keeps the process alive. *)
ProcessEnds ==
  (phase = "closing" \/ (role = "follower" /\ is_leader)) ~> (phase = "exited")

(* When the leader has nothing left to do, Redis holds the best bid and ask of
   the book. *)
CacheTracksBook ==
  /\ role = "leader" /\ phase = "running"
  /\ engine = "recv" /\ orderCh = << >>
  /\ bookTask.step = "recv" /\ bookCh = << >>
  => cache = best
===============================================================================
