# A TLA+ model of lmax-clob

lmax-clob is a central limit order book: orders enter through HTTP or a gRPC
stream, go through a Kafka topic, are matched by one engine thread, and the
fills go to Postgres, Kafka, Redis and WebSocket clients. Two pods run the
program; a Kubernetes lease decides which of them leads. This directory models
the parts that carry state and decisions, checks them with TLC on small
instances, and proves with TLAPS, for all values of the constants, every safety
property that a passing run checks, some of them under hypotheses that restrict the
deployment (section 4).

## 1. Inventory

| Part | State | Operations | Interaction | What makes it correct |
|---|---|---|---|---|
| Order book, `clob-engine/src/orderbook.rs` | slab of live orders, id index, a map from price to FIFO queue on each side | `insert_order`, `cancel_order`, `pop_front`, `best_*` | called by the engine and by the snapshot codec only | the four structures agree; no empty level; only open orders |
| Matching engine, `matching.rs` | the book, a fill counter | `process_order` (a loop of `execute_fill`), `cancel`, `next_sequence` | owned by one thread | never crossed; price-time priority; nobody filled beyond quantity or limit; every call returns |
| Snapshot codec, `snapshot.rs` | none | `serialize_book`, `deserialize_book` | engine thread saves, start-up restores | the restored book goes on like the saved one |
| Order log, `kafka/producer.rs`, `kafka/consumer.rs` | topic `orders-in` with its partitions and a retention of an hour, the read positions | `send_order`, `seek_to`, the consuming loop | hands orders to the engine over a bounded channel | every message is processed, once |
| Engine thread, `ingest/processor.rs` | counter of orders, last offset | the receive loop, a snapshot every `SNAPSHOT_EVERY` orders | blocks on its channels and on the snapshot statement | snapshot and offset belong together; back-pressure never becomes a standstill |
| Follower, `follower.rs` | its own engine | replay without side effects, exit when promoted | same topic, same snapshot | nothing but the book changes |
| Stores, `persistence/` | one snapshot row; the fills table | upsert and load; batched inserts | Postgres; every statement may fail; every process in leader mode writes the same row | the fills table has every fill once |
| Fill fan-out, `run_leader` in `main.rs` | four bounded channels, the fill in hand | publish, produce, push to Redis, hand to the writer; best prices to Redis | Tokio tasks that share the worker threads with the consumer | on the way to Postgres no fill lost, doubled or overtaken; a sink misses or repeats only what failed; a failing sink stops nothing; the process can end |
| WebSocket, `handlers/ws.rs` | a broadcast ring, per client a position and a session buffer, a gauge | subscribe, send with a timeout, pong, close, drop who lags | one task per client beside the fan-out task | no gap in what a client sees; slow clients hold nobody up; the gauge is right |
| Leader election, `leader.rs`, `main.rs` | the lease, `is_leader`, `lease_healthy`, the mode of the process | acquire or renew, patch the label, choose the mode, promote by exit | Kubernetes API | one write path; somebody leads eventually |
| Health probes, `health.rs` | `kafka_ready`, `engine_alive`, `lease_healthy` | `/healthz`, `/health` | the kubelet restarts a pod whose probe fails | a deposed leader goes down, a good one stays |
| HTTP reads, metrics, tracing, mock server | none that the program acts on | | | |

What is hard to test here: crashes between any two of processing, fills out and
snapshot; the offset arithmetic on restart; slab keys that are used again; two
electors whose requests overlap; failed requests in the middle of a hand-over;
bounded channels between a blocking thread and an async runtime; the many exits
of a WebSocket task. PROJECT.json lists these hazards with the lines where they
bite and the properties that cover them.

## 2. Modules

| Module | Models | State and actions |
|---|---|---|
| `OrderBook` | orderbook.rs, order.rs, types.rs | constant-level: a book is a record, each method an operator; also the predicates of a well-formed book |
| `Matching` | the decisions in matching.rs | constant-level: `Crosses`, `Matches`, `FillQty`, `Filled`, `FillMaker` |
| `MatchingEngine` | matching.rs | `book`, `sequence`, the order in flight, fills and result of the call; `Accept`/`Reject` begin a call, `ExecuteFill` is one loop iteration, `Finish` the end; `Cancel`, `NextSequence` |
| `PriceTimeBook` | the promise of a price-time book | a set of resting orders, one incoming order, the trades of the call |
| `OrderBookProofs`, `MatchingEngineProofs`, `PriceTimeBookProofs` | | theorems about the engine, each module extending the one before |
| `RecoveryBookProofs` | | lemmas about whole calls of `process_order`, about snapshots and about depths, on top of `OrderBookProofs` |
| `RecoveryProofs`, `PipelineProofs`, `WsBroadcastProofs`, `LeaderElectionProofs` | | theorems about the module of that name |
| `Snapshot` | snapshot.rs | constant-level: a book to a list of orders and back |
| `Recovery` | consumer.rs, producer.rs, processor.rs, follower.rs, persistence/, start-up of main.rs | topic, snapshot row and fills table survive; per process its engine, position and outgoing fills. `Produce`, `ProduceAgain` (a retried send that appends twice), `Expire` (retention), and per process `Start`, `ResetOffset`, `Consume`, `Follow`, `SaveSnapshot`, `Flush`, `Stop` |
| `Pipeline` | consumer.rs, processor.rs, follower.rs, fills.rs, `run_leader` and `run_follower` of main.rs | one process: the four channels, and per thread or task the await or blocking call it is in; `Consumer*`, `Engine*`, `Fan*`, `Book*`, `Writer*`, `PublishAgain` (a record sent again), and the end of the process (`StreamEnds`, `Cancel*`, `Exit`, `Promote`, `PromotedExit`) |
| `FillQueue` | the promise of the way from the engine to Postgres | a queue: put fills in at one end, settle a batch at the other |
| `WsBroadcast` | ws.rs, the broadcast channel of main.rs | the tail of the ring, the gauge, per client the task's await, its position, the session buffer and what the peer has read |
| `LeaderElection` | leader.rs, main.rs, health.rs | the lease, per pod the mode, the elector's await, the flags and how long the probe has failed; one action per await, `Watch`, `FirstMessage`, `ProbeKill`, `Crash`, `Restart`, `Tick` |
| `MC*` | | names for the model values, representatives and symmetry, the partitions of the fills |

`MatchingEngine` and `Recovery` both extend `Matching`; `Recovery` also extends
`Snapshot`. `MatchingEngine` instantiates `PriceTimeBook`, `Pipeline`
instantiates `FillQueue`.

How the modules fit together. `Recovery` looks at several processes and takes
the inside of one coarsely: a call of `process_order` is one step, since nothing
else sees the book; the order channel is merged with the engine because it is a
FIFO with one sender and one receiver and is lost with the process; the way of
the fills to Postgres is one queue. `Pipeline` looks at the inside of one process
and shows that this queue is right (`ImplementsFillQueue`); `MatchingEngine`
looks at the inside of one call. Which processes are in leader mode at the same
time is decided by `LeaderElection`; `Recovery` assumes nothing about it and lets
every process choose either mode whenever it starts. In `Recovery` the loops of
`process_order` and `deserialize_book` are recursive functions of the number of
iterations: the first stops changing when `Matches` does not hold any more, so as many
iterations as there are live orders are the whole loop (`RoundsEnd` proves that).
`SlabNth` is the iteration order of the slab, in which `serialize_book` writes.

Abstractions. Decimals are integers: the code compares, adds and subtracts
them, and never rounds. Ids are model values. `market_id` is left out, nothing
in the engine reads it. The slab crate is modelled by its documented free list
(last freed key first), because iteration order over keys matters to snapshots.
Kafka messages the program cannot decode are not produced by it. Kafka, Postgres,
Redis, Kubernetes, the Tokio and crossbeam channels, the actix session buffer and
the slab are external and modelled from their use.

In `Pipeline` an order makes any number of fills and moves the best prices or
not; fills and versions of the best prices are numbers. A task that can go on
needs a worker that is not held by the consumer inside `order_tx.send`; the engine is
a thread of its own. `fetch_watermarks` blocks a worker too, but for at most
100 ms every 1000 messages and for nobody in particular, and is left out with the
lag gauge. The main future runs on the main thread, so `StreamEnds` needs no worker;
`run_follower` waits for a timer, and timers are driven by the workers, so
`PromotedExit` does. The producer of `fills-out` is not idempotent: `PublishAgain`
appends a record of a fill once more at any time after its first send, behind later
fills and even after the end of the process, as a record that librdkafka sends
again may arrive. `FillPartition` is the partition of a fill, decided by its key, the
id of the maker.
In `WsBroadcast` a frame is the number of a fill, or 0 for a pong. `text` has a
timeout, which may end it whenever the buffer is full; `pong` and `close` have
none and wait. Five of the six exits that decrement the gauge are actions; the
sixth, `RecvError::Closed`, cannot be taken, since the application state holds a
sender for as long as there are client tasks.

In `Recovery` an expired record stays in `log`, where properties can still speak of
it, and `low` is the first offset that can be read. `auto.offset.reset` sets a
position beyond the end of a partition, or before `low`, to `low`. Two history
fields belong to a book and to the snapshot row: `applied`, the messages that have gone into
it, in their order, and `intact`, the partitions it has followed from their first
message on: all of them for a process that began without a row, the partition of
the last message for a row (its one offset is an offset of that partition), less those
whose position was reset.

Time in `LeaderElection` is discrete and relative, in seconds: timers count
down, the lease has an age. A request takes at most `MaxDelay`, a container is
restarted within `MaxRestart`, a crashed pod is back within `MaxDown`. Clocks of
the pods agree. A request that fails, create or patch, may have been
applied. The label of a pod is not kept, since nothing in the program reads it; the request that patches it is, as
the elector waits for it. From `ProbeGrace` seconds of a failing probe on the
kubelet may kill the pod; the manifest's probe (every 10 seconds, five failures)
takes 40 seconds or more, so the model lets it happen earlier than it can and
does not force it at any time. Orders arrive as soon as the consumer runs, which sets
`kafka_ready`; on an idle topic the probe would restart the leader again and
again, and no leader would last.

## 3. Runs

| Run | Expect | What it shows |
|---|---|---|
| `engine` | pass | `BookConsistent`, `NeverCrossed`, `FillsConserved`, `FillsHonourLimits`, `TimePriority`, `PriceTimePriority`, `CallsReturn`, `ImplementsPriceTimeBook`, `TypeOK` for three orders of every kind, quantities 0 to 2, prices that include zero and the maximum, and cancels at any time |
| `recovery` | pass | `AppliedOnce`, `DepthIsReplay`, `RestoredConsistent`, `TypeOK`: two processes in any mode over one snapshot row, one partition, three orders with partial fills, a snapshot every two orders, a stop anywhere, one failed statement or repeated record, no retention |
| `catch_up` | pass | `AppliedOnce`, `DepthIsReplay`, `RestoredConsistent`, `CatchesUp`: one process, two partitions with up to two records each that expire, positions beyond the end and before the first record, two stops, one failed statement or repeated record |
| `pipeline` | pass | `ImplementsFillQueue`, `SinksInOrder`, `LeaderKeepsServing`, `PipelineDrains`, `ProcessEnds`, `TypeOK`: a leader or a follower on two workers, every channel of capacity one, three orders, two fills, one request that fails or is sent again |
| `broadcast` | pass | `NoGap`, `GaugeExact`, `ReadersServed`, `GoneReleased`, `TypeOK`: a reader and a client that may stop reading, ping or disconnect, a ring of two, a session buffer of one, four fills |
| `election` | pass | `SplitBeliefBounded`, `LeaderEventually`, `DeposedGoesDown`, `TypeOK`: two pods, two crashes or failed requests, restarts by the probe |
| `restore_order` | violation | a restored level is not in arrival order, against the comment in snapshot.rs |
| `partitions` | violation | one offset for all partitions skips a message, against "replays only the delta" |
| `fill_gaps` | violation | fill sequences restart and replayed fills are inserted again |
| `write_path` | violation | two pods run the leader pipeline for ever |
| `one_worker` | violation | on one Tokio worker the consumer, the engine and the fan-out task wait for each other |
| `stale_best` | violation | a resting order that moves the best price never reaches Redis |

What the violations say. `write_path`: a leader whose requests fail clears
`is_leader` and not `lease_healthy`; when the other pod has taken the lease
meanwhile, the next answer is `Ok(false)`, `is_leader` is already false, and the
branch that would clear `lease_healthy` is not taken. Its probe succeeds for ever
and `run_leader` never looks at `is_leader` again. `DeposedGoesDown` is what does
hold: a leader that still believes in its lease when it reads another holder is
taken down.
`partitions`: the snapshot row has the offset of the last order, in whichever
partition it was, and `seek_to` puts it on all of them. The messages of the others are
read again or never. `ReplaysOnlyDelta` fails in a single partition as well, with
`Partitions = {1}` and `MaxExpired = 1` in that configuration: `orders-in` keeps
records for an hour, and a consumer whose offset has expired goes on at the
low watermark without a word. `AppliedOnce` is what does hold in both cases: nothing
goes wrong in a partition that is `intact`.
`one_worker`: `order_tx.send` is a blocking send on a worker. With a CPU limit of
one core the runtime has one worker; the consumer waits in it for the engine, the
engine waits for room in the fill channel, and the fan-out task that would make
room has no worker. With two workers `PipelineDrains` holds.

Bounds. `MaxSequence`, `MaxOrders`, `MaxExpired`, `MaxStops`, `MaxFailures`, `MaxFaults`,
`MaxOverlap`, `MaxFills`, `MaxMoves`, `MaxPublished` and `MaxPings` bound counters
that the code does not bound.

* `engine`: three orders are enough for a taker to fill one maker and part of a
  second one, and, with a cancel, for a slab key to be freed and used again in a
  level that still has an older order. `Representative` keeps one history of the
  ones that differ in the names of ids or in the kind of a refused order.
  A limit order without a price, which `place_order` refuses but the engine does
  not, trades at price zero or `Decimal::MAX`, and if a rest remains the call
  ends in an error that drops its fills; the abstract book has both outcomes.
* `recovery`: three orders are enough for a snapshot, a stop and a replay of the
  rest while the other process reads or overwrites the row; `restore_order` needs
  four, because the topic carries no cancels. `ProducedFirst` and
  `OneOfEachKind` keep representatives; `MarketOrdersLarge` is a bound. With
  two processes and a failure at one price the run is at the limit of what can be
  checked in minutes; the single-process runs have no such constraints.
* `catch_up`: two orders and a repeated one give two partitions of different
  lengths, so that the offset after that of the row is beyond the end of one of them,
  or of a record that has expired, or right; the second stop lets a process start from
  a row that was saved after a reset.
* `pipeline`: capacities of one make every channel full and empty within three
  orders; two fills make a full batch, or two half ones by a tick. `MaxMoves` is 0
  here and 1 in `stale_best`: which prices an update carries changes nothing in
  what the tasks do. All fills are in one partition of `fills-out`: only
  `SinksInOrder` looks at the partitions, and fills in different ones cannot overtake
  each other, so this is its strongest case.
* `broadcast`: four fills overtake a client in a ring of two, and the buffer of
  one frame is full while a second frame, a pong or a close waits.
* `election` and `write_path` use the constants of the code (15, 5, 3, 4 and 2
  seconds). `MaxRestart` is 2: a promoted follower must be back before its own
  lease expires, which the code relies on and a long restart back-off would break.
  `MaxDown` is 18, so that the lease expires during a crash. `SplitBeliefBounded`
  is tight: an overlap of `RenewInterval + 2 * MaxDelay` seconds is reached. The
  run also passes with three faults, in three minutes.

Deadlock is not checked where the system may stop: an engine at the end of a
finite topic (`Recovery`), a process that has ended or has drained a finite topic
(`Pipeline`), clients after the last fill (`WsBroadcast`). `PipelineDrains` and
`ProcessEnds` are the statements that they do not stop before. Symmetry is
used over pods, in the `recovery` run only, which checks no liveness.

Fairness. `MatchingEngine`: weak fairness of the two steps of a call in
progress, a thread that is running. `Recovery`: weak fairness of start,
consumption, the snapshot statement and the flush; kubelet restarts the process
and every statement returns, successfully or not. No fairness of producing.
`Pipeline`: the operating system runs the engine thread, Tokio every task that can
go on while a worker is free, and the runtime cancels tasks when main has
returned; requests return because the clients have timeouts. No fairness of new
messages, of the end of the stream or of a promotion. `WsBroadcast`: the fan-out
task publishes, a client's task runs; only the clients in `Readers` are sure to
read. `LeaderElection`: time passes, requests are answered, sleeps end, containers
come back, a probe that goes on failing ends in a kill; crashes and failures are
bounded and never fair.

Every property of a passing run has a mutant: an operator next to the
definition it replaces, which breaks the property under the same configuration.

## 4. Proofs

| Property of a run | Theorem | Module | Hypotheses on the constants |
|---|---|---|---|
| `TypeOK`, `BookConsistent`, `NeverCrossed`, `TimePriority` | `TypeCorrect`, `Consistency`, `NoCross`, `ArrivalOrder` | `MatchingEngineProofs` | `PriceAssumption`, `EngineAssumption` |
| `FillsConserved`, `FillsHonourLimits`, `PriceTimePriority` | `Conservation`, `Limits`, `Priority` | `MatchingEngineProofs` | the same |
| `ImplementsPriceTimeBook` | `Refinement` | `PriceTimeBookProofs` | the same and `NoOrderAssumption` |
| `TypeOK` | `RecoveryTypes` | `RecoveryProofs` | `PriceAssumption`, `RecoveryAssumption` |
| `AppliedOnce`, `RestoredConsistent`, `DepthIsReplay` | `ReplaysOnlyTheDelta`, `BooksStayConsistent`, `DepthOfTheLog` | `RecoveryProofs` | the same |
| `TypeOK`, `LeaderKeepsServing`, `ImplementsFillQueue`, `SinksInOrder` | `PipelineTypes`, `Serving`, `OneQueue`, `Sinks` | `PipelineProofs` | `PipelineAssumption` |
| `TypeOK`, `NoGap`, `GaugeExact` | `TypeCorrect`, `Gaplessness`, `ExactGauge` | `WsBroadcastProofs` | `BroadcastAssumption` |
| `TypeOK` | `ElectionTypes` | `LeaderElectionProofs` | `ElectionAssumption` |
| `SplitBeliefBounded` | `SplitBound` | `LeaderElectionProofs` | the same, `TwoPods` and `TimelyRequests` |

The named assumptions are in the modules that declare the constants and say no
more than that bounds are numbers, capacities positive, ids and clients finitely
many where they are counted, and "nothing" is not something. `PriceAssumption` also
gives every non-empty set of prices a least and a greatest member, as for any
finite set of Decimals. The two hypotheses that do restrict the system, `TwoPods` and
`TimelyRequests`, are discussed below with the theorem that needs them.

**The engine, `MatchingEngineProofs`.** None of the four invariants is inductive
alone. `IInv` adds `LiveOrdersOlder` (live orders were placed before the order in
flight, or the queue would not stay in order when it is inserted) and `TakerSound`
(the order in flight is not in the index, or the index would lose an entry, and its
status says how much of it is filled, or a resting order could be marked complete).
`NeverCrossed` needs the loop's exit condition at `Finish`: the book is uncrossed
with the rest because no opposing price crosses it. `OrderBookProofs` does the work
on single books, for the whole `Structure` and for its `Core`, what is left of it when
two live orders have one id. `InsertGrows`: an insertion keeps it.
`UnlistCore`: taking one order out of its queue, the slab and the index keeps
it, and the queues keep their order (each new queue embeds in the old one);
`CancelShrinks` and `PopFrontShrinks` are its two uses. `MarkCore`: a fill
in place changes nothing the queues or the index know. `RestUncrossed`: what is left
of a taker when the loop ends does not cross. `BestIsBest`: the best price
bounds the side.

**What was traded, `MatchingEngineProofs`.** `FillsConserved` compares orders that
have long left the book with the fills of all calls. `HInv` says why it holds: every
order the engine still has, resting or in flight, is the one that was placed under
its id, filled by exactly what that id has traded (`OrdersAsPlaced`), and an id
that has left the engine has not traded too much (`TradedSound`). The limit
of a maker is its queue's price, that of a taker the test in the loop; with
`IInv` both follow. `Priority` is the action property: the maker that a step
fills is the first of the best level, and `BestIsBest` and the order of the
queue put everyone else behind it.

**The abstract book, `PriceTimeBookProofs`.** Initial states map to initial states
and every action of the engine to one of `PriceTimeBook` or to a stutter: `Accept` to
`Arrive`, `Reject` to `Refuse`, `ExecuteFill` to `Trade`, `Finish` to `Complete`,
`Cancel` to `Remove`. The mapping forgets slab,
index and queues, so each case shows what the slab's change is on the set of
resting orders; `IInv` makes an order in that set unique for its id.

**Whole calls, `RecoveryBookProofs`.** In `Recovery` a call of `process_order`, a
restore, a depth and the replay of a log are recursive functions. That their values
exist (`LoopDefined`) and what they keep is proved by induction over the set of the
iterations at which it holds (`NatInd`, from the well-foundedness of the naturals):
the library's induction theorem takes the property as an operator, which the provers
cannot instantiate; a set they can. Three results carry the rest.

* `RoundsEnd`, `ProcessSound`: every iteration uses up the taker or one maker, so the
  loop is over after as many as there are live orders, and the book after it is
  `BookSound`: typed, `Core`, only open orders, uncrossed. The index stays exact as
  well if it was and the id is new.
* `SerializeSound`, `DeserializeRebuilds`, `RestoredDepth`: the snapshot lists the
  orders by slot and the restored book has them in the slots from 0, without holes. The
  rank of a slot among the occupied ones is the slot it moves to, and along that
  order the sums that make up a depth agree term by term.
* `ProcessDepth`: two sound books of the same depth, and two orders that differ in id
  and sequence at most, have the same depth after the call, although the loops may
  meet different makers in different quantities. The proof takes the opposite side down
  one unit at a time, always at the best price that has any (`TakeUnit`). `Consumes`:
  at any point of either loop the side is what is left after as many units as the
  taker has filled, and every one of them crossed. So neither call can stop
  before the other (`StopsNoEarlier`), both takers are filled alike, and what is
  left of them rests at the same price.

**Recovery, `RecoveryProofs`.** There are three invariants, for any number of pods,
partitions and expired records. `OnceInv`: in each of its `intact` partitions the
consumer of a running process is at an offset of the topic, and what its book has
applied of that partition is each message before the offset once and in order
(`Positioned`); of an `intact` partition the snapshot row has applied each message up
to and with its own offset (`RowPositioned`); and a process that waits for its
snapshot statement has the message of the offset it hands over as its last one,
which is what makes the row right when the statement comes through late, or
overwrites the newer row of another process. The offset is of the partition
of that last message, so this partition, and only this one, is handed on as
`intact`. In an `intact` partition the row is never ahead of the topic; a reset can only
come from the retention. What the theorem leaves open, the other partitions after
a restart and a partition after a reset, is wrong in the code: `ReplaysOnlyDelta`
claims it, and the run `partitions` and the instance in section 3 refute it.

`SoundInv`: every record was published by
`place_order` or repeats one that was, a partition has at most one record more than
different orders for each failure (which bounds all offsets), every book is
`BookSound`, and the orders of the row are open and uncrossed (`RowSound`), which is
what makes them restorable. It gives `RecoveryTypes`. `FollowInv`: a book has the
depth of the orders it has heard (`applied`, looked up in the topic) replayed in
that order from an empty book, and ids of those orders only (`Follows`); the same
is true of the book that the row would restore (`SavedFollows`). The order in which a
process has read is its own, so this needs nothing of the positions and survives
every reset; with `OnceInv` it says, for an `intact` partition, that its part of that replay is the
partition from its beginning to the position. A start, a message and a saved row each keep
`FollowInv` by one of the three results above. `BooksStayConsistent`
and `DepthOfTheLog` follow. Exactness of the index is promised only while the book has
processed no order twice: a repeated id takes over the entry of
the first copy. Arrival order within a level is not promised at all: the run
`restore_order` refutes it.

**The pipeline, `PipelineProofs`.** `PInv` adds to the types how the parts of a
process are coupled: a processed order was read, and a message in `order_tx.send` or
in the channel was read and not processed; the engine has fills to send exactly while
it sends, the fan-out task holds one fill exactly between receiving and handing over,
the writer has a batch exactly while it inserts; and every fill made is in exactly
one place (`FillsCounted`), which bounds all sequences at once. `OneQueue` maps the
places, put behind each other in the order of the way (`Way`), to the queue of
`FillQueue`: a step inside moves a fill over a boundary between two places and leaves
the concatenation as it is. `Sinks` needs the contents too. `SInv`: the settled fills
and the way are together the numbers from one on without a gap (`InOrder`); the
WebSocket has all that was taken, Redis and Postgres an increasing part of what the
fan-out task or the writer is done with (`WsSound`, `FanSinksSound`, `DbSound`); and
what is missing in Kafka and Redis is paid for by failures, one each, in Postgres
by a batch for each failure. A record of `fills-out` that is sent again is paid for
in the same way, but it may do its damage later: when it arrives before the
first answer to a request that is still under way, the record of that request is the
one that comes late. `LateRecords` counts both, the records that are late already and the one under
way that will be; a repeated record adds one to it, never two. It forgets the
partitions: a record that is overtaken in its partition is late in the topic, so
the bound holds for every `FillPartition`.

**The broadcast, `WsBroadcastProofs`.** `NoGap` relates what a client has read and
what is in its session buffer to the receiver's position while the task is in
`select!`. Between two visits to `select!` the task waits in `text` or `pong` with a
full buffer; `Continues` says what holds there: the fill in hand is the next one after
everything in the buffer, and a pong changes nothing about which fill is next. For
`GaugeExact` each exit of a task is one step that takes one client out of the set of
live clients, and the proof counts that set.

**The election, `LeaderElectionProofs`.** `ElectionTypes` holds for any number of
pods; `EInv` adds how long each await has lasted (`Punctual`), which is what bounds
the age of the lease that a patch writes, since it writes the time before the read.
`SplitBound` has `SplitInv`: a pod that believes it leads has not slept
long enough for the lease to be expired for anybody (`BelieversFresh`); one that
believes it and is not the holder is on its way to reading that, with the seconds of
the overlap and of its timer within the bound (`LosersLeave`); a patch that will
overwrite the lease of a believer comes before that believer reads the lease again
(`PatchesFirst`), so the believer has not yet begun to patch itself; and while a
split is on, only the holder may be about to write (`SplitEnds`). Two hypotheses
restrict the system. `TwoPods`: the two replicas of k8s/03-statefulset.yaml; with
four pods a third write can prolong a split beyond the bound. `TimelyRequests`: a
request is faster than a renewal is due, and the lease outlives a renewal late by
five requests (5 + 5 * 2 <= 15 with the constants of the code and requests of two
seconds). A slower API server breaks it: with `MaxDelay >= RenewInterval` two pods
can overwrite each other's lease for ever. The code sets no timeout on these
requests, so their speed is an assumption about the cluster. MCLeaderElection
assumes both, so that TLC evaluates them for the constants of the `election` run.

Only model-checked: all liveness (`CallsReturn`, `CatchesUp`, `PipelineDrains`,
`ProcessEnds`, `ReadersServed`, `GoneReleased`, `LeaderEventually`,
`DeposedGoesDown`), because fairness and ENABLED are out of the prover's reach. Of
`CallsReturn` the core is proved for whole calls in `RoundsEnd`: the loop has no
more iterations than there are live orders.

## 5. Plan

1. `LeaderElection`: restart back-off longer than the lease, and a topic that stays
   idle, each with what then fails.
2. `Recovery` with one snapshot offset per partition, should the code come to keep one:
   a row would then hand on every partition as `intact`, and `OnceInv`, which is stated
   per partition already, would prove `ReplaysOnlyDelta` up to the retention.

## 6. Not modelled

Metrics (with the consumer lag and its `fetch_watermarks`), tracing, the allocator,
benchmarks, dashboards and the mock stream hold no state the program acts on. The HTTP
read handlers are stateless reads.
`DELETE /orders/{id}` answers "not implemented", so `cancel` is reachable only
through the library. `OrderWriter` is never constructed, so the orders table is
never written. The `cache` modules that main.rs names are not in the repository;
`Pipeline` models them by their calls. The label of a pod and the service that
selects by it are outside: nothing in the program reads them, and a label request
that fails is not repeated. Postgres is taken to be durable, and Kafka up to its
retention.
