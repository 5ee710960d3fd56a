---------------------------- MODULE PipelineProofs ----------------------------
(***************************************************************************)
(* The running process for every number of workers, every channel capacity *)
(* and every batch size: the tasks of a leader go on as long as its stream *)
(* is up, the five places between the engine and Postgres are one queue of *)
(* fills, and what a sink lacks, or fills-out has out of order, is bounded *)
(* by the requests that failed or were sent again.                         *)
(***************************************************************************)
EXTENDS Pipeline, SequenceTheorems, FiniteSetTheorems, TLAPS

(* Every order is read before it is processed; a message in order_tx.send or in
   the order channel is read and not processed. *)
OrdersCounted ==
  processed + Len(orderCh) + (IF consumer = "send" THEN 1 ELSE 0) <= read

(* The engine thread has fills to send exactly while it sends fills, unless it
   has ended. *)
EngineSound ==
  /\ engine = "fill" => out # << >>
  /\ engine \in {"recv", "update", "save"} => out = << >>

(* The fan-out task holds one fill at most, and none when it waits for one. *)
FanSound ==
  /\ Len(fan.hold) <= 1
  /\ fan.step = "recv" => fan.hold = << >>
  /\ fan.step \in {"publish", "push", "db"} => Len(fan.hold) = 1

(* The writer task has a batch exactly while it inserts one, unless it was
   dropped, and its last one when the fan-out task is gone; neither buffer nor
   batch outgrow DB_BATCH_SIZE. *)
WriterSound ==
  /\ writer.step = "recv" => writer.batch = << >>
  /\ writer.step \in {"insert", "last"} => writer.batch # << >>
  /\ writer.step = "last" => fan.step = "done"
  /\ Len(writer.buf) < BatchSize
  /\ Len(writer.batch) <= BatchSize

(* The places of a fill, in the order of its way. *)
InHand == Len(settled) + Len(writer.batch) + Len(writer.buf) + Len(dbCh)
Begun == InHand + Len(fan.hold)

(* Every fill that was made is in one of them. *)
FillsCounted == made = Begun + Len(fillCh) + Len(out)

(* The types again, by the part of the process that changes the variables. *)
ProcessSound ==
  /\ role \in {"leader", "follower"}
  /\ phase \in {"running", "closing", "exited"}
  /\ is_leader \in BOOLEAN
  /\ alive \in BOOLEAN
  /\ failures \in 0..MaxFailures

SourceSound ==
  /\ topic \in 0..MaxOrders /\ read \in 0..topic
  /\ consumer \in {"next", "send", "done"}
  /\ orderCh \in Seq(1..read) /\ Len(orderCh) <= OrderCap
  /\ processed \in Nat
  /\ OrdersCounted

BookSound ==
  /\ best \in 0..processed /\ cache \in 0..best
  /\ bookCh \in Seq(0..best) /\ Len(bookCh) <= BookCap
  /\ bookTask \in [step : {"recv", "write", "done"}, update : 0..best]

FanType == [step : {"recv", "publish", "push", "db", "done"}, hold : Seq(1..made)]

WriterType == [step : {"recv", "insert", "last", "done"},
               buf : Seq(1..made), batch : Seq(1..made)]

FillsSound ==
  /\ engine \in {"recv", "fill", "update", "save", "dead"}
  /\ made \in 0..MaxFills
  /\ {out, fillCh, dbCh, settled} \subseteq Seq(1..made)
  /\ Len(fillCh) <= FillCap /\ Len(dbCh) <= DbCap
  /\ fan \in FanType /\ writer \in WriterType
  /\ EngineSound /\ FanSound /\ WriterSound /\ FillsCounted

SinksTyped == sinks \in [{"ws", "kafka", "redis", "db"} -> Seq(1..made)]

(* The inductive invariant of the process. *)
PInv ==
  /\ ProcessSound
  /\ SourceSound
  /\ BookSound
  /\ FillsSound
  /\ SinksTyped
  /\ LeaderKeepsServing

(* What a step that leaves a part alone has to leave unchanged. *)
sourceVars == <<topic, read, consumer, orderCh, processed>>
bookVars == <<processed, best, bookCh, bookTask, cache>>
fillVars == <<engine, made, out, fillCh, fan, dbCh, writer, settled>>

(* The parts imply the types. *)
LEMMA PInvTypes == PInv => TypeOK
<1> SUFFICES ASSUME PInv PROVE TypeOK
  OBVIOUS
<1>1. Len(orderCh) \in Nat /\ processed \in Nat /\ read \in Nat
  BY DEF PInv, SourceSound
<1>2. processed \in 0..read
  BY <1>1 DEF PInv, SourceSound, OrdersCounted
<1> QED BY <1>2 DEF PInv, ProcessSound, SourceSound, BookSound, FillsSound, SinksTyped,
                    FanType, WriterType, TypeOK

(* A part that a step leaves alone stays sound. *)
LEMMA Kept ==
  /\ SourceSound /\ UNCHANGED sourceVars => SourceSound'
  /\ BookSound /\ UNCHANGED bookVars => BookSound'
  /\ FillsSound /\ UNCHANGED fillVars => FillsSound'
  /\ SinksTyped /\ UNCHANGED <<made, sinks>> => SinksTyped'
<1>1. SourceSound /\ UNCHANGED sourceVars => SourceSound'
  BY DEF SourceSound, sourceVars, OrdersCounted
<1>2. BookSound /\ UNCHANGED bookVars => BookSound'
  BY DEF BookSound, bookVars
<1>3. FillsSound /\ UNCHANGED fillVars => FillsSound'
  BY DEF FillsSound, fillVars, FanType, WriterType, EngineSound, FanSound, WriterSound,
         FillsCounted, Begun, InHand
<1>4. SinksTyped /\ UNCHANGED <<made, sinks>> => SinksTyped'
  BY DEF SinksTyped
<1> QED BY <1>1, <1>2, <1>3, <1>4
-----------------------------------------------------------------------------
(* No step ends a task of a leader whose stream is up: every end follows from
   another one, from the end of the stream or from a promotion. *)
LEMMA NextServing ==
  ASSUME PInv, Next
  PROVE  LeaderKeepsServing'
<1>1. role' = role /\ (phase' = "running" => phase = "running")
  BY DEF Next, Ingest, ConsumerNext, ConsumerSend, EngineNext, EngineRecv, EngineSendFill,
         EngineSendUpdate, EngineSave, EngineFollow, EnginePromoted, EngineClosed, FanNext,
         FanRecv, FanPublish, FanPush, FanDb, FanClosed, BookNext, BookRecv, BookWrite,
         BookClosed, WriterNext, WriterRecv, WriterTick, WriterInsert, WriterClosed,
         StreamEnds, Promote, ShutdownNext, CancelConsumer, CancelFan, CancelBook,
         CancelWriter, Exit, PromotedExit, PublishAgain, process
<1> SUFFICES ASSUME role = "leader", phase = "running", phase' = "running"
             PROVE  /\ alive' /\ engine' # "dead" /\ consumer' # "done"
                    /\ fan'.step # "done" /\ bookTask'.step # "done"
                    /\ writer'.step # "done"
  BY <1>1 DEF LeaderKeepsServing
<1>2. /\ alive /\ engine # "dead" /\ consumer # "done" /\ fan.step # "done"
      /\ bookTask.step # "done" /\ writer.step # "done"
  BY DEF PInv, LeaderKeepsServing
<1>3. fan \in FanType /\ writer \in WriterType
      /\ bookTask \in [step : {"recv", "write", "done"}, update : 0..best]
  BY DEF PInv, FillsSound, BookSound
<1>4. CASE Ingest \/ ConsumerNext \/ ConsumerSend
  BY <1>2, <1>4 DEF Ingest, ConsumerNext, ConsumerSend, thread, bookPath, fillPath
<1>5. CASE EngineNext
  BY <1>2, <1>5 DEF EngineNext, EngineRecv, EngineSendFill, EngineSendUpdate, EngineSave,
                    EngineFollow, EnginePromoted, EngineClosed, AfterUpdate, source,
                    bookPath, fillPath
<1>6. CASE FanNext
  <2>1. UNCHANGED <<engine, alive, consumer, bookTask, writer>>
    BY <1>6 DEF FanNext, FanRecv, FanPublish, FanPush, FanDb, FanClosed, source, thread,
                bookPath
  <2>2. \A step \in {"push", "db"} : [fan EXCEPT !.step = step].step = step
    BY <1>3 DEF FanType
  <2>3. ~FanClosed
    BY <1>2 DEF FanClosed
  <2>4. FanRecv \/ FanDb => fan'.step # "done"
    <3>1. FanRecv => fan' = [step |-> "publish", hold |-> <<Head(fillCh)>>]
      BY DEF FanRecv
    <3>2. FanDb => fan' = [step |-> "recv", hold |-> << >>]
      BY <1>2 DEF FanDb
    <3> QED BY <3>1, <3>2
  <2>5. FanPublish \/ FanPush => fan'.step # "done"
    BY <2>2 DEF FanPublish, FanPush
  <2>6. fan'.step # "done"
    BY <1>6, <2>3, <2>4, <2>5 DEF FanNext
  <2> QED BY <1>2, <2>1, <2>6
<1>7. CASE BookNext
  <2>1. UNCHANGED <<engine, alive, consumer, fan, writer>>
    BY <1>7 DEF BookNext, BookRecv, BookWrite, BookClosed, source, thread, fillPath
  <2>2. [bookTask EXCEPT !.step = "recv"].step = "recv"
    BY <1>3
  <2>3. ~BookClosed
    BY <1>2 DEF BookClosed
  <2>4. BookRecv => bookTask'.step # "done"
    BY DEF BookRecv
  <2>5. BookWrite => bookTask'.step # "done"
    BY <2>2 DEF BookWrite
  <2> QED BY <1>2, <1>7, <2>1, <2>3, <2>4, <2>5 DEF BookNext
<1>8. CASE WriterNext
  <2>1. UNCHANGED <<engine, alive, consumer, fan, bookTask>>
    BY <1>8 DEF WriterNext, WriterRecv, WriterTick, WriterInsert, WriterClosed, source, thread,
                bookPath
  <2>2. WriterRecv => writer'.step # "done"
    <3>1. \A buf : [writer EXCEPT !.buf = buf].step = writer.step
      BY <1>3 DEF WriterType
    <3> QED BY <1>2, <3>1 DEF WriterRecv, Flush
  <2>3. WriterTick => writer'.step # "done"
    BY DEF WriterTick, Flush
  <2>4. WriterInsert => writer'.step # "done"
    <3> HAVE WriterInsert
    <3>1. WorkerFree /\ writer.step \in {"insert", "last"}
          /\ writer' = [writer EXCEPT !.step = IF @ = "last" THEN "done" ELSE "recv",
                                      !.batch = << >>]
      BY DEF WriterInsert
    <3>2. writer.step # "last"
      BY <1>2 DEF PInv, FillsSound, WriterSound
    <3> QED BY <1>3, <3>1, <3>2 DEF WriterType
  <2>5. ~WriterClosed
    BY <1>2 DEF WriterClosed
  <2> QED BY <1>2, <1>8, <2>1, <2>2, <2>3, <2>4, <2>5 DEF WriterNext
<1>9. CASE StreamEnds \/ Promote
  BY <1>2, <1>9 DEF StreamEnds, Promote
<1>10. CASE ShutdownNext
  BY <1>2, <1>10 DEF ShutdownNext, CancelConsumer, CancelFan, CancelBook, CancelWriter, Exit,
                     PromotedExit
<1>11. CASE PublishAgain
  BY <1>2, <1>11 DEF PublishAgain, source, thread, bookPath
<1> QED BY <1>4, <1>5, <1>6, <1>7, <1>8, <1>9, <1>10, <1>11 DEF Next
-----------------------------------------------------------------------------
(* The fills in their places, one by one. *)
LEMMA FillFacts ==
  ASSUME FillsSound
  PROVE  /\ made \in Nat /\ made \in 0..MaxFills
         /\ out \in Seq(1..made) /\ fillCh \in Seq(1..made) /\ dbCh \in Seq(1..made)
         /\ settled \in Seq(1..made) /\ fan.hold \in Seq(1..made)
         /\ writer.buf \in Seq(1..made) /\ writer.batch \in Seq(1..made)
         /\ Len(out) \in Nat /\ Len(fillCh) \in Nat /\ Len(dbCh) \in Nat
         /\ Len(settled) \in Nat /\ Len(fan.hold) \in Nat
         /\ Len(writer.buf) \in Nat /\ Len(writer.batch) \in Nat
<1>1. made \in Nat /\ made \in 0..MaxFills
  BY PipelineAssumption DEF FillsSound
<1>2. /\ out \in Seq(1..made) /\ fillCh \in Seq(1..made) /\ dbCh \in Seq(1..made)
      /\ settled \in Seq(1..made) /\ fan.hold \in Seq(1..made)
      /\ writer.buf \in Seq(1..made) /\ writer.batch \in Seq(1..made)
  BY DEF FillsSound, FanType, WriterType
<1> QED BY <1>1, <1>2, LenProperties

(* The first element of a non-empty sequence moves out of it. *)
LEMMA OneOut ==
  ASSUME NEW S, NEW s \in Seq(S), s # << >>
  PROVE  /\ Head(s) \in S /\ Head(s) = s[1] /\ Tail(s) \in Seq(S)
         /\ Len(s) \in Nat \ {0} /\ Len(Tail(s)) = Len(s) - 1
         /\ \A i \in 1..Len(Tail(s)) : Tail(s)[i] = s[i + 1]
         /\ Tail(s) = << >> <=> Len(s) = 1
<1>1. Len(s) \in Nat \ {0} /\ Head(s) = s[1]
  BY LenProperties, EmptySeq
<1>2. /\ Head(s) \in S /\ Tail(s) \in Seq(S) /\ Len(Tail(s)) = Len(s) - 1
      /\ \A i \in 1..Len(Tail(s)) : Tail(s)[i] = s[i + 1]
  BY HeadTailProperties
<1> DEFINE t == Tail(s)
<1> HIDE DEF t
<1>3. t \in Seq(S) /\ Len(t) = Len(s) - 1
  BY <1>2 DEF t
<1>4. t = << >> <=> Len(t) = 0
  BY <1>3, EmptySeq
<1>5. t = << >> <=> Len(s) = 1
  BY <1>1, <1>3, <1>4
<1> QED BY <1>1, <1>2, <1>5 DEF t

(* A sequence over a set is one over every larger set. *)
LEMMA SeqLarger ==
  ASSUME NEW S, NEW T, S \subseteq T, NEW s \in Seq(S)
  PROVE  s \in Seq(T)
<1>1. Len(s) \in Nat /\ s \in [1..Len(s) -> S]
  BY LenProperties
<1>2. s \in [1..Len(s) -> T]
  BY <1>1
<1> QED BY <1>1, <1>2

(* The capacities and bounds are numbers. *)
LEMMA BoundFacts ==
  /\ OrderCap \in Nat \ {0} /\ FillCap \in Nat \ {0} /\ BookCap \in Nat \ {0}
  /\ DbCap \in Nat \ {0} /\ BatchSize \in Nat \ {0} /\ MaxOrders \in Nat
  /\ MaxFills \in Nat /\ MaxMoves \in Nat /\ MaxFailures \in Nat
BY PipelineAssumption

(* The fills whose requests have begun are counted. *)
LEMMA BegunFacts ==
  ASSUME FillsSound
  PROVE  /\ InHand \in Nat /\ Begun \in Nat /\ Begun = InHand + Len(fan.hold)
         /\ made = Begun + Len(fillCh) + Len(out)
<1> DEFINE a == Len(settled)
           b == Len(writer.batch)
           c == Len(writer.buf)
           d == Len(dbCh)
           e == Len(fan.hold)
<1>1. a \in Nat /\ b \in Nat /\ c \in Nat /\ d \in Nat /\ e \in Nat
  BY FillFacts
<1>2. InHand = a + b + c + d /\ Begun = InHand + e
  BY DEF InHand, Begun
<1> HIDE DEF a, b, c, d, e
<1>3. InHand \in Nat /\ Begun \in Nat
  BY <1>1, <1>2
<1> QED BY <1>2, <1>3 DEF e, FillsSound, FillsCounted

(* An order makes fills, which are numbered on. *)
LEMMA EngineRecvFills ==
  ASSUME FillsSound, EngineRecv
  PROVE  FillsSound'
<1>1. PICK n \in 0 .. MaxFills - made, had_fills \in BOOLEAN :
        /\ made' = made + n
        /\ out' = [i \in 1..n |-> made + i]
        /\ engine' = IF n > 0 THEN "fill"
                     ELSE IF had_fills THEN "update" ELSE AfterUpdate(processed')
  BY DEF EngineRecv
<1>2. /\ engine = "recv"
      /\ UNCHANGED <<fillCh, fan, dbCh, writer, settled>>
  BY DEF EngineRecv, fillPath
<1>3. made' \in 0..MaxFills /\ 1..made \subseteq 1..made' /\ n \in Nat
  BY <1>1, FillFacts, BoundFacts
<1>4. \A s \in Seq(1..made) : s \in Seq(1..made')
  BY <1>3, SeqLarger
<1>5. out' \in Seq(1..made') /\ Len(out') = n
  BY <1>1, FillFacts
<1>6. /\ {out', fillCh', dbCh', settled'} \subseteq Seq(1..made')
      /\ fan' \in FanType' /\ writer' \in WriterType'
  BY <1>2, <1>4, <1>5 DEF FillsSound, FanType, WriterType
<1>7. engine' \in {"recv", "fill", "update", "save", "dead"} /\ EngineSound'
  <2>1. n = 0 => out' = << >>
    BY <1>5, EmptySeq
  <2>2. n > 0 => out' # << >>
    BY <1>5
  <2>3. IF n > 0 THEN engine' = "fill" ELSE engine' \in {"update", "save", "recv"}
    BY <1>1 DEF AfterUpdate
  <2> QED BY <1>3, <2>1, <2>2, <2>3 DEF EngineSound
<1>8. FillsCounted'
  <2>1. out = << >> /\ Len(out) = 0
    BY <1>2 DEF FillsSound, EngineSound
  <2> QED BY <1>1, <1>2, <1>3, <1>5, <2>1, FillFacts
      DEF FillsSound, FillsCounted, Begun, InHand
<1> QED BY <1>2, <1>3, <1>6, <1>7, <1>8 DEF FillsSound, FanSound, WriterSound

(* fill_tx.send moves a fill into the fill channel, or ends the thread. *)
LEMMA EngineSendFillFills ==
  ASSUME FillsSound, EngineSendFill
  PROVE  FillsSound'
<1>1. engine = "fill" /\ UNCHANGED <<made, fan, dbCh, writer, settled>>
  BY DEF EngineSendFill, fillPath
<1>2. fan' \in FanType' /\ writer' \in WriterType' /\ FanSound' /\ WriterSound'
  BY <1>1 DEF FillsSound, FanType, WriterType, FanSound, WriterSound
<1>3. CASE engine' = "dead" /\ UNCHANGED <<out, fillCh>>
  BY <1>1, <1>2, <1>3 DEF FillsSound, EngineSound, FillsCounted, Begun, InHand
<1>4. CASE /\ Len(fillCh) < FillCap
           /\ fillCh' = Append(fillCh, Head(out))
           /\ out' = Tail(out)
           /\ engine' = IF Len(out) = 1 THEN "update" ELSE "fill"
  <2>1. /\ Head(out) \in 1..made /\ Tail(out) \in Seq(1..made)
        /\ Len(out) \in Nat \ {0} /\ Len(Tail(out)) = Len(out) - 1
        /\ Tail(out) = << >> <=> Len(out) = 1
    BY <1>1, FillFacts, OneOut DEF FillsSound, EngineSound
  <2>2. /\ Append(fillCh, Head(out)) \in Seq(1..made)
        /\ Len(Append(fillCh, Head(out))) = Len(fillCh) + 1
    BY <2>1, FillFacts, AppendProperties
  <2>3. /\ out' \in Seq(1..made) /\ fillCh' \in Seq(1..made)
        /\ Len(out') = Len(out) - 1 /\ Len(fillCh') = Len(fillCh) + 1
        /\ out' = << >> <=> Len(out) = 1
    BY <1>4, <2>1, <2>2
  <2>4. EngineSound' /\ engine' \in {"update", "fill"}
    BY <1>4, <2>3 DEF EngineSound
  <2>5. FillsCounted' /\ Len(fillCh') <= FillCap
    <3>1. Len(fillCh') <= FillCap
      BY <1>4, <2>3, FillFacts, BoundFacts
    <3>2. Begun' = Begun
      BY <1>1 DEF Begun, InHand
    <3>3. made = Begun + Len(fillCh) + Len(out) /\ Begun \in Nat
      BY BegunFacts
    <3>4. made = Begun + (Len(fillCh) + 1) + (Len(out) - 1)
      BY <2>1, <3>2, <3>3, FillFacts
    <3>5. made' = Begun' + Len(fillCh') + Len(out')
      BY <1>1, <2>3, <3>2, <3>4
    <3> QED BY <3>1, <3>5 DEF FillsCounted
  <2> QED BY <1>1, <1>2, <2>3, <2>4, <2>5 DEF FillsSound
<1> QED BY <1>3, <1>4 DEF EngineSendFill

(* The other steps of the engine thread have no fills to send. *)
LEMMA EngineStepFills ==
  ASSUME FillsSound,
         engine \in {"recv", "update", "save"},
         engine' \in {"recv", "save", "dead"},
         UNCHANGED <<made, out, fillCh, fan, dbCh, writer, settled>>
  PROVE  FillsSound'
BY DEF FillsSound, FanType, WriterType, EngineSound, FanSound, WriterSound,
       FillsCounted, Begun, InHand

(* try_recv of the fan-out task: the fill channel gives one fill. *)
LEMMA FanRecvFills ==
  ASSUME FillsSound, FanRecv
  PROVE  FillsSound'
<1>1. /\ fan.step = "recv" /\ fillCh # << >>
      /\ fan' = [step |-> "publish", hold |-> <<Head(fillCh)>>]
      /\ fillCh' = Tail(fillCh)
      /\ UNCHANGED <<engine, made, out, dbCh, writer, settled>>
  BY DEF FanRecv, thread
<1>2. /\ Head(fillCh) \in 1..made /\ Tail(fillCh) \in Seq(1..made)
      /\ Len(fillCh) \in Nat \ {0} /\ Len(Tail(fillCh)) = Len(fillCh) - 1
  BY <1>1, FillFacts, OneOut
<1>3. <<Head(fillCh)>> \in Seq(1..made) /\ Len(<<Head(fillCh)>>) = 1
  BY <1>2
<1>4. fan' \in FanType' /\ FanSound'
  BY <1>1, <1>3 DEF FanType, FanSound
<1>5. writer' \in WriterType' /\ WriterSound' /\ EngineSound'
  BY <1>1 DEF FillsSound, WriterType, WriterSound, EngineSound
<1>6. FillsCounted' /\ Len(fillCh') <= FillCap
  <2> DEFINE f == Len(fillCh)
             g == Len(out)
  <2>1. /\ InHand' = InHand /\ InHand \in Nat /\ Begun' = InHand + 1 /\ Begun = InHand
        /\ made = Begun + f + g
    <3>1. InHand' = InHand /\ Begun' = InHand' + Len(fan'.hold) /\ Len(fan'.hold) = 1
      BY <1>1, <1>3 DEF InHand, Begun
    <3>2. Len(fan.hold) = 0
      BY <1>1 DEF FillsSound, FanSound
    <3> QED BY <3>1, <3>2, BegunFacts
  <2>2. Len(fillCh') = f - 1 /\ Len(out') = g /\ f \in Nat /\ g \in Nat /\ made' = made
        /\ f <= FillCap
    BY <1>1, <1>2, FillFacts DEF FillsSound
  <2> HIDE DEF f, g
  <2>3. made' = Begun' + Len(fillCh') + Len(out')
    BY <2>1, <2>2
  <2>4. Len(fillCh') <= FillCap
    BY <2>2, BoundFacts
  <2> QED BY <2>3, <2>4 DEF FillsCounted
<1> QED BY <1>1, <1>2, <1>4, <1>5, <1>6 DEF FillsSound

(* A step of the fan-out task that keeps the fill it holds. *)
LEMMA FanStepFills ==
  ASSUME FillsSound, NEW step \in {"publish", "push", "db", "done"},
         step # "done" => Len(fan.hold) = 1,
         fan' = [fan EXCEPT !.step = step],
         fan.step # "done",
         UNCHANGED <<engine, made, out, fillCh, dbCh, writer, settled>>
  PROVE  FillsSound'
<1>1. fan' \in FanType' /\ fan'.hold = fan.hold /\ fan'.step = step
  BY DEF FillsSound, FanType
<1>2. FanSound' /\ EngineSound'
  BY <1>1 DEF FillsSound, FanSound, EngineSound
<1>3. writer' \in WriterType' /\ WriterSound'
  BY <1>1 DEF FillsSound, WriterType, WriterSound
<1>4. FillsCounted'
  BY <1>1 DEF FillsSound, FillsCounted, Begun, InHand
<1> QED BY <1>1, <1>2, <1>3, <1>4 DEF FillsSound

(* db_tx.send: the fill goes to the writer. *)
LEMMA FanDbFills ==
  ASSUME FillsSound, FanDb
  PROVE  FillsSound'
<1>1. fan.step = "db" /\ UNCHANGED <<engine, made, out, fillCh, writer, settled>>
  BY DEF FanDb, thread
<1>2. CASE fan' = [fan EXCEPT !.step = "done"] /\ UNCHANGED dbCh
  BY <1>1, <1>2, FanStepFills
<1>3. CASE /\ writer.step # "done" /\ Len(dbCh) < DbCap
           /\ dbCh' = dbCh \o fan.hold
           /\ fan' = [step |-> "recv", hold |-> << >>]
  <2> DEFINE d == Len(dbCh)
             e == Len(fan.hold)
  <2>1. dbCh \o fan.hold \in Seq(1..made) /\ Len(dbCh \o fan.hold) = d + e
    BY FillFacts, ConcatProperties
  <2>2. dbCh' \in Seq(1..made) /\ Len(dbCh') = d + e /\ d \in Nat /\ e = 1 /\ d < DbCap
    BY <1>1, <1>3, <2>1, FillFacts DEF FillsSound, FanSound
  <2>3. << >> \in Seq(1..made) /\ Len(<< >>) = 0
    OBVIOUS
  <2>4. fan' \in FanType' /\ FanSound' /\ Len(fan'.hold) = 0
    BY <1>1, <1>3, <2>3 DEF FanType, FanSound
  <2>5. writer.step # "last"
    BY <1>1 DEF FillsSound, WriterSound
  <2>6. writer' \in WriterType' /\ WriterSound' /\ EngineSound'
    BY <1>1, <2>5 DEF FillsSound, WriterType, WriterSound, EngineSound
  <2>7. FillsCounted' /\ Len(dbCh') <= DbCap
    <3> DEFINE h == Len(settled) + Len(writer.batch) + Len(writer.buf)
    <3>1. h \in Nat
      <4> DEFINE a == Len(settled)
                 b == Len(writer.batch)
                 c == Len(writer.buf)
      <4>1. a \in Nat /\ b \in Nat /\ c \in Nat
        BY FillFacts
      <4> HIDE DEF a, b, c
      <4>2. a + b + c \in Nat
        BY <4>1
      <4> QED BY <4>2 DEF a, b, c
    <3>2. /\ InHand = h + d /\ InHand' = h + Len(dbCh')
          /\ Begun = InHand + e /\ Begun' = InHand' + Len(fan'.hold)
      BY <1>1 DEF InHand, Begun
    <3> HIDE DEF h, d, e
    <3>3. Begun' = Begun
      BY <2>2, <2>4, <3>1, <3>2
    <3>4. Len(dbCh') <= DbCap
      BY <2>2, BoundFacts
    <3> QED BY <1>1, <3>3, <3>4 DEF FillsSound, FillsCounted
  <2> QED BY <1>1, <2>2, <2>4, <2>6, <2>7 DEF FillsSound
<1> QED BY <1>2, <1>3 DEF FanDb

(* A step of the writer task that settles nothing and loses nothing. *)
LEMMA WriterStepFills ==
  ASSUME FillsSound, writer' \in WriterType, WriterSound',
         dbCh' \in Seq(1..made), Len(dbCh') <= DbCap,
         settled' \in Seq(1..made), InHand' = InHand,
         UNCHANGED <<engine, made, out, fillCh, fan>>
  PROVE  FillsSound'
<1>1. FillsCounted'
  BY DEF FillsSound, FillsCounted, Begun
<1>2. fan' \in FanType' /\ FanSound' /\ EngineSound' /\ writer' \in WriterType'
  BY DEF FillsSound, FanType, FanSound, EngineSound, WriterType
<1> QED BY <1>1, <1>2 DEF FillsSound

(* flush drains the buffer into the batch. *)
LEMMA FlushFills ==
  ASSUME FillsSound, NEW buf \in Seq(1..made), buf # << >>, Len(buf) <= BatchSize,
         NEW next \in {"insert", "last"}, next = "last" => fan.step = "done"
  PROVE  LET w == Flush(buf, next)
         IN  /\ w \in WriterType /\ Len(w.batch) = Len(buf) /\ Len(w.buf) = 0
             /\ w.step = next /\ w.batch = buf /\ w.buf = << >>
             /\ writer' = w /\ fan' = fan => WriterSound'
<1> DEFINE w == Flush(buf, next)
<1>1. << >> \in Seq(1..made) /\ Len(<< >>) = 0
  OBVIOUS
<1>2. /\ w \in WriterType /\ w.step = next /\ w.batch = buf /\ w.buf = << >>
  BY <1>1 DEF Flush, WriterType
<1>3. 0 < BatchSize
  BY BoundFacts
<1> HIDE DEF w
<1>4. writer' = w /\ fan' = fan => WriterSound'
  BY <1>1, <1>2, <1>3 DEF WriterSound
<1> QED BY <1>1, <1>2, <1>4 DEF w

(* rx.recv: a fill goes into the buffer, and a full buffer into the batch. *)
LEMMA WriterRecvFills ==
  ASSUME FillsSound, WriterRecv
  PROVE  FillsSound'
<1> DEFINE buf == Append(writer.buf, Head(dbCh))
           a   == Len(settled)
           b   == Len(writer.batch)
           c   == Len(writer.buf)
           d   == Len(dbCh)
<1>1. /\ writer.step = "recv" /\ dbCh # << >> /\ dbCh' = Tail(dbCh)
      /\ writer' = IF Len(buf) >= BatchSize THEN Flush(buf, "insert")
                   ELSE [writer EXCEPT !.buf = buf]
      /\ UNCHANGED <<engine, made, out, fillCh, fan, settled>>
  BY DEF WriterRecv, thread
<1>2. /\ Head(dbCh) \in 1..made /\ Tail(dbCh) \in Seq(1..made)
      /\ Len(dbCh) \in Nat \ {0} /\ Len(Tail(dbCh)) = Len(dbCh) - 1
  BY <1>1, FillFacts, OneOut
<1>3. buf \in Seq(1..made) /\ buf # << >> /\ Len(buf) = c + 1
  <2> DEFINE x == Head(dbCh)
             y == writer.buf
  <2>1. x \in 1..made /\ y \in Seq(1..made)
    BY <1>2, FillFacts
  <2> HIDE DEF x, y
  <2>2. /\ Append(y, x) \in Seq(1..made) /\ Append(y, x) # << >>
        /\ Len(Append(y, x)) = Len(y) + 1
    BY <2>1, AppendProperties
  <2> QED BY <2>2 DEF x, y
<1>4. /\ a \in Nat /\ b = 0 /\ c \in Nat /\ d \in Nat \ {0} /\ c < BatchSize
      /\ d <= DbCap /\ BatchSize \in Nat /\ DbCap \in Nat /\ writer.batch = << >>
  BY <1>1, <1>2, FillFacts, BoundFacts DEF FillsSound, WriterSound
<1>5. InHand = a + b + c + d /\ Len(settled') = a /\ Len(dbCh') = d - 1
  BY <1>1, <1>2 DEF InHand
<1>6. InHand' = Len(settled') + Len(writer'.batch) + Len(writer'.buf) + Len(dbCh')
  BY DEF InHand
<1>7. dbCh' \in Seq(1..made) /\ settled' \in Seq(1..made)
  BY <1>1, <1>2, FillFacts
<1> HIDE DEF a, b, c, d
<1>8. Len(dbCh') <= DbCap
  BY <1>4, <1>5
<1>9. CASE Len(buf) >= BatchSize
  <2>1. writer' = Flush(buf, "insert") /\ Len(buf) <= BatchSize
    BY <1>1, <1>3, <1>4, <1>9
  <2> HIDE DEF buf
  <2>2. /\ writer' \in WriterType /\ WriterSound'
        /\ Len(writer'.batch) = Len(buf) /\ Len(writer'.buf) = 0
    <3> DEFINE w == Flush(buf, "insert")
    <3>1. /\ w \in WriterType /\ Len(w.batch) = Len(buf) /\ Len(w.buf) = 0
          /\ writer' = w /\ fan' = fan => WriterSound'
      BY <1>3, <2>1, FlushFills
    <3>2. writer' = w /\ fan' = fan
      BY <1>1, <2>1
    <3> HIDE DEF w
    <3> QED BY <3>1, <3>2
  <2>3. InHand' = InHand
    BY <1>3, <1>4, <1>5, <1>6, <2>2
  <2> QED BY <1>1, <1>7, <1>8, <2>2, <2>3, WriterStepFills
<1>10. CASE ~(Len(buf) >= BatchSize)
  <2>1. writer' = [writer EXCEPT !.buf = buf] /\ Len(buf) < BatchSize
    BY <1>1, <1>3, <1>4, <1>10
  <2> HIDE DEF buf
  <2>2. /\ writer' \in WriterType /\ writer'.step = "recv" /\ writer'.buf = buf
        /\ writer'.batch = writer.batch
    BY <1>1, <1>3, <2>1 DEF FillsSound, WriterType
  <2>3. Len(writer'.batch) = b
    BY <2>2 DEF b
  <2>4. WriterSound'
    BY <1>4, <2>1, <2>2, <2>3 DEF WriterSound
  <2>5. InHand' = InHand
    BY <1>3, <1>4, <1>5, <1>6, <2>2, <2>3
  <2> QED BY <1>1, <1>7, <1>8, <2>2, <2>4, <2>5, WriterStepFills
<1> QED BY <1>9, <1>10

(* The interval is over, or the channel is closed: the buffer is flushed. *)
LEMMA WriterFlushFills ==
  ASSUME FillsSound, writer.step = "recv", writer.buf # << >>,
         NEW next \in {"insert", "last"}, next = "last" => fan.step = "done",
         writer' = Flush(writer.buf, next),
         UNCHANGED <<engine, made, out, fillCh, fan, dbCh, settled>>
  PROVE  FillsSound'
<1> DEFINE a   == Len(settled)
           b   == Len(writer.batch)
           c   == Len(writer.buf)
           d   == Len(dbCh)
<1>1. /\ a \in Nat /\ b = 0 /\ c \in Nat /\ d \in Nat /\ c < BatchSize
      /\ BatchSize \in Nat
  BY FillFacts, BoundFacts DEF FillsSound, WriterSound
<1>2. c <= BatchSize
  <2> HIDE DEF c
  <2> QED BY <1>1
<1>3. /\ writer' \in WriterType /\ WriterSound'
      /\ Len(writer'.batch) = c /\ Len(writer'.buf) = 0
  BY <1>2, FillFacts, FlushFills
<1>4. /\ InHand = a + b + c + d
      /\ InHand' = a + Len(writer'.batch) + Len(writer'.buf) + d
  BY DEF InHand
<1> HIDE DEF a, b, c, d
<1>5. InHand' = InHand
  BY <1>1, <1>3, <1>4
<1>6. dbCh' \in Seq(1..made) /\ settled' \in Seq(1..made) /\ Len(dbCh') <= DbCap
  BY FillFacts DEF FillsSound
<1> QED BY <1>3, <1>5, <1>6, WriterStepFills

(* insert_batch returns: the batch is settled. *)
LEMMA WriterInsertFills ==
  ASSUME FillsSound, WriterInsert
  PROVE  FillsSound'
<1> DEFINE a   == Len(settled)
           b   == Len(writer.batch)
           c   == Len(writer.buf)
           d   == Len(dbCh)
<1>1. /\ writer.step \in {"insert", "last"} /\ settled' = settled \o writer.batch
      /\ writer' = [writer EXCEPT !.step = IF @ = "last" THEN "done" ELSE "recv",
                                  !.batch = << >>]
      /\ UNCHANGED <<engine, made, out, fillCh, fan, dbCh>>
  BY DEF WriterInsert, thread
<1>2. settled \o writer.batch \in Seq(1..made) /\ Len(settled \o writer.batch) = a + b
  BY FillFacts, ConcatProperties
<1>3. settled' \in Seq(1..made) /\ Len(settled') = a + b
  BY <1>1, <1>2
<1>4. << >> \in Seq(1..made) /\ Len(<< >>) = 0
  OBVIOUS
<1>5. /\ writer' \in WriterType /\ writer'.batch = << >> /\ writer'.buf = writer.buf
      /\ writer'.step \in {"done", "recv"}
  BY <1>1, <1>4 DEF FillsSound, WriterType
<1>6. WriterSound'
  BY <1>4, <1>5, BoundFacts DEF FillsSound, WriterSound
<1>7. /\ a \in Nat /\ b \in Nat /\ c \in Nat /\ d \in Nat
      /\ InHand = a + b + c + d
      /\ InHand' = Len(settled') + Len(writer'.batch) + Len(writer'.buf) + Len(dbCh')
      /\ Len(writer'.batch) = 0 /\ Len(writer'.buf) = c /\ Len(dbCh') = d
  BY <1>1, <1>4, <1>5, FillFacts DEF InHand
<1>8. dbCh' \in Seq(1..made) /\ Len(dbCh') <= DbCap
  BY <1>1, FillFacts DEF FillsSound
<1> HIDE DEF a, b, c, d
<1>9. InHand' = InHand
  BY <1>3, <1>7
<1> QED BY <1>1, <1>3, <1>5, <1>6, <1>8, <1>9, WriterStepFills

(* The writer task ends. *)
LEMMA WriterEndFills ==
  ASSUME FillsSound, writer' = [writer EXCEPT !.step = "done"],
         UNCHANGED <<engine, made, out, fillCh, fan, dbCh, settled>>
  PROVE  FillsSound'
<1>1. /\ writer' \in WriterType /\ writer'.batch = writer.batch
      /\ writer'.buf = writer.buf /\ writer'.step = "done"
  BY DEF FillsSound, WriterType
<1>2. WriterSound'
  BY <1>1 DEF FillsSound, WriterSound
<1>3. InHand' = InHand
  BY <1>1 DEF InHand
<1>4. dbCh' \in Seq(1..made) /\ settled' \in Seq(1..made) /\ Len(dbCh') <= DbCap
  BY FillFacts DEF FillsSound
<1> QED BY <1>1, <1>2, <1>3, <1>4, WriterStepFills

(* The channel of the writer task is closed. *)
LEMMA WriterClosedFills ==
  ASSUME FillsSound, WriterClosed
  PROVE  FillsSound'
<1>1. /\ writer.step = "recv" /\ fan.step = "done"
      /\ writer' = IF writer.buf = << >> THEN [writer EXCEPT !.step = "done"]
                   ELSE Flush(writer.buf, "last")
      /\ UNCHANGED <<engine, made, out, fillCh, fan, dbCh, settled>>
  BY DEF WriterClosed, thread
<1>2. CASE writer.buf = << >>
  BY <1>1, <1>2, WriterEndFills
<1>3. CASE writer.buf # << >>
  BY <1>1, <1>3, WriterFlushFills
<1> QED BY <1>2, <1>3
-----------------------------------------------------------------------------
(* What is read is in the topic, what is queued or processed is read. *)
LEMMA IngestSource == ASSUME SourceSound, Ingest PROVE SourceSound'
<1>1. topic < MaxOrders /\ topic' = topic + 1 /\ UNCHANGED <<read, consumer, orderCh, processed>>
  BY DEF Ingest, thread
<1>2. topic' \in 0..MaxOrders /\ read' \in 0..topic'
  BY <1>1, BoundFacts DEF SourceSound
<1> QED BY <1>1, <1>2 DEF SourceSound, OrdersCounted

(* The consumer reads the next record. *)
LEMMA ConsumerNextSource == ASSUME SourceSound, ConsumerNext PROVE SourceSound'
<1> DEFINE n == Len(orderCh)
<1>1. /\ consumer = "next" /\ read < topic /\ read' = read + 1 /\ consumer' = "send"
      /\ UNCHANGED <<topic, orderCh, processed>>
  BY DEF ConsumerNext, thread
<1>2. topic \in Nat /\ read \in Nat /\ processed \in Nat /\ n \in Nat
  BY BoundFacts, LenProperties DEF SourceSound
<1>3. read' \in 0..topic' /\ 1..read \subseteq 1..read'
  BY <1>1, <1>2
<1>4. orderCh' \in Seq(1..read')
  BY <1>1, <1>3, SeqLarger DEF SourceSound
<1>5. processed + n + 0 <= read
  BY <1>1 DEF SourceSound, OrdersCounted
<1>6. Len(orderCh') = n
  BY <1>1
<1> HIDE DEF n
<1>7. processed' + Len(orderCh') + 1 <= read'
  BY <1>1, <1>2, <1>5, <1>6
<1> QED BY <1>1, <1>3, <1>4, <1>7 DEF SourceSound, OrdersCounted

(* The consumer sends it on, when the channel has room. *)
LEMMA ConsumerSendSource == ASSUME SourceSound, ConsumerSend PROVE SourceSound'
<1> DEFINE n == Len(orderCh)
<1>1. consumer = "send" /\ UNCHANGED <<topic, read, processed>>
  BY DEF ConsumerSend, thread
<1>2. topic \in Nat /\ read \in Nat /\ processed \in Nat /\ n \in Nat
  BY BoundFacts, LenProperties DEF SourceSound
<1>3. processed + n + 1 <= read
  BY <1>1 DEF SourceSound, OrdersCounted
<1>4. CASE consumer' = "done" /\ UNCHANGED orderCh
  <2>1. Len(orderCh') = n
    BY <1>4
  <2> HIDE DEF n
  <2>2. processed' + Len(orderCh') + 0 <= read'
    BY <1>1, <1>2, <1>3, <2>1
  <2> QED BY <1>1, <1>4, <2>2 DEF SourceSound, OrdersCounted
<1>5. CASE /\ Len(orderCh) < OrderCap /\ orderCh' = Append(orderCh, read)
           /\ consumer' = "next"
  <2> HIDE DEF n
  <2>1. read \in 1..read
    BY <1>2, <1>3
  <2>2. /\ Append(orderCh, read) \in Seq(1..read)
        /\ Len(Append(orderCh, read)) = Len(orderCh) + 1
    BY <2>1, AppendProperties DEF SourceSound
  <2>3. orderCh' \in Seq(1..read') /\ Len(orderCh') = n + 1 /\ n < OrderCap
    BY <1>1, <1>5, <2>2 DEF n
  <2>4. Len(orderCh') <= OrderCap /\ processed' + Len(orderCh') + 0 <= read'
    BY <1>1, <1>2, <1>3, <2>3, BoundFacts
  <2> QED BY <1>1, <1>5, <2>3, <2>4 DEF SourceSound, OrdersCounted
<1> QED BY <1>4, <1>5 DEF ConsumerSend

(* The engine thread takes an order out of the channel. *)
LEMMA TakenSource ==
  ASSUME SourceSound, orderCh # << >>, orderCh' = Tail(orderCh),
         processed' = processed + 1, UNCHANGED <<topic, read, consumer>>
  PROVE  SourceSound'
<1> DEFINE n == Len(orderCh)
           m == IF consumer = "send" THEN 1 ELSE 0
<1>1. /\ orderCh' \in Seq(1..read') /\ Len(orderCh') = n - 1 /\ n \in Nat \ {0}
  BY OneOut DEF SourceSound
<1>2. /\ read \in Nat /\ processed \in Nat /\ processed + n + m <= read /\ n <= OrderCap
      /\ m \in {0, 1}
  BY BoundFacts DEF SourceSound, OrdersCounted
<1> HIDE DEF n, m
<1>3. /\ processed' + Len(orderCh') + m <= read' /\ processed' \in Nat
      /\ Len(orderCh') <= OrderCap
  BY <1>1, <1>2, BoundFacts
<1> QED BY <1>1, <1>3 DEF SourceSound, OrdersCounted, m

(* The consumer is dropped. *)
LEMMA CancelConsumerSource == ASSUME SourceSound, CancelConsumer PROVE SourceSound'
<1>1. consumer = "next" /\ consumer' = "done" /\ UNCHANGED <<topic, read, orderCh, processed>>
  BY DEF CancelConsumer, thread
<1> QED BY <1>1 DEF SourceSound, OrdersCounted

(* process_order moves the best prices by one version at most. *)
LEMMA MovedBook ==
  ASSUME SourceSound, BookSound, processed' = processed + 1, BestMoves,
         UNCHANGED bookPath
  PROVE  BookSound'
<1>1. processed \in Nat /\ best \in 0..processed /\ best' \in {best, best + 1}
      /\ cache' = cache /\ bookCh' = bookCh /\ bookTask' = bookTask
  BY DEF SourceSound, BookSound, BestMoves, bookPath
<1>2. best' \in 0..processed' /\ 0..best \subseteq 0..best'
  BY <1>1
<1>3. bookCh' \in Seq(0..best') /\ Len(bookCh') <= BookCap
  BY <1>1, <1>2, SeqLarger DEF BookSound
<1> QED BY <1>1, <1>2, <1>3 DEF BookSound

(* The engine thread offers the best prices with try_send. *)
LEMMA EngineSendUpdateBook == ASSUME SourceSound, BookSound, EngineSendUpdate PROVE BookSound'
<1>1. /\ \/ UNCHANGED bookCh
         \/ Len(bookCh) < BookCap /\ bookCh' = Append(bookCh, best)
      /\ UNCHANGED <<processed, best, bookTask, cache>>
  BY DEF EngineSendUpdate
<1>2. best \in 0..best /\ Len(bookCh) \in Nat
  BY LenProperties DEF SourceSound, BookSound
<1>3. Append(bookCh, best) \in Seq(0..best) /\ Len(Append(bookCh, best)) = Len(bookCh) + 1
  BY <1>2, AppendProperties DEF BookSound
<1>4. bookCh' \in Seq(0..best) /\ Len(bookCh') <= BookCap
  <2>1. CASE UNCHANGED bookCh
    BY <2>1 DEF BookSound
  <2>2. CASE Len(bookCh) < BookCap /\ bookCh' = Append(bookCh, best)
    BY <1>2, <1>3, <2>2, BoundFacts
  <2> QED BY <1>1, <2>1, <2>2
<1> QED BY <1>1, <1>4 DEF BookSound

(* The task that publishes the best prices. *)
LEMMA BookNextBook == ASSUME BookSound, BookNext PROVE BookSound'
<1>1. CASE BookRecv
  <2>1. /\ bookCh # << >> /\ bookCh' = Tail(bookCh)
        /\ bookTask' = [step |-> "write", update |-> Head(bookCh)]
        /\ UNCHANGED <<processed, best, cache>>
    BY <1>1 DEF BookRecv, thread
  <2>2. /\ Head(bookCh) \in 0..best /\ Tail(bookCh) \in Seq(0..best)
        /\ Len(bookCh) \in Nat /\ Len(Tail(bookCh)) = Len(bookCh) - 1
    BY <2>1, OneOut DEF BookSound
  <2>3. Len(bookCh') <= BookCap
    BY <2>1, <2>2, BoundFacts DEF BookSound
  <2> QED BY <2>1, <2>2, <2>3 DEF BookSound
<1>2. CASE BookWrite
  <2>1. /\ cache' \in {cache, bookTask.update}
        /\ bookTask' = [bookTask EXCEPT !.step = "recv"]
        /\ UNCHANGED <<processed, best, bookCh>>
    BY <1>2 DEF BookWrite, thread
  <2> QED BY <2>1 DEF BookSound
<1>3. CASE BookClosed
  <2>1. /\ bookTask' = [bookTask EXCEPT !.step = "done"]
        /\ UNCHANGED <<processed, best, bookCh, cache>>
    BY <1>3 DEF BookClosed, thread
  <2> QED BY <2>1 DEF BookSound
<1> QED BY <1>1, <1>2, <1>3 DEF BookNext

(* It is dropped with the runtime. *)
LEMMA CancelBookBook == ASSUME BookSound, CancelBook PROVE BookSound'
<1>1. /\ cache' \in {cache, bookTask.update}
      /\ bookTask' = [bookTask EXCEPT !.step = "done"]
      /\ UNCHANGED <<processed, best, bookCh>>
  BY DEF CancelBook, thread
<1> QED BY <1>1 DEF BookSound

(* More fills arrive at a sink. *)
LEMMA SinkTyped ==
  ASSUME SinksTyped, NEW k \in {"ws", "kafka", "redis", "db"}, NEW fs \in Seq(1..made),
         sinks' = [sinks EXCEPT ![k] = @ \o fs], made' = made
  PROVE  SinksTyped'
<1>1. sinks[k] \o fs \in Seq(1..made)
  BY ConcatProperties DEF SinksTyped
<1> QED BY <1>1 DEF SinksTyped

(* The role never changes, and the other variables of the process keep their
   types. *)
LEMMA NextProcess == ASSUME ProcessSound, Next PROVE ProcessSound'
<1>1. \/ UNCHANGED failures
      \/ failures < MaxFailures /\ failures' = failures + 1
  BY DEF Next, Ingest, ConsumerNext, ConsumerSend, EngineNext, EngineRecv, EngineSendFill,
         EngineSendUpdate, EngineSave, EngineFollow, EnginePromoted, EngineClosed, FanNext,
         FanRecv, FanPublish, FanPush, FanDb, FanClosed, BookNext, BookRecv, BookWrite,
         BookClosed, WriterNext, WriterRecv, WriterTick, WriterInsert, WriterClosed,
         StreamEnds, Promote, ShutdownNext, CancelConsumer, CancelFan, CancelBook,
         CancelWriter, Exit, PromotedExit, PublishAgain, Request, Fails
<1>2. failures' \in 0..MaxFailures
  BY <1>1, BoundFacts DEF ProcessSound
<1>3. alive' \in {alive, FALSE}
  BY DEF Next, Ingest, ConsumerNext, ConsumerSend, EngineNext, EngineRecv, EngineSendFill,
         EngineSendUpdate, EngineSave, EngineFollow, EnginePromoted, EngineClosed, FanNext,
         FanRecv, FanPublish, FanPush, FanDb, FanClosed, BookNext, BookRecv, BookWrite,
         BookClosed, WriterNext, WriterRecv, WriterTick, WriterInsert, WriterClosed,
         StreamEnds, Promote, ShutdownNext, CancelConsumer, CancelFan, CancelBook,
         CancelWriter, Exit, PromotedExit, PublishAgain, thread
<1>4. /\ role' = role /\ phase' \in {phase, "closing", "exited"}
      /\ is_leader' \in {is_leader, TRUE}
  BY DEF Next, Ingest, ConsumerNext, ConsumerSend, EngineNext, EngineRecv, EngineSendFill,
         EngineSendUpdate, EngineSave, EngineFollow, EnginePromoted, EngineClosed, FanNext,
         FanRecv, FanPublish, FanPush, FanDb, FanClosed, BookNext, BookRecv, BookWrite,
         BookClosed, WriterNext, WriterRecv, WriterTick, WriterInsert, WriterClosed,
         StreamEnds, Promote, ShutdownNext, CancelConsumer, CancelFan, CancelBook,
         CancelWriter, Exit, PromotedExit, PublishAgain, process
<1> QED BY <1>2, <1>3, <1>4 DEF ProcessSound

(* The parts whose invariants a step can disturb. *)
Others == SourceSound /\ BookSound /\ FillsSound /\ SinksTyped

(* The engine thread. *)
LEMMA EngineNextOthers == ASSUME Others, EngineNext PROVE Others'
<1>1. CASE EngineRecv
  <2>1. FillsSound'
    BY <1>1, EngineRecvFills DEF Others
  <2>2. SourceSound' /\ BookSound'
    BY <1>1, TakenSource, MovedBook DEF Others, EngineRecv
  <2>3. SinksTyped'
    <3>1. \E n \in 0 .. MaxFills - made : made' = made + n
      BY <1>1 DEF EngineRecv
    <3>2. 1..made \subseteq 1..made'
      BY <3>1, FillFacts, BoundFacts DEF Others
    <3>3. sinks' = sinks
      BY <1>1 DEF EngineRecv, fillPath
    <3> QED BY <3>2, <3>3, SeqLarger DEF Others, SinksTyped
  <2> QED BY <2>1, <2>2, <2>3 DEF Others
<1>2. CASE EngineSendFill
  BY <1>2, EngineSendFillFills, Kept
  DEF Others, EngineSendFill, source, fillPath, bookPath, sourceVars, bookVars
<1>3. CASE EngineSendUpdate
  <2>1. engine' \in {"recv", "save"}
    BY <1>3 DEF EngineSendUpdate, AfterUpdate
  <2>2. FillsSound'
    BY <1>3, <2>1, EngineStepFills DEF Others, EngineSendUpdate, fillPath
  <2> QED BY <1>3, <2>2, EngineSendUpdateBook, Kept
      DEF Others, EngineSendUpdate, source, fillPath, sourceVars
<1>4. CASE EngineSave \/ EnginePromoted \/ EngineClosed
  <2>1. FillsSound'
    BY <1>4, EngineStepFills DEF Others, EngineSave, EnginePromoted, EngineClosed, fillPath
  <2> QED BY <1>4, <2>1, Kept
      DEF Others, EngineSave, EnginePromoted, EngineClosed, source, fillPath, bookPath,
          sourceVars, bookVars
<1>5. CASE EngineFollow
  BY <1>5, TakenSource, MovedBook, Kept DEF Others, EngineFollow, fillPath, fillVars
<1> QED BY <1>1, <1>2, <1>3, <1>4, <1>5 DEF EngineNext

(* The task that hands the fills to Kafka, to the clients and to the writer. *)
LEMMA FanNextOthers == ASSUME Others, FanNext PROVE Others'
<1>1. UNCHANGED sourceVars /\ UNCHANGED bookVars /\ made' = made
  BY DEF FanNext, FanRecv, FanPublish, FanPush, FanDb, FanClosed, source, thread, bookPath,
         sourceVars, bookVars
<1>2. FillsSound'
  <2>1. CASE FanRecv
    BY <2>1, FanRecvFills DEF Others
  <2>2. CASE FanPublish \/ FanPush
    BY <2>2, FanStepFills DEF Others, FillsSound, FanSound, FanPublish, FanPush, thread
  <2>3. CASE FanDb
    BY <2>3, FanDbFills DEF Others
  <2>4. CASE FanClosed
    BY <2>4, FanStepFills DEF Others, FanClosed, thread
  <2> QED BY <2>1, <2>2, <2>3, <2>4 DEF FanNext
<1>3. SinksTyped'
  <2>1. CASE FanRecv
    <3> DEFINE h == <<Head(fillCh)>>
    <3>1. fillCh # << >> /\ fan' = [step |-> "publish", hold |-> h]
          /\ sinks' = [sinks EXCEPT !.ws = @ \o fan'.hold]
      BY <2>1 DEF FanRecv
    <3>2. h \in Seq(1..made)
      BY <3>1, FillFacts, OneOut DEF Others
    <3>3. sinks' = [sinks EXCEPT !["ws"] = @ \o h]
      BY <3>1
    <3> QED BY <1>1, <3>2, <3>3, SinkTyped DEF Others
  <2>2. CASE FanPublish
    BY <1>1, <2>2, FillFacts, SinkTyped, Kept DEF Others, FanPublish, Request
  <2>3. CASE FanPush
    BY <1>1, <2>3, FillFacts, SinkTyped, Kept DEF Others, FanPush, Request
  <2>4. CASE FanDb \/ FanClosed
    BY <1>1, <2>4, Kept DEF Others, FanDb, FanClosed
  <2> QED BY <2>1, <2>2, <2>3, <2>4 DEF FanNext
<1> QED BY <1>1, <1>2, <1>3, Kept DEF Others

(* FillWriter. *)
LEMMA WriterNextOthers == ASSUME Others, WriterNext PROVE Others'
<1>1. UNCHANGED sourceVars /\ UNCHANGED bookVars /\ made' = made
  BY DEF WriterNext, WriterRecv, WriterTick, WriterInsert, WriterClosed, source, thread,
         bookPath, sourceVars, bookVars
<1>2. FillsSound'
  <2>1. WriterTick => FillsSound'
    BY WriterFlushFills DEF Others, WriterTick, thread
  <2> QED BY <2>1, WriterRecvFills, WriterInsertFills, WriterClosedFills
      DEF Others, WriterNext
<1>3. SinksTyped'
  <2>1. CASE WriterInsert
    BY <1>1, <2>1, FillFacts, SinkTyped, Kept DEF Others, WriterInsert, Request
  <2>2. CASE WriterRecv \/ WriterTick \/ WriterClosed
    BY <1>1, <2>2, Kept DEF Others, WriterRecv, WriterTick, WriterClosed
  <2> QED BY <2>1, <2>2 DEF WriterNext
<1> QED BY <1>1, <1>2, <1>3, Kept DEF Others

(* The end of main. *)
LEMMA ShutdownNextOthers == ASSUME Others, ShutdownNext PROVE Others'
<1>1. CASE CancelConsumer
  BY <1>1, CancelConsumerSource, Kept
  DEF Others, CancelConsumer, thread, bookPath, fillPath, bookVars, fillVars
<1>2. CASE CancelFan
  <2>1. /\ UNCHANGED sourceVars /\ UNCHANGED bookVars /\ made' = made
    BY <1>2 DEF CancelFan, source, thread, bookPath, sourceVars, bookVars
  <2>2. FillsSound'
    BY <1>2, FanStepFills DEF Others, CancelFan, thread
  <2>3. SinksTyped'
    BY <1>2, <2>1, FillFacts, SinkTyped, Kept DEF Others, CancelFan
  <2> QED BY <2>1, <2>2, <2>3, Kept DEF Others
<1>3. CASE CancelBook
  BY <1>3, CancelBookBook, Kept
  DEF Others, CancelBook, source, thread, fillPath, sourceVars, fillVars
<1>4. CASE CancelWriter
  <2>1. /\ UNCHANGED sourceVars /\ UNCHANGED bookVars /\ made' = made
    BY <1>4 DEF CancelWriter, source, thread, bookPath, sourceVars, bookVars
  <2>2. FillsSound'
    BY <1>4, WriterEndFills DEF Others, CancelWriter, thread
  <2>3. SinksTyped'
    BY <1>4, <2>1, FillFacts, SinkTyped, Kept DEF Others, CancelWriter
  <2> QED BY <2>1, <2>2, <2>3, Kept DEF Others
<1>5. CASE Exit \/ PromotedExit
  BY <1>5, Kept DEF Others, Exit, PromotedExit, source, thread, bookPath, fillPath,
                    sourceVars, bookVars, fillVars
<1> QED BY <1>1, <1>2, <1>3, <1>4, <1>5 DEF ShutdownNext

(* Every step of the process keeps the invariant. *)
LEMMA NextPInv == PInv /\ [Next]_vars => PInv'
<1> SUFFICES ASSUME PInv, [Next]_vars PROVE PInv'
  OBVIOUS
<1>1. Others
  BY DEF PInv, Others
<1>2. CASE UNCHANGED vars
  <2>1. ProcessSound' /\ LeaderKeepsServing'
    BY <1>2 DEF PInv, ProcessSound, LeaderKeepsServing, vars, process, source, thread,
                bookPath, fillPath
  <2> QED BY <1>1, <1>2, <2>1, Kept
      DEF PInv, Others, vars, source, thread, bookPath, fillPath, sourceVars, bookVars,
          fillVars
<1>3. CASE Next
  <2>1. CASE Ingest \/ ConsumerNext \/ ConsumerSend
    <3>1. SourceSound'
      BY <1>1, <2>1, IngestSource, ConsumerNextSource, ConsumerSendSource DEF Others
    <3>2. UNCHANGED bookVars /\ UNCHANGED fillVars /\ UNCHANGED <<made, sinks>>
      BY <2>1 DEF Ingest, ConsumerNext, ConsumerSend, thread, bookPath, fillPath, bookVars,
                  fillVars
    <3> QED BY <1>1, <1>3, <3>1, <3>2, Kept, NextServing, NextProcess DEF PInv, Others
  <2>2. CASE EngineNext \/ FanNext \/ WriterNext \/ ShutdownNext
    <3>1. Others'
      BY <1>1, <2>2, EngineNextOthers, FanNextOthers, WriterNextOthers, ShutdownNextOthers
    <3> QED BY <1>3, <3>1, NextServing, NextProcess DEF PInv, Others
  <2>3. CASE BookNext
    <3>1. UNCHANGED sourceVars /\ UNCHANGED fillVars /\ UNCHANGED <<made, sinks>>
      BY <2>3 DEF BookNext, BookRecv, BookWrite, BookClosed, source, thread, fillPath,
                  sourceVars, fillVars
    <3> QED BY <1>1, <1>3, <2>3, <3>1, Kept, BookNextBook, NextServing, NextProcess
        DEF PInv, Others
  <2>4. CASE StreamEnds \/ Promote
    <3>1. /\ UNCHANGED sourceVars /\ UNCHANGED bookVars /\ UNCHANGED fillVars
          /\ UNCHANGED <<made, sinks>>
      BY <2>4 DEF StreamEnds, Promote, source, thread, bookPath, fillPath,
                  sourceVars, bookVars, fillVars
    <3> QED BY <1>1, <1>3, <3>1, Kept, NextServing, NextProcess DEF PInv, Others
  <2>5. CASE PublishAgain
    <3>1. UNCHANGED sourceVars /\ UNCHANGED bookVars /\ UNCHANGED fillVars /\ made' = made
      BY <2>5 DEF PublishAgain, source, thread, bookPath, sourceVars, bookVars, fillVars
    <3>2. PICK i \in 1..Len(sinks.ws) : sinks' = [sinks EXCEPT !.kafka = @ \o <<sinks.ws[i]>>]
      BY <2>5 DEF PublishAgain
    <3>3. <<sinks.ws[i]>> \in Seq(1..made)
      <4>1. sinks.ws \in Seq(1..made)
        BY <1>1 DEF Others, SinksTyped
      <4>2. sinks.ws[i] \in 1..made
        BY <4>1, ElementOfSeq
      <4> QED BY <4>2
    <3>4. SinksTyped'
      BY <1>1, <3>1, <3>2, <3>3, SinkTyped DEF Others
    <3> QED BY <1>1, <1>3, <3>1, <3>4, Kept, NextServing, NextProcess DEF PInv, Others
  <2> QED BY <1>3, <2>1, <2>2, <2>3, <2>4, <2>5 DEF Next
<1> QED BY <1>2, <1>3

(* All channels are empty when the process starts. *)
LEMMA InitPInv == Init => PInv
<1> SUFFICES ASSUME Init PROVE PInv
  OBVIOUS
<1>1. \A S : << >> \in Seq(S) /\ Len(<< >>) = 0
  OBVIOUS
<1>2. ProcessSound
  BY BoundFacts DEF Init, ProcessSound
<1>3. SourceSound
  BY <1>1, BoundFacts DEF Init, SourceSound, OrdersCounted
<1>4. BookSound
  BY <1>1, BoundFacts DEF Init, BookSound, Spawned
<1>5. FillsSound
  <2>1. fan \in FanType /\ writer \in WriterType
    BY <1>1 DEF Init, FanType, WriterType, Spawned
  <2>2. /\ fan.hold = << >> /\ writer.buf = << >> /\ writer.batch = << >>
        /\ fan.step \in {"recv", "done"} /\ writer.step \in {"recv", "done"}
    BY DEF Init, Spawned
  <2>3. EngineSound /\ FanSound /\ WriterSound /\ FillsCounted
    BY <1>1, <2>2, BoundFacts
    DEF Init, EngineSound, FanSound, WriterSound, FillsCounted, Begun, InHand
  <2>4. /\ made \in 0..MaxFills /\ {out, fillCh, dbCh, settled} \subseteq Seq(1..made)
        /\ Len(fillCh) <= FillCap /\ Len(dbCh) <= DbCap /\ engine = "recv"
    BY <1>1, BoundFacts DEF Init
  <2> QED BY <2>1, <2>3, <2>4 DEF FillsSound
<1>6. SinksTyped
  BY <1>1 DEF Init, SinksTyped
<1>7. LeaderKeepsServing
  BY DEF Init, LeaderKeepsServing, Spawned
<1> QED BY <1>2, <1>3, <1>4, <1>5, <1>6, <1>7 DEF PInv

(* The invariant holds in every state of every run of the process. *)
THEOREM PipelineInvariance == Spec => []PInv
BY InitPInv, NextPInv, PTL DEF Spec

(* Type correctness: in particular no channel exceeds its capacity. *)
THEOREM PipelineTypes == Spec => []TypeOK
BY PipelineInvariance, PInvTypes, PTL

(* As long as the update stream of a leader is up, no failure of Kafka, Redis or
   Postgres ends the engine thread or one of its tasks. *)
THEOREM Serving == Spec => []LeaderKeepsServing
<1>1. PInv => LeaderKeepsServing
  BY DEF PInv
<1> QED BY <1>1, PipelineInvariance, PTL
-----------------------------------------------------------------------------
(* Concatenation is associative; under a name of its own, so that the provers use
   no more of it than that. *)
Cat(s, t) == s \o t

(* What is sent, queued and written can be put together in either order. *)
LEMMA CatAssociative ==
  ASSUME NEW S, NEW s \in Seq(S), NEW t \in Seq(S), NEW u \in Seq(S)
  PROVE  Cat(s, t) \in Seq(S) /\ Cat(Cat(s, t), u) = Cat(s, Cat(t, u))
<1>1. s \o t \in Seq(S)
  OBVIOUS
<1>2. (s \o t) \o u = s \o (t \o u)
  OBVIOUS
<1> QED BY <1>1, <1>2 DEF Cat

(* A fill that moves from the front of one place to the end of the next keeps its
   rank. *)
LEMMA MovesOn ==
  ASSUME NEW S, NEW a \in Seq(S), NEW f \in Seq(S), NEW g \in Seq(S), g # << >>
  PROVE  (a \o f) \o g = (a \o Append(f, Head(g))) \o Tail(g)
<1> DEFINE x == <<Head(g)>>
           t == Tail(g)
<1>1. x \in Seq(S) /\ t \in Seq(S)
  BY OneOut
<1>2. g = Cat(x, t) /\ Append(f, Head(g)) = Cat(f, x)
  BY OneOut DEF Cat
<1> HIDE DEF x, t
<1>3. Cat(a, f) \in Seq(S)
  BY CatAssociative
<1>4. Cat(Cat(Cat(a, f), x), t) = Cat(Cat(a, f), Cat(x, t))
  BY <1>1, <1>3, CatAssociative
<1>5. Cat(Cat(a, f), x) = Cat(a, Cat(f, x))
  BY <1>1, CatAssociative
<1>6. Cat(Cat(a, f), g) = Cat(Cat(a, Append(f, Head(g))), t)
  BY <1>2, <1>4, <1>5
<1> QED BY <1>6 DEF Cat, t

(* The front of six sequences in a row can be split off. *)
LEMMA Regroup ==
  ASSUME NEW S, NEW e \in Seq(S), NEW u \in Seq(S), NEW d \in Seq(S),
         NEW h \in Seq(S), NEW f \in Seq(S), NEW o \in Seq(S)
  PROVE  Cat(Cat(Cat(Cat(Cat(e, u), d), h), f), o)
         = Cat(e, Cat(Cat(Cat(Cat(u, d), h), f), o))
<1>1. /\ Cat(u, d) \in Seq(S)
      /\ Cat(Cat(u, d), h) \in Seq(S)
      /\ Cat(Cat(Cat(u, d), h), f) \in Seq(S)
  BY CatAssociative
<1>2. Cat(Cat(e, u), d) = Cat(e, Cat(u, d))
  BY CatAssociative
<1>3. Cat(Cat(e, Cat(u, d)), h) = Cat(e, Cat(Cat(u, d), h))
  BY <1>1, CatAssociative
<1>4. Cat(Cat(e, Cat(Cat(u, d), h)), f) = Cat(e, Cat(Cat(Cat(u, d), h), f))
  BY <1>1, CatAssociative
<1>5. Cat(Cat(e, Cat(Cat(Cat(u, d), h), f)), o) = Cat(e, Cat(Cat(Cat(Cat(u, d), h), f), o))
  BY <1>1, CatAssociative
<1> QED BY <1>2, <1>3, <1>4, <1>5

(* All the places between the engine and Postgres, the last one first. *)
Way == writer.batch \o writer.buf \o dbCh \o fan.hold \o fillCh \o out

(* The queue holds what is made and not settled. *)
LEMMA WayFacts ==
  ASSUME FillsSound
  PROVE  Way \in Seq(1..made) /\ Len(Way) \in Nat /\ Len(settled) + Len(Way) = made
<1> DEFINE b == writer.batch
           u == writer.buf
           d == dbCh
           h == fan.hold
           f == fillCh
           o == out
           S == Seq(1..made)
<1>1. b \in S /\ u \in S /\ d \in S /\ h \in S /\ f \in S /\ o \in S
  BY FillFacts
<1>2. Way = b \o u \o d \o h \o f \o o
  BY DEF Way
<1>3. /\ Len(settled) \in Nat /\ Len(b) \in Nat /\ Len(u) \in Nat /\ Len(d) \in Nat
      /\ Len(h) \in Nat /\ Len(f) \in Nat /\ Len(o) \in Nat
  BY FillFacts
<1>4. made = Len(settled) + Len(b) + Len(u) + Len(d) + Len(h) + Len(f) + Len(o)
  BY DEF FillsSound, FillsCounted, Begun, InHand
<1> HIDE DEF b, u, d, h, f, o
<1>5. b \o u \in S /\ Len(b \o u) = Len(b) + Len(u)
  BY <1>1, ConcatProperties
<1>6. b \o u \o d \in S /\ Len(b \o u \o d) = Len(b \o u) + Len(d)
  BY <1>1, <1>5, ConcatProperties
<1>7. b \o u \o d \o h \in S /\ Len(b \o u \o d \o h) = Len(b \o u \o d) + Len(h)
  BY <1>1, <1>6, ConcatProperties
<1>8. /\ b \o u \o d \o h \o f \in S
      /\ Len(b \o u \o d \o h \o f) = Len(b \o u \o d \o h) + Len(f)
  BY <1>1, <1>7, ConcatProperties
<1>9. /\ b \o u \o d \o h \o f \o o \in S
      /\ Len(b \o u \o d \o h \o f \o o) = Len(b \o u \o d \o h \o f) + Len(o)
  BY <1>1, <1>8, ConcatProperties
<1>10. Len(Way) = Len(b) + Len(u) + Len(d) + Len(h) + Len(f) + Len(o)
  BY <1>2, <1>5, <1>6, <1>7, <1>8, <1>9
<1>11. Len(Way) \in Nat /\ Len(settled) + Len(Way) = made
  <2> DEFINE l1 == Len(b)
             l2 == Len(u)
             l3 == Len(d)
             l4 == Len(h)
             l5 == Len(f)
             l6 == Len(o)
             l0 == Len(settled)
  <2>1. /\ l0 \in Nat /\ l1 \in Nat /\ l2 \in Nat /\ l3 \in Nat /\ l4 \in Nat
        /\ l5 \in Nat /\ l6 \in Nat
        /\ made = l0 + l1 + l2 + l3 + l4 + l5 + l6
        /\ Len(Way) = l1 + l2 + l3 + l4 + l5 + l6
    BY <1>3, <1>4, <1>10
  <2> HIDE DEF l0, l1, l2, l3, l4, l5, l6
  <2>2. Len(Way) \in Nat /\ l0 + Len(Way) = made
    BY <2>1
  <2> QED BY <2>2 DEF l0
<1> QED BY <1>2, <1>9, <1>11

(* process_order puts its fills, numbered on, at the end of the queue. *)
LEMMA EngineRecvEmits ==
  ASSUME FillsSound, EngineRecv
  PROVE  Queue!Emit /\ Len(Way') \in Nat
<1>1. PICK n \in 0 .. MaxFills - made :
        made' = made + n /\ out' = [i \in 1..n |-> made + i]
  BY DEF EngineRecv
<1>2. engine = "recv" /\ UNCHANGED <<fillCh, fan, dbCh, writer, settled>>
  BY DEF EngineRecv, fillPath
<1> DEFINE a == writer.batch \o writer.buf \o dbCh \o fan.hold \o fillCh
<1>3. Way = a /\ a \in Seq(1..made)
  <2>1. a \in Seq(1..made)
    BY FillFacts, ConcatProperties
  <2>2. out = << >>
    BY <1>2 DEF FillsSound, EngineSound
  <2>3. Way = a \o out
    BY DEF Way
  <2> HIDE DEF a
  <2> QED BY <2>1, <2>2, <2>3, ConcatEmptySeq
<1>4. Way' = a \o out'
  BY <1>2 DEF Way
<1> HIDE DEF a
<1>5. n \in Nat /\ out' \in Seq(Nat) /\ Len(out') = n /\ a \in Seq(Nat)
  <2>1. made \in Nat /\ MaxFills \in Nat
    BY FillFacts, BoundFacts
  <2>2. n \in Nat /\ out' \in Seq(Nat) /\ Len(out') = n
    BY <1>1, <2>1
  <2>3. 1..made \subseteq Nat
    OBVIOUS
  <2> QED BY <1>3, <2>2, <2>3, SeqLarger
<1>6. Len(Way') = Len(Way) + n /\ Len(Way) \in Nat
  BY <1>3, <1>4, <1>5, ConcatProperties, LenProperties
<1>7. Len(Way') \in Nat /\ Len(Way') >= Len(Way) /\ Len(Way') - Len(Way) = n
  BY <1>5, <1>6
<1>8. Queue!Numbered(Len(settled) + Len(Way), Len(Way') - Len(Way)) = out'
  <2>1. Len(settled) + Len(Way) = made
    BY WayFacts
  <2> QED BY <1>1, <1>7, <2>1 DEF Queue!Numbered
<1>9. Way' = Way \o out' /\ settled' = settled
  BY <1>2, <1>3, <1>4
<1> QED BY <1>7, <1>8, <1>9 DEF Queue!Emit, Way

(* insert_batch takes its batch off the front. *)
LEMMA WriterInsertSettles ==
  ASSUME FillsSound, WriterInsert
  PROVE  Queue!Settle
<1> DEFINE b == writer.batch
           r == writer.buf \o dbCh \o fan.hold \o fillCh \o out
           S == Seq(1..made)
<1>1. /\ writer.step \in {"insert", "last"} /\ settled' = settled \o b
      /\ writer' = [writer EXCEPT !.step = IF @ = "last" THEN "done" ELSE "recv",
                                  !.batch = << >>]
      /\ UNCHANGED <<engine, made, out, fillCh, fan, dbCh>>
  BY DEF WriterInsert, thread
<1>2. writer'.batch = << >> /\ writer'.buf = writer.buf
  BY <1>1 DEF FillsSound, WriterType
<1>3. b \in S /\ b # << >> /\ Len(b) \in Nat \ {0}
  BY <1>1, FillFacts, EmptySeq DEF FillsSound, WriterSound
<1>4. r \in S /\ Way = b \o r /\ Way' = << >> \o r
  <2> DEFINE u == writer.buf
             d == dbCh
             h == fan.hold
             f == fillCh
             o == out
  <2>1. u \in S /\ d \in S /\ h \in S /\ f \in S /\ o \in S /\ << >> \in S
    BY FillFacts
  <2>2. \A e \in S : e \o u \o d \o h \o f \o o = e \o (u \o d \o h \o f \o o)
    <3> HIDE DEF u, d, h, f, o
    <3> TAKE e \in S
    <3>1. Cat(Cat(Cat(Cat(Cat(e, u), d), h), f), o)
          = Cat(e, Cat(Cat(Cat(Cat(u, d), h), f), o))
      BY <2>1, Regroup
    <3> QED BY <3>1 DEF Cat
  <2>3. Way = b \o u \o d \o h \o f \o o
    BY DEF Way
  <2>4. Way' = << >> \o u \o d \o h \o f \o o
    BY <1>1, <1>2 DEF Way
  <2>5. r \in S
    BY <2>1, ConcatProperties
  <2> QED BY <1>3, <2>1, <2>2, <2>3, <2>4, <2>5
<1> HIDE DEF b, r
<1>5. Way' = r /\ Len(r) \in Nat
  BY <1>4, ConcatEmptySeq, LenProperties
<1>6. Len(Way) = Len(b) + Len(r)
  BY <1>3, <1>4, ConcatProperties
<1> DEFINE n == Len(b)
<1>7. n \in 1..Len(Way)
  BY <1>3, <1>5, <1>6
<1>8. SubSeq(Way, 1, n) = b
  <2>1. SubSeq(b \o r, 1, n) = SubSeq(b, 1, n)
    BY <1>3, <1>4, SubSeqOfConcat1
  <2>2. SubSeq(b, 1, n) = b
    BY <1>3, SubSeqFull
  <2> QED BY <1>4, <2>1, <2>2
<1>9. SubSeq(Way, n + 1, Len(Way)) = r
  <2>1. CASE r = << >>
    <3>1. Len(Way) < n + 1 /\ n + 1 \in Int /\ Len(Way) \in Int
      BY <1>3, <1>6, <2>1
    <3> QED BY <2>1, <3>1, SubSeqEmpty
  <2>2. CASE r # << >>
    <3> DEFINE m == Len(r)
    <3>1. m \in Nat \ {0}
      BY <1>4, <2>2, EmptySeq, LenProperties
    <3>2. n \in Nat /\ Len(Way) = n + m
      BY <1>3, <1>6
    <3> HIDE DEF n, m
    <3>3. n + 1 \in n+1 .. n+m /\ n + m \in n+1 .. n+m /\ (n + 1) - n = 1 /\ (n + m) - n = m
      BY <3>1, <3>2
    <3>4. SubSeq(b \o r, n + 1, n + m) = SubSeq(r, (n + 1) - n, (n + m) - n)
      BY <1>3, <1>4, <3>3, SubSeqOfConcat2 DEF n, m
    <3>5. SubSeq(r, 1, m) = r
      BY <1>4, SubSeqFull DEF m
    <3> QED BY <1>4, <3>2, <3>3, <3>4, <3>5
  <2> QED BY <2>1, <2>2
<1> HIDE DEF n
<1>10. settled' = settled \o SubSeq(Way, 1, n)
  BY <1>1, <1>8 DEF b
<1>11. Way' = SubSeq(Way, n + 1, Len(Way))
  BY <1>5, <1>9
<1> QED BY <1>7, <1>10, <1>11 DEF Queue!Settle, Way

(* A fill that is sent goes from what the engine has left to the fill channel. *)
LEMMA EngineSendFillKeeps ==
  ASSUME FillsSound, EngineSendFill
  PROVE  UNCHANGED <<Way, settled>>
<1>1. engine = "fill" /\ UNCHANGED <<fan, dbCh, writer, settled>>
  BY DEF EngineSendFill, fillPath
<1>2. CASE UNCHANGED <<out, fillCh>>
  BY <1>1, <1>2 DEF Way
<1>3. CASE fillCh' = Append(fillCh, Head(out)) /\ out' = Tail(out)
  <2> DEFINE a == writer.batch \o writer.buf \o dbCh \o fan.hold
             S == 1..made
  <2>1. a \in Seq(S) /\ fillCh \in Seq(S) /\ out \in Seq(S)
    BY FillFacts, ConcatProperties
  <2>2. out # << >>
    BY <1>1 DEF FillsSound, EngineSound
  <2>3. Way = (a \o fillCh) \o out /\ Way' = (a \o Append(fillCh, Head(out))) \o Tail(out)
    BY <1>1, <1>3 DEF Way
  <2> HIDE DEF a, S
  <2>4. (a \o fillCh) \o out = (a \o Append(fillCh, Head(out))) \o Tail(out)
    BY <2>1, <2>2, MovesOn
  <2>5. Way' = Way
    BY <2>3, <2>4
  <2> QED BY <1>1, <2>5
<1> QED BY <1>2, <1>3 DEF EngineSendFill

(* A fill that the fan-out task receives goes from the channel to its hand. *)
LEMMA FanRecvKeeps ==
  ASSUME FillsSound, FanRecv
  PROVE  UNCHANGED <<Way, settled>>
<1>1. /\ fan.step = "recv" /\ fillCh # << >>
      /\ fan' = [step |-> "publish", hold |-> <<Head(fillCh)>>] /\ fillCh' = Tail(fillCh)
      /\ UNCHANGED <<out, dbCh, writer, settled>>
  BY DEF FanRecv, thread
<1>2. fan.hold = << >> /\ fan'.hold = <<Head(fillCh)>>
  BY <1>1 DEF FillsSound, FanSound
<1> DEFINE a == writer.batch \o writer.buf \o dbCh
           S == 1..made
<1>3. a \in Seq(S) /\ fillCh \in Seq(S) /\ << >> \in Seq(S)
  BY FillFacts, ConcatProperties
<1>4. /\ Way = ((a \o << >>) \o fillCh) \o out
      /\ Way' = ((a \o <<Head(fillCh)>>) \o Tail(fillCh)) \o out
  BY <1>1, <1>2 DEF Way
<1> HIDE DEF a
<1>5. Append(<< >>, Head(fillCh)) = <<Head(fillCh)>>
  OBVIOUS
<1>6. (a \o << >>) \o fillCh = (a \o Append(<< >>, Head(fillCh))) \o Tail(fillCh)
  BY <1>1, <1>3, MovesOn
<1>7. Way' = Way
  BY <1>4, <1>5, <1>6
<1> QED BY <1>1, <1>7

(* A fill that the fan-out task sends on goes from its hand to the writer's
   channel. *)
LEMMA FanDbKeeps ==
  ASSUME FillsSound, FanDb
  PROVE  UNCHANGED <<Way, settled>>
<1>1. UNCHANGED <<out, fillCh, writer, settled>>
  BY DEF FanDb, thread
<1>2. CASE fan' = [fan EXCEPT !.step = "done"] /\ UNCHANGED dbCh
  <2>1. fan'.hold = fan.hold
    BY <1>2 DEF FillsSound, FanType
  <2> QED BY <1>1, <1>2, <2>1 DEF Way
<1>3. CASE dbCh' = dbCh \o fan.hold /\ fan' = [step |-> "recv", hold |-> << >>]
  <2> DEFINE a == writer.batch \o writer.buf
             S == 1..made
             d == dbCh
             h == fan.hold
  <2>1. a \in Seq(S) /\ d \in Seq(S) /\ h \in Seq(S)
    BY FillFacts, ConcatProperties
  <2>2. /\ Way = ((a \o d) \o h) \o fillCh \o out
        /\ Way' = ((a \o (d \o h)) \o << >>) \o fillCh \o out
    BY <1>1, <1>3 DEF Way
  <2> HIDE DEF a, d, h
  <2>3. Cat(Cat(a, d), h) = Cat(a, Cat(d, h)) /\ Cat(a, Cat(d, h)) \in Seq(S)
    BY <2>1, CatAssociative
  <2>4. (a \o d) \o h = a \o (d \o h) /\ a \o (d \o h) \in Seq(S)
    BY <2>3 DEF Cat
  <2>5. (a \o (d \o h)) \o << >> = a \o (d \o h)
    BY <2>4, ConcatEmptySeq
  <2>6. Way' = Way
    BY <2>2, <2>4, <2>5
  <2> QED BY <1>1, <2>6
<1> QED BY <1>2, <1>3 DEF FanDb

(* What the writer task receives, buffers and drains keeps its order. *)
LEMMA WriterKeeps ==
  ASSUME FillsSound, WriterRecv \/ WriterTick \/ WriterClosed
  PROVE  UNCHANGED <<Way, settled>>
<1> DEFINE S == 1..made
           u == writer.buf
           w == writer
<1>1. writer.step = "recv" /\ UNCHANGED <<out, fillCh, fan, settled>>
  BY DEF WriterRecv, WriterTick, WriterClosed, thread
<1>2. writer.batch = << >> /\ u \in Seq(S) /\ dbCh \in Seq(S) /\ << >> \in Seq(S)
  BY <1>1, FillFacts DEF FillsSound, WriterSound
<1>3. Way = (((<< >> \o u) \o dbCh) \o fan.hold) \o fillCh \o out
  BY <1>2 DEF Way
<1>4. Way' = (((writer'.batch \o writer'.buf) \o dbCh') \o fan.hold) \o fillCh \o out
  BY <1>1 DEF Way
<1>5. << >> \o u = u /\ u \o << >> = u
  <2> HIDE DEF u
  <2> QED BY <1>2, ConcatEmptySeq
<1>6. CASE WriterRecv
  <2> DEFINE v == Append(u, Head(dbCh))
  <2>1. dbCh # << >> /\ dbCh' = Tail(dbCh)
        /\ writer' = IF Len(v) >= BatchSize THEN Flush(v, "insert")
                     ELSE [writer EXCEPT !.buf = v]
    BY <1>6 DEF WriterRecv
  <2>2. v \in Seq(S)
    <3> HIDE DEF u
    <3>1. Head(dbCh) \in S
      BY <1>2, <2>1, OneOut
    <3> QED BY <1>2, <3>1
  <2>3. << >> \o v = v /\ v \o << >> = v
    <3> HIDE DEF v
    <3> QED BY <2>2, ConcatEmptySeq
  <2>4. writer'.batch \o writer'.buf = v
    <3> HIDE DEF v
    <3>1. CASE writer' = Flush(v, "insert")
      BY <2>3, <3>1 DEF Flush
    <3>2. CASE writer' = [writer EXCEPT !.buf = v]
      <4>1. writer'.batch = << >> /\ writer'.buf = v
        BY <1>2, <3>2 DEF FillsSound, WriterType
      <4> QED BY <2>3, <4>1
    <3> QED BY <2>1, <3>1, <3>2
  <2>5. (<< >> \o u) \o dbCh = (<< >> \o v) \o Tail(dbCh)
    <3> HIDE DEF u
    <3> QED BY <1>2, <2>1, MovesOn
  <2> HIDE DEF u, v
  <2>6. Way' = Way
    BY <1>3, <1>4, <2>1, <2>3, <2>4, <2>5
  <2> QED BY <1>1, <2>6
<1>7. CASE WriterTick \/ WriterClosed
  <2>1. dbCh' = dbCh
    BY <1>7 DEF WriterTick, WriterClosed
  <2>2. \/ writer' = Flush(u, "insert") \/ writer' = Flush(u, "last")
        \/ writer' = [writer EXCEPT !.step = "done"]
    BY <1>7 DEF WriterTick, WriterClosed
  <2>3. writer'.batch \o writer'.buf = u
    <3>1. CASE writer' = Flush(u, "insert") \/ writer' = Flush(u, "last")
      <4> HIDE DEF u
      <4>1. writer'.batch = u /\ writer'.buf = << >>
        BY <3>1 DEF Flush
      <4> QED BY <1>5, <4>1
    <3>2. CASE writer' = [writer EXCEPT !.step = "done"]
      <4>1. writer'.batch = << >> /\ writer'.buf = u
        BY <1>2, <3>2 DEF FillsSound, WriterType
      <4> QED BY <1>5, <4>1
    <3> QED BY <2>2, <3>1, <3>2
  <2> HIDE DEF u
  <2>4. Way' = Way
    BY <1>3, <1>4, <1>5, <2>1, <2>3
  <2> QED BY <1>1, <2>4
<1> QED BY <1>6, <1>7

(* The places of the fills change in no other way: a task that makes a request, or
   is dropped, keeps what it holds. *)
LEMMA PlacesKept ==
  ASSUME FillsSound,
         UNCHANGED <<out, fillCh, dbCh, settled>>,
         \/ UNCHANGED <<fan, writer>>
         \/ \E step : fan' = [fan EXCEPT !.step = step] /\ UNCHANGED writer
         \/ writer' = [writer EXCEPT !.step = "done"] /\ UNCHANGED fan
  PROVE  UNCHANGED <<Way, settled>>
<1>1. /\ fan'.hold = fan.hold
      /\ writer'.buf = writer.buf /\ writer'.batch = writer.batch
  BY DEF FillsSound, FanType, WriterType
<1> QED BY <1>1 DEF Way

(* Every step of the process is a step of the queue or leaves it alone. *)
LEMMA NextQueue ==
  ASSUME PInv, [Next]_vars
  PROVE  (Queue!Emit /\ Len(Way') \in Nat) \/ Queue!Settle \/ UNCHANGED <<Way, settled>>
<1>1. FillsSound
  BY DEF PInv
<1>3. CASE EngineRecv
  BY <1>1, <1>3, EngineRecvEmits
<1>4. CASE WriterInsert
  BY <1>1, <1>4, WriterInsertSettles
<1>5. CASE EngineSendFill \/ FanRecv \/ FanDb \/ WriterRecv \/ WriterTick \/ WriterClosed
  BY <1>1, <1>5, EngineSendFillKeeps, FanRecvKeeps, FanDbKeeps, WriterKeeps
<1>6. CASE FanPublish \/ FanPush \/ FanClosed \/ CancelFan
  <2>1. /\ UNCHANGED <<out, fillCh, dbCh, settled, writer>>
        /\ \E step : fan' = [fan EXCEPT !.step = step]
    BY <1>6 DEF FanPublish, FanPush, FanClosed, CancelFan, thread
  <2> QED BY <1>1, <2>1, PlacesKept
<1>7. CASE CancelWriter
  BY <1>1, <1>7, PlacesKept DEF CancelWriter, thread
<1>8. CASE \/ Ingest \/ ConsumerNext \/ ConsumerSend \/ EngineSendUpdate \/ EngineSave
           \/ EngineFollow \/ EnginePromoted \/ EngineClosed \/ BookNext \/ StreamEnds
           \/ Promote \/ CancelConsumer \/ CancelBook \/ Exit \/ PromotedExit
           \/ PublishAgain \/ UNCHANGED vars
  <2>1. UNCHANGED <<out, fillCh, dbCh, settled, fan, writer>>
    BY <1>8 DEF Ingest, ConsumerNext, ConsumerSend, EngineSendUpdate, EngineSave, EngineFollow,
                EnginePromoted, EngineClosed, BookNext, BookRecv, BookWrite, BookClosed,
                StreamEnds, Promote, CancelConsumer, CancelBook, Exit, PromotedExit,
                PublishAgain, vars, thread, fillPath
  <2> QED BY <1>1, <2>1, PlacesKept
<1> QED BY <1>3, <1>4, <1>5, <1>6, <1>7, <1>8
    DEF Next, EngineNext, FanNext, WriterNext, ShutdownNext

(* No fill is on its way when the process starts. *)
LEMMA InitQueue == Init => Queue!QueueInit
<1> SUFFICES ASSUME Init PROVE Queue!QueueInit
  OBVIOUS
<1>1. /\ writer.batch = << >> /\ writer.buf = << >> /\ fan.hold = << >>
      /\ dbCh = << >> /\ fillCh = << >> /\ out = << >> /\ settled = << >>
  BY DEF Init
<1>2. << >> \o << >> = << >>
  OBVIOUS
<1> QED BY <1>1, <1>2 DEF Queue!QueueInit

(* The fill channel, the hand of the fan-out task, the channel to FillWriter, its
   buffer and its batch are one queue, whatever their capacities: no fill is lost,
   doubled or overtaken between the engine and the settling of its batch. *)
THEOREM OneQueue == Spec => ImplementsFillQueue
<1>1. Init => Queue!QueueInit
  BY InitQueue
<1>2. PInv /\ [Next]_vars => [Queue!QueueNext]_(Queue!queueVars)
  BY NextQueue DEF Queue!QueueNext, Queue!queueVars, Way
<1> QED BY <1>1, <1>2, PipelineInvariance, PTL
    DEF Spec, ImplementsFillQueue, Queue!QueueSpec
-----------------------------------------------------------------------------
(* s is the run of the fills after the n-th. *)
Run(s, n) == \A i \in 1..Len(s) : s[i] = n + i

(* s lists fills in order, and none after the n-th. *)
UpTo(s, n) == Increasing(s) /\ \A i \in 1..Len(s) : s[i] <= n

(* The fills between the engine and Postgres follow those that are settled, in the
   order they were made. *)
InOrder == Run(settled \o Way, 0)

(* The WebSocket clients are told of every fill the fan-out task has taken. *)
WsSound ==
  /\ Len(sinks.ws) + Len(fillCh) + Len(out) = made
  /\ Run(sinks.ws, 0)

(* What fills-out and Redis have: a request under way has not arrived, unless its
   task was dropped; what they lack, a request of its own failed for. *)
Published == Past({"push", "db", "done"})
Pushed == Past({"db", "done"})

(* The places of s that come after a fill made later, or after the same fill. *)
Late(s) == {i \in 1..Len(s) : \E j \in 1 .. i - 1 : s[j] >= s[i]}

(* The records of fills-out that are late whatever their partition, and the one
   under way if a repeated request has overtaken it. *)
Behind(s, n) == \E j \in 1..Len(s) : s[j] >= n
LateRecords ==
  Cardinality(Late(sinks.kafka))
  + (IF fan.step = "publish" /\ Behind(sinks.kafka, Len(sinks.ws)) THEN 1 ELSE 0)

FanSinksSound ==
  /\ \A i \in 1..Len(sinks.kafka) : sinks.kafka[i] <= Len(sinks.ws)
  /\ UpTo(sinks.redis, Pushed)
  /\ LateRecords <= failures
  /\ phase = "running" =>
       LateRecords + Cardinality(Lacking(sinks.kafka, Published))
       + Cardinality(Lacking(sinks.redis, Pushed)) <= failures

(* What Postgres has, and the fills of the batches that failed. *)
Inserted == Len(settled) + (IF writer.step = "done" THEN Len(writer.batch) ELSE 0)

DbSound ==
  /\ UpTo(sinks.db, Inserted)
  /\ phase = "running" => Cardinality(Lacking(sinks.db, Inserted)) <= BatchSize * failures

(* The inductive invariant of the sinks, given that of the process. *)
SInv == InOrder /\ WsSound /\ FanSinksSound /\ DbSound
-----------------------------------------------------------------------------
(* A part of a run is a run. *)
LEMMA RunParts ==
  ASSUME NEW s \in Seq(Nat), NEW t \in Seq(Nat), NEW n \in Nat
  PROVE  Run(s \o t, n) <=> Run(s, n) /\ Run(t, n + Len(s))
<1> DEFINE a == Len(s)
           b == Len(t)
           c == s \o t
<1>1. a \in Nat /\ b \in Nat /\ Len(c) = a + b
      /\ \A i \in 1 .. a + b : c[i] = IF i <= a THEN s[i] ELSE t[i - a]
  BY ConcatProperties, LenProperties
<1>2. ASSUME Run(c, n) PROVE Run(s, n) /\ Run(t, n + a)
  <2>1. \A i \in 1 .. a + b : c[i] = n + i
    BY <1>1, <1>2 DEF Run
  <2> HIDE DEF a, b, c
  <2>2. \A i \in 1..a : s[i] = n + i
    BY <1>1, <2>1
  <2>3. ASSUME NEW i \in 1..b PROVE t[i] = n + a + i
    <3>1. a + i \in 1 .. a + b /\ ~(a + i <= a) /\ (a + i) - a = i
      BY <1>1
    <3>2. c[a + i] = t[(a + i) - a] /\ c[a + i] = n + (a + i)
      BY <1>1, <2>1, <3>1
    <3> QED BY <1>1, <3>1, <3>2
  <2> QED BY <2>2, <2>3 DEF Run, a, b
<1>3. ASSUME Run(s, n), Run(t, n + a) PROVE Run(c, n)
  <2>1. (\A i \in 1..a : s[i] = n + i) /\ (\A i \in 1..b : t[i] = n + a + i)
    BY <1>3 DEF Run
  <2> HIDE DEF a, b, c
  <2>2. ASSUME NEW i \in 1 .. a + b PROVE c[i] = n + i
    <3>1. CASE i <= a
      BY <1>1, <2>1, <3>1
    <3>2. CASE ~(i <= a)
      <4>1. i - a \in 1..b /\ n + a + (i - a) = n + i
        BY <1>1, <3>2
      <4> QED BY <1>1, <2>1, <3>2, <4>1
    <3> QED BY <3>1, <3>2
  <2> QED BY <1>1, <2>2 DEF Run
<1> QED BY <1>2, <1>3

(* A sink to which the next fills are added keeps its order. *)
LEMMA UpToRun ==
  ASSUME NEW s \in Seq(Nat), NEW t \in Seq(Nat), NEW n \in Nat, UpTo(s, n), Run(t, n)
  PROVE  UpTo(s \o t, n + Len(t))
<1> DEFINE a == Len(s)
           b == Len(t)
           c == s \o t
<1>1. a \in Nat /\ b \in Nat /\ Len(c) = a + b
      /\ \A i \in 1 .. a + b : c[i] = IF i <= a THEN s[i] ELSE t[i - a]
  BY ConcatProperties, LenProperties
<1>2. /\ \A i \in 1 .. a - 1 : s[i] < s[i + 1]
      /\ \A i \in 1..a : s[i] <= n
      /\ \A i \in 1..b : t[i] = n + i
  BY DEF UpTo, Increasing, Run
<1>3. \A i \in 1..a : s[i] \in Nat
  BY ElementOfSeq
<1> HIDE DEF a, b, c
<1>4. ASSUME NEW i \in 1 .. a + b
      PROVE  c[i] \in Nat /\ c[i] <= n + b /\ (i > a => c[i] = n + i - a)
                          /\ (i <= a => c[i] = s[i])
  <2>1. CASE i <= a
    BY <1>1, <1>2, <1>3, <2>1
  <2>2. CASE ~(i <= a)
    <3>1. i - a \in 1..b /\ c[i] = t[i - a]
      BY <1>1, <2>2
    <3>2. c[i] = n + (i - a)
      BY <1>2, <3>1
    <3> QED BY <1>1, <2>2, <3>1, <3>2
  <2> QED BY <2>1, <2>2
<1>5. ASSUME NEW i \in 1 .. (a + b) - 1 PROVE c[i] < c[i + 1]
  <2>1. i \in 1 .. a + b /\ i + 1 \in 1 .. a + b
    BY <1>1
  <2>2. CASE i + 1 <= a
    <3>1. i \in 1 .. a - 1 /\ c[i] = s[i] /\ c[i + 1] = s[i + 1]
      BY <1>1, <1>4, <2>1, <2>2
    <3> QED BY <1>2, <3>1
  <2>3. CASE ~(i + 1 <= a) /\ i <= a
    <3>1. i = a /\ c[i] = s[i] /\ c[i + 1] = n + (i + 1) - a
      BY <1>1, <1>4, <2>1, <2>3
    <3>2. s[i] \in Nat /\ s[i] <= n
      BY <1>2, <1>3, <2>3
    <3> QED BY <1>1, <3>1, <3>2
  <2>4. CASE ~(i <= a)
    <3>1. c[i] = n + i - a /\ c[i + 1] = n + (i + 1) - a
      BY <1>1, <1>4, <2>1, <2>4
    <3> QED BY <1>1, <3>1
  <2> QED BY <2>2, <2>3, <2>4
<1>6. \A i \in 1 .. Len(c) - 1 : c[i] < c[i + 1]
  BY <1>1, <1>5
<1>7. \A i \in 1..Len(c) : c[i] <= n + b
  BY <1>1, <1>4
<1> QED BY <1>6, <1>7 DEF UpTo, Increasing, b, c

(* ... and a bound may grow. *)
LEMMA UpToMore ==
  ASSUME NEW s \in Seq(Nat), NEW n \in Nat, NEW m \in Nat, UpTo(s, n), n <= m
  PROVE  UpTo(s, m)
<1>1. \A i \in 1..Len(s) : s[i] \in Nat /\ s[i] <= n
  BY ElementOfSeq DEF UpTo
<1>2. \A i \in 1..Len(s) : s[i] <= m
  BY <1>1
<1> QED BY <1>2 DEF UpTo

(* There are finitely many fills that a sink lacks. *)
LEMMA LackingFinite ==
  ASSUME NEW s, NEW n \in Nat
  PROVE  IsFiniteSet(Lacking(s, n)) /\ Cardinality(Lacking(s, n)) \in Nat
<1>1. Lacking(s, n) \in SUBSET (1..n)
  BY DEF Lacking
<1>2. IsFiniteSet(1..n)
  BY FS_Interval
<1>3. IsFiniteSet(Lacking(s, n))
  BY <1>1, <1>2, FS_Subset
<1> QED BY <1>3, FS_CardinalityType

(* The next fills arrive: the sink lacks no more than before. *)
LEMMA LackingRun ==
  ASSUME NEW s \in Seq(Nat), NEW t \in Seq(Nat), NEW n \in Nat, Run(t, n)
  PROVE  Cardinality(Lacking(s \o t, n + Len(t))) <= Cardinality(Lacking(s, n))
<1> DEFINE a == Len(s)
           b == Len(t)
           c == s \o t
<1>1. a \in Nat /\ b \in Nat /\ Len(c) = a + b
      /\ \A i \in 1 .. a + b : c[i] = IF i <= a THEN s[i] ELSE t[i - a]
  BY ConcatProperties, LenProperties
<1>2. \A i \in 1..b : t[i] = n + i
  BY DEF Run
<1> HIDE DEF a, b, c
<1>3. ASSUME NEW f \in 1 .. n + b, \A i \in 1 .. a + b : c[i] # f
      PROVE  f \in 1..n /\ \A i \in 1..a : s[i] # f
  <2>1. \A i \in 1..a : s[i] # f
    <3> TAKE i \in 1..a
    <3>1. i \in 1 .. a + b /\ c[i] = s[i]
      BY <1>1
    <3> QED BY <1>3, <3>1
  <2>2. ASSUME f > n PROVE FALSE
    <3> DEFINE j == f - n
    <3>1. j \in 1..b /\ n + j = f /\ a + j \in 1 .. a + b /\ ~(a + j <= a) /\ (a + j) - a = j
      BY <1>1, <2>2
    <3>2. c[a + j] = t[j] /\ t[j] = n + j
      BY <1>1, <1>2, <3>1
    <3> QED BY <1>3, <3>1, <3>2
  <2> QED BY <1>1, <2>1, <2>2
<1>4. Lacking(c, n + b) \in SUBSET Lacking(s, n)
  BY <1>1, <1>3 DEF Lacking, a
<1>5. Cardinality(Lacking(c, n + b)) <= Cardinality(Lacking(s, n))
  BY <1>4, LackingFinite, FS_Subset
<1> QED BY <1>5 DEF b, c

(* A request for m fills fails: the sink lacks at most m more. *)
LEMMA LackingMore ==
  ASSUME NEW s, NEW n \in Nat, NEW m \in Nat
  PROVE  Cardinality(Lacking(s, n + m)) <= Cardinality(Lacking(s, n)) + m
<1> DEFINE L == Lacking(s, n)
           M == Lacking(s, n + m)
           I == n + 1 .. n + m
<1>1. M \subseteq L \cup I
  BY DEF Lacking
<1>2. IsFiniteSet(L) /\ Cardinality(L) \in Nat /\ IsFiniteSet(M) /\ Cardinality(M) \in Nat
  BY LackingFinite
<1>3. IsFiniteSet(I) /\ Cardinality(I) = m
  <2>1. IsFiniteSet(I) /\ Cardinality(I) = IF n + 1 > n + m THEN 0 ELSE (n + m) - (n + 1) + 1
    BY FS_Interval
  <2> QED BY <2>1
<1> HIDE DEF L, M, I
<1>4. /\ IsFiniteSet(L \cup I)
      /\ Cardinality(L \cup I) = Cardinality(L) + Cardinality(I) - Cardinality(L \cap I)
  BY <1>2, <1>3, FS_Union
<1>5. Cardinality(L \cap I) \in Nat
  <2>1. L \cap I \in SUBSET L
    OBVIOUS
  <2> QED BY <1>2, <2>1, FS_Subset, FS_CardinalityType
<1>6. Cardinality(M) <= Cardinality(L \cup I)
  BY <1>1, <1>4, FS_Subset
<1>7. Cardinality(L \cup I) \in Nat
  BY <1>4, FS_CardinalityType
<1>8. Cardinality(M) <= Cardinality(L) + m
  BY <1>2, <1>3, <1>4, <1>5, <1>6, <1>7
<1> QED BY <1>8 DEF L, M

(* A sink lacks less of fewer fills. *)
LEMMA LackingFewer ==
  ASSUME NEW s, NEW n \in Nat, NEW m \in Nat, n <= m
  PROVE  Cardinality(Lacking(s, n)) <= Cardinality(Lacking(s, m))
<1>1. Lacking(s, n) \in SUBSET Lacking(s, m)
  BY DEF Lacking
<1> QED BY <1>1, LackingFinite, FS_Subset

(* A sink s that has seen the fills up to n is left behind by x fills, or sees the
   next ones, t. *)
SinkMoves(s, n, t, s2, n2, x) ==
  \/ s2 = s /\ n2 = n + x
  \/ s2 = s \o t /\ n2 = n + Len(t) /\ Run(t, n)

(* No more than x fills are lost on the way to a sink. *)
LEMMA SinkLacks ==
  ASSUME NEW s \in Seq(Nat), NEW n \in Nat, NEW t \in Seq(Nat), NEW s2, NEW n2,
         NEW x \in Nat, SinkMoves(s, n, t, s2, n2, x)
  PROVE  /\ n2 \in Nat
         /\ Cardinality(Lacking(s2, n2)) \in Nat /\ Cardinality(Lacking(s, n)) \in Nat
         /\ Cardinality(Lacking(s2, n2)) <= Cardinality(Lacking(s, n)) + x
<1>1. Cardinality(Lacking(s, n)) \in Nat
  BY LackingFinite
<1>2. n2 \in Nat
  BY LenProperties DEF SinkMoves
<1>3. Cardinality(Lacking(s2, n2)) \in Nat
  BY <1>2, LackingFinite
<1>4. CASE s2 = s /\ n2 = n + x
  <2>1. Cardinality(Lacking(s, n2)) <= Cardinality(Lacking(s, n)) + x
    BY <1>4, LackingMore
  <2> QED BY <1>1, <1>2, <1>3, <1>4, <2>1
<1>5. CASE s2 = s \o t /\ n2 = n + Len(t) /\ Run(t, n)
  <2>1. Cardinality(Lacking(s2, n2)) <= Cardinality(Lacking(s, n))
    BY <1>5, LackingRun
  <2> QED BY <1>1, <1>2, <1>3, <2>1
<1> QED BY <1>4, <1>5 DEF SinkMoves

(* ... and one that has them in order keeps them so. *)
LEMMA SinkMoved ==
  ASSUME NEW s \in Seq(Nat), NEW n \in Nat, NEW t \in Seq(Nat), NEW s2, NEW n2,
         NEW x \in Nat, UpTo(s, n), SinkMoves(s, n, t, s2, n2, x)
  PROVE  UpTo(s2, n2)
<1>1. CASE s2 = s /\ n2 = n + x
  <2>1. n2 \in Nat /\ n <= n2
    BY <1>1
  <2> QED BY <1>1, <2>1, UpToMore
<1>2. CASE s2 = s \o t /\ n2 = n + Len(t) /\ Run(t, n)
  BY <1>2, UpToRun
<1> QED BY <1>1, <1>2 DEF SinkMoves

(* A sequence has finitely many late places. *)
LEMMA LateFinite ==
  ASSUME NEW s \in Seq(Nat)
  PROVE  IsFiniteSet(Late(s)) /\ Cardinality(Late(s)) \in Nat
<1>1. Late(s) \in SUBSET (1..Len(s)) /\ Len(s) \in Nat
  BY LenProperties DEF Late
<1>2. IsFiniteSet(1..Len(s))
  BY <1>1, FS_Interval
<1> QED BY <1>1, <1>2, FS_Subset, FS_CardinalityType

(* A record that is appended is late itself or not, and makes no other one late. *)
LEMMA LateAppend ==
  ASSUME NEW s \in Seq(Nat), NEW g \in Nat
  PROVE  /\ Cardinality(Late(s \o <<g>>))
              = Cardinality(Late(s)) + (IF Behind(s, g) THEN 1 ELSE 0)
         /\ \A n \in Nat : Behind(s \o <<g>>, n) <=> Behind(s, n) \/ g >= n
<1> DEFINE a == Len(s)
           t == s \o <<g>>
           L == Late(s)
<1>1. a \in Nat /\ Len(t) = a + 1 /\ t[a + 1] = g /\ \A i \in 1..a : t[i] = s[i]
  <2>1. <<g>> \in Seq(Nat) /\ Len(<<g>>) = 1 /\ <<g>>[1] = g
    OBVIOUS
  <2>2. a \in Nat /\ Len(t) = a + 1
        /\ \A i \in 1 .. a + 1 : t[i] = IF i <= a THEN s[i] ELSE <<g>>[i - a]
    BY <2>1, ConcatProperties, LenProperties
  <2> HIDE DEF a, t
  <2>3. a + 1 \in 1 .. a + 1 /\ ~(a + 1 <= a) /\ (a + 1) - a = 1
    BY <2>2
  <2>4. \A i \in 1..a : i \in 1 .. a + 1 /\ i <= a
    BY <2>2
  <2> QED BY <2>1, <2>2, <2>3, <2>4
<1>2. IsFiniteSet(L) /\ Cardinality(L) \in Nat
  BY LateFinite
<1>3. L = {i \in 1..a : \E j \in 1 .. i - 1 : s[j] >= s[i]}
  BY DEF Late
<1>4. Late(t) = {i \in 1..Len(t) : \E j \in 1 .. i - 1 : t[j] >= t[i]}
  BY DEF Late
<1>5. Behind(s, g) <=> \E j \in 1..a : s[j] >= g
  BY DEF Behind
<1> HIDE DEF a, t, L
<1>6. \A i \in 1..a : i \in Late(t) <=> i \in L
  <2> TAKE i \in 1..a
  <2>1. i \in 1..Len(t) /\ t[i] = s[i] /\ \A j \in 1 .. i - 1 : t[j] = s[j]
    BY <1>1
  <2> QED BY <1>3, <1>4, <2>1
<1>7. a + 1 \in Late(t) <=> Behind(s, g)
  <2>1. a + 1 \in 1..Len(t) /\ (a + 1) - 1 = a
    BY <1>1
  <2> QED BY <1>1, <1>4, <1>5, <2>1
<1>8. Late(t) \subseteq 1 .. a + 1 /\ L \subseteq 1..a /\ a + 1 \notin L
      /\ 1 .. a + 1 = (1..a) \cup {a + 1}
  BY <1>1, <1>3, <1>4
<1>9. Late(t) = IF Behind(s, g) THEN L \cup {a + 1} ELSE L
  <2> DEFINE M == Late(t)
             e == a + 1
             R == 1..a
             B == Behind(s, g)
  <2>1. /\ M \subseteq R \cup {e} /\ L \subseteq R /\ (e \in M <=> B)
        /\ \A i \in R : i \in M <=> i \in L
    BY <1>6, <1>7, <1>8
  <2> HIDE DEF M, e, R, B
  <2>2. B => M = L \cup {e}
    BY <2>1
  <2>3. ~B => M = L
    BY <2>1
  <2> QED BY <2>2, <2>3 DEF M, e, B
<1>10. Cardinality(Late(t)) = Cardinality(L) + (IF Behind(s, g) THEN 1 ELSE 0)
  <2>1. CASE Behind(s, g)
    BY <1>2, <1>8, <1>9, <2>1, FS_AddElement
  <2>2. CASE ~Behind(s, g)
    BY <1>2, <1>9, <2>2
  <2> QED BY <2>1, <2>2
<1>11. \A n \in Nat : Behind(t, n) <=> Behind(s, n) \/ g >= n
  <2> TAKE n \in Nat
  <2>1. Behind(t, n) <=> \E j \in 1 .. a + 1 : t[j] >= n
    BY <1>1 DEF Behind
  <2>2. Behind(s, n) <=> \E j \in 1..a : s[j] >= n
    BY DEF Behind, a
  <2> QED BY <1>1, <1>8, <2>1, <2>2
<1> QED BY <1>10, <1>11 DEF t, L
-----------------------------------------------------------------------------
(* Where the fills are that the tasks work on. *)
LEMMA PartsRun ==
  ASSUME FillsSound, InOrder
  PROVE  /\ Run(writer.batch, Len(settled))
         /\ Run(fan.hold, InHand)
         /\ Run(fillCh, Begun)
<1> DEFINE e == settled
           b == writer.batch
           u == writer.buf
           d == dbCh
           h == fan.hold
           f == fillCh
           o == out
           S == Seq(Nat)
<1>1. e \in S /\ b \in S /\ u \in S /\ d \in S /\ h \in S /\ f \in S /\ o \in S
  <2>1. 1..made \subseteq Nat
    OBVIOUS
  <2>2. \A s \in Seq(1..made) : s \in Seq(Nat)
    BY <2>1, SeqLarger
  <2> QED BY <2>2, FillFacts
<1>2. Run(Cat(e, Cat(Cat(Cat(Cat(Cat(b, u), d), h), f), o)), 0)
  BY DEF InOrder, Way, Cat
<1>3. Begun = Len(e) + Len(b) + Len(u) + Len(d) + Len(h) /\ InHand = Len(e) + Len(b) + Len(u) + Len(d)
  BY DEF Begun, InHand
<1> HIDE DEF e, b, u, d, h, f, o
<1>4. \A s, t \in S : \A n \in Nat :
        /\ Cat(s, t) \in S /\ Len(s) \in Nat /\ Len(Cat(s, t)) = Len(s) + Len(t)
        /\ Run(Cat(s, t), n) => Run(s, n) /\ Run(t, n + Len(s))
  BY ConcatProperties, LenProperties, RunParts DEF Cat
<1> DEFINE c2 == Cat(b, u)
           c3 == Cat(c2, d)
           c4 == Cat(c3, h)
           c5 == Cat(c4, f)
<1>5. c2 \in S /\ c3 \in S /\ c4 \in S /\ c5 \in S /\ Cat(c5, o) \in S
  BY <1>1, <1>4
<1>6. /\ Len(e) \in Nat /\ Len(b) \in Nat /\ Len(u) \in Nat /\ Len(d) \in Nat
      /\ Len(h) \in Nat
  BY <1>1, <1>4
<1>7. Len(c2) = Len(b) + Len(u)
  BY <1>1, <1>4
<1>8. Len(c3) = Len(c2) + Len(d)
  BY <1>1, <1>4, <1>5
<1>9. Len(c4) = Len(c3) + Len(h)
  BY <1>1, <1>4, <1>5
<1> HIDE DEF S
<1>10. Run(Cat(c5, o), 0 + Len(e))
  BY <1>1, <1>2, <1>4, <1>5
<1>11. 0 + Len(e) = Len(e)
  BY <1>6
<1> HIDE DEF c2, c3, c4, c5
<1>12. Run(c5, Len(e))
  BY <1>1, <1>4, <1>5, <1>6, <1>10, <1>11
<1>13. Run(c4, Len(e)) /\ Run(f, Len(e) + Len(c4))
  BY <1>1, <1>4, <1>5, <1>6, <1>12 DEF c5
<1>14. Run(c3, Len(e)) /\ Run(h, Len(e) + Len(c3))
  BY <1>1, <1>4, <1>5, <1>6, <1>13 DEF c4
<1>15. Run(c2, Len(e))
  BY <1>1, <1>4, <1>5, <1>6, <1>14 DEF c3
<1>16. Run(b, Len(e))
  BY <1>1, <1>4, <1>5, <1>6, <1>15 DEF c2
<1>17. Len(e) + Len(c4) = Begun /\ Len(e) + Len(c3) = InHand
  <2> DEFINE l0 == Len(e)
             l1 == Len(b)
             l2 == Len(u)
             l3 == Len(d)
             l4 == Len(h)
  <2>1. /\ Len(c3) = (l1 + l2) + l3 /\ Len(c4) = ((l1 + l2) + l3) + l4
        /\ l0 \in Nat /\ l1 \in Nat /\ l2 \in Nat /\ l3 \in Nat /\ l4 \in Nat
        /\ Begun = l0 + l1 + l2 + l3 + l4 /\ InHand = l0 + l1 + l2 + l3
    BY <1>3, <1>6, <1>7, <1>8, <1>9
  <2> HIDE DEF l0, l1, l2, l3, l4
  <2>2. l0 + Len(c4) = Begun /\ l0 + Len(c3) = InHand
    BY <2>1
  <2> QED BY <2>2 DEF l0
<1>18. Run(f, Begun) /\ Run(h, InHand)
  BY <1>13, <1>14, <1>17
<1> QED BY <1>16, <1>18 DEF e, b, h, f

(* A step of the queue keeps the fills in order. *)
LEMMA NextInOrder ==
  ASSUME PInv, InOrder, [Next]_vars
  PROVE  InOrder'
<1>2. /\ Way \in Seq(Nat) /\ settled \in Seq(Nat) /\ Len(Way) \in Nat /\ Len(settled) \in Nat
  <2>1. FillsSound /\ 1..made \subseteq Nat
    BY DEF PInv
  <2> QED BY <2>1, FillFacts, WayFacts, SeqLarger
<1>3. CASE UNCHANGED <<Way, settled>>
  BY <1>3 DEF InOrder
<1>4. CASE Queue!Emit /\ Len(Way') \in Nat
  <2> DEFINE k == Len(Way') - Len(Way)
             m == Len(settled) + Len(Way)
             N == [i \in 1..k |-> m + i]
             w == Way
  <2>1. Len(Way') >= Len(Way) /\ Way' = w \o N /\ settled' = settled
    BY <1>4 DEF Queue!Emit, Queue!Numbered, Way
  <2>2. m \in Nat /\ Len(settled \o w) = m /\ settled \o w \in Seq(Nat) /\ w \in Seq(Nat)
    BY <1>2, ConcatProperties
  <2>3. k \in Nat
    BY <1>2, <1>4, <2>1
  <2> HIDE DEF k, m, w
  <2>4. N \in Seq(Nat) /\ Len(N) = k /\ \A i \in 1..Len(N) : N[i] = m + i
    BY <2>2, <2>3
  <2> HIDE DEF N
  <2>5. Run(N, 0 + Len(settled \o w))
    BY <2>2, <2>4 DEF Run
  <2>6. Run(settled \o w, 0)
    BY DEF InOrder, w
  <2>7. Run((settled \o w) \o N, 0)
    BY <2>2, <2>4, <2>5, <2>6, RunParts
  <2>8. Cat(Cat(settled, w), N) = Cat(settled, Cat(w, N))
    BY <1>2, <2>2, <2>4, CatAssociative
  <2>9. Run(settled' \o Way', 0)
    BY <2>1, <2>7, <2>8 DEF Cat
  <2> QED BY <2>9 DEF InOrder
<1>5. CASE Queue!Settle
  <2>1. PICK n \in 1..Len(Way) :
          /\ settled' = settled \o SubSeq(Way, 1, n)
          /\ Way' = SubSeq(Way, n + 1, Len(Way))
    BY <1>5 DEF Queue!Settle, Way
  <2> DEFINE x == SubSeq(Way, 1, n)
             y == SubSeq(Way, n + 1, Len(Way))
             w == Way
  <2>2. n \in Nat /\ n >= 1 /\ n <= Len(w) /\ Len(w) \in Nat /\ w \in Seq(Nat)
    BY <1>2
  <2> HIDE DEF w
  <2>3. 1 \in 1 .. Len(w) + 1 /\ n \in 1 - 1 .. Len(w) /\ Len(w) \in n .. Len(w)
    BY <2>2
  <2>4. SubSeq(w, 1, n) \o SubSeq(w, n + 1, Len(w)) = SubSeq(w, 1, Len(w))
    BY <2>2, <2>3, ConcatAdjacentSubSeq
  <2>5. SubSeq(w, 1, Len(w)) = w
    BY <2>2, SubSeqFull
  <2>6. SubSeq(w, 1, n) \in Seq(Nat) /\ SubSeq(w, n + 1, Len(w)) \in Seq(Nat)
    BY <2>2
  <2>7. Cat(x, y) = Way /\ x \in Seq(Nat) /\ y \in Seq(Nat)
    BY <2>4, <2>5, <2>6 DEF Cat, w
  <2> HIDE DEF x, y
  <2>8. Cat(Cat(settled, x), y) = Cat(settled, Cat(x, y))
    BY <1>2, <2>7, CatAssociative
  <2>9. settled' \o Way' = Cat(Cat(settled, x), y)
    BY <2>1 DEF Cat, x, y
  <2>10. settled' \o Way' = settled \o Way
    BY <2>7, <2>8, <2>9 DEF Cat
  <2> QED BY <2>10 DEF InOrder
<1> QED BY <1>3, <1>4, <1>5, NextQueue

(* The sinks are lists of fills, and a request changes one of them. *)
LEMMA SinkFacts ==
  ASSUME SinksTyped
  PROVE  /\ \A k \in {"ws", "kafka", "redis", "db"} : sinks[k] \in Seq(Nat)
         /\ \A fs : /\ [sinks EXCEPT !.ws = @ \o fs].ws = sinks.ws \o fs
                    /\ [sinks EXCEPT !.ws = @ \o fs].kafka = sinks.kafka
                    /\ [sinks EXCEPT !.ws = @ \o fs].redis = sinks.redis
                    /\ [sinks EXCEPT !.ws = @ \o fs].db = sinks.db
         /\ \A fs : /\ [sinks EXCEPT !.kafka = @ \o fs].kafka = sinks.kafka \o fs
                    /\ [sinks EXCEPT !.kafka = @ \o fs].ws = sinks.ws
                    /\ [sinks EXCEPT !.kafka = @ \o fs].redis = sinks.redis
                    /\ [sinks EXCEPT !.kafka = @ \o fs].db = sinks.db
         /\ \A fs : /\ [sinks EXCEPT !.redis = @ \o fs].redis = sinks.redis \o fs
                    /\ [sinks EXCEPT !.redis = @ \o fs].ws = sinks.ws
                    /\ [sinks EXCEPT !.redis = @ \o fs].kafka = sinks.kafka
                    /\ [sinks EXCEPT !.redis = @ \o fs].db = sinks.db
         /\ \A fs : /\ [sinks EXCEPT !.db = @ \o fs].db = sinks.db \o fs
                    /\ [sinks EXCEPT !.db = @ \o fs].ws = sinks.ws
                    /\ [sinks EXCEPT !.db = @ \o fs].kafka = sinks.kafka
                    /\ [sinks EXCEPT !.db = @ \o fs].redis = sinks.redis
<1>1. \A k \in {"ws", "kafka", "redis", "db"} : sinks[k] \in Seq(Nat)
  <2>1. 1..made \subseteq Nat
    OBVIOUS
  <2>2. \A k \in {"ws", "kafka", "redis", "db"} : sinks[k] \in Seq(1..made)
    BY DEF SinksTyped
  <2> QED BY <2>1, <2>2, SeqLarger
<1>2. DOMAIN sinks = {"ws", "kafka", "redis", "db"}
      /\ sinks = [k \in {"ws", "kafka", "redis", "db"} |-> sinks[k]]
  BY DEF SinksTyped
<1> QED BY <1>1, <1>2

(* Every step leaves the WebSocket's fills alone but the one that takes a fill out
   of the fill channel and publishes it. *)
LEMMA NextWs ==
  ASSUME PInv, InOrder, WsSound, [Next]_vars
  PROVE  WsSound'
<1> DEFINE w == Len(sinks.ws)
           f == Len(fillCh)
           o == Len(out)
<1>1. /\ FillsSound /\ SinksTyped /\ made \in Nat /\ w \in Nat /\ f \in Nat /\ o \in Nat
      /\ sinks.ws \in Seq(Nat) /\ w + f + o = made
  <2>1. FillsSound /\ SinksTyped
    BY DEF PInv
  <2> QED BY <2>1, FillFacts, SinkFacts, LenProperties DEF WsSound
<1>2. CASE EngineRecv
  <2>1. PICK n \in 0 .. MaxFills - made :
          made' = made + n /\ out' = [i \in 1..n |-> made + i]
    BY <1>2 DEF EngineRecv
  <2>2. n \in Nat /\ Len(out') = n
    BY <1>1, <2>1, BoundFacts
  <2>3. out = << >> /\ o = 0
    BY <1>1, <1>2 DEF EngineRecv, FillsSound, EngineSound
  <2>4. UNCHANGED <<fillCh, sinks>>
    BY <1>2 DEF EngineRecv, fillPath
  <2> HIDE DEF w, f, o
  <2>5. w + f + n = made'
    BY <1>1, <2>1, <2>2, <2>3
  <2> QED BY <2>2, <2>4, <2>5 DEF WsSound, w, f
<1>3. CASE EngineSendFill
  <2>1. UNCHANGED <<made, sinks>> /\ engine = "fill"
    BY <1>3 DEF EngineSendFill, fillPath
  <2>2. CASE UNCHANGED <<out, fillCh>>
    BY <2>1, <2>2 DEF WsSound
  <2>3. CASE fillCh' = Append(fillCh, Head(out)) /\ out' = Tail(out)
    <3>1. out # << >> /\ out \in Seq(1..made) /\ fillCh \in Seq(1..made)
      BY <1>1, <2>1, FillFacts DEF FillsSound, EngineSound
    <3>2. Len(out') = o - 1 /\ Head(out) \in 1..made /\ o \in Nat \ {0}
      BY <2>3, <3>1, OneOut
    <3>3. Len(fillCh') = f + 1
      BY <2>3, <3>1, <3>2, AppendProperties
    <3> HIDE DEF w, f, o
    <3>4. w + (f + 1) + (o - 1) = made
      BY <1>1, <3>2
    <3> QED BY <2>1, <3>2, <3>3, <3>4 DEF WsSound, w
  <2> QED BY <1>3, <2>2, <2>3 DEF EngineSendFill
<1>4. CASE FanRecv
  <2> DEFINE t == <<Head(fillCh)>>
  <2>1. /\ fillCh # << >> /\ fillCh' = Tail(fillCh) /\ UNCHANGED <<made, out>>
        /\ sinks' = [sinks EXCEPT !.ws = @ \o t]
    BY <1>4 DEF FanRecv, thread
  <2>2. sinks'.ws = sinks.ws \o t
    BY <1>1, <2>1, SinkFacts
  <2>3. /\ Head(fillCh) \in 1..made /\ Head(fillCh) = fillCh[1] /\ f \in Nat \ {0}
        /\ Len(fillCh') = f - 1
    BY <1>1, <2>1, FillFacts, OneOut
  <2>4. Begun = w
    BY <1>1, BegunFacts
  <2>5. Head(fillCh) = w + 1
    <3>1. Run(fillCh, Begun)
      BY <1>1, PartsRun
    <3>2. 1 \in 1..Len(fillCh)
      BY <2>3
    <3> QED BY <2>3, <2>4, <3>1, <3>2 DEF Run
  <2>6. t \in Seq(Nat) /\ Len(t) = 1 /\ Run(t, 0 + w)
    BY <1>1, <2>5 DEF Run
  <2>7. Run(sinks.ws, 0)
    BY DEF WsSound
  <2>8. Len(sinks'.ws) = w + 1 /\ Run(sinks'.ws, 0)
    <3> HIDE DEF t
    <3>1. Len(sinks.ws \o t) = w + 1
      <4>1. sinks.ws \in Seq(Nat) /\ t \in Seq(Nat)
        BY <1>1, <2>6
      <4>2. Len(sinks.ws \o t) = Len(sinks.ws) + Len(t)
        BY <4>1, ConcatProperties
      <4> QED BY <2>6, <4>2
    <3>2. Run(sinks.ws \o t, 0)
      BY <1>1, <2>6, <2>7, RunParts
    <3> QED BY <2>2, <3>1, <3>2
  <2> HIDE DEF w, f, o
  <2>9. (w + 1) + (f - 1) + o = made
    BY <1>1, <2>3
  <2> QED BY <2>1, <2>3, <2>8, <2>9 DEF WsSound, o
<1>5. CASE /\ UNCHANGED <<made, fillCh, out>>
           /\ \/ UNCHANGED sinks
              \/ \E fs : sinks' \in {[sinks EXCEPT !.kafka = @ \o fs],
                                    [sinks EXCEPT !.redis = @ \o fs],
                                    [sinks EXCEPT !.db = @ \o fs]}
  <2>1. sinks'.ws = sinks.ws
    BY <1>1, <1>5, SinkFacts
  <2> QED BY <1>5, <2>1 DEF WsSound
<1>6. CASE FanPublish \/ FanPush \/ WriterInsert \/ PublishAgain
  BY <1>5, <1>6 DEF FanPublish, FanPush, WriterInsert, PublishAgain, Request, thread
<1>7. CASE CancelFan \/ CancelWriter
  BY <1>5, <1>7 DEF CancelFan, CancelWriter, thread
<1>8. CASE \/ Ingest \/ ConsumerNext \/ ConsumerSend \/ EngineSendUpdate \/ EngineSave
           \/ EngineFollow \/ EnginePromoted \/ EngineClosed \/ FanDb \/ FanClosed \/ BookNext
           \/ WriterRecv \/ WriterTick \/ WriterClosed \/ StreamEnds \/ Promote
           \/ CancelConsumer \/ CancelBook \/ Exit \/ PromotedExit \/ UNCHANGED vars
  <2>1. UNCHANGED <<made, fillCh, out, sinks>>
    BY <1>8 DEF Ingest, ConsumerNext, ConsumerSend, EngineSendUpdate, EngineSave, EngineFollow,
                EnginePromoted, EngineClosed, FanDb, FanClosed, BookNext, BookRecv, BookWrite,
                BookClosed, WriterRecv, WriterTick, WriterClosed, StreamEnds, Promote,
                CancelConsumer, CancelBook, Exit, PromotedExit, vars, thread, fillPath
  <2> QED BY <1>5, <2>1
<1> QED BY <1>2, <1>3, <1>4, <1>6, <1>7, <1>8
    DEF Next, EngineNext, FanNext, WriterNext, ShutdownNext

(* What fills-out and Redis have seen, by the step of the fan-out task. *)
LEMMA PastFacts ==
  ASSUME FillsSound, SinksTyped, WsSound, InOrder
  PROVE  /\ Len(sinks.ws) \in Nat /\ Len(fan.hold) \in Nat
         /\ Len(sinks.ws) - Len(fan.hold) \in Nat
         /\ Published \in Nat /\ Pushed \in Nat
         /\ fan.step \in {"push", "db", "done"} => Published = Len(sinks.ws)
         /\ fan.step \in {"db", "done"} => Pushed = Len(sinks.ws)
         /\ fan.step = "recv" => Published = Len(sinks.ws) /\ Pushed = Len(sinks.ws)
         /\ fan.step = "publish" => Published = Len(sinks.ws) - Len(fan.hold)
         /\ fan.step \in {"publish", "push"} => Pushed = Len(sinks.ws) - Len(fan.hold)
         /\ Run(fan.hold, Len(sinks.ws) - Len(fan.hold))
<1> DEFINE w == Len(sinks.ws)
           h == Len(fan.hold)
<1>1. /\ h \in Nat /\ Len(fillCh) \in Nat /\ Len(out) \in Nat /\ made \in Nat
      /\ made = w + Len(fillCh) + Len(out)
  BY FillFacts DEF WsSound
<1>2. w \in Nat
  BY SinkFacts, LenProperties
<1>3. InHand \in Nat /\ Begun = InHand + h /\ made = Begun + Len(fillCh) + Len(out)
  BY BegunFacts
<1>4. Run(fan.hold, InHand)
  BY PartsRun
<1>5. fan.step = "recv" => h = 0
  BY DEF FillsSound, FanSound
<1>6. /\ Published = IF fan.step \in {"push", "db", "done"} THEN w ELSE w - h
      /\ Pushed = IF fan.step \in {"db", "done"} THEN w ELSE w - h
  BY DEF Published, Pushed, Past
<1> HIDE DEF w, h
<1>7. w - h = InHand /\ w - h \in Nat /\ (h = 0 => w - h = w)
  BY <1>1, <1>2, <1>3
<1>8. /\ Published \in Nat /\ Pushed \in Nat
      /\ fan.step = "recv" => Published = w /\ Pushed = w
  BY <1>2, <1>5, <1>6, <1>7
<1> QED BY <1>1, <1>2, <1>4, <1>6, <1>7, <1>8 DEF w, h

(* A step of the fan-out task takes each of its two sinks on by what it holds, or
   leaves it behind by a fill for which a request failed. *)
LEMMA FanMoves ==
  ASSUME FillsSound, SinksTyped, WsSound, InOrder, failures \in Nat, FanNext \/ CancelFan
  PROVE  \E x \in Nat, y \in Nat :
           /\ SinkMoves(sinks.kafka, Published, fan.hold, sinks'.kafka, Published', x)
           /\ SinkMoves(sinks.redis, Pushed, fan.hold, sinks'.redis, Pushed', y)
           /\ phase' = "running" => phase = "running" /\ failures' = failures + x + y
<1> DEFINE w == Len(sinks.ws)
           h == Len(fan.hold)
           t == fan.hold
           p == Published
           q == Pushed
           k == sinks.kafka
           r == sinks.redis
           f == failures
<1>1. /\ w \in Nat /\ h \in Nat /\ w - h \in Nat /\ p \in Nat /\ q \in Nat
      /\ fan.step \in {"push", "db", "done"} => p = w
      /\ fan.step \in {"db", "done"} => q = w
      /\ fan.step = "recv" => p = w /\ q = w
      /\ fan.step = "publish" => p = w - h
      /\ fan.step \in {"publish", "push"} => q = w - h
      /\ Run(t, w - h)
  BY PastFacts
<1>2. fan \in FanType /\ FanSound /\ f \in Nat
  BY DEF FillsSound
<1>3. /\ Published' = IF fan'.step \in {"push", "db", "done"} THEN Len(sinks'.ws)
                      ELSE Len(sinks'.ws) - Len(fan'.hold)
      /\ Pushed' = IF fan'.step \in {"db", "done"} THEN Len(sinks'.ws)
                   ELSE Len(sinks'.ws) - Len(fan'.hold)
  BY DEF Published, Pushed, Past
<1>4. \A step : /\ [fan EXCEPT !.step = step].step = step
                /\ [fan EXCEPT !.step = step].hold = t
  BY <1>2 DEF FanType
<1> DEFINE Goal(x, y) ==
             /\ SinkMoves(k, p, t, sinks'.kafka, Published', x)
             /\ SinkMoves(r, q, t, sinks'.redis, Pushed', y)
             /\ phase' = "running" => phase = "running" /\ failures' = f + x + y
<1>5. SUFFICES \E x \in Nat, y \in Nat : Goal(x, y)
  OBVIOUS
<1>6. CASE FanRecv
  <2>1. /\ fan.step = "recv" /\ fillCh # << >>
        /\ fan' = [step |-> "publish", hold |-> <<Head(fillCh)>>]
        /\ sinks' = [sinks EXCEPT !.ws = @ \o <<Head(fillCh)>>]
        /\ UNCHANGED <<phase, failures>>
    BY <1>6 DEF FanRecv, process
  <2>2. sinks'.kafka = k /\ sinks'.redis = r /\ sinks'.ws = sinks.ws \o <<Head(fillCh)>>
    BY <2>1, SinkFacts
  <2>3. <<Head(fillCh)>> \in Seq(Nat) /\ Len(<<Head(fillCh)>>) = 1
    <3>1. Head(fillCh) \in 1..made
      BY <2>1, FillFacts, OneOut
    <3> QED BY <3>1
  <2>4. Len(sinks'.ws) = w + 1
    BY <2>2, <2>3, SinkFacts, ConcatProperties
  <2>5. Len(fan'.hold) = 1 /\ fan'.step = "publish"
    BY <2>1
  <2> HIDE DEF w, h, t, p, q, k, r, f
  <2>6. Published' = p + 0 /\ Pushed' = q + 0
    BY <1>1, <1>3, <2>1, <2>4, <2>5
  <2>7. failures' = f + 0 + 0
    BY <1>2, <2>1 DEF f
  <2>8. Goal(0, 0)
    BY <2>1, <2>2, <2>6, <2>7 DEF SinkMoves
  <2> QED BY <2>8
<1>7. CASE FanDb \/ FanClosed
  <2>1. /\ fan.step \in {"db", "recv"} /\ UNCHANGED <<sinks, phase, failures>>
        /\ \/ fan' = [fan EXCEPT !.step = "done"]
           \/ fan' = [step |-> "recv", hold |-> << >>]
    BY <1>7 DEF FanDb, FanClosed, process
  <2>2. fan'.step = "done" \/ (fan'.step = "recv" /\ Len(fan'.hold) = 0)
    <3>1. CASE fan' = [fan EXCEPT !.step = "done"]
      BY <1>4, <3>1
    <3>2. CASE fan' = [step |-> "recv", hold |-> << >>]
      BY <3>2
    <3> QED BY <2>1, <3>1, <3>2
  <2>3. Len(sinks'.ws) = w
    BY <2>1
  <2>4. sinks'.kafka = k /\ sinks'.redis = r
    BY <2>1
  <2> HIDE DEF w, h, t, p, q, k, r, f
  <2>5. Published' = w /\ Pushed' = w
    BY <1>1, <1>3, <2>2, <2>3
  <2>6. Published' = p + 0 /\ Pushed' = q + 0
    BY <1>1, <2>1, <2>5
  <2>7. failures' = f + 0 + 0
    BY <1>2, <2>1 DEF f
  <2>8. Goal(0, 0)
    BY <2>1, <2>4, <2>6, <2>7 DEF SinkMoves
  <2> QED BY <2>8
<1>8. CASE FanPublish
  <2>1. /\ fan.step = "publish" /\ fan' = [fan EXCEPT !.step = "push"] /\ UNCHANGED phase
        /\ \/ sinks' = [sinks EXCEPT !.kafka = @ \o t] /\ failures' = f
           \/ failures' = f + 1 /\ sinks' = sinks
    BY <1>8 DEF FanPublish, Request, Fails, process
  <2>2. fan'.step = "push" /\ Len(fan'.hold) = h /\ h = 1
    BY <1>2, <1>4, <2>1 DEF FanSound
  <2>3. /\ sinks'.redis = r /\ Len(sinks'.ws) = w
        /\ \/ sinks'.kafka = k \o t /\ failures' = f
           \/ sinks'.kafka = k /\ failures' = f + 1
    BY <2>1, SinkFacts
  <2> HIDE DEF w, h, t, p, q, k, r, f
  <2>4. Published' = p + 1 /\ Pushed' = q + 0 /\ p = w - h
    <3>1. Published' = w /\ Pushed' = w - h
      BY <1>3, <2>2, <2>3
    <3>2. p = w - h /\ q = w - h
      BY <1>1, <2>1
    <3> QED BY <1>1, <2>2, <3>1, <3>2
  <2>5. CASE sinks'.kafka = k \o t /\ failures' = f
    <3>1. Published' = p + Len(t) /\ failures' = f + 0 + 0
      BY <1>2, <2>2, <2>4, <2>5 DEF h, t
    <3>2. Goal(0, 0)
      BY <1>1, <2>1, <2>3, <2>4, <2>5, <3>1 DEF SinkMoves
    <3> QED BY <3>2
  <2>6. CASE sinks'.kafka = k /\ failures' = f + 1
    <3>1. failures' = f + 1 + 0
      BY <1>2, <2>6
    <3>2. Goal(1, 0)
      BY <2>1, <2>3, <2>4, <2>6, <3>1 DEF SinkMoves
    <3> QED BY <3>2
  <2> QED BY <2>3, <2>5, <2>6
<1>9. CASE FanPush
  <2>1. /\ fan.step = "push" /\ fan' = [fan EXCEPT !.step = "db"] /\ UNCHANGED phase
        /\ \/ sinks' = [sinks EXCEPT !.redis = @ \o t] /\ failures' = f
           \/ failures' = f + 1 /\ sinks' = sinks
    BY <1>9 DEF FanPush, Request, Fails, process
  <2>2. fan'.step = "db" /\ Len(fan'.hold) = h /\ h = 1
    BY <1>2, <1>4, <2>1 DEF FanSound
  <2>3. /\ sinks'.kafka = k /\ Len(sinks'.ws) = w
        /\ \/ sinks'.redis = r \o t /\ failures' = f
           \/ sinks'.redis = r /\ failures' = f + 1
    BY <2>1, SinkFacts
  <2> HIDE DEF w, h, t, p, q, k, r, f
  <2>4. Pushed' = q + 1 /\ Published' = p + 0 /\ q = w - h
    BY <1>1, <1>3, <2>1, <2>2, <2>3
  <2>5. CASE sinks'.redis = r \o t /\ failures' = f
    <3>1. Pushed' = q + Len(t) /\ failures' = f + 0 + 0
      BY <1>2, <2>2, <2>4, <2>5 DEF h, t
    <3>2. Goal(0, 0)
      BY <1>1, <2>1, <2>3, <2>4, <2>5, <3>1 DEF SinkMoves
    <3> QED BY <3>2
  <2>6. CASE sinks'.redis = r /\ failures' = f + 1
    <3>1. failures' = f + 0 + 1
      BY <1>2, <2>6
    <3>2. Goal(0, 1)
      BY <2>1, <2>3, <2>4, <2>6, <3>1 DEF SinkMoves
    <3> QED BY <3>2
  <2> QED BY <2>3, <2>5, <2>6
<1>10. CASE CancelFan
  <2>1. /\ fan.step # "done" /\ fan' = [fan EXCEPT !.step = "done"] /\ phase' = "closing"
        /\ \/ sinks' = sinks
           \/ fan.step = "publish" /\ sinks' = [sinks EXCEPT !.kafka = @ \o t]
           \/ fan.step = "push" /\ sinks' = [sinks EXCEPT !.redis = @ \o t]
    BY <1>10 DEF CancelFan, process
  <2>2. fan'.step = "done"
    BY <1>4, <2>1
  <2>3. /\ Len(sinks'.ws) = w
        /\ \/ sinks'.kafka = k /\ sinks'.redis = r
           \/ fan.step = "publish" /\ sinks'.kafka = k \o t /\ sinks'.redis = r
           \/ fan.step = "push" /\ sinks'.kafka = k /\ sinks'.redis = r \o t
    <3>1. CASE sinks' = sinks
      BY <3>1
    <3>2. CASE fan.step = "publish" /\ sinks' = [sinks EXCEPT !.kafka = @ \o t]
      BY <3>2, SinkFacts
    <3>3. CASE fan.step = "push" /\ sinks' = [sinks EXCEPT !.redis = @ \o t]
      BY <3>3, SinkFacts
    <3> QED BY <2>1, <3>1, <3>2, <3>3
  <2>4. Len(t) = h /\ fan.step \in {"recv", "publish", "push", "db", "done"}
    BY <1>2 DEF FanType
  <2> HIDE DEF w, h, t, p, q, k, r, f
  <2>5. Published' = w /\ Pushed' = w
    BY <1>3, <2>2, <2>3
  <2>6. PICK x \in Nat : w = p + x
    <3>1. w - p \in Nat
      BY <1>1, <2>1, <2>4
    <3> QED BY <1>1, <3>1
  <2>7. PICK y \in Nat : w = q + y
    <3>1. w - q \in Nat
      BY <1>1, <2>1, <2>4
    <3> QED BY <1>1, <3>1
  <2>8. fan.step = "publish" => w = p + Len(t) /\ Run(t, p)
    BY <1>1, <2>4
  <2>9. fan.step = "push" => w = q + Len(t) /\ Run(t, q)
    BY <1>1, <2>4
  <2>10. Goal(x, y)
    BY <2>1, <2>3, <2>5, <2>6, <2>7, <2>8, <2>9 DEF SinkMoves
  <2> QED BY <2>10
<1> QED BY <1>6, <1>7, <1>8, <1>9, <1>10 DEF FanNext

(* A step of the writer task takes Postgres on by its batch, or leaves it behind by
   a batch that failed. *)
LEMMA WriterMoves ==
  ASSUME FillsSound, SinksTyped, InOrder, failures \in Nat, WriterNext \/ CancelWriter
  PROVE  \E x \in Nat :
           /\ SinkMoves(sinks.db, Inserted, writer.batch, sinks'.db, Inserted', x)
           /\ phase' = "running" =>
                /\ phase = "running"
                /\ \/ x = 0 /\ failures' \in {failures, failures + 1}
                   \/ x <= BatchSize /\ failures' = failures + 1
<1> DEFINE n == Len(settled)
           b == writer.batch
           l == Len(b)
           d == sinks.db
<1>1. /\ n \in Nat /\ l \in Nat /\ Run(b, n) /\ l <= BatchSize
      /\ b \in Seq(Nat) /\ settled \in Seq(Nat)
  <2>1. 1..made \subseteq Nat
    OBVIOUS
  <2> QED BY <2>1, FillFacts, PartsRun, SeqLarger DEF FillsSound, WriterSound
<1>2. Inserted = n + (IF writer.step = "done" THEN l ELSE 0)
      /\ Inserted' = Len(settled') + (IF writer'.step = "done" THEN Len(writer'.batch) ELSE 0)
  BY DEF Inserted
<1>3. writer \in WriterType
  BY DEF FillsSound
<1> DEFINE Goal(x) ==
             /\ SinkMoves(d, Inserted, b, sinks'.db, Inserted', x)
             /\ phase' = "running" =>
                  /\ phase = "running"
                  /\ \/ x = 0 /\ failures' \in {failures, failures + 1}
                     \/ x <= BatchSize /\ failures' = failures + 1
<1>4. SUFFICES \E x \in Nat : Goal(x)
  OBVIOUS
<1>5. CASE WriterRecv \/ WriterTick \/ WriterClosed
  <2>1. /\ writer.step = "recv" /\ UNCHANGED <<settled, sinks, phase, failures>>
    BY <1>5 DEF WriterRecv, WriterTick, WriterClosed, process
  <2>2. writer'.step # "done" \/ Len(writer'.batch) = 0
    <3>1. b = << >>
      BY <2>1 DEF FillsSound, WriterSound
    <3>2. /\ \A buf : [writer EXCEPT !.buf = buf].step = "recv"
          /\ [writer EXCEPT !.step = "done"].batch = << >>
      BY <1>3, <2>1, <3>1 DEF WriterType
    <3>3. \A buf, next : Flush(buf, next).step = next
      BY DEF Flush
    <3>4. CASE WriterRecv
      BY <3>2, <3>3, <3>4 DEF WriterRecv
    <3>5. CASE WriterTick
      BY <3>3, <3>5 DEF WriterTick
    <3>6. CASE WriterClosed
      <4>1. \/ writer' = [writer EXCEPT !.step = "done"]
            \/ writer' = Flush(writer.buf, "last")
        BY <3>6 DEF WriterClosed
      <4>2. Len(<< >>) = 0
        OBVIOUS
      <4>3. CASE writer' = [writer EXCEPT !.step = "done"]
        BY <3>2, <4>2, <4>3
      <4>4. CASE writer' = Flush(writer.buf, "last")
        BY <4>4 DEF Flush
      <4> QED BY <4>1, <4>3, <4>4
    <3> QED BY <1>5, <3>4, <3>5, <3>6
  <2>3. Inserted' = Inserted + 0
    <3>1. Len(settled') = n
      BY <2>1
    <3> HIDE DEF n, l
    <3> QED BY <1>1, <1>2, <2>1, <2>2, <3>1
  <2>4. Goal(0)
    BY <2>1, <2>3 DEF SinkMoves
  <2> QED BY <2>4
<1>6. CASE WriterInsert
  <2>1. /\ writer.step \in {"insert", "last"} /\ settled' = settled \o b /\ UNCHANGED phase
        /\ writer' = [writer EXCEPT !.step = IF @ = "last" THEN "done" ELSE "recv",
                                    !.batch = << >>]
        /\ \/ sinks' = [sinks EXCEPT !.db = @ \o b] /\ failures' = failures
           \/ failures' = failures + 1 /\ sinks' = sinks
    BY <1>6 DEF WriterInsert, Request, Fails, process
  <2>2. writer'.batch = << >> /\ Len(<< >>) = 0
    BY <1>3, <2>1 DEF WriterType
  <2>3. Len(settled') = n + l
    BY <1>1, <2>1, ConcatProperties
  <2>4. Inserted = n /\ Inserted' = n + l
    <3> HIDE DEF n, l
    <3> QED BY <1>1, <1>2, <2>1, <2>2, <2>3
  <2>5. CASE sinks' = [sinks EXCEPT !.db = @ \o b] /\ failures' = failures
    <3>1. sinks'.db = d \o b
      BY <2>5, SinkFacts
    <3>2. Goal(0)
      BY <1>1, <2>1, <2>4, <2>5, <3>1 DEF SinkMoves
    <3> QED BY <3>2
  <2>6. CASE failures' = failures + 1 /\ sinks' = sinks
    <3>1. Goal(l)
      BY <1>1, <2>1, <2>4, <2>6 DEF SinkMoves
    <3> QED BY <1>1, <3>1
  <2> QED BY <2>1, <2>5, <2>6
<1>7. CASE CancelWriter
  <2>1. /\ writer.step # "done" /\ phase' = "closing" /\ settled' = settled
        /\ writer' = [writer EXCEPT !.step = "done"]
        /\ sinks' = sinks \/ sinks' = [sinks EXCEPT !.db = @ \o b]
    BY <1>7 DEF CancelWriter, process
  <2>2. writer'.step = "done" /\ writer'.batch = b
    BY <1>3, <2>1 DEF WriterType
  <2>3. Len(settled') = n /\ Len(writer'.batch) = l
    BY <2>1, <2>2
  <2>4. Inserted = n /\ Inserted' = n + l
    <3> HIDE DEF n, l
    <3> QED BY <1>1, <1>2, <2>1, <2>2, <2>3
  <2>5. sinks'.db = d \/ sinks'.db = d \o b
    BY <2>1, SinkFacts
  <2>6. Goal(l)
    BY <1>1, <2>1, <2>4, <2>5 DEF SinkMoves
  <2> QED BY <1>1, <2>6
<1> QED BY <1>5, <1>6, <1>7 DEF WriterNext

(* A step that is none of the fan-out task leaves its sinks alone, but for a record
   that fills-out gets again; one that is none of the writer task leaves Postgres
   alone; requests of other tasks fail as well. *)
LEMMA OthersKeepSinks ==
  ASSUME SinksTyped, [Next]_vars
  PROVE  /\ phase' = "running" => phase = "running"
         /\ failures' \in {failures, failures + 1}
         /\ ~(FanNext \/ CancelFan) =>
              /\ fan' = fan /\ sinks'.ws = sinks.ws /\ sinks'.redis = sinks.redis
              /\ \/ sinks'.kafka = sinks.kafka
                 \/ /\ failures' = failures + 1
                    /\ \E i \in 1..Len(sinks.ws) :
                         sinks'.kafka = sinks.kafka \o <<sinks.ws[i]>>
         /\ ~(WriterNext \/ CancelWriter) =>
              writer' = writer /\ settled' = settled /\ sinks'.db = sinks.db
<1>1. CASE FanNext \/ CancelFan
  <2>1. /\ phase' \in {phase, "closing"} /\ failures' \in {failures, failures + 1}
        /\ UNCHANGED <<writer, settled>>
    BY <1>1 DEF FanNext, FanRecv, FanPublish, FanPush, FanDb, FanClosed, CancelFan, Request,
                Fails, process
  <2>2. \/ sinks' = sinks
        \/ \E fs : sinks' \in {[sinks EXCEPT !.ws = @ \o fs], [sinks EXCEPT !.kafka = @ \o fs],
                              [sinks EXCEPT !.redis = @ \o fs]}
    BY <1>1 DEF FanNext, FanRecv, FanPublish, FanPush, FanDb, FanClosed, CancelFan, Request
  <2>3. sinks'.db = sinks.db
    <3>1. CASE sinks' = sinks
      BY <3>1
    <3>2. CASE \E fs : sinks' = [sinks EXCEPT !.ws = @ \o fs]
      BY <3>2, SinkFacts
    <3>3. CASE \E fs : sinks' = [sinks EXCEPT !.kafka = @ \o fs]
      BY <3>3, SinkFacts
    <3>4. CASE \E fs : sinks' = [sinks EXCEPT !.redis = @ \o fs]
      BY <3>4, SinkFacts
    <3> QED BY <2>2, <3>1, <3>2, <3>3, <3>4
  <2> QED BY <1>1, <2>1, <2>3
<1>2. CASE WriterNext \/ CancelWriter
  <2>1. /\ phase' \in {phase, "closing"} /\ failures' \in {failures, failures + 1}
        /\ UNCHANGED fan
    BY <1>2 DEF WriterNext, WriterRecv, WriterTick, WriterInsert, WriterClosed, CancelWriter,
                Request, Fails, process
  <2>2. sinks' = sinks \/ \E fs : sinks' = [sinks EXCEPT !.db = @ \o fs]
    BY <1>2 DEF WriterNext, WriterRecv, WriterTick, WriterInsert, WriterClosed, CancelWriter,
                Request
  <2>3. sinks'.ws = sinks.ws /\ sinks'.kafka = sinks.kafka /\ sinks'.redis = sinks.redis
    BY <2>2, SinkFacts
  <2> QED BY <1>2, <2>1, <2>3
<1>3. CASE \/ Ingest \/ ConsumerNext \/ ConsumerSend \/ EngineNext \/ BookNext \/ StreamEnds
           \/ Promote \/ CancelConsumer \/ CancelBook \/ Exit \/ PromotedExit \/ UNCHANGED vars
  <2>1. /\ phase' \in {phase, "closing", "exited"} /\ failures' \in {failures, failures + 1}
        /\ UNCHANGED <<fan, writer, settled, sinks>>
    BY <1>3 DEF Ingest, ConsumerNext, ConsumerSend, EngineNext, EngineRecv, EngineSendFill,
                EngineSendUpdate, EngineSave, EngineFollow, EnginePromoted, EngineClosed,
                BookNext, BookRecv, BookWrite, BookClosed, StreamEnds, Promote,
                CancelConsumer, CancelBook, Exit, PromotedExit, vars, process, fillPath, Fails
  <2> QED BY <2>1
<1>4. CASE PublishAgain
  <2>1. UNCHANGED <<phase, fan, writer, settled>> /\ failures' = failures + 1
    BY <1>4 DEF PublishAgain, Fails, process
  <2>2. PICK i \in 1..Len(sinks.ws) : sinks' = [sinks EXCEPT !.kafka = @ \o <<sinks.ws[i]>>]
    BY <1>4 DEF PublishAgain
  <2>3. /\ sinks'.kafka = sinks.kafka \o <<sinks.ws[i]>> /\ sinks'.ws = sinks.ws
        /\ sinks'.redis = sinks.redis /\ sinks'.db = sinks.db
    BY <2>2, SinkFacts
  <2> QED BY <2>1, <2>3
<1> QED BY <1>1, <1>2, <1>3, <1>4 DEF Next, ShutdownNext

(* The fan-out task publishes the fills in order: a record it adds to fills-out is
   late only because a repeated request has overtaken it, and was counted then. *)
LEMMA FanNotLate ==
  ASSUME FillsSound, SinksTyped, WsSound, InOrder, FanNext \/ CancelFan,
         \A i \in 1..Len(sinks.kafka) : sinks.kafka[i] <= Len(sinks.ws)
  PROVE  /\ LateRecords' <= LateRecords /\ LateRecords' \in Nat
         /\ \A i \in 1..Len(sinks'.kafka) : sinks'.kafka[i] <= Len(sinks'.ws)
<1> DEFINE k == sinks.kafka
           w == Len(sinks.ws)
           c == Cardinality(Late(k))
<1>1. /\ w \in Nat /\ k \in Seq(Nat) /\ Len(k) \in Nat /\ c \in Nat
      /\ \A i \in 1..Len(k) : k[i] \in Nat
  BY SinkFacts, LenProperties, LateFinite, ElementOfSeq
<1>2. fan \in FanType /\ FanSound
  BY DEF FillsSound
<1>3. \A step : [fan EXCEPT !.step = step].step = step
  BY <1>2 DEF FanType
<1>4. /\ LateRecords = c + (IF fan.step = "publish" /\ Behind(k, w) THEN 1 ELSE 0)
      /\ LateRecords' = Cardinality(Late(sinks'.kafka))
          + (IF fan'.step = "publish" /\ Behind(sinks'.kafka, Len(sinks'.ws)) THEN 1 ELSE 0)
  BY DEF LateRecords
<1>5. CASE FanRecv
  <2> DEFINE t == <<Head(fillCh)>>
  <2>1. sinks' = [sinks EXCEPT !.ws = @ \o t] /\ fillCh # << >>
    BY <1>5 DEF FanRecv
  <2>2. t \in Seq(Nat) /\ Len(t) = 1
    <3>1. Head(fillCh) \in 1..made
      BY <2>1, FillFacts, OneOut
    <3> QED BY <3>1
  <2>3. sinks'.kafka = k /\ sinks'.ws = sinks.ws \o t
    BY <2>1, SinkFacts
  <2>4. Len(sinks'.ws) = w + 1
    <3> HIDE DEF t
    <3>1. sinks.ws \in Seq(Nat)
      BY SinkFacts
    <3>2. Len(sinks.ws \o t) = Len(sinks.ws) + Len(t)
      BY <2>2, <3>1, ConcatProperties
    <3> QED BY <2>2, <2>3, <3>2
  <2>5. \A i \in 1..Len(k) : k[i] <= w
    OBVIOUS
  <2> HIDE DEF k, w, c
  <2>6. ~Behind(k, w + 1) /\ \A i \in 1..Len(k) : k[i] <= w + 1
    BY <1>1, <2>5 DEF Behind
  <2>7. LateRecords' = c + 0
    BY <1>4, <2>3, <2>4, <2>6 DEF c
  <2> QED BY <1>1, <1>4, <2>3, <2>4, <2>6, <2>7
<1>6. CASE sinks'.kafka = k /\ sinks'.ws = sinks.ws /\ fan'.step # "publish"
  <2>1. LateRecords' = c + 0
    BY <1>4, <1>6
  <2> HIDE DEF c
  <2>2. LateRecords' <= LateRecords /\ LateRecords' \in Nat
    BY <1>1, <1>4, <2>1
  <2> QED BY <1>6, <2>2
<1>7. CASE /\ fan.step = "publish" /\ fan'.step # "publish" /\ sinks'.ws = sinks.ws
           /\ sinks'.kafka = k \o fan.hold
  <2>1. fan.hold = <<w>>
    <3>1. Len(fan.hold) = 1 /\ fan.hold \in Seq(1..made) /\ Run(fan.hold, w - Len(fan.hold))
      BY <1>2, <1>7, PastFacts, FillFacts DEF FanSound
    <3>2. fan.hold[1] = (w - 1) + 1
      BY <3>1 DEF Run
    <3>3. fan.hold[1] = w
      BY <1>1, <3>2
    <3> QED BY <3>1, <3>3
  <2>2. sinks'.kafka = k \o <<w>>
    BY <1>7, <2>1
  <2>3. Cardinality(Late(k \o <<w>>)) = c + (IF Behind(k, w) THEN 1 ELSE 0)
    BY <1>1, LateAppend
  <2>4. LateRecords' = c + (IF Behind(k, w) THEN 1 ELSE 0) + 0
    BY <1>4, <1>7, <2>2, <2>3
  <2>5. LateRecords = c + (IF Behind(k, w) THEN 1 ELSE 0)
    BY <1>4, <1>7
  <2>6. ASSUME NEW i \in 1..Len(k \o <<w>>) PROVE (k \o <<w>>)[i] <= w
    <3>1. /\ Len(k \o <<w>>) = Len(k) + 1 /\ <<w>> \in Seq(Nat)
          /\ (k \o <<w>>)[i] = IF i <= Len(k) THEN k[i] ELSE <<w>>[i - Len(k)]
      BY <1>1, <2>6, ConcatProperties
    <3>2. CASE i <= Len(k)
      <4>1. i \in 1..Len(k)
        BY <1>1, <2>6, <3>1, <3>2
      <4> QED BY <3>1, <3>2, <4>1
    <3>3. CASE ~(i <= Len(k))
      <4>1. i - Len(k) = 1
        BY <1>1, <2>6, <3>1, <3>3
      <4> QED BY <1>1, <3>1, <3>3, <4>1
    <3> QED BY <3>2, <3>3
  <2> HIDE DEF c
  <2>7. LateRecords' <= LateRecords /\ LateRecords' \in Nat
    BY <1>1, <2>4, <2>5
  <2> QED BY <1>7, <2>2, <2>6, <2>7
<1>8. CASE FanDb \/ FanClosed
  <2>1. fan'.step # "publish" /\ sinks' = sinks
    <3>1. CASE fan' = [fan EXCEPT !.step = "done"]
      BY <1>3, <1>8, <3>1 DEF FanDb, FanClosed
    <3>2. CASE fan' = [step |-> "recv", hold |-> << >>]
      BY <1>8, <3>2 DEF FanDb, FanClosed
    <3> QED BY <1>8, <3>1, <3>2 DEF FanDb, FanClosed
  <2> QED BY <1>6, <2>1
<1>9. CASE FanPublish
  <2>1. fan.step = "publish" /\ fan'.step = "push"
    BY <1>3, <1>9 DEF FanPublish
  <2>2. \/ sinks' = sinks
        \/ sinks'.kafka = k \o fan.hold /\ sinks'.ws = sinks.ws
    BY <1>9, SinkFacts DEF FanPublish, Request
  <2> QED BY <1>6, <1>7, <2>1, <2>2
<1>10. CASE FanPush
  <2>1. fan'.step = "db"
    BY <1>3, <1>10 DEF FanPush
  <2>2. sinks'.kafka = k /\ sinks'.ws = sinks.ws
    BY <1>10, SinkFacts DEF FanPush, Request
  <2> QED BY <1>6, <2>1, <2>2
<1>11. CASE CancelFan
  <2>1. fan'.step = "done"
    BY <1>3, <1>11 DEF CancelFan
  <2>2. /\ sinks'.ws = sinks.ws
        /\ \/ sinks'.kafka = k
           \/ fan.step = "publish" /\ sinks'.kafka = k \o fan.hold
    <3>1. CASE sinks' = sinks
      BY <3>1
    <3>2. CASE fan.step = "publish" /\ sinks' = [sinks EXCEPT !.kafka = @ \o fan.hold]
      BY <3>2, SinkFacts
    <3>3. CASE fan.step = "push" /\ sinks' = [sinks EXCEPT !.redis = @ \o fan.hold]
      BY <3>3, SinkFacts
    <3> QED BY <1>11, <3>1, <3>2, <3>3 DEF CancelFan
  <2> QED BY <1>6, <1>7, <2>1, <2>2
<1> QED BY <1>5, <1>8, <1>9, <1>10, <1>11 DEF FanNext

(* A record that fills-out gets again is late, or makes the one under way late,
   but never both. *)
LEMMA AgainLate ==
  ASSUME SinksTyped, WsSound, NEW i \in 1..Len(sinks.ws),
         fan' = fan, sinks'.ws = sinks.ws, sinks'.kafka = sinks.kafka \o <<sinks.ws[i]>>,
         \A j \in 1..Len(sinks.kafka) : sinks.kafka[j] <= Len(sinks.ws)
  PROVE  /\ LateRecords' <= LateRecords + 1 /\ LateRecords' \in Nat
         /\ \A j \in 1..Len(sinks'.kafka) : sinks'.kafka[j] <= Len(sinks'.ws)
         /\ \A n \in Nat : Cardinality(Lacking(sinks'.kafka, n))
                               <= Cardinality(Lacking(sinks.kafka, n))
<1> DEFINE k == sinks.kafka
           w == Len(sinks.ws)
           c == Cardinality(Late(k))
           g == sinks.ws[i]
           k2 == k \o <<g>>
           B(n) == Behind(k, n)
<1>1. w \in Nat /\ k \in Seq(Nat) /\ Len(k) \in Nat /\ c \in Nat
  BY SinkFacts, LenProperties, LateFinite
<1>2. g \in Nat /\ g <= w
  <2>1. g = 0 + i
    BY DEF WsSound, Run
  <2> QED BY <1>1, <2>1
<1>3. /\ LateRecords = c + (IF fan.step = "publish" /\ B(w) THEN 1 ELSE 0)
      /\ LateRecords' = Cardinality(Late(k2))
          + (IF fan.step = "publish" /\ Behind(k2, w) THEN 1 ELSE 0)
  BY DEF LateRecords
<1>4. /\ Cardinality(Late(k2)) = c + (IF B(g) THEN 1 ELSE 0)
      /\ Behind(k2, w) <=> B(w) \/ g >= w
  BY <1>1, <1>2, LateAppend
<1>5. g = w => (B(g) <=> B(w))
  OBVIOUS
<1>6. /\ Len(k2) = Len(k) + 1
      /\ \A j \in 1 .. Len(k) + 1 : k2[j] = IF j <= Len(k) THEN k[j] ELSE g
  <2>1. <<g>> \in Seq(Nat) /\ Len(<<g>>) = 1 /\ <<g>>[1] = g
    BY <1>2
  <2>2. /\ Len(k2) = Len(k) + 1
        /\ \A j \in 1 .. Len(k) + 1 : k2[j] = IF j <= Len(k) THEN k[j] ELSE <<g>>[j - Len(k)]
    BY <1>1, <2>1, ConcatProperties
  <2>3. \A j \in 1 .. Len(k) + 1 : ~(j <= Len(k)) => j - Len(k) = 1
    BY <1>1
  <2> QED BY <2>1, <2>2, <2>3
<1>7. ASSUME NEW n \in Nat PROVE Cardinality(Lacking(k2, n)) <= Cardinality(Lacking(k, n))
  <2> HIDE DEF g, k2, k
  <2>1. ASSUME NEW f \in 1..n, \A j \in 1..Len(k2) : k2[j] # f
        PROVE  \A j \in 1..Len(k) : k[j] # f
    <3> TAKE j \in 1..Len(k)
    <3>1. j \in 1..Len(k2) /\ j <= Len(k) /\ j \in 1 .. Len(k) + 1
      BY <1>1, <1>6
    <3>2. k2[j] = k[j]
      BY <1>6, <3>1
    <3> QED BY <2>1, <3>1, <3>2
  <2>2. Lacking(k2, n) \in SUBSET Lacking(k, n)
    BY <2>1 DEF Lacking
  <2> QED BY <2>2, LackingFinite, FS_Subset
<1>8. \A j \in 1..Len(k2) : k2[j] <= w
  BY <1>1, <1>2, <1>6
<1>9. LateRecords' <= LateRecords + 1 /\ LateRecords' \in Nat
  <2> DEFINE P == fan.step = "publish"
             b1 == B(w)
             b2 == B(g)
             b3 == Behind(k2, w)
  <2>1. /\ LateRecords = c + (IF P /\ b1 THEN 1 ELSE 0)
        /\ LateRecords' = c + (IF b2 THEN 1 ELSE 0) + (IF P /\ b3 THEN 1 ELSE 0)
    BY <1>3, <1>4
  <2>2. (b3 <=> b1 \/ g = w) /\ (g = w => (b1 <=> b2))
    <3> HIDE DEF g, k2
    <3> QED BY <1>1, <1>2, <1>4, <1>5
  <2> HIDE DEF P, b1, b2, b3, c
  <2>3. P /\ b3 /\ b2 => b1
    BY <2>2
  <2>4. CASE P /\ b1
    <3>1. LateRecords = c + 1
      BY <2>1, <2>4
    <3> QED BY <1>1, <2>1, <3>1
  <2>5. CASE ~(P /\ b1)
    <3>1. LateRecords = c + 0 /\ ~(b2 /\ P /\ b3)
      BY <2>1, <2>3, <2>5
    <3>2. CASE b2
      <4>1. LateRecords' = c + 1 + 0
        BY <2>1, <3>1, <3>2
      <4> QED BY <1>1, <3>1, <4>1
    <3>3. CASE ~b2
      <4>1. LateRecords' \in {c + 0 + 0, c + 0 + 1}
        BY <2>1, <3>3
      <4> QED BY <1>1, <3>1, <4>1
    <3> QED BY <3>2, <3>3
  <2> QED BY <2>4, <2>5
<1> QED BY <1>7, <1>8, <1>9

(* What a step that loses x fills on the way to fills-out, y on the way to Redis
   and makes z records late does to the bounds. *)
LEMMA BoundsKept ==
  ASSUME NEW f \in Nat, NEW g \in Nat, NEW l \in Nat, NEW l2 \in Nat,
         NEW a \in Nat, NEW a2 \in Nat, NEW b \in Nat, NEW b2 \in Nat,
         NEW x \in Nat, NEW y \in Nat, NEW z \in Nat,
         l2 <= l + z, a2 <= a + x, b2 <= b + y
  PROVE  /\ l <= f /\ g >= f + z => l2 <= g
         /\ l + a + b <= f /\ g >= f + x + y + z => l2 + a2 + b2 <= g
OBVIOUS

(* No step of the process makes fills-out or Redis lack more than failed, or
   fills-out have more out of order than was repeated. *)
LEMMA NextFanSinks ==
  ASSUME PInv, SInv, [Next]_vars
  PROVE  FanSinksSound'
<1> DEFINE k == sinks.kafka
           r == sinks.redis
           p == Published
           q == Pushed
           t == fan.hold
           l == LateRecords
           ck == Cardinality(Lacking(k, p))
           cr == Cardinality(Lacking(r, q))
           m == LateRecords'
           dk == Cardinality(Lacking(sinks'.kafka, Published'))
           dr == Cardinality(Lacking(sinks'.redis, Pushed'))
           Below(u, n) == \A i \in 1..Len(u) : u[i] <= n
<1>1. /\ FillsSound /\ SinksTyped /\ WsSound /\ InOrder /\ failures \in Nat
      /\ p \in Nat /\ q \in Nat /\ k \in Seq(Nat) /\ r \in Seq(Nat) /\ t \in Seq(Nat)
  <2>1. FillsSound /\ SinksTyped /\ WsSound /\ InOrder /\ failures \in Nat
    BY BoundFacts DEF PInv, SInv, ProcessSound
  <2>2. 1..made \subseteq Nat
    OBVIOUS
  <2> QED BY <2>1, <2>2, PastFacts, SinkFacts, FillFacts, SeqLarger
<1>2. /\ Below(k, Len(sinks.ws)) /\ UpTo(r, q) /\ l <= failures
      /\ phase = "running" => l + ck + cr <= failures
  BY DEF SInv, FanSinksSound
<1>3. l \in Nat /\ ck \in Nat /\ cr \in Nat
  <2>1. Cardinality(Late(k)) \in Nat
    BY <1>1, LateFinite
  <2> QED BY <1>1, <2>1, LackingFinite DEF LateRecords
<1>4. /\ phase' = "running" => phase = "running"
      /\ failures' \in {failures, failures + 1} /\ failures' \in Nat
  BY <1>1, OthersKeepSinks
<1>5. \E x, y, z \in Nat :
        /\ UpTo(sinks'.redis, Pushed') /\ Below(sinks'.kafka, Len(sinks'.ws))
        /\ m \in Nat /\ dk \in Nat /\ dr \in Nat
        /\ m <= l + z /\ dk <= ck + x /\ dr <= cr + y
        /\ failures' >= failures + z
        /\ phase' = "running" => failures' >= failures + x + y + z
  <2>1. CASE FanNext \/ CancelFan
    <3>1. PICK x \in Nat, y \in Nat :
            /\ SinkMoves(k, p, t, sinks'.kafka, Published', x)
            /\ SinkMoves(r, q, t, sinks'.redis, Pushed', y)
            /\ phase' = "running" => phase = "running" /\ failures' = failures + x + y
      BY <1>1, <2>1, FanMoves
    <3>2. m <= l /\ m \in Nat /\ Below(sinks'.kafka, Len(sinks'.ws))
      BY <1>1, <1>2, <2>1, FanNotLate
    <3> HIDE DEF k, r, p, q, t
    <3>3. dk \in Nat /\ dk <= ck + x
      BY <1>1, <3>1, SinkLacks
    <3>4. dr \in Nat /\ dr <= cr + y /\ UpTo(sinks'.redis, Pushed')
      BY <1>1, <1>2, <3>1, SinkLacks, SinkMoved
    <3> HIDE DEF l, ck, cr, m, dk, dr, Below
    <3>5. /\ m <= l + 0 /\ failures' >= failures + 0
          /\ phase' = "running" => failures' >= failures + x + y + 0
      BY <1>1, <1>3, <1>4, <3>1, <3>2
    <3> QED BY <3>2, <3>3, <3>4, <3>5
  <2>2. CASE ~(FanNext \/ CancelFan)
    <3>1. /\ fan' = fan /\ sinks'.ws = sinks.ws /\ sinks'.redis = r
          /\ \/ sinks'.kafka = k
             \/ /\ failures' = failures + 1
                /\ \E i \in 1..Len(sinks.ws) : sinks'.kafka = k \o <<sinks.ws[i]>>
      BY <1>1, <2>2, OthersKeepSinks
    <3>2. Published' = p /\ Pushed' = q
      BY <3>1 DEF Published, Pushed, Past
    <3>3. dr = cr /\ UpTo(sinks'.redis, Pushed')
      BY <1>2, <3>1, <3>2
    <3>4. CASE sinks'.kafka = k
      <4>1. m = l /\ dk = ck /\ Below(sinks'.kafka, Len(sinks'.ws))
        BY <1>2, <3>1, <3>2, <3>4 DEF LateRecords
      <4> HIDE DEF l, ck, cr, m, dk, dr, Below
      <4>2. /\ m <= l + 0 /\ dk <= ck + 0 /\ dr <= cr + 0 /\ failures' >= failures + 0
            /\ failures' >= failures + 0 + 0 + 0 /\ m \in Nat /\ dk \in Nat /\ dr \in Nat
        BY <1>1, <1>3, <1>4, <3>3, <4>1
      <4> QED BY <3>3, <4>1, <4>2
    <3>5. CASE /\ failures' = failures + 1
               /\ \E i \in 1..Len(sinks.ws) : sinks'.kafka = k \o <<sinks.ws[i]>>
      <4>1. PICK i \in 1..Len(sinks.ws) : sinks'.kafka = k \o <<sinks.ws[i]>>
        BY <3>5
      <4>2. /\ m <= l + 1 /\ m \in Nat /\ Below(sinks'.kafka, Len(sinks'.ws))
            /\ Cardinality(Lacking(sinks'.kafka, p)) <= ck
        BY <1>1, <1>2, <3>1, <4>1, AgainLate
      <4>3. dk <= ck /\ dk \in Nat
        BY <1>1, <3>2, <4>2, LackingFinite
      <4> HIDE DEF l, ck, cr, m, dk, dr, Below
      <4>4. /\ dk <= ck + 0 /\ dr <= cr + 0 /\ failures' >= failures + 1
            /\ failures' >= failures + 0 + 0 + 1 /\ dr \in Nat
        BY <1>1, <1>3, <3>3, <3>5, <4>3
      <4> QED BY <3>3, <4>2, <4>3, <4>4
    <3> QED BY <3>1, <3>4, <3>5
  <2> QED BY <2>1, <2>2
<1> HIDE DEF l, ck, cr, m, dk, dr
<1>6. m <= failures' /\ (phase' = "running" => m + dk + dr <= failures')
  BY <1>1, <1>2, <1>3, <1>4, <1>5, BoundsKept
<1> QED BY <1>5, <1>6 DEF FanSinksSound, m, dk, dr

(* ... nor Postgres more than the batches that failed. *)
LEMMA NextDb ==
  ASSUME PInv, SInv, [Next]_vars
  PROVE  DbSound'
<1> DEFINE d == sinks.db
           n == Inserted
           b == writer.batch
           c == Cardinality(Lacking(d, n))
           e == Cardinality(Lacking(sinks'.db, Inserted'))
           f == failures
           g == failures'
           B == BatchSize
<1>1. /\ FillsSound /\ SinksTyped /\ InOrder /\ f \in Nat
      /\ n \in Nat /\ d \in Seq(Nat) /\ b \in Seq(Nat) /\ B \in Nat
  <2>1. FillsSound /\ SinksTyped /\ InOrder /\ f \in Nat /\ B \in Nat
    BY BoundFacts DEF PInv, SInv, ProcessSound
  <2>2. 1..made \subseteq Nat
    OBVIOUS
  <2>3. n \in Nat
    BY <2>1, FillFacts DEF Inserted
  <2> QED BY <2>1, <2>2, <2>3, SinkFacts, FillFacts, SeqLarger
<1>2. UpTo(d, n) /\ (phase = "running" => c <= B * f)
  BY DEF SInv, DbSound
<1>3. PICK x \in Nat :
        /\ SinkMoves(d, n, b, sinks'.db, Inserted', x)
        /\ phase' = "running" =>
             /\ phase = "running"
             /\ \/ x = 0 /\ g \in {f, f + 1}
                \/ x <= B /\ g = f + 1
  <2>1. CASE WriterNext \/ CancelWriter
    BY <1>1, <2>1, WriterMoves
  <2>2. CASE ~(WriterNext \/ CancelWriter)
    <3>1. /\ phase' = "running" => phase = "running"
          /\ g \in {f, f + 1}
          /\ writer' = writer /\ settled' = settled /\ sinks'.db = d
      BY <1>1, <2>2, OthersKeepSinks
    <3>2. Inserted' = n
      BY <3>1 DEF Inserted
    <3> HIDE DEF d, n, b, f, g, B
    <3>3. Inserted' = n + 0
      BY <1>1, <3>2
    <3>4. SinkMoves(d, n, b, sinks'.db, Inserted', 0)
      BY <3>1, <3>3 DEF SinkMoves
    <3> QED BY <3>1, <3>4
  <2> QED BY <2>1, <2>2
<1> HIDE DEF d, n, b
<1>4. UpTo(sinks'.db, Inserted') /\ c \in Nat /\ e \in Nat /\ e <= c + x
  BY <1>1, <1>2, <1>3, SinkLacks, SinkMoved
<1> HIDE DEF c, e, f, g, B
<1>5. B * (f + 1) = B * f + B /\ B * f \in Nat
  BY <1>1
<1>6. ASSUME phase' = "running" PROVE e <= B * g
  <2> DEFINE m == B * f
  <2>1. c <= m /\ m \in Nat /\ B * (f + 1) = m + B
    BY <1>2, <1>3, <1>5, <1>6
  <2> HIDE DEF m
  <2>2. CASE x = 0 /\ g = f
    BY <1>4, <2>1, <2>2 DEF m
  <2>3. CASE x <= B /\ g = f + 1
    <3>1. e <= m + B
      BY <1>1, <1>4, <2>1, <2>3
    <3> QED BY <2>1, <2>3, <3>1
  <2>4. CASE x = 0 /\ g = f + 1
    <3>1. x <= B
      BY <1>1, <2>4
    <3> QED BY <2>3, <2>4, <3>1
  <2> QED BY <1>3, <1>6, <2>2, <2>3, <2>4
<1> QED BY <1>4, <1>6 DEF DbSound, e, g, B

(* No fill has reached a sink when the process starts, and none has to. *)
LEMMA InitSInv == Init => SInv
<1> SUFFICES ASSUME Init PROVE SInv
  OBVIOUS
<1>1. /\ sinks.ws = << >> /\ sinks.kafka = << >> /\ sinks.redis = << >> /\ sinks.db = << >>
      /\ writer.batch = << >> /\ writer.buf = << >> /\ fan.hold = << >> /\ dbCh = << >>
      /\ fillCh = << >> /\ out = << >> /\ settled = << >> /\ made = 0 /\ failures = 0
  BY DEF Init
<1>2. << >> \o << >> = << >> /\ Len(<< >>) = 0
  OBVIOUS
<1>3. \A n : Run(<< >>, n) /\ UpTo(<< >>, n)
  BY <1>2 DEF Run, UpTo, Increasing
<1>4. InOrder /\ WsSound
  BY <1>1, <1>2, <1>3 DEF InOrder, WsSound, Way
<1>5. Published = 0 /\ Pushed = 0 /\ Inserted = 0
  BY <1>1, <1>2 DEF Published, Pushed, Past, Inserted
<1>6. Cardinality(Lacking(<< >>, 0)) = 0
  <2>1. Lacking(<< >>, 0) = {}
    BY DEF Lacking
  <2> QED BY <2>1, FS_EmptySet
<1>7. BatchSize * 0 = 0
  BY BoundFacts
<1>8. LateRecords = 0
  <2>1. Late(<< >>) = {} /\ \A n : ~Behind(<< >>, n)
    BY <1>2 DEF Late, Behind
  <2>2. Cardinality(Late(<< >>)) = 0
    BY <2>1, FS_EmptySet
  <2> QED BY <1>1, <2>1, <2>2 DEF LateRecords
<1>9. FanSinksSound /\ DbSound
  BY <1>1, <1>2, <1>3, <1>5, <1>6, <1>7, <1>8 DEF FanSinksSound, DbSound
<1> QED BY <1>4, <1>9 DEF SInv

(* The bounds of the invariant are those of the property. *)
LEMMA SInvSinksInOrder == PInv /\ SInv => SinksInOrder
<1> SUFFICES ASSUME PInv, SInv PROVE SinksInOrder
  OBVIOUS
<1>1. /\ FillsSound /\ SinksTyped /\ WsSound /\ InOrder /\ FanSinksSound /\ DbSound
      /\ failures \in Nat /\ BatchSize \in Nat
  BY BoundFacts DEF PInv, SInv, ProcessSound
<1>2. sinks.ws \in Seq(Nat) /\ Len(sinks.ws) \in Nat
  BY <1>1, SinkFacts, LenProperties
<1>3. \A i \in 1..Len(sinks.ws) : sinks.ws[i] = i
  BY <1>1, <1>2 DEF WsSound, Run
<1>4. Increasing(sinks.redis) /\ Increasing(sinks.db)
  BY <1>1 DEF FanSinksSound, DbSound, UpTo
<1> DEFINE o1 == Cardinality(Overtaken)
<1>5. o1 \in Nat /\ LateRecords \in Nat /\ o1 <= LateRecords
  <2>1. Overtaken \in SUBSET Late(sinks.kafka)
    BY DEF Overtaken, Late
  <2>2. IsFiniteSet(Late(sinks.kafka)) /\ Cardinality(Late(sinks.kafka)) \in Nat
    BY <1>1, SinkFacts, LateFinite
  <2>3. IsFiniteSet(Overtaken) /\ o1 <= Cardinality(Late(sinks.kafka))
    BY <2>1, <2>2, FS_Subset
  <2>4. o1 \in Nat
    BY <2>3, FS_CardinalityType
  <2> HIDE DEF o1
  <2> QED BY <2>2, <2>3, <2>4 DEF LateRecords
<1>6. o1 <= failures
  <2> HIDE DEF o1
  <2> QED BY <1>1, <1>5 DEF FanSinksSound
<1>7. ASSUME phase = "running"
      PROVE  /\ o1 + Cardinality(Lacking(sinks.kafka, Past({"push", "db"})))
                + Cardinality(Lacking(sinks.redis, Past({"db"}))) <= failures
             /\ Cardinality(Lacking(sinks.db, Len(settled))) <= BatchSize * failures
  <2> DEFINE p == Past({"push", "db"})
             q == Past({"db"})
             n == Len(settled)
  <2>1. /\ p \in Nat /\ p <= Published /\ Published \in Nat
        /\ q \in Nat /\ q <= Pushed /\ Pushed \in Nat
    <3> DEFINE w == Len(sinks.ws)
               h == Len(fan.hold)
    <3>1. /\ w \in Nat /\ h \in Nat /\ w - h \in Nat
          /\ Published \in Nat /\ Pushed \in Nat
      BY <1>1, PastFacts
    <3>2. /\ p = IF fan.step \in {"push", "db"} THEN w ELSE w - h
          /\ Published = IF fan.step \in {"push", "db", "done"} THEN w ELSE w - h
          /\ q = IF fan.step \in {"db"} THEN w ELSE w - h
          /\ Pushed = IF fan.step \in {"db", "done"} THEN w ELSE w - h
      BY DEF Published, Pushed, Past
    <3> HIDE DEF w, h, p, q
    <3> QED BY <3>1, <3>2
  <2>2. n \in Nat /\ n <= Inserted /\ Inserted \in Nat
    <3>1. n \in Nat /\ Len(writer.batch) \in Nat
      BY <1>1, FillFacts
    <3> QED BY <3>1 DEF Inserted
  <2> HIDE DEF p, q, n
  <2> DEFINE a1 == Cardinality(Lacking(sinks.kafka, p))
             a2 == Cardinality(Lacking(sinks.kafka, Published))
             b1 == Cardinality(Lacking(sinks.redis, q))
             b2 == Cardinality(Lacking(sinks.redis, Pushed))
             c1 == Cardinality(Lacking(sinks.db, n))
             c2 == Cardinality(Lacking(sinks.db, Inserted))
  <2>3. /\ a1 <= a2 /\ a1 \in Nat /\ a2 \in Nat
        /\ b1 <= b2 /\ b1 \in Nat /\ b2 \in Nat
        /\ c1 <= c2 /\ c1 \in Nat /\ c2 \in Nat
    BY <2>1, <2>2, LackingFewer, LackingFinite
  <2>4. LateRecords + a2 + b2 <= failures /\ c2 <= BatchSize * failures
    BY <1>1, <1>7 DEF FanSinksSound, DbSound
  <2> HIDE DEF o1, a1, a2, b1, b2, c1, c2
  <2>5. o1 + a1 + b1 <= failures
    BY <1>1, <1>5, <2>3, <2>4
  <2>6. c1 <= BatchSize * failures
    <3> DEFINE m == BatchSize * failures
    <3>1. m \in Nat /\ c2 <= m
      BY <1>1, <2>4
    <3> HIDE DEF m
    <3>2. c1 <= m
      BY <2>3, <3>1
    <3> QED BY <3>2 DEF m
  <2> QED BY <2>5, <2>6 DEF a1, b1, c1, p, q, n
<1> QED BY <1>3, <1>4, <1>6, <1>7 DEF SinksInOrder

(* The WebSocket clients, Redis and Postgres see the fills in the order they were
   made, each at most once; a partition of fills-out has no more repeated or late
   records than the producer's requests that failed or were sent again; and no sink
   lacks a fill but those whose request or batch failed.  For every batch size, every
   capacity of the channels and every way the fills are spread over partitions. *)
THEOREM Sinks == Spec => []SinksInOrder
<1>1. PInv /\ SInv /\ [Next]_vars => SInv'
  <2> SUFFICES ASSUME PInv, SInv, [Next]_vars PROVE SInv'
    OBVIOUS
  <2>1. InOrder' /\ WsSound'
    BY NextInOrder, NextWs DEF SInv
  <2>2. FanSinksSound' /\ DbSound'
    BY NextFanSinks, NextDb
  <2> QED BY <2>1, <2>2 DEF SInv
<1> QED BY <1>1, InitSInv, SInvSinksInOrder, PipelineInvariance, PTL DEF Spec
=============================================================================
