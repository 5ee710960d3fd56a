---------------------------- MODULE RecoveryProofs ----------------------------
(***************************************************************************)
(* Recovery for all constants, in three invariants, for any number of      *)
(* partitions, stops, failures and expired records.                        *)
(*   - SoundInv: the topic, the snapshot row and the books are sound.      *)
(*   - OnceInv: in the partitions that a process, or the row, has followed *)
(*     from the beginning, the messages before the position are in the     *)
(*     book, each once and in order.                                       *)
(*   - FollowInv: the book of a process, and that of the row, has the      *)
(*     depth of the messages it has applied, replayed without a stop.      *)
(***************************************************************************)
EXTENDS RecoveryBookProofs

Fields == {"mode", "next", "book", "sequence", "processed", "saving",
           "last_offset", "outbox", "applied", "intact"}

(* The topic: as many different orders as the bound allows. *)
LogSound ==
  /\ log \in [Partitions -> Seq(Order)]
  /\ IsFiniteSet(Produced) /\ Cardinality(Produced) <= MaxOrders
-----------------------------------------------------------------------------
(* Uuid::new_v4 finds an id while the topic is not full. *)
LEMMA FreshIdExists ==
  ASSUME LogSound, Cardinality(Produced) # MaxOrders
  PROVE  FreshId \in Ids /\ \A o \in Produced : o.id # FreshId
<1> DEFINE used == {o.id : o \in Produced}
<1>1. IsFiniteSet(Produced) /\ Cardinality(Produced) \in Nat /\ MaxOrders \in Nat
  BY FS_CardinalityType, RecoveryAssumption DEF LogSound
<1>2. IsFiniteSet(used) /\ Cardinality(used) <= Cardinality(Produced)
  <2> DEFINE f == [o \in Produced |-> o.id]
  <2>1. f \in Surjection(Produced, used)
    BY DEF Surjection
  <2> QED BY <1>1, <2>1, FS_Surjection
<1>3. Cardinality(used) \in Nat /\ Cardinality(Ids) \in Nat
  BY <1>2, FS_CardinalityType, RecoveryAssumption
<1>4. ~(Ids \subseteq used)
  <2>1. SUFFICES ASSUME Ids \subseteq used PROVE FALSE
    OBVIOUS
  <2>2. Cardinality(Ids) <= Cardinality(used)
    BY <1>2, <2>1, FS_Subset
  <2>3. Cardinality(Ids) >= MaxOrders /\ Cardinality(Produced) <= MaxOrders
    BY RecoveryAssumption DEF LogSound
  <2> QED BY <1>1, <1>2, <1>3, <2>2, <2>3
<1>5. \E id \in Ids : \A o \in Produced : o.id # id
  BY <1>4
<1> QED BY <1>5 DEF FreshId

(* What place_order publishes is an order. *)
LEMMA NewOrdersTyped ==
  ASSUME LogSound, NEW o \in NewOrders
  PROVE  o \in Order /\ Cardinality(Produced) # MaxOrders
<1>1. Cardinality(Produced) # MaxOrders
  BY DEF NewOrders
<1>2. o \in [id : {FreshId}, side : Side, order_type : OrderType,
             price : Prices \cup {NoPrice}, quantity : Quantities,
             filled : {0}, status : {"Open"}, sequence : {0}]
  BY <1>1 DEF NewOrders
<1>3. FreshId \in Ids
  BY <1>1, FreshIdExists
<1>4. /\ {FreshId} \subseteq Ids /\ Quantities \subseteq Int /\ {0} \subseteq Int
      /\ {"Open"} \subseteq OrderStatus
  BY <1>3, RecoveryAssumption DEF OrderStatus
<1>5. o \in Order
  BY <1>2, <1>4 DEF Order
<1> QED BY <1>1, <1>5

(* One record more in the topic. *)
LEMMA LogGrows ==
  ASSUME LogSound, NEW q \in Partitions, NEW o \in Order,
         log' = [log EXCEPT ![q] = Append(@, o)]
  PROVE  /\ log' \in [Partitions -> Seq(Order)]
         /\ Produced' = Produced \cup {o}
         /\ \A p \in Partitions : Len(log[p]) \in Nat /\ Len(log'[p]) \in Nat
         /\ \A p \in Partitions : Len(log'[p]) = IF p = q THEN Len(log[p]) + 1 ELSE Len(log[p])
         /\ \A p \in Partitions : \A i \in 1..Len(log[p]) : log'[p][i] = log[p][i]
<1>1. log \in [Partitions -> Seq(Order)]
  BY DEF LogSound
<1>2. /\ Append(log[q], o) \in Seq(Order)
      /\ Len(Append(log[q], o)) = Len(log[q]) + 1
      /\ \A i \in 1..Len(log[q]) : Append(log[q], o)[i] = log[q][i]
      /\ Append(log[q], o)[Len(log[q]) + 1] = o
  BY <1>1, AppendProperties
<1>3. \A p \in Partitions : log'[p] = IF p = q THEN Append(log[q], o) ELSE log[p]
  BY <1>1
<1>4. log' \in [Partitions -> Seq(Order)]
  BY <1>1, <1>2
<1>5. \A p \in Partitions : Len(log[p]) \in Nat /\ Len(log'[p]) \in Nat
  BY <1>1, <1>4, LenProperties
<1>6. Range(Append(log[q], o)) = Range(log[q]) \cup {o}
  <2>1. DOMAIN log[q] = 1..Len(log[q]) /\ DOMAIN Append(log[q], o) = 1..(Len(log[q]) + 1)
    BY <1>1, <1>2, LenProperties
  <2>2. Len(log[q]) \in Nat
    BY <1>5
  <2>3. \A x : x \in Range(Append(log[q], o)) => x \in Range(log[q]) \cup {o}
    BY <1>2, <2>1, <2>2 DEF Range
  <2>4. \A x : x \in Range(log[q]) \cup {o} => x \in Range(Append(log[q], o))
    <3>1. Len(log[q]) + 1 \in 1..(Len(log[q]) + 1)
      BY <2>2
    <3>2. \A i \in 1..Len(log[q]) : i \in 1..(Len(log[q]) + 1)
      BY <2>2
    <3> QED BY <1>2, <2>1, <3>1, <3>2 DEF Range
  <2> QED BY <2>3, <2>4
<1>7. Produced' = Produced \cup {o}
  <2>1. Produced' = UNION {Range(log'[p]) : p \in Partitions}
    BY DEF Produced, Range
  <2> QED BY <1>3, <1>6, <2>1 DEF Produced
<1> QED BY <1>2, <1>3, <1>4, <1>5, <1>7

(* The topic only grows, and stays within its bound. *)
LEMMA LogSoundNext ==
  ASSUME LogSound, [Next]_vars
  PROVE  /\ LogSound'
         /\ \A p \in Partitions : Len(log[p]) \in Nat /\ Len(log'[p]) \in Nat
         /\ \A p \in Partitions : Len(log[p]) <= Len(log'[p])
<1>1. CASE log' = log
  <2>1. \A p \in Partitions : Len(log[p]) \in Nat
    BY LenProperties DEF LogSound
  <2> QED BY <1>1, <2>1 DEF LogSound, Produced
<1>2. ASSUME NEW p \in Partitions, NEW o \in NewOrders, Produce(p, o)
      PROVE  LogSound' /\ \A q \in Partitions : /\ Len(log[q]) \in Nat /\ Len(log'[q]) \in Nat
                                                /\ Len(log[q]) <= Len(log'[q])
  <2>1. o \in Order /\ Cardinality(Produced) # MaxOrders
    BY NewOrdersTyped
  <2>2. /\ log' \in [Partitions -> Seq(Order)] /\ Produced' = Produced \cup {o}
        /\ \A q \in Partitions : Len(log[q]) \in Nat /\ Len(log'[q]) \in Nat
        /\ \A q \in Partitions : Len(log'[q]) = IF q = p THEN Len(log[q]) + 1 ELSE Len(log[q])
    BY <1>2, <2>1, LogGrows DEF Produce
  <2>3. IsFiniteSet(Produced') /\ Cardinality(Produced') <= Cardinality(Produced) + 1
    <3>1. IsFiniteSet(Produced) /\ Cardinality(Produced) \in Nat
      BY FS_CardinalityType DEF LogSound
    <3>2. IsFiniteSet(Produced \cup {o}) /\ Cardinality(Produced \cup {o}) <= Cardinality(Produced) + 1
      <4>1. /\ IsFiniteSet(Produced \cup {o})
            /\ \/ Cardinality(Produced \cup {o}) = Cardinality(Produced)
               \/ Cardinality(Produced \cup {o}) = Cardinality(Produced) + 1
        BY <3>1, FS_AddElement
      <4> QED BY <3>1, <4>1
    <3> QED BY <2>2, <3>2
  <2>4. Cardinality(Produced') \in Nat /\ Cardinality(Produced) \in Nat /\ MaxOrders \in Nat
    BY <2>3, FS_CardinalityType, RecoveryAssumption DEF LogSound
  <2>5. Cardinality(Produced') <= MaxOrders
    BY <2>1, <2>3, <2>4 DEF LogSound
  <2> QED BY <2>2, <2>3, <2>5 DEF LogSound
<1>3. ASSUME NEW p \in Partitions, NEW o \in Range(log[p]), ProduceAgain(p, o)
      PROVE  LogSound' /\ \A q \in Partitions : /\ Len(log[q]) \in Nat /\ Len(log'[q]) \in Nat
                                                /\ Len(log[q]) <= Len(log'[q])
  <2>1. o \in Order
    <3>1. log[p] \in Seq(Order)
      BY DEF LogSound
    <3>2. PICK i \in DOMAIN log[p] : o = log[p][i]
      BY <1>3 DEF Range
    <3> QED BY <3>1, <3>2, ElementOfSeq, LenProperties
  <2>2. /\ log' \in [Partitions -> Seq(Order)] /\ Produced' = Produced \cup {o}
        /\ \A q \in Partitions : Len(log[q]) \in Nat /\ Len(log'[q]) \in Nat
        /\ \A q \in Partitions : Len(log'[q]) = IF q = p THEN Len(log[q]) + 1 ELSE Len(log[q])
    BY <1>3, <2>1, LogGrows DEF ProduceAgain
  <2>3. Produced' = Produced
    <3>1. o \in Produced
      BY <1>3 DEF Produced
    <3> QED BY <2>2, <3>1
  <2>4. IsFiniteSet(Produced') /\ Cardinality(Produced') <= MaxOrders
    BY <2>3 DEF LogSound
  <2>5. ASSUME NEW q \in Partitions PROVE Len(log[q]) <= Len(log'[q])
    <3>1. Len(log[q]) \in Nat /\ Len(log'[q]) = IF q = p THEN Len(log[q]) + 1 ELSE Len(log[q])
      BY <2>2
    <3> QED BY <3>1
  <2> QED BY <2>2, <2>4, <2>5 DEF LogSound
<1>4. CASE \E k \in Pods : Start(k) \/ Engine(k) \/ SaveSnapshot(k) \/ Flush(k) \/ Stop(k)
  <2>1. log' = log
    BY <1>4 DEF Start, Engine, ResetOffset, Consume, Follow, SaveSnapshot, Flush, Stop
  <2> QED BY <1>1, <2>1
<1>5. CASE UNCHANGED vars
  BY <1>1, <1>5 DEF vars
<1>6. CASE \E p \in Partitions : Expire(p)
  BY <1>1, <1>6 DEF Expire
<1> QED BY <1>2, <1>3, <1>4, <1>5, <1>6 DEF Next
-----------------------------------------------------------------------------
(* Down has all its fields. *)
LEMMA DownFields ==
  /\ DOMAIN Down = Fields
  /\ Down.mode = "down" /\ Down.next = [p \in Partitions |-> 0] /\ ~Down.saving
  /\ Down.last_offset = 0 /\ Down.applied = << >> /\ Down.intact = {}
  /\ Down.book = EmptyBook
  /\ Down.sequence = 0 /\ Down.processed = 0 /\ Down.outbox = << >>
BY DEF Down, Fields
-----------------------------------------------------------------------------
(* The topic: every record is as it was published, an id belongs to one order, a
   partition has as many repeated records as there have been failures at most, and
   no more records have expired than there are. *)
TopicSound ==
  /\ LogSound
  /\ \A o \in Produced : Arriving(o)
  /\ \A o, u \in Produced : o.id = u.id => o = u
  /\ \A p \in Partitions : Len(log[p]) <= Cardinality(Range(log[p])) + failures
  /\ low = [p \in Partitions |-> low[p]] /\ \A p \in Partitions : low[p] \in 0..Len(log[p])
  /\ stops \in 0..MaxStops /\ failures \in 0..MaxFailures

(* The memory of a process. *)
ProcSound(r) ==
  /\ DOMAIN r = Fields
  /\ r.mode \in {"down", "leader", "follower"}
  /\ r.next \in [Partitions -> 0..MaxMessages]
  /\ BookSound(r.book)
  /\ r.sequence \in Nat /\ r.processed \in Nat
  /\ r.last_offset \in 0..MaxMessages
  /\ r.saving \in BOOLEAN
  /\ r.saving => r.mode = "leader" /\ r.last_offset \in 0..(MaxMessages - 1)

(* The memories of all processes. *)
ProcsSound == proc = [k \in Pods |-> proc[k]] /\ \A k \in Pods : ProcSound(proc[k])

(* The snapshot row: its orders can be restored. *)
SavedSound ==
  saved # NoSnapshot => RowSound(saved.orders) /\ saved.kafka_offset \in 0..(MaxMessages - 1)

(* The inductive invariant of the types and the books, for any number of partitions. *)
SoundInv == TopicSound /\ ProcsSound /\ SavedSound
-----------------------------------------------------------------------------
(* The records of a partition, as a sequence and as a set. *)
LEMMA ProducedFacts ==
  ASSUME LogSound
  PROVE  \A p \in Partitions :
           /\ Len(log[p]) \in Nat
           /\ \A i \in 1..Len(log[p]) : log[p][i] \in Range(log[p]) /\ log[p][i] \in Produced
           /\ \A o \in Range(log[p]) : \E i \in 1..Len(log[p]) : o = log[p][i]
           /\ Range(log[p]) \subseteq Produced
           /\ IsFiniteSet(Range(log[p])) /\ Cardinality(Range(log[p])) \in Nat
           /\ Cardinality(Range(log[p])) <= MaxOrders
<1> SUFFICES ASSUME NEW p \in Partitions
             PROVE  /\ Len(log[p]) \in Nat
                    /\ \A i \in 1..Len(log[p]) : log[p][i] \in Range(log[p]) /\ log[p][i] \in Produced
                    /\ \A o \in Range(log[p]) : \E i \in 1..Len(log[p]) : o = log[p][i]
                    /\ Range(log[p]) \subseteq Produced
                    /\ IsFiniteSet(Range(log[p])) /\ Cardinality(Range(log[p])) \in Nat
                    /\ Cardinality(Range(log[p])) <= MaxOrders
  OBVIOUS
<1>1. Len(log[p]) \in Nat /\ DOMAIN log[p] = 1..Len(log[p])
  BY LenProperties DEF LogSound
<1>2. Range(log[p]) \subseteq Produced
  BY DEF Produced
<1>3. /\ IsFiniteSet(Range(log[p])) /\ Cardinality(Range(log[p])) \in Nat
      /\ Cardinality(Range(log[p])) <= Cardinality(Produced)
  BY <1>2, FS_Subset, FS_CardinalityType DEF LogSound
<1>4. Cardinality(Range(log[p])) <= MaxOrders
  <2>1. Cardinality(Produced) \in Nat /\ Cardinality(Produced) <= MaxOrders /\ MaxOrders \in Nat
    BY FS_CardinalityType, RecoveryAssumption DEF LogSound
  <2> QED BY <1>3, <2>1
<1>5. \A i \in 1..Len(log[p]) : log[p][i] \in Range(log[p])
  BY <1>1 DEF Range
<1>6. \A o \in Range(log[p]) : \E i \in 1..Len(log[p]) : o = log[p][i]
  BY <1>1 DEF Range
<1> QED BY <1>1, <1>2, <1>3, <1>4, <1>5, <1>6

(* A partition has no more records than the bounds allow. *)
LEMMA TopicBound ==
  ASSUME TopicSound
  PROVE  \A p \in Partitions : Len(log[p]) \in 0..MaxMessages
<1> SUFFICES ASSUME NEW p \in Partitions PROVE Len(log[p]) \in 0..MaxMessages
  OBVIOUS
<1>1. /\ Len(log[p]) \in Nat /\ Cardinality(Range(log[p])) \in Nat
      /\ Cardinality(Range(log[p])) <= MaxOrders
  BY ProducedFacts DEF TopicSound
<1>2. Len(log[p]) <= Cardinality(Range(log[p])) + failures /\ failures \in 0..MaxFailures
  BY DEF TopicSound
<1>3. MaxOrders \in Nat /\ MaxFailures \in Nat /\ MaxMessages = MaxOrders + MaxFailures
  BY RecoveryAssumption DEF MaxMessages
<1> QED BY <1>1, <1>2, <1>3

(* The set of the records of a partition, with one record more. *)
LEMMA RangeGrows ==
  ASSUME LogSound, NEW q \in Partitions, NEW o \in Order,
         log' = [log EXCEPT ![q] = Append(@, o)]
  PROVE  /\ Range(log'[q]) = Range(log[q]) \cup {o}
         /\ \A p \in Partitions : p # q => log'[p] = log[p]
<1>1. log[q] \in Seq(Order) /\ log'[q] = Append(log[q], o)
  BY DEF LogSound
<1>2. /\ Len(log[q]) \in Nat /\ DOMAIN log[q] = 1..Len(log[q])
      /\ DOMAIN log'[q] = 1..(Len(log[q]) + 1)
      /\ \A i \in 1..Len(log[q]) : log'[q][i] = log[q][i]
      /\ log'[q][Len(log[q]) + 1] = o
  BY <1>1, AppendProperties, LenProperties
<1>3. 1..(Len(log[q]) + 1) = (1..Len(log[q])) \cup {Len(log[q]) + 1}
  BY <1>2
<1>4. Range(log'[q]) = Range(log[q]) \cup {o}
  BY <1>2, <1>3 DEF Range
<1>5. \A p \in Partitions : p # q => log'[p] = log[p]
  BY DEF LogSound
<1> QED BY <1>4, <1>5

(* A low watermark is still within a partition that has more records. *)
LEMMA LowWithin ==
  ASSUME TopicSound, low' = low, \A p \in Partitions : Len(log'[p]) >= Len(log[p]),
         \A p \in Partitions : Len(log'[p]) \in Nat
  PROVE  /\ low' = [p \in Partitions |-> low'[p]]
         /\ \A p \in Partitions : low'[p] \in 0..Len(log'[p])
<1>1. low' = [p \in Partitions |-> low'[p]]
  BY DEF TopicSound
<1>2. ASSUME NEW p \in Partitions PROVE low'[p] \in 0..Len(log'[p])
  <2>1. /\ low[p] \in 0..Len(log[p]) /\ Len(log[p]) \in Nat /\ Len(log'[p]) \in Nat
        /\ Len(log'[p]) >= Len(log[p])
    BY LenProperties DEF TopicSound, LogSound
  <2> QED BY <2>1
<1> QED BY <1>1, <1>2

(* A new record keeps the topic sound. *)
LEMMA ProduceTopic ==
  ASSUME TopicSound, LogSound', NEW q \in Partitions, NEW o \in NewOrders, Produce(q, o)
  PROVE  TopicSound'
<1>1. o \in Order /\ Cardinality(Produced) # MaxOrders
  BY NewOrdersTyped DEF TopicSound
<1>2. o \in [id : {FreshId}, side : Side, order_type : OrderType,
             price : Prices \cup {NoPrice}, quantity : Quantities,
             filled : {0}, status : {"Open"}, sequence : {0}]
      /\ (o.order_type = "Limit" => o.price # NoPrice) /\ o.quantity > 0
  BY <1>1 DEF NewOrders
<1>3. Arriving(o) /\ o.id = FreshId
  BY <1>1, <1>2 DEF Arriving, Order
<1>4. \A u \in Produced : u.id # o.id
  BY <1>1, <1>3, FreshIdExists DEF TopicSound
<1>5. log' = [log EXCEPT ![q] = Append(@, o)] /\ failures' = failures /\ stops' = stops
  BY DEF Produce
<1>6. /\ Produced' = Produced \cup {o}
      /\ \A p \in Partitions : Len(log'[p]) = IF p = q THEN Len(log[p]) + 1 ELSE Len(log[p])
  BY <1>1, <1>5, LogGrows DEF TopicSound
<1>7. \A u \in Produced' : Arriving(u)
  BY <1>3, <1>6 DEF TopicSound
<1>8. \A u, v \in Produced' : u.id = v.id => u = v
  BY <1>4, <1>6 DEF TopicSound
<1>9. ASSUME NEW p \in Partitions PROVE Len(log'[p]) <= Cardinality(Range(log'[p])) + failures'
  <2>1. /\ Len(log[p]) <= Cardinality(Range(log[p])) + failures
        /\ failures \in Int /\ Len(log[p]) \in Nat
        /\ IsFiniteSet(Range(log[p])) /\ Cardinality(Range(log[p])) \in Nat
        /\ Range(log[p]) \subseteq Produced
    BY ProducedFacts DEF TopicSound
  <2>2. Range(log'[q]) = Range(log[q]) \cup {o} /\ (p # q => log'[p] = log[p])
    BY <1>1, <1>5, RangeGrows DEF TopicSound
  <2>3. CASE p = q
    <3>1. o \notin Range(log[p])
      BY <1>4, <2>1
    <3>2. Cardinality(Range(log'[p])) = Cardinality(Range(log[p])) + 1
      BY <2>1, <2>2, <2>3, <3>1, FS_AddElement
    <3>3. Len(log'[p]) = Len(log[p]) + 1
      BY <1>6, <2>3
    <3> QED BY <1>5, <2>1, <3>2, <3>3
  <2>4. CASE p # q
    BY <1>5, <2>1, <2>2, <2>4
  <2> QED BY <2>3, <2>4
<1>10. /\ low' = [p \in Partitions |-> low'[p]]
       /\ \A p \in Partitions : low'[p] \in 0..Len(log'[p])
  <2>1. low' = low /\ \A p \in Partitions : Len(log'[p]) \in Nat /\ Len(log'[p]) >= Len(log[p])
    <3>1. \A p \in Partitions : Len(log[p]) \in Nat
      BY LenProperties DEF TopicSound, LogSound
    <3> QED BY <1>6, <3>1 DEF Produce
  <2> QED BY <2>1, LowWithin
<1> QED BY <1>5, <1>7, <1>8, <1>9, <1>10 DEF TopicSound

(* A repeated record adds nothing to the orders of the topic. *)
LEMMA ProduceAgainTopic ==
  ASSUME TopicSound, LogSound', NEW q \in Partitions, NEW o \in Range(log[q]), ProduceAgain(q, o)
  PROVE  TopicSound'
<1>1. o \in Order /\ o \in Produced
  BY ProducedFacts DEF TopicSound, Arriving
<1>2. /\ log' = [log EXCEPT ![q] = Append(@, o)] /\ stops' = stops
      /\ failures' = failures + 1 /\ failures < MaxFailures
  BY DEF ProduceAgain
<1>3. /\ Produced' = Produced
      /\ \A p \in Partitions : Len(log'[p]) = IF p = q THEN Len(log[p]) + 1 ELSE Len(log[p])
  <2>1. /\ Produced' = Produced \cup {o}
        /\ \A p \in Partitions : Len(log'[p]) = IF p = q THEN Len(log[p]) + 1 ELSE Len(log[p])
    BY <1>1, <1>2, LogGrows DEF TopicSound
  <2> QED BY <1>1, <2>1
<1>4. \A p \in Partitions : Range(log'[p]) = Range(log[p])
  <2>1. Range(log'[q]) = Range(log[q]) \cup {o} /\ \A p \in Partitions : p # q => log'[p] = log[p]
    BY <1>1, <1>2, RangeGrows DEF TopicSound
  <2>2. Range(log[q]) \cup {o} = Range(log[q])
    OBVIOUS
  <2>3. ASSUME NEW p \in Partitions, p # q PROVE Range(log'[p]) = Range(log[p])
    BY <2>1, <2>3
  <2> QED BY <2>1, <2>2, <2>3
<1>5. failures \in Nat /\ failures' \in 0..MaxFailures
  BY <1>2, RecoveryAssumption DEF TopicSound
<1>6. ASSUME NEW p \in Partitions PROVE Len(log'[p]) <= Cardinality(Range(log'[p])) + failures'
  <2>1. /\ Len(log[p]) <= Cardinality(Range(log[p])) + failures
        /\ Len(log[p]) \in Nat /\ Cardinality(Range(log[p])) \in Nat
    BY ProducedFacts DEF TopicSound
  <2>2. Cardinality(Range(log'[p])) = Cardinality(Range(log[p])) /\ Len(log'[p]) <= Len(log[p]) + 1
    BY <1>3, <1>4, <2>1
  <2>3. Len(log'[p]) \in Nat
    BY <1>3, <2>1
  <2> QED BY <1>2, <1>5, <2>1, <2>2, <2>3
<1>7. /\ low' = [p \in Partitions |-> low'[p]]
      /\ \A p \in Partitions : low'[p] \in 0..Len(log'[p])
  <2>1. low' = low /\ \A p \in Partitions : Len(log'[p]) \in Nat /\ Len(log'[p]) >= Len(log[p])
    <3>1. \A p \in Partitions : Len(log[p]) \in Nat
      BY LenProperties DEF TopicSound, LogSound
    <3> QED BY <1>3, <3>1 DEF ProduceAgain
  <2> QED BY <2>1, LowWithin
<1> QED BY <1>2, <1>3, <1>5, <1>6, <1>7 DEF TopicSound

(* Every step keeps the topic sound. *)
LEMMA TopicSoundNext ==
  ASSUME TopicSound, [Next]_vars
  PROVE  TopicSound'
<1>1. LogSound'
  BY LogSoundNext DEF TopicSound
<1>2. ASSUME NEW q \in Partitions, NEW o \in NewOrders, Produce(q, o) PROVE TopicSound'
  BY <1>1, <1>2, ProduceTopic
<1>3. ASSUME NEW q \in Partitions, NEW o \in Range(log[q]), ProduceAgain(q, o) PROVE TopicSound'
  BY <1>1, <1>3, ProduceAgainTopic
<1>4. ASSUME log' = log, stops' \in 0..MaxStops, failures' \in 0..MaxFailures, failures <= failures',
             low' = [p \in Partitions |-> low'[p]],
             \A p \in Partitions : low'[p] \in 0..Len(log[p])
      PROVE  TopicSound'
  <2>1. Produced' = Produced
    BY <1>4 DEF Produced
  <2>2. ASSUME NEW p \in Partitions PROVE Len(log'[p]) <= Cardinality(Range(log'[p])) + failures'
    <3>1. /\ Len(log[p]) <= Cardinality(Range(log[p])) + failures
          /\ Len(log[p]) \in Nat /\ Cardinality(Range(log[p])) \in Nat
          /\ failures \in Int
      BY ProducedFacts DEF TopicSound
    <3>2. log'[p] = log[p]
      BY <1>4
    <3>3. failures' \in Int
      BY <1>4
    <3> QED BY <1>4, <3>1, <3>2, <3>3
  <2>3. \A p \in Partitions : low'[p] \in 0..Len(log'[p])
    BY <1>4
  <2> QED BY <1>1, <1>4, <2>1, <2>2, <2>3 DEF TopicSound
<1>5. /\ stops \in 0..MaxStops /\ failures \in 0..MaxFailures /\ MaxStops \in Nat /\ MaxFailures \in Nat
      /\ low = [p \in Partitions |-> low[p]] /\ \A p \in Partitions : low[p] \in 0..Len(log[p])
  BY RecoveryAssumption DEF TopicSound
<1>6. ASSUME NEW k \in Pods, Start(k) \/ Engine(k) \/ SaveSnapshot(k) \/ Flush(k) \/ Stop(k)
      PROVE  TopicSound'
  <2>1. log' = log
    BY <1>6 DEF Start, Engine, ResetOffset, Consume, Follow, SaveSnapshot, Flush, Stop
  <2>2. stops' = stops \/ (stops < MaxStops /\ stops' = stops + 1)
    BY <1>6 DEF Start, Engine, ResetOffset, Consume, Follow, SaveSnapshot, Flush, Stop
  <2>3. failures' = failures \/ (failures < MaxFailures /\ failures' = failures + 1)
    BY <1>6 DEF Start, Engine, ResetOffset, Consume, Follow, SaveSnapshot, Flush, Stop
  <2>4. low' = low
    BY <1>6 DEF Start, Engine, ResetOffset, Consume, Follow, SaveSnapshot, Flush, Stop
  <2> QED BY <1>4, <1>5, <2>1, <2>2, <2>3, <2>4
<1>7. CASE UNCHANGED vars
  BY <1>4, <1>5, <1>7 DEF vars
<1>8. ASSUME NEW q \in Partitions, Expire(q) PROVE TopicSound'
  <2>1. /\ log' = log /\ stops' = stops /\ failures' = failures /\ low[q] < Len(log[q])
        /\ low' = [low EXCEPT ![q] = @ + 1]
    BY <1>8 DEF Expire
  <2>2. low' = [p \in Partitions |-> IF p = q THEN low[q] + 1 ELSE low[p]]
    BY <1>5, <2>1
  <2>3. low' = [p \in Partitions |-> low'[p]]
    BY <2>2
  <2>4. \A p \in Partitions : Len(log[p]) \in Nat /\ low[p] \in 0..Len(log[p])
    BY <1>5, LenProperties DEF TopicSound, LogSound
  <2>5. low[q] + 1 \in 0..Len(log[q])
    BY <2>1, <2>4
  <2>6. \A p \in Partitions : low'[p] \in 0..Len(log[p])
    BY <2>2, <2>4, <2>5
  <2> QED BY <1>4, <1>5, <2>1, <2>3, <2>6
<1> QED BY <1>2, <1>3, <1>6, <1>7, <1>8 DEF Next
-----------------------------------------------------------------------------
(* r has the book, the counters and the messages of q. *)
Kept(q, r) ==
  /\ r.mode = q.mode /\ r.book = q.book /\ r.sequence = q.sequence
  /\ r.processed = q.processed /\ r.last_offset = q.last_offset
  /\ r.applied = q.applied

(* The book main starts with. *)
RestoredBook == IF saved = NoSnapshot THEN EmptyBook ELSE DeserializeBook(saved.orders)

(* The messages that are in it, and the partitions it has followed. *)
RestoredApplied == IF saved = NoSnapshot THEN << >> ELSE saved.applied

RestoredIntact == IF saved = NoSnapshot THEN Partitions ELSE saved.intact

(* A process that main has just set up. *)
Started(r) ==
  /\ r.mode \in {"leader", "follower"} /\ r.next = Seek /\ r.book = RestoredBook
  /\ r.sequence = 0 /\ r.processed = 0 /\ r.saving = FALSE /\ r.last_offset = 0
  /\ r.applied = RestoredApplied /\ r.intact = RestoredIntact

(* auto.offset.reset for one of the partitions. *)
Resets(q, r) ==
  /\ q.mode # "down" /\ Kept(q, r) /\ r.saving = q.saving
  /\ \E p \in Partitions : /\ r.next = [q.next EXCEPT ![p] = low[p]]
                           /\ r.intact = q.intact \ {p}

(* One message, by the engine thread of a leader or a follower. *)
Receives(q, p, r) ==
  LET call == ProcessOrder(q.book, Stamped(q, p), q.sequence)
  IN  /\ HasNext(q, p) /\ q.mode # "down" /\ r.mode = q.mode
      /\ r.next = [q.next EXCEPT ![p] = @ + 1]
      /\ r.book = call.book /\ r.sequence = call.sequence
      /\ r.processed = q.processed + 1
      /\ r.applied = Append(q.applied, Message(p, q.next[p])) /\ r.intact = q.intact
      /\ r.last_offset \in {q.last_offset, q.next[p]}
      /\ r.saving \in BOOLEAN
      /\ r.saving => r.mode = "leader" /\ r.last_offset = q.next[p]

(* A statement returns. *)
Returns(q, r) ==
  /\ Kept(q, r) /\ r.next = q.next /\ r.intact = q.intact /\ r.saving \in {q.saving, FALSE}
  /\ saved' = saved \/ (q.saving /\ saved' = Row(q))

(* A step of a process that was q and is r. *)
Moved(q, r) ==
  /\ DOMAIN r = Fields /\ log' = log
  /\ \/ Started(r) /\ saved' = saved
     \/ Resets(q, r) /\ saved' = saved
     \/ (\E p \in Partitions : Receives(q, p, r)) /\ saved' = saved
     \/ Returns(q, r)
     \/ r = Down /\ saved' = saved

(* Received, field by field. *)
HasReceived(r, p, t) ==
  LET call == ProcessOrder(r.book, Stamped(r, p), r.sequence)
  IN  /\ DOMAIN t = Fields /\ t.mode = r.mode
      /\ t.next = [r.next EXCEPT ![p] = @ + 1]
      /\ t.book = call.book /\ t.sequence = call.sequence
      /\ t.processed = r.processed + 1
      /\ t.applied = Append(r.applied, Message(p, r.next[p])) /\ t.intact = r.intact
      /\ t.last_offset = r.last_offset /\ t.saving = r.saving

(* Received, for the leader and for the follower. *)
LEMMA ReceivedFields ==
  ASSUME NEW r, DOMAIN r = Fields, NEW p,
         NEW t, t = Received(r, p, TRUE) \/ t = Received(r, p, FALSE)
  PROVE  HasReceived(r, p, t)
<1> DEFINE call   == ProcessOrder(r.book, Stamped(r, p), r.sequence)
           s(out) == [r EXCEPT !.next[p] = @ + 1,
                               !.book = call.book,
                               !.sequence = call.sequence,
                               !.outbox = out,
                               !.applied = Append(@, Message(p, r.next[p])),
                               !.processed = @ + 1]
<1>1. \E out : t = s(out)
  <2>1. Received(r, p, TRUE) = s(r.outbox \o call.fills)
    BY DEF Received
  <2>2. Received(r, p, FALSE) = s(r.outbox)
    BY DEF Received
  <2> QED BY <2>1, <2>2
<1>2. PICK out : t = s(out)
  BY <1>1
<1> HIDE DEF call
<1>3. /\ DOMAIN t = Fields /\ t.mode = r.mode
      /\ t.next = [r.next EXCEPT ![p] = @ + 1]
      /\ t.last_offset = r.last_offset /\ t.saving = r.saving
  BY <1>2 DEF Fields
<1>4. t.book = call.book /\ t.sequence = call.sequence /\ t.processed = r.processed + 1
  BY <1>2 DEF Fields
<1>5. t.applied = Append(r.applied, Message(p, r.next[p])) /\ t.intact = r.intact
  BY <1>2 DEF Fields
<1> QED BY <1>3, <1>4, <1>5 DEF call, HasReceived

(* Every action of a process moves its memory in one of these ways. *)
LEMMA ProcMoves ==
  ASSUME ProcsSound, NEW k \in Pods,
         Start(k) \/ Engine(k) \/ SaveSnapshot(k) \/ Flush(k) \/ Stop(k)
  PROVE  \E r : proc' = [proc EXCEPT ![k] = r] /\ Moved(proc[k], r)
<1> DEFINE q == proc[k]
<1>0. DOMAIN q = Fields /\ q.saving \in BOOLEAN /\ (q.saving => q.mode = "leader")
  BY DEF ProcsSound, ProcSound
<1>1. ASSUME Start(k)
      PROVE  \E r : proc' = [proc EXCEPT ![k] = r] /\ Moved(q, r)
  <2> DEFINE r(mode) == [Down EXCEPT !.mode = mode, !.next = Seek, !.book = RestoredBook,
                                     !.applied = RestoredApplied, !.intact = RestoredIntact]
  <2>1. PICK mode \in {"leader", "follower"} : proc' = [proc EXCEPT ![k] = r(mode)]
    BY <1>1 DEF Start, RestoredBook, RestoredApplied, RestoredIntact
  <2>2. /\ DOMAIN r(mode) = Fields /\ r(mode).mode = mode /\ r(mode).next = Seek
        /\ r(mode).book = RestoredBook /\ r(mode).sequence = 0 /\ r(mode).processed = 0
        /\ r(mode).saving = FALSE /\ r(mode).last_offset = 0
        /\ r(mode).applied = RestoredApplied /\ r(mode).intact = RestoredIntact
    BY DEF Down, Fields
  <2> HIDE DEF r
  <2>3. log' = log /\ saved' = saved
    BY <1>1 DEF Start
  <2>4. Moved(q, r(mode))
    BY <2>2, <2>3 DEF Moved, Started
  <2> QED BY <2>1, <2>4
<1>2. ASSUME NEW p \in Partitions, ResetOffset(k, p)
      PROVE  \E r : proc' = [proc EXCEPT ![k] = r] /\ Moved(q, r)
  <2> DEFINE r == [q EXCEPT !.next = [q.next EXCEPT ![p] = low[p]], !.intact = q.intact \ {p}]
  <2>1. proc' = [proc EXCEPT ![k] = r]
    BY <1>2 DEF ResetOffset
  <2>2. /\ DOMAIN r = Fields /\ Kept(q, r) /\ r.saving = q.saving
        /\ r.next = [q.next EXCEPT ![p] = low[p]] /\ r.intact = q.intact \ {p}
    BY <1>0 DEF Kept, Fields
  <2> HIDE DEF r
  <2>3. log' = log /\ saved' = saved /\ q.mode # "down"
    BY <1>2 DEF ResetOffset, Running
  <2>4. Moved(q, r)
    BY <2>2, <2>3 DEF Moved, Resets
  <2> QED BY <2>1, <2>4
<1>3. ASSUME NEW p \in Partitions, Consume(k, p)
      PROVE  \E r : proc' = [proc EXCEPT ![k] = r] /\ Moved(q, r)
  <2> DEFINE t == Received(q, p, TRUE)
             b == ((q.processed + 1) % SnapshotEvery = 0)
             r == [t EXCEPT !.last_offset = q.next[p], !.saving = b]
  <2>1. /\ q.mode = "leader" /\ HasNext(q, p)
        /\ proc' = [proc EXCEPT ![k] = r] /\ log' = log /\ saved' = saved
    BY <1>3 DEF Consume, ProcsSound
  <2> HIDE DEF q
  <2>2. LET call == ProcessOrder(q.book, Stamped(q, p), q.sequence)
        IN  /\ DOMAIN t = Fields /\ t.mode = q.mode
            /\ t.next = [q.next EXCEPT ![p] = @ + 1]
            /\ t.book = call.book /\ t.sequence = call.sequence
            /\ t.processed = q.processed + 1
            /\ t.applied = Append(q.applied, Message(p, q.next[p])) /\ t.intact = q.intact
    <3> HIDE DEF t
    <3>1. t = Received(q, p, TRUE)
      BY DEF t
    <3>2. HasReceived(q, p, t)
      BY <1>0, <3>1, ReceivedFields
    <3> QED BY <3>2 DEF HasReceived
  <2> HIDE DEF t
  <2>3. b \in BOOLEAN
    OBVIOUS
  <2> HIDE DEF b
  <2>4. /\ DOMAIN r = Fields /\ r.mode = t.mode /\ r.next = t.next /\ r.book = t.book
        /\ r.sequence = t.sequence /\ r.processed = t.processed
        /\ r.applied = t.applied /\ r.intact = t.intact
        /\ r.last_offset = q.next[p] /\ r.saving = b
    BY <2>2 DEF Fields
  <2> HIDE DEF r
  <2>5. Receives(q, p, r)
    BY <2>1, <2>2, <2>3, <2>4 DEF Receives
  <2>6. Moved(q, r)
    BY <2>1, <2>4, <2>5 DEF Moved
  <2> QED BY <2>1, <2>6 DEF q
<1>4. ASSUME NEW p \in Partitions, Follow(k, p)
      PROVE  \E r : proc' = [proc EXCEPT ![k] = r] /\ Moved(q, r)
  <2> DEFINE t == Received(q, p, FALSE)
  <2>1. /\ q.mode = "follower" /\ HasNext(q, p)
        /\ proc' = [proc EXCEPT ![k] = t] /\ log' = log /\ saved' = saved
    BY <1>4 DEF Follow, ProcsSound
  <2> HIDE DEF q
  <2>2. LET call == ProcessOrder(q.book, Stamped(q, p), q.sequence)
        IN  /\ DOMAIN t = Fields /\ t.mode = q.mode
            /\ t.next = [q.next EXCEPT ![p] = @ + 1]
            /\ t.book = call.book /\ t.sequence = call.sequence
            /\ t.processed = q.processed + 1
            /\ t.applied = Append(q.applied, Message(p, q.next[p])) /\ t.intact = q.intact
            /\ t.last_offset = q.last_offset /\ t.saving = q.saving
    <3> HIDE DEF t
    <3>1. t = Received(q, p, FALSE)
      BY DEF t
    <3>2. HasReceived(q, p, t)
      BY <1>0, <3>1, ReceivedFields
    <3> QED BY <3>2 DEF HasReceived
  <2> HIDE DEF t
  <2>3. ~q.saving
    BY <1>0, <2>1
  <2>4. Receives(q, p, t)
    BY <1>0, <2>1, <2>2, <2>3 DEF Receives
  <2>5. Moved(q, t)
    BY <2>1, <2>2, <2>4 DEF Moved
  <2> QED BY <2>1, <2>5 DEF q
<1>5. ASSUME SaveSnapshot(k)
      PROVE  \E r : proc' = [proc EXCEPT ![k] = r] /\ Moved(q, r)
  <2> DEFINE r == [q EXCEPT !.saving = FALSE]
  <2>1. /\ proc' = [proc EXCEPT ![k] = r] /\ log' = log
        /\ saved' = saved \/ (q.saving /\ saved' = Row(q))
    BY <1>5 DEF SaveSnapshot
  <2>2. DOMAIN r = Fields /\ Kept(q, r) /\ r.next = q.next /\ r.intact = q.intact /\ r.saving = FALSE
    BY <1>0 DEF Kept, Fields
  <2> HIDE DEF r, q
  <2>3. Moved(q, r)
    BY <2>1, <2>2 DEF Moved, Returns
  <2> QED BY <2>1, <2>3 DEF q
<1>6. ASSUME Flush(k)
      PROVE  \E r : proc' = [proc EXCEPT ![k] = r] /\ Moved(q, r)
  <2>1. PICK n \in 1..Len(q.outbox) : proc' = [proc EXCEPT ![k].outbox = SubSeq(@, n + 1, Len(@))]
    BY <1>6 DEF Flush
  <2> DEFINE out == SubSeq(q.outbox, n + 1, Len(q.outbox))
             r   == [q EXCEPT !.outbox = out]
  <2>2. proc' = [proc EXCEPT ![k] = r] /\ log' = log /\ saved' = saved
    BY <1>6, <2>1 DEF Flush
  <2> HIDE DEF out
  <2>3. DOMAIN r = Fields /\ Kept(q, r) /\ r.next = q.next /\ r.intact = q.intact /\ r.saving = q.saving
    BY <1>0 DEF Kept, Fields
  <2> HIDE DEF r, q
  <2>4. Moved(q, r)
    BY <2>2, <2>3 DEF Moved, Returns
  <2> QED BY <2>2, <2>4 DEF q
<1>7. ASSUME Stop(k)
      PROVE  \E r : proc' = [proc EXCEPT ![k] = r] /\ Moved(q, r)
  <2>1. proc' = [proc EXCEPT ![k] = Down] /\ log' = log /\ saved' = saved
    BY <1>7 DEF Stop
  <2>2. Moved(q, Down)
    BY <2>1, DownFields DEF Moved
  <2> QED BY <2>1, <2>2
<1> QED BY <1>1, <1>2, <1>3, <1>4, <1>5, <1>6, <1>7 DEF Engine

(* A step changes the topic, or one process, or nothing. *)
LEMMA Moves ==
  ASSUME ProcsSound, [Next]_vars
  PROVE  \/ proc' = proc /\ saved' = saved
         \/ \E k \in Pods : \E r : proc' = [proc EXCEPT ![k] = r] /\ Moved(proc[k], r)
<1>1. CASE \E k \in Pods : Start(k) \/ Engine(k) \/ SaveSnapshot(k) \/ Flush(k) \/ Stop(k)
  BY <1>1, ProcMoves
<1>2. CASE UNCHANGED vars
  BY <1>2 DEF vars
<1>3. CASE \E p \in Partitions : \E o \in NewOrders : Produce(p, o)
  BY <1>3 DEF Produce
<1>4. CASE \E p \in Partitions : \E o \in Range(log[p]) : ProduceAgain(p, o)
  BY <1>4 DEF ProduceAgain
<1>5. CASE \E p \in Partitions : Expire(p)
  BY <1>5 DEF Expire
<1> QED BY <1>1, <1>2, <1>3, <1>4, <1>5 DEF Next
-----------------------------------------------------------------------------
(* The order the consumer hands over is the record, with its offset as sequence. *)
LEMMA StampedArrives ==
  ASSUME TopicSound, NEW r, NEW p \in Partitions, r.next[p] \in Nat, HasNext(r, p)
  PROVE  LET n == r.next[p]
         IN  /\ n + 1 \in 1..Len(log[p]) /\ Len(log[p]) \in Nat
             /\ log[p][n + 1] \in Produced /\ Arriving(log[p][n + 1])
             /\ Arriving(Stamped(r, p)) /\ Stamped(r, p).id = log[p][n + 1].id
             /\ Alike(Stamped(r, p), log[p][n + 1])
<1> DEFINE n == r.next[p]
           o == log[p][n + 1]
<1>1. Len(log[p]) \in Nat /\ \A i \in 1..Len(log[p]) : log[p][i] \in Produced
  BY ProducedFacts DEF TopicSound
<1>2. n + 1 \in 1..Len(log[p])
  BY <1>1 DEF HasNext
<1>3. o \in Produced /\ Arriving(o)
  BY <1>1, <1>2 DEF TopicSound
<1>4. Stamped(r, p) = [o EXCEPT !.sequence = n]
  BY DEF Stamped
<1> HIDE DEF o
<1>5. Arriving([o EXCEPT !.sequence = n])
  BY <1>3 DEF Arriving, Order
<1>6. [o EXCEPT !.sequence = n].id = o.id /\ Alike([o EXCEPT !.sequence = n], o)
  BY <1>3 DEF Arriving, Order, Alike
<1> QED BY <1>1, <1>2, <1>3, <1>4, <1>5, <1>6 DEF o

(* main: the book of the snapshot is sound, and the position is within the bounds. *)
LEMMA RestoredBookSound ==
  ASSUME SavedSound
  PROVE  /\ BookSound(RestoredBook)
         /\ Seek \in [Partitions -> 0..MaxMessages]
<1>0. MaxMessages \in Nat
  BY RecoveryAssumption DEF MaxMessages
<1>1. CASE saved = NoSnapshot
  BY <1>0, <1>1, EmptyBookSound DEF RestoredBook, Seek, StartOffset
<1>2. CASE saved # NoSnapshot
  <2>1. RowSound(saved.orders) /\ saved.kafka_offset \in 0..(MaxMessages - 1)
    BY <1>2 DEF SavedSound
  <2>2. Rebuilt(saved.orders, Len(saved.orders), DeserializeBook(saved.orders))
    BY <2>1, DeserializeRebuilds
  <2>3. saved.kafka_offset + 1 \in 0..MaxMessages
    BY <1>0, <2>1
  <2> QED BY <1>2, <2>2, <2>3 DEF Rebuilt, RestoredBook, Seek, StartOffset
<1> QED BY <1>1, <1>2

(* A process that is not there. *)
LEMMA DownSound == ProcSound(Down)
<1>0. MaxMessages \in Nat
  BY RecoveryAssumption DEF MaxMessages
<1>1. Down.next \in [Partitions -> 0..MaxMessages] /\ 0 \in 0..MaxMessages
  BY <1>0, DownFields
<1>2. Down.saving = FALSE
  BY DEF Down
<1>3. /\ DOMAIN Down = Fields /\ Down.mode = "down" /\ Down.last_offset = 0
      /\ Down.sequence = 0 /\ Down.processed = 0 /\ Down.book = EmptyBook
  BY DownFields
<1>4. BookSound(Down.book)
  BY <1>3, EmptyBookSound
<1>5. Down.mode \in {"down", "leader", "follower"} /\ Down.sequence \in Nat /\ Down.processed \in Nat
  BY <1>3
<1>6. Down.last_offset \in 0..MaxMessages /\ Down.saving \in BOOLEAN
  BY <1>1, <1>2, <1>3
<1> QED BY <1>1, <1>2, <1>3, <1>4, <1>5, <1>6 DEF ProcSound

(* A step of a process keeps its book sound, and the snapshot row. *)
LEMMA MovedSound ==
  ASSUME TopicSound, SavedSound, NEW q, ProcSound(q), NEW r, Moved(q, r)
  PROVE  ProcSound(r) /\ SavedSound'
<1>0. MaxMessages \in Nat
  BY RecoveryAssumption DEF MaxMessages
<1>1. DOMAIN r = Fields
  BY DEF Moved
<1>2. ASSUME saved' = saved PROVE SavedSound'
  BY <1>2 DEF SavedSound
<1>3. CASE Started(r) /\ saved' = saved
  <2>0. /\ r.mode \in {"leader", "follower"} /\ r.next = Seek /\ r.book = RestoredBook
        /\ r.sequence = 0 /\ r.processed = 0 /\ r.saving = FALSE /\ r.last_offset = 0
        /\ 0 \in 0..MaxMessages
    BY <1>0, <1>3 DEF Started
  <2>1. ProcSound(r)
    <3>1. BookSound(r.book) /\ r.next \in [Partitions -> 0..MaxMessages]
      BY <2>0, RestoredBookSound
    <3>2. /\ r.mode \in {"down", "leader", "follower"} /\ r.sequence \in Nat /\ r.processed \in Nat
          /\ r.last_offset \in 0..MaxMessages
      BY <2>0
    <3>3. r.saving = FALSE
      BY <2>0
    <3>4. r.saving \in BOOLEAN /\ ~r.saving
      BY <3>3
    <3> QED BY <1>1, <3>1, <3>2, <3>4 DEF ProcSound
  <2> QED BY <1>2, <1>3, <2>1
<1>4. CASE Resets(q, r) /\ saved' = saved
  <2>1. PICK p \in Partitions : r.next = [q.next EXCEPT ![p] = low[p]]
    BY <1>4 DEF Resets
  <2>2. r.next \in [Partitions -> 0..MaxMessages]
    <3>1. low[p] \in 0..Len(log[p]) /\ Len(log[p]) \in 0..MaxMessages
      BY TopicBound DEF TopicSound
    <3>2. low[p] \in 0..MaxMessages
      BY <1>0, <3>1
    <3> QED BY <2>1, <3>2 DEF ProcSound
  <2>3. ProcSound(r)
    BY <1>1, <1>4, <2>2 DEF ProcSound, Resets, Kept
  <2> QED BY <1>2, <1>4, <2>3
<1>5. ASSUME NEW p \in Partitions, Receives(q, p, r), saved' = saved PROVE ProcSound(r) /\ SavedSound'
  <2>1. q.next \in [Partitions -> 0..MaxMessages] /\ q.next[p] \in Nat
    BY DEF ProcSound
  <2>2. /\ q.next[p] + 1 \in 1..Len(log[p]) /\ Len(log[p]) \in Nat /\ Arriving(Stamped(q, p))
    BY <1>5, <2>1, StampedArrives DEF Receives
  <2>3. Len(log[p]) \in 0..MaxMessages
    BY TopicBound
  <2>4. q.next[p] + 1 \in 0..MaxMessages /\ q.next[p] \in 0..(MaxMessages - 1) /\ q.next[p] \in 0..MaxMessages
    BY <1>0, <2>1, <2>2, <2>3
  <2>5. r.next \in [Partitions -> 0..MaxMessages]
    BY <1>5, <2>1, <2>4 DEF Receives
  <2>6. BookSound(q.book) /\ q.sequence \in Nat
    BY DEF ProcSound
  <2> DEFINE call == ProcessOrder(q.book, Stamped(q, p), q.sequence)
  <2>7. BookSound(call.book) /\ call.sequence \in Nat
    BY <2>2, <2>6, ProcessSound DEF Gained
  <2>8. r.book = call.book /\ r.sequence = call.sequence
    BY <1>5 DEF Receives
  <2> HIDE DEF call
  <2>9. /\ r.mode = q.mode /\ r.processed = q.processed + 1 /\ r.last_offset \in {q.last_offset, q.next[p]}
        /\ r.saving \in BOOLEAN /\ (r.saving => r.mode = "leader" /\ r.last_offset = q.next[p])
    BY <1>5 DEF Receives
  <2>10. ProcSound(r)
    <3>1. r.last_offset \in 0..MaxMessages /\ (r.saving => r.last_offset \in 0..(MaxMessages - 1))
      BY <2>4, <2>9 DEF ProcSound
    <3>2. r.processed \in Nat /\ r.mode \in {"down", "leader", "follower"}
      BY <2>9 DEF ProcSound
    <3> QED BY <1>1, <2>5, <2>7, <2>8, <2>9, <3>1, <3>2 DEF ProcSound
  <2> QED BY <1>2, <1>5, <2>10
<1>6. CASE Returns(q, r)
  <2>1. ProcSound(r)
    BY <1>1, <1>6 DEF ProcSound, Returns, Kept
  <2>2. CASE q.saving /\ saved' = Row(q)
    <3>1. saved'.orders = SerializeBook(q.book) /\ saved'.kafka_offset = q.last_offset
      BY <2>2 DEF Row
    <3>2. RowSound(SerializeBook(q.book))
      BY SerializeSound DEF ProcSound
    <3>3. q.last_offset \in 0..(MaxMessages - 1)
      BY <2>2 DEF ProcSound
    <3>4. SavedSound'
      BY <3>1, <3>2, <3>3 DEF SavedSound
    <3> QED BY <2>1, <3>4
  <2> QED BY <1>2, <1>6, <2>1, <2>2 DEF Returns
<1>7. CASE r = Down /\ saved' = saved
  BY <1>2, <1>7, DownSound
<1> QED BY <1>3, <1>4, <1>5, <1>6, <1>7 DEF Moved

(* Every step keeps the topic, the books and the row sound. *)
LEMMA NextSoundInv == SoundInv /\ [Next]_vars => SoundInv'
<1> SUFFICES ASSUME SoundInv, [Next]_vars PROVE SoundInv'
  OBVIOUS
<1>1. TopicSound /\ ProcsSound /\ SavedSound
  BY DEF SoundInv
<1>2. TopicSound'
  BY <1>1, TopicSoundNext
<1>3. CASE proc' = proc /\ saved' = saved
  <2>1. ProcsSound' /\ SavedSound'
    BY <1>1, <1>3 DEF ProcsSound, SavedSound
  <2> QED BY <1>2, <2>1 DEF SoundInv
<1>4. ASSUME NEW k \in Pods, NEW r, proc' = [proc EXCEPT ![k] = r], Moved(proc[k], r) PROVE SoundInv'
  <2>1. ProcSound(proc[k])
    BY <1>1 DEF ProcsSound
  <2>2. ProcSound(r) /\ SavedSound'
    BY <1>1, <1>4, <2>1, MovedSound
  <2>3. proc' = [x \in Pods |-> IF x = k THEN r ELSE proc[x]]
    BY <1>1, <1>4 DEF ProcsSound
  <2>4. proc' = [x \in Pods |-> proc'[x]]
    BY <2>3
  <2>5. ASSUME NEW x \in Pods PROVE ProcSound(proc'[x])
    BY <1>1, <2>2, <2>3 DEF ProcsSound
  <2> QED BY <1>2, <2>2, <2>4, <2>5 DEF SoundInv, ProcsSound
<1> QED BY <1>1, <1>3, <1>4, Moves

(* An empty topic, no row, and no process. *)
LEMMA InitSoundInv == Init => SoundInv
<1> SUFFICES ASSUME Init PROVE SoundInv
  OBVIOUS
<1>0. Produced = {}
  BY DEF Init, Produced, Range
<1>1. LogSound
  BY <1>0, FS_EmptySet, RecoveryAssumption DEF LogSound, Init
<1>2. ASSUME NEW p \in Partitions PROVE Len(log[p]) <= Cardinality(Range(log[p])) + failures
  <2>1. log[p] = << >> /\ Range(log[p]) = {} /\ failures = 0
    BY DEF Init, Range
  <2>2. Cardinality(Range(log[p])) = 0 /\ Len(log[p]) = 0
    BY <2>1, FS_EmptySet
  <2> QED BY <2>1, <2>2
<1>3. stops \in 0..MaxStops /\ failures \in 0..MaxFailures
  BY RecoveryAssumption DEF Init
<1>4. TopicSound
  <2>1. low = [p \in Partitions |-> low[p]] /\ \A p \in Partitions : low[p] \in 0..Len(log[p])
    BY DEF Init
  <2> QED BY <1>0, <1>1, <1>2, <1>3, <2>1 DEF TopicSound
<1>5. ProcsSound
  BY DownSound DEF Init, ProcsSound
<1>6. SavedSound
  BY DEF Init, SavedSound
<1> QED BY <1>4, <1>5, <1>6 DEF SoundInv

(* The types, for every number of pods, partitions, orders, stops and failures: above all
   the books stay well-formed maps and queues over ids and prices, and no offset runs
   past the records there can be, through every crash, restore and repeated record. *)
THEOREM RecoveryTypes == Spec => []TypeOK
<1>1. SoundInv => TypeOK
  <2> SUFFICES ASSUME SoundInv PROVE TypeOK
    OBVIOUS
  <2>1. /\ log \in [Partitions -> Seq(Order)] /\ \A p \in Partitions : low[p] \in 0..Len(log[p])
        /\ stops \in 0..MaxStops /\ failures \in 0..MaxFailures
    BY DEF SoundInv, TopicSound, LogSound
  <2>2. saved # NoSnapshot => /\ saved.orders \in Seq(Order)
                              /\ saved.kafka_offset \in 0 .. MaxMessages - 1
    BY DEF SoundInv, SavedSound, RowSound
  <2>3. ASSUME NEW k \in Pods PROVE ProcSound(proc[k])
    BY DEF SoundInv, ProcsSound
  <2>4. ASSUME NEW k \in Pods
        PROVE  /\ proc[k].mode \in {"down", "leader", "follower"}
               /\ proc[k].next \in [Partitions -> 0..MaxMessages]
               /\ IsBook(proc[k].book)
               /\ {proc[k].sequence, proc[k].processed} \subseteq Nat
               /\ proc[k].last_offset \in 0..MaxMessages
               /\ proc[k].saving \in BOOLEAN
    BY <2>3 DEF ProcSound, BookSound
  <2> QED BY <2>1, <2>2, <2>4 DEF TypeOK
<1> QED BY <1>1, InitSoundInv, NextSoundInv, PTL DEF Spec
-----------------------------------------------------------------------------
(* The messages that can be applied. *)
Messages == [partition : Partitions, offset : Nat]

(* A process: it has applied what is before its consumer's position in the partitions
   it has followed, and while it saves a snapshot its last message is the one whose
   offset it hands over. *)
Positioned(topic, r) ==
  /\ r.applied \in Seq(Messages) /\ r.intact \subseteq Partitions
  /\ \A p \in r.intact : /\ r.next[p] \in 0..Len(topic[p])
                         /\ AppliedBefore(r.applied, p, r.next[p])
  /\ r.saving => /\ Len(r.applied) > 0 /\ Last(r.applied).offset = r.last_offset
                 /\ Last(r.applied).partition \in r.intact =>
                      r.next[Last(r.applied).partition] = r.last_offset + 1

(* The snapshot row has applied what is before its offset, that included. *)
RowPositioned ==
  saved # NoSnapshot =>
    /\ saved.applied \in Seq(Messages) /\ saved.intact \subseteq Partitions
    /\ \A p \in saved.intact : /\ saved.kafka_offset \in 0..(Len(log[p]) - 1)
                               /\ AppliedBefore(saved.applied, p, saved.kafka_offset + 1)

OnceInv ==
  /\ \A k \in Pods : proc[k].mode # "down" => Positioned(log, proc[k])
  /\ RowPositioned

(* Nothing is applied before the first message. *)
LEMMA NothingApplied == \A p : AppliedBefore(<< >>, p, 0)
<1>1. Len(<< >>) = 0
  OBVIOUS
<1>2. 0..(0 - 1) = {} /\ 1..0 = {}
  OBVIOUS
<1> QED BY <1>1, <1>2 DEF AppliedBefore

(* A message more, of the partition q: one more of q is applied, and of the others what
   was. *)
LEMMA AppliedMore ==
  ASSUME NEW s \in Seq(Messages), NEW q \in Partitions, NEW n \in Nat,
         NEW p \in Partitions, NEW m \in Nat, AppliedBefore(s, p, m), p = q => m = n
  PROVE  AppliedBefore(Append(s, Message(q, n)), p, IF p = q THEN m + 1 ELSE m)
<1> DEFINE t == Append(s, Message(q, n))
           L == Len(s)
           z == IF p = q THEN m + 1 ELSE m
<1>1. /\ L \in Nat /\ Len(t) = L + 1 /\ t[L + 1] = Message(q, n)
      /\ \A j \in 1..L : t[j] = s[j]
  <2>1. Message(q, n) \in Messages
    BY DEF Message, Messages
  <2> QED BY <2>1, AppendProperties, LenProperties
<1>2. /\ Message(q, n).partition = q /\ Message(q, n).offset = n
      /\ \A i, j : Message(p, i) = Message(q, j) => p = q /\ i = j
  BY DEF Message
<1>3. /\ \A i \in 0..(m - 1) : \E j \in 1..L : s[j] = Message(p, i)
      /\ \A j \in 1..L : s[j].partition = p => s[j].offset < m
      /\ \A i, j \in 1..L :
           i < j /\ s[i].partition = p /\ s[j].partition = p => s[i].offset < s[j].offset
  BY DEF AppliedBefore
<1>4. \A j \in 1..L : s[j].offset \in Nat
  <2>1. \A j \in 1..L : s[j] \in Messages
    BY ElementOfSeq
  <2> QED BY <2>1 DEF Messages
<1> HIDE DEF t, L
<1>5. ASSUME NEW i \in 0..(z - 1) PROVE \E j \in 1..(L + 1) : t[j] = Message(p, i)
  <2>1. CASE p = q /\ i = m
    BY <1>1, <2>1
  <2>2. CASE ~(p = q /\ i = m)
    <3>1. i \in 0..(m - 1)
      BY <2>2
    <3>2. PICK j \in 1..L : s[j] = Message(p, i)
      BY <1>3, <3>1
    <3> QED BY <1>1, <3>2
  <2> QED BY <2>1, <2>2
<1>6. ASSUME NEW j \in 1..(L + 1), t[j].partition = p PROVE t[j].offset < z
  <2>1. CASE j = L + 1
    BY <1>1, <1>2, <1>6, <2>1
  <2>2. CASE j # L + 1
    <3>1. j \in 1..L
      BY <1>1, <2>2
    <3> QED BY <1>1, <1>3, <1>4, <1>6, <3>1
  <2> QED BY <2>1, <2>2
<1>7. ASSUME NEW i \in 1..(L + 1), NEW j \in 1..(L + 1), i < j,
             t[i].partition = p, t[j].partition = p
      PROVE  t[i].offset < t[j].offset
  <2>1. i \in 1..L
    BY <1>1, <1>7
  <2>2. CASE j = L + 1
    <3>1. p = q /\ t[j].offset = m
      BY <1>1, <1>2, <1>7, <2>2
    <3> QED BY <1>1, <1>3, <1>7, <2>1, <3>1
  <2>3. CASE j # L + 1
    <3>1. j \in 1..L
      BY <1>1, <2>3
    <3> QED BY <1>1, <1>3, <1>7, <2>1, <3>1
  <2> QED BY <2>2, <2>3
<1>8. AppliedBefore(t, p, z)
  BY <1>1, <1>5, <1>6, <1>7 DEF AppliedBefore
<1> QED BY <1>8 DEF t

(* A step of a process keeps the messages of its book, and of the row, applied once. *)
LEMMA MovedOnce ==
  ASSUME SoundInv, RowPositioned, NEW q, ProcSound(q), q.mode # "down" => Positioned(log, q),
         NEW r, Moved(q, r)
  PROVE  (r.mode # "down" => Positioned(log', r)) /\ RowPositioned'
<1>1. log' = log
  BY DEF Moved
<1>2. ASSUME saved' = saved PROVE RowPositioned'
  BY <1>1, <1>2 DEF RowPositioned
<1>3. \A p \in Partitions : Len(log[p]) \in Nat
  BY LenProperties DEF SoundInv, TopicSound, LogSound
<1>4. CASE Started(r) /\ saved' = saved
  <2>1. /\ r.next = Seek /\ r.saving = FALSE
        /\ r.applied = RestoredApplied /\ r.intact = RestoredIntact
    BY <1>4 DEF Started
  <2>2. CASE saved = NoSnapshot
    <3>1. r.applied = << >> /\ r.intact = Partitions /\ \A p \in Partitions : r.next[p] = 0
      BY <2>1, <2>2 DEF RestoredApplied, RestoredIntact, Seek, StartOffset
    <3>2. << >> \in Seq(Messages)
      OBVIOUS
    <3>3. \A p \in r.intact : r.next[p] \in 0..Len(log[p]) /\ AppliedBefore(r.applied, p, r.next[p])
      BY <1>3, <3>1, NothingApplied
    <3> QED BY <1>1, <1>2, <1>4, <2>1, <3>1, <3>2, <3>3 DEF Positioned
  <2>3. CASE saved # NoSnapshot
    <3>1. /\ r.applied = saved.applied /\ r.intact = saved.intact
          /\ \A p \in Partitions : r.next[p] = saved.kafka_offset + 1
      BY <2>1, <2>3 DEF RestoredApplied, RestoredIntact, Seek, StartOffset
    <3>2. /\ saved.applied \in Seq(Messages) /\ saved.intact \subseteq Partitions
          /\ \A p \in saved.intact : /\ saved.kafka_offset \in 0..(Len(log[p]) - 1)
                                     /\ AppliedBefore(saved.applied, p, saved.kafka_offset + 1)
      BY <2>3 DEF RowPositioned
    <3>3. \A p \in r.intact : r.next[p] \in 0..Len(log[p]) /\ AppliedBefore(r.applied, p, r.next[p])
      BY <1>3, <3>1, <3>2
    <3> QED BY <1>1, <1>2, <1>4, <2>1, <3>1, <3>2, <3>3 DEF Positioned
  <2> QED BY <2>2, <2>3
<1>5. CASE Resets(q, r) /\ saved' = saved
  <2>1. PICK p \in Partitions : r.next = [q.next EXCEPT ![p] = low[p]] /\ r.intact = q.intact \ {p}
    BY <1>5 DEF Resets
  <2>2. /\ r.applied = q.applied /\ r.saving = q.saving /\ r.last_offset = q.last_offset
        /\ q.mode # "down" /\ Positioned(log, q) /\ q.next \in [Partitions -> 0..MaxMessages]
    BY <1>5 DEF Resets, Kept, ProcSound
  <2>3. \A x \in r.intact : x \in q.intact /\ x \in Partitions /\ r.next[x] = q.next[x]
    BY <2>1, <2>2 DEF Positioned
  <2>4. Positioned(log, r)
    BY <2>1, <2>2, <2>3 DEF Positioned
  <2> QED BY <1>1, <1>2, <1>5, <2>4
<1>6. ASSUME NEW p \in Partitions, Receives(q, p, r), saved' = saved
      PROVE  (r.mode # "down" => Positioned(log', r)) /\ RowPositioned'
  <2>1. /\ q.mode # "down" /\ Positioned(log, q) /\ HasNext(q, p)
        /\ r.next = [q.next EXCEPT ![p] = @ + 1] /\ r.intact = q.intact
        /\ r.applied = Append(q.applied, Message(p, q.next[p]))
        /\ r.saving => r.last_offset = q.next[p]
    BY <1>6 DEF Receives
  <2>2. q.next \in [Partitions -> 0..MaxMessages] /\ \A x \in Partitions : q.next[x] \in Nat
    BY DEF ProcSound
  <2>3. q.applied \in Seq(Messages) /\ q.intact \subseteq Partitions
    BY <2>1 DEF Positioned
  <2>4. /\ r.applied \in Seq(Messages) /\ Len(r.applied) > 0
        /\ Last(r.applied) = Message(p, q.next[p])
    <3>1. Message(p, q.next[p]) \in Messages
      BY <2>2 DEF Message, Messages
    <3>2. Len(q.applied) \in Nat
      BY <2>3, LenProperties
    <3> QED BY <2>1, <2>3, <3>1, <3>2, AppendProperties DEF Last
  <2>5. ASSUME NEW x \in r.intact
        PROVE  r.next[x] \in 0..Len(log[x]) /\ AppliedBefore(r.applied, x, r.next[x])
    <3>1. x \in Partitions /\ q.next[x] \in 0..Len(log[x]) /\ AppliedBefore(q.applied, x, q.next[x])
      BY <2>1, <2>3 DEF Positioned
    <3>2. r.next[x] = IF x = p THEN q.next[x] + 1 ELSE q.next[x]
      BY <2>1, <2>2, <3>1
    <3>3. AppliedBefore(r.applied, x, r.next[x])
      <4>1. q.next[x] \in Nat /\ q.next[p] \in Nat
        BY <2>2, <3>1
      <4>2. AppliedBefore(Append(q.applied, Message(p, q.next[p])), x,
                          IF x = p THEN q.next[x] + 1 ELSE q.next[x])
        BY <2>3, <3>1, <4>1, AppliedMore
      <4> QED BY <2>1, <3>2, <4>2
    <3>4. r.next[x] \in 0..Len(log[x])
      <4>1. Len(log[x]) \in Nat /\ q.next[x] \in Nat
        BY <1>3, <2>2, <3>1
      <4>2. x = p => q.next[x] < Len(log[x])
        <5>1. q.next[p] \in low[p]..(Len(log[p]) - 1) /\ Len(log[p]) \in Nat
          BY <1>3, <2>1 DEF HasNext
        <5>2. low[p] \in Int
          BY DEF SoundInv, TopicSound
        <5> QED BY <5>1, <5>2
      <4> QED BY <3>1, <3>2, <4>1, <4>2
    <3> QED BY <3>3, <3>4
  <2>6. ASSUME r.saving
        PROVE  /\ Last(r.applied).offset = r.last_offset
               /\ r.next[Last(r.applied).partition] = r.last_offset + 1
    <3>1. Last(r.applied).offset = q.next[p] /\ Last(r.applied).partition = p
      BY <2>4 DEF Message
    <3>2. r.next[p] = q.next[p] + 1
      BY <2>1, <2>2
    <3> QED BY <2>1, <2>6, <3>1, <3>2
  <2>7. Positioned(log, r)
    BY <2>1, <2>3, <2>4, <2>5, <2>6 DEF Positioned
  <2> QED BY <1>1, <1>2, <1>6, <2>7
<1>7. CASE Returns(q, r)
  <2>1. /\ r.mode = q.mode /\ r.applied = q.applied /\ r.intact = q.intact /\ r.next = q.next
        /\ r.last_offset = q.last_offset /\ r.saving \in {q.saving, FALSE}
    BY <1>7 DEF Returns, Kept
  <2>2. r.mode # "down" => Positioned(log', r)
    BY <1>1, <2>1 DEF Positioned
  <2>3. CASE q.saving /\ saved' = Row(q)
    <3> DEFINE x == Last(q.applied).partition
    <3>1. /\ saved'.kafka_offset = q.last_offset /\ saved'.applied = q.applied
          /\ saved'.intact = q.intact \cap {x}
      BY <2>3 DEF Row, Last
    <3>2. Positioned(log, q) /\ q.last_offset \in Nat
      BY <2>3 DEF ProcSound
    <3>3. ASSUME NEW p \in saved'.intact
          PROVE  /\ saved'.kafka_offset \in 0..(Len(log'[p]) - 1)
                 /\ AppliedBefore(saved'.applied, p, saved'.kafka_offset + 1)
      <4>1. p = x /\ p \in q.intact /\ p \in Partitions
        BY <3>1, <3>2 DEF Positioned
      <4>2. /\ q.next[p] = q.last_offset + 1 /\ q.next[p] \in 0..Len(log[p])
            /\ AppliedBefore(q.applied, p, q.next[p])
        BY <2>3, <3>2, <4>1 DEF Positioned
      <4>3. q.last_offset \in 0..(Len(log[p]) - 1)
        BY <1>3, <3>2, <4>1, <4>2
      <4> QED BY <1>1, <3>1, <4>2, <4>3
    <3>4. saved'.applied \in Seq(Messages) /\ saved'.intact \subseteq Partitions
      BY <3>1, <3>2 DEF Positioned
    <3>5. RowPositioned'
      BY <3>3, <3>4 DEF RowPositioned
    <3> QED BY <2>2, <3>5
  <2> QED BY <1>2, <1>7, <2>2, <2>3 DEF Returns
<1>8. CASE r = Down /\ saved' = saved
  <2>1. r.mode = "down"
    BY <1>8, DownFields
  <2> QED BY <1>2, <1>8, <2>1
<1> QED BY <1>4, <1>5, <1>6, <1>7, <1>8 DEF Moved

(* Every step keeps the messages of every book, and of the row, applied once. *)
LEMMA NextOnceInv == SoundInv /\ OnceInv /\ [Next]_vars => OnceInv'
<1> SUFFICES ASSUME SoundInv, OnceInv, [Next]_vars PROVE OnceInv'
  OBVIOUS
<1>1. /\ proc = [k \in Pods |-> proc[k]] /\ ProcsSound /\ LogSound
      /\ \A k \in Pods : ProcSound(proc[k])
  BY DEF SoundInv, ProcsSound, TopicSound
<1>2. CASE proc' = proc /\ saved' = saved
  <2>1. \A p \in Partitions : /\ Len(log[p]) \in Nat /\ Len(log'[p]) \in Nat
                              /\ Len(log[p]) <= Len(log'[p])
    BY <1>1, LogSoundNext
  <2>2. ASSUME NEW k \in Pods, proc[k].mode # "down" PROVE Positioned(log', proc[k])
    <3>1. Positioned(log, proc[k])
      BY <2>2 DEF OnceInv
    <3>2. \A p \in proc[k].intact : proc[k].next[p] \in 0..Len(log'[p])
      BY <2>1, <3>1 DEF Positioned
    <3> QED BY <3>1, <3>2 DEF Positioned
  <2>3. RowPositioned'
    <3> SUFFICES ASSUME saved # NoSnapshot
                 PROVE  /\ saved.applied \in Seq(Messages) /\ saved.intact \subseteq Partitions
                        /\ \A p \in saved.intact :
                             /\ saved.kafka_offset \in 0..(Len(log'[p]) - 1)
                             /\ AppliedBefore(saved.applied, p, saved.kafka_offset + 1)
      BY <1>2 DEF RowPositioned
    <3>1. /\ saved.applied \in Seq(Messages) /\ saved.intact \subseteq Partitions
          /\ \A p \in saved.intact : /\ saved.kafka_offset \in 0..(Len(log[p]) - 1)
                                     /\ AppliedBefore(saved.applied, p, saved.kafka_offset + 1)
      BY DEF OnceInv, RowPositioned
    <3>2. \A p \in saved.intact : saved.kafka_offset \in 0..(Len(log'[p]) - 1)
      BY <2>1, <3>1
    <3> QED BY <3>1, <3>2
  <2> QED BY <1>2, <2>2, <2>3 DEF OnceInv
<1>3. ASSUME NEW k \in Pods, NEW r, proc' = [proc EXCEPT ![k] = r], Moved(proc[k], r)
      PROVE  OnceInv'
  <2>1. (r.mode # "down" => Positioned(log', r)) /\ RowPositioned' /\ log' = log
    BY <1>1, <1>3, MovedOnce DEF OnceInv, Moved
  <2>2. proc' = [x \in Pods |-> IF x = k THEN r ELSE proc[x]]
    BY <1>1, <1>3
  <2>3. ASSUME NEW x \in Pods, proc'[x].mode # "down" PROVE Positioned(log', proc'[x])
    BY <2>1, <2>2, <2>3 DEF OnceInv
  <2> QED BY <2>1, <2>3 DEF OnceInv
<1> QED BY <1>1, <1>2, <1>3, Moves

(* There is no row, and no process. *)
LEMMA InitOnceInv == Init => OnceInv
<1> SUFFICES ASSUME Init PROVE OnceInv
  OBVIOUS
<1>1. \A k \in Pods : proc[k].mode = "down"
  BY DownFields DEF Init
<1> QED BY <1>1 DEF OnceInv, RowPositioned, Init

(* For every number of pods, partitions, orders, stops, failures and expired records: in
   a partition that a process has followed from its beginning, by itself or through a
   snapshot taken at a message of that partition, no message is lost to the book, none
   is in it twice, and none overtakes another.  One offset in the row is enough for the
   partition it is of, and for no other (ReplaysOnlyDelta). *)
THEOREM ReplaysOnlyTheDelta == Spec => []AppliedOnce
<1>1. OnceInv => AppliedOnce
  <2> SUFFICES ASSUME OnceInv, NEW k \in Running, NEW p \in proc[k].intact
               PROVE  AppliedBefore(proc[k].applied, p, proc[k].next[p])
    BY DEF AppliedOnce
  <2> QED BY DEF OnceInv, Positioned, Running
<1> QED BY <1>1, InitSoundInv, NextSoundInv, InitOnceInv, NextOnceInv, PTL DEF Spec
-----------------------------------------------------------------------------
(* The book of an engine that has processed the first n records of t. *)
Replayed(t, n) ==
  LET book[i \in Nat] ==
        IF i = 0 THEN EmptyBook ELSE ProcessOrder(book[i - 1], t[i], 0).book
  IN  book[n]

(* A log is replayed record by record. *)
LEMMA ReplayedSteps ==
  ASSUME NEW t
  PROVE  /\ Replayed(t, 0) = EmptyBook
         /\ \A n \in Nat : Replayed(t, n + 1) = ProcessOrder(Replayed(t, n), t[n + 1], 0).book
<1> DEFINE f == CHOOSE f : f = [i \in Nat |-> IF i = 0 THEN EmptyBook ELSE ProcessOrder(f[i - 1], t[i], 0).book]
           kind == <<"replay", t>>
<1>1. \A n, x : Step(kind, n, x) = ProcessOrder(x, t[n], 0).book
  BY DEF Step
<1>2. \E g : g = [n \in Nat |-> IF n = 0 THEN EmptyBook ELSE ProcessOrder(g[n - 1], t[n], 0).book]
  <2> HIDE DEF kind
  <2>1. PICK g : IsLoop(kind, EmptyBook, g)
    BY LoopDefined
  <2> QED BY <1>1, <2>1 DEF IsLoop
<1>3. f = [n \in Nat |-> IF n = 0 THEN EmptyBook ELSE ProcessOrder(f[n - 1], t[n], 0).book]
  BY <1>2
<1>4. \A n : Replayed(t, n) = f[n]
  BY DEF Replayed
<1> HIDE DEF f, kind
<1>5. f = [n \in Nat |-> IF n = 0 THEN EmptyBook ELSE Step(kind, n, f[n - 1])]
  BY <1>1, <1>3
<1>6. f[0] = EmptyBook /\ \A n \in Nat : f[n + 1] = Step(kind, n + 1, f[n])
  BY <1>5, LoopSteps
<1> QED BY <1>1, <1>4, <1>6

(* Replay is the whole of it. *)
LEMMA ReplayIsReplayed ==
  ASSUME NEW t
  PROVE  Replay(t) = Replayed(t, Len(t))
BY DEF Replay, Replayed

(* The replay depends on the records before the position only. *)
LEMMA ReplayedSame ==
  ASSUME NEW t, NEW u, NEW m \in Nat, \A i \in 1..m : t[i] = u[i]
  PROVE  Replayed(t, m) = Replayed(u, m)
<1> DEFINE S == {n \in Nat : n <= m => Replayed(t, n) = Replayed(u, n)}
<1>1. 0 \in S
  BY ReplayedSteps
<1>2. ASSUME NEW n \in Nat, n \in S PROVE n + 1 \in S
  <2> SUFFICES ASSUME n + 1 <= m PROVE Replayed(t, n + 1) = Replayed(u, n + 1)
    OBVIOUS
  <2>1. Replayed(t, n) = Replayed(u, n) /\ t[n + 1] = u[n + 1]
    BY <1>2
  <2> QED BY <2>1, ReplayedSteps
<1> HIDE DEF S
<1>3. m \in S
  BY <1>1, <1>2, NatInd
<1> QED BY <1>3 DEF S

(* A book that is replayed is sound. *)
LEMMA ReplayedSound ==
  ASSUME NEW t, NEW m \in Nat, \A i \in 1..m : Arriving(t[i])
  PROVE  BookSound(Replayed(t, m))
<1> DEFINE S == {n \in Nat : n <= m => BookSound(Replayed(t, n))}
<1>1. 0 \in S
  BY ReplayedSteps, EmptyBookSound
<1>2. ASSUME NEW n \in Nat, n \in S PROVE n + 1 \in S
  <2> SUFFICES ASSUME n + 1 <= m PROVE BookSound(Replayed(t, n + 1))
    OBVIOUS
  <2>1. BookSound(Replayed(t, n)) /\ Arriving(t[n + 1])
    BY <1>2
  <2> DEFINE b == Replayed(t, n)
  <2>2. Gained(b, t[n + 1], ProcessOrder(b, t[n + 1], 0).book)
    <3> HIDE DEF b
    <3> QED BY <2>1, ProcessSound DEF b
  <2> QED BY <2>2, ReplayedSteps DEF Gained
<1> HIDE DEF S
<1>3. m \in S
  BY <1>1, <1>2, NatInd
<1> QED BY <1>3 DEF S
-----------------------------------------------------------------------------
(* The ids of the orders of f are those of the first n records of t. *)
From(f, t, n) == \A j \in DOMAIN f : \E i \in 1..n : f[j].id = t[i].id

(* A book that has processed the first n records of t, possibly with restarts. *)
BookFollows(t, b, n) ==
  /\ From(b.orders, t, n)
  /\ SameDepth(b, Replayed(t, n))
  /\ IsInjective(t) => IndexSound(b)

(* The orders of a snapshot of such a book. *)
RowFollows(t, orders, n) ==
  /\ From(orders, t, n)
  /\ SameDepth(DeserializeBook(orders), Replayed(t, n))
  /\ IsInjective(t) => \A i, j \in 1..Len(orders) : orders[i].id = orders[j].id => i = j

(* u is t with more records. *)
Extends(t, u) ==
  /\ Len(t) \in Nat /\ Len(u) \in Nat /\ Len(t) <= Len(u)
  /\ DOMAIN t = 1..Len(t) /\ DOMAIN u = 1..Len(u)
  /\ \A i \in 1..Len(t) : u[i] = t[i]

(* Whoever has processed the first records of t has processed those of a longer u. *)
LEMMA StillFollows ==
  ASSUME NEW t, NEW u, Extends(t, u), NEW n \in Nat, n <= Len(t)
  PROVE  /\ \A b : BookFollows(t, b, n) => BookFollows(u, b, n)
         /\ \A orders : RowFollows(t, orders, n) => RowFollows(u, orders, n)
<1>1. Len(t) \in Nat /\ \A i \in 1..n : i \in 1..Len(t) /\ t[i] = u[i]
  BY DEF Extends
<1>2. Replayed(t, n) = Replayed(u, n)
  BY <1>1, ReplayedSame
<1>3. IsInjective(u) => IsInjective(t)
  <2>1. \A i \in DOMAIN t : i \in DOMAIN u /\ u[i] = t[i]
    BY DEF Extends
  <2> QED BY <2>1 DEF IsInjective
<1>4. \A f : From(f, t, n) => From(f, u, n)
  BY <1>1 DEF From
<1> QED BY <1>2, <1>3, <1>4 DEF BookFollows, RowFollows

(* Books that have the depth of one book have the same depth. *)
LEMMA SameDepthTrans ==
  ASSUME NEW b, NEW c, NEW d, SameDepth(b, c), SameDepth(c, d)
  PROVE  SameDepth(b, d) /\ SameDepth(c, b)
BY DEF SameDepth

(* A restored book follows the records its snapshot has seen. *)
LEMMA RestoreFollows ==
  ASSUME NEW t, NEW orders, RowSound(orders), NEW n, RowFollows(t, orders, n)
  PROVE  BookFollows(t, DeserializeBook(orders), n)
<1> DEFINE c == DeserializeBook(orders)
<1>1. Rebuilt(orders, Len(orders), c)
  BY DeserializeRebuilds
<1> HIDE DEF c
<1>2. Len(orders) \in Nat /\ DOMAIN orders = 1..Len(orders)
  BY LenProperties DEF RowSound
<1>3. From(c.orders, t, n)
  <2> SUFFICES ASSUME NEW j \in DOMAIN c.orders PROVE \E i \in 1..n : c.orders[j].id = t[i].id
    BY DEF From
  <2>1. j \in 0..(Len(orders) - 1)
    BY <1>1 DEF Rebuilt
  <2>2. j + 1 \in 1..Len(orders) /\ (j + 1) - 1 = j
    BY <1>2, <2>1
  <2>3. c.orders[j] = orders[j + 1]
    BY <1>1, <2>2 DEF Rebuilt
  <2>4. \E i \in 1..n : orders[j + 1].id = t[i].id
    BY <1>2, <2>2 DEF RowFollows, From
  <2> QED BY <2>3, <2>4
<1>4. IsInjective(t) => IndexSound(c)
  BY <1>1 DEF RowFollows, Rebuilt
<1> QED BY <1>3, <1>4 DEF BookFollows, RowFollows, c

(* The snapshot of a book follows the records that the book has seen. *)
LEMMA SnapshotFollows ==
  ASSUME NEW t, NEW b, BookSound(b), NEW n, BookFollows(t, b, n)
  PROVE  RowFollows(t, SerializeBook(b), n)
<1> DEFINE r == SerializeBook(b)
           D == DOMAIN b.orders
<1>1. /\ RowSound(r) /\ Len(r) = Cardinality(D)
      /\ \A i \in 1..Len(r) : SlabNth(b, i) \in D /\ r[i] = b.orders[SlabNth(b, i)]
  BY SerializeSound
<1>2. \A i \in 1..Cardinality(D) : SlabNth(b, i) \in D /\ Rank(D, SlabNth(b, i)) = i - 1
  BY SlabIterates DEF BookSound, Core
<1>3. SameDepth(DeserializeBook(r), b)
  BY RestoredDepth DEF SameDepth
<1> HIDE DEF r
<1>4. Len(r) \in Nat /\ DOMAIN r = 1..Len(r)
  BY <1>1, LenProperties DEF RowSound
<1>5. From(r, t, n)
  BY <1>1, <1>4 DEF From, BookFollows
<1>6. SameDepth(DeserializeBook(r), Replayed(t, n))
  BY <1>3, SameDepthTrans DEF BookFollows
<1>7. ASSUME IsInjective(t), NEW i \in 1..Len(r), NEW j \in 1..Len(r), r[i].id = r[j].id PROVE i = j
  <2>1. IndexSound(b)
    BY <1>7 DEF BookFollows
  <2>2. b.orders[SlabNth(b, i)].id = b.orders[SlabNth(b, j)].id /\ SlabNth(b, i) \in D /\ SlabNth(b, j) \in D
    BY <1>1, <1>7
  <2>3. SlabNth(b, i) = SlabNth(b, j)
    BY <2>1, <2>2 DEF IndexSound
  <2>4. i - 1 = j - 1
    BY <1>1, <1>2, <2>3
  <2> QED BY <1>4, <2>4
<1> QED BY <1>5, <1>6, <1>7 DEF RowFollows, r

(* One record more: the book of the engine and the replayed book go on alike. *)
LEMMA ReceiveFollows ==
  ASSUME TopicSound, NEW t, NEW n \in Nat, Len(t) = n + 1, DOMAIN t = 1..(n + 1),
         \A i \in 1..(n + 1) : t[i] \in Produced,
         NEW b, BookSound(b), NEW seq \in Nat, BookFollows(t, b, n),
         NEW o, Arriving(o), o.id = t[n + 1].id, Alike(o, t[n + 1])
  PROVE  BookFollows(t, ProcessOrder(b, o, seq).book, n + 1)
<1> DEFINE c == ProcessOrder(b, o, seq).book
<1>1. n + 1 \in 1..(n + 1) /\ \A i \in 1..(n + 1) : Arriving(t[i])
  BY DEF TopicSound
<1>3. /\ From(b.orders, t, n) /\ SameDepth(b, Replayed(t, n))
      /\ IsInjective(t) => IndexSound(b)
  BY DEF BookFollows
<1>4. Gained(b, o, c)
  BY ProcessSound
<1> HIDE DEF c
<1>5. From(c.orders, t, n + 1)
  <2> SUFFICES ASSUME NEW k \in DOMAIN c.orders PROVE \E i \in 1..(n + 1) : c.orders[k].id = t[i].id
    BY DEF From
  <2>1. CASE c.orders[k].id = o.id
    BY <1>1, <2>1
  <2>2. CASE \E j \in DOMAIN b.orders : c.orders[k].id = b.orders[j].id
    <3>1. PICK i \in 1..n : c.orders[k].id = t[i].id
      BY <1>3, <2>2 DEF From
    <3>2. i \in 1..(n + 1)
      BY <3>1
    <3> QED BY <3>1, <3>2
  <2> QED BY <1>4, <2>1, <2>2 DEF Gained
<1>6. SameDepth(c, Replayed(t, n + 1))
  <2>1. \A i \in 1..n : Arriving(t[i])
    BY <1>1
  <2>2. BookSound(Replayed(t, n))
    BY <2>1, ReplayedSound
  <2>3. SameDepth(c, ProcessOrder(Replayed(t, n), t[n + 1], 0).book)
    BY <1>1, <1>3, <2>2, ProcessDepth DEF c
  <2> QED BY <2>3, ReplayedSteps
<1>7. ASSUME IsInjective(t) PROVE IndexSound(c)
  <2>1. ASSUME NEW j \in DOMAIN b.orders, b.orders[j].id = o.id PROVE FALSE
    <3>1. PICK i \in 1..n : b.orders[j].id = t[i].id
      BY <1>3 DEF From
    <3>2. i \in 1..(n + 1) /\ i # n + 1
      BY <3>1
    <3>3. t[i] \in Produced /\ t[n + 1] \in Produced /\ t[i].id = t[n + 1].id
      BY <1>1, <2>1, <3>1, <3>2
    <3>4. t[i] = t[n + 1]
      BY <3>3 DEF TopicSound
    <3> QED BY <1>1, <1>7, <3>2, <3>4 DEF IsInjective
  <2> QED BY <1>3, <1>4, <1>7, <2>1 DEF Gained
<1> QED BY <1>5, <1>6, <1>7 DEF BookFollows, c
(* The empty book has processed nothing. *)
LEMMA EmptyFollows ==
  ASSUME NEW t
  PROVE  BookFollows(t, EmptyBook, 0)
<1>1. From(EmptyBook.orders, t, 0)
  <2>1. EmptyBook.orders = EmptyMap /\ DOMAIN EmptyMap = {}
    BY DEF EmptyBook, EmptyMap
  <2> QED BY <2>1 DEF From
<1>2. SameDepth(EmptyBook, Replayed(t, 0))
  BY ReplayedSteps DEF SameDepth
<1>3. IndexSound(EmptyBook)
  BY EmptyBookSound
<1> QED BY <1>1, <1>2, <1>3 DEF BookFollows
-----------------------------------------------------------------------------
(* The orders that the messages in s carry, in a topic. *)
HeardIn(topic, s) == [j \in 1..Len(s) |-> topic[s[j].partition][s[j].offset + 1]]

(* s lists messages of the topic. *)
OfTopic(topic, s) ==
  /\ s \in Seq(Messages)
  /\ \A j \in 1..Len(s) : s[j].offset < Len(topic[s[j].partition])

(* The book b has processed the messages in s. *)
Follows(topic, s, b) == OfTopic(topic, s) /\ BookFollows(HeardIn(topic, s), b, Len(s))

(* The snapshot row has. *)
SavedFollows(topic, s, orders) ==
  OfTopic(topic, s) /\ RowFollows(HeardIn(topic, s), orders, Len(s))

(* Every running process, and the snapshot row, follow the topic. *)
FollowInv ==
  /\ \A k \in Pods : proc[k].mode # "down" => Follows(log, proc[k].applied, proc[k].book)
  /\ saved # NoSnapshot => SavedFollows(log, saved.applied, saved.orders)

(* What is heard of the topic are orders of the topic. *)
LEMMA HeardFacts ==
  ASSUME LogSound, NEW s, OfTopic(log, s)
  PROVE  LET t == HeardIn(log, s)
         IN  /\ Len(s) \in Nat /\ Len(t) = Len(s) /\ DOMAIN t = 1..Len(s)
             /\ \A j \in 1..Len(s) : /\ t[j] = log[s[j].partition][s[j].offset + 1]
                                      /\ t[j] \in Produced
<1> DEFINE t == HeardIn(log, s)
<1>1. Len(s) \in Nat /\ DOMAIN t = 1..Len(s)
  BY LenProperties DEF OfTopic, HeardIn
<1>2. ASSUME NEW j \in 1..Len(s)
      PROVE  t[j] = log[s[j].partition][s[j].offset + 1] /\ t[j] \in Produced
  <2>1. s[j] \in Messages /\ s[j].offset < Len(log[s[j].partition])
    BY ElementOfSeq DEF OfTopic
  <2>2. s[j].partition \in Partitions /\ s[j].offset \in Nat
    BY <2>1 DEF Messages
  <2>3. Len(log[s[j].partition]) \in Nat
    BY <2>2, ProducedFacts
  <2>4. s[j].offset + 1 \in 1..Len(log[s[j].partition])
    BY <2>1, <2>2, <2>3
  <2>5. log[s[j].partition][s[j].offset + 1] \in Produced
    BY <2>2, <2>4, ProducedFacts
  <2> QED BY <2>5 DEF HeardIn
<1>3. Len(t) = Len(s)
  <2>1. t \in Seq(Produced)
    <3>1. t \in [1..Len(s) -> Produced]
      BY <1>2 DEF HeardIn
    <3> QED BY <1>1, <3>1, SeqDef
  <2> QED BY <1>1, <2>1, LenProperties
<1> QED BY <1>1, <1>2, <1>3

(* The records that a partition has stay where they are. *)
LEMMA LogKeeps ==
  ASSUME LogSound, [Next]_vars
  PROVE  \A p \in Partitions : \A i \in 1..Len(log[p]) : log'[p][i] = log[p][i]
<1>1. ASSUME NEW q \in Partitions, NEW o \in NewOrders, Produce(q, o)
      PROVE  \A p \in Partitions : \A i \in 1..Len(log[p]) : log'[p][i] = log[p][i]
  BY <1>1, NewOrdersTyped, LogGrows DEF Produce
<1>2. ASSUME NEW q \in Partitions, NEW o \in Range(log[q]), ProduceAgain(q, o)
      PROVE  \A p \in Partitions : \A i \in 1..Len(log[p]) : log'[p][i] = log[p][i]
  <2>1. PICK i \in 1..Len(log[q]) : o = log[q][i]
    BY ProducedFacts
  <2>2. o \in Order
    BY <2>1, ElementOfSeq DEF LogSound
  <2> QED BY <1>2, <2>2, LogGrows DEF ProduceAgain
<1>3. CASE \E k \in Pods : Start(k) \/ Engine(k) \/ SaveSnapshot(k) \/ Flush(k) \/ Stop(k)
  BY <1>3 DEF Start, Engine, ResetOffset, Consume, Follow, SaveSnapshot, Flush, Stop
<1>4. CASE UNCHANGED vars
  BY <1>4 DEF vars
<1>5. CASE \E p \in Partitions : Expire(p)
  BY <1>5 DEF Expire
<1> QED BY <1>1, <1>2, <1>3, <1>4, <1>5 DEF Next

(* The topic only grows, and what has been heard of it stays. *)
LEMMA StillHeard ==
  ASSUME LogSound, [Next]_vars, NEW s, OfTopic(log, s)
  PROVE  OfTopic(log', s) /\ HeardIn(log', s) = HeardIn(log, s)
<1>1. \A p \in Partitions : /\ Len(log[p]) \in Nat /\ Len(log'[p]) \in Nat
                            /\ Len(log[p]) <= Len(log'[p])
                            /\ \A i \in 1..Len(log[p]) : log'[p][i] = log[p][i]
  BY LogSoundNext, LogKeeps
<1>2. ASSUME NEW j \in 1..Len(s)
      PROVE  /\ s[j].offset < Len(log'[s[j].partition])
             /\ log'[s[j].partition][s[j].offset + 1] = log[s[j].partition][s[j].offset + 1]
  <2>1. s[j] \in Messages /\ s[j].offset < Len(log[s[j].partition])
    BY ElementOfSeq DEF OfTopic
  <2>2. s[j].partition \in Partitions /\ s[j].offset \in Nat
    BY <2>1 DEF Messages
  <2>3. s[j].offset + 1 \in 1..Len(log[s[j].partition])
    BY <1>1, <2>1, <2>2
  <2> QED BY <1>1, <2>1, <2>2, <2>3
<1> QED BY <1>2 DEF OfTopic, HeardIn

(* The next message of the partition p is processed. *)
LEMMA NextFollows ==
  ASSUME TopicSound, NEW p \in Partitions, NEW q, q.next[p] \in Nat, HasNext(q, p),
         BookSound(q.book), q.sequence \in Nat, Follows(log, q.applied, q.book)
  PROVE  Follows(log, Append(q.applied, Message(p, q.next[p])),
                 ProcessOrder(q.book, Stamped(q, p), q.sequence).book)
<1> DEFINE s == q.applied
           x == Message(p, q.next[p])
           u == Append(s, x)
           n == Len(s)
           t == HeardIn(log, u)
<1>1. OfTopic(log, s) /\ BookFollows(HeardIn(log, s), q.book, n) /\ LogSound
  BY DEF Follows, TopicSound
<1>2. x \in Messages /\ x.partition = p /\ x.offset = q.next[p]
  BY DEF Message, Messages
<1>3. /\ q.next[p] + 1 \in 1..Len(log[p]) /\ Len(log[p]) \in Nat
      /\ Arriving(Stamped(q, p)) /\ Stamped(q, p).id = log[p][q.next[p] + 1].id
      /\ Alike(Stamped(q, p), log[p][q.next[p] + 1])
  BY StampedArrives
<1> HIDE DEF x
<1>4. /\ u \in Seq(Messages) /\ Len(u) = n + 1 /\ n \in Nat
      /\ u[n + 1] = x /\ \A j \in 1..n : u[j] = s[j]
  BY <1>1, <1>2, AppendProperties, LenProperties DEF OfTopic
<1> HIDE DEF u, n
<1>5. OfTopic(log, u)
  <2>1. ASSUME NEW j \in 1..(n + 1) PROVE u[j].offset < Len(log[u[j].partition])
    <3>1. CASE j = n + 1
      BY <1>2, <1>3, <1>4, <3>1
    <3>2. CASE j # n + 1
      <4>1. j \in 1..n
        BY <1>4, <3>2
      <4> QED BY <1>1, <1>4, <4>1 DEF OfTopic, n
    <3> QED BY <3>1, <3>2
  <2> QED BY <1>4, <2>1 DEF OfTopic
<1>6. /\ Len(t) = n + 1 /\ DOMAIN t = 1..(n + 1)
      /\ \A j \in 1..(n + 1) : /\ t[j] = log[u[j].partition][u[j].offset + 1]
                                /\ t[j] \in Produced
  BY <1>1, <1>4, <1>5, HeardFacts
<1>7. Extends(HeardIn(log, s), t) /\ Len(HeardIn(log, s)) = n
  <2>1. LET v == HeardIn(log, s)
        IN  /\ Len(v) = n /\ DOMAIN v = 1..n
            /\ \A j \in 1..n : v[j] = log[s[j].partition][s[j].offset + 1]
    BY <1>1, HeardFacts DEF n
  <2> HIDE DEF t
  <2> QED BY <1>4, <1>6, <2>1 DEF Extends
<1> HIDE DEF t
<1>8. BookFollows(t, q.book, n)
  BY <1>1, <1>4, <1>7, StillFollows
<1>9. t[n + 1] = log[p][q.next[p] + 1]
  BY <1>2, <1>4, <1>6
<1>10. BookFollows(t, ProcessOrder(q.book, Stamped(q, p), q.sequence).book, n + 1)
  BY <1>3, <1>4, <1>6, <1>8, <1>9, ReceiveFollows
<1> QED BY <1>4, <1>5, <1>10 DEF Follows, t, u, x

(* A step of a process: a start takes the book and the messages of the row, a reset leaves
   both alone, a message is processed, and the row that is saved has both of the engine. *)
LEMMA MovedFollows ==
  ASSUME SoundInv, NEW q, ProcSound(q), q.mode # "down" => Follows(log, q.applied, q.book),
         saved # NoSnapshot => SavedFollows(log, saved.applied, saved.orders),
         NEW r, Moved(q, r)
  PROVE  /\ r.mode # "down" => Follows(log, r.applied, r.book)
         /\ saved' # NoSnapshot => SavedFollows(log, saved'.applied, saved'.orders)
<1>1. CASE Started(r) /\ saved' = saved
  <2>1. r.book = RestoredBook /\ r.applied = RestoredApplied
    BY <1>1 DEF Started
  <2>2. CASE saved = NoSnapshot
    <3>1. r.book = EmptyBook /\ r.applied = << >> /\ Len(<< >>) = 0 /\ << >> \in Seq(Messages)
      BY <2>1, <2>2 DEF RestoredBook, RestoredApplied
    <3>2. OfTopic(log, << >>)
      BY <3>1 DEF OfTopic
    <3>3. BookFollows(HeardIn(log, << >>), EmptyBook, 0)
      BY EmptyFollows
    <3> QED BY <1>1, <3>1, <3>2, <3>3 DEF Follows
  <2>3. CASE saved # NoSnapshot
    <3>1. r.book = DeserializeBook(saved.orders) /\ r.applied = saved.applied
      BY <2>1, <2>3 DEF RestoredBook, RestoredApplied
    <3>2. RowSound(saved.orders) /\ SavedFollows(log, saved.applied, saved.orders)
      BY <2>3 DEF SoundInv, SavedSound
    <3>3. BookFollows(HeardIn(log, saved.applied), DeserializeBook(saved.orders), Len(saved.applied))
      BY <3>2, RestoreFollows DEF SavedFollows
    <3>4. Follows(log, r.applied, r.book)
      BY <3>1, <3>2, <3>3 DEF Follows, SavedFollows
    <3> QED BY <1>1, <3>4
  <2> QED BY <2>2, <2>3
<1>2. CASE Resets(q, r) /\ saved' = saved
  BY <1>2 DEF Resets, Kept
<1>3. ASSUME NEW p \in Partitions, Receives(q, p, r), saved' = saved
      PROVE  Follows(log, r.applied, r.book)
  <2>1. /\ HasNext(q, p) /\ q.mode # "down"
        /\ r.book = ProcessOrder(q.book, Stamped(q, p), q.sequence).book
        /\ r.applied = Append(q.applied, Message(p, q.next[p]))
    BY <1>3 DEF Receives
  <2>2. q.next[p] \in Nat /\ BookSound(q.book) /\ q.sequence \in Nat
    BY DEF ProcSound
  <2>3. Follows(log, Append(q.applied, Message(p, q.next[p])),
                ProcessOrder(q.book, Stamped(q, p), q.sequence).book)
    BY <2>1, <2>2, NextFollows DEF SoundInv
  <2> QED BY <2>1, <2>3
<1>4. CASE Returns(q, r)
  <2>1. r.mode # "down" => Follows(log, r.applied, r.book)
    BY <1>4 DEF Returns, Kept
  <2>2. CASE q.saving /\ saved' = Row(q)
    <3>1. saved'.orders = SerializeBook(q.book) /\ saved'.applied = q.applied
      BY <2>2 DEF Row
    <3>2. BookSound(q.book) /\ Follows(log, q.applied, q.book)
      BY <2>2 DEF ProcSound
    <3>3. RowFollows(HeardIn(log, q.applied), SerializeBook(q.book), Len(q.applied))
      BY <3>2, SnapshotFollows DEF Follows
    <3>4. SavedFollows(log, saved'.applied, saved'.orders)
      BY <3>1, <3>2, <3>3 DEF Follows, SavedFollows
    <3> QED BY <2>1, <3>4
  <2> QED BY <1>4, <2>1, <2>2 DEF Returns
<1>5. CASE r = Down /\ saved' = saved
  <2>1. r.mode = "down"
    BY <1>5, DownFields
  <2> QED BY <1>5, <2>1
<1> QED BY <1>1, <1>2, <1>3, <1>4, <1>5 DEF Moved

(* Every step keeps the processes and the row at the messages they have applied. *)
LEMMA NextFollowInv == SoundInv /\ FollowInv /\ [Next]_vars => FollowInv'
<1> SUFFICES ASSUME SoundInv, FollowInv, [Next]_vars PROVE FollowInv'
  OBVIOUS
<1>1. /\ proc = [k \in Pods |-> proc[k]] /\ ProcsSound /\ LogSound
      /\ \A k \in Pods : ProcSound(proc[k])
  BY DEF SoundInv, ProcsSound, TopicSound
<1>2. \A s : OfTopic(log, s) => OfTopic(log', s) /\ HeardIn(log', s) = HeardIn(log, s)
  BY <1>1, StillHeard
<1>3. /\ \A s, b : Follows(log, s, b) => Follows(log', s, b)
      /\ \A s, orders : SavedFollows(log, s, orders) => SavedFollows(log', s, orders)
  BY <1>2 DEF Follows, SavedFollows
<1>4. CASE proc' = proc /\ saved' = saved
  BY <1>3, <1>4 DEF FollowInv
<1>5. ASSUME NEW k \in Pods, NEW r, proc' = [proc EXCEPT ![k] = r], Moved(proc[k], r)
      PROVE  FollowInv'
  <2>1. /\ r.mode # "down" => Follows(log, r.applied, r.book)
        /\ saved' # NoSnapshot => SavedFollows(log, saved'.applied, saved'.orders)
    BY <1>1, <1>5, MovedFollows DEF FollowInv
  <2>2. proc' = [x \in Pods |-> IF x = k THEN r ELSE proc[x]]
    BY <1>1, <1>5
  <2>3. ASSUME NEW x \in Pods, proc'[x].mode # "down"
        PROVE  Follows(log', proc'[x].applied, proc'[x].book)
    BY <1>3, <2>1, <2>2, <2>3 DEF FollowInv
  <2> QED BY <1>3, <2>1, <2>3 DEF FollowInv
<1> QED BY <1>1, <1>4, <1>5, Moves

(* Nobody runs and there is no row. *)
LEMMA InitFollowInv == Init => FollowInv
<1> SUFFICES ASSUME Init PROVE FollowInv
  OBVIOUS
<1>1. \A k \in Pods : proc[k].mode = "down"
  BY DownFields DEF Init
<1> QED BY <1>1 DEF FollowInv, Init

(* For every number of pods, partitions, orders, stops, failures and expired records: the
   slab, the queues and the index of a book agree, through every stop, snapshot and
   restore and whatever follows.  When an order has been processed twice (a repeated
   record, or a message read again after an offset reset) the index still points at live
   orders of the right id; otherwise it is exact. *)
THEOREM BooksStayConsistent == Spec => []RestoredConsistent
<1>1. SoundInv /\ FollowInv => RestoredConsistent
  <2> SUFFICES ASSUME SoundInv, FollowInv, NEW k \in Running
               PROVE  LET b == proc[k].book
                      IN  /\ SlabSound(b) /\ LevelsSound(b) /\ QueuedOnce(b) /\ LevelsComplete(b)
                          /\ LiveOrdersOpen(b) /\ Uncrossed(b)
                          /\ \A id \in DOMAIN b.index :
                               b.index[id] \in DOMAIN b.orders /\ b.orders[b.index[id]].id = id
                          /\ IsInjective(Heard(proc[k].applied)) => IndexSound(b)
    BY DEF RestoredConsistent
  <2>1. k \in Pods /\ proc[k].mode # "down"
    BY DEF Running
  <2>2. BookSound(proc[k].book)
    BY <2>1 DEF SoundInv, ProcsSound, ProcSound
  <2>3. BookFollows(HeardIn(log, proc[k].applied), proc[k].book, Len(proc[k].applied))
    BY <2>1 DEF FollowInv, Follows
  <2>4. IsInjective(Heard(proc[k].applied)) => IndexSound(proc[k].book)
    BY <2>3 DEF BookFollows, Heard, HeardIn
  <2> QED BY <2>2, <2>4 DEF BookSound, Core, IndexPoints
<1> QED BY <1>1, InitSoundInv, NextSoundInv, InitFollowInv, NextFollowInv, PTL DEF Spec

(* For every number of pods, partitions, orders, stops, failures and expired records: the
   open quantity of every level of every running engine, leader or follower, restored or
   not, is that of an engine that has processed the same messages in the same order
   without a stop.  The order within a level is another matter (RestoredInTimeOrder), and
   so is which messages they are (AppliedOnce, ReplaysOnlyDelta). *)
THEOREM DepthOfTheLog == Spec => []DepthIsReplay
<1>1. SoundInv /\ FollowInv => DepthIsReplay
  <2> SUFFICES ASSUME SoundInv, FollowInv, NEW k \in Running
               PROVE  SameDepth(proc[k].book, Replay(Heard(proc[k].applied)))
    BY DEF DepthIsReplay
  <2> DEFINE s == proc[k].applied
             t == HeardIn(log, s)
  <2>1. Follows(log, s, proc[k].book)
    BY DEF FollowInv, Running
  <2>2. Heard(s) = t
    BY DEF Heard, HeardIn
  <2>3. Len(t) = Len(s)
    BY <2>1, HeardFacts DEF Follows, SoundInv, TopicSound
  <2>4. Replay(t) = Replayed(t, Len(s))
    BY <2>3, ReplayIsReplayed
  <2> QED BY <2>1, <2>2, <2>4 DEF Follows, BookFollows
<1> QED BY <1>1, InitSoundInv, NextSoundInv, InitFollowInv, NextFollowInv, PTL DEF Spec
===============================================================================
