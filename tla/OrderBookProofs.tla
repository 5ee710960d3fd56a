---------------------------- MODULE OrderBookProofs ----------------------------
(***************************************************************************)
(* What the operations of the order book and the decisions of the matching *)
(* loop preserve, for every book: the lemmas the proofs about the engine   *)
(* and about recovery rest on.                                             *)
(***************************************************************************)
EXTENDS Matching, SequenceTheorems, TLAPS

(* The slab, the queues and the index agree with each other. *)
Structure(b) ==
  /\ SlabSound(b)
  /\ LevelsSound(b)
  /\ QueuedOnce(b)
  /\ LevelsComplete(b)
  /\ IndexSound(b)

(* Every entry of the index points at an order with that id: the half of
   IndexSound that also holds with two orders of one id in the book. *)
IndexPoints(b) ==
  \A id \in DOMAIN b.index :
    b.index[id] \in DOMAIN b.orders /\ b.orders[b.index[id]].id = id

(* The structure of a book in which an id may be live twice. *)
Core(b) ==
  /\ SlabSound(b)
  /\ LevelsSound(b)
  /\ QueuedOnce(b)
  /\ LevelsComplete(b)
  /\ IndexPoints(b)

(* The index is all that an id which is live twice can spoil. *)
LEMMA StructureIsCore ==
  ASSUME NEW b
  PROVE  Structure(b) <=> Core(b) /\ IndexSound(b)
BY DEF Structure, Core, IndexSound, IndexPoints

(* A queue with one element taken out is one shorter and keeps the order of
   the others. *)
LEMMA WithoutProperties ==
  ASSUME NEW level \in Seq(Nat), NEW at \in 1..Len(level)
  PROVE  /\ Without(level, at) \in Seq(Nat)
         /\ Len(Without(level, at)) = Len(level) - 1
         /\ \A i \in 1..(Len(level) - 1) :
              Without(level, at)[i] = IF i < at THEN level[i] ELSE level[i + 1]
<1> DEFINE n == Len(level) - 1
           w == Without(level, at)
<1>1. n \in Nat
  BY LenProperties
<1>2. \A i \in 1..n : (IF i < at THEN level[i] ELSE level[i + 1]) \in Nat
  <2> TAKE i \in 1..n
  <2>1. i \in 1..Len(level) /\ i + 1 \in 1..Len(level)
    BY LenProperties
  <2> QED BY <2>1, ElementOfSeq
<1>3. w \in [1..n -> Nat]
  BY <1>2 DEF Without
<1>4. w \in Seq(Nat)
  BY <1>1, <1>3, SeqDef
<1>5. Len(w) = n
  BY <1>1, <1>3, <1>4, LenProperties
<1> QED BY <1>3, <1>4, <1>5 DEF Without

(* retain and pop_front on a level: every key but the one taken out is still
   queued. *)
LEMMA WithoutKeeps ==
  ASSUME NEW level \in Seq(Nat), NEW at \in 1..Len(level),
         NEW i \in 1..Len(level), i # at
  PROVE  \E h \in 1..Len(Without(level, at)) : Without(level, at)[h] = level[i]
<1> DEFINE w == Without(level, at)
<1>1. /\ Len(level) \in Nat /\ Len(w) = Len(level) - 1
      /\ \A h \in 1..(Len(level) - 1) :
           w[h] = IF h < at THEN level[h] ELSE level[h + 1]
  BY WithoutProperties, LenProperties
<1> HIDE DEF w
<1>2. CASE i < at
  <2>1. i \in 1..Len(w) /\ w[i] = level[i]
    BY <1>1, <1>2
  <2> QED BY <2>1 DEF w
<1>3. CASE i > at
  <2>1. i - 1 \in 1..(Len(level) - 1) /\ ~(i - 1 < at) /\ (i - 1) + 1 = i
    BY <1>1, <1>3
  <2>2. i - 1 \in 1..Len(w) /\ w[i - 1] = level[i]
    BY <1>1, <2>1
  <2> QED BY <2>2 DEF w
<1> QED BY <1>2, <1>3

(* VecDeque::pop_front takes out the first element. *)
LEMMA TailIsWithout ==
  ASSUME NEW level \in Seq(Nat), level # << >>
  PROVE  Tail(level) = Without(level, 1) /\ 1 \in 1..Len(level)
<1>1. Len(level) \in Nat \ {0}
  BY LenProperties, EmptySeq
<1>2. /\ Tail(level) \in Seq(Nat)
      /\ Len(Tail(level)) = Len(level) - 1
      /\ \A i \in 1..Len(Tail(level)) : Tail(level)[i] = level[i + 1]
  BY HeadTailProperties
<1>3. 1 \in 1..Len(level)
  BY <1>1
<1>4. /\ Without(level, 1) \in Seq(Nat)
      /\ Len(Without(level, 1)) = Len(level) - 1
      /\ \A i \in 1..(Len(level) - 1) : Without(level, 1)[i] = level[i + 1]
  BY <1>3, WithoutProperties
<1>5. Tail(level) = Without(level, 1)
  BY <1>2, <1>4, SeqEqual
<1> QED BY <1>3, <1>5

(* VecDeque::retain takes out the position of the key, if it is queued
   once. *)
LEMMA RetainIsWithout ==
  ASSUME NEW level \in Seq(Nat), NEW at \in 1..Len(level),
         \A i, j \in 1..Len(level) : level[i] = level[j] => i = j
  PROVE  Retain(level, level[at]) = Without(level, at)
BY DEF Retain

(* VecDeque::push_back puts the key behind the others. *)
LEMMA AppendQueue ==
  ASSUME NEW level \in Seq(Nat), NEW key \in Nat
  PROVE  /\ Append(level, key) \in Seq(Nat)
         /\ Append(level, key) # << >>
         /\ Len(Append(level, key)) = Len(level) + 1
         /\ \A i \in 1..Len(level) : Append(level, key)[i] = level[i]
         /\ Append(level, key)[Len(level) + 1] = key
BY AppendProperties, EmptySeq, LenProperties

(* What Put and Drop do to a map. *)
LEMMA PutMap ==
  ASSUME NEW f, NEW k, NEW v
  PROVE  /\ DOMAIN Put(f, k, v) = DOMAIN f \cup {k}
         /\ Put(f, k, v)[k] = v
         /\ \A x \in DOMAIN f : x # k => Put(f, k, v)[x] = f[x]
BY DEF Put

(* HashMap::remove: the key is gone, the other entries are untouched. *)
LEMMA DropMap ==
  ASSUME NEW f, NEW k
  PROVE  /\ DOMAIN Drop(f, k) = DOMAIN f \ {k}
         /\ \A x \in DOMAIN f : x # k => Drop(f, k)[x] = f[x]
BY DEF Drop

(* HashMap::insert keeps a map over its keys and values. *)
LEMMA PutIsMap ==
  ASSUME NEW K, NEW V, NEW f, IsMap(f, K, V), NEW k \in K, NEW v \in V
  PROVE  IsMap(Put(f, k, v), K, V)
BY DEF Put, IsMap

(* HashMap::remove keeps a map over its keys and values. *)
LEMMA DropIsMap ==
  ASSUME NEW K, NEW V, NEW f, IsMap(f, K, V), NEW k
  PROVE  IsMap(Drop(f, k), K, V)
BY DEF Drop, IsMap

(* Replacing the levels of one side leaves the other side alone. *)
LEMMA OneSide ==
  ASSUME NEW L, L = [s \in Side |-> L[s]], NEW t \in Side, NEW m
  PROVE  LET M == [L EXCEPT ![t] = m]
         IN  /\ M = [s \in Side |-> M[s]]
             /\ M[t] = m
             /\ \A s \in Side : s # t => M[s] = L[s]
<1> DEFINE M == [L EXCEPT ![t] = m]
<1>1. M = [s \in Side |-> IF s = t THEN m ELSE L[s]]
  OBVIOUS
<1> QED BY <1>1
-----------------------------------------------------------------------------
(* insert_order: the fields of the new book, spelt out. *)
LEMMA InsertFields ==
  ASSUME NEW b, IsBook(b), NEW o \in Order
  PROVE  LET c     == InsertOrder(b, o)
             key   == SlabKey(b)
             level == IF o.price \in DOMAIN b.levels[o.side]
                      THEN b.levels[o.side][o.price] ELSE << >>
         IN  /\ c = BookOf(c, c.index, c.levels)
             /\ c.orders = Put(b.orders, key, o)
             /\ c.vacant = IF b.vacant = << >> THEN b.vacant ELSE Tail(b.vacant)
             /\ c.len = IF b.vacant = << >> THEN b.len + 1 ELSE b.len
             /\ c.index = Put(b.index, o.id, key)
             /\ c.levels = [b.levels EXCEPT ![o.side] =
                              Put(b.levels[o.side], o.price, Append(level, key))]
BY DEF InsertOrder, SlabInsert, BookOf

(* The slab hands out a key that is not in use. *)
LEMMA SlabKeyFresh ==
  ASSUME NEW b, IsBook(b), SlabSound(b)
  PROVE  SlabKey(b) \in Nat /\ SlabKey(b) \notin DOMAIN b.orders
<1>1. CASE b.vacant = << >>
  BY <1>1 DEF SlabKey, IsBook, IsMap, SlabSound
<1>2. CASE b.vacant # << >>
  <2>1. 1 \in 1..Len(b.vacant) /\ Head(b.vacant) = b.vacant[1]
    BY <1>2 DEF IsBook
  <2> QED BY <1>2, <2>1 DEF SlabKey, IsBook, SlabSound
<1> QED BY <1>1, <1>2

(* c is b with one order more. *)
Grown(b, o, c) ==
  /\ IsBook(c)
  /\ Core(c)
  /\ IndexSound(b) /\ o.id \notin DOMAIN b.index => IndexSound(c)
  /\ \A k \in DOMAIN c.orders :
       c.orders[k] = o \/ (k \in DOMAIN b.orders /\ c.orders[k] = b.orders[k])
  /\ DOMAIN c.levels[o.side] = DOMAIN b.levels[o.side] \cup {o.price}
  /\ \A s \in Side : s # o.side => c.levels[s] = b.levels[s]
  /\ (/\ TimeOrdered(b)
      /\ \A k \in DOMAIN b.orders : b.orders[k].sequence < o.sequence)
     => TimeOrdered(c)

(* The keys queued at a level are those of orders of that side and price. *)
LEMMA LevelEntries ==
  ASSUME NEW b, LevelsSound(b), NEW s \in Side, NEW p \in DOMAIN b.levels[s]
  PROVE  \A i \in 1..Len(b.levels[s][p]) :
           /\ b.levels[s][p][i] \in DOMAIN b.orders
           /\ b.orders[b.levels[s][p][i]].side = s
           /\ b.orders[b.levels[s][p][i]].price = p
  BY DEF LevelsSound

(* Inserting an order with a price keeps the book well-formed, the index too if the
   id is new, and the queues in order of arrival if the order is the latest. *)
LEMMA InsertGrows ==
  ASSUME NEW b, IsBook(b), Core(b),
         NEW o \in Order, o.price \in Prices
  PROVE  Grown(b, o, InsertOrder(b, o))
<1> DEFINE c   == InsertOrder(b, o)
           key == SlabKey(b)
           lev == IF o.price \in DOMAIN b.levels[o.side]
                  THEN b.levels[o.side][o.price] ELSE << >>
           new == Append(lev, key)
<1>0. key \in Nat /\ key \notin DOMAIN b.orders
  BY SlabKeyFresh DEF Core
<1>1. o.side \in Side /\ o.id \in Ids
  BY DEF Order
<1>2. lev \in Seq(Nat)
  BY <1>1 DEF IsBook, IsMap
<1> HIDE DEF lev, key
<1>3. /\ new \in Seq(Nat) /\ new # << >> /\ Len(new) = Len(lev) + 1
      /\ \A i \in 1..Len(lev) : new[i] = lev[i]
      /\ new[Len(lev) + 1] = key
  BY <1>0, <1>2, AppendQueue
<1>4. /\ Len(lev) \in Nat /\ Len(new) \in Nat
      /\ 1..Len(lev) \subseteq 1..Len(new)
  BY <1>2, <1>3, LenProperties
<1> HIDE DEF new
<1>5. /\ c = BookOf(c, c.index, c.levels)
      /\ c.orders = Put(b.orders, key, o)
      /\ c.vacant = IF b.vacant = << >> THEN b.vacant ELSE Tail(b.vacant)
      /\ c.len = IF b.vacant = << >> THEN b.len + 1 ELSE b.len
      /\ c.index = Put(b.index, o.id, key)
      /\ c.levels = [b.levels EXCEPT ![o.side] =
                       Put(b.levels[o.side], o.price, new)]
  BY InsertFields DEF new, key, lev
<1> HIDE DEF c
<1>6. /\ DOMAIN c.orders = DOMAIN b.orders \cup {key}
      /\ c.orders[key] = o
      /\ \A k \in DOMAIN b.orders : c.orders[k] = b.orders[k]
  BY <1>0, <1>5 DEF Put
<1>7. /\ DOMAIN c.index = DOMAIN b.index \cup {o.id}
      /\ c.index[o.id] = key
      /\ \A id \in DOMAIN b.index : id # o.id => c.index[id] = b.index[id]
  BY <1>5 DEF Put
<1>8. /\ c.levels = [s \in Side |-> c.levels[s]]
      /\ DOMAIN c.levels[o.side] = DOMAIN b.levels[o.side] \cup {o.price}
      /\ c.levels[o.side][o.price] = new
      /\ \A p \in DOMAIN b.levels[o.side] : p # o.price =>
           c.levels[o.side][p] = b.levels[o.side][p]
      /\ \A s \in Side : s # o.side => c.levels[s] = b.levels[s]
      /\ c.levels[o.side] = Put(b.levels[o.side], o.price, new)
  <2>1. c.levels[o.side] = Put(b.levels[o.side], o.price, new)
    BY <1>1, <1>5, OneSide DEF IsBook
  <2>2. /\ c.levels = [s \in Side |-> c.levels[s]]
        /\ \A s \in Side : s # o.side => c.levels[s] = b.levels[s]
    BY <1>1, <1>5, OneSide DEF IsBook
  <2>3. /\ DOMAIN Put(b.levels[o.side], o.price, new)
             = DOMAIN b.levels[o.side] \cup {o.price}
        /\ Put(b.levels[o.side], o.price, new)[o.price] = new
        /\ \A p \in DOMAIN b.levels[o.side] : p # o.price =>
             Put(b.levels[o.side], o.price, new)[p] = b.levels[o.side][p]
    BY DEF Put
  <2> QED BY <2>1, <2>2, <2>3
<1>9. \A i \in 1..Len(lev) :
        /\ o.price \in DOMAIN b.levels[o.side]
        /\ lev = b.levels[o.side][o.price]
  BY <1>2 DEF lev
<1>10. lev = << >> \/ lev = b.levels[o.side][o.price]
  BY DEF lev
<1>11. IsBook(c)
  <2>1. IsMap(c.orders, Nat, Order)
    BY <1>0, <1>5, <1>6 DEF IsMap, IsBook, Put
  <2>2. c.vacant \in Seq(Nat) /\ c.len \in Nat
    BY <1>5 DEF IsBook
  <2>3. IsMap(c.index, Ids, Nat)
    BY <1>0, <1>1, <1>5, <1>7 DEF IsMap, IsBook, Put
  <2>4. \A s \in Side : IsMap(c.levels[s], Prices, Seq(Nat))
    <3> TAKE s \in Side
    <3>1. CASE s = o.side
      BY <1>1, <1>3, <1>8, <3>1, PutIsMap DEF IsBook
    <3>2. CASE s # o.side
      BY <1>8, <3>2 DEF IsBook
    <3> QED BY <3>1, <3>2
  <2> QED BY <1>5, <1>8, <2>1, <2>2, <2>3, <2>4 DEF IsBook
<1>12. SlabSound(c)
  <2>1. CASE b.vacant = << >>
    BY <1>5, <1>6, <2>1 DEF SlabSound, Core, IsBook, IsMap, key, SlabKey
  <2>2. CASE b.vacant # << >>
    <3>1. /\ 1 \in 1..Len(b.vacant) /\ key = b.vacant[1]
      BY <2>2 DEF IsBook, key, SlabKey
    <3>2. /\ Len(Tail(b.vacant)) = Len(b.vacant) - 1
          /\ \A i \in 1..(Len(b.vacant) - 1) :
               Tail(b.vacant)[i] = b.vacant[i + 1] /\ i + 1 \in 1..Len(b.vacant)
      BY <2>2, HeadTailProperties, LenProperties DEF IsBook
    <3> QED BY <1>5, <1>6, <2>2, <3>1, <3>2 DEF SlabSound, Core, IsBook
  <2> QED BY <2>1, <2>2
<1>13. LevelsSound(c)
  <2> SUFFICES ASSUME NEW s \in Side, NEW p \in DOMAIN c.levels[s]
               PROVE  /\ c.levels[s][p] # << >>
                      /\ \A i \in 1..Len(c.levels[s][p]) :
                           /\ c.levels[s][p][i] \in DOMAIN c.orders
                           /\ c.orders[c.levels[s][p][i]].side = s
                           /\ c.orders[c.levels[s][p][i]].price = p
    BY DEF LevelsSound
  <2>1. CASE s = o.side /\ p = o.price
    <3> SUFFICES ASSUME NEW i \in 1..Len(new)
                 PROVE  /\ new[i] \in DOMAIN c.orders
                        /\ c.orders[new[i]].side = s
                        /\ c.orders[new[i]].price = p
      BY <1>3, <1>8, <2>1
    <3>1. CASE i = Len(lev) + 1
      BY <1>3, <1>6, <2>1, <3>1
    <3>2. CASE i \in 1..Len(lev)
      <4>1. o.price \in DOMAIN b.levels[o.side] /\ lev = b.levels[o.side][o.price]
        BY <1>9, <3>2
      <4>2. \A g \in 1..Len(b.levels[o.side][o.price]) :
              /\ b.levels[o.side][o.price][g] \in DOMAIN b.orders
              /\ b.orders[b.levels[o.side][o.price][g]].side = o.side
              /\ b.orders[b.levels[o.side][o.price][g]].price = o.price
        <5>1. LevelsSound(b)
          BY DEF Core
        <5> QED BY <1>1, <4>1, <5>1, LevelEntries, SMTT(20)
      <4>3. /\ lev[i] \in DOMAIN b.orders
            /\ b.orders[lev[i]].side = o.side
            /\ b.orders[lev[i]].price = o.price
        BY <3>2, <4>1, <4>2
      <4> QED BY <1>3, <1>6, <2>1, <3>2, <4>3
    <3> QED BY <1>3, <1>4, <3>1, <3>2
  <2>2. CASE ~(s = o.side /\ p = o.price)
    <3>1. p \in DOMAIN b.levels[s] /\ c.levels[s][p] = b.levels[s][p]
      BY <1>8, <2>2
    <3>2. /\ b.levels[s][p] # << >>
          /\ \A i \in 1..Len(b.levels[s][p]) :
               /\ b.levels[s][p][i] \in DOMAIN b.orders
               /\ b.orders[b.levels[s][p][i]].side = s
               /\ b.orders[b.levels[s][p][i]].price = p
      BY <3>1 DEF Core, LevelsSound
    <3> QED BY <1>6, <3>1, <3>2
  <2> QED BY <2>1, <2>2
<1>14. QueuedOnce(c)
  <2> SUFFICES ASSUME NEW s \in Side, NEW p \in DOMAIN c.levels[s],
                      NEW i \in 1..Len(c.levels[s][p]),
                      NEW j \in 1..Len(c.levels[s][p]),
                      c.levels[s][p][i] = c.levels[s][p][j]
               PROVE  i = j
    BY DEF QueuedOnce
  <2>1. CASE s = o.side /\ p = o.price
    <3>0. ASSUME NEW h \in 1..Len(lev) PROVE lev[h] \in DOMAIN b.orders
      <4>1. o.price \in DOMAIN b.levels[o.side] /\ lev = b.levels[o.side][o.price]
        BY <1>9
      <4>2. \A g \in 1..Len(b.levels[o.side][o.price]) :
              b.levels[o.side][o.price][g] \in DOMAIN b.orders
        BY <1>1, <4>1 DEF Core, LevelsSound
      <4> QED BY <4>1, <4>2
    <3>1. \A h \in 1..Len(lev) : new[h] \in DOMAIN b.orders
      BY <1>3, <3>0
    <3>2. /\ i \in 1..Len(lev) \/ i = Len(lev) + 1
          /\ j \in 1..Len(lev) \/ j = Len(lev) + 1
          /\ new[i] = new[j]
      BY <1>3, <1>4, <1>8, <2>1
    <3>3. CASE i \in 1..Len(lev) /\ j \in 1..Len(lev)
      BY <1>1, <1>3, <1>9, <3>2, <3>3 DEF Core, QueuedOnce
    <3> QED BY <1>0, <1>3, <3>1, <3>2, <3>3
  <2>2. CASE ~(s = o.side /\ p = o.price)
    <3>1. p \in DOMAIN b.levels[s] /\ c.levels[s][p] = b.levels[s][p]
      BY <1>8, <2>2
    <3> QED BY <3>1 DEF Core, QueuedOnce
  <2> QED BY <2>1, <2>2
<1>15. LevelsComplete(c)
  <2> SUFFICES ASSUME NEW k \in DOMAIN c.orders
               PROVE  /\ c.orders[k].price \in DOMAIN c.levels[c.orders[k].side]
                      /\ \E i \in 1..Len(c.levels[c.orders[k].side][c.orders[k].price]) :
                           c.levels[c.orders[k].side][c.orders[k].price][i] = k
    BY DEF LevelsComplete
  <2>1. CASE k = key
    <3>1. Len(lev) + 1 \in 1..Len(new)
      BY <1>3, <1>4
    <3> QED BY <1>3, <1>6, <1>8, <2>1, <3>1
  <2>2. CASE k # key
    <3> DEFINE q == b.orders[k]
    <3>1. k \in DOMAIN b.orders /\ c.orders[k] = q
      BY <1>6, <2>2
    <3>2. q.side \in Side
      BY <3>1 DEF IsBook, IsMap, Order
    <3>3. q.price \in DOMAIN b.levels[q.side]
      BY <3>1 DEF Core, LevelsComplete
    <3>4. PICK i \in 1..Len(b.levels[q.side][q.price]) :
            b.levels[q.side][q.price][i] = k
      BY <3>1 DEF Core, LevelsComplete
    <3>5. CASE q.side = o.side /\ q.price = o.price
      <4>1. lev = b.levels[q.side][q.price]
        BY <3>3, <3>5 DEF lev
      <4>2. i \in 1..Len(new) /\ new[i] = k
        <5>1. i \in 1..Len(lev) /\ lev[i] = k
          BY <3>4, <4>1
        <5>2. new[i] = lev[i]
          BY <1>3, <5>1
        <5>3. i \in 1..Len(new)
          BY <1>4, <5>1
        <5> QED BY <5>1, <5>2, <5>3
      <4>3. q.price \in DOMAIN c.levels[q.side] /\ c.levels[q.side][q.price] = new
        BY <1>8, <3>5
      <4> QED BY <3>1, <4>2, <4>3
    <3>6. CASE ~(q.side = o.side /\ q.price = o.price)
      <4>1. q.price \in DOMAIN c.levels[q.side]
            /\ c.levels[q.side][q.price] = b.levels[q.side][q.price]
        BY <1>8, <3>2, <3>3, <3>6
      <4> QED BY <3>1, <3>4, <4>1
    <3> QED BY <3>5, <3>6
  <2> QED BY <2>1, <2>2
<1>16. IndexPoints(c) /\ (IndexSound(b) /\ o.id \notin DOMAIN b.index => IndexSound(c))
  <2>1. IndexPoints(c)
    BY <1>0, <1>6, <1>7 DEF IndexPoints, Core
  <2>2. ASSUME IndexSound(b), o.id \notin DOMAIN b.index PROVE IndexSound(c)
    BY <1>0, <1>6, <1>7, <2>2 DEF IndexSound
  <2> QED BY <2>1, <2>2
<1>17. ASSUME TimeOrdered(b), \A k \in DOMAIN b.orders : b.orders[k].sequence < o.sequence
       PROVE  TimeOrdered(c)
  <2> SUFFICES ASSUME NEW s \in Side, NEW p \in DOMAIN c.levels[s],
                      NEW i \in 1..Len(c.levels[s][p]),
                      NEW j \in 1..Len(c.levels[s][p]), i < j
               PROVE  c.orders[c.levels[s][p][i]].sequence
                        < c.orders[c.levels[s][p][j]].sequence
    BY DEF TimeOrdered
  <2>1. CASE s = o.side /\ p = o.price
    <3>1. /\ c.levels[s][p] = new /\ i \in 1..Len(lev)
          /\ j \in 1..Len(lev) \/ j = Len(lev) + 1
      BY <1>3, <1>4, <1>8, <2>1
    <3>2. /\ o.price \in DOMAIN b.levels[o.side]
          /\ lev = b.levels[o.side][o.price]
      BY <1>9, <3>1
    <3>3. \A h \in 1..Len(lev) : lev[h] \in DOMAIN b.orders
      BY <1>1, <3>2 DEF Core, LevelsSound
    <3>4. CASE j \in 1..Len(lev)
      <4>1. b.orders[lev[i]].sequence < b.orders[lev[j]].sequence
        BY <1>1, <1>17, <3>1, <3>2, <3>4 DEF TimeOrdered
      <4> QED BY <1>3, <1>6, <3>1, <3>3, <3>4, <4>1
    <3>5. CASE j = Len(lev) + 1
      BY <1>3, <1>6, <1>17, <3>1, <3>3, <3>5
    <3> QED BY <1>3, <1>4, <3>1, <3>4, <3>5
  <2>2. CASE ~(s = o.side /\ p = o.price)
    <3>1. p \in DOMAIN b.levels[s] /\ c.levels[s][p] = b.levels[s][p]
      BY <1>8, <2>2
    <3>2. /\ b.levels[s][p][i] \in DOMAIN b.orders
          /\ b.levels[s][p][j] \in DOMAIN b.orders
      BY <3>1 DEF Core, LevelsSound
    <3>3. b.orders[b.levels[s][p][i]].sequence < b.orders[b.levels[s][p][j]].sequence
      BY <1>17, <3>1 DEF TimeOrdered
    <3> QED BY <1>6, <3>1, <3>2, <3>3
  <2> QED BY <2>1, <2>2
<1>18. \A k \in DOMAIN c.orders :
         c.orders[k] = o \/ (k \in DOMAIN b.orders /\ c.orders[k] = b.orders[k])
  BY <1>6
<1>19. Core(c)
  BY <1>12, <1>13, <1>14, <1>15, <1>16 DEF Core
<1> QED BY <1>8, <1>11, <1>16, <1>17, <1>18, <1>19 DEF Grown, c
-----------------------------------------------------------------------------
(* The book without the order at key, which stands at position at of its
   queue: what cancel_order and pop_front both do. *)
Unlist(b, key, at) ==
  LET o == b.orders[key]
  IN  BookOf(SlabRemove(b, key), Drop(b.index, o.id),
             SetLevel(b, o.side, o.price,
                      Without(b.levels[o.side][o.price], at)))

(* The levels L are those of b but for the one at side t and price q, which
   is new, or gone if new is empty. *)
DiffersAt(b, t, q, new, L) ==
  /\ L = [s \in Side |-> L[s]]
  /\ \A s \in Side : IsMap(L[s], Prices, Seq(Nat))
  /\ \A s \in Side : s # t => L[s] = b.levels[s]
  /\ DOMAIN L[t] = IF new = << >> THEN DOMAIN b.levels[t] \ {q}
                   ELSE DOMAIN b.levels[t]
  /\ new # << >> => L[t][q] = new
  /\ \A p \in DOMAIN b.levels[t] : p # q => L[t][p] = b.levels[t][p]

(* SetLevel changes one level, and takes it out of the map if it is empty. *)
LEMMA SetLevelFields ==
  ASSUME NEW b, IsBook(b), NEW t \in Side, NEW q \in DOMAIN b.levels[t],
         NEW new \in Seq(Nat)
  PROVE  DiffersAt(b, t, q, new, SetLevel(b, t, q, new))
<1> DEFINE L == SetLevel(b, t, q, new)
           m == IF new = << >> THEN Drop(b.levels[t], q)
                ELSE Put(b.levels[t], q, new)
<1>1. /\ L = [s \in Side |-> L[s]]
      /\ L[t] = m
      /\ \A s \in Side : s # t => L[s] = b.levels[s]
  BY OneSide DEF SetLevel, IsBook
<1>2. \A s \in Side : IsMap(b.levels[s], Prices, Seq(Nat))
  BY DEF IsBook
<1>3. q \in Prices
  BY <1>2 DEF IsMap
<1>4. IsMap(m, Prices, Seq(Nat))
  BY <1>2, <1>3, PutIsMap, DropIsMap
<1>5. /\ DOMAIN m = IF new = << >> THEN DOMAIN b.levels[t] \ {q}
                    ELSE DOMAIN b.levels[t]
      /\ new # << >> => m[q] = new
      /\ \A p \in DOMAIN b.levels[t] : p # q => m[p] = b.levels[t][p]
  BY DEF Put, Drop
<1> HIDE DEF L, m
<1>6. \A s \in Side : IsMap(L[s], Prices, Seq(Nat))
  BY <1>1, <1>2, <1>4
<1> QED BY <1>1, <1>5, <1>6 DEF L, DiffersAt

(* c is b without the order at key, which stood at position at. *)
IsUnlisted(b, key, at, c) ==
  LET o   == b.orders[key]
      lev == b.levels[o.side][o.price]
  IN  /\ IsBook(c)
      /\ c.vacant = << key >> \o b.vacant
      /\ c.len = b.len
      /\ DOMAIN c.orders = DOMAIN b.orders \ {key}
      /\ \A k \in DOMAIN c.orders : c.orders[k] = b.orders[k]
      /\ DOMAIN c.index = DOMAIN b.index \ {o.id}
      /\ \A id \in DOMAIN c.index : c.index[id] = b.index[id]
      /\ \A s \in Side : DOMAIN c.levels[s] \subseteq DOMAIN b.levels[s]
      /\ \A s \in Side : \A p \in DOMAIN b.levels[s] :
           ~(s = o.side /\ p = o.price) =>
             p \in DOMAIN c.levels[s] /\ c.levels[s][p] = b.levels[s][p]
      /\ o.price \in DOMAIN c.levels[o.side] =>
           /\ c.levels[o.side][o.price] = Without(lev, at)
           /\ c.levels[o.side][o.price] # << >>
      /\ Without(lev, at) # << >> => o.price \in DOMAIN c.levels[o.side]

(* The level and the slab after retain or pop_front: the order is in neither,
   and everything else is where it was. *)
LEMMA UnlistFields ==
  ASSUME NEW b, IsBook(b), Core(b), NEW key \in DOMAIN b.orders,
         NEW at \in 1..Len(b.levels[b.orders[key].side][b.orders[key].price])
  PROVE  IsUnlisted(b, key, at, Unlist(b, key, at))
<1> DEFINE c   == Unlist(b, key, at)
           o   == b.orders[key]
           lev == b.levels[o.side][o.price]
           new == Without(lev, at)
           L   == SetLevel(b, o.side, o.price, new)
<1>1. o \in Order /\ o.side \in Side /\ o.id \in Ids /\ key \in Nat
  BY DEF IsBook, IsMap, Order
<1>2. o.price \in DOMAIN b.levels[o.side] /\ lev \in Seq(Nat)
  BY <1>1 DEF Core, LevelsComplete, IsBook, IsMap
<1>3. new \in Seq(Nat)
  BY <1>2, WithoutProperties
<1>4. DiffersAt(b, o.side, o.price, new, L)
  BY <1>1, <1>2, <1>3, SetLevelFields
<1>5. /\ c.levels = L
      /\ c = BookOf(c, c.index, c.levels)
      /\ c.orders = Drop(b.orders, key)
      /\ c.index = Drop(b.index, o.id)
      /\ c.vacant = << key >> \o b.vacant
      /\ c.len = b.len
  BY DEF Unlist, BookOf, SlabRemove
<1>6. /\ IsMap(c.orders, Nat, Order) /\ IsMap(c.index, Ids, Nat)
  BY <1>5, DropIsMap DEF IsBook
<1>7. c.vacant \in Seq(Nat) /\ c.len \in Nat
  BY <1>1, <1>5 DEF IsBook
<1>8. /\ DOMAIN c.orders = DOMAIN b.orders \ {key}
      /\ \A k \in DOMAIN c.orders : c.orders[k] = b.orders[k]
      /\ DOMAIN c.index = DOMAIN b.index \ {o.id}
      /\ \A id \in DOMAIN c.index : c.index[id] = b.index[id]
  BY <1>5 DEF Drop
<1> HIDE DEF c, L, new, lev
<1>9. IsBook(c)
  BY <1>4, <1>5, <1>6, <1>7 DEF IsBook, DiffersAt
<1>10. \A s \in Side : DOMAIN c.levels[s] \subseteq DOMAIN b.levels[s]
  BY <1>4, <1>5 DEF DiffersAt
<1>11. \A s \in Side : \A p \in DOMAIN b.levels[s] :
         ~(s = o.side /\ p = o.price) =>
           p \in DOMAIN c.levels[s] /\ c.levels[s][p] = b.levels[s][p]
  BY <1>4, <1>5 DEF DiffersAt
<1>12. /\ o.price \in DOMAIN c.levels[o.side] =>
            c.levels[o.side][o.price] = new /\ new # << >>
       /\ new # << >> => o.price \in DOMAIN c.levels[o.side]
  BY <1>2, <1>4, <1>5 DEF DiffersAt
<1> QED BY <1>5, <1>8, <1>9, <1>10, <1>11, <1>12 DEF c, new, lev, IsUnlisted

(* The queue cur is what is left of old without some of its elements, key
   among them. *)
Embeds(cur, old, key) ==
  \E e \in [1..Len(cur) -> 1..Len(old)] :
    /\ \A i \in 1..Len(cur) : cur[i] = old[e[i]] /\ cur[i] # key
    /\ \A i, j \in 1..Len(cur) : i < j => e[i] < e[j]

(* What is left of a queue after retain or pop_front is a subsequence of it. *)
LEMMA WithoutEmbeds ==
  ASSUME NEW level \in Seq(Nat), NEW at \in 1..Len(level),
         \A i, j \in 1..Len(level) : level[i] = level[j] => i = j
  PROVE  Embeds(Without(level, at), level, level[at])
<1> DEFINE w == Without(level, at)
           e == [i \in 1..Len(w) |-> IF i < at THEN i ELSE i + 1]
<1>1. Len(level) \in Nat /\ Len(w) = Len(level) - 1
  BY WithoutProperties, LenProperties
<1>2. e \in [1..Len(w) -> 1..Len(level)]
  BY <1>1
<1>3. \A i \in 1..Len(w) : w[i] = level[e[i]]
  BY <1>1, WithoutProperties
<1>4. \A i \in 1..Len(w) : e[i] # at /\ e[i] \in 1..Len(level)
  BY <1>1
<1>5. \A i, j \in 1..Len(w) : i < j => e[i] < e[j]
  BY <1>1
<1> HIDE DEF w, e
<1>6. \A i \in 1..Len(w) : w[i] # level[at]
  BY <1>3, <1>4, SMTT(20)
<1> QED BY <1>2, <1>3, <1>5, <1>6 DEF Embeds, w

(* A queue nobody touched is a subsequence of itself. *)
LEMMA SameEmbeds ==
  ASSUME NEW level \in Seq(Nat), NEW key,
         \A i \in 1..Len(level) : level[i] # key
  PROVE  Embeds(level, level, key)
<1> DEFINE e == [i \in 1..Len(level) |-> i]
<1>1. e \in [1..Len(level) -> 1..Len(level)]
  OBVIOUS
<1>2. /\ \A i \in 1..Len(level) : level[i] = level[e[i]] /\ level[i] # key
      /\ \A i, j \in 1..Len(level) : i < j => e[i] < e[j]
  OBVIOUS
<1> QED BY <1>1, <1>2 DEF Embeds

(* Every queue of the new book is left over from the queue at its side and
   price. *)
LEMMA UnlistEmbeds ==
  ASSUME NEW b, IsBook(b), Core(b), NEW key \in DOMAIN b.orders,
         NEW at \in 1..Len(b.levels[b.orders[key].side][b.orders[key].price]),
         b.levels[b.orders[key].side][b.orders[key].price][at] = key,
         NEW c, IsUnlisted(b, key, at, c),
         NEW s \in Side, NEW p \in DOMAIN c.levels[s]
  PROVE  /\ p \in DOMAIN b.levels[s]
         /\ c.levels[s][p] # << >>
         /\ Embeds(c.levels[s][p], b.levels[s][p], key)
<1> DEFINE o   == b.orders[key]
           lev == b.levels[s][p]
<1>1. p \in DOMAIN b.levels[s]
  BY DEF IsUnlisted
<1>2. lev \in Seq(Nat) /\ lev # << >>
  BY <1>1 DEF IsBook, IsMap, Core, LevelsSound
<1>3. CASE s = o.side /\ p = o.price
  <2>1. \A i, j \in 1..Len(lev) : lev[i] = lev[j] => i = j
    BY <1>1 DEF Core, QueuedOnce
  <2>2. Embeds(Without(lev, at), lev, lev[at])
    BY <1>2, <1>3, <2>1, WithoutEmbeds
  <2> QED BY <1>1, <1>3, <2>2 DEF IsUnlisted
<1>4. CASE ~(s = o.side /\ p = o.price)
  <2>1. \A i \in 1..Len(lev) : lev[i] # key
    BY <1>1, <1>4 DEF Core, LevelsSound
  <2>2. c.levels[s][p] = lev
    BY <1>1, <1>4 DEF IsUnlisted
  <2> HIDE DEF lev
  <2>3. Embeds(lev, lev, key)
    BY <1>2, <2>1, SameEmbeds
  <2> QED BY <1>1, <1>2, <2>2, <2>3 DEF lev
<1> QED BY <1>3, <1>4

(* Taking an order out of the slab, its queue and the index keeps the book
   well-formed, and the queues in their order. *)
LEMMA UnlistCore ==
  ASSUME NEW b, IsBook(b), Core(b), NEW key \in DOMAIN b.orders,
         NEW at \in 1..Len(b.levels[b.orders[key].side][b.orders[key].price]),
         b.levels[b.orders[key].side][b.orders[key].price][at] = key,
         NEW c, IsUnlisted(b, key, at, c)
  PROVE  /\ Core(c)
         /\ IndexSound(b) => IndexSound(c)
         /\ TimeOrdered(b) => TimeOrdered(c)
<1> DEFINE o   == b.orders[key]
           lev == b.levels[o.side][o.price]
           new == Without(lev, at)
<1>1. /\ DOMAIN c.orders = DOMAIN b.orders \ {key}
      /\ \A k \in DOMAIN c.orders : c.orders[k] = b.orders[k]
  BY DEF IsUnlisted
<1>2. \A s \in Side : \A p \in DOMAIN c.levels[s] :
        /\ p \in DOMAIN b.levels[s]
        /\ c.levels[s][p] # << >>
        /\ Embeds(c.levels[s][p], b.levels[s][p], key)
  BY UnlistEmbeds
<1>3. SlabSound(c)
  <2>1. /\ key \in Nat /\ key < b.len
        /\ b.vacant \in Seq(Nat) /\ Len(b.vacant) \in Nat
        /\ \A k \in DOMAIN b.orders : k < b.len
        /\ \A i \in 1..Len(b.vacant) :
             b.vacant[i] < b.len /\ b.vacant[i] \notin DOMAIN b.orders
        /\ \A i, j \in 1..Len(b.vacant) : b.vacant[i] = b.vacant[j] => i = j
    BY LenProperties DEF IsBook, IsMap, Core, SlabSound
  <2>2. c.vacant = << key >> \o b.vacant /\ c.len = b.len
    BY DEF IsUnlisted
  <2>3. /\ Len(c.vacant) = Len(b.vacant) + 1
        /\ c.vacant[1] = key
        /\ \A i \in 1..Len(c.vacant) : i # 1 => c.vacant[i] = b.vacant[i - 1]
    BY <2>1, <2>2
  <2>4. \A i \in 1..Len(c.vacant) : i = 1 \/ i - 1 \in 1..Len(b.vacant)
    BY <2>1, <2>3
  <2>5. \A i \in 1..Len(c.vacant) :
          c.vacant[i] < c.len /\ c.vacant[i] \notin DOMAIN c.orders
    <3> TAKE i \in 1..Len(c.vacant)
    <3>1. CASE i = 1
      BY <1>1, <2>1, <2>2, <2>3, <3>1
    <3>2. CASE i # 1
      <4>1. i - 1 \in 1..Len(b.vacant) /\ c.vacant[i] = b.vacant[i - 1]
        BY <2>3, <2>4, <3>2
      <4>2. b.vacant[i - 1] < b.len /\ b.vacant[i - 1] \notin DOMAIN b.orders
        BY <2>1, <4>1
      <4> QED BY <1>1, <2>2, <4>1, <4>2
    <3> QED BY <3>1, <3>2
  <2>6. \A i, j \in 1..Len(c.vacant) : c.vacant[i] = c.vacant[j] => i = j
    <3> TAKE i, j \in 1..Len(c.vacant)
    <3>1. CASE i = 1 /\ j = 1
      BY <3>1
    <3>2. CASE i = 1 /\ j # 1
      BY <2>1, <2>3, <2>4, <3>2
    <3>3. CASE i # 1 /\ j = 1
      BY <2>1, <2>3, <2>4, <3>3
    <3>4. CASE i # 1 /\ j # 1
      <4>1. /\ c.vacant[i] = b.vacant[i - 1] /\ i - 1 \in 1..Len(b.vacant)
            /\ c.vacant[j] = b.vacant[j - 1] /\ j - 1 \in 1..Len(b.vacant)
        BY <2>3, <2>4, <3>4
      <4>2. c.vacant[i] = c.vacant[j] => i - 1 = j - 1
        BY <2>1, <4>1
      <4> QED BY <4>2
    <3> QED BY <3>1, <3>2, <3>3, <3>4
  <2> QED BY <1>1, <2>1, <2>2, <2>5, <2>6 DEF SlabSound
<1>4. LevelsSound(c)
  <2> SUFFICES ASSUME NEW s \in Side, NEW p \in DOMAIN c.levels[s],
                      NEW i \in 1..Len(c.levels[s][p])
               PROVE  /\ c.levels[s][p][i] \in DOMAIN c.orders
                      /\ c.orders[c.levels[s][p][i]].side = s
                      /\ c.orders[c.levels[s][p][i]].price = p
    BY <1>2 DEF LevelsSound
  <2>1. PICK e \in [1..Len(c.levels[s][p]) -> 1..Len(b.levels[s][p])] :
          \A h \in 1..Len(c.levels[s][p]) :
            c.levels[s][p][h] = b.levels[s][p][e[h]] /\ c.levels[s][p][h] # key
    BY <1>2 DEF Embeds
  <2>2. /\ e[i] \in 1..Len(b.levels[s][p])
        /\ c.levels[s][p][i] = b.levels[s][p][e[i]]
        /\ c.levels[s][p][i] # key
    BY <2>1
  <2>3. /\ b.levels[s][p][e[i]] \in DOMAIN b.orders
        /\ b.orders[b.levels[s][p][e[i]]].side = s
        /\ b.orders[b.levels[s][p][e[i]]].price = p
    <3>1. p \in DOMAIN b.levels[s]
      BY <1>2
    <3>2. \A h \in 1..Len(b.levels[s][p]) :
            /\ b.levels[s][p][h] \in DOMAIN b.orders
            /\ b.orders[b.levels[s][p][h]].side = s
            /\ b.orders[b.levels[s][p][h]].price = p
      BY <3>1 DEF Core, LevelsSound
    <3> QED BY <2>2, <3>2
  <2> QED BY <1>1, <2>2, <2>3
<1>5. QueuedOnce(c)
  <2> SUFFICES ASSUME NEW s \in Side, NEW p \in DOMAIN c.levels[s],
                      NEW i \in 1..Len(c.levels[s][p]),
                      NEW j \in 1..Len(c.levels[s][p]),
                      c.levels[s][p][i] = c.levels[s][p][j]
               PROVE  i = j
    BY DEF QueuedOnce
  <2>1. PICK e \in [1..Len(c.levels[s][p]) -> 1..Len(b.levels[s][p])] :
          /\ \A h \in 1..Len(c.levels[s][p]) :
               c.levels[s][p][h] = b.levels[s][p][e[h]] /\ c.levels[s][p][h] # key
          /\ \A h, g \in 1..Len(c.levels[s][p]) : h < g => e[h] < e[g]
    BY <1>2 DEF Embeds
  <2>2. /\ e[i] \in 1..Len(b.levels[s][p]) /\ e[j] \in 1..Len(b.levels[s][p])
        /\ b.levels[s][p][e[i]] = b.levels[s][p][e[j]]
    BY <2>1
  <2>3. e[i] = e[j]
    BY <1>2, <2>2 DEF Core, QueuedOnce
  <2>4. ~(i < j) /\ ~(j < i)
    <3>1. ~(e[i] < e[j]) /\ ~(e[j] < e[i])
      BY <2>2, <2>3
    <3> QED BY <2>1, <3>1
  <2> QED BY <2>4
<1>6. LevelsComplete(c)
  <2> SUFFICES ASSUME NEW k \in DOMAIN c.orders
               PROVE  /\ c.orders[k].price \in DOMAIN c.levels[c.orders[k].side]
                      /\ \E i \in 1..Len(c.levels[c.orders[k].side][c.orders[k].price]) :
                           c.levels[c.orders[k].side][c.orders[k].price][i] = k
    BY DEF LevelsComplete
  <2> DEFINE q == b.orders[k]
  <2>1. k \in DOMAIN b.orders /\ c.orders[k] = q /\ k # key
    BY <1>1
  <2>2. q.side \in Side /\ q.price \in DOMAIN b.levels[q.side]
    BY <2>1 DEF IsBook, IsMap, Order, Core, LevelsComplete
  <2>3. PICK i \in 1..Len(b.levels[q.side][q.price]) :
          b.levels[q.side][q.price][i] = k
    BY <2>1 DEF Core, LevelsComplete
  <2>4. CASE ~(q.side = o.side /\ q.price = o.price)
    <3>1. q.price \in DOMAIN c.levels[q.side]
          /\ c.levels[q.side][q.price] = b.levels[q.side][q.price]
      BY <2>2, <2>4 DEF IsUnlisted
    <3> QED BY <2>1, <2>3, <3>1
  <2>5. CASE q.side = o.side /\ q.price = o.price
    <3>1. i \in 1..Len(lev) /\ lev[i] = k /\ i # at
      BY <2>1, <2>3, <2>5
    <3>2. lev \in Seq(Nat) /\ at \in 1..Len(lev)
      <4>1. lev \in Seq(Nat)
        BY <2>2, <2>5 DEF IsBook, IsMap
      <4> QED BY <4>1
    <3> HIDE DEF lev
    <3>3. new \in Seq(Nat)
      BY <3>2, WithoutProperties
    <3>4. \E h \in 1..Len(new) : new[h] = k
      BY <3>1, <3>2, WithoutKeeps
    <3> HIDE DEF new
    <3>5. new # << >>
      BY <3>3, <3>4, EmptySeq
    <3>6. o.price \in DOMAIN c.levels[o.side] /\ c.levels[o.side][o.price] = new
      BY <3>5 DEF IsUnlisted, new, lev
    <3> QED BY <2>1, <2>5, <3>4, <3>6
  <2> QED BY <2>4, <2>5
<1>7. IndexPoints(c) /\ (IndexSound(b) => IndexSound(c))
  <2>1. /\ DOMAIN c.index = DOMAIN b.index \ {o.id}
        /\ \A id \in DOMAIN c.index : c.index[id] = b.index[id]
    BY DEF IsUnlisted
  <2>2. IndexPoints(c)
    BY <1>1, <2>1 DEF IndexPoints, Core
  <2>3. ASSUME IndexSound(b) PROVE IndexSound(c)
    BY <1>1, <2>1, <2>3 DEF IndexSound
  <2> QED BY <2>2, <2>3
<1>8. ASSUME TimeOrdered(b) PROVE TimeOrdered(c)
  <2> SUFFICES ASSUME NEW s \in Side, NEW p \in DOMAIN c.levels[s],
                      NEW i \in 1..Len(c.levels[s][p]),
                      NEW j \in 1..Len(c.levels[s][p]), i < j
               PROVE  c.orders[c.levels[s][p][i]].sequence
                        < c.orders[c.levels[s][p][j]].sequence
    BY DEF TimeOrdered
  <2>1. PICK e \in [1..Len(c.levels[s][p]) -> 1..Len(b.levels[s][p])] :
          /\ \A h \in 1..Len(c.levels[s][p]) :
               c.levels[s][p][h] = b.levels[s][p][e[h]] /\ c.levels[s][p][h] # key
          /\ \A h, g \in 1..Len(c.levels[s][p]) : h < g => e[h] < e[g]
    BY <1>2 DEF Embeds
  <2>2. /\ e[i] \in 1..Len(b.levels[s][p]) /\ e[j] \in 1..Len(b.levels[s][p])
        /\ e[i] < e[j]
        /\ c.levels[s][p][i] = b.levels[s][p][e[i]]
        /\ c.levels[s][p][j] = b.levels[s][p][e[j]]
    BY <2>1
  <2>3. b.orders[b.levels[s][p][e[i]]].sequence
          < b.orders[b.levels[s][p][e[j]]].sequence
    BY <1>2, <1>8, <2>2 DEF TimeOrdered
  <2>4. c.levels[s][p][i] \in DOMAIN c.orders /\ c.levels[s][p][j] \in DOMAIN c.orders
    BY <1>4 DEF LevelsSound
  <2> QED BY <1>1, <2>2, <2>3, <2>4
<1> QED BY <1>3, <1>4, <1>5, <1>6, <1>7, <1>8 DEF Core

(* c is b without the order at key. *)
Shrunk(b, key, c) ==
  /\ IsBook(c)
  /\ Core(c)
  /\ IndexSound(b) => IndexSound(c)
  /\ c.len = b.len
  /\ DOMAIN c.orders = DOMAIN b.orders \ {key}
  /\ \A k \in DOMAIN c.orders : c.orders[k] = b.orders[k]
  /\ \A s \in Side : DOMAIN c.levels[s] \subseteq DOMAIN b.levels[s]
  /\ TimeOrdered(b) => TimeOrdered(c)

(* cancel_order of an id that is in the index takes exactly that order out. *)
LEMMA CancelShrinks ==
  ASSUME NEW b, IsBook(b), Core(b), NEW id \in DOMAIN b.index
  PROVE  Shrunk(b, b.index[id], CancelOrder(b, id))
<1> DEFINE key == b.index[id]
           o   == b.orders[key]
           lev == b.levels[o.side][o.price]
<1>1. key \in DOMAIN b.orders /\ o.id = id
  BY DEF Core, IndexPoints
<1>2. o.side \in Side /\ o.price \in DOMAIN b.levels[o.side]
  BY <1>1 DEF IsBook, IsMap, Order, Core, LevelsComplete
<1>3. lev \in Seq(Nat)
  BY <1>2 DEF IsBook, IsMap
<1>4. PICK at \in 1..Len(lev) : lev[at] = key
  BY <1>1 DEF Core, LevelsComplete
<1>5. Retain(lev, key) = Without(lev, at)
  <2>1. \A i, j \in 1..Len(lev) : lev[i] = lev[j] => i = j
    BY <1>2 DEF Core, QueuedOnce
  <2> HIDE DEF lev, key
  <2> QED BY <1>3, <1>4, <2>1, RetainIsWithout
<1>6. CancelOrder(b, id) = Unlist(b, key, at)
  BY <1>1, <1>2, <1>5 DEF CancelOrder, Unlist
<1>7. IsUnlisted(b, key, at, Unlist(b, key, at))
  BY <1>1, <1>4, UnlistFields
<1>8. /\ Core(Unlist(b, key, at))
      /\ IndexSound(b) => IndexSound(Unlist(b, key, at))
      /\ TimeOrdered(b) => TimeOrdered(Unlist(b, key, at))
  <2>1. /\ key \in DOMAIN b.orders
        /\ at \in 1..Len(b.levels[b.orders[key].side][b.orders[key].price])
        /\ b.levels[b.orders[key].side][b.orders[key].price][at] = key
    BY <1>1, <1>4
  <2> HIDE DEF key
  <2> QED BY <1>7, <2>1, UnlistCore
<1> QED BY <1>6, <1>7, <1>8 DEF Shrunk, IsUnlisted

(* pop_front takes out exactly the order at the front of the level. *)
LEMMA PopFrontShrinks ==
  ASSUME NEW b, IsBook(b), Core(b), NEW s \in Side,
         NEW p \in DOMAIN b.levels[s]
  PROVE  /\ Head(b.levels[s][p]) \in DOMAIN b.orders
         /\ Shrunk(b, Head(b.levels[s][p]), PopFront(b, s, p))
<1> DEFINE lev == b.levels[s][p]
           key == Head(lev)
           o   == b.orders[key]
<1>1. lev \in Seq(Nat) /\ lev # << >>
  BY DEF IsBook, IsMap, Core, LevelsSound
<1>2. Tail(lev) = Without(lev, 1) /\ 1 \in 1..Len(lev)
  BY <1>1, TailIsWithout
<1>3. key = lev[1]
  BY <1>1
<1>4. key \in DOMAIN b.orders /\ o.side = s /\ o.price = p
  <2> HIDE DEF key
  <2> QED BY <1>2, <1>3 DEF Core, LevelsSound
<1>5. PopFront(b, s, p) = Unlist(b, key, 1)
  BY <1>2, <1>4 DEF PopFront, Unlist
<1> HIDE DEF key
<1>6. IsUnlisted(b, key, 1, Unlist(b, key, 1))
  BY <1>2, <1>4, UnlistFields
<1>7. /\ Core(Unlist(b, key, 1))
      /\ IndexSound(b) => IndexSound(Unlist(b, key, 1))
      /\ TimeOrdered(b) => TimeOrdered(Unlist(b, key, 1))
  BY <1>2, <1>3, <1>4, <1>6, UnlistCore
<1> QED BY <1>4, <1>5, <1>6, <1>7 DEF Shrunk, IsUnlisted, key

(* Filling a maker in place changes nothing the queues or the index know. *)
LEMMA MarkCore ==
  ASSUME NEW b, IsBook(b), Core(b), NEW key \in DOMAIN b.orders,
         NEW o \in Order, o.id = b.orders[key].id, o.side = b.orders[key].side,
         o.price = b.orders[key].price, o.sequence = b.orders[key].sequence,
         NEW c, c = BookOf([orders |-> Put(b.orders, key, o),
                            vacant |-> b.vacant, len |-> b.len],
                           b.index, b.levels)
  PROVE  /\ IsBook(c) /\ Core(c)
         /\ DOMAIN c.orders = DOMAIN b.orders
         /\ c.orders[key] = o
         /\ \A k \in DOMAIN b.orders : k # key => c.orders[k] = b.orders[k]
         /\ c.levels = b.levels
         /\ c.index = b.index
         /\ c.len = b.len
         /\ IndexSound(b) => IndexSound(c)
         /\ TimeOrdered(b) => TimeOrdered(c)
<1>1. /\ c.orders = Put(b.orders, key, o)
      /\ c.vacant = b.vacant /\ c.len = b.len
      /\ c.index = b.index /\ c.levels = b.levels
      /\ c = BookOf(c, c.index, c.levels)
  BY DEF BookOf
<1>2. /\ DOMAIN c.orders = DOMAIN b.orders
      /\ c.orders[key] = o
      /\ \A k \in DOMAIN b.orders : k # key => c.orders[k] = b.orders[k]
  BY <1>1 DEF Put
<1>3. \A k \in DOMAIN b.orders :
        /\ c.orders[k].id = b.orders[k].id
        /\ c.orders[k].side = b.orders[k].side
        /\ c.orders[k].price = b.orders[k].price
        /\ c.orders[k].sequence = b.orders[k].sequence
  BY <1>2
<1>4. IsMap(c.orders, Nat, Order)
  <2>1. key \in Nat
    BY DEF IsBook, IsMap
  <2>2. IsMap(b.orders, Nat, Order)
    BY DEF IsBook
  <2>3. IsMap(Put(b.orders, key, o), Nat, Order)
    BY <2>1, <2>2, PutIsMap
  <2> QED BY <1>1, <2>3
<1>5. IsBook(c)
  BY <1>1, <1>4 DEF IsBook
<1>6. SlabSound(c)
  BY <1>1, <1>2 DEF SlabSound, Core
<1>7. LevelsSound(c)
  <2> SUFFICES ASSUME NEW s \in Side, NEW p \in DOMAIN c.levels[s]
               PROVE  /\ c.levels[s][p] # << >>
                      /\ \A i \in 1..Len(c.levels[s][p]) :
                           /\ c.levels[s][p][i] \in DOMAIN c.orders
                           /\ c.orders[c.levels[s][p][i]].side = s
                           /\ c.orders[c.levels[s][p][i]].price = p
    BY DEF LevelsSound
  <2>0. p \in DOMAIN b.levels[s]
    BY <1>1
  <2>1. /\ b.levels[s][p] # << >>
        /\ \A i \in 1..Len(b.levels[s][p]) :
             /\ b.levels[s][p][i] \in DOMAIN b.orders
             /\ b.orders[b.levels[s][p][i]].side = s
             /\ b.orders[b.levels[s][p][i]].price = p
    BY <2>0 DEF Core, LevelsSound
  <2>2. \A i \in 1..Len(b.levels[s][p]) :
          /\ b.levels[s][p][i] \in DOMAIN c.orders
          /\ c.orders[b.levels[s][p][i]].side = s
          /\ c.orders[b.levels[s][p][i]].price = p
    BY <1>2, <1>3, <2>1
  <2>3. c.levels[s][p] = b.levels[s][p]
    BY <1>1
  <2> QED BY <2>1, <2>2, <2>3
<1>8. QueuedOnce(c)
  BY <1>1 DEF QueuedOnce, Core
<1>9. LevelsComplete(c)
  <2> SUFFICES ASSUME NEW k \in DOMAIN b.orders
               PROVE  /\ c.orders[k].price \in DOMAIN c.levels[c.orders[k].side]
                      /\ \E i \in 1..Len(c.levels[c.orders[k].side][c.orders[k].price]) :
                           c.levels[c.orders[k].side][c.orders[k].price][i] = k
    BY <1>2 DEF LevelsComplete
  <2>1. /\ b.orders[k].price \in DOMAIN b.levels[b.orders[k].side]
        /\ \E i \in 1..Len(b.levels[b.orders[k].side][b.orders[k].price]) :
             b.levels[b.orders[k].side][b.orders[k].price][i] = k
    BY DEF Core, LevelsComplete
  <2>2. /\ c.orders[k].side = b.orders[k].side
        /\ c.orders[k].price = b.orders[k].price
    BY <1>3
  <2> QED BY <1>1, <2>1, <2>2
<1>10. IndexPoints(c) /\ (IndexSound(b) => IndexSound(c))
  <2>1. \A k \in DOMAIN b.orders : c.orders[k].id = b.orders[k].id
    BY <1>3
  <2>2. c.index = b.index
    BY <1>1
  <2>3. IndexPoints(c)
    <3>1. \A id \in DOMAIN b.index :
            b.index[id] \in DOMAIN b.orders /\ b.orders[b.index[id]].id = id
      BY DEF Core, IndexPoints
    <3> QED BY <1>2, <2>1, <2>2, <3>1 DEF IndexPoints
  <2>4. ASSUME IndexSound(b) PROVE IndexSound(c)
    <3>1. \A k \in DOMAIN b.orders :
            b.orders[k].id \in DOMAIN b.index /\ b.index[b.orders[k].id] = k
      BY <2>4 DEF IndexSound
    <3>2. \A k \in DOMAIN c.orders :
            c.orders[k].id \in DOMAIN c.index /\ c.index[c.orders[k].id] = k
      BY <1>2, <2>1, <2>2, <3>1
    <3> QED BY <2>3, <3>2 DEF IndexSound, IndexPoints
  <2> QED BY <2>3, <2>4
<1>11. ASSUME TimeOrdered(b) PROVE TimeOrdered(c)
  <2>1. \A s \in Side : \A p \in DOMAIN b.levels[s] :
          \A i \in 1..Len(b.levels[s][p]) : b.levels[s][p][i] \in DOMAIN b.orders
    BY DEF Core, LevelsSound
  <2>2. c.levels = b.levels
    BY <1>1
  <2>3. \A k \in DOMAIN b.orders : c.orders[k].sequence = b.orders[k].sequence
    BY <1>3
  <2> SUFFICES ASSUME NEW s \in Side, NEW p \in DOMAIN c.levels[s],
                      NEW i \in 1..Len(c.levels[s][p]),
                      NEW j \in 1..Len(c.levels[s][p]), i < j
               PROVE  c.orders[c.levels[s][p][i]].sequence
                        < c.orders[c.levels[s][p][j]].sequence
    BY Zenon DEF TimeOrdered
  <2>4. /\ p \in DOMAIN b.levels[s] /\ c.levels[s][p] = b.levels[s][p]
        /\ i \in 1..Len(b.levels[s][p]) /\ j \in 1..Len(b.levels[s][p])
    BY <2>2
  <2>5. /\ c.orders[b.levels[s][p][i]].sequence = b.orders[b.levels[s][p][i]].sequence
        /\ c.orders[b.levels[s][p][j]].sequence = b.orders[b.levels[s][p][j]].sequence
    BY <2>1, <2>3, <2>4
  <2>6. b.orders[b.levels[s][p][i]].sequence < b.orders[b.levels[s][p][j]].sequence
    BY <1>11, <2>4 DEF TimeOrdered
  <2> QED BY <2>5, <2>6, <2>4
<1> QED BY <1>1, <1>2, <1>5, <1>6, <1>7, <1>8, <1>9, <1>10, <1>11 DEF Core

(* best_bid and best_ask: the greatest and the least price of the side. *)
LEMMA BestIsBest ==
  ASSUME NEW b, IsBook(b), NEW s \in Side, HasBest(b, s)
  PROVE  /\ Best(b, s) \in DOMAIN b.levels[s]
         /\ \A q \in DOMAIN b.levels[s] :
              IF s = "Bid" THEN q <= Best(b, s) ELSE Best(b, s) <= q
<1>1. DOMAIN b.levels[s] \in (SUBSET Prices) \ {{}}
  BY DEF IsBook, IsMap, HasBest
<1>2. /\ \E lo \in DOMAIN b.levels[s] : \A p \in DOMAIN b.levels[s] : lo <= p
      /\ \E hi \in DOMAIN b.levels[s] : \A p \in DOMAIN b.levels[s] : p <= hi
  BY <1>1, PriceAssumption
<1>3. \E p \in DOMAIN b.levels[s] : \A q \in DOMAIN b.levels[s] :
        IF s = "Bid" THEN q <= p ELSE p <= q
  BY <1>2
<1> QED BY <1>3 DEF Best
-----------------------------------------------------------------------------
(* execute_fill changes the filled quantity and the status of an order and
   nothing else. *)
LEMMA FilledFields ==
  ASSUME NEW o \in Order, NEW qty \in Int
  PROVE  /\ Filled(o, qty) \in Order
         /\ Filled(o, qty).id = o.id
         /\ Filled(o, qty).side = o.side
         /\ Filled(o, qty).order_type = o.order_type
         /\ Filled(o, qty).price = o.price
         /\ Filled(o, qty).quantity = o.quantity
         /\ Filled(o, qty).sequence = o.sequence
         /\ Filled(o, qty).filled = o.filled + qty
         /\ Filled(o, qty).status = IF o.filled + qty >= o.quantity
                                    THEN "Filled" ELSE "PartiallyFilled"
<1> DEFINE f == [o EXCEPT !.filled = o.filled + qty]
<1>1. /\ f \in Order
      /\ f.id = o.id /\ f.side = o.side /\ f.order_type = o.order_type
      /\ f.price = o.price /\ f.quantity = o.quantity
      /\ f.sequence = o.sequence /\ f.filled = o.filled + qty
  BY DEF Order
<1> HIDE DEF f
<1>2. /\ WithStatus(f) \in Order
      /\ WithStatus(f).id = f.id /\ WithStatus(f).side = f.side
      /\ WithStatus(f).order_type = f.order_type
      /\ WithStatus(f).price = f.price /\ WithStatus(f).quantity = f.quantity
      /\ WithStatus(f).sequence = f.sequence /\ WithStatus(f).filled = f.filled
      /\ WithStatus(f).status = IF f.filled >= f.quantity
                                THEN "Filled" ELSE "PartiallyFilled"
  BY <1>1 DEF WithStatus, Order, OrderStatus
<1>3. Filled(o, qty) = WithStatus(f)
  BY DEF Filled, f
<1> QED BY <1>1, <1>2, <1>3

(* c is b with some orders gone and some filled further. *)
Worn(b, c) ==
  /\ IsBook(c)
  /\ Core(c)
  /\ IndexSound(b) => IndexSound(c)
  /\ LiveOrdersOpen(c)
  /\ DOMAIN c.orders \subseteq DOMAIN b.orders
  /\ \A k \in DOMAIN c.orders : /\ c.orders[k].id = b.orders[k].id
                               /\ c.orders[k].sequence = b.orders[k].sequence
  /\ \A s \in Side : DOMAIN c.levels[s] \subseteq DOMAIN b.levels[s]
  /\ TimeOrdered(b) => TimeOrdered(c)

(* A worn book is as uncrossed and as ordered as it was, and indexes no new
   id. *)
LEMMA WornKeeps ==
  ASSUME NEW b, Uncrossed(b), NEW c, Worn(b, c)
  PROVE  /\ Uncrossed(c)
         /\ IndexSound(b) => DOMAIN c.index \subseteq DOMAIN b.index
<1>1. Uncrossed(c)
  BY DEF Uncrossed, Worn, Side
<1>2. ASSUME IndexSound(b), NEW id \in DOMAIN c.index PROVE id \in DOMAIN b.index
  <2>1. c.index[id] \in DOMAIN c.orders /\ c.orders[c.index[id]].id = id
    BY <1>2 DEF Worn, Core, IndexPoints
  <2>2. c.index[id] \in DOMAIN b.orders /\ b.orders[c.index[id]].id = id
    BY <2>1 DEF Worn
  <2> QED BY <1>2, <2>2 DEF IndexSound
<1> QED BY <1>1, <1>2

(* cancel wears the book down. *)
LEMMA CancelWears ==
  ASSUME NEW b, IsBook(b), Core(b), LiveOrdersOpen(b), NEW id \in DOMAIN b.index
  PROVE  Worn(b, CancelOrder(b, id))
<1>1. Shrunk(b, b.index[id], CancelOrder(b, id))
  BY CancelShrinks
<1>2. LiveOrdersOpen(CancelOrder(b, id))
  BY <1>1 DEF LiveOrdersOpen, Shrunk
<1> QED BY <1>1, <1>2 DEF Worn, Shrunk

(* The front of the best level is a live order of that side and price. *)
LEMMA BestFrontLive ==
  ASSUME NEW b, IsBook(b), Core(b), NEW s \in Side, HasBest(b, s)
  PROVE  /\ BestFront(b, s) \in DOMAIN b.orders
         /\ b.orders[BestFront(b, s)].side = s
         /\ b.orders[BestFront(b, s)].price = Best(b, s)
<1> DEFINE p   == Best(b, s)
           lev == b.levels[s][p]
<1>1. p \in DOMAIN b.levels[s]
  BY BestIsBest
<1>2. lev \in Seq(Nat) /\ lev # << >>
  BY <1>1 DEF IsBook, IsMap, Core, LevelsSound
<1>3. Head(lev) = lev[1] /\ 1 \in 1..Len(lev)
  BY <1>2, TailIsWithout
<1>4. /\ lev[1] \in DOMAIN b.orders
      /\ b.orders[lev[1]].side = s
      /\ b.orders[lev[1]].price = p
  BY <1>1, <1>3 DEF Core, LevelsSound
<1> QED BY <1>3, <1>4 DEF BestFront

(* A fill of no more than the maker has left wears the book down: the maker
   stays, partially filled, or leaves the book when nothing is left of it. *)
LEMMA FillWears ==
  ASSUME NEW b, IsBook(b), Core(b), LiveOrdersOpen(b),
         NEW s \in Side, HasBest(b, s), NEW qty \in Int, 0 < qty,
         qty <= Remaining(b.orders[BestFront(b, s)])
  PROVE  Worn(b, FillMaker(b, s, BestFront(b, s), Best(b, s), qty))
<1> DEFINE key   == BestFront(b, s)
           p     == Best(b, s)
           o     == b.orders[key]
           maker == Filled(o, qty)
           m     == BookOf([orders |-> Put(b.orders, key, maker),
                            vacant |-> b.vacant, len |-> b.len],
                           b.index, b.levels)
           c     == FillMaker(b, s, key, p, qty)
<1>1. key \in DOMAIN b.orders /\ o \in Order
  BY BestFrontLive DEF IsBook, IsMap
<1>2. o.filled \in Int /\ o.quantity \in Int /\ 0 <= o.filled /\ o.price # NoPrice
  BY <1>1 DEF Order, LiveOrdersOpen
<1>3. /\ maker \in Order /\ maker.id = o.id /\ maker.side = o.side
      /\ maker.price = o.price /\ maker.sequence = o.sequence
      /\ maker.quantity = o.quantity /\ maker.filled = o.filled + qty
      /\ maker.status = IF o.filled + qty >= o.quantity
                        THEN "Filled" ELSE "PartiallyFilled"
  BY <1>1, FilledFields
<1>4. c = IF Remaining(maker) <= 0 THEN PopFront(m, s, p) ELSE m
  BY DEF FillMaker
<1>5. p \in DOMAIN b.levels[s] /\ key = Head(b.levels[s][p])
  BY BestIsBest DEF BestFront
<1> HIDE DEF key, p, maker, m, c
<1>6. /\ IsBook(m) /\ Core(m)
      /\ DOMAIN m.orders = DOMAIN b.orders
      /\ m.orders[key] = maker
      /\ \A k \in DOMAIN b.orders : k # key => m.orders[k] = b.orders[k]
      /\ m.levels = b.levels
      /\ m.index = b.index
      /\ IndexSound(b) => IndexSound(m)
      /\ TimeOrdered(b) => TimeOrdered(m)
  BY <1>1, <1>3, MarkCore DEF m
<1>7. \A k \in DOMAIN b.orders : /\ m.orders[k].id = b.orders[k].id
                                /\ m.orders[k].sequence = b.orders[k].sequence
  BY <1>3, <1>6
<1>8. CASE Remaining(maker) <= 0
  <2>1. Shrunk(m, key, c)
    BY <1>4, <1>5, <1>6, <1>8, PopFrontShrinks
  <2>2. \A k \in DOMAIN c.orders :
          k \in DOMAIN b.orders /\ c.orders[k] = b.orders[k]
    BY <1>6, <2>1 DEF Shrunk
  <2>3. LiveOrdersOpen(c)
    BY <2>2 DEF LiveOrdersOpen
  <2>4. \A t \in Side : DOMAIN c.levels[t] \subseteq DOMAIN b.levels[t]
    BY <1>6, <2>1 DEF Shrunk
  <2> QED BY <1>6, <2>1, <2>2, <2>3, <2>4 DEF Worn, Shrunk, c, key, p
<1>9. CASE ~(Remaining(maker) <= 0)
  <2>1. c = m
    BY <1>4, <1>9
  <2>2. /\ 0 <= maker.filled /\ Remaining(maker) > 0
        /\ maker.status = "PartiallyFilled" /\ maker.filled # 0
        /\ maker.price # NoPrice
    BY <1>2, <1>3, <1>9 DEF Remaining
  <2>3. LiveOrdersOpen(m)
    <3> SUFFICES ASSUME NEW k \in DOMAIN m.orders
                 PROVE  /\ 0 <= m.orders[k].filled
                        /\ Remaining(m.orders[k]) > 0
                        /\ m.orders[k].price # NoPrice
                        /\ m.orders[k].status = IF m.orders[k].filled = 0
                                                THEN "Open" ELSE "PartiallyFilled"
      BY DEF LiveOrdersOpen
    <3>1. CASE k = key
      BY <1>6, <2>2, <3>1
    <3>2. CASE k # key
      BY <1>6, <3>2 DEF LiveOrdersOpen
    <3> QED BY <3>1, <3>2
  <2>4. Worn(b, m)
    BY <1>6, <1>7, <2>3 DEF Worn
  <2> QED BY <2>1, <2>4 DEF c, key, p
<1> QED BY <1>8, <1>9
(* c is b after the order at key was filled and has become o: it has left
   the slab if nothing of it is left, and no other order has changed. *)
OneFilled(b, key, o, c) ==
  /\ key \in DOMAIN b.orders
  /\ c.len = b.len
  /\ \A k \in DOMAIN b.orders :
       k # key => k \in DOMAIN c.orders /\ c.orders[k] = b.orders[k]
  /\ Remaining(o) <= 0 => DOMAIN c.orders = DOMAIN b.orders \ {key}
  /\ ~(Remaining(o) <= 0) => /\ DOMAIN c.orders = DOMAIN b.orders
                             /\ c.orders[key] = o

(* execute_fill and pop_front touch the maker only. *)
LEMMA FillTouchesMaker ==
  ASSUME NEW b, IsBook(b), Core(b), NEW s \in Side, HasBest(b, s),
         NEW qty \in Int
  PROVE  OneFilled(b, BestFront(b, s), Filled(b.orders[BestFront(b, s)], qty),
                   FillMaker(b, s, BestFront(b, s), Best(b, s), qty))
<1> DEFINE key   == BestFront(b, s)
           p     == Best(b, s)
           o     == b.orders[key]
           maker == Filled(o, qty)
           m     == BookOf([orders |-> Put(b.orders, key, maker),
                            vacant |-> b.vacant, len |-> b.len],
                           b.index, b.levels)
           c     == FillMaker(b, s, key, p, qty)
<1>1. key \in DOMAIN b.orders /\ o \in Order
  BY BestFrontLive DEF IsBook, IsMap
<1>2. /\ maker \in Order /\ maker.id = o.id /\ maker.side = o.side
      /\ maker.price = o.price /\ maker.sequence = o.sequence
  BY <1>1, FilledFields
<1>3. c = IF Remaining(maker) <= 0 THEN PopFront(m, s, p) ELSE m
  BY DEF FillMaker
<1>4. p \in DOMAIN b.levels[s] /\ key = Head(b.levels[s][p])
  BY BestIsBest DEF BestFront
<1> HIDE DEF key, p, maker, m, c
<1>5. /\ IsBook(m) /\ Core(m)
      /\ DOMAIN m.orders = DOMAIN b.orders
      /\ m.orders[key] = maker
      /\ \A k \in DOMAIN b.orders : k # key => m.orders[k] = b.orders[k]
      /\ m.levels = b.levels /\ m.len = b.len
  BY <1>1, <1>2, MarkCore DEF m
<1>6. CASE Remaining(maker) <= 0
  <2>1. Shrunk(m, key, c)
    BY <1>3, <1>4, <1>5, <1>6, PopFrontShrinks
  <2>2. DOMAIN c.orders = DOMAIN b.orders \ {key}
    BY <1>5, <2>1 DEF Shrunk
  <2>3. \A k \in DOMAIN b.orders :
          k # key => k \in DOMAIN c.orders /\ c.orders[k] = b.orders[k]
    BY <1>5, <2>1, <2>2 DEF Shrunk
  <2>4. OneFilled(b, key, maker, c)
    BY <1>1, <1>5, <1>6, <2>1, <2>2, <2>3 DEF OneFilled, Shrunk
  <2> QED BY <2>4 DEF c, key, p, maker
<1>7. CASE ~(Remaining(maker) <= 0)
  <2>1. OneFilled(b, key, maker, c)
    BY <1>1, <1>3, <1>5, <1>7 DEF OneFilled
  <2> QED BY <2>1 DEF c, key, p, maker
<1> QED BY <1>6, <1>7

(* The rest of a limit order goes into the book only when no opposing price
   crosses it. *)
LEMMA RestUncrossed ==
  ASSUME NEW b, IsBook(b), Uncrossed(b), NEW o \in Order, o.price \in Prices,
         o.order_type = "Limit", Remaining(o) > 0, ~Matches(b, o),
         NEW c, Grown(b, o, c)
  PROVE  Uncrossed(c)
<1> DEFINE opp == Opposite(o.side)
<1>1. opp \in Side /\ opp # o.side
  BY DEF Opposite, Side, Order
<1>2. /\ Remaining(o) > 0 /\ o.order_type = "Limit"
      /\ LimitPrice(o) = o.price
  BY PriceAssumption DEF LimitPrice
<1>3. HasBest(b, opp) => ~Crosses(o, Best(b, opp))
  BY <1>2 DEF Matches
<1>4. DOMAIN b.levels[opp] \subseteq Prices /\ Prices \subseteq Int
  BY <1>1, PriceAssumption DEF IsBook, IsMap
<1>5. \A q \in DOMAIN b.levels[opp] :
        IF o.side = "Bid" THEN o.price < q ELSE q < o.price
  <2> TAKE q \in DOMAIN b.levels[opp]
  <2>1. HasBest(b, opp)
    BY DEF HasBest
  <2>2. /\ Best(b, opp) \in DOMAIN b.levels[opp]
        /\ \A r \in DOMAIN b.levels[opp] :
             IF opp = "Bid" THEN r <= Best(b, opp) ELSE Best(b, opp) <= r
    BY <1>1, <2>1, BestIsBest
  <2>3. ~Crosses(o, Best(b, opp))
    BY <1>3, <2>1
  <2>4. Best(b, opp) \in Int /\ q \in Int /\ o.price \in Int
    BY <1>4, <2>2
  <2>5. CASE o.side = "Bid"
    <3>1. opp = "Ask" /\ ~(Best(b, opp) <= o.price)
      BY <1>2, <2>3, <2>5 DEF Crosses, Opposite
    <3>2. Best(b, opp) <= q
      BY <2>2, <3>1
    <3> HIDE DEF opp
    <3> QED BY <2>4, <2>5, <3>1, <3>2
  <2>6. CASE o.side = "Ask"
    <3>1. opp = "Bid" /\ ~(Best(b, opp) >= o.price)
      BY <1>2, <2>3, <2>6 DEF Crosses, Opposite
    <3>2. q <= Best(b, opp)
      BY <2>2, <3>1
    <3> HIDE DEF opp
    <3> QED BY <2>4, <2>6, <3>1, <3>2
  <2> QED BY <2>5, <2>6 DEF Side, Order
<1>6. /\ DOMAIN c.levels[o.side]
         = DOMAIN b.levels[o.side] \cup {o.price}
      /\ c.levels[opp] = b.levels[opp]
  BY <1>1 DEF Grown
<1>7. CASE o.side = "Bid"
  BY <1>5, <1>6, <1>7 DEF Uncrossed, Opposite
<1>8. CASE o.side = "Ask"
  BY <1>5, <1>6, <1>8 DEF Uncrossed, Opposite
<1> QED BY <1>7, <1>8 DEF Side, Order
=============================================================================
