-------------------------- MODULE RecoveryBookProofs --------------------------
(***************************************************************************)
(* Books over whole calls, for all constants.  A call of process_order is  *)
(* a loop, and so are the restoring of a snapshot, the sum that is a       *)
(* depth, and the replay of a log; the model writes them as recursive      *)
(* functions.  Their values exist (LoopDefined), and facts about them are  *)
(* proved by induction over the set of the iterations at which they hold   *)
(* (NatInd).                                                               *)
(*   - The matching loop ends within as many iterations as there are live  *)
(*     orders, and the book is sound after it (RoundsEnd, ProcessSound).   *)
(*   - A snapshot restores a sound book with the depth it was taken from   *)
(*     (DeserializeRebuilds, RestoredDepth), though not with its slots or  *)
(*     its queues.                                                         *)
(*   - What process_order does to the depth is a matter of the depth alone *)
(*     (ProcessDepth): it takes unit after unit from the best price, and   *)
(*     neither the queues nor the ids nor the offsets have a say in it.    *)
(***************************************************************************)
EXTENDS Recovery, OrderBookProofs, FiniteSetTheorems, TLAPS

(* A set of naturals that is not empty has a least member. *)
LEMMA NatMin ==
  ASSUME NEW T, T \subseteq Nat, T # {}
  PROVE  \E x \in T : \A y \in T : x <= y
<1> DEFINE R == {ss \in Nat \X Nat : ss[1] < ss[2]}
<1>1. IsWellFoundedOn(R, Nat)
  BY NatLessThanWellFounded DEF OpToRel
<1>2. \E x \in T : \A y \in T : ~ (<<y, x>> \in R)
  <2> HIDE DEF R
  <2> QED BY <1>1, WFMin
<1>3. PICK x \in T : \A y \in T : ~ (<<y, x>> \in R)
  BY <1>2
<1>4. ASSUME NEW y \in T PROVE x <= y
  <2>1. ~ (<<y, x>> \in R)
    BY <1>3
  <2>2. x \in Nat /\ y \in Nat
    BY <1>3
  <2>3. ~(y < x)
    BY <2>1, <2>2
  <2> QED BY <2>2, <2>3
<1> QED BY <1>3, <1>4

(* Induction over the naturals, with the property as a set. *)
LEMMA NatInd ==
  ASSUME NEW S, 0 \in S, \A n \in Nat : n \in S => n + 1 \in S
  PROVE  \A n \in Nat : n \in S
<1> SUFFICES ASSUME Nat \ S # {} PROVE FALSE
  OBVIOUS
<1>1. PICK x \in Nat \ S : \A y \in Nat \ S : x <= y
  BY NatMin
<1>2. x # 0 /\ x - 1 \in Nat /\ x - 1 \in S
  BY <1>1
<1> QED BY <1>1, <1>2

(* p is the best price at which a side with the depths D has anything. *)
IsTop(side, D, p) ==
  /\ p \in Prices /\ D[p] > 0
  /\ \A q \in Prices : D[q] > 0 => IF side = "Bid" THEN q <= p ELSE p <= q

(* One unit taken from the best price. *)
TakeUnit(side, D) == [D EXCEPT ![CHOOSE p : IsTop(side, D, p)] = @ - 1]

(* One iteration, with what it is of: the matching loop, the restoring of a
   snapshot, a sum, taking from a side, the replay of a log. *)
Step(kind, n, x) ==
  IF kind[1] = "fill" THEN Apply(FillStep, x)
  ELSE IF kind[1] = "restore" THEN Reinsert(x, kind[2][n])
  ELSE IF kind[1] = "sum" THEN x + kind[2][n - 1]
  ELSE IF kind[1] = "take" THEN TakeUnit(kind[2], x)
  ELSE ProcessOrder(x, kind[2][n], 0).book

(* f are the values of a loop that starts with x0, after every number of iterations. *)
IsLoop(kind, x0, f) ==
  f = [n \in Nat |-> IF n = 0 THEN x0 ELSE Step(kind, n, f[n - 1])]

(* Every loop has such values: the recursive functions of the model exist. *)
LEMMA LoopDefined ==
  ASSUME NEW kind, NEW x0
  PROVE  \E f : IsLoop(kind, x0, f)
<1> DEFINE Run(g, n) == g = [i \in 0..n |-> IF i = 0 THEN x0 ELSE Step(kind, i, g[i - 1])]
<1>1. \A n \in Nat : \E g : Run(g, n)
  <2> DEFINE S == {n \in Nat : \E g : Run(g, n)}
  <2>1. 0 \in S
    <3>1. Run([i \in 0..0 |-> x0], 0)
      OBVIOUS
    <3> QED BY <3>1
  <2>2. ASSUME NEW n \in Nat, n \in S PROVE n + 1 \in S
    <3>1. PICK g : Run(g, n)
      BY <2>2
    <3> DEFINE h == [i \in 0..(n + 1) |-> IF i = n + 1 THEN Step(kind, n + 1, g[n]) ELSE g[i]]
    <3>2. h = [i \in 0..(n + 1) |-> IF i = 0 THEN x0 ELSE Step(kind, i, h[i - 1])]
      <4>1. ASSUME NEW i \in 0..(n + 1)
            PROVE  h[i] = IF i = 0 THEN x0 ELSE Step(kind, i, h[i - 1])
        <5>1. CASE i = n + 1
          <6>1. h[i] = Step(kind, i, g[n]) /\ h[i - 1] = g[n]
            BY <5>1
          <6> QED BY <5>1, <6>1
        <5>2. CASE i # n + 1
          <6>1. i \in 0..n /\ h[i] = g[i]
            BY <5>2
          <6>2. g[i] = IF i = 0 THEN x0 ELSE Step(kind, i, g[i - 1])
            BY <3>1, <6>1
          <6>3. i # 0 => h[i - 1] = g[i - 1]
            BY <6>1
          <6> QED BY <6>1, <6>2, <6>3
        <5> QED BY <5>1, <5>2
      <4> QED BY <4>1
    <3>3. Run(h, n + 1)
      BY <3>2
    <3> HIDE DEF h, Run
    <3> QED BY <3>3
  <2> HIDE DEF S
  <2>3. \A n \in Nat : n \in S
    BY <2>1, <2>2, NatInd
  <2> QED BY <2>3 DEF S
<1>2. ASSUME NEW m1 \in Nat, NEW m2 \in Nat, NEW g, NEW h, Run(g, m1), Run(h, m2)
      PROVE  \A n \in Nat : n <= m1 /\ n <= m2 => g[n] = h[n]
  <2> DEFINE S == {n \in Nat : n <= m1 /\ n <= m2 => g[n] = h[n]}
  <2>1. 0 \in S
    BY <1>2
  <2>2. ASSUME NEW n \in Nat, n \in S PROVE n + 1 \in S
    <3> SUFFICES ASSUME n + 1 <= m1, n + 1 <= m2 PROVE g[n + 1] = h[n + 1]
      OBVIOUS
    <3>1. g[n] = h[n]
      BY <2>2
    <3>2. /\ g[n + 1] = Step(kind, n + 1, g[(n + 1) - 1])
          /\ h[n + 1] = Step(kind, n + 1, h[(n + 1) - 1])
      BY <1>2
    <3>3. (n + 1) - 1 = n
      OBVIOUS
    <3> QED BY <3>1, <3>2, <3>3
  <2> HIDE DEF S
  <2>3. \A n \in Nat : n \in S
    BY <2>1, <2>2, NatInd
  <2> QED BY <2>3 DEF S
<1> DEFINE G(n) == CHOOSE g : Run(g, n)
           f == [n \in Nat |-> G(n)[n]]
<1>3. \A n \in Nat : Run(G(n), n)
  BY <1>1
<1>4. ASSUME NEW n \in Nat PROVE f[n] = IF n = 0 THEN x0 ELSE Step(kind, n, f[n - 1])
  <2>1. G(n)[n] = IF n = 0 THEN x0 ELSE Step(kind, n, G(n)[n - 1])
    <3> DEFINE g == G(n)
    <3>1. g = [i \in 0..n |-> IF i = 0 THEN x0 ELSE Step(kind, i, g[i - 1])]
      BY <1>3
    <3> HIDE DEF g
    <3>2. g[n] = IF n = 0 THEN x0 ELSE Step(kind, n, g[n - 1])
      BY <3>1
    <3> QED BY <3>2 DEF g
  <2>2. n # 0 => n - 1 \in Nat /\ G(n)[n - 1] = G(n - 1)[n - 1]
    <3> SUFFICES ASSUME n # 0 PROVE n - 1 \in Nat /\ G(n)[n - 1] = G(n - 1)[n - 1]
      OBVIOUS
    <3> DEFINE m == n - 1
    <3>1. m \in Nat /\ m <= n
      OBVIOUS
    <3> HIDE DEF m
    <3>2. Run(G(n), n) /\ Run(G(m), m)
      BY <1>3, <3>1
    <3> HIDE DEF G, Run
    <3>3. \A i \in Nat : i <= n /\ i <= m => G(n)[i] = G(m)[i]
      BY <1>2, <3>1, <3>2
    <3>4. G(n)[m] = G(m)[m]
      BY <3>1, <3>3
    <3> QED BY <3>1, <3>4 DEF m
  <2> QED BY <2>1, <2>2
<1>5. f = [n \in Nat |-> IF n = 0 THEN x0 ELSE Step(kind, n, f[n - 1])]
  <2>1. f = [n \in Nat |-> f[n]]
    OBVIOUS
  <2> HIDE DEF f
  <2> QED BY <1>4, <2>1
<1>6. IsLoop(kind, x0, f)
  BY <1>5 DEF IsLoop
<1> HIDE DEF f
<1> QED BY <1>6

(* The values of a loop, one iteration after the other. *)
LEMMA LoopSteps ==
  ASSUME NEW kind, NEW x0, NEW f,
         f = [n \in Nat |-> IF n = 0 THEN x0 ELSE Step(kind, n, f[n - 1])]
  PROVE  f[0] = x0 /\ \A n \in Nat : f[n + 1] = Step(kind, n + 1, f[n])
<1>1. f[0] = x0
  OBVIOUS
<1>2. ASSUME NEW n \in Nat PROVE f[n + 1] = Step(kind, n + 1, f[n])
  <2>1. n + 1 \in Nat /\ n + 1 # 0 /\ (n + 1) - 1 = n
    OBVIOUS
  <2>2. f[n + 1] = Step(kind, n + 1, f[(n + 1) - 1])
    BY <2>1
  <2> QED BY <2>1, <2>2
<1> QED BY <1>1, <1>2

(* f are the call records of process_order(b, o). *)
CallRounds(b, o, seq, f) ==
  /\ f[0] = [book |-> b, taker |-> o, sequence |-> seq, fills |-> << >>]
  /\ \A n \in Nat : f[n + 1] = FillStep(f[n])
  /\ ProcessOrder(b, o, seq) = FinishCall(f[Cardinality(DOMAIN b.orders)])

(* The loop of process_order has its call records, and the call ends with the last. *)
LEMMA Rounds ==
  ASSUME NEW b, NEW o, ~(o.quantity <= 0), NEW seq
  PROVE  \E f : CallRounds(b, o, seq, f)
<1> DEFINE call == [book |-> b, taker |-> o, sequence |-> seq, fills |-> << >>]
           f == CHOOSE f : f = [n \in Nat |-> IF n = 0 THEN call ELSE Apply(FillStep, f[n - 1])]
           kind == <<"fill", "">>
<1>1. \A n, x : Step(kind, n, x) = Apply(FillStep, x)
  BY DEF Step
<1>2. \E g : g = [n \in Nat |-> IF n = 0 THEN call ELSE Apply(FillStep, g[n - 1])]
  <2> HIDE DEF call, kind
  <2>1. PICK g : IsLoop(kind, call, g)
    BY LoopDefined
  <2> QED BY <1>1, <2>1 DEF IsLoop
<1>3. f = [n \in Nat |-> IF n = 0 THEN call ELSE Apply(FillStep, f[n - 1])]
  <2> HIDE DEF call
  <2> QED BY <1>2
<1>4. ProcessOrder(b, o, seq) = Apply(FinishCall, f[Cardinality(DOMAIN b.orders)])
  BY DEF ProcessOrder
<1> HIDE DEF f
<1>5. \A x : Apply(FillStep, x) = FillStep(x) /\ Apply(FinishCall, x) = FinishCall(x)
  <2> TAKE x
  <2>1. Apply(FillStep, x) = FillStep(x)
    BY DEF Apply
  <2>2. Apply(FinishCall, x) = FinishCall(x)
    BY DEF Apply
  <2> QED BY <2>1, <2>2
<1>6. f = [n \in Nat |-> IF n = 0 THEN call ELSE Step(kind, n, f[n - 1])]
  <2> HIDE DEF call, kind
  <2> QED BY <1>1, <1>3
<1>7. f[0] = call /\ \A n \in Nat : f[n + 1] = Step(kind, n + 1, f[n])
  <2> HIDE DEF call, kind
  <2> QED BY <1>6, LoopSteps
<1>8. \A n \in Nat : f[n + 1] = FillStep(f[n])
  <2> HIDE DEF call, kind
  <2> QED BY <1>1, <1>5, <1>7
<1>9. CallRounds(b, o, seq, f)
  BY <1>4, <1>5, <1>7, <1>8 DEF CallRounds
<1> QED BY <1>9

(* deserialize_book inserts the orders of the snapshot one after the other. *)
LEMMA Restored ==
  ASSUME NEW orders
  PROVE  \E f : /\ f[0] = EmptyBook
                /\ \A n \in Nat : f[n + 1] = Reinsert(f[n], orders[n + 1])
                /\ DeserializeBook(orders) = f[Len(orders)]
<1> DEFINE f == CHOOSE f : f = [n \in Nat |-> IF n = 0 THEN EmptyBook ELSE Reinsert(f[n - 1], orders[n])]
           kind == <<"restore", orders>>
<1>1. \A n, x : Step(kind, n, x) = Reinsert(x, orders[n])
  BY DEF Step
<1>2. \E g : g = [n \in Nat |-> IF n = 0 THEN EmptyBook ELSE Reinsert(g[n - 1], orders[n])]
  <2> HIDE DEF kind
  <2>1. PICK g : IsLoop(kind, EmptyBook, g)
    BY LoopDefined
  <2> QED BY <1>1, <2>1 DEF IsLoop
<1>3. f = [n \in Nat |-> IF n = 0 THEN EmptyBook ELSE Reinsert(f[n - 1], orders[n])]
  BY <1>2
<1>4. DeserializeBook(orders) = f[Len(orders)]
  BY DEF DeserializeBook
<1> HIDE DEF f, kind
<1>5. f = [n \in Nat |-> IF n = 0 THEN EmptyBook ELSE Step(kind, n, f[n - 1])]
  BY <1>1, <1>3
<1>6. f[0] = EmptyBook /\ \A n \in Nat : f[n + 1] = Step(kind, n + 1, f[n])
  BY <1>5, LoopSteps
<1> QED BY <1>1, <1>4, <1>6

(* g is a side with the depths D after so many units have been taken. *)
Taking(side, D, g) == g[0] = D /\ \A n \in Nat : g[n + 1] = TakeUnit(side, g[n])

(* A side can be taken down unit by unit. *)
LEMMA TakeSteps ==
  ASSUME NEW side, NEW D
  PROVE  \E g : Taking(side, D, g)
<1> DEFINE kind == <<"take", side>>
<1>1. \A n, x : Step(kind, n, x) = TakeUnit(side, x)
  BY DEF Step
<1> HIDE DEF kind
<1>2. PICK g : IsLoop(kind, D, g)
  BY LoopDefined
<1>3. g[0] = D /\ \A n \in Nat : g[n + 1] = Step(kind, n + 1, g[n])
  BY <1>2, LoopSteps DEF IsLoop
<1>4. Taking(side, D, g)
  BY <1>1, <1>3 DEF Taking
<1> QED BY <1>4

(* A sum, term by term. *)
LEMMA SumSteps ==
  ASSUME NEW w
  PROVE  Sum(w, 0) = 0 /\ \A n \in Nat : Sum(w, n + 1) = Sum(w, n) + w[n]
<1> DEFINE f == CHOOSE f : f = [i \in Nat |-> IF i = 0 THEN 0 ELSE f[i - 1] + w[i - 1]]
           kind == <<"sum", w>>
<1>1. \A n, x : Step(kind, n, x) = x + w[n - 1]
  BY DEF Step
<1>2. \E g : g = [n \in Nat |-> IF n = 0 THEN 0 ELSE g[n - 1] + w[n - 1]]
  <2> HIDE DEF kind
  <2>1. PICK g : IsLoop(kind, 0, g)
    BY LoopDefined
  <2> QED BY <1>1, <2>1 DEF IsLoop
<1>3. f = [n \in Nat |-> IF n = 0 THEN 0 ELSE f[n - 1] + w[n - 1]]
  BY <1>2
<1>4. \A n : Sum(w, n) = f[n]
  BY DEF Sum
<1> HIDE DEF f, kind
<1>5. f = [n \in Nat |-> IF n = 0 THEN 0 ELSE Step(kind, n, f[n - 1])]
  BY <1>1, <1>3
<1>6. f[0] = 0 /\ \A n \in Nat : f[n + 1] = Step(kind, n + 1, f[n])
  BY <1>5, LoopSteps
<1>7. \A n \in Nat : n + 1 \in Nat /\ (n + 1) - 1 = n
  OBVIOUS
<1>8. ASSUME NEW n \in Nat PROVE f[n + 1] = f[n] + w[n]
  BY <1>1, <1>6, <1>7
<1> QED BY <1>4, <1>6, <1>8
-----------------------------------------------------------------------------
(* Sums of naturals. *)
LEMMA SumNat ==
  ASSUME NEW w, \A k \in Nat : w[k] \in Nat
  PROVE  \A n \in Nat : Sum(w, n) \in Nat
<1> DEFINE S == {n \in Nat : Sum(w, n) \in Nat}
<1>1. 0 \in S
  BY SumSteps
<1>2. ASSUME NEW n \in Nat, n \in S PROVE n + 1 \in S
  BY <1>2, SumSteps
<1> HIDE DEF S
<1>3. \A n \in Nat : n \in S
  BY <1>1, <1>2, NatInd
<1> QED BY <1>3 DEF S

(* Sums of the same terms. *)
LEMMA SumSame ==
  ASSUME NEW w, NEW v, NEW m \in Nat, \A k \in 0..(m - 1) : w[k] = v[k]
  PROVE  Sum(w, m) = Sum(v, m)
<1> DEFINE S == {n \in Nat : n <= m => Sum(w, n) = Sum(v, n)}
<1>1. 0 \in S
  BY SumSteps
<1>2. ASSUME NEW n \in Nat, n \in S PROVE n + 1 \in S
  <2> SUFFICES ASSUME n + 1 <= m PROVE Sum(w, n + 1) = Sum(v, n + 1)
    OBVIOUS
  <2>1. Sum(w, n) = Sum(v, n) /\ w[n] = v[n]
    BY <1>2
  <2> QED BY <2>1, SumSteps
<1> HIDE DEF S
<1>3. m \in S
  BY <1>1, <1>2, NatInd
<1> QED BY <1>3 DEF S

(* Two sequences of m naturals that differ at k at most. *)
DifferAt(w, v, m, k) ==
  /\ \A i \in Nat : w[i] \in Nat /\ v[i] \in Nat
  /\ m \in Nat /\ k \in 0..(m - 1)
  /\ \A j \in 0..(m - 1) : j # k => w[j] = v[j]

(* When one term changes the sum changes by as much. *)
LEMMA SumChange ==
  ASSUME NEW w, NEW v, NEW m, NEW k, DifferAt(w, v, m, k)
  PROVE  Sum(w, m) + v[k] = Sum(v, m) + w[k]
<1>0. /\ \A i \in Nat : w[i] \in Nat /\ v[i] \in Nat
      /\ m \in Nat /\ k \in 0..(m - 1)
      /\ \A j \in 0..(m - 1) : j # k => w[j] = v[j]
  BY DEF DifferAt
<1> USE <1>0
<1> DEFINE S == {n \in Nat : n <= m => Sum(w, n) + (IF n <= k THEN 0 ELSE v[k])
                                       = Sum(v, n) + (IF n <= k THEN 0 ELSE w[k])}
<1>1. 0 \in S
  BY SumSteps
<1>2. ASSUME NEW n \in Nat, n \in S PROVE n + 1 \in S
  <2> SUFFICES ASSUME n + 1 <= m
               PROVE  Sum(w, n + 1) + (IF n + 1 <= k THEN 0 ELSE v[k])
                      = Sum(v, n + 1) + (IF n + 1 <= k THEN 0 ELSE w[k])
    OBVIOUS
  <2>1. /\ Sum(w, n) \in Nat /\ Sum(v, n) \in Nat /\ w[n] \in Nat /\ v[n] \in Nat
        /\ w[k] \in Nat /\ v[k] \in Nat
    BY SumNat
  <2>2. /\ Sum(w, n + 1) = Sum(w, n) + w[n]
        /\ Sum(v, n + 1) = Sum(v, n) + v[n]
    BY SumSteps
  <2>3. Sum(w, n) + (IF n <= k THEN 0 ELSE v[k]) = Sum(v, n) + (IF n <= k THEN 0 ELSE w[k])
    BY <1>2
  <2>4. CASE n = k
    BY <2>1, <2>2, <2>3, <2>4
  <2>5. CASE n # k
    <3>1. w[n] = v[n]
      BY <2>5
    <3>2. n <= k <=> n + 1 <= k
      BY <2>5
    <3>3. CASE n <= k
      BY <2>1, <2>2, <2>3, <3>1, <3>2, <3>3
    <3>4. CASE ~(n <= k)
      <4>1. Sum(w, n) + v[k] = Sum(v, n) + w[k] /\ ~(n + 1 <= k)
        BY <2>3, <3>2, <3>4
      <4>2. (Sum(w, n) + w[n]) + v[k] = (Sum(v, n) + v[n]) + w[k]
        <5>1. PICK a \in Nat, c \in Nat, d \in Nat, e \in Nat, x \in Nat :
                a = Sum(w, n) /\ c = Sum(v, n) /\ d = v[k] /\ e = w[k] /\ x = w[n] /\ x = v[n]
          BY <2>1, <3>1
        <5>2. a + d = c + e
          BY <4>1, <5>1
        <5>3. (a + x) + d = (c + x) + e
          BY <5>2
        <5> QED BY <5>1, <5>3
      <4> QED BY <2>2, <4>1, <4>2
    <3> QED BY <3>3, <3>4
  <2> QED BY <2>4, <2>5
<1> HIDE DEF S
<1>3. m \in S
  BY <1>1, <1>2, NatInd
<1> QED BY <1>3 DEF S

(* A sum of naturals is at least each of them, and positive only when one of them is. *)
LEMMA SumPositive ==
  ASSUME NEW w, \A k \in Nat : w[k] \in Nat, NEW m \in Nat
  PROVE  /\ \A k \in 0..(m - 1) : w[k] <= Sum(w, m)
         /\ Sum(w, m) > 0 => \E k \in 0..(m - 1) : w[k] > 0
<1> DEFINE S == {n \in Nat : /\ \A k \in 0..(n - 1) : w[k] <= Sum(w, n)
                             /\ Sum(w, n) > 0 => \E k \in 0..(n - 1) : w[k] > 0}
<1>1. 0 \in S
  BY SumSteps
<1>2. ASSUME NEW n \in Nat, n \in S PROVE n + 1 \in S
  <2>1. /\ Sum(w, n) \in Nat /\ w[n] \in Nat
        /\ Sum(w, n + 1) = Sum(w, n) + w[n]
    BY SumNat, SumSteps
  <2>2. ASSUME NEW k \in 0..((n + 1) - 1) PROVE w[k] <= Sum(w, n + 1)
    <3>1. CASE k = n
      BY <2>1, <3>1
    <3>2. CASE k # n
      <4>1. w[k] \in Nat /\ w[k] <= Sum(w, n)
        BY <1>2, <3>2
      <4> QED BY <2>1, <4>1
    <3> QED BY <3>1, <3>2
  <2>3. ASSUME Sum(w, n + 1) > 0 PROVE \E k \in 0..((n + 1) - 1) : w[k] > 0
    <3>1. CASE w[n] > 0
      BY <3>1
    <3>2. CASE ~(w[n] > 0)
      <4>1. Sum(w, n) > 0
        BY <2>1, <2>3, <3>2
      <4>2. PICK k \in 0..(n - 1) : w[k] > 0
        BY <1>2, <4>1
      <4> QED BY <4>2
    <3> QED BY <3>1, <3>2
  <2> QED BY <2>2, <2>3
<1> HIDE DEF S
<1>3. m \in S
  BY <1>1, <1>2, NatInd
<1> QED BY <1>3 DEF S

(* The members of D below m. *)
Below(D, m) == {j \in D : j < m}
(* How many members of D are below m: how many slots of the slab are occupied before m. *)
Rank(D, m) == Cardinality(Below(D, m))

(* The rank from one slot to the next. *)
LEMMA RankStep ==
  ASSUME NEW D, D \subseteq Nat
  PROVE  /\ Rank(D, 0) = 0
         /\ \A m \in Nat : /\ IsFiniteSet(Below(D, m)) /\ Rank(D, m) \in Nat
                           /\ Rank(D, m + 1) = IF m \in D THEN Rank(D, m) + 1 ELSE Rank(D, m)
<1> DEFINE S == {m \in Nat : IsFiniteSet(Below(D, m))}
<1>0. \A j \in D : j \in Nat
  OBVIOUS
<1>1. Below(D, 0) = {}
  <2>1. \A j \in D : ~(j < 0)
    BY <1>0
  <2> QED BY <2>1 DEF Below
<1>2. 0 \in S /\ Rank(D, 0) = 0
  BY <1>1, FS_EmptySet DEF Rank
<1>3. ASSUME NEW m \in Nat
      PROVE  /\ m \notin Below(D, m)
             /\ Below(D, m + 1) = IF m \in D THEN Below(D, m) \cup {m} ELSE Below(D, m)
  <2>1. \A j \in D : j < m + 1 <=> j < m \/ j = m
    BY <1>0
  <2>2. ~(m < m)
    OBVIOUS
  <2> QED BY <2>1, <2>2 DEF Below
<1>4. ASSUME NEW m \in Nat, m \in S
      PROVE  /\ m + 1 \in S /\ Rank(D, m) \in Nat
             /\ Rank(D, m + 1) = IF m \in D THEN Rank(D, m) + 1 ELSE Rank(D, m)
  <2> DEFINE B == Below(D, m)
  <2>1. IsFiniteSet(B) /\ Cardinality(B) \in Nat
    BY <1>4, FS_CardinalityType
  <2> HIDE DEF B
  <2>2. /\ IsFiniteSet(B \cup {m})
        /\ m \notin B => Cardinality(B \cup {m}) = Cardinality(B) + 1
    BY <2>1, FS_AddElement
  <2>3. m \notin B /\ Below(D, m + 1) = IF m \in D THEN B \cup {m} ELSE B
    BY <1>3 DEF B
  <2>4. m + 1 \in S
    BY <2>1, <2>2, <2>3
  <2>5. Rank(D, m) = Cardinality(B) /\ Rank(D, m + 1) = Cardinality(Below(D, m + 1))
    BY DEF Rank, B
  <2> QED BY <2>1, <2>2, <2>3, <2>4, <2>5
<1> HIDE DEF S
<1>5. \A m \in Nat : m \in S
  BY <1>2, <1>4, NatInd
<1>6. ASSUME NEW m \in Nat
      PROVE  /\ IsFiniteSet(Below(D, m)) /\ Rank(D, m) \in Nat
             /\ Rank(D, m + 1) = IF m \in D THEN Rank(D, m) + 1 ELSE Rank(D, m)
  BY <1>4, <1>5 DEF S
<1> QED BY <1>2, <1>6

(* An occupied slot counts for every later one. *)
LEMMA RankGrows ==
  ASSUME NEW D, D \subseteq Nat, NEW k \in D, NEW m \in Nat, k < m
  PROVE  Rank(D, k) < Rank(D, m)
<1> DEFINE S == {n \in Nat : k < n => Rank(D, k) < Rank(D, n)}
<1>1. 0 \in S
  OBVIOUS
<1>2. ASSUME NEW n \in Nat, n \in S PROVE n + 1 \in S
  <2> SUFFICES ASSUME k < n + 1 PROVE Rank(D, k) < Rank(D, n + 1)
    OBVIOUS
  <2>1. /\ Rank(D, k) \in Nat /\ Rank(D, n) \in Nat
        /\ Rank(D, n + 1) = IF n \in D THEN Rank(D, n) + 1 ELSE Rank(D, n)
    BY RankStep
  <2>2. CASE k = n
    BY <2>1, <2>2
  <2>3. CASE k # n
    <3>1. Rank(D, k) < Rank(D, n)
      BY <1>2, <2>3
    <3> QED BY <2>1, <3>1
  <2> QED BY <2>2, <2>3
<1> HIDE DEF S
<1>3. m \in S
  BY <1>1, <1>2, NatInd
<1> QED BY <1>3 DEF S

(* Every number up to the count of the occupied slots is the rank of one of them. *)
LEMMA RankOnto ==
  ASSUME NEW D, D \subseteq Nat, NEW m \in Nat
  PROVE  \A i \in 1..Rank(D, m) : \E k \in D : k < m /\ Rank(D, k) = i - 1
<1> DEFINE S == {n \in Nat : \A i \in 1..Rank(D, n) : \E k \in D : k < n /\ Rank(D, k) = i - 1}
<1>1. 0 \in S
  <2>1. Rank(D, 0) = 0
    BY RankStep
  <2>2. \A i \in 1..0 : FALSE
    OBVIOUS
  <2> QED BY <2>1, <2>2
<1>2. ASSUME NEW n \in Nat, n \in S PROVE n + 1 \in S
  <2>1. /\ Rank(D, n) \in Nat
        /\ Rank(D, n + 1) = IF n \in D THEN Rank(D, n) + 1 ELSE Rank(D, n)
    BY RankStep
  <2>2. ASSUME NEW i \in 1..Rank(D, n + 1)
        PROVE  \E k \in D : k < n + 1 /\ Rank(D, k) = i - 1
    <3>1. CASE i \in 1..Rank(D, n)
      <4>1. PICK k \in D : k < n /\ Rank(D, k) = i - 1
        BY <1>2, <3>1
      <4> QED BY <4>1
    <3>2. CASE i \notin 1..Rank(D, n)
      <4>1. n \in D /\ i = Rank(D, n) + 1
        BY <2>1, <3>2
      <4> QED BY <2>1, <4>1
    <3> QED BY <3>1, <3>2
  <2> QED BY <2>2
<1> HIDE DEF S
<1>3. m \in S
  BY <1>1, <1>2, NatInd
<1> QED BY <1>3 DEF S

(* The iterator of the slab yields every occupied key once, in increasing order. *)
LEMMA SlabIterates ==
  ASSUME NEW b, IsBook(b), SlabSound(b)
  PROVE  LET D == DOMAIN b.orders
         IN  /\ IsFiniteSet(D) /\ Cardinality(D) \in Nat
             /\ D \subseteq Nat /\ Cardinality(D) = Rank(D, b.len)
             /\ \A i \in 1..Cardinality(D) :
                  SlabNth(b, i) \in D /\ Rank(D, SlabNth(b, i)) = i - 1
             /\ \A k \in D : /\ Rank(D, k) + 1 \in 1..Cardinality(D)
                             /\ SlabNth(b, Rank(D, k) + 1) = k
<1> DEFINE D == DOMAIN b.orders
<1>1. D \subseteq Nat /\ b.len \in Nat /\ \A k \in D : k < b.len
  BY DEF IsBook, IsMap, SlabSound
<1>2. Below(D, b.len) = D
  BY <1>1 DEF Below
<1>3. IsFiniteSet(D) /\ Cardinality(D) \in Nat /\ Cardinality(D) = Rank(D, b.len)
  BY <1>1, <1>2, RankStep DEF Rank
<1>4. \A i : SlabNth(b, i) = CHOOSE k \in D : Rank(D, k) = i - 1
  BY DEF SlabNth, Rank, Below
<1> HIDE DEF D
<1>5. ASSUME NEW i \in 1..Cardinality(D)
      PROVE  SlabNth(b, i) \in D /\ Rank(D, SlabNth(b, i)) = i - 1
  <2>1. \E k \in D : Rank(D, k) = i - 1
    BY <1>1, <1>3, RankOnto
  <2> QED BY <1>4, <2>1
<1>6. ASSUME NEW k \in D
      PROVE  Rank(D, k) + 1 \in 1..Cardinality(D) /\ SlabNth(b, Rank(D, k) + 1) = k
  <2>0. k \in Nat /\ k < b.len
    BY <1>1
  <2>1. Rank(D, k) \in Nat /\ Rank(D, k) < Cardinality(D)
    <3>1. Rank(D, k) \in Nat
      BY <1>1, <2>0, RankStep
    <3>2. Rank(D, k) < Rank(D, b.len)
      BY <1>1, <2>0, RankGrows
    <3> QED BY <1>3, <3>1, <3>2
  <2> DEFINE i == Rank(D, k) + 1
             j == SlabNth(b, i)
  <2>2. i \in 1..Cardinality(D) /\ i - 1 = Rank(D, k)
    BY <1>3, <2>1
  <2>3. j \in D /\ Rank(D, j) = Rank(D, k)
    BY <1>5, <2>2
  <2> HIDE DEF j
  <2>4. j \in Nat /\ k \in Nat /\ ~(Rank(D, j) < Rank(D, k)) /\ ~(Rank(D, k) < Rank(D, j))
    BY <1>1, <2>0, <2>1, <2>3
  <2>5. j = k
    <3>1. ~(j < k)
      BY <1>1, <2>3, <2>4, RankGrows
    <3>2. ~(k < j)
      BY <1>1, <2>4, RankGrows
    <3> QED BY <2>4, <3>1, <3>2
  <2> QED BY <2>2, <2>5 DEF j
<1> QED BY <1>1, <1>3, <1>5, <1>6 DEF D
-----------------------------------------------------------------------------
(* What every book of the system is. *)
BookSound(b) == IsBook(b) /\ Core(b) /\ LiveOrdersOpen(b) /\ Uncrossed(b)

(* An order as it is published: nothing of it is filled. *)
Arriving(o) ==
  /\ o \in Order
  /\ o.quantity > 0 /\ o.filled = 0 /\ o.status = "Open"
  /\ o.order_type = "Limit" => o.price \in Prices

(* t is o, some of it filled. *)
Progress(o, t) ==
  /\ t \in Order
  /\ t.id = o.id /\ t.side = o.side /\ t.order_type = o.order_type
  /\ t.price = o.price /\ t.quantity = o.quantity /\ t.sequence = o.sequence
  /\ 0 <= t.filled /\ t.filled <= t.quantity
  /\ t.status = IF t.filled = 0 THEN "Open"
                ELSE IF t.filled >= t.quantity THEN "Filled" ELSE "PartiallyFilled"

(* c is process_order(b, o) under way. *)
InCall(b, o, c) == Worn(b, c.book) /\ Progress(o, c.taker) /\ c.sequence \in Nat

(* The maker of the next iteration of the matching loop, and the quantity of its fill. *)
Key(c) == BestFront(c.book, Opposite(c.taker.side))
Qty(c) == FillQty(c.book, c.taker, Key(c))

(* c and the next record of the call, d: one fill of the best maker. *)
OneRound(c, d) ==
  LET s == Opposite(c.taker.side)
  IN  /\ s \in Side /\ HasBest(c.book, s) /\ s # c.taker.side
      /\ Key(c) \in DOMAIN c.book.orders
      /\ c.book.orders[Key(c)] \in Order
      /\ c.book.orders[Key(c)].side = s
      /\ c.book.orders[Key(c)].price = Best(c.book, s)
      /\ Qty(c) \in Nat \ {0}
      /\ Qty(c) <= Remaining(c.taker) /\ Qty(c) <= Remaining(c.book.orders[Key(c)])
      /\ d.taker.filled = c.taker.filled + Qty(c)
      /\ OneFilled(c.book, Key(c), Filled(c.book.orders[Key(c)], Qty(c)), d.book)
      /\ \/ Remaining(d.taker) = 0
         \/ DOMAIN d.book.orders = DOMAIN c.book.orders \ {Key(c)}

(* Fills after fills are fills. *)
LEMMA WornTrans ==
  ASSUME NEW b, NEW c, NEW d, Worn(b, c), Worn(c, d)
  PROVE  Worn(b, d)
BY DEF Worn

(* A sound book is what its own fills start from. *)
LEMMA WornSelf ==
  ASSUME NEW b, BookSound(b)
  PROVE  Worn(b, b)
BY DEF Worn, BookSound

(* One iteration of the matching loop: the call goes on as a call, and either the
   taker or the maker it meets is used up. *)
LEMMA FillStepFacts ==
  ASSUME NEW b, BookSound(b), NEW o, Arriving(o), NEW c, InCall(b, o, c),
         Matches(c.book, c.taker)
  PROVE  InCall(b, o, FillStep(c)) /\ OneRound(c, FillStep(c))
<1> DEFINE s   == Opposite(c.taker.side)
           key == Key(c)
           qty == Qty(c)
           m   == c.book.orders[key]
           d   == FillStep(c)
           t   == c.taker
<1>1. /\ IsBook(c.book) /\ Core(c.book) /\ LiveOrdersOpen(c.book)
      /\ t \in Order
  BY DEF InCall, Worn, Progress
<1>2. s \in Side /\ s # t.side /\ HasBest(c.book, s) /\ Remaining(t) > 0
  BY <1>1 DEF Opposite, Side, Order, Matches
<1>3. /\ key \in DOMAIN c.book.orders /\ m.side = s /\ m.price = Best(c.book, s)
      /\ m \in Order
  BY <1>1, <1>2, BestFrontLive DEF Key, IsBook, IsMap
<1>4. /\ Remaining(t) \in Int /\ Remaining(m) \in Int /\ Remaining(m) > 0
      /\ t.filled \in Int /\ t.quantity \in Int /\ Remaining(t) = t.quantity - t.filled
      /\ m.filled \in Int /\ m.quantity \in Int /\ Remaining(m) = m.quantity - m.filled
  BY <1>1, <1>3 DEF Remaining, Order, LiveOrdersOpen
<1>5. /\ qty = IF Remaining(t) < Remaining(m) THEN Remaining(t) ELSE Remaining(m)
      /\ qty \in Nat \ {0} /\ qty <= Remaining(t) /\ qty <= Remaining(m)
  <2>1. qty = IF Remaining(t) < Remaining(m) THEN Remaining(t) ELSE Remaining(m)
    BY DEF Qty, FillQty
  <2> HIDE DEF qty, t, m
  <2> QED BY <1>2, <1>4, <2>1
<1>6. /\ d.book = FillMaker(c.book, s, key, Best(c.book, s), qty)
      /\ d.taker = Filled(t, qty)
      /\ d.sequence = c.sequence + 1
  <2>1. ~(qty <= 0) /\ key \in DOMAIN c.book.orders
    BY <1>3, <1>5
  <2> QED BY <2>1 DEF FillStep, Key, Qty
<1>7. key = BestFront(c.book, s)
  BY DEF Key
<1> HIDE DEF d, qty, key
<1>8. Worn(c.book, d.book)
  BY <1>1, <1>2, <1>5, <1>6, <1>7, FillWears
<1>9. OneFilled(c.book, key, Filled(m, qty), d.book)
  BY <1>1, <1>2, <1>5, <1>6, <1>7, FillTouchesMaker
<1>10. /\ d.taker \in Order
       /\ d.taker.id = t.id /\ d.taker.side = t.side
       /\ d.taker.order_type = t.order_type /\ d.taker.price = t.price
       /\ d.taker.quantity = t.quantity /\ d.taker.sequence = t.sequence
       /\ d.taker.filled = t.filled + qty
       /\ d.taker.status = IF t.filled + qty >= t.quantity THEN "Filled" ELSE "PartiallyFilled"
  BY <1>1, <1>5, <1>6, FilledFields
<1>11. Progress(o, d.taker)
  <2>1. t.id = o.id /\ t.side = o.side /\ t.order_type = o.order_type
        /\ t.price = o.price /\ t.quantity = o.quantity /\ t.sequence = o.sequence
        /\ 0 <= t.filled
    BY DEF InCall, Progress
  <2>2. /\ t.filled + qty \in Int /\ 0 <= t.filled + qty /\ t.filled + qty <= t.quantity
        /\ t.filled + qty # 0
    BY <1>4, <1>5, <2>1
  <2> HIDE DEF t
  <2> QED BY <1>10, <2>1, <2>2 DEF Progress
<1>12. InCall(b, o, d)
  <2>1. Worn(b, d.book)
    BY <1>8, WornTrans DEF InCall
  <2>2. d.sequence \in Nat
    BY <1>6 DEF InCall
  <2> QED BY <1>11, <2>1, <2>2 DEF InCall
<1>13. Remaining(d.taker) = 0 \/ DOMAIN d.book.orders = DOMAIN c.book.orders \ {key}
  <2>1. Remaining(d.taker) = Remaining(t) - qty
    <3>1. Remaining(d.taker) = t.quantity - (t.filled + qty)
      BY <1>10 DEF Remaining
    <3> HIDE DEF t
    <3> QED BY <1>4, <1>5, <3>1
  <2>2. Remaining(Filled(m, qty)) = Remaining(m) - qty
    <3>1. Filled(m, qty).quantity = m.quantity /\ Filled(m, qty).filled = m.filled + qty
      BY <1>3, <1>5, FilledFields
    <3>2. Remaining(Filled(m, qty)) = m.quantity - (m.filled + qty)
      BY <3>1 DEF Remaining
    <3> HIDE DEF m
    <3> QED BY <1>4, <1>5, <3>2
  <2>3. CASE qty = Remaining(t)
    BY <1>4, <2>1, <2>3
  <2>4. CASE qty = Remaining(m)
    <3>1. Remaining(Filled(m, qty)) <= 0
      BY <1>4, <2>2, <2>4
    <3> QED BY <1>9, <3>1 DEF OneFilled
  <2> QED BY <1>5, <2>3, <2>4
<1>14. OneRound(c, d)
  BY <1>2, <1>3, <1>5, <1>9, <1>10, <1>13 DEF OneRound, key, qty
<1> QED BY <1>12, <1>14 DEF d

(* A book without orders has no levels. *)
LEMMA NoOrdersNoBest ==
  ASSUME NEW b, IsBook(b), Core(b), DOMAIN b.orders = {}, NEW s \in Side
  PROVE  ~HasBest(b, s)
BY BestFrontLive

(* After n of N iterations the loop has ended, or n resting orders are used up. *)
Ended(N, n, c) ==
  \/ ~Matches(c.book, c.taker)
  \/ n <= N /\ IsFiniteSet(DOMAIN c.book.orders) /\ Cardinality(DOMAIN c.book.orders) = N - n

(* The loop of process_order ends within as many iterations as there are live orders. *)
LEMMA RoundsEnd ==
  ASSUME NEW b, BookSound(b), NEW o, Arriving(o), NEW seq \in Nat, NEW f,
         f[0] = [book |-> b, taker |-> o, sequence |-> seq, fills |-> << >>],
         \A n \in Nat : f[n + 1] = FillStep(f[n])
  PROVE  /\ \A n \in Nat : InCall(b, o, f[n])
         /\ Cardinality(DOMAIN b.orders) \in Nat
         /\ ~Matches(f[Cardinality(DOMAIN b.orders)].book, f[Cardinality(DOMAIN b.orders)].taker)
<1> DEFINE N == Cardinality(DOMAIN b.orders)
           S == {n \in Nat : InCall(b, o, f[n]) /\ Ended(N, n, f[n])}
<1>1. IsFiniteSet(DOMAIN b.orders) /\ N \in Nat
  BY SlabIterates DEF BookSound, Core
<1> HIDE DEF N
<1>2. 0 \in S
  <2>1. f[0].book = b /\ f[0].taker = o /\ f[0].sequence = seq
    OBVIOUS
  <2>2. Progress(o, o)
    BY DEF Progress, Arriving, Order
  <2>3. InCall(b, o, f[0])
    BY <2>1, <2>2, WornSelf DEF InCall
  <2>4. N <= N - 0 /\ N = N - 0 /\ 0 <= N
    BY <1>1
  <2>5. Ended(N, 0, f[0])
    BY <1>1, <2>1, <2>4 DEF Ended, N
  <2> QED BY <2>3, <2>5
<1>3. ASSUME NEW n \in Nat, n \in S PROVE n + 1 \in S
  <2> DEFINE c == f[n]
             d == f[n + 1]
  <2>1. InCall(b, o, c) /\ Ended(N, n, c) /\ d = FillStep(c)
    BY <1>3
  <2> SUFFICES InCall(b, o, d) /\ Ended(N, n + 1, d)
    <3>1. n + 1 \in Nat
      OBVIOUS
    <3> QED BY <3>1, Zenon
  <2> HIDE DEF c, d
  <2>2. CASE ~Matches(c.book, c.taker)
    <3>1. d = c
      BY <2>1, <2>2 DEF FillStep
    <3> QED BY <2>1, <2>2, <3>1 DEF Ended
  <2>3. CASE Matches(c.book, c.taker)
    <3>1. InCall(b, o, d) /\ OneRound(c, d)
      BY <2>1, <2>3, FillStepFacts
    <3>2. /\ n <= N /\ IsFiniteSet(DOMAIN c.book.orders)
          /\ Cardinality(DOMAIN c.book.orders) = N - n
      BY <2>1, <2>3 DEF Ended
    <3>3. CASE Remaining(d.taker) = 0
      <4>1. ~Matches(d.book, d.taker)
        BY <3>3 DEF Matches
      <4> QED BY <3>1, <4>1 DEF Ended
    <3>4. CASE DOMAIN d.book.orders = DOMAIN c.book.orders \ {Key(c)}
      <4>1. Key(c) \in DOMAIN c.book.orders
        BY <3>1 DEF OneRound
      <4>2. /\ IsFiniteSet(DOMAIN d.book.orders)
            /\ Cardinality(DOMAIN d.book.orders) = (N - n) - 1
        BY <3>2, <3>4, <4>1, FS_RemoveElement
      <4>3. Cardinality(DOMAIN d.book.orders) \in Nat
        BY <4>2, FS_CardinalityType
      <4>4. n + 1 <= N /\ (N - n) - 1 = N - (n + 1)
        <5>1. (N - n) - 1 \in Nat
          BY <4>2, <4>3
        <5> QED BY <1>1, <5>1
      <4>5. Ended(N, n + 1, d)
        BY <4>2, <4>4 DEF Ended
      <4> QED BY <3>1, <4>5
    <3> QED BY <3>1, <3>3, <3>4 DEF OneRound
  <2> QED BY <2>2, <2>3
<1> HIDE DEF S
<1>4. \A n \in Nat : n \in S
  BY <1>2, <1>3, NatInd
<1>5. ~Matches(f[N].book, f[N].taker)
  <2> DEFINE c == f[N]
  <2>1. InCall(b, o, c) /\ Ended(N, N, c)
    BY <1>1, <1>4 DEF S
  <2> HIDE DEF c
  <2> SUFFICES ASSUME Matches(c.book, c.taker) PROVE FALSE
    BY DEF c
  <2>2. IsFiniteSet(DOMAIN c.book.orders) /\ Cardinality(DOMAIN c.book.orders) = 0
    BY <1>1, <2>1 DEF Ended
  <2>3. DOMAIN c.book.orders = {}
    BY <2>2, FS_EmptySet
  <2>4. IsBook(c.book) /\ Core(c.book) /\ Opposite(c.taker.side) \in Side
    BY <2>1 DEF InCall, Worn, Opposite, Side
  <2>5. ~HasBest(c.book, Opposite(c.taker.side))
    BY <2>3, <2>4, NoOrdersNoBest
  <2> QED BY <2>5 DEF Matches
<1> QED BY <1>1, <1>4, <1>5 DEF S, N
-----------------------------------------------------------------------------
(* c holds orders of b, and o perhaps. *)
Gained(b, o, c) ==
  /\ BookSound(c)
  /\ \A k \in DOMAIN c.orders :
       \/ c.orders[k].id = o.id
       \/ \E j \in DOMAIN b.orders : c.orders[k].id = b.orders[j].id
  /\ IndexSound(b) /\ (\A j \in DOMAIN b.orders : b.orders[j].id # o.id) => IndexSound(c)

(* What is left of the taker is inserted. *)
Rests(z) == z.taker.order_type = "Limit" /\ Remaining(z.taker) > 0

(* The end of process_order; an order as it is published is never refused. *)
LEMMA FinishFields ==
  ASSUME NEW o, Arriving(o), NEW z, Progress(o, z.taker)
  PROVE  /\ FinishCall(z).book = IF Rests(z) THEN InsertOrder(z.book, z.taker) ELSE z.book
         /\ FinishCall(z).sequence = z.sequence
         /\ Rests(z) => z.taker.price \in Prices /\ ~InsertRejected(z.taker)
<1>1. Rests(z) => z.taker.price \in Prices
  BY DEF Rests, Progress, Arriving
<1>2. Rests(z) => ~InsertRejected(z.taker)
  BY <1>1, PriceAssumption DEF InsertRejected, Progress, Arriving, Order
<1> QED BY <1>1, <1>2 DEF FinishCall, Rests

(* The end of process_order keeps the book sound. *)
LEMMA FinishSound ==
  ASSUME NEW b, BookSound(b), NEW o, Arriving(o), NEW z, InCall(b, o, z),
         ~Matches(z.book, z.taker)
  PROVE  Gained(b, o, FinishCall(z).book) /\ FinishCall(z).sequence \in Nat
<1>1. /\ FinishCall(z).book = IF Rests(z) THEN InsertOrder(z.book, z.taker) ELSE z.book
      /\ FinishCall(z).sequence = z.sequence
      /\ Rests(z) => z.taker.price \in Prices
  BY FinishFields DEF InCall
<1> DEFINE w == z.book
           t == z.taker
<1>2. /\ Worn(b, w) /\ Progress(o, t) /\ z.sequence \in Nat
      /\ IsBook(w) /\ Core(w) /\ LiveOrdersOpen(w) /\ Uncrossed(w)
  BY WornKeeps DEF InCall, Worn, BookSound
<1>3. CASE ~Rests(z)
  <2>1. \A k \in DOMAIN w.orders : k \in DOMAIN b.orders /\ w.orders[k].id = b.orders[k].id
    BY <1>2 DEF Worn
  <2>2. IndexSound(b) => IndexSound(w)
    BY <1>2 DEF Worn
  <2>3. FinishCall(z).book = w
    BY <1>1, <1>3
  <2> HIDE DEF w
  <2>4. Gained(b, o, w)
    BY <1>2, <2>1, <2>2 DEF Gained, BookSound
  <2> QED BY <1>1, <1>2, <2>3, <2>4
<1>4. CASE Rests(z)
  <2> DEFINE c == InsertOrder(w, t)
  <2>1. t \in Order /\ t.price \in Prices /\ t.order_type = "Limit" /\ Remaining(t) > 0
    BY <1>1, <1>2, <1>4 DEF Rests, Progress
  <2>2. Grown(w, t, c)
    BY <1>2, <2>1, InsertGrows
  <2> HIDE DEF c
  <2>3. Uncrossed(c)
    BY <1>2, <2>1, <2>2, RestUncrossed
  <2>4. LiveOrdersOpen(c)
    <3>1. /\ 0 <= t.filled /\ t.price # NoPrice
          /\ t.status = IF t.filled = 0 THEN "Open" ELSE "PartiallyFilled"
      BY <1>2, <2>1, PriceAssumption DEF Progress, Remaining, Order
    <3> QED BY <1>2, <2>1, <2>2, <3>1 DEF Grown, LiveOrdersOpen
  <2>5. BookSound(c)
    BY <2>2, <2>3, <2>4 DEF BookSound, Grown
  <2>6. \A k \in DOMAIN c.orders :
          \/ c.orders[k].id = o.id
          \/ \E j \in DOMAIN b.orders : c.orders[k].id = b.orders[j].id
    <3>1. t.id = o.id
      BY <1>2 DEF Progress
    <3>2. \A k \in DOMAIN c.orders : c.orders[k] = t \/ (k \in DOMAIN w.orders /\ c.orders[k] = w.orders[k])
      BY <2>2 DEF Grown
    <3>3. \A k \in DOMAIN w.orders : k \in DOMAIN b.orders /\ w.orders[k].id = b.orders[k].id
      BY <1>2 DEF Worn
    <3> QED BY <3>1, <3>2, <3>3
  <2>7. ASSUME IndexSound(b), \A j \in DOMAIN b.orders : b.orders[j].id # o.id PROVE IndexSound(c)
    <3>1. IndexSound(w) /\ DOMAIN w.index \subseteq DOMAIN b.index
      BY <1>2, <2>7, WornKeeps DEF Worn, BookSound
    <3>2. t.id = o.id /\ o.id \notin DOMAIN b.index
      BY <1>2, <2>7 DEF Progress, IndexSound
    <3> QED BY <2>2, <3>1, <3>2 DEF Grown
  <2>8. Gained(b, o, c)
    BY <2>5, <2>6, <2>7 DEF Gained
  <2> QED BY <1>1, <1>2, <1>4, <2>8 DEF c
<1> QED BY <1>3, <1>4

(* process_order keeps the book sound, and the index as well when the id is new. *)
LEMMA ProcessSound ==
  ASSUME NEW b, BookSound(b), NEW o, Arriving(o), NEW seq \in Nat
  PROVE  /\ Gained(b, o, ProcessOrder(b, o, seq).book)
         /\ ProcessOrder(b, o, seq).sequence \in Nat
<1>1. ~(o.quantity <= 0)
  BY DEF Arriving, Order
<1>2. PICK f : CallRounds(b, o, seq, f)
  BY <1>1, Rounds
<1>3. /\ f[0] = [book |-> b, taker |-> o, sequence |-> seq, fills |-> << >>]
      /\ \A n \in Nat : f[n + 1] = FillStep(f[n])
      /\ ProcessOrder(b, o, seq) = FinishCall(f[Cardinality(DOMAIN b.orders)])
  BY <1>2 DEF CallRounds
<1> DEFINE z == f[Cardinality(DOMAIN b.orders)]
<1>4. InCall(b, o, z) /\ ~Matches(z.book, z.taker)
  BY <1>3, RoundsEnd
<1> HIDE DEF z
<1>5. Gained(b, o, FinishCall(z).book) /\ FinishCall(z).sequence \in Nat
  BY <1>4, FinishSound
<1> QED BY <1>3, <1>5 DEF z

(* OrderBook::new. *)
LEMMA EmptyBookSound == BookSound(EmptyBook) /\ IndexSound(EmptyBook)
<1> DEFINE b == EmptyBook
<1>1. /\ b.orders = EmptyMap /\ b.vacant = << >> /\ b.len = 0 /\ b.index = EmptyMap
      /\ b.levels = [s \in Side |-> EmptyMap]
  BY DEF EmptyBook
<1>2. DOMAIN EmptyMap = {}
  BY DEF EmptyMap
<1>3. IsBook(b)
  <2>1. b = BookOf(b, b.index, b.levels)
    BY DEF EmptyBook, BookOf
  <2>2. \A K, V : IsMap(EmptyMap, K, V)
    BY DEF EmptyMap, IsMap
  <2>3. b.levels = [s \in Side |-> b.levels[s]] /\ \A s \in Side : b.levels[s] = EmptyMap
    BY <1>1
  <2> HIDE DEF b
  <2> QED BY <1>1, <2>1, <2>2, <2>3 DEF IsBook
<1>4. \A s \in Side : DOMAIN b.levels[s] = {}
  BY <1>1, <1>2
<1> HIDE DEF b
<1>5. SlabSound(b) /\ LevelsSound(b) /\ QueuedOnce(b) /\ LevelsComplete(b) /\ IndexPoints(b)
  <2>1. \A i \in 1..Len(<< >>) : FALSE
    OBVIOUS
  <2>2. SlabSound(b)
    BY <1>1, <1>2, <2>1 DEF SlabSound
  <2> QED BY <1>1, <1>2, <1>4, <2>2 DEF LevelsSound, QueuedOnce, LevelsComplete, IndexPoints
<1>6. LiveOrdersOpen(b) /\ Uncrossed(b) /\ IndexSound(b)
  BY <1>1, <1>2, <1>4 DEF LiveOrdersOpen, Uncrossed, IndexSound, Side
<1> QED BY <1>3, <1>5, <1>6 DEF BookSound, Core, b

-----------------------------------------------------------------------------
(* The orders of a snapshot: open, with a price, the bids below the asks. *)
RowSound(orders) ==
  /\ orders \in Seq(Order)
  /\ \A i \in 1..Len(orders) :
       /\ orders[i].price \in Prices /\ 0 <= orders[i].filled
       /\ Remaining(orders[i]) > 0
       /\ orders[i].status = IF orders[i].filled = 0 THEN "Open" ELSE "PartiallyFilled"
  /\ \A i, j \in 1..Len(orders) :
       orders[i].side = "Bid" /\ orders[j].side = "Ask" => orders[i].price < orders[j].price

(* serialize_book writes the orders of the slab as they are. *)
LEMMA SerializeSound ==
  ASSUME NEW b, BookSound(b)
  PROVE  /\ RowSound(SerializeBook(b))
         /\ Len(SerializeBook(b)) = Cardinality(DOMAIN b.orders)
         /\ \A i \in 1..Len(SerializeBook(b)) :
              /\ SlabNth(b, i) \in DOMAIN b.orders
              /\ SerializeBook(b)[i] = b.orders[SlabNth(b, i)]
<1> DEFINE D == DOMAIN b.orders
           N == Cardinality(D)
           r == SerializeBook(b)
<1>1. /\ N \in Nat /\ \A i \in 1..N : SlabNth(b, i) \in D
  BY SlabIterates DEF BookSound, Core
<1>2. \A k \in D : /\ b.orders[k] \in Order /\ b.orders[k].price \in Prices
                   /\ 0 <= b.orders[k].filled /\ Remaining(b.orders[k]) > 0
                   /\ b.orders[k].status = IF b.orders[k].filled = 0 THEN "Open" ELSE "PartiallyFilled"
  <2> TAKE k \in D
  <2>1. b.orders[k] \in Order
    BY DEF BookSound, IsBook, IsMap
  <2>2. b.orders[k].price # NoPrice
    BY DEF BookSound, LiveOrdersOpen
  <2>3. b.orders[k].price \in Prices
    BY <2>1, <2>2 DEF Order
  <2> QED BY <2>1, <2>3 DEF BookSound, LiveOrdersOpen
<1>3. \A k \in D : SnapshotOrder(b.orders[k]) = b.orders[k]
  BY DEF SnapshotOrder, BookSound, LiveOrdersOpen
<1>4. r = [i \in 1..N |-> SnapshotOrder(b.orders[SlabNth(b, i)])]
  BY DEF SerializeBook
<1>5. \A j, k \in D : b.orders[j].side = "Bid" /\ b.orders[k].side = "Ask"
                        => b.orders[j].price < b.orders[k].price
  <2>1. \A k \in D : b.orders[k].price \in DOMAIN b.levels[b.orders[k].side]
    BY DEF BookSound, Core, LevelsComplete
  <2> QED BY <2>1 DEF BookSound, Uncrossed
<1> HIDE DEF D, N, r
<1>6. \A i \in 1..N : r[i] = b.orders[SlabNth(b, i)]
  BY <1>1, <1>3, <1>4
<1>7. r \in Seq(Order) /\ Len(r) = N
  <2>1. r \in [1..N -> Order]
    BY <1>1, <1>2, <1>3, <1>4
  <2>2. r \in Seq(Order)
    BY <1>1, <2>1, SeqDef
  <2> QED BY <1>1, <2>1, <2>2, LenProperties
<1>8. RowSound(r)
  BY <1>1, <1>2, <1>5, <1>6, <1>7 DEF RowSound
<1> QED BY <1>1, <1>6, <1>7, <1>8 DEF D, N, r
-----------------------------------------------------------------------------
(* A side has a level at a price when it has an order there. *)
LEMMA LevelIffOrder ==
  ASSUME NEW b, IsBook(b), Core(b), NEW s \in Side, NEW p
  PROVE  p \in DOMAIN b.levels[s]
           <=> \E k \in DOMAIN b.orders : b.orders[k].side = s /\ b.orders[k].price = p
<1>1. ASSUME p \in DOMAIN b.levels[s]
      PROVE  \E k \in DOMAIN b.orders : b.orders[k].side = s /\ b.orders[k].price = p
  <2>1. b.levels[s][p] \in Seq(Nat) /\ b.levels[s][p] # << >>
    BY <1>1 DEF IsBook, IsMap, Core, LevelsSound
  <2>2. 1 \in 1..Len(b.levels[s][p])
    BY <2>1, TailIsWithout
  <2> QED BY <1>1, <2>2 DEF Core, LevelsSound
<1>2. ASSUME NEW k \in DOMAIN b.orders, b.orders[k].side = s, b.orders[k].price = p
      PROVE  p \in DOMAIN b.levels[s]
  BY <1>2 DEF Core, LevelsComplete
<1> QED BY <1>1, <1>2

(* c holds the first n orders of a snapshot, at the keys from 0. *)
Rebuilt(orders, n, c) ==
  /\ BookSound(c)
  /\ c.vacant = << >> /\ c.len = n /\ DOMAIN c.orders = 0..(n - 1)
  /\ \A i \in 1..n : c.orders[i - 1] = orders[i]
  /\ (\A i, j \in 1..Len(orders) : orders[i].id = orders[j].id => i = j) => IndexSound(c)

(* deserialize_book, one order: it goes into the next slot. *)
LEMMA ReinsertRebuilds ==
  ASSUME NEW orders, RowSound(orders), NEW n \in Nat, n + 1 <= Len(orders),
         NEW c, Rebuilt(orders, n, c)
  PROVE  Rebuilt(orders, n + 1, Reinsert(c, orders[n + 1]))
<1> DEFINE o == orders[n + 1]
           d == InsertOrder(c, o)
<1>0. Len(orders) \in Nat /\ n + 1 \in 1..Len(orders) /\ 1..n \subseteq 1..Len(orders)
  BY LenProperties DEF RowSound
<1>1. /\ o \in Order /\ o.price \in Prices /\ 0 <= o.filled /\ Remaining(o) > 0
      /\ o.status = IF o.filled = 0 THEN "Open" ELSE "PartiallyFilled"
  BY <1>0, ElementOfSeq DEF RowSound
<1>2. ~IsComplete(o) /\ ~InsertRejected(o)
  <2>1. o.quantity > 0 /\ ~(o.quantity <= 0)
    BY <1>1 DEF Order, Remaining
  <2> QED BY <1>1, <2>1, PriceAssumption DEF IsComplete, InsertRejected
<1>3. Reinsert(c, o) = d
  BY <1>2 DEF Reinsert
<1>4. /\ IsBook(c) /\ Core(c) /\ LiveOrdersOpen(c) /\ Uncrossed(c)
      /\ c.vacant = << >> /\ c.len = n /\ DOMAIN c.orders = 0..(n - 1)
      /\ \A i \in 1..n : c.orders[i - 1] = orders[i]
  BY DEF Rebuilt, BookSound
<1> HIDE DEF o
<1>5. Grown(c, o, d)
  BY <1>1, <1>4, InsertGrows
<1>6. SlabKey(c) = n
  BY <1>4 DEF SlabKey
<1>7. d.orders = Put(c.orders, n, o) /\ d.vacant = << >> /\ d.len = n + 1
  BY <1>4, <1>6 DEF InsertOrder, SlabInsert, BookOf
<1> HIDE DEF d
<1>8. /\ DOMAIN d.orders = DOMAIN c.orders \cup {n} /\ d.orders[n] = o
       /\ \A k \in DOMAIN c.orders : k # n => d.orders[k] = c.orders[k]
  BY <1>7 DEF Put
<1>9. DOMAIN c.orders = 0..(n - 1) /\ \A i \in 1..n : c.orders[i - 1] = orders[i]
  BY <1>4
<1>10. DOMAIN d.orders = 0..((n + 1) - 1)
  <2>1. 0..((n + 1) - 1) = (0..(n - 1)) \cup {n}
    OBVIOUS
  <2> QED BY <1>8, <1>9, <2>1
<1>11. \A i \in 1..(n + 1) : d.orders[i - 1] = orders[i]
  <2> SUFFICES ASSUME NEW i \in 1..(n + 1) PROVE d.orders[i - 1] = orders[i]
    OBVIOUS
  <2>1. CASE i = n + 1
    <3>1. i - 1 = n
      BY <2>1
    <3>2. d.orders[n] = o
      BY <1>8
    <3> QED BY <2>1, <3>1, <3>2 DEF o
  <2>2. CASE i # n + 1
    <3>1. i \in 1..n /\ i - 1 \in 0..(n - 1) /\ i - 1 # n
      BY <2>2
    <3>2. d.orders[i - 1] = c.orders[i - 1]
      BY <1>8, <1>9, <3>1
    <3> QED BY <1>9, <3>1, <3>2
  <2> QED BY <2>1, <2>2
<1>12. LiveOrdersOpen(d)
  <2>1. \A k \in DOMAIN d.orders : d.orders[k] = o \/ (k \in DOMAIN c.orders /\ d.orders[k] = c.orders[k])
    BY <1>5 DEF Grown
  <2>2. o.price # NoPrice
    BY <1>1, PriceAssumption
  <2> QED BY <1>1, <1>4, <2>1, <2>2 DEF LiveOrdersOpen
<1>13. \A k \in DOMAIN d.orders : k + 1 \in 1..Len(orders) /\ d.orders[k] = orders[k + 1]
  <2> SUFFICES ASSUME NEW k \in DOMAIN d.orders PROVE k + 1 \in 1..Len(orders) /\ d.orders[k] = orders[k + 1]
    OBVIOUS
  <2>1. k + 1 \in 1..(n + 1) /\ (k + 1) - 1 = k
    BY <1>10
  <2> QED BY <1>0, <1>11, <2>1
<1>14. Uncrossed(d)
  <2> SUFFICES ASSUME NEW p \in DOMAIN d.levels["Bid"], NEW q \in DOMAIN d.levels["Ask"] PROVE p < q
    BY DEF Uncrossed
  <2>1. IsBook(d) /\ Core(d)
    BY <1>5 DEF Grown
  <2>2. PICK k \in DOMAIN d.orders : d.orders[k].side = "Bid" /\ d.orders[k].price = p
    BY <2>1, LevelIffOrder DEF Side
  <2>3. PICK j \in DOMAIN d.orders : d.orders[j].side = "Ask" /\ d.orders[j].price = q
    BY <2>1, LevelIffOrder DEF Side
  <2> QED BY <1>13, <2>2, <2>3 DEF RowSound
<1>15. ASSUME \A i, j \in 1..Len(orders) : orders[i].id = orders[j].id => i = j
       PROVE  IndexSound(d)
  <2>1. IndexSound(c)
    BY <1>15 DEF Rebuilt
  <2>2. o.id \notin DOMAIN c.index
    <3> SUFFICES ASSUME o.id \in DOMAIN c.index PROVE FALSE
      OBVIOUS
    <3>1. PICK k \in DOMAIN c.orders : c.orders[k].id = o.id
      BY <2>1 DEF IndexSound
    <3>2. k \in 0..(n - 1)
      BY <1>4
    <3>3. k + 1 \in 1..n /\ (k + 1) - 1 = k /\ k + 1 # n + 1
      BY <3>2
    <3>4. c.orders[k] = orders[k + 1]
      BY <1>4, <3>3
    <3>5. orders[k + 1].id = orders[n + 1].id /\ k + 1 \in 1..Len(orders)
      BY <1>0, <3>1, <3>3, <3>4 DEF o
    <3> QED BY <1>0, <1>15, <3>3, <3>5
  <2> QED BY <1>5, <2>1, <2>2 DEF Grown
<1>16. BookSound(d)
  BY <1>5, <1>12, <1>14 DEF BookSound, Grown
<1>17. Rebuilt(orders, n + 1, d)
  BY <1>7, <1>10, <1>11, <1>15, <1>16 DEF Rebuilt
<1> QED BY <1>3, <1>17 DEF o

(* deserialize_book puts the orders into the slots from 0, in their order. *)
LEMMA DeserializeRebuilds ==
  ASSUME NEW orders, RowSound(orders)
  PROVE  Rebuilt(orders, Len(orders), DeserializeBook(orders))
<1>1. PICK f : /\ f[0] = EmptyBook
               /\ \A n \in Nat : f[n + 1] = Reinsert(f[n], orders[n + 1])
               /\ DeserializeBook(orders) = f[Len(orders)]
  BY Restored
<1>2. Len(orders) \in Nat
  BY LenProperties DEF RowSound
<1> DEFINE S == {n \in Nat : n <= Len(orders) => Rebuilt(orders, n, f[n])}
<1>3. 0 \in S
  <2>1. /\ BookSound(EmptyBook) /\ IndexSound(EmptyBook)
        /\ EmptyBook.vacant = << >> /\ EmptyBook.len = 0 /\ DOMAIN EmptyBook.orders = {}
    BY EmptyBookSound DEF EmptyBook, EmptyMap
  <2>2. 0..(0 - 1) = {} /\ \A i \in 1..0 : FALSE
    OBVIOUS
  <2>3. Rebuilt(orders, 0, EmptyBook)
    BY <2>1, <2>2 DEF Rebuilt
  <2> QED BY <1>1, <2>3
<1>4. ASSUME NEW n \in Nat, n \in S PROVE n + 1 \in S
  <2> SUFFICES ASSUME n + 1 <= Len(orders) PROVE Rebuilt(orders, n + 1, f[n + 1])
    OBVIOUS
  <2>1. Rebuilt(orders, n, f[n])
    BY <1>2, <1>4
  <2> QED BY <1>1, <2>1, ReinsertRebuilds
<1> HIDE DEF S
<1>5. Len(orders) \in S
  BY <1>2, <1>3, <1>4, NatInd
<1> QED BY <1>2, <1>1, <1>5 DEF S
-----------------------------------------------------------------------------
(* What a slot adds to a depth is a natural. *)
LEMMA OpenNat ==
  ASSUME NEW b, IsBook(b), LiveOrdersOpen(b), NEW s, NEW p
  PROVE  \A k \in Nat : Open(b, s, p)[k] \in Nat
<1>1. \A k \in DOMAIN b.orders : Remaining(b.orders[k]) \in Nat
  BY DEF LiveOrdersOpen, IsBook, IsMap, Order, Remaining
<1> QED BY <1>1 DEF Open

(* Depths are naturals. *)
LEMMA DepthNat ==
  ASSUME NEW b, IsBook(b), LiveOrdersOpen(b), NEW s, NEW p
  PROVE  Depth(b, s, p) \in Nat
<1>1. b.len \in Nat
  BY DEF IsBook
<1> QED BY <1>1, OpenNat, SumNat DEF Depth

(* A level exists exactly when there is something at its price. *)
LEMMA DepthPositive ==
  ASSUME NEW b, BookSound(b), NEW s \in Side, NEW p
  PROVE  Depth(b, s, p) > 0 <=> p \in DOMAIN b.levels[s]
<1> DEFINE w == Open(b, s, p)
<1>1. /\ IsBook(b) /\ Core(b) /\ LiveOrdersOpen(b) /\ b.len \in Nat
      /\ DOMAIN b.orders \subseteq Nat /\ \A k \in DOMAIN b.orders : k < b.len
  BY DEF BookSound, IsBook, IsMap, Core, SlabSound
<1>2. \A k \in Nat : w[k] \in Nat
  BY <1>1, OpenNat
<1>3. \A k \in Nat : w[k] = IF k \in DOMAIN b.orders /\ b.orders[k].side = s /\ b.orders[k].price = p
                            THEN Remaining(b.orders[k]) ELSE 0
  BY DEF Open
<1>4. \A k \in DOMAIN b.orders : Remaining(b.orders[k]) > 0
  BY <1>1 DEF LiveOrdersOpen
<1>5. Depth(b, s, p) = Sum(w, b.len) /\ Sum(w, b.len) \in Nat
  BY <1>1, <1>2, SumNat DEF Depth
<1> HIDE DEF w
<1>6. /\ \A k \in 0..(b.len - 1) : w[k] <= Sum(w, b.len)
      /\ Sum(w, b.len) > 0 => \E k \in 0..(b.len - 1) : w[k] > 0
  BY <1>1, <1>2, SumPositive
<1>7. ASSUME Depth(b, s, p) > 0 PROVE p \in DOMAIN b.levels[s]
  <2>1. PICK k \in 0..(b.len - 1) : w[k] > 0
    BY <1>5, <1>6, <1>7
  <2>2. k \in Nat
    BY <1>1, <2>1
  <2>3. k \in DOMAIN b.orders /\ b.orders[k].side = s /\ b.orders[k].price = p
    BY <1>3, <2>1, <2>2
  <2> QED BY <1>1, <2>3, LevelIffOrder
<1>8. ASSUME p \in DOMAIN b.levels[s] PROVE Depth(b, s, p) > 0
  <2>1. PICK k \in DOMAIN b.orders : b.orders[k].side = s /\ b.orders[k].price = p
    BY <1>1, <1>8, LevelIffOrder
  <2>2. k \in Nat /\ k \in 0..(b.len - 1)
    BY <1>1, <2>1
  <2>3. w[k] > 0 /\ w[k] \in Nat /\ w[k] <= Sum(w, b.len)
    BY <1>2, <1>3, <1>4, <1>6, <2>1, <2>2
  <2> QED BY <1>5, <2>3
<1> QED BY <1>7, <1>8

(* Taken out of the snapshot again, every level has the depth it had. *)
LEMMA RestoredDepth ==
  ASSUME NEW b, BookSound(b), NEW c, c = DeserializeBook(SerializeBook(b))
  PROVE  \A s, p : Depth(c, s, p) = Depth(b, s, p)
<1> DEFINE row == SerializeBook(b)
           D   == DOMAIN b.orders
           N   == Cardinality(D)
<1>1. /\ RowSound(row) /\ Len(row) = N
      /\ \A i \in 1..Len(row) : SlabNth(b, i) \in D /\ row[i] = b.orders[SlabNth(b, i)]
  BY SerializeSound
<1>2. Rebuilt(row, N, c)
  BY <1>1, DeserializeRebuilds
<1>3. /\ N \in Nat /\ D \subseteq Nat /\ N = Rank(D, b.len)
      /\ \A k \in D : Rank(D, k) + 1 \in 1..N /\ SlabNth(b, Rank(D, k) + 1) = k
  BY SlabIterates DEF BookSound, Core
<1>4. b.len \in Nat /\ \A k \in D : k < b.len
  BY DEF BookSound, IsBook, Core, SlabSound
<1> HIDE DEF row, D, N
<1> SUFFICES ASSUME NEW s, NEW p PROVE Depth(c, s, p) = Depth(b, s, p)
  OBVIOUS
<1> DEFINE w == Open(b, s, p)
           v == Open(c, s, p)
<1>5. \A k \in Nat : w[k] = IF k \in D /\ b.orders[k].side = s /\ b.orders[k].price = p
                            THEN Remaining(b.orders[k]) ELSE 0
  BY DEF Open, D
<1>6. \A k \in Nat : v[k] = IF k \in 0..(N - 1) /\ c.orders[k].side = s /\ c.orders[k].price = p
                            THEN Remaining(c.orders[k]) ELSE 0
  BY <1>2 DEF Open, Rebuilt
<1>7. \A k \in D : Rank(D, k) \in Nat /\ c.orders[Rank(D, k)] = b.orders[k] /\ Rank(D, k) \in 0..(N - 1)
  <2> SUFFICES ASSUME NEW k \in D
               PROVE  Rank(D, k) \in Nat /\ c.orders[Rank(D, k)] = b.orders[k] /\ Rank(D, k) \in 0..(N - 1)
    OBVIOUS
  <2> DEFINE r == Rank(D, k)
  <2>1. r \in Nat
    BY <1>3, RankStep
  <2>2. r + 1 \in 1..N /\ SlabNth(b, r + 1) = k
    BY <1>3
  <2> HIDE DEF r
  <2>3. r \in 0..(N - 1) /\ (r + 1) - 1 = r
    BY <1>3, <2>1, <2>2
  <2>4. c.orders[(r + 1) - 1] = row[r + 1]
    BY <1>2, <2>2 DEF Rebuilt
  <2>5. row[r + 1] = b.orders[k]
    BY <1>1, <2>2
  <2> QED BY <2>1, <2>3, <2>4, <2>5 DEF r
<1> HIDE DEF w, v
<1> DEFINE S == {m \in Nat : Sum(w, m) = Sum(v, Rank(D, m))}
<1>8. 0 \in S
  BY <1>3, RankStep, SumSteps
<1>9. ASSUME NEW m \in Nat, m \in S PROVE m + 1 \in S
  <2>1. /\ Rank(D, m) \in Nat
        /\ Rank(D, m + 1) = IF m \in D THEN Rank(D, m) + 1 ELSE Rank(D, m)
    BY <1>3, RankStep
  <2>2. Sum(w, m + 1) = Sum(w, m) + w[m]
    BY SumSteps
  <2>3. CASE m \notin D
    <3>1. w[m] = 0 /\ Rank(D, m + 1) = Rank(D, m)
      BY <1>5, <2>1, <2>3
    <3>2. Sum(w, m) \in Nat
      <4>1. \A k \in Nat : w[k] \in Nat
        BY OpenNat DEF w, BookSound
      <4> QED BY <4>1, SumNat
    <3>3. Sum(w, m + 1) = Sum(w, m)
      BY <2>2, <3>1, <3>2
    <3> QED BY <1>9, <3>1, <3>3
  <2>4. CASE m \in D
    <3>1. Rank(D, m + 1) = Rank(D, m) + 1
      BY <2>1, <2>4
    <3>2. v[Rank(D, m)] = w[m]
      BY <1>5, <1>6, <1>7, <2>1, <2>4
    <3>3. Sum(v, Rank(D, m) + 1) = Sum(v, Rank(D, m)) + v[Rank(D, m)]
      BY <2>1, SumSteps
    <3>4. Sum(w, m) = Sum(v, Rank(D, m))
      BY <1>9
    <3> QED BY <2>2, <3>1, <3>2, <3>3, <3>4
  <2> QED BY <2>3, <2>4
<1> HIDE DEF S
<1>10. b.len \in S
  BY <1>4, <1>8, <1>9, NatInd
<1>11. Sum(w, b.len) = Sum(v, N)
  BY <1>3, <1>10 DEF S
<1>12. c.len = N
  BY <1>2 DEF Rebuilt
<1> QED BY <1>11, <1>12 DEF Depth, w, v

(* A fill takes its quantity from the level of the maker and from no other. *)
LEMMA FillDepth ==
  ASSUME NEW b, BookSound(b), NEW c, BookSound(c), NEW key, NEW qty \in Nat,
         b.orders[key] \in Order, qty <= Remaining(b.orders[key]),
         OneFilled(b, key, Filled(b.orders[key], qty), c)
  PROVE  \A s, p : Depth(c, s, p) = Depth(b, s, p)
                     - (IF s = b.orders[key].side /\ p = b.orders[key].price THEN qty ELSE 0)
<1> DEFINE o == b.orders[key]
           m == Filled(o, qty)
<1>1. /\ IsBook(b) /\ LiveOrdersOpen(b) /\ IsBook(c) /\ LiveOrdersOpen(c)
      /\ b.len \in Nat /\ key \in DOMAIN b.orders /\ key \in Nat /\ key \in 0..(b.len - 1)
      /\ c.len = b.len
  <2>1. key \in DOMAIN b.orders /\ c.len = b.len
    BY DEF OneFilled
  <2>2. b.len \in Nat /\ key \in Nat /\ key < b.len
    BY <2>1 DEF BookSound, IsBook, IsMap, Core, SlabSound
  <2> QED BY <2>1, <2>2 DEF BookSound
<1>2. /\ m.side = o.side /\ m.price = o.price /\ m.quantity = o.quantity
      /\ m.filled = o.filled + qty
  BY FilledFields
<1>3. /\ Remaining(o) \in Nat /\ Remaining(o) = o.quantity - o.filled
      /\ o.quantity \in Int /\ o.filled \in Int
  BY <1>1 DEF LiveOrdersOpen, Order, Remaining
<1> HIDE DEF o, m
<1>4. Remaining(m) = Remaining(o) - qty
  <2>1. Remaining(m) = o.quantity - (o.filled + qty)
    BY <1>2 DEF Remaining
  <2> QED BY <1>3, <2>1
<1>5. /\ qty <= Remaining(o)
      /\ \A k \in DOMAIN b.orders : k # key => k \in DOMAIN c.orders /\ c.orders[k] = b.orders[k]
      /\ Remaining(m) <= 0 => DOMAIN c.orders = DOMAIN b.orders \ {key}
      /\ ~(Remaining(m) <= 0) => DOMAIN c.orders = DOMAIN b.orders /\ c.orders[key] = m
  BY DEF OneFilled, o, m
<1> SUFFICES ASSUME NEW s, NEW p
             PROVE  Depth(c, s, p) = Depth(b, s, p)
                      - (IF s = o.side /\ p = o.price THEN qty ELSE 0)
  BY DEF o
<1> DEFINE w == Open(b, s, p)
           v == Open(c, s, p)
           x == IF s = o.side /\ p = o.price THEN qty ELSE 0
<1>6. \A k \in Nat : w[k] \in Nat /\ v[k] \in Nat
  BY <1>1, OpenNat
<1>7. /\ \A k \in Nat : w[k] = IF k \in DOMAIN b.orders /\ b.orders[k].side = s /\ b.orders[k].price = p
                               THEN Remaining(b.orders[k]) ELSE 0
      /\ \A k \in Nat : v[k] = IF k \in DOMAIN c.orders /\ c.orders[k].side = s /\ c.orders[k].price = p
                               THEN Remaining(c.orders[k]) ELSE 0
  BY DEF Open
<1>8. Depth(b, s, p) = Sum(w, b.len) /\ Depth(c, s, p) = Sum(v, b.len)
  BY <1>1 DEF Depth
<1> HIDE DEF w, v
<1>9. \A j \in 0..(b.len - 1) : j # key => w[j] = v[j]
  <2> SUFFICES ASSUME NEW j \in 0..(b.len - 1), j # key PROVE w[j] = v[j]
    OBVIOUS
  <2>1. j \in Nat
    BY <1>1
  <2>2. j \in DOMAIN c.orders <=> j \in DOMAIN b.orders
    BY <1>5
  <2> QED BY <1>5, <1>7, <2>1, <2>2
<1>10. v[key] = w[key] - x
  <2>1. w[key] = IF s = o.side /\ p = o.price THEN Remaining(o) ELSE 0
    BY <1>1, <1>7 DEF o
  <2>2. v[key] = IF s = o.side /\ p = o.price THEN Remaining(o) - qty ELSE 0
    <3>1. CASE Remaining(m) <= 0
      <4>1. v[key] = 0
        BY <1>1, <1>5, <1>7, <3>1
      <4>2. Remaining(o) - qty = 0
        BY <1>3, <1>4, <1>5, <3>1
      <4> QED BY <4>1, <4>2
    <3>2. CASE ~(Remaining(m) <= 0)
      BY <1>1, <1>2, <1>4, <1>5, <1>7, <3>2
    <3> QED BY <3>1, <3>2
  <2> QED BY <1>3, <2>1, <2>2
<1>11. Sum(w, b.len) + v[key] = Sum(v, b.len) + w[key]
  <2>1. DifferAt(w, v, b.len, key)
    BY <1>1, <1>6, <1>9 DEF DifferAt
  <2> QED BY <2>1, SumChange
<1>12. Sum(w, b.len) \in Nat /\ Sum(v, b.len) \in Nat /\ w[key] \in Nat /\ v[key] \in Nat /\ x \in Nat
  BY <1>1, <1>6, SumNat
<1> HIDE DEF x
<1>13. Sum(v, b.len) = Sum(w, b.len) - x
  BY <1>10, <1>11, <1>12
<1> QED BY <1>8, <1>13 DEF x

(* An insertion adds what is left of the order to its level. *)
LEMMA InsertDepth ==
  ASSUME NEW b, BookSound(b), NEW o \in Order, Remaining(o) > 0,
         NEW c, c = InsertOrder(b, o), BookSound(c)
  PROVE  \A s, p : Depth(c, s, p) = Depth(b, s, p)
                     + (IF s = o.side /\ p = o.price THEN Remaining(o) ELSE 0)
<1> DEFINE key == SlabKey(b)
<1>1. /\ IsBook(b) /\ LiveOrdersOpen(b) /\ IsBook(c) /\ LiveOrdersOpen(c) /\ SlabSound(b)
      /\ b.len \in Nat /\ DOMAIN b.orders \subseteq Nat
  BY DEF BookSound, Core, IsBook, IsMap
<1>2. key \in Nat /\ key \notin DOMAIN b.orders
  BY <1>1, SlabKeyFresh
<1>3. /\ c.orders = Put(b.orders, key, o)
      /\ c.len = IF b.vacant = << >> THEN b.len + 1 ELSE b.len
  BY DEF InsertOrder, SlabInsert, BookOf
<1>4. key = IF b.vacant = << >> THEN b.len ELSE Head(b.vacant)
  BY DEF SlabKey
<1>5. b.vacant # << >> => key \in 0..(b.len - 1)
  <2> SUFFICES ASSUME b.vacant # << >> PROVE key \in 0..(b.len - 1)
    OBVIOUS
  <2>1. 1 \in 1..Len(b.vacant) /\ Head(b.vacant) = b.vacant[1]
    BY <1>1 DEF IsBook
  <2>2. key < b.len
    BY <1>1, <1>4, <2>1 DEF SlabSound
  <2> QED BY <1>1, <1>2, <2>2
<1> HIDE DEF key
<1>6. /\ DOMAIN c.orders = DOMAIN b.orders \cup {key} /\ c.orders[key] = o
      /\ \A k \in DOMAIN b.orders : k # key => c.orders[k] = b.orders[k]
  BY <1>3 DEF Put
<1> SUFFICES ASSUME NEW s, NEW p
             PROVE  Depth(c, s, p) = Depth(b, s, p)
                      + (IF s = o.side /\ p = o.price THEN Remaining(o) ELSE 0)
  OBVIOUS
<1> DEFINE w == Open(b, s, p)
           v == Open(c, s, p)
           x == IF s = o.side /\ p = o.price THEN Remaining(o) ELSE 0
<1>7. \A k \in Nat : w[k] \in Nat /\ v[k] \in Nat
  BY <1>1, OpenNat
<1>8. /\ \A k \in Nat : w[k] = IF k \in DOMAIN b.orders /\ b.orders[k].side = s /\ b.orders[k].price = p
                               THEN Remaining(b.orders[k]) ELSE 0
      /\ \A k \in Nat : v[k] = IF k \in DOMAIN c.orders /\ c.orders[k].side = s /\ c.orders[k].price = p
                               THEN Remaining(c.orders[k]) ELSE 0
  BY DEF Open
<1>9. Depth(b, s, p) = Sum(w, b.len) /\ Depth(c, s, p) = Sum(v, c.len)
  BY DEF Depth
<1> HIDE DEF w, v
<1>10. \A j \in Nat : j # key => w[j] = v[j]
  BY <1>6, <1>8
<1>11. v[key] = x /\ w[key] = 0 /\ x \in Nat
  BY <1>2, <1>6, <1>7, <1>8
<1> HIDE DEF x
<1>12. CASE b.vacant = << >>
  <2>1. key = b.len /\ c.len = b.len + 1
    BY <1>3, <1>4, <1>12
  <2>2. \A j \in 0..(b.len - 1) : w[j] = v[j]
    <3> SUFFICES ASSUME NEW j \in 0..(b.len - 1) PROVE w[j] = v[j]
      OBVIOUS
    <3>1. j \in Nat /\ j # key
      BY <1>1, <2>1
    <3> QED BY <1>10, <3>1
  <2>3. Sum(w, b.len) = Sum(v, b.len)
    BY <1>1, <2>2, SumSame
  <2>4. Sum(v, b.len + 1) = Sum(v, b.len) + v[b.len]
    BY <1>1, SumSteps
  <2> QED BY <1>9, <1>11, <2>1, <2>3, <2>4 DEF x
<1>13. CASE b.vacant # << >>
  <2>1. c.len = b.len /\ key \in 0..(b.len - 1)
    BY <1>3, <1>5, <1>13
  <2>2. \A j \in 0..(b.len - 1) : j # key => w[j] = v[j]
    <3>1. \A j \in 0..(b.len - 1) : j \in Nat
      BY <1>1
    <3> QED BY <1>10, <3>1
  <2>3. Sum(w, b.len) + v[key] = Sum(v, b.len) + w[key]
    <3>1. DifferAt(w, v, b.len, key)
      BY <1>1, <1>7, <2>1, <2>2 DEF DifferAt
    <3> QED BY <3>1, SumChange
  <2>4. Sum(w, b.len) \in Nat /\ Sum(v, b.len) \in Nat
    BY <1>1, <1>7, SumNat
  <2>5. Sum(v, b.len) = Sum(w, b.len) + x
    BY <1>11, <2>3, <2>4
  <2> QED BY <1>9, <2>1, <2>5 DEF x
<1> QED BY <1>12, <1>13
-----------------------------------------------------------------------------
(* There is one best price. *)
LEMMA TopUnique ==
  ASSUME NEW side, NEW D, NEW p, IsTop(side, D, p)
  PROVE  (CHOOSE q : IsTop(side, D, q)) = p
<1>1. ASSUME NEW q, IsTop(side, D, q) PROVE q = p
  <2>1. p \in Int /\ q \in Int /\ D[p] > 0 /\ D[q] > 0 /\ p \in Prices /\ q \in Prices
    BY <1>1, PriceAssumption DEF IsTop
  <2>2. IF side = "Bid" THEN q <= p ELSE p <= q
    BY <2>1 DEF IsTop
  <2>3. IF side = "Bid" THEN p <= q ELSE q <= p
    BY <1>1, <2>1 DEF IsTop
  <2> QED BY <2>1, <2>2, <2>3
<1> QED BY <1>1

(* As long as the best level lasts, the units come from it. *)
LEMMA TakeMany ==
  ASSUME NEW side, NEW g, \A n \in Nat : g[n + 1] = TakeUnit(side, g[n]),
         NEW t \in Nat, g[t] \in [Prices -> Nat], NEW p, IsTop(side, g[t], p),
         NEW qty \in Nat, qty <= g[t][p]
  PROVE  /\ g[t + qty] = [g[t] EXCEPT ![p] = @ - qty]
         /\ \A i \in 0..(qty - 1) : IsTop(side, g[t + i], p)
<1> DEFINE D == g[t]
           S == {i \in Nat : i <= qty => /\ g[t + i] = [D EXCEPT ![p] = @ - i]
                                         /\ \A j \in 0..(i - 1) : IsTop(side, g[t + j], p)}
<1>0. D \in [Prices -> Nat] /\ IsTop(side, D, p) /\ p \in Prices /\ D[p] \in Nat /\ qty <= D[p]
  BY DEF IsTop
<1>1. 0 \in S
  <2>1. t + 0 = t /\ \A j \in 0..(0 - 1) : FALSE
    OBVIOUS
  <2>2. D = [D EXCEPT ![p] = @ - 0]
    BY <1>0
  <2> QED BY <2>1, <2>2
<1>2. ASSUME NEW i \in Nat, i \in S PROVE i + 1 \in S
  <2> SUFFICES ASSUME i + 1 <= qty
               PROVE  /\ g[t + (i + 1)] = [D EXCEPT ![p] = @ - (i + 1)]
                      /\ \A j \in 0..((i + 1) - 1) : IsTop(side, g[t + j], p)
    OBVIOUS
  <2> DEFINE E == g[t + i]
  <2>1. E = [D EXCEPT ![p] = @ - i] /\ \A j \in 0..(i - 1) : IsTop(side, g[t + j], p)
    BY <1>2
  <2>2. g[(t + i) + 1] = TakeUnit(side, E) /\ (t + i) + 1 = t + (i + 1)
    <3>1. t + i \in Nat /\ (t + i) + 1 = t + (i + 1)
      OBVIOUS
    <3> QED BY <3>1
  <2> HIDE DEF E, D
  <2>3. DOMAIN E = Prices /\ E[p] = D[p] - i /\ \A q \in Prices : q # p => E[q] = D[q]
    BY <1>0, <2>1
  <2>4. E[p] > 0
    BY <1>0, <2>3
  <2>5. IsTop(side, E, p)
    <3>1. \A q \in Prices : E[q] > 0 => D[q] > 0
      BY <1>0, <2>3, <2>4
    <3> QED BY <1>0, <2>4, <3>1 DEF IsTop
  <2>6. TakeUnit(side, E) = [E EXCEPT ![p] = @ - 1]
    BY <2>5, TopUnique DEF TakeUnit
  <2>7. [E EXCEPT ![p] = @ - 1] = [D EXCEPT ![p] = @ - (i + 1)]
    <3>1. E[p] - 1 = D[p] - (i + 1)
      BY <1>0, <2>3
    <3> QED BY <1>0, <2>1, <3>1
  <2>8. ASSUME NEW j \in 0..((i + 1) - 1) PROVE IsTop(side, g[t + j], p)
    <3>1. j = i \/ j \in 0..(i - 1)
      OBVIOUS
    <3> QED BY <2>1, <2>5, <3>1 DEF E
  <2> QED BY <2>2, <2>6, <2>7, <2>8
<1> HIDE DEF S
<1>3. qty \in S
  BY <1>1, <1>2, NatInd
<1>4. qty <= qty => /\ g[t + qty] = [D EXCEPT ![p] = @ - qty]
                    /\ \A j \in 0..(qty - 1) : IsTop(side, g[t + j], p)
  <2> HIDE DEF D
  <2> QED BY <1>3 DEF S
<1>5. qty <= qty
  OBVIOUS
<1> QED BY <1>4, <1>5

(* The depths of a side. *)
Profile(b, s) == [p \in Prices |-> Depth(b, s, p)]

(* Best, which reads the ordered map of levels, is a matter of the depth alone. *)
LEMMA BestIsTop ==
  ASSUME NEW b, BookSound(b), NEW s \in Side
  PROVE  /\ Profile(b, s) \in [Prices -> Nat]
         /\ HasBest(b, s) => IsTop(s, Profile(b, s), Best(b, s))
         /\ \A p : IsTop(s, Profile(b, s), p) => HasBest(b, s) /\ p = Best(b, s)
<1> DEFINE D == Profile(b, s)
<1>1. IsBook(b) /\ LiveOrdersOpen(b) /\ DOMAIN b.levels[s] \subseteq Prices
  BY DEF BookSound, IsBook, IsMap
<1>2. D \in [Prices -> Nat]
  BY <1>1, DepthNat DEF Profile
<1>3. \A p \in Prices : D[p] > 0 <=> p \in DOMAIN b.levels[s]
  BY DepthPositive DEF Profile
<1> HIDE DEF D
<1>4. ASSUME HasBest(b, s) PROVE IsTop(s, D, Best(b, s))
  <2>1. /\ Best(b, s) \in DOMAIN b.levels[s]
        /\ \A q \in DOMAIN b.levels[s] : IF s = "Bid" THEN q <= Best(b, s) ELSE Best(b, s) <= q
    BY <1>1, <1>4, BestIsBest
  <2> QED BY <1>1, <1>3, <2>1 DEF IsTop
<1>5. ASSUME NEW p, IsTop(s, D, p) PROVE HasBest(b, s) /\ p = Best(b, s)
  <2>1. p \in DOMAIN b.levels[s]
    BY <1>3, <1>5 DEF IsTop
  <2>2. HasBest(b, s)
    BY <2>1 DEF HasBest
  <2>3. IsTop(s, D, Best(b, s))
    BY <1>4, <2>2
  <2> QED BY <1>5, <2>2, <2>3, TopUnique
<1> QED BY <1>2, <1>4, <1>5 DEF D

(* A call of process_order as so many units taken from the opposite side: g is what
   is left of that side after so many. *)
Consumes(b, o, g, c) ==
  /\ Profile(c.book, Opposite(o.side)) = g[c.taker.filled]
  /\ \A t \in 0..(c.taker.filled - 1) :
       \E p : IsTop(Opposite(o.side), g[t], p) /\ Crosses(o, p)
  /\ \A p \in Prices : Depth(c.book, o.side, p) = Depth(b, o.side, p)

(* One iteration of the matching loop takes its quantity from the best price. *)
LEMMA RoundConsumes ==
  ASSUME NEW b, BookSound(b), NEW o, Arriving(o), NEW c, InCall(b, o, c),
         Matches(c.book, c.taker), NEW g,
         \A n \in Nat : g[n + 1] = TakeUnit(Opposite(o.side), g[n]), Consumes(b, o, g, c)
  PROVE  Consumes(b, o, g, FillStep(c))
<1> DEFINE d   == FillStep(c)
           s   == Opposite(o.side)
           t   == c.taker.filled
           qty == Qty(c)
           key == Key(c)
           p   == Best(c.book, s)
           m   == c.book.orders[key]
<1>1. InCall(b, o, d) /\ OneRound(c, d)
  BY FillStepFacts
<1> HIDE DEF d
<1>2. /\ c.taker.side = o.side /\ c.taker.order_type = o.order_type /\ c.taker.price = o.price
      /\ t \in Nat
  BY DEF InCall, Progress, Order
<1>3. /\ s \in Side /\ HasBest(c.book, s) /\ s # o.side
      /\ m \in Order /\ m.side = s /\ m.price = p
      /\ qty \in Nat \ {0} /\ qty <= Remaining(m)
      /\ d.taker.filled = t + qty
      /\ OneFilled(c.book, key, Filled(m, qty), d.book)
  BY <1>1, <1>2 DEF OneRound
<1>4. BookSound(c.book) /\ BookSound(d.book)
  BY <1>1, WornKeeps DEF InCall, Worn, BookSound
<1> DEFINE D == Profile(c.book, s)
<1>5. D = g[t] /\ D \in [Prices -> Nat] /\ IsTop(s, D, p) /\ p \in Prices
  <2>1. D \in [Prices -> Nat] /\ IsTop(s, D, p)
    BY <1>3, <1>4, BestIsTop
  <2> QED BY <2>1 DEF IsTop, Consumes
<1>6. Crosses(o, p)
  BY <1>2 DEF Matches, Crosses, LimitPrice
<1> HIDE DEF s, qty, key, p, m, t
<1>7. \A r, q : Depth(d.book, r, q) = Depth(c.book, r, q) - (IF r = s /\ q = p THEN qty ELSE 0)
  BY <1>3, <1>4, FillDepth DEF m
<1>8. qty <= D[p]
  <2>1. D[p] = Depth(c.book, s, p) /\ D[p] \in Nat
    BY <1>5 DEF Profile
  <2>2. Depth(d.book, s, p) = D[p] - qty
    BY <1>7, <2>1
  <2>3. Depth(d.book, s, p) \in Nat
    BY <1>4, DepthNat DEF BookSound
  <2> QED BY <1>3, <2>1, <2>2, <2>3
<1>9. /\ g[t + qty] = [g[t] EXCEPT ![p] = @ - qty]
      /\ \A i \in 0..(qty - 1) : IsTop(s, g[t + i], p)
  <2>1. /\ \A n \in Nat : g[n + 1] = TakeUnit(s, g[n])
        /\ g[t] \in [Prices -> Nat] /\ IsTop(s, g[t], p) /\ qty \in Nat /\ qty <= g[t][p]
    BY <1>3, <1>5, <1>8 DEF s
  <2> HIDE DEF D
  <2> QED BY <1>2, <2>1, TakeMany
<1>10. Profile(d.book, s) = g[d.taker.filled]
  <2>1. \A q \in Prices : D[q] \in Nat /\ D[q] = Depth(c.book, s, q)
    BY <1>5 DEF Profile
  <2>2. \A q \in Prices : Depth(d.book, s, q) = IF q = p THEN D[p] - qty ELSE D[q]
    BY <1>3, <1>7, <2>1
  <2>3. Profile(d.book, s) = [q \in Prices |-> IF q = p THEN D[p] - qty ELSE D[q]]
    BY <2>2 DEF Profile
  <2>4. [D EXCEPT ![p] = @ - qty] = [q \in Prices |-> IF q = p THEN D[p] - qty ELSE D[q]]
    BY <1>5
  <2> QED BY <1>3, <1>5, <1>9, <2>3, <2>4
<1>11. \A u \in 0..(d.taker.filled - 1) : \E q : IsTop(s, g[u], q) /\ Crosses(o, q)
  <2> SUFFICES ASSUME NEW u \in 0..((t + qty) - 1) PROVE \E q : IsTop(s, g[u], q) /\ Crosses(o, q)
    BY <1>3
  <2>1. CASE u \in 0..(t - 1)
    BY <2>1 DEF Consumes, s, t
  <2>2. CASE u \notin 0..(t - 1)
    <3>1. u - t \in 0..(qty - 1) /\ t + (u - t) = u
      BY <1>2, <1>3, <2>2
    <3>2. IsTop(s, g[u], p)
      BY <1>9, <3>1
    <3> QED BY <1>6, <3>2
  <2> QED BY <2>1, <2>2
<1>12. \A q \in Prices : Depth(d.book, o.side, q) = Depth(b, o.side, q)
  <2> SUFFICES ASSUME NEW q \in Prices PROVE Depth(d.book, o.side, q) = Depth(b, o.side, q)
    OBVIOUS
  <2>1. Depth(c.book, o.side, q) = Depth(b, o.side, q) /\ Depth(c.book, o.side, q) \in Nat
    BY <1>4, DepthNat DEF BookSound, Consumes
  <2>2. Depth(d.book, o.side, q) = Depth(c.book, o.side, q) - 0
    BY <1>3, <1>7
  <2> QED BY <2>1, <2>2
<1>13. Consumes(b, o, g, d)
  BY <1>10, <1>11, <1>12 DEF Consumes, s
<1> QED BY <1>13 DEF d
-----------------------------------------------------------------------------
(* A whole call: the units up to what the taker has filled, all at prices that cross. *)
LEMMA CallConsumes ==
  ASSUME NEW b, BookSound(b), NEW o, Arriving(o), NEW seq \in Nat, NEW g,
         g[0] = Profile(b, Opposite(o.side)),
         \A n \in Nat : g[n + 1] = TakeUnit(Opposite(o.side), g[n])
  PROVE  \E z : /\ InCall(b, o, z) /\ ~Matches(z.book, z.taker) /\ Consumes(b, o, g, z)
                /\ ProcessOrder(b, o, seq) = FinishCall(z)
<1>1. ~(o.quantity <= 0)
  BY DEF Arriving, Order
<1>2. PICK f : CallRounds(b, o, seq, f)
  BY <1>1, Rounds
<1>3. /\ f[0] = [book |-> b, taker |-> o, sequence |-> seq, fills |-> << >>]
      /\ \A n \in Nat : f[n + 1] = FillStep(f[n])
      /\ ProcessOrder(b, o, seq) = FinishCall(f[Cardinality(DOMAIN b.orders)])
  BY <1>2 DEF CallRounds
<1> DEFINE N == Cardinality(DOMAIN b.orders)
<1>4. (\A n \in Nat : InCall(b, o, f[n])) /\ N \in Nat /\ ~Matches(f[N].book, f[N].taker)
  BY <1>3, RoundsEnd
<1> HIDE DEF N
<1> DEFINE S == {n \in Nat : Consumes(b, o, g, f[n])}
<1>5. 0 \in S
  <2>1. f[0].book = b /\ f[0].taker = o /\ o.filled = 0
    BY <1>3 DEF Arriving
  <2>2. \A t \in 0..(0 - 1) : FALSE
    OBVIOUS
  <2>3. Consumes(b, o, g, f[0])
    BY <2>1, <2>2 DEF Consumes
  <2> QED BY <2>3
<1>6. ASSUME NEW n \in Nat, n \in S PROVE n + 1 \in S
  <2> DEFINE c == f[n]
  <2>1. InCall(b, o, c) /\ Consumes(b, o, g, c) /\ f[n + 1] = FillStep(c)
    BY <1>3, <1>4, <1>6
  <2> HIDE DEF c
  <2>2. Consumes(b, o, g, FillStep(c))
    <3>1. CASE Matches(c.book, c.taker)
      BY <2>1, <3>1, RoundConsumes
    <3>2. CASE ~Matches(c.book, c.taker)
      BY <2>1, <3>2 DEF FillStep
    <3> QED BY <3>1, <3>2
  <2> QED BY <2>1, <2>2
<1> HIDE DEF S
<1>7. N \in S
  BY <1>4, <1>5, <1>6, NatInd
<1> QED BY <1>3, <1>4, <1>7 DEF S, N

(* Orders that differ in id and sequence at most. *)
Alike(o, u) ==
  /\ o.side = u.side /\ o.order_type = u.order_type /\ o.price = u.price
  /\ o.quantity = u.quantity

(* Of two calls with such orders on books of the same depth, neither stops before
   the other. *)
LEMMA StopsNoEarlier ==
  ASSUME NEW b, BookSound(b), NEW c, BookSound(c), NEW o, Arriving(o), NEW u, Arriving(u),
         Alike(o, u), NEW g, NEW y, InCall(b, o, y), ~Matches(y.book, y.taker),
         Consumes(b, o, g, y), NEW z, InCall(c, u, z), Consumes(c, u, g, z)
  PROVE  z.taker.filled <= y.taker.filled
<1> DEFINE s == Opposite(o.side)
           t == y.taker.filled
<1>1. /\ t \in Nat /\ z.taker.filled \in Nat
      /\ y.taker.quantity = o.quantity /\ z.taker.quantity = o.quantity
      /\ z.taker.filled <= z.taker.quantity
      /\ o.quantity \in Int
      /\ y.taker.side = o.side /\ y.taker.order_type = o.order_type /\ y.taker.price = o.price
  BY DEF InCall, Progress, Order, Alike, Arriving
<1> SUFFICES ASSUME t < z.taker.filled PROVE FALSE
  BY <1>1
<1>2. t \in 0..(z.taker.filled - 1)
  BY <1>1
<1>3. PICK p : IsTop(s, g[t], p) /\ Crosses(u, p)
  BY <1>2 DEF Consumes, Alike
<1>4. Profile(y.book, s) = g[t]
  BY DEF Consumes
<1>5. s \in Side
  BY DEF Opposite, Side
<1>6. BookSound(y.book)
  BY WornKeeps DEF InCall, Worn, BookSound
<1>7. HasBest(y.book, s) /\ p = Best(y.book, s)
  BY <1>3, <1>4, <1>5, <1>6, BestIsTop
<1>8. Crosses(y.taker, p)
  BY <1>1, <1>3 DEF Crosses, LimitPrice, Alike
<1>9. Remaining(y.taker) > 0
  BY <1>1 DEF Remaining
<1> QED BY <1>1, <1>7, <1>8, <1>9 DEF Matches

(* The depth of a book after a call of process_order. *)
LEMMA FinishDepth ==
  ASSUME NEW b, BookSound(b), NEW o, Arriving(o), NEW z, InCall(b, o, z),
         ~Matches(z.book, z.taker), NEW g, Consumes(b, o, g, z), NEW p \in Prices
  PROVE  /\ Depth(FinishCall(z).book, Opposite(o.side), p) = g[z.taker.filled][p]
         /\ Depth(FinishCall(z).book, o.side, p) = Depth(b, o.side, p)
              + (IF /\ o.order_type = "Limit" /\ o.quantity - z.taker.filled > 0
                    /\ p = o.price
                 THEN o.quantity - z.taker.filled ELSE 0)
<1> DEFINE s == Opposite(o.side)
           t == z.taker
           d == FinishCall(z).book
           rest == o.quantity - t.filled
<1>1. /\ t \in Order /\ t.side = o.side /\ t.price = o.price /\ t.order_type = o.order_type
      /\ t.quantity = o.quantity /\ Remaining(t) = rest
  BY DEF InCall, Progress, Remaining
<1>2. s \in Side /\ s # o.side
  BY DEF Opposite, Side, Arriving, Order
<1>3. BookSound(z.book) /\ BookSound(d)
  BY FinishSound, WornKeeps DEF InCall, Worn, BookSound, Gained
<1>4. d = IF Rests(z) THEN InsertOrder(z.book, t) ELSE z.book
  BY FinishFields DEF InCall
<1>5. Rests(z) <=> o.order_type = "Limit" /\ rest > 0
  BY <1>1 DEF Rests
<1>6. /\ Depth(z.book, s, p) = g[t.filled][p]
      /\ Depth(z.book, o.side, p) = Depth(b, o.side, p)
      /\ Depth(z.book, s, p) \in Nat /\ Depth(b, o.side, p) \in Nat
  <2>1. Depth(z.book, s, p) = Profile(z.book, s)[p]
    BY DEF Profile
  <2> QED BY <1>3, <2>1, DepthNat DEF Consumes, BookSound
<1> HIDE DEF d, s, rest
<1>7. CASE ~Rests(z)
  <2>1. d = z.book
    BY <1>4, <1>7
  <2> QED BY <1>5, <1>6, <1>7, <2>1 DEF d, s, rest
<1>8. CASE Rests(z)
  <2>1. d = InsertOrder(z.book, t) /\ rest > 0
    BY <1>4, <1>5, <1>8
  <2>2. \A r, q : Depth(d, r, q) = Depth(z.book, r, q)
                     + (IF r = t.side /\ q = t.price THEN Remaining(t) ELSE 0)
    BY <1>1, <1>3, <2>1, InsertDepth
  <2>3. Depth(d, s, p) = Depth(z.book, s, p)
    <3>1. Depth(d, s, p) = Depth(z.book, s, p) + 0
      BY <1>1, <1>2, <2>2
    <3> QED BY <1>6, <3>1
  <2>4. Depth(d, o.side, p) = Depth(b, o.side, p) + (IF p = o.price THEN rest ELSE 0)
    BY <1>1, <1>6, <2>2
  <2> QED BY <1>5, <1>6, <1>8, <2>3, <2>4 DEF d, s, rest
<1> QED BY <1>7, <1>8

(* process_order's effect on the depth is a matter of the depth alone. *)
LEMMA ProcessDepth ==
  ASSUME NEW b, BookSound(b), NEW c, BookSound(c), SameDepth(b, c),
         NEW o, Arriving(o), NEW u, Arriving(u), Alike(o, u),
         NEW m \in Nat, NEW n \in Nat
  PROVE  SameDepth(ProcessOrder(b, o, m).book, ProcessOrder(c, u, n).book)
<1> DEFINE s == Opposite(o.side)
<1>1. s \in Side /\ o.side \in Side /\ Side = {o.side, s} /\ Opposite(u.side) = s /\ u.side = o.side
  BY DEF Opposite, Side, Arriving, Order, Alike
<1>2. Profile(b, s) = Profile(c, s)
  BY <1>1 DEF Profile, SameDepth
<1>3. PICK g : Taking(s, Profile(b, s), g)
  BY TakeSteps
<1>4. g[0] = Profile(b, s) /\ \A i \in Nat : g[i + 1] = TakeUnit(s, g[i])
  BY <1>3 DEF Taking
<1>5. PICK y : /\ InCall(b, o, y) /\ ~Matches(y.book, y.taker) /\ Consumes(b, o, g, y)
               /\ ProcessOrder(b, o, m) = FinishCall(y)
  BY <1>4, CallConsumes
<1>6. PICK z : /\ InCall(c, u, z) /\ ~Matches(z.book, z.taker) /\ Consumes(c, u, g, z)
               /\ ProcessOrder(c, u, n) = FinishCall(z)
  <2>1. g[0] = Profile(c, Opposite(u.side)) /\ \A i \in Nat : g[i + 1] = TakeUnit(Opposite(u.side), g[i])
    BY <1>1, <1>2, <1>4
  <2> HIDE DEF s
  <2> QED BY <2>1, CallConsumes
<1> HIDE DEF s
<1>7. y.taker.filled = z.taker.filled
  <2>1. y.taker.filled <= z.taker.filled
    <3>1. Alike(u, o)
      BY DEF Alike
    <3> QED BY <1>5, <1>6, <3>1, StopsNoEarlier
  <2>2. z.taker.filled <= y.taker.filled
    BY <1>5, <1>6, StopsNoEarlier
  <2>3. y.taker.filled \in Int /\ z.taker.filled \in Int
    BY <1>5, <1>6 DEF InCall, Progress, Order
  <2> QED BY <2>1, <2>2, <2>3
<1>8. ASSUME NEW p \in Prices
      PROVE  /\ Depth(FinishCall(y).book, s, p) = Depth(FinishCall(z).book, s, p)
             /\ Depth(FinishCall(y).book, o.side, p) = Depth(FinishCall(z).book, o.side, p)
  <2>1. Depth(b, o.side, p) = Depth(c, o.side, p)
    BY <1>1 DEF SameDepth
  <2> DEFINE x(r, e) == IF r.order_type = "Limit" /\ r.quantity - e.taker.filled > 0 /\ p = r.price
                       THEN r.quantity - e.taker.filled ELSE 0
  <2>2. /\ Depth(FinishCall(y).book, s, p) = g[y.taker.filled][p]
        /\ Depth(FinishCall(y).book, o.side, p) = Depth(b, o.side, p) + x(o, y)
    BY <1>5, FinishDepth DEF s
  <2>3. /\ Depth(FinishCall(z).book, s, p) = g[z.taker.filled][p]
        /\ Depth(FinishCall(z).book, o.side, p) = Depth(c, o.side, p) + x(u, z)
    <3>1. /\ Depth(FinishCall(z).book, Opposite(u.side), p) = g[z.taker.filled][p]
          /\ Depth(FinishCall(z).book, u.side, p) = Depth(c, u.side, p) + x(u, z)
      BY <1>6, FinishDepth
    <3> QED BY <1>1, <3>1
  <2>4. x(o, y) = x(u, z)
    BY <1>7 DEF Alike
  <2> QED BY <1>7, <2>1, <2>2, <2>3, <2>4
<1> QED BY <1>1, <1>5, <1>6, <1>8 DEF SameDepth
===============================================================================
