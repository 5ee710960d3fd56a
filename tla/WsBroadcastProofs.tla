--------------------------- MODULE WsBroadcastProofs ---------------------------
(***************************************************************************)
(* The stream of every WebSocket client is without a gap and the client    *)
(* gauge is exact, for every finite set of clients, every size of the ring *)
(* and of the session's buffer.                                            *)
(***************************************************************************)
EXTENDS WsBroadcast, SequenceTheorems, FiniteSetTheorems, TLAPS

(* What the task of client c is about to send continues the stream: the fill
   that session.text waits with is the next one, and a pong interrupts the
   stream nowhere.  A client that has never connected has nothing. *)
Continues(c) ==
  /\ c.task = "send" => Follows(c.pos, Delivered(c, Len(c.buf)))
  /\ c.task = "pong" => Follows(c.pos + 1, Delivered(c, Len(c.buf)))
  /\ c.task = "none" => c = NoClient

LiveSet == {k \in Clients : Live(k)}

(* The inductive invariant. *)
IInv ==
  /\ TypeOK
  /\ NoGap
  /\ GaugeExact
  /\ \A k \in Clients : Continues(client[k])
-----------------------------------------------------------------------------
(* A client whose numbers are at most t. *)
Framed(c, t) ==
  /\ c.from \in 0..t /\ c.pos \in 0..t
  /\ c.buf \in Seq(0..t)
  /\ c.got \in Seq(1..t)

(* The client d is c with frame f put into the session's channel. *)
Sent(c, f, d) ==
  /\ d.buf = Append(c.buf, f)
  /\ d.from = c.from /\ d.got = c.got /\ d.pos = c.pos

(* The fills and the frames on the way are numbers. *)
LEMMA DeliveredNat ==
  ASSUME NEW t \in Nat, NEW c, Framed(c, t)
  PROVE  /\ Len(c.buf) \in Nat /\ Len(c.got) \in Nat
         /\ \A i \in 1 .. Len(c.buf) : c.buf[i] \in 0..t
         /\ \A n \in 0 .. Len(c.buf) : Delivered(c, n) \subseteq Nat
<1>1. Len(c.buf) \in Nat /\ Len(c.got) \in Nat
  BY LenProperties DEF Framed
<1>2. \A i \in 1 .. Len(c.buf) : c.buf[i] \in 0..t
  BY ElementOfSeq DEF Framed
<1>3. ASSUME NEW n \in 0 .. Len(c.buf) PROVE Delivered(c, n) \subseteq Nat
  BY <1>1, <1>2 DEF Delivered, Framed
<1> QED BY <1>1, <1>2, <1>3

(* A frame that is put into the session's channel comes behind the others. *)
LEMMA FrameBehind ==
  ASSUME NEW t \in Nat, NEW c, Framed(c, t), NEW f \in 0..t, NEW d, Sent(c, f, d)
  PROVE  /\ Framed(d, t)
         /\ Len(d.buf) = Len(c.buf) + 1
         /\ \A i \in 1 .. Len(c.buf) : d.buf[i] = c.buf[i]
         /\ d.buf[Len(c.buf) + 1] = f
         /\ \A n \in 0 .. Len(c.buf) : Delivered(d, n) = Delivered(c, n)
         /\ Delivered(d, Len(d.buf)) = Delivered(c, Len(c.buf)) \cup {f}
<1>1. Len(c.buf) \in Nat
  BY DeliveredNat
<1>2. /\ d.buf \in Seq(0..t)
      /\ Len(d.buf) = Len(c.buf) + 1
      /\ \A i \in 1 .. Len(c.buf) : d.buf[i] = c.buf[i]
      /\ d.buf[Len(c.buf) + 1] = f
  BY AppendProperties DEF Framed, Sent
<1>3. ASSUME NEW n \in 0 .. Len(c.buf)
      PROVE  Delivered(d, n) = Delivered(c, n)
  BY <1>1, <1>2 DEF Delivered, Sent
<1>4. Delivered(d, Len(d.buf)) = Delivered(c, Len(c.buf)) \cup {f}
  <2>1. 1 .. Len(d.buf) = (1 .. Len(c.buf)) \cup {Len(c.buf) + 1}
    BY <1>1, <1>2
  <2>2. {d.buf[j] : j \in 1 .. Len(d.buf)} = {c.buf[j] : j \in 1 .. Len(c.buf)} \cup {f}
    <3>1. ASSUME NEW j \in 1 .. Len(d.buf)
          PROVE  d.buf[j] \in {c.buf[i] : i \in 1 .. Len(c.buf)} \cup {f}
      BY <1>2, <2>1
    <3>2. ASSUME NEW j \in 1 .. Len(c.buf)
          PROVE  j \in 1 .. Len(d.buf) /\ d.buf[j] = c.buf[j]
      BY <1>2, <2>1
    <3>3. Len(c.buf) + 1 \in 1 .. Len(d.buf)
      BY <2>1
    <3> QED BY <1>2, <3>1, <3>2, <3>3
  <2> QED BY <2>2 DEF Delivered, Sent
<1>5. Framed(d, t)
  BY <1>2 DEF Framed, Sent
<1> QED BY <1>2, <1>3, <1>4, <1>5

(* TextSent and PongSent: the frame that is put into the channel keeps the
   stream gapless. *)
LEMMA FrameGapless ==
  ASSUME NEW t \in Nat, NEW c, Framed(c, t), Gapless(c), NEW f \in 0..t,
         \/ f = c.pos /\ Follows(c.pos, Delivered(c, Len(c.buf)))
         \/ f = 0 /\ Follows(c.pos + 1, Delivered(c, Len(c.buf))),
         NEW d, Sent(c, f, d)
  PROVE  Framed(d, t) /\ Gapless(d)
<1>1. /\ Len(d.buf) = Len(c.buf) + 1
      /\ \A i \in 1 .. Len(c.buf) : d.buf[i] = c.buf[i]
      /\ d.buf[Len(c.buf) + 1] = f
      /\ \A n \in 0 .. Len(c.buf) : Delivered(d, n) = Delivered(c, n)
      /\ Delivered(d, Len(d.buf)) = Delivered(c, Len(c.buf)) \cup {f}
      /\ Framed(d, t)
  BY FrameBehind
<1>2. Len(c.buf) \in Nat /\ Delivered(c, Len(c.buf)) \subseteq Nat
  <2>1. Len(c.buf) \in Nat
    BY DeliveredNat
  <2>2. Len(c.buf) \in 0 .. Len(c.buf)
    BY <2>1
  <2> QED BY <2>1, <2>2, DeliveredNat
<1>3. Follows(d.pos + 1, Delivered(d, Len(d.buf)))
  <2> DEFINE fs == Delivered(c, Len(c.buf))
  <2>1. d.pos = c.pos /\ c.pos \in Nat /\ f \in Nat /\ fs \subseteq Nat
    BY <1>2 DEF Sent, Framed
  <2>2. \/ f = c.pos /\ \A g \in fs : g < c.pos
        \/ f = 0 /\ c.pos \in fs /\ \A g \in fs : g < c.pos + 1
    BY <2>1 DEF Follows
  <2> HIDE DEF fs
  <2>3. c.pos \in fs \cup {f} /\ \A g \in fs \cup {f} : g < c.pos + 1
    BY <2>1, <2>2
  <2>4. Delivered(d, Len(d.buf)) = fs \cup {f}
    BY <1>1 DEF fs
  <2>5. (d.pos + 1) - 1 = c.pos
    BY <2>1
  <2>6. (d.pos + 1) - 1 \in Delivered(d, Len(d.buf))
    BY <2>3, <2>4, <2>5
  <2>7. \A g \in Delivered(d, Len(d.buf)) : g < d.pos + 1
    BY <2>1, <2>3, <2>4
  <2> QED BY <2>6, <2>7 DEF Follows
<1>4. d.got = [i \in 1 .. Len(d.got) |-> d.from + i]
  BY DEF Gapless, Sent
<1>5. ASSUME NEW i \in 1 .. Len(d.buf), d.buf[i] # 0
      PROVE  Follows(d.buf[i], Delivered(d, i - 1))
  <2>1. CASE i \in 1 .. Len(c.buf)
    <3>1. i - 1 \in 0 .. Len(c.buf)
      BY <1>2, <2>1
    <3>2. Follows(c.buf[i], Delivered(c, i - 1))
      BY <1>1, <1>5, <2>1 DEF Gapless
    <3> QED BY <1>1, <2>1, <3>1, <3>2
  <2>2. CASE i = Len(c.buf) + 1
    <3>1. i - 1 = Len(c.buf) /\ d.buf[i] = f
      BY <1>1, <1>2, <2>2
    <3>2. f = c.pos /\ Follows(f, Delivered(c, Len(c.buf)))
      BY <1>5, <3>1
    <3>3. Len(c.buf) \in 0 .. Len(c.buf)
      BY <1>2
    <3>4. Delivered(d, i - 1) = Delivered(c, Len(c.buf))
      BY <1>1, <3>1, <3>3
    <3> QED BY <3>1, <3>2, <3>4
  <2> QED BY <1>1, <1>2, <2>1, <2>2
<1> QED BY <1>1, <1>3, <1>4, <1>5 DEF Gapless

(* Read: taking the frame at the front of the channel, and noting it when it is
   a fill, keeps the stream gapless and delivers nothing new. *)
LEMMA ReadGapless ==
  ASSUME NEW t \in Nat, NEW c, Framed(c, t), Gapless(c), c.buf # << >>,
         NEW d, d.buf = Tail(c.buf), d.from = c.from, d.pos = c.pos,
         d.task = c.task,
         d.got = IF Head(c.buf) = 0 THEN c.got ELSE Append(c.got, Head(c.buf))
  PROVE  /\ Framed(d, t) /\ Gapless(d)
         /\ \A f \in Nat \ {0} : Follows(f, Delivered(c, Len(c.buf)))
                                 => Follows(f, Delivered(d, Len(d.buf)))
<1> DEFINE h    == c.buf[1]
           base == c.from + Len(c.got)
<1>1. /\ Len(c.buf) \in Nat \ {0} /\ Len(c.got) \in Nat
      /\ \A i \in 1 .. Len(c.buf) : c.buf[i] \in 0..t
      /\ \A n \in 0 .. Len(c.buf) : Delivered(c, n) \subseteq Nat
      /\ c.from \in Nat /\ base \in Nat /\ h \in 0..t /\ Head(c.buf) = h
  BY DeliveredNat, EmptySeq DEF Framed
<1>2. /\ d.buf \in Seq(0..t)
      /\ Len(d.buf) = Len(c.buf) - 1
      /\ \A i \in 1 .. Len(c.buf) - 1 : d.buf[i] = c.buf[i + 1]
  <2>1. c.buf \in Seq(0..t)
    BY DEF Framed
  <2>2. /\ Tail(c.buf) \in Seq(0..t)
        /\ Len(Tail(c.buf)) = Len(c.buf) - 1
        /\ \A i \in 1 .. Len(Tail(c.buf)) : Tail(c.buf)[i] = c.buf[i + 1]
    BY <2>1, HeadTailProperties
  <2> QED BY <2>2
<1>3. h # 0 => h = base + 1
  <2>1. Delivered(c, 0) = {base}
    BY DEF Delivered
  <2>2. h # 0 => Follows(h, Delivered(c, 0))
    BY <1>1 DEF Gapless
  <2> QED BY <1>1, <2>1, <2>2 DEF Follows
<1>4. /\ d.got \in Seq(1..t)
      /\ Len(d.got) = IF h = 0 THEN Len(c.got) ELSE Len(c.got) + 1
      /\ \A i \in 1 .. Len(d.got) : d.got[i] = d.from + i
  <2>1. \A i \in 1 .. Len(c.got) : c.got[i] = c.from + i
    BY DEF Gapless
  <2>2. CASE h = 0
    BY <1>1, <2>1, <2>2 DEF Framed
  <2>3. CASE h # 0
    <3>1. h \in 1..t /\ c.got \in Seq(1..t) /\ d.got = Append(c.got, h)
      BY <1>1, <2>3 DEF Framed
    <3>2. /\ d.got \in Seq(1..t) /\ Len(d.got) = Len(c.got) + 1
          /\ \A i \in 1 .. Len(c.got) : d.got[i] = c.got[i]
          /\ d.got[Len(c.got) + 1] = h
      <4> HIDE DEF h
      <4>1. /\ Append(c.got, h) \in Seq(1..t)
            /\ Len(Append(c.got, h)) = Len(c.got) + 1
            /\ \A i \in 1 .. Len(c.got) : Append(c.got, h)[i] = c.got[i]
            /\ Append(c.got, h)[Len(c.got) + 1] = h
        BY <3>1, AppendProperties
      <4> QED BY <3>1, <4>1
    <3> HIDE DEF h
    <3>3. ASSUME NEW i \in 1 .. Len(d.got) PROVE d.got[i] = d.from + i
      <4>1. CASE i = Len(c.got) + 1
        <5>1. d.got[i] = c.from + Len(c.got) + 1
          BY <1>3, <2>3, <3>2, <4>1
        <5> QED BY <1>1, <4>1, <5>1
      <4>2. CASE i \in 1 .. Len(c.got)
        BY <2>1, <3>2, <4>2
      <4> QED BY <1>1, <3>2, <4>1, <4>2
    <3> QED BY <2>3, <3>2, <3>3
  <2> QED BY <2>2, <2>3
<1>5. Framed(d, t)
  BY <1>2, <1>4 DEF Framed
<1>6. d.got = [i \in 1 .. Len(d.got) |-> d.from + i]
  BY <1>4, LenProperties
<1> HIDE DEF h
<1>7. ASSUME NEW n \in 0 .. Len(c.buf) - 1, NEW f \in Nat \ {0},
             Follows(f, Delivered(c, n + 1))
      PROVE  Follows(f, Delivered(d, n))
  <2> DEFINE later == {c.buf[j] : j \in 2 .. n + 1}
  <2>1. {d.buf[j] : j \in 1..n} = later
    <3>1. ASSUME NEW j \in 1..n
          PROVE  j + 1 \in 2 .. n + 1 /\ d.buf[j] = c.buf[j + 1]
      BY <1>1, <1>2
    <3>2. ASSUME NEW j \in 2 .. n + 1
          PROVE  j - 1 \in 1..n /\ d.buf[j - 1] = c.buf[j]
      <4>1. j - 1 \in 1 .. Len(c.buf) - 1 /\ (j - 1) + 1 = j
        BY <1>1
      <4> QED BY <1>2, <4>1
    <3> QED BY <3>1, <3>2
  <2>2. {c.buf[j] : j \in 1 .. n + 1} = {h} \cup later
    <3>1. 1 .. n + 1 = {1} \cup 2 .. n + 1
      BY <1>1
    <3> QED BY <3>1 DEF h
  <2>3. Delivered(c, n + 1) = {base, h} \cup later
    BY <2>2 DEF Delivered
  <2>4. Delivered(d, n) = {IF h = 0 THEN base ELSE base + 1} \cup later
    <3>1. d.from + Len(d.got) = IF h = 0 THEN base ELSE base + 1
      BY <1>1, <1>4
    <3> QED BY <2>1, <3>1 DEF Delivered
  <2> HIDE DEF later, base
  <2>5. later \subseteq Nat
    <3>1. n + 1 \in 0 .. Len(c.buf)
      BY <1>1
    <3> QED BY <1>1, <2>3, <3>1
  <2>6. /\ f - 1 \in {base, h} \cup later
        /\ \A g \in {base, h} \cup later : g < f
    BY <1>7, <2>3 DEF Follows
  <2>7. base < f /\ h < f /\ base \in Nat /\ h \in Nat
    BY <1>1, <2>6
  <2>8. CASE h = 0
    <3>1. Delivered(d, n) = {base} \cup later
      BY <2>4, <2>8
    <3>2. f - 1 \in {base} \cup later
      BY <2>6, <2>7, <2>8
    <3> QED BY <2>6, <3>1, <3>2 DEF Follows
  <2>9. CASE h # 0
    <3>1. h = base + 1 /\ Delivered(d, n) = {h} \cup later
      BY <1>3, <2>4, <2>9
    <3>2. f - 1 \in {h} \cup later
      BY <2>6, <2>7, <3>1
    <3> QED BY <2>6, <3>1, <3>2 DEF Follows
  <2> QED BY <2>8, <2>9
<1>8. ASSUME NEW i \in 1 .. Len(d.buf), d.buf[i] # 0
      PROVE  Follows(d.buf[i], Delivered(d, i - 1))
  <2>1. /\ i + 1 \in 1 .. Len(c.buf) /\ d.buf[i] = c.buf[i + 1]
        /\ i - 1 \in 0 .. Len(c.buf) - 1 /\ (i - 1) + 1 = i /\ (i + 1) - 1 = i
    BY <1>1, <1>2
  <2>2. Follows(d.buf[i], Delivered(c, i))
    BY <1>8, <2>1 DEF Gapless
  <2>3. d.buf[i] \in Nat \ {0}
    BY <1>1, <1>8, <2>1
  <2> QED BY <1>7, <2>1, <2>2, <2>3
<1>9. ASSUME NEW f \in Nat \ {0}, Follows(f, Delivered(c, Len(c.buf)))
      PROVE  Follows(f, Delivered(d, Len(d.buf)))
  <2>1. Len(d.buf) \in 0 .. Len(c.buf) - 1 /\ Len(d.buf) + 1 = Len(c.buf)
    BY <1>1, <1>2
  <2> QED BY <1>7, <1>9, <2>1
<1>10. c.pos + 1 \in Nat \ {0}
  BY DEF Framed
<1> QED BY <1>5, <1>6, <1>8, <1>9, <1>10 DEF Gapless
-----------------------------------------------------------------------------
(* What the task of a client may await. *)
Awaits == {"none", "select", "send", "close", "pong", "gone"}

(* A client of the right type is framed by the tail of the ring. *)
LEMMA TypeFramed ==
  ASSUME tail \in Nat, NEW c \in ClientType
  PROVE  Framed(c, tail)
BY DEF ClientType, Framed

(* A step that changes one client keeps the invariant, if what it makes of
   that client is sound and the gauge follows the client's task. *)
LEMMA OneClient ==
  ASSUME IInv, NEW k \in Clients, NEW d \in ClientType,
         client' = [client EXCEPT ![k] = d], tail' = tail,
         Gapless(d), Continues(d),
         gauge' = IF d.task \in {"none", "gone"}
                  THEN (IF Live(k) THEN gauge - 1 ELSE gauge)
                  ELSE (IF Live(k) THEN gauge ELSE gauge + 1)
  PROVE  IInv'
<1>1. client' \in [Clients -> ClientType] /\ client \in [Clients -> ClientType]
  BY DEF IInv, TypeOK
<1>2. \A j \in Clients : client'[j] = IF j = k THEN d ELSE client[j]
  BY <1>1
<1>3. NoGap' /\ \A j \in Clients : Continues(client'[j])
  <2>1. \A j \in Clients : Gapless(client'[j])
    BY <1>2 DEF IInv, NoGap
  <2>2. \A j \in Clients : Continues(client'[j])
    BY <1>2 DEF IInv
  <2> QED BY <2>1, <2>2 DEF NoGap
<1>4. IsFiniteSet(Clients) /\ LiveSet \in SUBSET Clients
  BY BroadcastAssumption DEF LiveSet
<1>5. IsFiniteSet(LiveSet) /\ gauge = Cardinality(LiveSet)
  BY <1>4, FS_Subset DEF IInv, GaugeExact, LiveSet
<1>6. \A j \in Clients : Live(j)' <=> client'[j].task \notin {"none", "gone"}
  BY DEF Live
<1>7. LiveSet' = IF d.task \in {"none", "gone"} THEN LiveSet \ {k} ELSE LiveSet \cup {k}
  BY <1>2, <1>6 DEF LiveSet, Live
<1>8. k \in LiveSet <=> Live(k)
  BY DEF LiveSet
<1>9. gauge' = Cardinality(LiveSet')
  BY <1>5, <1>7, <1>8, FS_AddElement, FS_RemoveElement
<1>10. Cardinality(LiveSet') \in 0 .. Cardinality(Clients)
  <2>1. LiveSet' \in SUBSET Clients
    BY DEF LiveSet
  <2>2. IsFiniteSet(LiveSet') /\ Cardinality(LiveSet') <= Cardinality(Clients)
    BY <1>4, <2>1, FS_Subset
  <2>3. Cardinality(LiveSet') \in Nat /\ Cardinality(Clients) \in Nat
    BY <1>4, <2>2, FS_CardinalityType
  <2> QED BY <2>2, <2>3
<1>11. ClientType' = ClientType
  BY DEF ClientType
<1>12. TypeOK'
  BY <1>1, <1>9, <1>10, <1>11 DEF IInv, TypeOK
<1>13. GaugeExact'
  BY <1>9 DEF GaugeExact, LiveSet
<1> QED BY <1>3, <1>12, <1>13 DEF IInv

(* A new await of the task moves no fill. *)
LEMMA TaskOnly ==
  ASSUME NEW c \in ClientType, Gapless(c), NEW x \in Awaits, NEW d,
         d = [c EXCEPT !.task = x],
         x = "select" => Follows(c.pos + 1, Delivered(c, Len(c.buf)))
  PROVE  /\ d \in ClientType /\ d.task = x /\ d.pos = c.pos
         /\ Gapless(d)
         /\ Delivered(d, Len(d.buf)) = Delivered(c, Len(c.buf))
<1>1. /\ d \in ClientType /\ d.task = x /\ d.from = c.from /\ d.pos = c.pos
      /\ d.buf = c.buf /\ d.got = c.got
  BY DEF ClientType, Awaits
<1>2. \A n : Delivered(d, n) = Delivered(c, n)
  BY <1>1 DEF Delivered
<1> QED BY <1>1, <1>2 DEF Gapless

(* What is known of client k. *)
LEMMA ClientFacts ==
  ASSUME IInv, NEW k \in Clients
  PROVE  /\ tail \in Nat /\ client[k] \in ClientType /\ Framed(client[k], tail)
         /\ Gapless(client[k]) /\ Continues(client[k])
<1>1. tail \in Nat /\ client[k] \in ClientType
  BY BroadcastAssumption DEF IInv, TypeOK
<1> QED BY <1>1, TypeFramed DEF IInv, NoGap

(* A task that returns takes itself off the gauge. *)
LEMMA ReturnsIInv ==
  ASSUME IInv, NEW k \in Clients, Live(k), Returns(k)
  PROVE  IInv'
<1> DEFINE d == [client[k] EXCEPT !.task = "gone"]
<1>1. client[k] \in ClientType /\ Gapless(client[k])
  BY ClientFacts
<1>2. d \in ClientType /\ d.task = "gone" /\ Gapless(d)
  BY <1>1, TaskOnly DEF Awaits
<1>3. Continues(d)
  BY <1>2 DEF Continues
<1>4. client' = [client EXCEPT ![k] = d] /\ gauge' = gauge - 1 /\ tail' = tail
  BY DEF Returns
<1> HIDE DEF d
<1> QED BY <1>2, <1>3, <1>4, OneClient

(* A task that begins to close its session still counts. *)
LEMMA ClosesIInv ==
  ASSUME IInv, NEW k \in Clients, Live(k), Goes(k, "close")
  PROVE  IInv'
<1> DEFINE d == [client[k] EXCEPT !.task = "close"]
<1>1. client[k] \in ClientType /\ Gapless(client[k])
  BY ClientFacts
<1>2. d \in ClientType /\ d.task = "close" /\ Gapless(d)
  BY <1>1, TaskOnly DEF Awaits
<1>3. Continues(d)
  BY <1>2 DEF Continues
<1>4. client' = [client EXCEPT ![k] = d] /\ gauge' = gauge /\ tail' = tail
  BY DEF Goes
<1> HIDE DEF d
<1> QED BY <1>2, <1>3, <1>4, OneClient

(* session.text and session.pong put their frame into the channel. *)
LEMMA FrameIInv ==
  ASSUME IInv, NEW k \in Clients, NEW f, Frame(k, f),
         \/ client[k].task = "send" /\ f = client[k].pos
         \/ client[k].task = "pong" /\ f = 0
  PROVE  IInv'
<1> DEFINE c == client[k]
           d == [c EXCEPT !.buf = Append(@, f), !.task = "select"]
<1>1. tail \in Nat /\ c \in ClientType /\ Framed(c, tail) /\ Gapless(c) /\ Continues(c)
  BY ClientFacts
<1>2. /\ f \in 0..tail
      /\ \/ f = c.pos /\ Follows(c.pos, Delivered(c, Len(c.buf)))
         \/ f = 0 /\ Follows(c.pos + 1, Delivered(c, Len(c.buf)))
  BY <1>1 DEF Continues, Framed
<1>3. client' = [client EXCEPT ![k] = d] /\ gauge' = gauge /\ tail' = tail
  BY DEF Frame
<1>4. Live(k)
  BY DEF Live
<1> HIDE DEF c
<1>5. Append(c.buf, f) \in Seq(0..tail)
  BY <1>1, <1>2, AppendProperties DEF Framed
<1>6. d \in ClientType /\ d.task = "select" /\ Sent(c, f, d)
  BY <1>1, <1>5 DEF ClientType, Sent
<1> HIDE DEF d
<1>7. Gapless(d)
  BY <1>1, <1>2, <1>6, FrameGapless
<1>8. Continues(d)
  BY <1>6 DEF Continues
<1> QED BY <1>3, <1>4, <1>6, <1>7, <1>8, OneClient

(* rx.recv: the task takes the fill at its position. *)
LEMMA RecvIInv ==
  ASSUME IInv, NEW k \in Clients, Recv(k)
  PROVE  IInv'
<1> DEFINE c == client[k]
           d == [c EXCEPT !.task = "send", !.pos = @ + 1]
<1>1. tail \in Nat /\ c \in ClientType /\ Framed(c, tail) /\ Gapless(c)
  BY ClientFacts
<1>2. /\ c.task = "select" /\ c.pos < tail
      /\ client' = [client EXCEPT ![k] = d] /\ gauge' = gauge /\ tail' = tail
  BY DEF Recv
<1>3. Live(k)
  BY <1>2 DEF Live
<1> HIDE DEF c
<1>4. c.pos + 1 \in 0..tail
  BY <1>1, <1>2 DEF Framed
<1>5. /\ d \in ClientType /\ d.task = "send" /\ d.from = c.from
      /\ d.pos = c.pos + 1 /\ d.buf = c.buf /\ d.got = c.got
  BY <1>1, <1>4 DEF ClientType
<1> HIDE DEF d
<1>6. \A n : Delivered(d, n) = Delivered(c, n)
  BY <1>5 DEF Delivered
<1>7. Gapless(d)
  BY <1>1, <1>5, <1>6 DEF Gapless
<1>8. Continues(d)
  BY <1>1, <1>2, <1>5, <1>6 DEF Gapless, Continues
<1> QED BY <1>2, <1>3, <1>5, <1>7, <1>8, OneClient

(* ws_market: a new client starts at the end of the ring and is counted. *)
LEMMA ConnectIInv ==
  ASSUME IInv, NEW k \in Clients, Connect(k)
  PROVE  IInv'
<1> DEFINE d == [client[k] EXCEPT !.task = "select", !.open = TRUE,
                                  !.from = tail, !.pos = tail]
<1>1. tail \in Nat /\ client[k] \in ClientType /\ client[k] = NoClient
  BY ClientFacts DEF Connect, Continues
<1>2. client' = [client EXCEPT ![k] = d] /\ gauge' = gauge + 1 /\ tail' = tail
  BY DEF Connect
<1>3. ~Live(k)
  BY DEF Live, Connect
<1>t. tail \in 0..tail
  BY <1>1
<1>4. /\ d \in ClientType /\ d.task = "select" /\ d.from = tail /\ d.pos = tail
      /\ d.buf = client[k].buf /\ d.got = client[k].got
  <2> DEFINE c == client[k]
  <2>1. c \in ClientType
    BY <1>1
  <2> HIDE DEF c
  <2>2. LET e == [c EXCEPT !.task = "select", !.open = TRUE, !.from = tail, !.pos = tail]
        IN  /\ e \in ClientType /\ e.task = "select" /\ e.from = tail /\ e.pos = tail
            /\ e.buf = c.buf /\ e.got = c.got
    BY <1>1, <1>t, <2>1 DEF ClientType
  <2> QED BY <2>2 DEF c
<1>5. d.buf = << >> /\ d.got = << >>
  BY <1>1, <1>4 DEF NoClient
<1> HIDE DEF d
<1>6. Delivered(d, 0) = {tail} /\ Len(d.buf) = 0 /\ Len(d.got) = 0
  BY <1>1, <1>4, <1>5 DEF Delivered
<1>7. Follows(d.pos + 1, Delivered(d, Len(d.buf)))
  BY <1>1, <1>4, <1>6 DEF Follows
<1>8. Gapless(d)
  BY <1>5, <1>6, <1>7 DEF Gapless
<1>9. Continues(d)
  BY <1>4 DEF Continues
<1> QED BY <1>2, <1>3, <1>4, <1>8, <1>9, OneClient

(* A ping makes the task answer it. *)
LEMMA PingIInv ==
  ASSUME IInv, NEW k \in Clients, Ping(k)
  PROVE  IInv'
<1> DEFINE c == client[k]
           d == [c EXCEPT !.pings = @ + 1, !.task = "pong"]
<1>1. tail \in Nat /\ c \in ClientType /\ Gapless(c)
  BY ClientFacts
<1>2. /\ c.task = "select" /\ c.pings < MaxPings
      /\ client' = [client EXCEPT ![k] = d] /\ gauge' = gauge /\ tail' = tail
  BY DEF Ping
<1>3. Live(k)
  BY <1>2 DEF Live
<1> HIDE DEF c
<1>4. c.pings + 1 \in 0..MaxPings
  BY <1>1, <1>2, BroadcastAssumption DEF ClientType
<1>5. /\ d \in ClientType /\ d.task = "pong" /\ d.from = c.from
      /\ d.pos = c.pos /\ d.buf = c.buf /\ d.got = c.got
  BY <1>1, <1>4 DEF ClientType
<1> HIDE DEF d
<1>6. \A n : Delivered(d, n) = Delivered(c, n)
  BY <1>5 DEF Delivered
<1>7. Gapless(d) /\ Continues(d)
  BY <1>1, <1>2, <1>5, <1>6 DEF Gapless, Continues
<1> QED BY <1>2, <1>3, <1>5, <1>7, OneClient

(* The peer takes a frame from its socket. *)
LEMMA ReadIInv ==
  ASSUME IInv, NEW k \in Clients, Read(k)
  PROVE  IInv'
<1> DEFINE c     == client[k]
           frame == Head(c.buf)
           got   == IF frame = 0 THEN c.got ELSE Append(c.got, frame)
           d     == [c EXCEPT !.buf = Tail(c.buf), !.got = got]
<1>1. /\ tail \in Nat /\ c \in ClientType /\ Framed(c, tail)
      /\ Gapless(c) /\ Continues(c)
  BY ClientFacts
<1>2. /\ c.buf # << >> /\ c.open
      /\ client' = [client EXCEPT ![k] = d] /\ gauge' = gauge /\ tail' = tail
  BY DEF Read
<1>3. c.buf \in Seq(0..tail) /\ c.got \in Seq(1..tail)
  BY <1>1 DEF Framed
<1> HIDE DEF c
<1>4. frame \in 0..tail /\ Tail(c.buf) \in Seq(0..tail)
  BY <1>2, <1>3, HeadTailProperties
<1>5. got \in Seq(1..tail)
  <2> HIDE DEF frame
  <2>1. CASE frame = 0
    BY <1>3, <2>1
  <2>2. CASE frame # 0
    <3>1. frame \in 1..tail
      BY <1>1, <1>4, <2>2
    <3> QED BY <1>3, <2>2, <3>1, AppendProperties
  <2> QED BY <2>1, <2>2
<1>6. d.got = IF Head(c.buf) = 0 THEN c.got ELSE Append(c.got, Head(c.buf))
  BY <1>1 DEF ClientType
<1> HIDE DEF got
<1>7. /\ d \in ClientType /\ d.task = c.task /\ d.from = c.from
      /\ d.pos = c.pos /\ d.buf = Tail(c.buf)
  BY <1>1, <1>4, <1>5 DEF ClientType
<1> HIDE DEF d, frame
<1>8. /\ Gapless(d)
      /\ \A f \in Nat \ {0} : Follows(f, Delivered(c, Len(c.buf)))
                              => Follows(f, Delivered(d, Len(d.buf)))
  BY <1>1, <1>2, <1>6, <1>7, ReadGapless
<1>9. Continues(d)
  <2>1. c.task # "none"
    BY <1>1, <1>2 DEF Continues, NoClient
  <2>2. c.pos \in Nat /\ c.pos + 1 \in Nat \ {0}
    BY <1>1 DEF Framed
  <2>3. c.task = "send" => c.pos # 0
    <3> SUFFICES ASSUME c.task = "send" PROVE 0 < c.pos
      BY <2>2
    <3>1. Len(c.buf) \in 0 .. Len(c.buf) /\ Delivered(c, Len(c.buf)) \subseteq Nat
      BY <1>1, DeliveredNat
    <3>2. c.pos - 1 \in Delivered(c, Len(c.buf))
      BY <1>1 DEF Continues, Follows
    <3> QED BY <2>2, <3>1, <3>2
  <2> QED BY <1>1, <1>7, <1>8, <2>1, <2>2, <2>3 DEF Continues
<1>10. c.task = client[k].task
  BY DEF c
<1> QED BY <1>2, <1>7, <1>8, <1>9, <1>10, OneClient DEF Live, c

(* The connection is lost; the task has yet to find out. *)
LEMMA DisconnectIInv ==
  ASSUME IInv, NEW k \in Clients, Disconnect(k)
  PROVE  IInv'
<1> DEFINE c == client[k]
           d == [c EXCEPT !.open = FALSE]
<1>1. c \in ClientType /\ Gapless(c) /\ Continues(c)
  BY ClientFacts
<1>2. /\ c.open
      /\ client' = [client EXCEPT ![k] = d] /\ gauge' = gauge /\ tail' = tail
  BY DEF Disconnect
<1>3. /\ d \in ClientType /\ d.task = c.task /\ d.from = c.from
      /\ d.pos = c.pos /\ d.buf = c.buf /\ d.got = c.got
  BY <1>1 DEF ClientType
<1>4. c.task # "none"
  BY <1>1, <1>2 DEF Continues, NoClient
<1> HIDE DEF d
<1>5. \A n : Delivered(d, n) = Delivered(c, n)
  BY <1>3 DEF Delivered
<1>6. Gapless(d) /\ Continues(d)
  BY <1>1, <1>3, <1>4, <1>5 DEF Gapless, Continues
<1> QED BY <1>2, <1>3, <1>6, OneClient DEF Live

(* A fill is published; nobody waits for it and nobody is told. *)
LEMMA PublishIInv ==
  ASSUME IInv, Publish
  PROVE  IInv'
<1>1. tail < MaxPublished /\ tail' = tail + 1 /\ client' = client /\ gauge' = gauge
  BY DEF Publish
<1>2. tail \in Nat /\ tail' \in 0..MaxPublished /\ 0..tail \subseteq 0..tail'
      /\ 1..tail \subseteq 1..tail'
  BY <1>1, BroadcastAssumption DEF IInv, TypeOK
<1>3. ASSUME NEW k \in Clients PROVE client[k] \in ClientType'
  <2>1. client[k] \in ClientType
    BY DEF IInv, TypeOK
  <2>2. client[k].buf \in Seq(0..tail) /\ client[k].got \in Seq(1..tail)
    BY <2>1 DEF ClientType
  <2>3. client[k].buf \in Seq(0..tail') /\ client[k].got \in Seq(1..tail')
    BY <1>2, <2>2, SeqMonotonic
  <2> QED BY <1>2, <2>1, <2>3 DEF ClientType
<1>4. TypeOK'
  <2>1. client \in [Clients -> ClientType'] /\ gauge \in 0 .. Cardinality(Clients)
    BY <1>3 DEF IInv, TypeOK
  <2> QED BY <1>1, <1>2, <2>1 DEF TypeOK
<1>5. NoGap' /\ GaugeExact' /\ \A k \in Clients : Continues(client'[k])
  BY <1>1 DEF IInv, NoGap, GaugeExact, Live
<1> QED BY <1>4, <1>5 DEF IInv
-----------------------------------------------------------------------------
(* Nobody is connected at first. *)
LEMMA InitIInv == Init => IInv
<1> SUFFICES ASSUME Init PROVE IInv
  OBVIOUS
<1>1. tail = 0 /\ gauge = 0 /\ client = [k \in Clients |-> NoClient]
  BY DEF Init
<1>2. NoClient \in ClientType
  BY <1>1, BroadcastAssumption DEF NoClient, ClientType
<1>3. Gapless(NoClient) /\ Continues(NoClient)
  BY DEF Gapless, Continues, NoClient
<1>4. LiveSet = {}
  BY <1>1 DEF LiveSet, Live, NoClient
<1>5. GaugeExact
  BY <1>1, <1>4, FS_EmptySet DEF GaugeExact, LiveSet
<1>6. Cardinality(Clients) \in Nat
  BY BroadcastAssumption, FS_CardinalityType
<1>7. TypeOK
  BY <1>1, <1>2, <1>6, BroadcastAssumption DEF TypeOK
<1>8. NoGap /\ \A k \in Clients : Continues(client[k])
  BY <1>1, <1>3 DEF NoGap
<1> QED BY <1>5, <1>7, <1>8 DEF IInv

(* Every step of the publisher, of a task and of a peer keeps the invariant. *)
LEMMA NextIInv == IInv /\ [Next]_vars => IInv'
<1> SUFFICES ASSUME IInv, [Next]_vars PROVE IInv'
  OBVIOUS
<1>1. CASE Publish
  BY <1>1, PublishIInv
<1>2. ASSUME NEW k \in Clients, Task(k) PROVE IInv'
  <2>1. CASE Recv(k)
    BY <2>1, RecvIInv
  <2>2. CASE Lagged(k)
    BY <2>2, ClosesIInv DEF Lagged, Live
  <2>3. CASE TextSent(k)
    BY <2>3, FrameIInv DEF TextSent
  <2>4. CASE TextFails(k)
    BY <2>4, ClosesIInv DEF TextFails, Live
  <2>5. CASE CloseDone(k)
    BY <2>5, ReturnsIInv DEF CloseDone, Live
  <2>6. CASE PongSent(k)
    BY <2>6, FrameIInv DEF PongSent
  <2>7. CASE PongFails(k)
    BY <2>7, ReturnsIInv DEF PongFails, Live
  <2>8. CASE PeerClosed(k)
    BY <2>8, ReturnsIInv DEF PeerClosed, Live
  <2> QED BY <1>2, <2>1, <2>2, <2>3, <2>4, <2>5, <2>6, <2>7, <2>8 DEF Task
<1>3. ASSUME NEW k \in Clients, Peer(k) PROVE IInv'
  BY <1>3, ConnectIInv, PingIInv, ReadIInv, DisconnectIInv DEF Peer
<1>4. CASE UNCHANGED vars
  BY <1>4 DEF vars, IInv, TypeOK, ClientType, NoGap, GaugeExact, Live
<1> QED BY <1>1, <1>2, <1>3, <1>4 DEF Next

(* The inductive invariant holds in every state. *)
THEOREM Invariance == Spec => []IInv
BY InitIInv, NextIInv, PTL DEF Spec

(* Type correctness: the gauge stays between zero and the number of clients. *)
THEOREM TypeCorrect == Spec => []TypeOK
<1>1. IInv => TypeOK
  BY DEF IInv
<1> QED BY <1>1, Invariance, PTL

(* No client of ws_market ever sees a gap, for every capacity of the ring and
   of the session's channel, whatever the clients and the publisher do. *)
THEOREM Gaplessness == Spec => []NoGap
<1>1. IInv => NoGap
  BY DEF IInv
<1> QED BY <1>1, Invariance, PTL

(* ws_client_count is the number of tasks, whichever way they end. *)
THEOREM ExactGauge == Spec => []GaugeExact
<1>1. IInv => GaugeExact
  BY DEF IInv
<1> QED BY <1>1, Invariance, PTL
===============================================================================
