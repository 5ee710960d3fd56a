------------------------- MODULE LeaderElectionProofs -------------------------
(***************************************************************************)
(* Leader election for all constants: the types for every number of pods,  *)
(* and, for two pods whose requests are timely, the bound on the time in   *)
(* which both believe that they lead.                                      *)
(***************************************************************************)
EXTENDS LeaderElection, FiniteSetTheorems, TLAPS

(* The elector of one pod: a request is under way for MaxDelay at most, its notion
   of now is as old as its requests, and a pod that believes it leads is awake. *)
Punctual(r) ==
  /\ r.mode = "down" => r.step = "none" /\ ~r.is_leader
  /\ r.step = "read" => r.since + r.timer <= MaxDelay
  /\ r.step \in {"create", "patch"} => /\ r.since + r.timer <= 2 * MaxDelay
                                      /\ r.timer <= MaxDelay
  /\ r.step = "label_leader" => r.timer <= MaxDelay
  /\ r.step = "label_follower" => ~r.is_leader
  /\ r.step = "sleep" /\ r.is_leader => r.timer <= RenewInterval

(* A pod that believes it leads has written the lease, or seen it written by
   another, not long ago; so the lease is not expired, for whoever looks. *)
Fresh(l, r) ==
  /\ l.holder # NoPod
  /\ \/ r.step = "label_leader" /\ l.age + r.timer <= 3 * MaxDelay
     \/ r.step = "sleep" /\ l.age + r.timer <= RenewInterval + 3 * MaxDelay
     \/ r.step = "read" /\ l.age + r.timer <= RenewInterval + 4 * MaxDelay
     \/ r.step = "patch" /\ l.age + r.timer <= RenewInterval + 5 * MaxDelay

(* A pod that believes it leads and does not hold the lease has not begun to renew
   it, and will have read it before the bound is over. *)
Losing(n, r) ==
  \/ r.step = "label_leader" /\ n + r.timer <= MaxDelay
  \/ r.step = "sleep" /\ n + r.timer <= RenewInterval + MaxDelay
  \/ r.step = "read" /\ n + r.timer <= RenewInterval + 2 * MaxDelay

(* The holder r of the lease does not look at it before the patch of q, which
   saw an older lease, has come. *)
Outlasts(r, q) ==
  \/ r.step = "label_leader" /\ RenewInterval > q.timer
  \/ r.step = "sleep" /\ r.timer > q.timer

AllPunctual == \A p \in Pods : Punctual(pod[p])

BelieversFresh == \A p \in Pods : pod[p].is_leader => Fresh(lease, pod[p])

LosersLeave == \A p \in Pods : pod[p].is_leader /\ lease.holder # p => Losing(overlap, pod[p])

PatchesFirst ==
  \A p, q \in Pods :
    /\ pod[p].is_leader /\ lease.holder = p
    /\ q # p /\ pod[q].step = "patch"
    => Outlasts(pod[p], pod[q])

(* While a split is on nobody but the holder is about to write the lease. *)
SplitEnds ==
  /\ overlap <= RenewInterval + 2 * MaxDelay
  /\ overlap > 0 =>
       /\ lease.holder # NoPod
       /\ lease.age <= RenewInterval + 5 * MaxDelay
       /\ \A p \in Pods : p # lease.holder => pod[p].step # "patch"

(* The inductive invariants: of the types, and of the split. *)
EInv == TypeOK /\ AllPunctual

SplitInv == BelieversFresh /\ LosersLeave /\ PatchesFirst /\ SplitEnds
-----------------------------------------------------------------------------
(* What a step makes of the pod r that takes it: it stops to believe that it leads,
   or the elector does not move, wakes up, sleeps after a label, begins to write the
   lease or has written it. *)
Quits(q) == ~q.is_leader /\ q.step # "patch"

Stays(r, q) == q.step = r.step /\ q.timer = r.timer /\ q.is_leader = r.is_leader

Wakes(r, q) ==
  /\ r.step = "sleep" /\ r.timer = 0
  /\ q.step = "read" /\ q.timer = MaxDelay /\ q.is_leader = r.is_leader

Rests(r, q) ==
  /\ r.step = "label_leader"
  /\ q.step = "sleep" /\ q.timer = RenewInterval /\ q.is_leader = r.is_leader

Renews(r, q) ==
  /\ r.step = "read" /\ lease.holder # NoPod
  /\ q.step = "patch" /\ q.timer = MaxDelay /\ q.is_leader = r.is_leader

Creates(r, q) ==
  /\ r.step = "read" /\ lease.holder = NoPod
  /\ q.step = "create" /\ q.timer = MaxDelay /\ q.is_leader = r.is_leader

Leads(q) ==
  /\ q.is_leader
  /\ \/ q.step = "label_leader" /\ q.timer = MaxDelay
     \/ q.step = "sleep" /\ q.timer = RenewInterval

Writes(p, r) ==
  /\ r.step = "patch" \/ (r.step = "create" /\ lease.holder = NoPod)
  /\ lease' = [holder |-> p, age |-> r.since]

Kind(p, r, q) ==
  \/ lease' = lease /\ \/ Quits(q) \/ Stays(r, q) \/ Wakes(r, q) \/ Rests(r, q)
                       \/ Renews(r, q) /\ (lease.holder = p \/ Expired(p))
                       \/ Creates(r, q)
  \/ Writes(p, r) /\ (Leads(q) \/ Quits(q))

LeaseType == [holder : Pods \cup {NoPod}, age : 0..(MaxAge + MaxDelay)]

(* The constants are numbers. *)
LEMMA Numbers ==
  /\ LeaseDuration \in Nat /\ RenewInterval \in Nat /\ RetryInterval \in Nat
  /\ BootWait \in Nat /\ WatchInterval \in Nat /\ MaxDelay \in Nat
  /\ MaxRestart \in Nat /\ MaxDown \in Nat /\ ProbeGrace \in Nat /\ MaxFaults \in Nat
  /\ MaxAge \in Nat /\ MaxOverlap \in Nat /\ NoPod \notin Pods
BY ElectionAssumption DEF MaxAge, MaxOverlap

(* A process that starts or stops. *)
LEMMA NewProcess ==
  /\ Started \in PodType /\ Punctual(Started) /\ Quits(Started)
  /\ \A n \in Nat : Stopped(n) \in PodType /\ Punctual(Stopped(n)) /\ Quits(Stopped(n))
<1>1. Started \in PodType /\ Punctual(Started) /\ Quits(Started)
  BY Numbers DEF Started, PodType, Punctual, Quits
<1>2. ASSUME NEW n \in Nat
      PROVE  Stopped(n) \in PodType /\ Punctual(Stopped(n)) /\ Quits(Stopped(n))
  BY Numbers DEF Stopped, PodType, Punctual, Quits
<1> QED BY <1>1, <1>2

(* What the awaits of the elector, and its flags, change. *)
LEMMA AwaitFacts ==
  ASSUME NEW r \in PodType,
         NEW step \in {"read", "create", "patch", "label_leader", "label_follower"}
  PROVE  /\ Await(r, step) \in PodType
         /\ Await(r, step).step = step /\ Await(r, step).timer = MaxDelay
         /\ Await(r, step).mode = r.mode /\ Await(r, step).since = r.since
         /\ Await(r, step).is_leader = r.is_leader
BY Numbers DEF Await, PodType

(* tokio::time::sleep keeps the memory of a pod typed and the flag as it is. *)
LEMMA SleepFacts ==
  ASSUME NEW r \in PodType, NEW n \in Nat
  PROVE  /\ Sleep(r, n) \in PodType
         /\ Sleep(r, n).step = "sleep" /\ Sleep(r, n).timer = n
         /\ Sleep(r, n).mode = r.mode /\ Sleep(r, n).since = 0
         /\ Sleep(r, n).is_leader = r.is_leader
<1>1. 0 \in 0..(2 * MaxDelay)
  BY Numbers
<1> QED BY <1>1 DEF Sleep, PodType

(* So does storing the two flags. *)
LEMMA FlagFacts ==
  ASSUME NEW r \in PodType, NEW b \in BOOLEAN, NEW c \in BOOLEAN
  PROVE  /\ [r EXCEPT !.is_leader = b, !.lease_healthy = c] \in PodType
         /\ [r EXCEPT !.is_leader = b, !.lease_healthy = c].mode = r.mode
         /\ [r EXCEPT !.is_leader = b, !.lease_healthy = c].is_leader = b
         /\ [r EXCEPT !.is_leader = b] \in PodType
         /\ [r EXCEPT !.is_leader = b].mode = r.mode
         /\ [r EXCEPT !.is_leader = b].is_leader = b
BY DEF PodType

(* The three outcomes of try_acquire_or_renew. *)
LEMMA Outcomes ==
  ASSUME NEW r \in PodType, Punctual(r), r.mode # "down"
  PROVE  /\ Acquired(r) \in PodType /\ Punctual(Acquired(r)) /\ Leads(Acquired(r))
         /\ Refused(r) \in PodType /\ Punctual(Refused(r)) /\ Quits(Refused(r))
         /\ Failed(r) \in PodType /\ Punctual(Failed(r)) /\ Quits(Failed(r))
<1> DEFINE t == [r EXCEPT !.is_leader = TRUE, !.lease_healthy = TRUE]
           f == [r EXCEPT !.is_leader = FALSE, !.lease_healthy = FALSE]
           g == [r EXCEPT !.is_leader = FALSE]
<1>1. /\ t \in PodType /\ t.mode = r.mode /\ t.is_leader = TRUE
      /\ f \in PodType /\ f.mode = r.mode /\ f.is_leader = FALSE
      /\ g \in PodType /\ g.mode = r.mode /\ g.is_leader = FALSE
  BY FlagFacts
<1> HIDE DEF t, f, g
<1>2. Acquired(r) \in PodType /\ Punctual(Acquired(r)) /\ Leads(Acquired(r))
  <2>1. CASE r.is_leader
    <3> DEFINE q == Sleep(r, RenewInterval)
    <3>1. /\ q \in PodType /\ q.step = "sleep" /\ q.timer = RenewInterval
          /\ q.mode = r.mode /\ q.is_leader = r.is_leader
      BY SleepFacts, Numbers
    <3>2. Acquired(r) = q
      BY <2>1 DEF Acquired
    <3> HIDE DEF q
    <3>3. q.is_leader
      BY <2>1, <3>1
    <3>4. Leads(q)
      BY <3>1, <3>3 DEF Leads
    <3>5. Punctual(q)
      BY <3>1, Numbers DEF Punctual
    <3> QED BY <3>1, <3>2, <3>4, <3>5
  <2>2. CASE ~r.is_leader
    <3> DEFINE q == Await(t, "label_leader")
    <3>1. /\ q \in PodType /\ q.step = "label_leader" /\ q.timer = MaxDelay
          /\ q.mode = r.mode /\ q.is_leader = TRUE
      BY <1>1, AwaitFacts
    <3>2. Acquired(r) = q
      BY <2>2 DEF Acquired, t
    <3> HIDE DEF q
    <3> QED BY <3>1, <3>2, Numbers DEF Punctual, Leads
  <2> QED BY <2>1, <2>2
<1>3. Refused(r) \in PodType /\ Punctual(Refused(r)) /\ Quits(Refused(r))
  <2>1. CASE r.is_leader
    <3> DEFINE q == Await(f, "label_follower")
    <3>1. /\ q \in PodType /\ q.step = "label_follower" /\ q.mode = r.mode
          /\ q.is_leader = FALSE
      BY <1>1, AwaitFacts
    <3>2. Refused(r) = q
      BY <2>1 DEF Refused, f
    <3> HIDE DEF q
    <3> QED BY <3>1, <3>2 DEF Punctual, Quits
  <2>2. CASE ~r.is_leader
    <3> DEFINE q == Sleep(r, RetryInterval)
    <3>1. q \in PodType /\ q.step = "sleep" /\ q.mode = r.mode /\ q.is_leader = r.is_leader
      BY SleepFacts, Numbers
    <3>2. Refused(r) = q
      BY <2>2 DEF Refused
    <3> HIDE DEF q
    <3> QED BY <2>2, <3>1, <3>2 DEF Punctual, Quits
  <2> QED BY <2>1, <2>2
<1>4. Failed(r) \in PodType /\ Punctual(Failed(r)) /\ Quits(Failed(r))
  <2> DEFINE q == Sleep(g, RetryInterval)
  <2>1. q \in PodType /\ q.step = "sleep" /\ q.mode = r.mode /\ q.is_leader = FALSE
    BY <1>1, SleepFacts, Numbers
  <2>2. Failed(r) = q
    BY DEF Failed, g
  <2> HIDE DEF q
  <2> QED BY <2>1, <2>2 DEF Punctual, Quits
<1> QED BY <1>2, <1>3, <1>4

(* The lease a pod writes is not older than the requests it made. *)
LEMMA WritesType ==
  ASSUME NEW p \in Pods, NEW r \in PodType
  PROVE  [holder |-> p, age |-> r.since] \in LeaseType
<1>1. r.since \in 0..(2 * MaxDelay)
  BY DEF PodType
<1>2. r.since \in 0..(MaxAge + MaxDelay)
  BY <1>1, Numbers DEF MaxAge
<1> QED BY <1>2 DEF LeaseType

(* A step of one pod. *)
Moves(p) ==
  /\ \E q \in PodType :
       Punctual(q) /\ Kind(p, pod[p], q) /\ pod' = [pod EXCEPT ![p] = q]
  /\ lease' \in LeaseType
  /\ faults' \in 0..MaxFaults
  /\ overlap' = overlap

PodNext(p) == Elector(p) \/ Main(p) \/ ProbeKill(p) \/ RequestFails(p) \/ Crash(p)

(* Every step of a pod, its elector, main, the kubelet, or a failure, is one of these. *)
LEMMA PodMoves ==
  ASSUME EInv, NEW p \in Pods, PodNext(p)
  PROVE  Moves(p)
<1> DEFINE r == pod[p]
           St(q) == q \in PodType /\ Punctual(q) /\ Kind(p, r, q) /\ pod' = [pod EXCEPT ![p] = q]
<1>1. r \in PodType /\ Punctual(r) /\ lease \in LeaseType
  BY DEF EInv, TypeOK, AllPunctual, LeaseType
<1>2. overlap' = overlap
  BY DEF PodNext, Elector, Wake, ReadLease, CreateLease, PatchLease, PatchLabel, Main,
         ChooseMode, Watch, Restart, FirstMessage, ProbeKill, RequestFails, Crash
<1>3. faults' \in 0..MaxFaults
  <2>1. faults' = faults \/ (faults < MaxFaults /\ faults' = faults + 1)
    BY DEF PodNext, Elector, Wake, ReadLease, CreateLease, PatchLease, PatchLabel, Main,
           ChooseMode, Watch, Restart, FirstMessage, ProbeKill, RequestFails, Crash
  <2>2. faults \in 0..MaxFaults
    BY DEF EInv, TypeOK
  <2> QED BY <2>1, <2>2, Numbers
<1>4. lease' \in LeaseType
  <2>1. lease' = lease \/ lease' = [holder |-> p, age |-> r.since]
    BY DEF PodNext, Elector, Wake, ReadLease, CreateLease, PatchLease, PatchLabel, Main,
           ChooseMode, Watch, Restart, FirstMessage, ProbeKill, RequestFails, Crash
  <2> QED BY <1>1, <2>1, WritesType
<1> SUFFICES \E q : St(q)
  BY <1>2, <1>3, <1>4 DEF Moves
<1>5. r.step # "none" => r.mode # "down"
  BY <1>1 DEF Punctual, PodType
<1> HIDE DEF r
<1>6. CASE Wake(p)
  <2> DEFINE a == Await(r, "read")
             q == [a EXCEPT !.since = 0]
  <2>1. /\ r.step = "sleep" /\ r.timer = 0 /\ lease' = lease
        /\ pod' = [pod EXCEPT ![p] = q]
    BY <1>6 DEF Wake, r
  <2>2. /\ a \in PodType /\ a.step = "read" /\ a.timer = MaxDelay
        /\ a.mode = r.mode /\ a.is_leader = r.is_leader
    BY <1>1, AwaitFacts
  <2> HIDE DEF a
  <2>3. 0 \in 0..(2 * MaxDelay)
    BY Numbers
  <2>4. /\ q \in PodType /\ q.step = "read" /\ q.timer = MaxDelay /\ q.since = 0
        /\ q.mode = r.mode /\ q.is_leader = r.is_leader
    BY <2>2, <2>3 DEF PodType
  <2> HIDE DEF q
  <2>5. Punctual(q)
    BY <1>5, <2>1, <2>4, Numbers DEF Punctual
  <2>6. Kind(p, r, q)
    BY <2>1, <2>4 DEF Kind, Wakes
  <2>7. St(q)
    BY <2>1, <2>4, <2>5, <2>6
  <2> QED BY <2>7
<1>7. CASE ReadLease(p)
  <2>1. /\ r.step = "read" /\ lease' = lease
        /\ pod' = [pod EXCEPT ![p] =
             IF lease.holder = NoPod THEN Await(r, "create")
             ELSE IF lease.holder = p \/ Expired(p) THEN Await(r, "patch")
             ELSE Refused(r)]
    BY <1>7 DEF ReadLease, r
  <2>2. r.mode # "down"
    BY <1>5, <2>1
  <2>3. ASSUME NEW step \in {"create", "patch"}
        PROVE  /\ Await(r, step) \in PodType /\ Punctual(Await(r, step))
               /\ Await(r, step).step = step /\ Await(r, step).timer = MaxDelay
               /\ Await(r, step).is_leader = r.is_leader
    <3> DEFINE q == Await(r, step)
    <3>1. /\ q \in PodType /\ q.step = step /\ q.timer = MaxDelay /\ q.since = r.since
          /\ q.mode = r.mode /\ q.is_leader = r.is_leader
      BY <1>1, AwaitFacts
    <3> HIDE DEF q
    <3>2. r.since \in Nat /\ r.timer \in Nat /\ r.since + r.timer <= MaxDelay
      BY <1>1, <2>1, Numbers DEF PodType, Punctual
    <3>3. r.since + MaxDelay <= 2 * MaxDelay
      BY <3>2, Numbers
    <3>4. Punctual(q)
      BY <2>2, <3>1, <3>3, Numbers DEF Punctual
    <3> QED BY <3>1, <3>4 DEF q
  <2>4. CASE lease.holder = NoPod
    <3>1. St(Await(r, "create"))
      BY <2>1, <2>3, <2>4 DEF Kind, Creates
    <3> QED BY <3>1
  <2>5. CASE lease.holder # NoPod /\ (lease.holder = p \/ Expired(p))
    <3>1. St(Await(r, "patch"))
      BY <2>1, <2>3, <2>5 DEF Kind, Renews
    <3> QED BY <3>1
  <2>6. CASE lease.holder # NoPod /\ ~(lease.holder = p \/ Expired(p))
    <3>1. Refused(r) \in PodType /\ Punctual(Refused(r)) /\ Quits(Refused(r))
      BY <1>1, <2>2, Outcomes
    <3>2. St(Refused(r))
      BY <2>1, <2>6, <3>1 DEF Kind
    <3> QED BY <3>2
  <2> QED BY <2>4, <2>5, <2>6
<1>8. CASE CreateLease(p) \/ PatchLease(p)
  <2>1. r.step \in {"create", "patch"}
    BY <1>8 DEF CreateLease, PatchLease, r
  <2>2. /\ Acquired(r) \in PodType /\ Punctual(Acquired(r)) /\ Leads(Acquired(r))
        /\ Failed(r) \in PodType /\ Punctual(Failed(r)) /\ Quits(Failed(r))
    BY <1>1, <1>5, <2>1, Outcomes
  <2>3. CASE Writes(p, r) /\ pod' = [pod EXCEPT ![p] = Acquired(r)]
    <3>1. St(Acquired(r))
      BY <2>2, <2>3 DEF Kind
    <3> QED BY <3>1
  <2>4. CASE lease' = lease /\ pod' = [pod EXCEPT ![p] = Failed(r)]
    <3>1. St(Failed(r))
      BY <2>2, <2>4 DEF Kind
    <3> QED BY <3>1
  <2> QED BY <1>8, <2>3, <2>4 DEF CreateLease, PatchLease, Writes, r
<1>9. ASSUME r.step \in {"label_leader", "label_follower"}
      PROVE  AfterLabel(r) \in PodType /\ Punctual(AfterLabel(r))
             /\ (Rests(r, AfterLabel(r)) \/ Quits(AfterLabel(r)))
  <2> DEFINE n == IF r.step = "label_leader" THEN RenewInterval ELSE RetryInterval
             q == Sleep(r, n)
  <2>1. n \in Nat
    BY Numbers
  <2> HIDE DEF n
  <2>2. /\ q \in PodType /\ q.step = "sleep" /\ q.timer = n /\ q.mode = r.mode
        /\ q.is_leader = r.is_leader
    BY <1>1, <2>1, SleepFacts
  <2>3. AfterLabel(r) = q
    BY DEF AfterLabel, n
  <2> HIDE DEF q
  <2>4. CASE r.step = "label_leader"
    <3>1. q.timer = RenewInterval
      BY <2>2, <2>4 DEF n
    <3>2. Rests(r, q)
      BY <2>2, <2>4, <3>1 DEF Rests
    <3>3. Punctual(q)
      BY <1>5, <2>2, <2>4, <3>1, Numbers DEF Punctual
    <3> QED BY <2>2, <2>3, <3>2, <3>3
  <2>5. CASE r.step = "label_follower"
    <3>1. ~r.is_leader
      BY <1>1, <2>5 DEF Punctual
    <3>2. ~q.is_leader
      BY <2>2, <3>1
    <3>3. Quits(q)
      BY <2>2, <3>2 DEF Quits
    <3>4. Punctual(q)
      BY <1>5, <2>2, <2>5, <3>2 DEF Punctual
    <3> QED BY <2>2, <2>3, <3>3, <3>4
  <2> QED BY <1>9, <2>4, <2>5
<1>10. CASE PatchLabel(p)
  <2>1. /\ r.step \in {"label_leader", "label_follower"} /\ lease' = lease
        /\ pod' = [pod EXCEPT ![p] = AfterLabel(r)]
    BY <1>10 DEF PatchLabel, r
  <2>2. St(AfterLabel(r))
    BY <1>9, <2>1 DEF Kind
  <2> QED BY <2>2
<1>11. CASE RequestFails(p)
  <2>1. CASE /\ r.step \in {"read", "create", "patch"}
             /\ pod' = [pod EXCEPT ![p] = Failed(r)]
             /\ lease' = lease \/ Writes(p, r)
    <3>1. Failed(r) \in PodType /\ Punctual(Failed(r)) /\ Quits(Failed(r))
      BY <1>1, <1>5, <2>1, Outcomes
    <3>2. St(Failed(r))
      BY <2>1, <3>1 DEF Kind
    <3> QED BY <3>2
  <2>2. CASE /\ r.step \in {"label_leader", "label_follower"} /\ lease' = lease
             /\ pod' = [pod EXCEPT ![p] = AfterLabel(r)]
    <3>1. St(AfterLabel(r))
      BY <1>9, <2>2 DEF Kind
    <3> QED BY <3>1
  <2> QED BY <1>11, <2>1, <2>2 DEF RequestFails, Writes, r
<1>12. CASE Crash(p) \/ Restart(p) \/ ProbeKill(p)
  <2>1. /\ lease' = lease
        /\ \E q \in {Started, Stopped(MaxDown), Stopped(MaxRestart)} :
             pod' = [pod EXCEPT ![p] = q]
    BY <1>12 DEF Crash, Restart, ProbeKill
  <2>2. \A q \in {Started, Stopped(MaxDown), Stopped(MaxRestart)} :
          q \in PodType /\ Punctual(q) /\ Quits(q)
    BY NewProcess, Numbers
  <2>3. PICK q : q \in PodType /\ Punctual(q) /\ Quits(q) /\ pod' = [pod EXCEPT ![p] = q]
    BY <2>1, <2>2
  <2>4. St(q)
    BY <2>1, <2>3 DEF Kind
  <2> QED BY <2>4
<1>13. ASSUME NEW q \in PodType, q.step = r.step, q.timer = r.timer, q.since = r.since,
              q.is_leader = r.is_leader, q.mode # "down", lease' = lease,
              pod' = [pod EXCEPT ![p] = q]
       PROVE  St(q)
  <2>1. Punctual(q)
    BY <1>1, <1>13 DEF Punctual
  <2>2. Kind(p, r, q)
    BY <1>13 DEF Kind, Stays
  <2> QED BY <1>13, <2>1, <2>2
<1>14. CASE ChooseMode(p)
  <2> DEFINE m == IF pod[p].is_leader THEN "leader" ELSE "follower"
             q == [r EXCEPT !.mode = m, !.wait = WatchInterval]
  <2>1. m \in {"leader", "follower"}
    OBVIOUS
  <2>2. lease' = lease /\ pod' = [pod EXCEPT ![p] = q]
    BY <1>14 DEF ChooseMode, EInv, TypeOK, r
  <2> HIDE DEF m
  <2>3. /\ q \in PodType /\ q.step = r.step /\ q.timer = r.timer /\ q.since = r.since
        /\ q.is_leader = r.is_leader /\ q.mode # "down"
    BY <1>1, <2>1, Numbers DEF PodType
  <2> HIDE DEF q
  <2>4. St(q)
    BY <1>13, <2>2, <2>3
  <2> QED BY <2>4
<1>15. CASE Watch(p)
  <2>1. CASE pod' = [pod EXCEPT ![p] = Stopped(MaxRestart)] /\ lease' = lease
    <3>1. St(Stopped(MaxRestart))
      BY <2>1, NewProcess, Numbers DEF Kind
    <3> QED BY <3>1
  <2>2. CASE pod' = [pod EXCEPT ![p] = [r EXCEPT !.wait = WatchInterval]] /\ lease' = lease
    <3> DEFINE q == [r EXCEPT !.wait = WatchInterval]
    <3>1. r.mode = "follower"
      BY <1>15 DEF Watch, r
    <3>2. /\ q \in PodType /\ q.step = r.step /\ q.timer = r.timer /\ q.since = r.since
          /\ q.is_leader = r.is_leader /\ q.mode # "down"
      BY <1>1, <3>1, Numbers DEF PodType
    <3>3. lease' = lease /\ pod' = [pod EXCEPT ![p] = q]
      BY <2>2
    <3> HIDE DEF q
    <3>4. St(q)
      BY <1>13, <3>2, <3>3
    <3> QED BY <3>4
  <2> QED BY <1>15, <2>1, <2>2 DEF Watch, r
<1>16. CASE FirstMessage(p)
  <2> DEFINE q == [r EXCEPT !.kafka_ready = TRUE]
  <2>1. lease' = lease /\ pod' = [pod EXCEPT ![p] = q]
    BY <1>16 DEF FirstMessage, EInv, TypeOK, r
  <2>2. r.mode # "down"
    BY <1>16 DEF FirstMessage, Waiting, r
  <2>3. /\ q \in PodType /\ q.step = r.step /\ q.timer = r.timer /\ q.since = r.since
        /\ q.is_leader = r.is_leader /\ q.mode # "down"
    BY <1>1, <2>2 DEF PodType
  <2> HIDE DEF q
  <2>4. St(q)
    BY <1>13, <2>1, <2>3
  <2> QED BY <2>4
<1> QED BY <1>6, <1>7, <1>8, <1>10, <1>11, <1>12, <1>14, <1>15, <1>16
    DEF PodNext, Elector, Main

(* A second passes for one pod: the timers that run are not over yet. *)
Ticked(r) ==
  [r EXCEPT !.timer = IF r.mode = "down" THEN 0 ELSE @ - 1,
            !.wait = IF r.mode = "leader" THEN 0 ELSE @ - 1,
            !.sick = IF r.mode = "down" \/ Healthz(r) THEN 0
                     ELSE MinOf(ProbeGrace, @ + 1),
            !.since = IF r.step \in {"read", "create", "patch"} THEN @ + 1 ELSE 0]

(* Time passes for a pod with nothing due. *)
LEMMA TickedFacts ==
  ASSUME NEW r \in PodType, Punctual(r), ~Due(r)
  PROVE  /\ Ticked(r) \in PodType /\ Punctual(Ticked(r))
         /\ Ticked(r).step = r.step /\ Ticked(r).is_leader = r.is_leader
         /\ r.mode # "down" => r.timer \in Nat \ {0} /\ Ticked(r).timer = r.timer - 1
<1> DEFINE t == IF r.mode = "down" THEN 0 ELSE r.timer - 1
           w == IF r.mode = "leader" THEN 0 ELSE r.wait - 1
           k == IF r.mode = "down" \/ Healthz(r) THEN 0 ELSE MinOf(ProbeGrace, r.sick + 1)
           n == IF r.step \in {"read", "create", "patch"} THEN r.since + 1 ELSE 0
           q == [r EXCEPT !.timer = t, !.wait = w, !.sick = k, !.since = n]
<1>1. /\ r.timer \in Nat /\ r.wait \in Nat /\ r.since \in 0..(2 * MaxDelay)
      /\ r.sick \in 0..ProbeGrace
  BY DEF PodType
<1>2. (r.mode # "down" => r.timer # 0) /\ (r.mode # "leader" => r.wait # 0)
  BY DEF Due
<1>3. t \in Nat /\ (r.mode # "down" => t = r.timer - 1 /\ r.timer \in Nat \ {0}) /\ w \in Nat
  BY <1>1, <1>2
<1>4. k \in 0..ProbeGrace
  <2>1. MinOf(ProbeGrace, r.sick + 1) \in 0..ProbeGrace
    BY <1>1, Numbers DEF MinOf
  <2> QED BY <2>1, Numbers
<1>5. r.step \in {"read", "create", "patch"} => r.mode # "down"
  BY DEF Punctual
<1>6. n \in 0..(2 * MaxDelay) /\ (r.step \in {"read", "create", "patch"} => n + t = r.since + r.timer)
  <2>1. CASE r.step \in {"read", "create", "patch"}
    <3>1. r.since + r.timer <= 2 * MaxDelay
      <4>1. CASE r.step = "read"
        BY <1>1, <4>1, Numbers DEF Punctual
      <4>2. CASE r.step \in {"create", "patch"}
        BY <4>2 DEF Punctual
      <4> QED BY <2>1, <4>1, <4>2
    <3>2. n = r.since + 1 /\ t = r.timer - 1 /\ r.timer \in Nat \ {0}
      BY <1>3, <1>5, <2>1
    <3> HIDE DEF n, t
    <3> QED BY <1>1, <3>1, <3>2, Numbers
  <2>2. CASE ~(r.step \in {"read", "create", "patch"})
    BY <2>2, Numbers
  <2> QED BY <2>1, <2>2
<1>7. Ticked(r) = q
  BY DEF Ticked
<1> HIDE DEF t, w, k, n
<1>8. /\ q \in PodType /\ q.step = r.step /\ q.is_leader = r.is_leader /\ q.mode = r.mode
      /\ q.timer = t /\ q.since = n
  BY <1>3, <1>4, <1>6 DEF PodType
<1> HIDE DEF q
<1>9. t <= r.timer
  <2>1. CASE r.mode = "down"
    BY <1>1, <2>1 DEF t
  <2>2. CASE r.mode # "down"
    BY <1>1, <1>3, <2>2
  <2> QED BY <2>1, <2>2
<1>10. Punctual(q)
  <2>1. /\ q.mode = "down" => q.step = "none" /\ ~q.is_leader
        /\ q.step = "label_follower" => ~q.is_leader
    BY <1>8 DEF Punctual
  <2>2. /\ q.step = "read" => q.since + q.timer <= MaxDelay
        /\ q.step \in {"create", "patch"} => q.since + q.timer <= 2 * MaxDelay
    BY <1>6, <1>8 DEF Punctual
  <2>3. /\ q.step \in {"create", "patch"} => q.timer <= MaxDelay
        /\ q.step = "label_leader" => q.timer <= MaxDelay
        /\ q.step = "sleep" /\ q.is_leader => q.timer <= RenewInterval
    BY <1>1, <1>3, <1>8, <1>9, Numbers DEF Punctual
  <2> QED BY <2>1, <2>2, <2>3 DEF Punctual
<1> QED BY <1>3, <1>7, <1>8, <1>10

(* Tick keeps the types, and its clocks run with each other. *)
LEMMA TickFacts ==
  ASSUME EInv, Tick
  PROVE  /\ pod' = [p \in Pods |-> Ticked(pod[p])]
         /\ lease' \in LeaseType /\ lease'.holder = lease.holder
         /\ lease.age \in Nat /\ lease'.age \in Nat /\ lease'.age <= lease.age + 1
         /\ overlap \in Nat /\ overlap' \in 0..MaxOverlap /\ overlap' <= overlap + 1
         /\ overlap' > 0 => Cardinality(Believers) > 1
         /\ faults' = faults
<1>1. pod' = [p \in Pods |-> Ticked(pod[p])] /\ faults' = faults
  BY DEF Tick, Ticked
<1>2. lease \in LeaseType /\ overlap \in 0..MaxOverlap
  BY DEF EInv, TypeOK, LeaseType
<1> DEFINE a == IF lease.holder = NoPod THEN 0 ELSE MinOf(MaxAge, lease.age + 1)
<1>3. lease' = [lease EXCEPT !.age = a]
  BY DEF Tick
<1>4. lease.age \in Nat /\ lease.age <= MaxAge + MaxDelay
  BY <1>2, Numbers DEF LeaseType
<1>5. a \in 0..(MaxAge + MaxDelay) /\ a \in Nat /\ a <= lease.age + 1
  BY <1>4, Numbers DEF MinOf
<1> HIDE DEF a
<1>6. lease' \in LeaseType /\ lease'.holder = lease.holder /\ lease'.age = a
  BY <1>2, <1>3, <1>5 DEF LeaseType
<1>7. overlap \in Nat
  BY <1>2, Numbers
<1>8. /\ overlap' \in 0..MaxOverlap /\ overlap' <= overlap + 1
      /\ overlap' > 0 => Cardinality(Believers) > 1
  <2>1. overlap' = IF Cardinality(Believers) > 1 THEN MinOf(MaxOverlap, overlap + 1) ELSE 0
    BY DEF Tick
  <2>2. /\ MinOf(MaxOverlap, overlap + 1) \in 0..MaxOverlap
        /\ MinOf(MaxOverlap, overlap + 1) <= overlap + 1
    BY <1>7, Numbers DEF MinOf
  <2>3. CASE Cardinality(Believers) > 1
    BY <2>1, <2>2, <2>3
  <2>4. CASE ~(Cardinality(Believers) > 1)
    BY <1>7, <2>1, <2>4, Numbers
  <2> QED BY <2>3, <2>4
<1> QED BY <1>1, <1>4, <1>5, <1>6, <1>7, <1>8

(* The types and the punctuality of the pods are inductive. *)
LEMMA NextEInv == EInv /\ [Next]_vars => EInv'
<1> SUFFICES ASSUME EInv, [Next]_vars PROVE EInv'
  OBVIOUS
<1>1. CASE UNCHANGED vars
  BY <1>1 DEF vars, EInv, TypeOK, AllPunctual
<1>2. CASE Tick
  <2>1. \A p \in Pods : pod[p] \in PodType /\ Punctual(pod[p]) /\ ~Due(pod[p])
    BY <1>2 DEF EInv, TypeOK, AllPunctual, Tick
  <2>2. \A p \in Pods : Ticked(pod[p]) \in PodType /\ Punctual(Ticked(pod[p]))
    BY <2>1, TickedFacts
  <2>3. pod' = [p \in Pods |-> Ticked(pod[p])]
    BY <1>2, TickFacts
  <2>4. pod' \in [Pods -> PodType] /\ AllPunctual'
    BY <2>2, <2>3 DEF AllPunctual
  <2>5. lease' \in LeaseType /\ overlap' \in 0..MaxOverlap /\ faults' \in 0..MaxFaults
    BY <1>2, TickFacts DEF EInv, TypeOK
  <2> QED BY <2>4, <2>5 DEF EInv, TypeOK, LeaseType
<1>3. ASSUME NEW p \in Pods, PodNext(p) PROVE EInv'
  <2>1. Moves(p)
    BY <1>3, PodMoves
  <2>2. PICK q \in PodType : Punctual(q) /\ pod' = [pod EXCEPT ![p] = q]
    BY <2>1 DEF Moves
  <2>3. pod' \in [Pods -> PodType] /\ AllPunctual'
    BY <1>3, <2>2 DEF EInv, TypeOK, AllPunctual
  <2>4. lease' \in LeaseType /\ overlap' \in 0..MaxOverlap /\ faults' \in 0..MaxFaults
    BY <2>1 DEF Moves, EInv, TypeOK
  <2> QED BY <2>3, <2>4 DEF EInv, TypeOK, LeaseType
<1> QED BY <1>1, <1>2, <1>3 DEF Next, PodNext

(* No lease, and every pod about to start. *)
LEMMA InitEInv == Init => EInv
<1> SUFFICES ASSUME Init PROVE EInv
  OBVIOUS
<1>1. pod \in [Pods -> PodType] /\ AllPunctual
  BY NewProcess DEF Init, AllPunctual
<1>2. lease \in [holder : Pods \cup {NoPod}, age : 0..(MaxAge + MaxDelay)]
  <2>1. 0 \in 0..(MaxAge + MaxDelay)
    BY Numbers
  <2> QED BY <2>1 DEF Init
<1>3. faults \in 0..MaxFaults /\ overlap \in 0..MaxOverlap
  BY Numbers DEF Init
<1> QED BY <1>1, <1>2, <1>3 DEF EInv, TypeOK

(* Type correctness for every number of pods and every set of delays: no timer is
   overrun, no request and no lease grows older than its bounds. *)
THEOREM ElectionTypes == Spec => []TypeOK
<1>1. EInv => TypeOK
  BY DEF EInv
<1> QED BY <1>1, InitEInv, NextEInv, PTL DEF Spec
-----------------------------------------------------------------------------
(* Where somebody believes that he leads, or did a moment ago, the lease is not
   expired. *)
LEMMA NotExpired ==
  ASSUME EInv, TimelyRequests, NEW p \in Pods,
         lease.age <= RenewInterval + 5 * MaxDelay
  PROVE  ~Expired(p)
<1>1. pod[p].since \in Nat /\ lease.age \in Nat
  <2>1. pod[p] \in PodType /\ lease \in LeaseType
    BY DEF EInv, TypeOK, LeaseType
  <2> QED BY <2>1, Numbers DEF PodType, LeaseType
<1> QED BY <1>1, Numbers DEF Expired, TimelyRequests

(* A fresh lease is younger than an interval and five requests. *)
LEMMA FreshAge ==
  ASSUME NEW r \in PodType, NEW l \in LeaseType, Fresh(l, r)
  PROVE  l.age <= RenewInterval + 5 * MaxDelay
<1>1. l.age \in Nat /\ r.timer \in Nat
  BY Numbers DEF LeaseType, PodType
<1> QED BY <1>1, Numbers DEF Fresh

(* The clocks of a pod that goes on believing run with the age of the lease ... *)
LEMMA FreshGoesOn ==
  ASSUME NEW r \in PodType, NEW q \in PodType, NEW l \in LeaseType, Fresh(l, r),
         \/ Stays(r, q) \/ Wakes(r, q) \/ Rests(r, q) \/ Renews(r, q)
  PROVE  Fresh(l, q)
<1>1. l.age \in Nat /\ r.timer \in Nat
  BY Numbers DEF LeaseType, PodType
<1>2. CASE Stays(r, q)
  BY <1>2 DEF Fresh, Stays
<1>3. CASE Wakes(r, q)
  <2>1. l.age <= RenewInterval + 3 * MaxDelay
    BY <1>1, <1>3 DEF Fresh, Wakes
  <2>2. l.age + MaxDelay <= RenewInterval + 4 * MaxDelay
    BY <1>1, <2>1, Numbers
  <2> QED BY <1>3, <2>2 DEF Fresh, Wakes
<1>4. CASE Rests(r, q)
  <2>1. l.age <= 3 * MaxDelay
    BY <1>1, <1>4, Numbers DEF Fresh, Rests
  <2>2. l.age + RenewInterval <= RenewInterval + 3 * MaxDelay
    BY <1>1, <2>1, Numbers
  <2> QED BY <1>4, <2>2 DEF Fresh, Rests
<1>5. CASE Renews(r, q)
  <2>1. l.age <= RenewInterval + 4 * MaxDelay
    BY <1>1, <1>5, Numbers DEF Fresh, Renews
  <2>2. l.age + MaxDelay <= RenewInterval + 5 * MaxDelay
    BY <1>1, <2>1, Numbers
  <2> QED BY <1>5, <2>2 DEF Fresh, Renews
<1> QED BY <1>2, <1>3, <1>4, <1>5

(* ... and a new lease is fresh for everybody. *)
LEMMA FreshWritten ==
  ASSUME NEW p \in Pods, NEW r \in PodType, NEW q \in PodType, Punctual(q),
         \/ Leads(q)
         \/ q.is_leader /\ q.step \in {"label_leader", "sleep", "read", "patch"}
  PROVE  Fresh([holder |-> p, age |-> r.since], q)
<1> DEFINE n == r.since
<1>1. n \in Nat /\ n <= 2 * MaxDelay /\ q.timer \in Nat /\ q.since \in Nat /\ p # NoPod
  BY Numbers DEF PodType
<1>2. q.is_leader /\ q.step \in {"label_leader", "sleep", "read", "patch"}
  BY DEF Leads
<1> HIDE DEF n
<1>3. CASE q.step = "label_leader"
  <2>1. q.timer <= MaxDelay
    BY <1>3 DEF Punctual
  <2>2. n + q.timer <= 3 * MaxDelay
    BY <1>1, <2>1, Numbers
  <2> QED BY <1>1, <1>3, <2>2 DEF Fresh, n
<1>4. CASE q.step = "sleep"
  <2>1. q.timer <= RenewInterval
    BY <1>2, <1>4 DEF Punctual
  <2>2. n + q.timer <= RenewInterval + 3 * MaxDelay
    BY <1>1, <2>1, Numbers
  <2> QED BY <1>1, <1>4, <2>2 DEF Fresh, n
<1>5. CASE q.step = "read"
  <2>1. q.since + q.timer <= MaxDelay
    BY <1>5 DEF Punctual
  <2>2. n + q.timer <= RenewInterval + 4 * MaxDelay
    BY <1>1, <2>1, Numbers
  <2> QED BY <1>1, <1>5, <2>2 DEF Fresh, n
<1>6. CASE q.step = "patch"
  <2>1. q.timer <= MaxDelay
    BY <1>6 DEF Punctual
  <2>2. n + q.timer <= RenewInterval + 5 * MaxDelay
    BY <1>1, <2>1, Numbers
  <2> QED BY <1>1, <1>6, <2>2 DEF Fresh, n
<1> QED BY <1>2, <1>3, <1>4, <1>5, <1>6

(* The same for what is left of the bound. *)
LEMMA LosingGoesOn ==
  ASSUME NEW r \in PodType, NEW q \in PodType, NEW n \in Nat, Losing(n, r),
         Stays(r, q) \/ Wakes(r, q) \/ Rests(r, q)
  PROVE  Losing(n, q)
<1>1. r.timer \in Nat
  BY DEF PodType
<1>2. CASE Stays(r, q)
  BY <1>2 DEF Losing, Stays
<1>3. CASE Wakes(r, q)
  <2>1. n <= RenewInterval + MaxDelay
    BY <1>1, <1>3 DEF Losing, Wakes
  <2>2. n + MaxDelay <= RenewInterval + 2 * MaxDelay
    BY <2>1, Numbers
  <2> QED BY <1>3, <2>2 DEF Losing, Wakes
<1>4. CASE Rests(r, q)
  <2>1. n <= MaxDelay
    BY <1>1, <1>4, Numbers DEF Losing, Rests
  <2>2. n + RenewInterval <= RenewInterval + MaxDelay
    BY <2>1, Numbers
  <2> QED BY <1>4, <2>2 DEF Losing, Rests
<1> QED BY <1>2, <1>3, <1>4

(* A pod moves, and the others see the same lease or the one it wrote. *)
LEMMA MovesFresh ==
  ASSUME EInv, BelieversFresh, NEW p \in Pods, Moves(p)
  PROVE  BelieversFresh'
<1> DEFINE r == pod[p]
<1>1. PICK q \in PodType : Punctual(q) /\ Kind(p, r, q) /\ pod' = [pod EXCEPT ![p] = q]
  BY DEF Moves
<1>2. \A x \in Pods : pod[x] \in PodType /\ Punctual(pod[x])
  BY DEF EInv, TypeOK, AllPunctual
<1>3. \A x \in Pods : pod'[x] = IF x = p THEN q ELSE pod[x]
  BY <1>1 DEF EInv, TypeOK
<1>4. lease \in LeaseType
  BY DEF EInv, TypeOK, LeaseType
<1>5. ASSUME NEW x \in Pods, pod'[x].is_leader
      PROVE  Fresh(lease', pod'[x])
  <2>1. CASE x # p
    <3>1. pod'[x] = pod[x] /\ Fresh(lease, pod[x])
      BY <1>3, <1>5, <2>1 DEF BelieversFresh
    <3>2. CASE lease' = lease
      BY <3>1, <3>2
    <3>3. CASE Writes(p, r)
      <4>1. pod[x].step \in {"label_leader", "sleep", "read", "patch"}
        BY <3>1 DEF Fresh
      <4>2. lease' = [holder |-> p, age |-> r.since]
        BY <3>3 DEF Writes
      <4>3. Fresh([holder |-> p, age |-> r.since], pod[x])
        <5> HIDE DEF r
        <5> QED BY <1>2, <1>5, <3>1, <4>1, FreshWritten DEF r
      <4> QED BY <3>1, <4>2, <4>3
    <3> QED BY <1>1, <3>2, <3>3 DEF Kind
  <2>2. CASE x = p
    <3>1. pod'[x] = q /\ q.is_leader
      BY <1>3, <1>5, <2>2
    <3>2. CASE Writes(p, r) /\ Leads(q)
      <4>1. lease' = [holder |-> p, age |-> r.since]
        BY <3>2 DEF Writes
      <4>2. Fresh([holder |-> p, age |-> r.since], q)
        BY <1>1, <1>2, <3>2, FreshWritten
      <4> QED BY <3>1, <4>1, <4>2
    <3>3. CASE Quits(q)
      BY <3>1, <3>3 DEF Quits
    <3>4. CASE lease' = lease /\ \/ Stays(r, q) \/ Wakes(r, q) \/ Rests(r, q) \/ Renews(r, q)
      <4>1. r.is_leader
        BY <3>1, <3>4 DEF Stays, Wakes, Rests, Renews
      <4>2. Fresh(lease, r)
        BY <4>1 DEF BelieversFresh
      <4>3. Fresh(lease, q)
        <5> HIDE DEF r
        <5> QED BY <1>1, <1>2, <1>4, <3>4, <4>2, FreshGoesOn DEF r
      <4> QED BY <3>1, <3>4, <4>3
    <3>5. CASE Creates(r, q)
      <4>1. r.is_leader /\ lease.holder = NoPod
        BY <3>1, <3>5 DEF Creates
      <4>2. Fresh(lease, r)
        BY <4>1 DEF BelieversFresh
      <4> QED BY <4>1, <4>2 DEF Fresh
    <3> QED BY <1>1, <3>2, <3>3, <3>4, <3>5 DEF Kind
  <2> QED BY <2>1, <2>2
<1> QED BY <1>5 DEF BelieversFresh

(* A pod that loses the lease to another has the whole bound before it: nobody but
   the holder writes the lease while a split is on. *)
LEMMA MovesLosing ==
  ASSUME EInv, SplitInv, TimelyRequests, NEW p \in Pods, Moves(p)
  PROVE  LosersLeave'
<1> DEFINE r == pod[p]
<1>1. PICK q \in PodType : Punctual(q) /\ Kind(p, r, q) /\ pod' = [pod EXCEPT ![p] = q]
  BY DEF Moves
<1>2. \A x \in Pods : pod[x] \in PodType /\ Punctual(pod[x])
  BY DEF EInv, TypeOK, AllPunctual
<1>3. (\A x \in Pods : pod'[x] = IF x = p THEN q ELSE pod[x]) /\ overlap' = overlap
  BY <1>1 DEF EInv, TypeOK, Moves
<1>4. lease \in LeaseType /\ overlap \in Nat
  BY Numbers DEF EInv, TypeOK, LeaseType
<1>5. ASSUME NEW x \in Pods, pod'[x].is_leader, lease'.holder # x
      PROVE  Losing(overlap, pod'[x])
  <2>1. CASE x # p
    <3>1. pod'[x] = pod[x] /\ pod[x].is_leader
      BY <1>3, <1>5, <2>1
    <3>2. CASE lease.holder # x
      BY <3>1, <3>2 DEF SplitInv, LosersLeave
    <3>3. CASE lease.holder = x
      <4>1. x # NoPod /\ lease' # lease
        BY <1>5, <3>3, Numbers
      <4>2. r.step = "patch"
        BY <1>1, <3>3, <4>1 DEF Kind, Writes
      <4>3. Outlasts(pod[x], r)
        BY <2>1, <3>1, <3>3, <4>2 DEF SplitInv, PatchesFirst
      <4>4. overlap = 0
        <5>1. ~(overlap > 0)
          BY <2>1, <3>3, <4>2 DEF SplitInv, SplitEnds
        <5> QED BY <1>4, <5>1
      <4>5. pod[x].timer \in Nat
        BY <1>2 DEF PodType
      <4>6. CASE pod[x].step = "label_leader"
        <5>1. 0 + pod[x].timer <= MaxDelay
          BY <1>2, <4>5, <4>6 DEF Punctual
        <5> QED BY <3>1, <4>4, <4>6, <5>1 DEF Losing
      <4>7. CASE pod[x].step = "sleep"
        <5>1. pod[x].timer <= RenewInterval
          BY <1>2, <3>1, <4>7 DEF Punctual
        <5>2. 0 + pod[x].timer <= RenewInterval + MaxDelay
          BY <4>5, <5>1, Numbers
        <5> QED BY <3>1, <4>4, <4>7, <5>2 DEF Losing
      <4> QED BY <4>3, <4>6, <4>7 DEF Outlasts
    <3> QED BY <3>2, <3>3
  <2>2. CASE x = p
    <3>1. pod'[x] = q /\ q.is_leader /\ ~Quits(q)
      BY <1>3, <1>5, <2>2 DEF Quits
    <3>2. lease' = lease /\ lease.holder # p
      <4>1. ~Writes(p, r)
        BY <1>5, <2>2 DEF Writes
      <4> QED BY <1>1, <1>5, <2>2, <4>1 DEF Kind
    <3>3. CASE Stays(r, q) \/ Wakes(r, q) \/ Rests(r, q)
      <4>1. r.is_leader
        BY <3>1, <3>3 DEF Stays, Wakes, Rests
      <4>2. Losing(overlap, r)
        BY <3>2, <4>1 DEF SplitInv, LosersLeave
      <4>3. Losing(overlap, q)
        <5> HIDE DEF r
        <5> QED BY <1>1, <1>2, <1>4, <3>3, <4>2, LosingGoesOn DEF r
      <4> QED BY <3>1, <4>3
    <3>4. CASE Renews(r, q) /\ Expired(p)
      <4>1. r.is_leader
        BY <3>1, <3>4 DEF Renews
      <4>2. Fresh(lease, r)
        BY <4>1 DEF SplitInv, BelieversFresh
      <4>3. lease.age <= RenewInterval + 5 * MaxDelay
        <5> HIDE DEF r
        <5> QED BY <1>2, <1>4, <4>2, FreshAge DEF r
      <4> QED BY <3>4, <4>3, NotExpired
    <3>5. CASE Creates(r, q)
      <4>1. r.is_leader /\ lease.holder = NoPod
        BY <3>1, <3>5 DEF Creates
      <4>2. Fresh(lease, r)
        BY <4>1 DEF SplitInv, BelieversFresh
      <4> QED BY <4>1, <4>2 DEF Fresh
    <3>6. ~Writes(p, r)
      BY <1>5, <2>2 DEF Writes
    <3> QED BY <1>1, <3>1, <3>2, <3>3, <3>4, <3>5, <3>6 DEF Kind
  <2> QED BY <2>1, <2>2
<1> QED BY <1>3, <1>5 DEF LosersLeave

(* The holder that has just written the lease sleeps longer than a patch of the other
   pod can be on its way, and nobody begins a new one meanwhile. *)
LEMMA MovesFirst ==
  ASSUME EInv, SplitInv, TimelyRequests, NEW p \in Pods, Moves(p)
  PROVE  PatchesFirst'
<1> DEFINE r == pod[p]
<1>1. PICK q \in PodType : Punctual(q) /\ Kind(p, r, q) /\ pod' = [pod EXCEPT ![p] = q]
  BY DEF Moves
<1>2. \A x \in Pods : pod[x] \in PodType /\ Punctual(pod[x])
  BY DEF EInv, TypeOK, AllPunctual
<1>3. \A x \in Pods : pod'[x] = IF x = p THEN q ELSE pod[x]
  BY <1>1 DEF EInv, TypeOK
<1>4. lease \in LeaseType
  BY DEF EInv, TypeOK, LeaseType
<1>5. ASSUME NEW x \in Pods, NEW y \in Pods, pod'[x].is_leader, lease'.holder = x,
             y # x, pod'[y].step = "patch"
      PROVE  Outlasts(pod'[x], pod'[y])
  <2> DEFINE Looks == \/ Quits(q) \/ Stays(r, q) \/ Wakes(r, q) \/ Rests(r, q)
                      \/ Renews(r, q) /\ (lease.holder = p \/ Expired(p))
                      \/ Creates(r, q)
  <2>1. CASE Writes(p, r) /\ (Leads(q) \/ Quits(q))
    <3>1. x = p /\ pod'[x] = q /\ pod'[y] = pod[y]
      BY <1>3, <1>5, <2>1 DEF Writes
    <3>2. Leads(q)
      BY <1>5, <2>1, <3>1 DEF Quits
    <3>3. pod[y].timer \in Nat /\ pod[y].timer <= MaxDelay
      BY <1>2, <1>5, <3>1 DEF PodType, Punctual
    <3>4. RenewInterval > pod[y].timer
      BY <3>3, Numbers DEF TimelyRequests
    <3> QED BY <3>1, <3>2, <3>4 DEF Leads, Outlasts
  <2>2. CASE lease' = lease /\ x # p /\ y # p
    BY <1>3, <1>5, <2>2 DEF SplitInv, PatchesFirst
  <2>3. CASE Looks /\ lease' = lease /\ y = p
    <3>1. pod'[x] = pod[x] /\ pod'[y] = q /\ q.step = "patch" /\ lease.holder = x
      BY <1>3, <1>5, <2>3
    <3>2. Fresh(lease, pod[x])
      BY <1>5, <3>1 DEF SplitInv, BelieversFresh
    <3>3. ~Expired(p)
      <4>1. lease.age <= RenewInterval + 5 * MaxDelay
        BY <1>2, <1>4, <3>2, FreshAge
      <4> QED BY <4>1, NotExpired
    <3>4. Stays(r, q)
      BY <1>5, <2>3, <3>1, <3>3 DEF Quits, Wakes, Rests, Creates
    <3>5. Outlasts(pod[x], r)
      BY <1>5, <2>3, <3>1, <3>4 DEF SplitInv, PatchesFirst, Stays
    <3> QED BY <3>1, <3>4, <3>5 DEF Outlasts, Stays
  <2>4. CASE Looks /\ lease' = lease /\ x = p
    <3>1. pod'[x] = q /\ q.is_leader /\ pod'[y] = pod[y] /\ lease.holder = p
      BY <1>3, <1>5, <2>4
    <3>2. /\ Stays(r, q) \/ Wakes(r, q) \/ Rests(r, q) \/ Renews(r, q) \/ Creates(r, q)
      BY <2>4, <3>1 DEF Quits
    <3>3. r.is_leader
      BY <3>1, <3>2 DEF Stays, Wakes, Rests, Renews, Creates
    <3>4. Outlasts(r, pod[y])
      BY <1>5, <2>4, <3>1, <3>3 DEF SplitInv, PatchesFirst
    <3>5. pod[y].timer \in Nat
      BY <1>2 DEF PodType
    <3>6. ~Wakes(r, q)
      BY <3>4, <3>5 DEF Wakes, Outlasts
    <3>7. Stays(r, q) \/ Rests(r, q)
      BY <3>2, <3>4, <3>6 DEF Renews, Creates, Outlasts
    <3>8. CASE Stays(r, q)
      BY <3>1, <3>4, <3>8 DEF Outlasts, Stays
    <3>9. CASE Rests(r, q)
      BY <3>1, <3>4, <3>9 DEF Outlasts, Rests
    <3> QED BY <3>7, <3>8, <3>9
  <2>5. (Writes(p, r) /\ (Leads(q) \/ Quits(q))) \/ (Looks /\ lease' = lease)
    BY <1>1 DEF Kind
  <2> HIDE DEF Looks, r
  <2> QED BY <2>1, <2>2, <2>3, <2>4, <2>5
<1> QED BY <1>5 DEF PatchesFirst

(* While a split is on, only the holder writes the lease. *)
LEMMA MovesSplit ==
  ASSUME EInv, SplitInv, TimelyRequests, NEW p \in Pods, Moves(p)
  PROVE  SplitEnds'
<1> DEFINE r == pod[p]
<1>1. PICK q \in PodType : Punctual(q) /\ Kind(p, r, q) /\ pod' = [pod EXCEPT ![p] = q]
  BY DEF Moves
<1>2. r \in PodType
  BY DEF EInv, TypeOK
<1>3. (\A x \in Pods : pod'[x] = IF x = p THEN q ELSE pod[x]) /\ overlap' = overlap
  BY <1>1 DEF EInv, TypeOK, Moves
<1>4. overlap <= RenewInterval + 2 * MaxDelay
  BY DEF SplitInv, SplitEnds
<1>5. ASSUME overlap > 0
      PROVE  /\ lease'.holder # NoPod
             /\ lease'.age <= RenewInterval + 5 * MaxDelay
             /\ \A y \in Pods : y # lease'.holder => pod'[y].step # "patch"
  <2>1. /\ lease.holder # NoPod
        /\ lease.age <= RenewInterval + 5 * MaxDelay
        /\ \A y \in Pods : y # lease.holder => pod[y].step # "patch"
    BY <1>5 DEF SplitInv, SplitEnds
  <2>2. CASE Writes(p, r)
    <3>1. r.step = "patch" /\ lease' = [holder |-> p, age |-> r.since]
      BY <2>1, <2>2 DEF Writes
    <3>2. p = lease.holder
      BY <2>1, <3>1
    <3>3. r.since \in Nat /\ r.since <= 2 * MaxDelay
      BY <1>2, Numbers DEF PodType
    <3>4. r.since <= RenewInterval + 5 * MaxDelay
      BY <3>3, Numbers
    <3>5. \A y \in Pods : y # p => pod'[y].step # "patch"
      BY <1>3, <2>1, <3>2
    <3> QED BY <3>1, <3>4, <3>5, Numbers
  <2>3. CASE ~Writes(p, r)
    <3>1. lease' = lease
      BY <1>1, <2>3 DEF Kind
    <3>2. ~Expired(p)
      BY <2>1, NotExpired
    <3>3. ASSUME p # lease.holder PROVE q.step # "patch"
      <4>1. r.step # "patch"
        BY <2>1, <3>3
      <4> QED BY <1>1, <2>3, <3>2, <3>3, <4>1
          DEF Kind, Quits, Stays, Wakes, Rests, Renews, Creates
    <3> QED BY <1>3, <2>1, <3>1, <3>3
  <2> QED BY <2>2, <2>3
<1> QED BY <1>3, <1>4, <1>5 DEF SplitEnds

(* A second passes: the clocks that bound the split run down with it. *)
LEMMA TickFreshLosing ==
  ASSUME EInv, SplitInv, Tick
  PROVE  BelieversFresh' /\ LosersLeave' /\ PatchesFirst'
<1>1. \A p \in Pods : /\ pod[p] \in PodType /\ Punctual(pod[p]) /\ ~Due(pod[p])
                      /\ pod'[p] = Ticked(pod[p])
  BY TickFacts DEF EInv, TypeOK, AllPunctual, Tick
<1>2. \A p \in Pods : /\ pod'[p].step = pod[p].step /\ pod'[p].is_leader = pod[p].is_leader
                      /\ pod[p].mode # "down" => /\ pod[p].timer \in Nat \ {0}
                                                 /\ pod'[p].timer = pod[p].timer - 1
  BY <1>1, TickedFacts
<1>3. \A p \in Pods : pod[p].is_leader \/ pod[p].step = "patch" => pod[p].mode # "down"
  BY <1>1 DEF Punctual
<1>4. /\ lease'.holder = lease.holder
      /\ lease.age \in Nat /\ lease'.age \in Nat /\ lease'.age <= lease.age + 1
      /\ overlap \in Nat /\ overlap' \in Nat /\ overlap' <= overlap + 1
  BY TickFacts, Numbers
<1>5. ASSUME NEW p \in Pods, pod'[p].is_leader PROVE Fresh(lease', pod'[p])
  <2>1. Fresh(lease, pod[p]) /\ pod[p].mode # "down"
    BY <1>2, <1>3, <1>5 DEF SplitInv, BelieversFresh
  <2>2. /\ pod[p].timer \in Nat /\ pod'[p].timer = pod[p].timer - 1
        /\ pod'[p].step = pod[p].step
    BY <1>2, <2>1
  <2> QED BY <1>4, <2>1, <2>2, Numbers DEF Fresh
<1>6. ASSUME NEW p \in Pods, pod'[p].is_leader, lease'.holder # p
      PROVE  Losing(overlap', pod'[p])
  <2>1. Losing(overlap, pod[p]) /\ pod[p].mode # "down"
    BY <1>2, <1>3, <1>4, <1>6 DEF SplitInv, LosersLeave
  <2>2. /\ pod[p].timer \in Nat /\ pod'[p].timer = pod[p].timer - 1
        /\ pod'[p].step = pod[p].step
    BY <1>2, <2>1
  <2> QED BY <1>4, <2>1, <2>2, Numbers DEF Losing
<1>7. ASSUME NEW p \in Pods, NEW q \in Pods, pod'[p].is_leader, lease'.holder = p,
             q # p, pod'[q].step = "patch"
      PROVE  Outlasts(pod'[p], pod'[q])
  <2>1. Outlasts(pod[p], pod[q]) /\ pod[p].mode # "down" /\ pod[q].mode # "down"
    BY <1>2, <1>3, <1>4, <1>7 DEF SplitInv, PatchesFirst
  <2>2. /\ pod[p].timer \in Nat /\ pod'[p].timer = pod[p].timer - 1
        /\ pod[q].timer \in Nat /\ pod'[q].timer = pod[q].timer - 1
        /\ pod'[p].step = pod[p].step
    BY <1>2, <2>1
  <2> QED BY <2>1, <2>2, Numbers DEF Outlasts
<1>8. BelieversFresh'
  BY <1>5 DEF BelieversFresh
<1>9. LosersLeave'
  BY <1>6 DEF LosersLeave
<1>10. PatchesFirst'
  BY <1>7 DEF PatchesFirst
<1> QED BY <1>8, <1>9, <1>10

(* Of two pods that both believe, one does not hold the lease. *)
LEMMA BothBelieve ==
  ASSUME TwoPods, Cardinality(Believers) > 1
  PROVE  /\ \A p \in Pods : pod[p].is_leader
         /\ \A h : \E p \in Pods : p # h
<1>1. PICK a \in Pods, b \in Pods : Pods = {a, b}
  BY DEF TwoPods
<1>2. Believers \subseteq {a, b}
  BY <1>1 DEF Believers
<1>3. Believers # {} /\ \A x : Believers # {x}
  <2>1. Cardinality({}) = 0 /\ \A x : Cardinality({x}) = 1
    BY FS_EmptySet, FS_Singleton
  <2>2. CASE Believers = {}
    BY <2>1, <2>2
  <2>3. ASSUME NEW x, Believers = {x} PROVE FALSE
    <3>1. Cardinality(Believers) = 1
      BY <2>1, <2>3
    <3> QED BY <3>1
  <2> QED BY <2>2, <2>3
<1>4. a \in Believers /\ b \in Believers /\ a # b
  BY <1>2, <1>3
<1>5. \A p \in Pods : pod[p].is_leader
  BY <1>1, <1>4 DEF Believers
<1>6. \A h : \E p \in Pods : p # h
  BY <1>4
<1> QED BY <1>5, <1>6

(* Time passes while two pods believe that they lead. *)
LEMMA TickSplit ==
  ASSUME EInv, SplitInv, TwoPods, TimelyRequests, Tick
  PROVE  SplitEnds'
<1>1. BelieversFresh' /\ LosersLeave'
  BY TickFreshLosing
<1>2. EInv'
  BY NextEInv DEF Next
<1>3. /\ overlap' \in Nat /\ (overlap' > 0 => Cardinality(Believers) > 1)
      /\ lease' \in LeaseType
  BY TickFacts, Numbers
<1>4. \A p \in Pods : pod'[p] \in PodType
  BY <1>2 DEF EInv, TypeOK
<1>5. ASSUME overlap' > 0
      PROVE  /\ overlap' <= RenewInterval + 2 * MaxDelay
             /\ lease'.holder # NoPod
             /\ lease'.age <= RenewInterval + 5 * MaxDelay
             /\ \A p \in Pods : p # lease'.holder => pod'[p].step # "patch"
  <2>1. \A p \in Pods : pod[p].is_leader
    BY <1>3, <1>5, BothBelieve
  <2>2. \A p \in Pods : pod'[p].is_leader
    <3>1. ASSUME NEW p \in Pods PROVE pod'[p].is_leader
      <4>1. pod[p] \in PodType /\ Punctual(pod[p]) /\ ~Due(pod[p])
        BY DEF EInv, TypeOK, AllPunctual, Tick
      <4>2. pod'[p] = Ticked(pod[p])
        BY TickFacts
      <4>3. Ticked(pod[p]).is_leader = pod[p].is_leader
        BY <4>1, TickedFacts
      <4> QED BY <2>1, <4>2, <4>3
    <3> QED BY <3>1
  <2>3. PICK p \in Pods : p # lease'.holder
    BY <1>3, <1>5, BothBelieve
  <2>4. Losing(overlap', pod'[p]) /\ Fresh(lease', pod'[p])
    BY <1>1, <2>2, <2>3 DEF LosersLeave, BelieversFresh
  <2>5. overlap' <= RenewInterval + 2 * MaxDelay
    <3>1. pod'[p].timer \in Nat
      BY <1>4 DEF PodType
    <3> QED BY <1>3, <2>4, <3>1, Numbers DEF Losing
  <2>6. lease'.holder # NoPod /\ lease'.age <= RenewInterval + 5 * MaxDelay
    <3>1. lease'.holder # NoPod
      BY <2>4 DEF Fresh
    <3>2. lease'.age <= RenewInterval + 5 * MaxDelay
      BY <1>3, <1>4, <2>4, FreshAge
    <3> QED BY <3>1, <3>2
  <2>7. ASSUME NEW q \in Pods, q # lease'.holder PROVE pod'[q].step # "patch"
    BY <1>1, <2>2, <2>7 DEF LosersLeave, Losing
  <2> QED BY <2>5, <2>6, <2>7
<1>6. overlap' = 0 => overlap' <= RenewInterval + 2 * MaxDelay
  BY Numbers
<1> QED BY <1>3, <1>5, <1>6 DEF SplitEnds

(* Every step keeps the end of a split in sight. *)
LEMMA NextSplitInv ==
  ASSUME TwoPods, TimelyRequests
  PROVE  EInv /\ SplitInv /\ [Next]_vars => SplitInv'
<1> SUFFICES ASSUME EInv, SplitInv, [Next]_vars PROVE SplitInv'
  OBVIOUS
<1>1. CASE UNCHANGED vars
  BY <1>1 DEF vars, SplitInv, BelieversFresh, LosersLeave, PatchesFirst, SplitEnds,
              Fresh, Losing, Outlasts
<1>2. CASE Tick
  BY <1>2, TickFreshLosing, TickSplit DEF SplitInv
<1>3. ASSUME NEW p \in Pods, PodNext(p) PROVE SplitInv'
  <2>1. Moves(p)
    BY <1>3, PodMoves
  <2> QED BY <2>1, MovesFresh, MovesLosing, MovesFirst, MovesSplit DEF SplitInv
<1> QED BY <1>1, <1>2, <1>3 DEF Next, PodNext

(* At first nobody believes that it leads. *)
LEMMA InitSplitInv == Init => SplitInv
<1> SUFFICES ASSUME Init PROVE SplitInv
  OBVIOUS
<1>1. \A p \in Pods : ~pod[p].is_leader
  BY DEF Init, Started
<1>2. SplitEnds
  BY Numbers DEF Init, SplitEnds
<1> QED BY <1>1, <1>2 DEF SplitInv, BelieversFresh, LosersLeave, PatchesFirst

(* Two pods, for every lease duration, interval and delay that lets a renewal come in
   time: after both have found the lease expired and patched it, the loser reads its
   defeat within a renewal interval and the requests that surround it. *)
THEOREM SplitBound ==
  ASSUME TwoPods, TimelyRequests
  PROVE  Spec => []SplitBeliefBounded
<1>1. SplitInv => SplitBeliefBounded
  BY DEF SplitInv, SplitEnds, SplitBeliefBounded
<1>2. Init => EInv /\ SplitInv
  BY InitEInv, InitSplitInv
<1>3. EInv /\ SplitInv /\ [Next]_vars => EInv' /\ SplitInv'
  BY NextEInv, NextSplitInv
<1> QED BY <1>1, <1>2, <1>3, PTL DEF Spec
=============================================================================
