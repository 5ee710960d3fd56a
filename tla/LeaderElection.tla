---------------------------- MODULE LeaderElection ----------------------------
(***************************************************************************)
(* Leader election of clob-api: the elector task (leader.rs), the choice   *)
(* of the mode in main and the follower's promotion (main.rs), and the     *)
(* liveness probe: the flags (health.rs), what /healthz makes of them and  *)
(* the kubelet that kills a pod for it.  Kubernetes is external: a lease   *)
(* object, the probe and a restart of what exits.  The label of a pod is   *)
(* not kept, only the request that patches it.                             *)
(*                                                                         *)
(* Time is discrete and relative: every timer counts down and the lease    *)
(* has an age, so that behaviours are infinite and states are not.  A      *)
(* request takes at most MaxDelay seconds, a container is restarted within *)
(* MaxRestart, a lost pod is back within MaxDown and the first order       *)
(* arrives in the second in which the consumer starts: Tick waits for      *)
(* whoever is due.                                                         *)
(***************************************************************************)
EXTENDS Integers, FiniteSets

CONSTANTS
  Pods,
  NoPod,
  LeaseDuration,   \* LEASE_DURATION_SECS
  RenewInterval,   \* RENEW_INTERVAL_SECS
  RetryInterval,   \* RETRY_INTERVAL_SECS
  BootWait,        \* main's sleep before it looks at is_leader
  WatchInterval,   \* the period of run_follower's promotion check
  MaxDelay,        \* bound on the seconds a Kubernetes request takes
  MaxRestart,      \* bound on the seconds until a container is restarted
  MaxDown,         \* bound on the seconds a crashed pod stays down
  ProbeGrace,      \* seconds a pod may be unhealthy before the kubelet kills it
  MaxFaults        \* bound on crashes and failed requests

ASSUME ElectionAssumption ==
  /\ NoPod \notin Pods
  /\ {LeaseDuration, RenewInterval, RetryInterval, BootWait, WatchInterval,
      MaxDelay, MaxRestart, MaxDown, ProbeGrace, MaxFaults} \subseteq Nat

VARIABLES
  lease,    \* the Lease object: its holder (NoPod: no object) and its age
  pod,      \* what each pod's process and elector are doing
  faults,   \* crashes and failed requests so far
  overlap   \* history: seconds two pods have both believed they lead

vars == <<lease, pod, faults, overlap>>

(* Beyond this age a lease counts as expired whoever looks at it. *)
MaxAge == LeaseDuration + 1 + MaxDelay

MaxOverlap == 2 * LeaseDuration

(* A process that has just been started: its elector sends the first
   request, main sleeps.  mode, wait: main; step, timer, since: the elector's
   await, how long it lasts and how old its notion of now is; sick: how long
   the probe has been failing. *)
Started ==
  [mode |-> "boot", wait |-> BootWait, step |-> "read", timer |-> MaxDelay,
   since |-> 0, is_leader |-> FALSE, lease_healthy |-> FALSE,
   kafka_ready |-> FALSE, sick |-> 0]

Stopped(secs) ==
  [mode |-> "down", wait |-> secs, step |-> "none", timer |-> 0,
   since |-> 0, is_leader |-> FALSE, lease_healthy |-> FALSE,
   kafka_ready |-> FALSE, sick |-> 0]

Init ==
  /\ lease = [holder |-> NoPod, age |-> 0]
  /\ pod = [p \in Pods |-> Started]
  /\ faults = 0
  /\ overlap = 0
-----------------------------------------------------------------------------
(* The elector's awaits.  A request that is sent may take MaxDelay. *)
Await(r, step) == [r EXCEPT !.step = step, !.timer = MaxDelay]
Sleep(r, secs) == [r EXCEPT !.step = "sleep", !.timer = secs, !.since = 0]

(* try_acquire_or_renew takes the time before it reads the lease. *)
Wake(p) ==
  /\ pod[p].step = "sleep"
  /\ pod[p].timer = 0
  /\ pod' = [pod EXCEPT ![p] = [Await(@, "read") EXCEPT !.since = 0]]
  /\ UNCHANGED <<lease, faults, overlap>>

(* Ok(true): the flags change on a transition only, the label after them. *)
Acquired(r) ==
  IF r.is_leader THEN Sleep(r, RenewInterval)
  ELSE Await([r EXCEPT !.is_leader = TRUE, !.lease_healthy = TRUE],
             "label_leader")

(* Mutant of Refused: is_leader is not cleared. *)
RefusedKeepsFlag(r) == Sleep(r, RetryInterval)

(* Ok(false). *)
Refused(r) ==
  IF r.is_leader
  THEN Await([r EXCEPT !.is_leader = FALSE, !.lease_healthy = FALSE],
             "label_follower")
  ELSE Sleep(r, RetryInterval)

(* Err: is_leader is cleared, lease_healthy and the label are not. *)
Failed(r) == Sleep([r EXCEPT !.is_leader = FALSE], RetryInterval)

(* Whether the lease has expired at the time the pod took. *)
Expired(p) == lease.age - pod[p].since > LeaseDuration

(* The answer to get_opt. *)
ReadLease(p) ==
  /\ pod[p].step = "read"
  /\ pod' = [pod EXCEPT ![p] =
       IF lease.holder = NoPod THEN Await(@, "create")
       ELSE IF lease.holder = p \/ Expired(p) THEN Await(@, "patch")
       ELSE Refused(@)]
  /\ UNCHANGED <<lease, faults, overlap>>

(* Mutant of CreateLease: after a conflict the create is tried again, with the time
   that was taken before the first read. *)
CreateLeaseRetries(p) ==
  /\ pod[p].step = "create"
  /\ IF lease.holder = NoPod
     THEN /\ lease' = [holder |-> p, age |-> pod[p].since]
          /\ pod' = [pod EXCEPT ![p] = Acquired(@)]
     ELSE /\ pod' = [pod EXCEPT ![p] = Await(@, "create")]
          /\ UNCHANGED lease
  /\ UNCHANGED <<faults, overlap>>

(* The answer to create: an error if somebody else was first. *)
CreateLease(p) ==
  /\ pod[p].step = "create"
  /\ IF lease.holder = NoPod
     THEN /\ lease' = [holder |-> p, age |-> pod[p].since]
          /\ pod' = [pod EXCEPT ![p] = Acquired(@)]
     ELSE /\ pod' = [pod EXCEPT ![p] = Failed(@)]
          /\ UNCHANGED lease
  /\ UNCHANGED <<faults, overlap>>

(* The answer to patch, a merge patch without a resource version: it
   overwrites whatever the lease says by now. *)
PatchLease(p) ==
  /\ pod[p].step = "patch"
  /\ lease' = [holder |-> p, age |-> pod[p].since]
  /\ pod' = [pod EXCEPT ![p] = Acquired(@)]
  /\ UNCHANGED <<faults, overlap>>

(* How long the elector sleeps after a label request, whatever came of it. *)
AfterLabel(r) == Sleep(r, IF r.step = "label_leader" THEN RenewInterval ELSE RetryInterval)

(* The answer to patch_pod_label. *)
PatchLabel(p) ==
  /\ pod[p].step \in {"label_leader", "label_follower"}
  /\ pod' = [pod EXCEPT ![p] = AfterLabel(@)]
  /\ UNCHANGED <<lease, faults, overlap>>

(* A request fails; a create or a patch may have been applied all the same.  A
   failed label is only logged. *)
RequestFails(p) ==
  /\ faults < MaxFaults
  /\ faults' = faults + 1
  /\ \/ /\ pod[p].step \in {"read", "create", "patch"}
        /\ pod' = [pod EXCEPT ![p] = Failed(@)]
        /\ \/ UNCHANGED lease
           \/ /\ \/ pod[p].step = "patch"
                 \/ pod[p].step = "create" /\ lease.holder = NoPod
              /\ lease' = [holder |-> p, age |-> pod[p].since]
     \/ /\ pod[p].step \in {"label_leader", "label_follower"}
        /\ pod' = [pod EXCEPT ![p] = AfterLabel(@)]
        /\ UNCHANGED lease
  /\ UNCHANGED overlap
-----------------------------------------------------------------------------
(* main has slept and branches on is_leader, once and for all. *)
ChooseMode(p) ==
  /\ pod[p].mode = "boot"
  /\ pod[p].wait = 0
  /\ pod' = [pod EXCEPT ![p].mode = IF pod[p].is_leader THEN "leader" ELSE "follower",
                        ![p].wait = WatchInterval]
  /\ UNCHANGED <<lease, faults, overlap>>

(* Mutant of Watch: a promoted follower goes on as a follower. *)
WatchStays(p) ==
  /\ pod[p].mode = "follower"
  /\ pod[p].wait = 0
  /\ pod' = [pod EXCEPT ![p].wait = WatchInterval]
  /\ UNCHANGED <<lease, faults, overlap>>

(* run_follower's watch: a promoted follower exits and leaves the restart to
   Kubernetes; run_leader never looks at is_leader. *)
Watch(p) ==
  /\ pod[p].mode = "follower"
  /\ pod[p].wait = 0
  /\ pod' = [pod EXCEPT ![p] = IF @.is_leader THEN Stopped(MaxRestart)
                               ELSE [@ EXCEPT !.wait = WatchInterval]]
  /\ UNCHANGED <<lease, faults, overlap>>

(* A process or its node dies. *)
Crash(p) ==
  /\ faults < MaxFaults
  /\ pod[p].mode # "down"
  /\ faults' = faults + 1
  /\ pod' = [pod EXCEPT ![p] = Stopped(MaxDown)]
  /\ UNCHANGED <<lease, overlap>>

Restart(p) ==
  /\ pod[p].mode = "down"
  /\ pod' = [pod EXCEPT ![p] = Started]
  /\ UNCHANGED <<lease, faults, overlap>>
-----------------------------------------------------------------------------
(* The consumer task has passed its first order on. *)
Waiting(r) == r.mode \in {"leader", "follower"} /\ ~r.kafka_ready

FirstMessage(p) ==
  /\ Waiting(pod[p])
  /\ pod' = [pod EXCEPT ![p].kafka_ready = TRUE]
  /\ UNCHANGED <<lease, faults, overlap>>

(* Mutant of Healthz: the lease is left to the readiness probe. *)
HealthzEngineOnly(r) == r.mode \in {"leader", "follower"} /\ r.kafka_ready

(* GET /healthz, which nobody answers before main has chosen the mode; the
   database answers and the engine thread runs. *)
Healthz(r) ==
  /\ r.mode \in {"leader", "follower"}
  /\ r.lease_healthy
  /\ r.kafka_ready

(* The liveness probe has failed often enough: the container is killed. *)
ProbeKill(p) ==
  /\ pod[p].mode # "down"
  /\ ~Healthz(pod[p])
  /\ pod[p].sick >= ProbeGrace
  /\ pod' = [pod EXCEPT ![p] = Stopped(MaxRestart)]
  /\ UNCHANGED <<lease, faults, overlap>>
-----------------------------------------------------------------------------
MinOf(a, b) == IF a < b THEN a ELSE b

Believers == {p \in Pods : pod[p].is_leader}

(* Somebody has something to do before time can pass. *)
Due(r) ==
  \/ r.mode # "down" /\ r.timer = 0
  \/ r.mode # "leader" /\ r.wait = 0
  \/ Waiting(r)

Tick ==
  /\ \A p \in Pods : ~Due(pod[p])
  /\ lease' = [lease EXCEPT !.age = IF lease.holder = NoPod THEN 0
                                    ELSE MinOf(MaxAge, @ + 1)]
  /\ pod' = [p \in Pods |->
       [pod[p] EXCEPT
          !.timer = IF pod[p].mode = "down" THEN 0 ELSE @ - 1,
          !.wait = IF pod[p].mode = "leader" THEN 0 ELSE @ - 1,
          !.sick = IF pod[p].mode = "down" \/ Healthz(pod[p]) THEN 0
                   ELSE MinOf(ProbeGrace, @ + 1),
          !.since = IF pod[p].step \in {"read", "create", "patch"} THEN @ + 1 ELSE 0]]
  /\ overlap' = IF Cardinality(Believers) > 1 THEN MinOf(MaxOverlap, overlap + 1) ELSE 0
  /\ UNCHANGED faults

Elector(p) ==
  \/ Wake(p) \/ ReadLease(p) \/ CreateLease(p) \/ PatchLease(p) \/ PatchLabel(p)

Main(p) == ChooseMode(p) \/ Watch(p) \/ Restart(p) \/ FirstMessage(p)

Next ==
  \/ \E p \in Pods : Elector(p) \/ Main(p) \/ ProbeKill(p) \/ RequestFails(p) \/ Crash(p)
  \/ Tick

Spec == Init /\ [][Next]_vars

(* Time passes, requests are answered, sleeps end, containers come back and
   a probe that goes on failing has its consequence. *)
FairSpec ==
  /\ Spec
  /\ WF_vars(Tick)
  /\ \A p \in Pods : WF_vars(Elector(p)) /\ WF_vars(Main(p)) /\ WF_vars(ProbeKill(p))
-----------------------------------------------------------------------------
PodType ==
  [mode : {"boot", "leader", "follower", "down"}, wait : Nat,
   step : {"none", "sleep", "read", "create", "patch", "label_leader",
           "label_follower"},
   timer : Nat, since : 0..(2 * MaxDelay), is_leader : BOOLEAN,
   lease_healthy : BOOLEAN, kafka_ready : BOOLEAN, sick : 0..ProbeGrace]

(* The types of the variables; no request and no lease is older than its
   bounds. *)
TypeOK ==
  /\ lease \in [holder : Pods \cup {NoPod}, age : 0..(MaxAge + MaxDelay)]
  /\ pod \in [Pods -> PodType]
  /\ faults \in 0..MaxFaults
  /\ overlap \in 0..MaxOverlap

(* What the next property needs: the two replicas of k8s/03-statefulset.yaml, a
   request that is faster than a renewal is due, and a lease that outlives a late
   renewal. *)
TwoPods == \E a \in Pods, b \in Pods : Pods = {a, b}

TimelyRequests ==
  /\ MaxDelay < RenewInterval
  /\ RenewInterval + 5 * MaxDelay <= LeaseDuration

(* Two pods may both believe that they lead (both found the lease expired,
   and the second patch overwrites the first), but not for longer than the
   loser needs to wake up and read the lease again. *)
SplitBeliefBounded == overlap <= RenewInterval + 2 * MaxDelay

(* After the last crash or failed request some pod leads for good: it runs
   the leader's pipeline, believes that it leads and holds the lease. *)
LeaderEventually ==
  <>[](\E p \in Pods : /\ pod[p].mode = "leader"
                       /\ pod[p].is_leader
                       /\ lease.holder = p)

(* A leader that still believed it led when it reads of another holder in the lease
   does not keep the write path: the probe takes it down, unless it gets the lease
   back.  (One whose requests failed before has given up the belief already, and
   WritePathExclusive is about it.) *)
DeposedGoesDown ==
  \A p \in Pods :
    (pod[p].mode = "leader" /\ pod[p].step = "label_follower")
      ~> (pod[p].mode = "down" \/ pod[p].is_leader)

(* README, 4.3: "Leader election ensures exactly one pod owns the write path
   at any time": at least, two of them are no lasting state. *)
WritePathExclusive ==
  []<>(Cardinality({p \in Pods : pod[p].mode = "leader"}) <= 1)
===============================================================================
