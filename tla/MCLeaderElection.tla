-------------------------- MODULE MCLeaderElection --------------------------
(* Two pods, as in k8s/03-statefulset.yaml. *)
EXTENDS LeaderElection

CONSTANTS clob0, clob1

(* The instance is one of those that the theorem on the split speaks of. *)
ASSUME SplitAssumption == TwoPods /\ TimelyRequests
=============================================================================
