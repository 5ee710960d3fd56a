------------------------------ MODULE MCPipeline ------------------------------
(***************************************************************************)
(* All fills have makers whose ids go to one partition of fills-out.  Only *)
(* SinksInOrder looks at the partitions, and it says the more the more     *)
(* fills share one.                                                        *)
(***************************************************************************)
EXTENDS Pipeline

SamePartition == [f \in 1..MaxFills |-> 0]
===============================================================================
