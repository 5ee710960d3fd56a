------------------------------- MODULE FillQueue -------------------------------
(***************************************************************************)
(* What the way of a fill from the engine to Postgres promises: one queue. *)
(* Fills enter at the end in the order they were made and leave at the     *)
(* front in batches; nothing else happens to them.  Recovery takes the     *)
(* whole way as such a queue.                                              *)
(***************************************************************************)
EXTENDS Naturals, Sequences

VARIABLES
  queue,    \* fills made and not yet settled
  settled   \* fills whose batch has been inserted or given up

queueVars == <<queue, settled>>

QueueInit == queue = << >> /\ settled = << >>

(* The fills are numbered in the order they are made. *)
Numbered(first, n) == [i \in 1..n |-> first + i]

Emit ==
  /\ Len(queue') >= Len(queue)
  /\ queue' = queue \o Numbered(Len(settled) + Len(queue), Len(queue') - Len(queue))
  /\ UNCHANGED settled

Settle ==
  \E n \in 1..Len(queue) :
    /\ settled' = settled \o SubSeq(queue, 1, n)
    /\ queue' = SubSeq(queue, n + 1, Len(queue))

QueueNext == Emit \/ Settle

QueueSpec == QueueInit /\ [][QueueNext]_queueVars
===============================================================================
