----------------------------- MODULE PriorityLanes -----------------------------
(***************************************************************************)
(* What the scheduler promises (crates/cheetah-media-engine, scheduler.rs: *)
(* 1-7), without the order items lie in: each stage has one FIFO lane per  *)
(* priority and a shared capacity.  The most urgent item of all stages is  *)
(* served first; a full stage makes room only for a more urgent item, and  *)
(* it gives up the stalest item of its least urgent lane.                  *)
(***************************************************************************)
EXTENDS Integers, Sequences, FiniteSets

CONSTANTS Stages,      \* number of queues; an earlier queue wins a tie
          Priorities,  \* the smaller the more urgent
          Capacity,    \* items per queue
          MaxPushed    \* bound on the items pushed, for model checking

VARIABLES lanes,   \* per queue and priority, the items waiting
          pushed,  \* items pushed so far; they are numbered in that order
          served   \* the last item popped and the queue it came from

Queues == 1..Stages

Init ==
  /\ lanes = [q \in Queues |-> [p \in Priorities |-> <<>>]]
  /\ pushed = 0
  /\ served = <<0, 0>>

\* The lanes of a queue share its capacity.
Waiting(q) == UNION {{p} \X (1..Len(lanes[q][p])) : p \in Priorities}
Room(q) == Cardinality(Waiting(q)) < Capacity[q]

\* The least urgent lane with something in it.
Victim(q, v) ==
  /\ lanes[q][v] # <<>>
  /\ \A p \in Priorities : p > v => lanes[q][p] = <<>>

Accept(q, p) ==
  /\ Room(q)
  /\ lanes' = [lanes EXCEPT ![q][p] = Append(@, pushed + 1)]

Displace(q, p) ==
  /\ ~Room(q)
  /\ \E v \in Priorities :
       /\ Victim(q, v) /\ p < v
       /\ lanes' = [lanes EXCEPT ![q][v] = Tail(@), ![q][p] = Append(@, pushed + 1)]

Refuse(q, p) ==
  /\ ~Room(q)
  /\ \A v \in Priorities : Victim(q, v) => v <= p
  /\ UNCHANGED lanes

Push(q, p) ==
  /\ pushed < MaxPushed
  /\ Accept(q, p) \/ Displace(q, p) \/ Refuse(q, p)
  /\ pushed' = pushed + 1
  /\ UNCHANGED served

Pop(q, p) ==
  /\ lanes[q][p] # <<>>
  /\ \A r \in Queues, o \in Priorities :
       lanes[r][o] # <<>> => p < o \/ (p = o /\ q <= r)
  /\ served' = <<q, Head(lanes[q][p])>>
  /\ lanes' = [lanes EXCEPT ![q][p] = Tail(@)]
  /\ UNCHANGED pushed

Next == \E q \in Queues, p \in Priorities : Push(q, p) \/ Pop(q, p)

Spec == Init /\ [][Next]_<<lanes, pushed, served>>
=============================================================================
