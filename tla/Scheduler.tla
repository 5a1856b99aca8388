------------------------------- MODULE Scheduler -------------------------------
(***************************************************************************)
(* The bounded scheduler (crates/cheetah-media-engine, scheduler.rs): one  *)
(* queue per pipeline stage, each a VecDeque of items with priorities in   *)
(* arrival order.  Its events are the changes of dropped and overHigh: a   *)
(* Dropped event per dropped item, a HighWatermark or LowWatermark event   *)
(* when overHigh is set or cleared.                                        *)
(***************************************************************************)
EXTENDS Integers, Sequences, FiniteSets, SequencesExt

CONSTANTS Stages,      \* number of queues, in the order of QueueName
          Priorities,  \* the smaller the more urgent
          Capacity,    \* QueueConfig::capacity of each queue
          MaxPushed    \* bound on the items pushed, for model checking

Queues == 1..Stages
Data == 3              \* Priority::Data, the bulk

SchedulerAssumption ==
  /\ Stages \in Nat \ {0} /\ MaxPushed \in Nat
  /\ Priorities \subseteq 0..Data
  /\ Capacity \in [Queues -> Nat]

\* QueueConfig::with_watermarks.
High(q) ==
  LET high == (Capacity[q] * 3) \div 4
  IN IF Capacity[q] > 0 /\ high = 0 THEN 1 ELSE high
Low(q) == Capacity[q] \div 4

VARIABLES items,     \* BoundedQueue::items
          dropped,   \* BoundedQueue::dropped
          overHigh,  \* BoundedQueue::over_high
          pushed,    \* ghost: items pushed so far; an item is its number
          popped,    \* ghost: items popped so far
          served     \* ghost: the last item popped and its queue

vars == <<items, dropped, overHigh, pushed, popped, served>>

Item == [prio : Priorities, id : 1..MaxPushed]

TypeOK ==
  /\ items \in [Queues -> Seq(Item)]
  /\ dropped \in [Queues -> Nat]
  /\ overHigh \in [Queues -> BOOLEAN]
  /\ pushed \in 0..MaxPushed /\ popped \in 0..pushed
  /\ served \in (0..Stages) \X (0..MaxPushed)

Init ==
  /\ items = [q \in Queues |-> <<>>]
  /\ dropped = [q \in Queues |-> 0]
  /\ overHigh = [q \in Queues |-> FALSE]
  /\ pushed = 0 /\ popped = 0
  /\ served = <<0, 0>>

-----------------------------------------------------------------------------
\* Mutant: the newest of the least urgent items.
LeastUrgentNewest(s) ==
  CHOOSE i \in 1..Len(s) :
    \A j \in 1..Len(s) : s[j].prio < s[i].prio \/ (s[j].prio = s[i].prio /\ j <= i)

\* The oldest of the least urgent items (min_by_key over Reverse) ...
LeastUrgent(s) ==
  CHOOSE i \in 1..Len(s) :
    \A j \in 1..Len(s) : s[j].prio < s[i].prio \/ (s[j].prio = s[i].prio /\ i <= j)

\* ... and the oldest of the most urgent ones.
MostUrgent(s) ==
  CHOOSE i \in 1..Len(s) :
    \A j \in 1..Len(s) : s[j].prio > s[i].prio \/ (s[j].prio = s[i].prio /\ i <= j)

\* BoundedQueue::push: what the queue holds after pushing priority p.
PushedQueue(q, p) ==
  LET s == items[q]
      item == [prio |-> p, id |-> pushed + 1]
  IN IF Len(s) < Capacity[q] THEN Append(s, item)
     ELSE IF s # <<>> /\ p < s[LeastUrgent(s)].prio
          THEN Append(RemoveAt(s, LeastUrgent(s)), item)
     ELSE s

\* Mutants: a displaced item is not counted; the newcomer is forgotten.
CountRefusals(q, before, after) ==
  dropped' = [dropped EXCEPT ![q] = IF after = before THEN @ + 1 ELSE @]
CountShrinkage(q, before, after) ==
  dropped' = [dropped EXCEPT ![q] = @ + Len(before) - Len(after)]

\* One item is lost, the newcomer or a victim, unless the queue grew.
CountLosses(q, before, after) ==
  dropped' = [dropped EXCEPT ![q] = IF Len(after) > Len(before) THEN @ ELSE @ + 1]

\* BoundedQueue::poll_watermarks: over_high after a poll at this level.
Watermarks(q, level, over) ==
  IF Capacity[q] = 0 THEN over
  ELSE (over \/ level >= High(q)) /\ level > Low(q)

\* Scheduler::push polls the watermarks of the queue it pushed to.
Push(q, p) ==
  /\ pushed < MaxPushed
  /\ items' = [items EXCEPT ![q] = PushedQueue(q, p)]
  /\ CountLosses(q, items[q], PushedQueue(q, p))
  /\ overHigh' = [overHigh EXCEPT ![q] = Watermarks(q, Len(items'[q]), @)]
  /\ pushed' = pushed + 1
  /\ UNCHANGED <<popped, served>>

\* Scheduler::pop: the first queue whose best item no other queue betters.
BestQueue(q) ==
  LET best(r) == items[r][MostUrgent(items[r])].prio
  IN /\ items[q] # <<>>
     /\ \A r \in Queues :
          items[r] # <<>> => best(q) < best(r) \/ (best(q) = best(r) /\ q <= r)

\* It polls no watermark.
Pop(q) ==
  /\ BestQueue(q)
  /\ served' = <<q, items[q][MostUrgent(items[q])].id>>
  /\ items' = [items EXCEPT ![q] = RemoveAt(@, MostUrgent(@))]
  /\ popped' = popped + 1
  /\ UNCHANGED <<dropped, overHigh, pushed>>

\* Scheduler::poll_watermarks.
PollWatermarks ==
  /\ overHigh' = [q \in Queues |-> Watermarks(q, Len(items[q]), overHigh[q])]
  /\ UNCHANGED <<items, dropped, pushed, popped, served>>

Next ==
  \/ \E q \in Queues, p \in Priorities : Push(q, p)
  \/ \E q \in Queues : Pop(q)
  \/ PollWatermarks

Spec == Init /\ [][Next]_vars

-----------------------------------------------------------------------------
(* Properties *)

\* Numbers in ascending order: after j - 1 others comes the j-th.
Ascending(S) ==
  [j \in 1..Cardinality(S) |-> CHOOSE i \in S : Cardinality({k \in S : k < i}) = j - 1]

\* The waiting items of priority p, in the order of arrival.
Waiting(q, p) == {items[q][i].id : i \in {k \in 1..Len(items[q]) : items[q][k].prio = p}}
Lane(q, p) == Ascending(Waiting(q, p))

\* Searching and removing by index in one VecDeque implements FIFO lanes per
\* priority: the most urgent item of all stages first, in the order of arrival,
\* and only the stalest of the least urgent items is ever displaced.
Lanes == INSTANCE PriorityLanes WITH lanes <- [q \in Queues |-> [p \in Priorities |-> Lane(q, p)]]
ImplementsLanes == Lanes!Spec

\* Nothing gets lost uncounted: what was pushed and not popped is waiting or in
\* the dropped counts, whatever was displaced on the way.
Total(f) == Cardinality(UNION {{q} \X (1..f[q]) : q \in Queues})
Accounted ==
  pushed = popped + Total(dropped) + Total([q \in Queues |-> Len(items[q])])

\* Pressure is never missed: a queue at its high watermark has told so, although
\* pops do not poll and other queues' pushes do not look at it.
PressureSignalled ==
  \A q \in Queues : Capacity[q] > 0 /\ Len(items[q]) >= High(q) => overHigh[q]

\* Producers are told of what they cause: losses are counted and pressure is
\* signalled, whoever pushed to the queue last.
ProducersTold == Accounted /\ PressureSignalled

\* Every push and pop is one on FIFO lanes, and producers are told.
SchedulerKeeps == ImplementsLanes /\ [](TypeOK /\ ProducersTold)
=============================================================================
