----------------------------- MODULE BufferPool -----------------------------
(***************************************************************************)
(* SimpleBufferPool of cheetah-media-types (buffer/pool.rs): a pool whose  *)
(* limits are enforced with relaxed atomic counters and whose free list is *)
(* behind a spin lock.  acquire() and PoolToken::drop() may run on any     *)
(* thread, so every atomic access is an action of its own; the section     *)
(* under the lock is one action.                                           *)
(*                                                                         *)
(* A "client" is one buffer lifetime: it calls acquire, is refused or holds*)
(* the buffer, drops it, and may start again.  A thread holding several    *)
(* buffers is several clients.                                             *)
(***************************************************************************)
EXTENDS Integers, FiniteSets, Sequences

CONSTANTS Clients,        \* buffer lifetimes that may overlap
          Sizes,          \* sizes callers ask for
          MaxCount,       \* BufferPoolConfig::max_count
          MaxTotalBytes,  \* BufferPoolConfig::max_total_bytes
          MaxObjectSize,  \* BufferPoolConfig::max_object_size
          MaxFreeCount,   \* BufferPoolConfig::max_free_count (None: large)
          UsizeMod,       \* 2^w: the atomics are usize and wrap
          ServedBound     \* bound on served calls, for model checking only

ASSUME PoolAssumption ==
  /\ IsFiniteSet(Clients)
  /\ Sizes \subseteq Nat
  /\ MaxCount \in Nat /\ MaxTotalBytes \in Nat
  /\ MaxObjectSize \in Nat /\ MaxFreeCount \in Nat
  /\ UsizeMod \in Nat \ {0}
  /\ MaxTotalBytes < UsizeMod /\ MaxCount < UsizeMod /\ MaxObjectSize < UsizeMod
  /\ ServedBound \in Nat

VARIABLES
  pc,             \* where each client is in acquire() or drop()
  size,           \* the size it asked for
  cap,            \* capacity of the Vec it owns (0 when it owns none)
  inUseCount,     \* PoolInner::in_use_count
  inUseBytes,     \* PoolInner::in_use_bytes
  free,           \* PoolInner::free, as the capacities of its chunks
  hits, misses, totalAcquired, totalReleased

stats == <<hits, misses, totalAcquired, totalReleased>>
vars == <<pc, size, cap, inUseCount, inUseBytes, free, stats>>

Idle == "idle"

\* Clients whose slot is counted in in_use_count.
CountHeldAt == {"undoCount", "bytes", "undoBytesCount", "take", "publish", "held", "dropCount"}
\* Clients whose bytes are counted in in_use_bytes.
BytesHeldAt == {"undoBytesCount", "undoBytes", "take", "publish", "held", "dropCount", "dropBytes"}
\* Clients to which the pool has granted a buffer they have not given back.
GrantedAt == {"take", "publish", "held", "dropCount"}
PCs == {Idle, "dropChunk"} \cup CountHeldAt \cup BytesHeldAt

At(S) == {c \in Clients : pc[c] \in S}

\* One element per requested byte of the clients in S.
BytesOf(S) == UNION {{c} \X (1..size[c]) : c \in S}

TypeOK ==
  /\ pc \in [Clients -> PCs]
  /\ size \in [Clients -> 0..MaxObjectSize]
  /\ cap \in [Clients -> 0..MaxObjectSize]
  /\ inUseCount \in 0..(UsizeMod - 1)
  /\ inUseBytes \in 0..(UsizeMod - 1)
  /\ free \in Seq(0..MaxObjectSize)
  /\ hits \in Nat /\ misses \in Nat
  /\ totalAcquired \in Nat /\ totalReleased \in Nat

Init ==
  /\ pc = [c \in Clients |-> Idle]
  /\ size = [c \in Clients |-> 0]
  /\ cap = [c \in Clients |-> 0]
  /\ inUseCount = 0 /\ inUseBytes = 0
  /\ free = <<>>
  /\ hits = 0 /\ misses = 0 /\ totalAcquired = 0 /\ totalReleased = 0

Goto(c, l) == pc' = [pc EXCEPT ![c] = l]

-----------------------------------------------------------------------------
(* acquire(size) *)

\* Mutant: the object-size check is missing.
ReserveCountAnySize(c, s) ==
  /\ pc[c] = Idle
  /\ hits + misses < ServedBound
  /\ size' = [size EXCEPT ![c] = s]
  /\ inUseCount' = (inUseCount + 1) % UsizeMod
  /\ Goto(c, IF inUseCount >= MaxCount THEN "undoCount" ELSE "bytes")
  /\ UNCHANGED <<cap, inUseBytes, free, stats>>

\* in_use_count.fetch_add(1), after the object-size check; the previous value
\* decides between going on and undoing the reservation.
ReserveCount(c, s) ==
  /\ pc[c] = Idle
  /\ hits + misses < ServedBound
  /\ s <= MaxObjectSize
  /\ size' = [size EXCEPT ![c] = s]
  /\ inUseCount' = (inUseCount + 1) % UsizeMod
  /\ Goto(c, IF inUseCount >= MaxCount THEN "undoCount" ELSE "bytes")
  /\ UNCHANGED <<cap, inUseBytes, free, stats>>

\* The count was exhausted: give the slot back and return ResourceLimit.
UndoCount(c) ==
  /\ pc[c] = "undoCount"
  /\ inUseCount' = (inUseCount - 1) % UsizeMod
  /\ Goto(c, Idle)
  /\ UNCHANGED <<size, cap, inUseBytes, free, stats>>

\* Mutant: the limit is compared with the total before the reservation.
BytesExhaustedBefore(s) == inUseBytes + s >= UsizeMod \/ inUseBytes > MaxTotalBytes

\* checked_add overflowed, or the new total is over max_total_bytes.
BytesExhausted(s) == inUseBytes + s >= UsizeMod \/ inUseBytes + s > MaxTotalBytes

\* in_use_bytes.fetch_add(size): the addition wraps, checked_add notices it.
ReserveBytes(c) ==
  /\ pc[c] = "bytes"
  /\ inUseBytes' = (inUseBytes + size[c]) % UsizeMod
  /\ Goto(c, IF BytesExhausted(size[c]) THEN "undoBytesCount" ELSE "take")
  /\ UNCHANGED <<size, cap, inUseCount, free, stats>>

\* The bytes were exhausted: give back the slot, then the bytes.
UndoBytesCount(c) ==
  /\ pc[c] = "undoBytesCount"
  /\ inUseCount' = (inUseCount - 1) % UsizeMod
  /\ Goto(c, "undoBytes")
  /\ UNCHANGED <<size, cap, inUseBytes, free, stats>>

\* Mutant: this error path forgets the bytes.
UndoBytesForgotten(c) ==
  /\ pc[c] = "undoBytes"
  /\ Goto(c, Idle)
  /\ UNCHANGED <<size, cap, inUseCount, inUseBytes, free, stats>>

UndoBytes(c) ==
  /\ pc[c] = "undoBytes"
  /\ inUseBytes' = (inUseBytes - size[c]) % UsizeMod
  /\ Goto(c, Idle)
  /\ UNCHANGED <<size, cap, inUseCount, free, stats>>

\* Vec::swap_remove: the last element takes the place of the removed one.
SwapRemove(s, i) ==
  [j \in 1..(Len(s) - 1) |-> IF j = i THEN s[Len(s)] ELSE s[j]]

\* Mutant: any free chunk will do.
FittingAny(s) == 1..Len(free)

\* Positions of the free chunks that are large enough for s bytes.
Fitting(s) == {i \in 1..Len(free) : free[i] >= s}

\* Under the free-list lock: reuse the first chunk that fits ...
TakeHit(c) ==
  /\ pc[c] = "take"
  /\ \E i \in Fitting(size[c]) :
       /\ \A j \in Fitting(size[c]) : i <= j
       /\ cap' = [cap EXCEPT ![c] = free[i]]
       /\ free' = SwapRemove(free, i)
  /\ hits' = hits + 1
  /\ Goto(c, "publish")
  /\ UNCHANGED <<size, inUseCount, inUseBytes, misses, totalAcquired, totalReleased>>

\* ... or allocate one of exactly the requested size.
TakeMiss(c) ==
  /\ pc[c] = "take"
  /\ Fitting(size[c]) = {}
  /\ cap' = [cap EXCEPT ![c] = size[c]]
  /\ misses' = misses + 1
  /\ Goto(c, "publish")
  /\ UNCHANGED <<size, inUseCount, inUseBytes, free, hits, totalAcquired, totalReleased>>

Publish(c) ==
  /\ pc[c] = "publish"
  /\ totalAcquired' = totalAcquired + 1
  /\ Goto(c, "held")
  /\ UNCHANGED <<size, cap, inUseCount, inUseBytes, free, hits, misses, totalReleased>>

-----------------------------------------------------------------------------
(* PoolToken::drop, run when the last clone of the buffer goes away *)

DropReleased(c) ==
  /\ pc[c] = "held"
  /\ totalReleased' = totalReleased + 1
  /\ Goto(c, "dropCount")
  /\ UNCHANGED <<size, cap, inUseCount, inUseBytes, free, hits, misses, totalAcquired>>

DropCount(c) ==
  /\ pc[c] = "dropCount"
  /\ inUseCount' = (inUseCount - 1) % UsizeMod
  /\ Goto(c, "dropBytes")
  /\ UNCHANGED <<size, cap, inUseBytes, free, stats>>

DropBytes(c) ==
  /\ pc[c] = "dropBytes"
  /\ inUseBytes' = (inUseBytes - size[c]) % UsizeMod
  /\ Goto(c, "dropChunk")
  /\ UNCHANGED <<size, cap, inUseCount, free, stats>>

\* Under the free-list lock: retain the chunk unless the list is full.
DropChunk(c) ==
  /\ pc[c] = "dropChunk"
  /\ free' = IF Len(free) < MaxFreeCount THEN Append(free, cap[c]) ELSE free
  /\ cap' = [cap EXCEPT ![c] = 0]
  /\ Goto(c, Idle)
  /\ UNCHANGED <<size, inUseCount, inUseBytes, stats>>

-----------------------------------------------------------------------------
Acquire(c) ==
  \/ \E s \in Sizes : ReserveCount(c, s)
  \/ UndoCount(c) \/ ReserveBytes(c) \/ UndoBytesCount(c) \/ UndoBytes(c)
  \/ TakeHit(c) \/ TakeMiss(c) \/ Publish(c)

Release(c) == DropReleased(c) \/ DropCount(c) \/ DropBytes(c) \/ DropChunk(c)

Next == \E c \in Clients : Acquire(c) \/ Release(c)

Spec == Init /\ [][Next]_vars

-----------------------------------------------------------------------------
(* Properties *)

\* The atomic counters always equal, modulo their width, what the clients have
\* reserved: no path of acquire or drop loses or repeats an update (pool.rs
\* undoes a failed reservation on three different error paths).
CountersExact ==
  /\ inUseCount = Cardinality(At(CountHeldAt)) % UsizeMod
  /\ inUseBytes = Cardinality(BytesOf(At(BytesHeldAt))) % UsizeMod

\* The atomics are wide enough for every client to have reserved at once.
NoWrap ==
  /\ Cardinality(Clients) < UsizeMod
  /\ Cardinality(Clients) * MaxObjectSize < UsizeMod

\* The pool never has more than max_count buffers granted, whatever the
\* interleaving of the reserve-then-check of concurrent acquires.
GrantedWithinCount == Cardinality(At(GrantedAt)) <= MaxCount

\* Nor more than max_total_bytes requested bytes granted.
GrantedWithinBytes == Cardinality(BytesOf(At(GrantedAt))) <= MaxTotalBytes

\* What the pool keeps for reuse is bounded by max_free_count chunks, and a
\* client that owns a chunk owns one at least as large as it asked for.
ChunksFit ==
  /\ Len(free) <= MaxFreeCount
  /\ \A c \in At({"publish", "held", "dropCount", "dropBytes", "dropChunk"}) :
       cap[c] >= size[c]

\* The pool implements the counter-free bounded pool: its grants are loans that
\* respect both limits at the moment they are made.
Abs == INSTANCE BoundedPool
         WITH lease <- [c \in Clients |-> IF pc[c] \in GrantedAt THEN size[c] ELSE -1]
ImplementsBoundedPool == Abs!Spec
=============================================================================
