---------------------------- MODULE BoundedProofs ----------------------------
(***************************************************************************)
(* Proofs about BufferPool and Scheduler, for any number of clients, any   *)
(* limits, and any stages, priorities and capacities.                      *)
(*                                                                         *)
(* The pool: the counters are tied to the set of clients that hold a       *)
(* reservation (CountersMatch), and the clients the pool has admitted are  *)
(* within the limits (Admitted...): admission compares the counter, which  *)
(* also counts the calls about to be refused, so it can only be too        *)
(* strict.                                                                 *)
(*                                                                         *)
(* The scheduler: items lie in a queue in the order in which they were     *)
(* pushed (Row), so that the first item of a priority is the head of its   *)
(* lane, and each queue's lanes hold as many items as the queue            *)
(* (WaitingCount).                                                         *)
(***************************************************************************)
EXTENDS MCServices, FiniteSetTheorems, SequenceTheorems, WellFoundedInduction, TLAPS

-----------------------------------------------------------------------------
(* Lemmas on the arithmetic and the sets of the model *)

\* A remainder is a value of the counter's type: pool.rs adds to and subtracts
\* from atomics of type usize, which wrap.
LEMMA ModRange ==
  ASSUME NEW a \in Int, NEW m \in Nat \ {0}
  PROVE  a % m \in 0..(m - 1)
OBVIOUS

\* A value within the width of the counter is stored as it is.
LEMMA ModSmall ==
  ASSUME NEW m \in Nat \ {0}, NEW a \in 0..(m - 1)
  PROVE  a % m = a
OBVIOUS

\* swap_remove returns a free list of chunks, one shorter than before.
LEMMA SwapRemoveType ==
  ASSUME NEW S, NEW s \in Seq(S), NEW i \in 1..Len(s)
  PROVE  SwapRemove(s, i) \in Seq(S) /\ Len(SwapRemove(s, i)) = Len(s) - 1
BY DEF SwapRemove

\* Retaining a chunk keeps the free list a list of chunks.
LEMMA AppendType ==
  ASSUME NEW S, NEW s \in Seq(S), NEW e \in S
  PROVE  Append(s, e) \in Seq(S)
OBVIOUS

-----------------------------------------------------------------------------
(* Type correctness *)

\* Every step of acquire() and of PoolToken::drop() keeps the pool's variables
\* in their types.
LEMMA TypeStep == TypeOK /\ [Next]_vars => TypeOK'
<1> SUFFICES ASSUME TypeOK, [Next]_vars PROVE TypeOK'
  OBVIOUS
<1> USE PoolAssumption DEF TypeOK, PCs, Idle, CountHeldAt, BytesHeldAt, Goto, stats
<1>1. ASSUME NEW c \in Clients, NEW s \in Sizes, ReserveCount(c, s) PROVE TypeOK'
  BY <1>1, ModRange DEF ReserveCount
<1>2. ASSUME NEW c \in Clients, UndoCount(c) PROVE TypeOK'
  BY <1>2, ModRange DEF UndoCount
<1>3. ASSUME NEW c \in Clients, ReserveBytes(c) PROVE TypeOK'
  <2>1. inUseBytes + size[c] \in Int
    OBVIOUS
  <2>2. inUseBytes' \in 0..(UsizeMod - 1)
    BY <1>3, <2>1, ModRange DEF ReserveBytes
  <2> QED
    BY <1>3, <2>2 DEF ReserveBytes
<1>4. ASSUME NEW c \in Clients, UndoBytesCount(c) PROVE TypeOK'
  BY <1>4, ModRange DEF UndoBytesCount
<1>5. ASSUME NEW c \in Clients, UndoBytes(c) PROVE TypeOK'
  <2>1. inUseBytes - size[c] \in Int
    OBVIOUS
  <2>2. inUseBytes' \in 0..(UsizeMod - 1)
    BY <1>5, <2>1, ModRange DEF UndoBytes
  <2> QED
    BY <1>5, <2>2 DEF UndoBytes
<1>6. ASSUME NEW c \in Clients, TakeHit(c) PROVE TypeOK'
  <2>1. PICK i \in 1..Len(free) : cap' = [cap EXCEPT ![c] = free[i]] /\ free' = SwapRemove(free, i)
    BY <1>6 DEF TakeHit, Fitting
  <2>2. free[i] \in 0..MaxObjectSize
    OBVIOUS
  <2>3. SwapRemove(free, i) \in Seq(0..MaxObjectSize)
    BY SwapRemoveType
  <2> QED
    BY <1>6, <2>1, <2>2, <2>3 DEF TakeHit
<1>7. ASSUME NEW c \in Clients, TakeMiss(c) PROVE TypeOK'
  BY <1>7 DEF TakeMiss
<1>8. ASSUME NEW c \in Clients, Publish(c) PROVE TypeOK'
  BY <1>8 DEF Publish
<1>9. ASSUME NEW c \in Clients, DropReleased(c) PROVE TypeOK'
  BY <1>9 DEF DropReleased
<1>10. ASSUME NEW c \in Clients, DropCount(c) PROVE TypeOK'
  BY <1>10, ModRange DEF DropCount
<1>11. ASSUME NEW c \in Clients, DropBytes(c) PROVE TypeOK'
  <2>1. inUseBytes - size[c] \in Int
    OBVIOUS
  <2>2. inUseBytes' \in 0..(UsizeMod - 1)
    BY <1>11, <2>1, ModRange DEF DropBytes
  <2> QED
    BY <1>11, <2>2 DEF DropBytes
<1>12. ASSUME NEW c \in Clients, DropChunk(c) PROVE TypeOK'
  <2>1. Append(free, cap[c]) \in Seq(0..MaxObjectSize)
    BY AppendType
  <2>2. free' \in Seq(0..MaxObjectSize)
    BY <1>12, <2>1 DEF DropChunk
  <2> QED
    BY <1>12, <2>2 DEF DropChunk
<1>13. CASE UNCHANGED vars
  BY <1>13 DEF vars
<1> QED
  BY <1>1, <1>2, <1>3, <1>4, <1>5, <1>6, <1>7, <1>8, <1>9, <1>10, <1>11, <1>12, <1>13
     DEF Next, Acquire, Release

\* The pool's variables always have their types.
THEOREM TypeCorrect == Spec => []TypeOK
<1>1. Init => TypeOK
  BY PoolAssumption DEF Init, TypeOK, PCs, Idle
<1> QED
  BY <1>1, TypeStep, PTL DEF Spec

-----------------------------------------------------------------------------
(* The chunks *)

\* Clients that own a chunk.
OwnerAt == {"publish", "held", "dropCount", "dropBytes", "dropChunk"}

\* A client that moves outside of the owners, or among them without touching
\* its chunk, leaves every chunk as it was.
LEMMA ChunksKept ==
  ASSUME TypeOK, ChunksFit, NEW c \in Clients, NEW l \in PCs, Goto(c, l),
         l \in OwnerAt => pc[c] \in OwnerAt /\ size'[c] = size[c],
         UNCHANGED <<cap, free>>, \A d \in Clients : d # c => size'[d] = size[d]
  PROVE  ChunksFit'
<1>1. ASSUME NEW d \in Clients, pc'[d] \in OwnerAt PROVE cap'[d] >= size'[d]
  <2>1. pc[d] \in OwnerAt /\ size'[d] = size[d]
    BY <1>1 DEF TypeOK, Goto
  <2> QED
    BY <2>1 DEF ChunksFit, At, OwnerAt
<1> QED
  BY <1>1 DEF ChunksFit, At, OwnerAt

\* No step leaves a client with a chunk smaller than it asked for, or the free
\* list over its limit.
LEMMA ChunksStep == TypeOK /\ ChunksFit /\ [Next]_vars => ChunksFit'
<1> SUFFICES ASSUME TypeOK, ChunksFit, [Next]_vars PROVE ChunksFit'
  OBVIOUS
<1> USE DEF OwnerAt, PCs, Idle, CountHeldAt, BytesHeldAt
<1>1. ASSUME NEW c \in Clients, NEW s \in Sizes, ReserveCount(c, s) PROVE ChunksFit'
  <2>1. PICK l \in {"undoCount", "bytes"} : Goto(c, l)
    BY <1>1 DEF ReserveCount
  <2> QED
    BY <1>1, <2>1, ChunksKept DEF ReserveCount, TypeOK
<1>2. ASSUME NEW c \in Clients, UndoCount(c) PROVE ChunksFit'
  BY <1>2, ChunksKept DEF UndoCount
<1>3. ASSUME NEW c \in Clients, ReserveBytes(c) PROVE ChunksFit'
  <2>1. PICK l \in {"undoBytesCount", "take"} : Goto(c, l)
    BY <1>3 DEF ReserveBytes
  <2> QED
    BY <1>3, <2>1, ChunksKept DEF ReserveBytes
<1>4. ASSUME NEW c \in Clients, UndoBytesCount(c) PROVE ChunksFit'
  BY <1>4, ChunksKept DEF UndoBytesCount
<1>5. ASSUME NEW c \in Clients, UndoBytes(c) PROVE ChunksFit'
  BY <1>5, ChunksKept DEF UndoBytes
<1>6. ASSUME NEW c \in Clients, TakeHit(c) PROVE ChunksFit'
  <2>1. PICK i \in Fitting(size[c]) : cap' = [cap EXCEPT ![c] = free[i]] /\ free' = SwapRemove(free, i)
    BY <1>6 DEF TakeHit
  <2>2. i \in 1..Len(free) /\ free[i] >= size[c]
    BY <2>1 DEF Fitting
  <2>3. Len(free') <= MaxFreeCount
    <3>1. Len(free') = Len(free) - 1
      BY <2>1, <2>2, SwapRemoveType DEF TypeOK
    <3>2. Len(free) \in Nat /\ Len(free) <= MaxFreeCount
      BY DEF TypeOK, ChunksFit
    <3> QED
      BY <3>1, <3>2, PoolAssumption
  <2>4. ASSUME NEW d \in Clients, pc'[d] \in OwnerAt PROVE cap'[d] >= size'[d]
    <3>1. CASE d = c
      BY <1>6, <2>1, <2>2, <3>1 DEF TakeHit, TypeOK
    <3>2. CASE d # c
      BY <1>6, <2>1, <2>4, <3>2 DEF TakeHit, TypeOK, ChunksFit, At, Goto
    <3> QED
      BY <3>1, <3>2
  <2> QED
    BY <2>3, <2>4 DEF ChunksFit, At
<1>7. ASSUME NEW c \in Clients, TakeMiss(c) PROVE ChunksFit'
  <2>1. ASSUME NEW d \in Clients, pc'[d] \in OwnerAt PROVE cap'[d] >= size'[d]
    <3>1. CASE d = c
      BY <1>7, <3>1 DEF TakeMiss, TypeOK
    <3>2. CASE d # c
      BY <1>7, <2>1, <3>2 DEF TakeMiss, TypeOK, ChunksFit, At, Goto
    <3> QED
      BY <3>1, <3>2
  <2> QED
    BY <1>7, <2>1 DEF TakeMiss, ChunksFit, At
<1>8. ASSUME NEW c \in Clients, Publish(c) PROVE ChunksFit'
  BY <1>8, ChunksKept DEF Publish
<1>9. ASSUME NEW c \in Clients, DropReleased(c) PROVE ChunksFit'
  BY <1>9, ChunksKept DEF DropReleased
<1>10. ASSUME NEW c \in Clients, DropCount(c) PROVE ChunksFit'
  BY <1>10, ChunksKept DEF DropCount
<1>11. ASSUME NEW c \in Clients, DropBytes(c) PROVE ChunksFit'
  BY <1>11, ChunksKept DEF DropBytes
<1>12. ASSUME NEW c \in Clients, DropChunk(c) PROVE ChunksFit'
  <2>1. Len(free') <= MaxFreeCount
    <3>1. CASE Len(free) < MaxFreeCount
      BY <1>12, <3>1, PoolAssumption DEF DropChunk, TypeOK
    <3>2. CASE ~(Len(free) < MaxFreeCount)
      BY <1>12, <3>2 DEF DropChunk, ChunksFit
    <3> QED
      BY <3>1, <3>2
  <2>2. ASSUME NEW d \in Clients, pc'[d] \in OwnerAt PROVE cap'[d] >= size'[d]
    <3>1. d # c
      BY <1>12, <2>2 DEF DropChunk, TypeOK, Goto
    <3> QED
      BY <1>12, <2>2, <3>1 DEF DropChunk, TypeOK, ChunksFit, At, Goto
  <2> QED
    BY <2>1, <2>2 DEF ChunksFit, At
<1>13. CASE UNCHANGED vars
  BY <1>13 DEF vars, ChunksFit, At
<1> QED
  BY <1>1, <1>2, <1>3, <1>4, <1>5, <1>6, <1>7, <1>8, <1>9, <1>10, <1>11, <1>12, <1>13
     DEF Next, Acquire, Release

\* Whatever the interleaving of acquires and drops, a caller's buffer is at least
\* as large as it asked for and the pool keeps no more than max_free_count chunks
\* (pool.rs searches the free list and retains a chunk in sections under a lock,
\* with the size and the capacity decided in steps of their own).
THEOREM BuffersFit == Spec => []ChunksFit
<1>1. Init => ChunksFit
  BY PoolAssumption DEF Init, ChunksFit, At, Idle
<1>2. Init => TypeOK
  BY PoolAssumption DEF Init, TypeOK, PCs, Idle
<1> QED
  BY <1>1, <1>2, TypeStep, ChunksStep, PTL DEF Spec

-----------------------------------------------------------------------------
(* The inductive invariant *)

\* Clients admitted past the count check, and past the byte check.
SlotAt == CountHeldAt \ {"undoCount"}
LoanAt == BytesHeldAt \ {"undoBytesCount", "undoBytes"}

\* The counters, which never wrap, equal what the clients have reserved.
CountersMatch ==
  /\ inUseCount = Cardinality(At(CountHeldAt))
  /\ inUseBytes = Cardinality(BytesOf(At(BytesHeldAt)))

\* Admission respected the limits.
AdmittedWithinLimits ==
  /\ Cardinality(At(SlotAt)) <= MaxCount
  /\ Cardinality(BytesOf(At(LoanAt))) <= MaxTotalBytes

IInv == TypeOK /\ CountersMatch /\ AdmittedWithinLimits

-----------------------------------------------------------------------------
(* Lemmas on sets of clients and of bytes *)

\* A client that moves to l joins or leaves the clients that are in S.
LEMMA AtMove ==
  ASSUME TypeOK, NEW c \in Clients, NEW l \in PCs, NEW S, Goto(c, l)
  PROVE  At(S)' = IF l \in S THEN At(S) \cup {c} ELSE At(S) \ {c}
BY DEF TypeOK, Goto, At

LEMMA AtFinite ==
  ASSUME NEW S
  PROVE  /\ IsFiniteSet(At(S))
         /\ At(S) \subseteq Clients
         /\ Cardinality(At(S)) \in Nat
         /\ Cardinality(At(S)) <= Cardinality(Clients)
BY PoolAssumption, FS_Subset, FS_CardinalityType DEF At

\* The bytes of the clients S when client c asked for sz[c] bytes.
Units(sz, S) == UNION {{c} \X (1..sz[c]) : c \in S}

LEMMA UnitsFinite ==
  ASSUME NEW sz \in [Clients -> 0..MaxObjectSize], NEW S \in SUBSET Clients
  PROVE  /\ IsFiniteSet(Units(sz, S))
         /\ Cardinality(Units(sz, S)) \in Nat
         /\ Cardinality(Units(sz, S)) <= Cardinality(Clients) * MaxObjectSize
<1> DEFINE All == Clients \X (1..MaxObjectSize)
<1>1. IsFiniteSet(1..MaxObjectSize) /\ Cardinality(1..MaxObjectSize) = MaxObjectSize
  <2>1. 1 \in Int /\ MaxObjectSize \in Int
    BY PoolAssumption
  <2> QED
    BY <2>1, FS_Interval, PoolAssumption
<1>2. IsFiniteSet(Clients) 
  BY PoolAssumption
<1>3. IsFiniteSet(All) /\ Cardinality(All) = Cardinality(Clients) * Cardinality(1..MaxObjectSize)
  BY <1>1, <1>2, FS_Product
<1>4. Units(sz, S) \in SUBSET All
  BY PoolAssumption DEF Units
<1> HIDE DEF All
<1> QED
  BY <1>1, <1>3, <1>4, FS_Subset, FS_CardinalityType

LEMMA UnitsMono ==
  ASSUME NEW sz \in [Clients -> 0..MaxObjectSize],
         NEW T \in SUBSET Clients, NEW S \in SUBSET T
  PROVE  Cardinality(Units(sz, S)) <= Cardinality(Units(sz, T))
<1>1. Units(sz, S) \in SUBSET Units(sz, T)
  BY DEF Units
<1> QED
  BY <1>1, UnitsFinite, FS_Subset

\* A client adds exactly the bytes it asked for.
LEMMA UnitsAdd ==
  ASSUME NEW sz \in [Clients -> 0..MaxObjectSize],
         NEW S \in SUBSET Clients, NEW c \in Clients, c \notin S
  PROVE  Cardinality(Units(sz, S \cup {c})) = Cardinality(Units(sz, S)) + sz[c]
<1> DEFINE Mine == {c} \X (1..sz[c])
<1>1. IsFiniteSet(1..sz[c]) /\ Cardinality(1..sz[c]) = sz[c]
  <2>1. 1 \in Int /\ sz[c] \in Int /\ sz[c] >= 0
    BY PoolAssumption
  <2> QED
    BY <2>1, FS_Interval
<1>2. IsFiniteSet({c}) /\ Cardinality({c}) = 1
  BY FS_Singleton
<1>3. IsFiniteSet(Mine) /\ Cardinality(Mine) = Cardinality({c}) * Cardinality(1..sz[c])
  BY <1>1, <1>2, FS_Product
<1>4. Cardinality(Mine) = sz[c]
  BY <1>1, <1>2, <1>3, PoolAssumption
<1>5. Units(sz, S \cup {c}) = Units(sz, S) \cup Mine
  BY DEF Units
<1>6. Units(sz, S) \cap Mine = {}
  BY DEF Units
<1> HIDE DEF Mine
<1>7. Cardinality(Units(sz, S) \cap Mine) = 0
  BY <1>6, FS_EmptySet
<1>8. IsFiniteSet(Units(sz, S)) /\ Cardinality(Units(sz, S)) \in Nat
  BY UnitsFinite
<1>9. Cardinality(Units(sz, S) \cup Mine)
        = Cardinality(Units(sz, S)) + Cardinality(Mine) - Cardinality(Units(sz, S) \cap Mine)
  BY <1>3, <1>8, FS_Union
<1>10. sz[c] \in Int
  BY PoolAssumption
<1> QED
  <2>1. Cardinality(Units(sz, S) \cup Mine) = Cardinality(Units(sz, S)) + sz[c]
    BY <1>4, <1>7, <1>8, <1>9, <1>10
  <2> QED
    BY <1>5, <2>1

LEMMA UnitsRemove ==
  ASSUME NEW sz \in [Clients -> 0..MaxObjectSize],
         NEW S \in SUBSET Clients, NEW c \in S
  PROVE  Cardinality(Units(sz, S \ {c})) = Cardinality(Units(sz, S)) - sz[c]
<1>1. (S \ {c}) \cup {c} = S /\ S \ {c} \in SUBSET Clients /\ c \notin S \ {c} /\ c \in Clients
  OBVIOUS
<1>2. Cardinality(Units(sz, (S \ {c}) \cup {c})) = Cardinality(Units(sz, S \ {c})) + sz[c]
  BY <1>1, UnitsAdd
<1>3. Cardinality(Units(sz, S \ {c})) \in Nat
  BY <1>1, UnitsFinite
<1>4. sz[c] \in Int
  BY <1>1, PoolAssumption
<1> QED
  <2>1. Cardinality(Units(sz, S)) = Cardinality(Units(sz, S \ {c})) + sz[c]
    BY <1>1, <1>2
  <2> QED
    BY <1>3, <1>4, <2>1

\* Only the sizes of the clients in S matter.
LEMMA UnitsSame ==
  ASSUME NEW sz, NEW tz, NEW S, \A c \in S : sz[c] = tz[c]
  PROVE  Units(sz, S) = Units(tz, S)
BY DEF Units

\* No set of clients reserves more than the counters can count.
LEMMA Bounds ==
  ASSUME NoWrap, TypeOK, TypeOK', NEW S
  PROVE  /\ Cardinality(At(S)) \in 0..(UsizeMod - 1)
         /\ Cardinality(At(S))' \in 0..(UsizeMod - 1)
         /\ Cardinality(BytesOf(At(S))) \in 0..(UsizeMod - 1)
         /\ Cardinality(BytesOf(At(S)))' \in 0..(UsizeMod - 1)
<1> DEFINE T == At(S)
           T1 == At(S)'
<1>1. T \in SUBSET Clients /\ T1 \in SUBSET Clients
  BY DEF At
<1>2. size \in [Clients -> 0..MaxObjectSize] /\ size' \in [Clients -> 0..MaxObjectSize]
  BY DEF TypeOK
<1>3. BytesOf(At(S)) = Units(size, T) /\ BytesOf(At(S))' = Units(size', T1)
  BY DEF BytesOf, Units
<1>4. Cardinality(Clients) \in Nat /\ Cardinality(Clients) < UsizeMod
  BY PoolAssumption, FS_CardinalityType DEF NoWrap
<1>5. Cardinality(T) \in Nat /\ Cardinality(T) <= Cardinality(Clients)
      /\ Cardinality(T1) \in Nat /\ Cardinality(T1) <= Cardinality(Clients)
  BY <1>1, PoolAssumption, FS_Subset, FS_CardinalityType
<1>6. Cardinality(Units(size, T)) \in Nat
      /\ Cardinality(Units(size, T)) <= Cardinality(Clients) * MaxObjectSize
  BY <1>1, <1>2, UnitsFinite
<1>7. Cardinality(Units(size', T1)) \in Nat
      /\ Cardinality(Units(size', T1)) <= Cardinality(Clients) * MaxObjectSize
  BY <1>1, <1>2, UnitsFinite
<1>8. Cardinality(Clients) * MaxObjectSize \in Nat
      /\ Cardinality(Clients) * MaxObjectSize < UsizeMod /\ UsizeMod \in Nat
  BY <1>4, PoolAssumption DEF NoWrap
<1>9. Cardinality(T) \in 0..(UsizeMod - 1) /\ Cardinality(T1) \in 0..(UsizeMod - 1)
  BY <1>4, <1>5, <1>8
<1>10. Cardinality(Units(size, T)) \in 0..(UsizeMod - 1)
       /\ Cardinality(Units(size', T1)) \in 0..(UsizeMod - 1)
  BY <1>6, <1>7, <1>8
<1> QED
  BY <1>3, <1>9, <1>10

\* What the move of one client does to the number of clients in S.
LEMMA CountMove ==
  ASSUME TypeOK, NEW c \in Clients, NEW l \in PCs, Goto(c, l), NEW S
  PROVE  Cardinality(At(S))' = Cardinality(At(S)) + (IF l \in S THEN 1 ELSE 0)
                                                  - (IF pc[c] \in S THEN 1 ELSE 0)
<1>1. At(S)' = IF l \in S THEN At(S) \cup {c} ELSE At(S) \ {c}
  BY AtMove
<1>2. c \in At(S) <=> pc[c] \in S
  BY DEF At
<1>3. IsFiniteSet(At(S)) /\ Cardinality(At(S)) \in Nat
  BY AtFinite
<1>4. Cardinality(At(S) \cup {c}) = IF c \in At(S) THEN Cardinality(At(S)) ELSE Cardinality(At(S)) + 1
  BY <1>3, FS_AddElement
<1>5. Cardinality(At(S) \ {c}) = IF c \in At(S) THEN Cardinality(At(S)) - 1 ELSE Cardinality(At(S))
  BY <1>3, FS_RemoveElement
<1>6. CASE l \in S
  <2>1. Cardinality(At(S))' = Cardinality(At(S) \cup {c})
    BY <1>1, <1>6
  <2> QED
    BY <2>1, <1>2, <1>3, <1>4, <1>6
<1>7. CASE l \notin S
  <2>1. Cardinality(At(S))' = Cardinality(At(S) \ {c})
    BY <1>1, <1>7
  <2> QED
    BY <2>1, <1>2, <1>3, <1>5, <1>7
<1> QED
  BY <1>6, <1>7

\* And to their bytes, when only a client outside S may have changed its size.
LEMMA BytesMove ==
  ASSUME TypeOK, TypeOK', NEW c \in Clients, NEW l \in PCs, Goto(c, l), NEW S,
         \A d \in Clients : size'[d] = size[d] \/ (d = c /\ l \notin S /\ pc[c] \notin S)
  PROVE  Cardinality(BytesOf(At(S)))' = Cardinality(BytesOf(At(S)))
              + (IF l \in S THEN size[c] ELSE 0) - (IF pc[c] \in S THEN size[c] ELSE 0)
<1> DEFINE T == At(S)
           T1 == At(S)'
<1>1. T1 = IF l \in S THEN T \cup {c} ELSE T \ {c}
  BY AtMove
<1>2. (c \in T <=> pc[c] \in S) /\ T \in SUBSET Clients /\ T1 \in SUBSET Clients
  BY DEF At
<1>3. size \in [Clients -> 0..MaxObjectSize] /\ size[c] \in Int
  BY PoolAssumption DEF TypeOK
<1>4. BytesOf(At(S)) = Units(size, T) /\ BytesOf(At(S))' = Units(size', T1)
  BY DEF BytesOf, Units
<1>5. \A d \in T1 : size'[d] = size[d]
  BY <1>1, <1>2
<1>6. Units(size', T1) = Units(size, T1)
  BY <1>5, UnitsSame
<1>7. Cardinality(Units(size, T)) \in Nat
  BY <1>2, <1>3, UnitsFinite
<1> HIDE DEF T, T1
<1>8. CASE l \in S /\ pc[c] \in S
  <2>1. T1 = T
    BY <1>1, <1>2, <1>8
  <2> QED
    BY <2>1, <1>3, <1>4, <1>6, <1>7, <1>8
<1>9. CASE l \in S /\ pc[c] \notin S
  <2>1. T1 = T \cup {c} /\ c \notin T
    BY <1>1, <1>2, <1>9
  <2>2. Cardinality(Units(size, T1)) = Cardinality(Units(size, T)) + size[c]
    BY <2>1, <1>2, <1>3, UnitsAdd
  <2> QED
    BY <2>2, <1>3, <1>4, <1>6, <1>7, <1>9
<1>10. CASE l \notin S /\ pc[c] \in S
  <2>1. T1 = T \ {c} /\ c \in T
    BY <1>1, <1>2, <1>10
  <2>2. Cardinality(Units(size, T1)) = Cardinality(Units(size, T)) - size[c]
    BY <2>1, <1>2, <1>3, UnitsRemove
  <2> QED
    BY <2>2, <1>3, <1>4, <1>6, <1>7, <1>10
<1>11. CASE l \notin S /\ pc[c] \notin S
  <2>1. T1 = T
    BY <1>1, <1>2, <1>11
  <2> QED
    BY <2>1, <1>3, <1>4, <1>6, <1>7, <1>11
<1> QED
  BY <1>8, <1>9, <1>10, <1>11

-----------------------------------------------------------------------------
(* Every step keeps the inductive invariant *)

\* What a move that leaves the sizes alone does to the four quantities of IInv.
LEMMA Move ==
  ASSUME TypeOK, TypeOK', NEW c \in Clients, NEW l \in PCs, Goto(c, l), size' = size
  PROVE
    /\ \A S \in {CountHeldAt, SlotAt} :
         Cardinality(At(S))' = Cardinality(At(S)) + (IF l \in S THEN 1 ELSE 0)
                                                  - (IF pc[c] \in S THEN 1 ELSE 0)
    /\ \A S \in {BytesHeldAt, LoanAt} :
         Cardinality(BytesOf(At(S)))' = Cardinality(BytesOf(At(S)))
              + (IF l \in S THEN size[c] ELSE 0) - (IF pc[c] \in S THEN size[c] ELSE 0)
<1>1. ASSUME NEW S \in {CountHeldAt, SlotAt}
      PROVE  Cardinality(At(S))' = Cardinality(At(S)) + (IF l \in S THEN 1 ELSE 0)
                                                      - (IF pc[c] \in S THEN 1 ELSE 0)
  BY CountMove
<1>2. ASSUME NEW S \in {BytesHeldAt, LoanAt}
      PROVE  Cardinality(BytesOf(At(S)))' = Cardinality(BytesOf(At(S)))
              + (IF l \in S THEN size[c] ELSE 0) - (IF pc[c] \in S THEN size[c] ELSE 0)
  BY BytesMove
<1> QED
  BY <1>1, <1>2

LEMMA InvStep == NoWrap /\ IInv /\ TypeOK' /\ [Next]_vars => IInv'
<1> SUFFICES ASSUME NoWrap, IInv, TypeOK', [Next]_vars PROVE IInv'
  OBVIOUS
<1> DEFINE n == Cardinality(At(CountHeldAt))
           b == Cardinality(BytesOf(At(BytesHeldAt)))
           sl == Cardinality(At(SlotAt))
           ln == Cardinality(BytesOf(At(LoanAt)))
<1>a. TypeOK /\ CountersMatch /\ AdmittedWithinLimits
  BY DEF IInv
<1>b. /\ n \in 0..(UsizeMod - 1) /\ n' \in 0..(UsizeMod - 1)
      /\ b \in 0..(UsizeMod - 1) /\ b' \in 0..(UsizeMod - 1)
      /\ sl \in Int /\ ln \in Int
  BY <1>a, Bounds
<1>c. UsizeMod \in Nat \ {0} /\ MaxCount \in Nat /\ MaxTotalBytes \in Nat /\ MaxObjectSize \in Nat
  BY PoolAssumption
<1>d. n = inUseCount /\ b = inUseBytes /\ sl <= MaxCount /\ ln <= MaxTotalBytes
  BY <1>a DEF CountersMatch, AdmittedWithinLimits
<1>e. sl <= n /\ ln <= b
  <2>1. At(SlotAt) \in SUBSET At(CountHeldAt) /\ At(LoanAt) \in SUBSET At(BytesHeldAt)
        /\ At(BytesHeldAt) \in SUBSET Clients
    BY DEF At, SlotAt, LoanAt, CountHeldAt, BytesHeldAt
  <2>2. sl <= n
    BY <2>1, AtFinite, FS_Subset
  <2>3. ln = Cardinality(Units(size, At(LoanAt))) /\ b = Cardinality(Units(size, At(BytesHeldAt)))
    BY DEF BytesOf, Units
  <2>4. size \in [Clients -> 0..MaxObjectSize]
    BY <1>a DEF TypeOK
  <2>5. Cardinality(Units(size, At(LoanAt))) <= Cardinality(Units(size, At(BytesHeldAt)))
    BY <2>1, <2>4, UnitsMono
  <2> QED
    BY <2>2, <2>3, <2>5
<1>f. \A c \in Clients : size[c] \in 0..MaxObjectSize /\ pc[c] \in PCs
  BY <1>a DEF TypeOK
<1>g. \A x \in 0..(UsizeMod - 1) : x % UsizeMod = x
  BY <1>c, ModSmall
<1>h. IInv' <=> inUseCount' = n' /\ inUseBytes' = b' /\ sl' <= MaxCount /\ ln' <= MaxTotalBytes
  BY DEF IInv, CountersMatch, AdmittedWithinLimits
<1> HIDE DEF n, b, sl, ln
<1> DEFINE Moved(c, l) ==
  /\ n' = n + (IF l \in CountHeldAt THEN 1 ELSE 0) - (IF pc[c] \in CountHeldAt THEN 1 ELSE 0)
  /\ sl' = sl + (IF l \in SlotAt THEN 1 ELSE 0) - (IF pc[c] \in SlotAt THEN 1 ELSE 0)
  /\ b' = b + (IF l \in BytesHeldAt THEN size[c] ELSE 0) - (IF pc[c] \in BytesHeldAt THEN size[c] ELSE 0)
  /\ ln' = ln + (IF l \in LoanAt THEN size[c] ELSE 0) - (IF pc[c] \in LoanAt THEN size[c] ELSE 0)
<1>i. ASSUME NEW c \in Clients, NEW l \in PCs, Goto(c, l), size' = size PROVE Moved(c, l)
  BY <1>a, <1>i, Move DEF n, b, sl, ln
<1>1. ASSUME NEW c \in Clients, NEW s \in Sizes, ReserveCount(c, s) PROVE IInv'
  <2> DEFINE l == IF inUseCount >= MaxCount THEN "undoCount" ELSE "bytes"
  <2>1. /\ pc[c] = "idle" /\ l \in PCs /\ Goto(c, l)
        /\ inUseCount' = (inUseCount + 1) % UsizeMod /\ inUseBytes' = inUseBytes
        /\ \A d \in Clients : size'[d] = size[d] \/ d = c
    BY <1>1, <1>a DEF ReserveCount, Idle, PCs, CountHeldAt, TypeOK
  <2>2. l \in CountHeldAt /\ l \notin BytesHeldAt /\ l \notin LoanAt /\ (l \in SlotAt <=> l = "bytes")
        /\ pc[c] \notin CountHeldAt /\ pc[c] \notin SlotAt /\ pc[c] \notin BytesHeldAt /\ pc[c] \notin LoanAt
    BY <2>1 DEF CountHeldAt, BytesHeldAt, SlotAt, LoanAt
  <2> HIDE DEF l
  <2>3. n' = n + 1 /\ sl' = sl + (IF l = "bytes" THEN 1 ELSE 0)
    BY <2>1, <2>2, <1>a, <1>b, CountMove DEF n, sl
  <2>4. b' = b /\ ln' = ln
    BY <2>1, <2>2, <1>a, <1>b, BytesMove DEF b, ln
  <2>5. l = "bytes" => inUseCount < MaxCount
    BY <1>b, <1>c, <1>d DEF l
  <2> QED
    BY <2>1, <2>3, <2>4, <2>5, <1>b, <1>c, <1>d, <1>e, <1>g, <1>h
<1>2. ASSUME NEW c \in Clients, UndoCount(c) PROVE IInv'
  <2>1. /\ pc[c] = "undoCount" /\ Goto(c, "idle") /\ size' = size
        /\ inUseCount' = (inUseCount - 1) % UsizeMod /\ inUseBytes' = inUseBytes
    BY <1>2 DEF UndoCount, Idle, stats
  <2>2. "idle" \in PCs
    BY DEF PCs, CountHeldAt, BytesHeldAt, Idle
  <2>3. Moved(c, "idle")
    BY <2>1, <2>2, <1>i
  <2> QED
    BY <2>1, <2>3, <1>b, <1>c, <1>d, <1>f, <1>g, <1>h
       DEF CountHeldAt, BytesHeldAt, SlotAt, LoanAt
<1>3. ASSUME NEW c \in Clients, ReserveBytes(c) PROVE IInv'
  <2> DEFINE l == IF BytesExhausted(size[c]) THEN "undoBytesCount" ELSE "take"
  <2>1. /\ pc[c] = "bytes" /\ Goto(c, l) /\ size' = size
        /\ inUseCount' = inUseCount /\ inUseBytes' = (inUseBytes + size[c]) % UsizeMod
    BY <1>3 DEF ReserveBytes, stats
  <2>2. l \in PCs /\ l \in {"undoBytesCount", "take"}
    BY DEF PCs, CountHeldAt, BytesHeldAt
  <2>3. l = "take" => inUseBytes + size[c] <= MaxTotalBytes
    BY <1>b, <1>c, <1>d, <1>f DEF BytesExhausted
  <2> HIDE DEF l
  <2>4. Moved(c, l)
    BY <2>1, <2>2, <1>i
  <2>5. l \in CountHeldAt /\ l \in SlotAt /\ l \in BytesHeldAt /\ (l \in LoanAt <=> l = "take")
        /\ pc[c] \in CountHeldAt /\ pc[c] \in SlotAt /\ pc[c] \notin BytesHeldAt /\ pc[c] \notin LoanAt
    BY <2>1, <2>2 DEF CountHeldAt, BytesHeldAt, SlotAt, LoanAt
  <2>6. n' = n /\ sl' = sl /\ b' = b + size[c] /\ ln' = ln + (IF l = "take" THEN size[c] ELSE 0)
    BY <2>4, <2>5, <1>b, <1>f
  <2> QED
    BY <2>1, <2>3, <2>6, <1>b, <1>c, <1>d, <1>e, <1>f, <1>g, <1>h
<1>4. ASSUME NEW c \in Clients, UndoBytesCount(c) PROVE IInv'
  <2>1. /\ pc[c] = "undoBytesCount" /\ Goto(c, "undoBytes") /\ size' = size
        /\ inUseCount' = (inUseCount - 1) % UsizeMod /\ inUseBytes' = inUseBytes
    BY <1>4 DEF UndoBytesCount, Idle, stats
  <2>2. "undoBytes" \in PCs
    BY DEF PCs, CountHeldAt, BytesHeldAt, Idle
  <2>3. Moved(c, "undoBytes")
    BY <2>1, <2>2, <1>i
  <2> QED
    BY <2>1, <2>3, <1>b, <1>c, <1>d, <1>f, <1>g, <1>h
       DEF CountHeldAt, BytesHeldAt, SlotAt, LoanAt
<1>5. ASSUME NEW c \in Clients, UndoBytes(c) PROVE IInv'
  <2>1. /\ pc[c] = "undoBytes" /\ Goto(c, "idle") /\ size' = size
        /\ inUseCount' = inUseCount /\ inUseBytes' = (inUseBytes - size[c]) % UsizeMod
    BY <1>5 DEF UndoBytes, Idle, stats
  <2>2. "idle" \in PCs
    BY DEF PCs, CountHeldAt, BytesHeldAt, Idle
  <2>3. Moved(c, "idle")
    BY <2>1, <2>2, <1>i
  <2> QED
    BY <2>1, <2>3, <1>b, <1>c, <1>d, <1>f, <1>g, <1>h
       DEF CountHeldAt, BytesHeldAt, SlotAt, LoanAt
<1>6. ASSUME NEW c \in Clients, TakeHit(c) PROVE IInv'
  <2>1. /\ pc[c] = "take" /\ Goto(c, "publish") /\ size' = size
        /\ inUseCount' = inUseCount /\ inUseBytes' = inUseBytes
    BY <1>6 DEF TakeHit, Idle, stats
  <2>2. "publish" \in PCs
    BY DEF PCs, CountHeldAt, BytesHeldAt, Idle
  <2>3. Moved(c, "publish")
    BY <2>1, <2>2, <1>i
  <2> QED
    BY <2>1, <2>3, <1>b, <1>c, <1>d, <1>f, <1>g, <1>h
       DEF CountHeldAt, BytesHeldAt, SlotAt, LoanAt
<1>7. ASSUME NEW c \in Clients, TakeMiss(c) PROVE IInv'
  <2>1. /\ pc[c] = "take" /\ Goto(c, "publish") /\ size' = size
        /\ inUseCount' = inUseCount /\ inUseBytes' = inUseBytes
    BY <1>7 DEF TakeMiss, Idle, stats
  <2>2. "publish" \in PCs
    BY DEF PCs, CountHeldAt, BytesHeldAt, Idle
  <2>3. Moved(c, "publish")
    BY <2>1, <2>2, <1>i
  <2> QED
    BY <2>1, <2>3, <1>b, <1>c, <1>d, <1>f, <1>g, <1>h
       DEF CountHeldAt, BytesHeldAt, SlotAt, LoanAt
<1>8. ASSUME NEW c \in Clients, Publish(c) PROVE IInv'
  <2>1. /\ pc[c] = "publish" /\ Goto(c, "held") /\ size' = size
        /\ inUseCount' = inUseCount /\ inUseBytes' = inUseBytes
    BY <1>8 DEF Publish, Idle, stats
  <2>2. "held" \in PCs
    BY DEF PCs, CountHeldAt, BytesHeldAt, Idle
  <2>3. Moved(c, "held")
    BY <2>1, <2>2, <1>i
  <2> QED
    BY <2>1, <2>3, <1>b, <1>c, <1>d, <1>f, <1>g, <1>h
       DEF CountHeldAt, BytesHeldAt, SlotAt, LoanAt
<1>9. ASSUME NEW c \in Clients, DropReleased(c) PROVE IInv'
  <2>1. /\ pc[c] = "held" /\ Goto(c, "dropCount") /\ size' = size
        /\ inUseCount' = inUseCount /\ inUseBytes' = inUseBytes
    BY <1>9 DEF DropReleased, Idle, stats
  <2>2. "dropCount" \in PCs
    BY DEF PCs, CountHeldAt, BytesHeldAt, Idle
  <2>3. Moved(c, "dropCount")
    BY <2>1, <2>2, <1>i
  <2> QED
    BY <2>1, <2>3, <1>b, <1>c, <1>d, <1>f, <1>g, <1>h
       DEF CountHeldAt, BytesHeldAt, SlotAt, LoanAt
<1>10. ASSUME NEW c \in Clients, DropCount(c) PROVE IInv'
  <2>1. /\ pc[c] = "dropCount" /\ Goto(c, "dropBytes") /\ size' = size
        /\ inUseCount' = (inUseCount - 1) % UsizeMod /\ inUseBytes' = inUseBytes
    BY <1>10 DEF DropCount, Idle, stats
  <2>2. "dropBytes" \in PCs
    BY DEF PCs, CountHeldAt, BytesHeldAt, Idle
  <2>3. Moved(c, "dropBytes")
    BY <2>1, <2>2, <1>i
  <2> QED
    BY <2>1, <2>3, <1>b, <1>c, <1>d, <1>f, <1>g, <1>h
       DEF CountHeldAt, BytesHeldAt, SlotAt, LoanAt
<1>11. ASSUME NEW c \in Clients, DropBytes(c) PROVE IInv'
  <2>1. /\ pc[c] = "dropBytes" /\ Goto(c, "dropChunk") /\ size' = size
        /\ inUseCount' = inUseCount /\ inUseBytes' = (inUseBytes - size[c]) % UsizeMod
    BY <1>11 DEF DropBytes, Idle, stats
  <2>2. "dropChunk" \in PCs
    BY DEF PCs, CountHeldAt, BytesHeldAt, Idle
  <2>3. Moved(c, "dropChunk")
    BY <2>1, <2>2, <1>i
  <2> QED
    BY <2>1, <2>3, <1>b, <1>c, <1>d, <1>f, <1>g, <1>h
       DEF CountHeldAt, BytesHeldAt, SlotAt, LoanAt
<1>12. ASSUME NEW c \in Clients, DropChunk(c) PROVE IInv'
  <2>1. /\ pc[c] = "dropChunk" /\ Goto(c, "idle") /\ size' = size
        /\ inUseCount' = inUseCount /\ inUseBytes' = inUseBytes
    BY <1>12 DEF DropChunk, Idle, stats
  <2>2. "idle" \in PCs
    BY DEF PCs, CountHeldAt, BytesHeldAt, Idle
  <2>3. Moved(c, "idle")
    BY <2>1, <2>2, <1>i
  <2> QED
    BY <2>1, <2>3, <1>b, <1>c, <1>d, <1>f, <1>g, <1>h
       DEF CountHeldAt, BytesHeldAt, SlotAt, LoanAt
<1>13. CASE UNCHANGED vars
  BY <1>13, <1>h, <1>d DEF vars, n, b, sl, ln, At, BytesOf
<1> QED
  BY <1>1, <1>2, <1>3, <1>4, <1>5, <1>6, <1>7, <1>8, <1>9, <1>10, <1>11, <1>12, <1>13
     DEF Next, Acquire, Release

-----------------------------------------------------------------------------
(* The theorems *)

\* The strengthened invariant implies the limits the runs check.
LEMMA InvSafe ==
  ASSUME NoWrap, IInv PROVE CountersExact /\ GrantedWithinCount /\ GrantedWithinBytes
<1>1. TypeOK /\ CountersMatch /\ AdmittedWithinLimits
  BY DEF IInv
<1>2. At(GrantedAt) \in SUBSET At(SlotAt) /\ At(GrantedAt) \in SUBSET At(LoanAt)
      /\ At(LoanAt) \in SUBSET Clients
  BY DEF At, GrantedAt, SlotAt, LoanAt, CountHeldAt, BytesHeldAt
<1>3. GrantedWithinCount
  <2>1. Cardinality(At(GrantedAt)) <= Cardinality(At(SlotAt))
    BY <1>2, AtFinite, FS_Subset
  <2>2. Cardinality(At(GrantedAt)) \in Nat /\ Cardinality(At(SlotAt)) \in Nat /\ MaxCount \in Nat
    BY AtFinite, PoolAssumption
  <2> QED
    BY <1>1, <2>1, <2>2 DEF AdmittedWithinLimits, GrantedWithinCount
<1>4. GrantedWithinBytes
  <2>1. size \in [Clients -> 0..MaxObjectSize]
    BY <1>1 DEF TypeOK
  <2>2. Cardinality(Units(size, At(GrantedAt))) <= Cardinality(Units(size, At(LoanAt)))
    BY <1>2, <2>1, UnitsMono
  <2>3. Cardinality(Units(size, At(GrantedAt))) \in Nat /\ Cardinality(Units(size, At(LoanAt))) \in Nat
    BY <1>2, <2>1, UnitsFinite
  <2>4. BytesOf(At(GrantedAt)) = Units(size, At(GrantedAt)) /\ BytesOf(At(LoanAt)) = Units(size, At(LoanAt))
    BY DEF BytesOf, Units
  <2>5. Cardinality(Units(size, At(LoanAt))) <= MaxTotalBytes /\ MaxTotalBytes \in Nat
    BY <1>1, <2>4, PoolAssumption DEF AdmittedWithinLimits
  <2> QED
    BY <2>2, <2>3, <2>4, <2>5 DEF GrantedWithinBytes
<1>5. CountersExact
  <2>1. inUseCount \in 0..(UsizeMod - 1) /\ inUseBytes \in 0..(UsizeMod - 1)
    BY <1>1 DEF TypeOK
  <2>2. inUseCount % UsizeMod = inUseCount /\ inUseBytes % UsizeMod = inUseBytes
    BY <2>1, ModSmall, PoolAssumption
  <2> QED
    BY <1>1, <2>2 DEF CountersMatch, CountersExact
<1> QED
  BY <1>3, <1>4, <1>5

LEMMA InvInit == NoWrap /\ Init => IInv
<1> SUFFICES ASSUME NoWrap, Init PROVE IInv
  OBVIOUS
<1>1. TypeOK
  BY PoolAssumption DEF Init, TypeOK, PCs, Idle
<1>2. \A c \in Clients : pc[c] \notin CountHeldAt \cup BytesHeldAt
  BY DEF Init, Idle, CountHeldAt, BytesHeldAt
<1>3. At(CountHeldAt) = {} /\ At(SlotAt) = {} /\ BytesOf(At(BytesHeldAt)) = {} /\ BytesOf(At(LoanAt)) = {}
  BY <1>2 DEF At, BytesOf, SlotAt, LoanAt
<1>4. CountersMatch /\ AdmittedWithinLimits
  BY <1>3, FS_EmptySet, PoolAssumption DEF Init, CountersMatch, AdmittedWithinLimits
<1> QED
  BY <1>1, <1>4 DEF IInv

LEMMA Invariance == NoWrap => (Spec => []IInv)
<1> SUFFICES ASSUME NoWrap PROVE Spec => []IInv
  OBVIOUS
<1>1. Init => IInv
  BY InvInit
<1>2. IInv /\ [Next]_vars => IInv'
  BY InvStep, TypeStep DEF IInv
<1> QED
  BY <1>1, <1>2, PTL DEF Spec

\* As long as the atomics are wide enough for all reservations at once, the
\* counters are exact and neither limit is ever exceeded, for any number of
\* concurrent clients and any limits (acquire and PoolToken::drop of pool.rs).
THEOREM PoolSafe ==
  NoWrap => (Spec => [](CountersExact /\ GrantedWithinCount /\ GrantedWithinBytes))
<1> SUFFICES ASSUME NoWrap PROVE Spec => [](CountersExact /\ GrantedWithinCount /\ GrantedWithinBytes)
  OBVIOUS
<1>1. IInv => CountersExact /\ GrantedWithinCount /\ GrantedWithinBytes
  BY InvSafe
<1> QED
  BY <1>1, Invariance, PTL

-----------------------------------------------------------------------------
(* The lock-free pool implements the counter-free one *)

Lease == [c \in Clients |-> IF pc[c] \in GrantedAt THEN size[c] ELSE -1]

\* The loans of the abstract pool are the clients holding a grant.
LEMMA LeaseLoans ==
  ASSUME TypeOK
  PROVE  Abs!Loans = At(GrantedAt) /\ Abs!LoanedBytes = BytesOf(At(GrantedAt))
<1>1. \A c \in Clients : Lease[c] = IF pc[c] \in GrantedAt THEN size[c] ELSE -1
  BY DEF Lease
<1>2. \A c \in Clients : size[c] # -1
  BY PoolAssumption DEF TypeOK
<1>3. Abs!Loans = {c \in Clients : Lease[c] # -1}
  BY DEF Abs!Loans, Abs!NoLease, Lease
<1>4. Abs!Loans = At(GrantedAt)
  BY <1>1, <1>2, <1>3 DEF At
<1>5. Abs!LoanedBytes = UNION {{c} \X (1..Lease[c]) : c \in At(GrantedAt)}
  BY <1>4 DEF Abs!LoanedBytes, Lease
<1>6. \A c \in At(GrantedAt) : Lease[c] = size[c]
  BY <1>1 DEF At
<1> QED
  BY <1>4, <1>5, <1>6 DEF BytesOf

\* The abstract module's Cardinality is the one of FiniteSets.
LEMMA SameCardinality == \A S : Abs!Cardinality(S) = Cardinality(S)
BY DEF Abs!Cardinality, Cardinality

\* A step of the pool lends, returns or leaves the loans alone.
LEMMA AbsStep == NoWrap /\ IInv /\ IInv' /\ [Next]_vars => [Abs!Next]_Lease
<1> SUFFICES ASSUME NoWrap, IInv, IInv', [Next]_vars PROVE [Abs!Next]_Lease
  OBVIOUS
<1>a. TypeOK /\ TypeOK'
  BY DEF IInv
<1>b. \A c \in Clients : size[c] \in 0..MaxObjectSize /\ size[c] # -1
  BY <1>a, PoolAssumption DEF TypeOK
<1>c. DOMAIN pc = Clients /\ DOMAIN size = Clients
  BY <1>a DEF TypeOK
<1>1. ASSUME NEW c \in Clients, ReserveBytes(c) PROVE [Abs!Next]_Lease
  <2>1. CASE BytesExhausted(size[c])
    <3>1. pc[c] = "bytes" /\ pc' = [pc EXCEPT ![c] = "undoBytesCount"] /\ size' = size
      BY <1>1, <2>1 DEF ReserveBytes, Goto
    <3> QED
      BY <3>1, <1>c DEF Lease, GrantedAt
  <2>2. CASE ~BytesExhausted(size[c])
    <3>1. pc[c] = "bytes" /\ pc' = [pc EXCEPT ![c] = "take"] /\ size' = size /\ Goto(c, "take")
      BY <1>1, <2>2 DEF ReserveBytes, Goto
    <3>2. Lease[c] = -1 /\ Lease' = [Lease EXCEPT ![c] = size[c]]
      BY <3>1, <1>c DEF Lease, GrantedAt
    <3>3. Cardinality(At(GrantedAt))' <= MaxCount /\ Cardinality(BytesOf(At(GrantedAt)))' <= MaxTotalBytes
      <4>1. IInv' => GrantedWithinCount' /\ GrantedWithinBytes'
        BY InvSafe, PTL
      <4> QED
        BY <4>1 DEF GrantedWithinCount, GrantedWithinBytes
    <3>4. "take" \in PCs /\ "take" \in GrantedAt /\ pc[c] \notin GrantedAt
      BY <3>1 DEF PCs, CountHeldAt, GrantedAt
    <3>5. Cardinality(At(GrantedAt))' = Cardinality(At(GrantedAt)) + 1
      <4>1. Cardinality(At(GrantedAt))' = Cardinality(At(GrantedAt)) + 1 - 0
        BY <1>a, <3>1, <3>4, CountMove
      <4> QED
        BY <4>1, AtFinite
    <3>6. Cardinality(BytesOf(At(GrantedAt)))' = Cardinality(BytesOf(At(GrantedAt))) + size[c]
      <4>1. \A d \in Clients : size'[d] = size[d]
        BY <3>1
      <4>2. Cardinality(BytesOf(At(GrantedAt)))' = Cardinality(BytesOf(At(GrantedAt)))
              + (IF "take" \in GrantedAt THEN size[c] ELSE 0) - (IF pc[c] \in GrantedAt THEN size[c] ELSE 0)
        BY <1>a, <3>1, <3>4, <4>1, BytesMove
      <4>3. Cardinality(BytesOf(At(GrantedAt))) \in 0..(UsizeMod - 1)
        BY <1>a, Bounds
      <4>4. size[c] \in Nat
        BY <1>b, PoolAssumption
      <4> QED
        BY <3>4, <4>2, <4>3, <4>4
    <3>7. Abs!Loans = At(GrantedAt) /\ Abs!LoanedBytes = BytesOf(At(GrantedAt))
      BY <1>a, LeaseLoans
    <3>8. Cardinality(Abs!Loans) + 1 <= MaxCount
      BY <3>3, <3>5, <3>7
    <3>9. Cardinality(Abs!LoanedBytes) + size[c] <= MaxTotalBytes
      BY <3>3, <3>6, <3>7
    <3>10. \E s \in 0..MaxObjectSize : Abs!Lend(c, s)
      <4> DEFINE s == size[c]
      <4>1. s \in 0..MaxObjectSize
        BY <1>b
      <4>2. Cardinality(Abs!LoanedBytes) + s <= MaxTotalBytes
        BY <3>9
      <4>3. Lease[c] = -1 /\ Lease' = [Lease EXCEPT ![c] = s]
        BY <3>2
      <4> HIDE DEF s
      <4> QED
        BY <3>8, <4>1, <4>2, <4>3, SameCardinality DEF Abs!Lend, Abs!NoLease, Lease
    <3> QED
      BY <3>10 DEF Abs!Next
  <2> QED
    BY <2>1, <2>2
<1>2. ASSUME NEW c \in Clients, DropCount(c) PROVE [Abs!Next]_Lease
  <2>1. pc[c] = "dropCount" /\ pc' = [pc EXCEPT ![c] = "dropBytes"] /\ size' = size
    BY <1>2 DEF DropCount, Goto
  <2>2. Lease[c] # -1 /\ Lease' = [Lease EXCEPT ![c] = -1]
    BY <2>1, <1>b, <1>c DEF Lease, GrantedAt
  <2>3. Abs!Return(c)
    BY <2>2 DEF Abs!Return, Abs!NoLease, Lease
  <2> QED
    BY <2>3 DEF Abs!Next
<1>3. ASSUME NEW c \in Clients, NEW s \in Sizes, ReserveCount(c, s) PROVE Lease' = Lease
  <2>1. pc[c] = "idle" /\ size' = [size EXCEPT ![c] = s]
        /\ \E l \in {"undoCount", "bytes"} : pc' = [pc EXCEPT ![c] = l]
    BY <1>3 DEF ReserveCount, Goto, Idle
  <2> QED
    BY <2>1, <1>c DEF Lease, GrantedAt
<1>4. ASSUME NEW c \in Clients,
             UndoCount(c) \/ UndoBytesCount(c) \/ UndoBytes(c) \/ TakeHit(c) \/ TakeMiss(c)
               \/ Publish(c) \/ DropReleased(c) \/ DropBytes(c) \/ DropChunk(c)
      PROVE  Lease' = Lease
  <2>1. size' = size
    BY <1>4 DEF UndoCount, UndoBytesCount, UndoBytes, TakeHit, TakeMiss, Publish, DropReleased,
                DropBytes, DropChunk
  <2>2. \E l \in PCs : pc' = [pc EXCEPT ![c] = l] /\ (l \in GrantedAt <=> pc[c] \in GrantedAt)
    BY <1>4 DEF UndoCount, UndoBytesCount, UndoBytes, TakeHit, TakeMiss, Publish, DropReleased,
                DropBytes, DropChunk, Goto, GrantedAt, PCs, CountHeldAt, BytesHeldAt, Idle
  <2> QED
    BY <2>1, <2>2, <1>c DEF Lease
<1>5. CASE UNCHANGED vars
  BY <1>5 DEF vars, Lease
<1> QED
  BY <1>1, <1>2, <1>3, <1>4, <1>5 DEF Next, Acquire, Release

\* The lock-free pool of pool.rs implements the abstract bounded pool: seen by
\* its callers it lends and takes back buffers within both limits, whatever the
\* interleaving of its atomic steps.
THEOREM PoolRefines == NoWrap => (Spec => ImplementsBoundedPool)
<1> SUFFICES ASSUME NoWrap PROVE Spec => Abs!Spec
  BY DEF ImplementsBoundedPool
<1>1. Init => Abs!Init
  BY DEF Init, Abs!Init, Abs!NoLease, GrantedAt, Idle
<1>2. IInv /\ IInv' /\ [Next]_vars => [Abs!Next]_Lease
  BY AbsStep
<1> QED
  BY <1>1, <1>2, Invariance, PTL DEF Spec, Abs!Spec, Lease

-----------------------------------------------------------------------------
(* Numbers in ascending order *)

\* How many elements of S come before x.
Rank(S, x) == Queue!Cardinality({k \in S : k < x})

LEMMA QueueCardinality == \A S : Queue!Cardinality(S) = Cardinality(S)
BY DEF Queue!Cardinality, Cardinality

LEMMA LanesCardinality == \A S : Queue!Lanes!Cardinality(S) = Cardinality(S)
BY DEF Queue!Lanes!Cardinality, Cardinality

LEMMA RankRange ==
  ASSUME NEW S \in SUBSET Nat, IsFiniteSet(S), NEW x \in S
  PROVE  Rank(S, x) \in 0..(Cardinality(S) - 1) /\ Cardinality(S) \in Nat
<1> DEFINE B == {k \in S : k < x}
<1>1. B \in SUBSET S /\ x \notin B
  OBVIOUS
<1> HIDE DEF B
<1>2. IsFiniteSet(B) /\ Cardinality(B) <= Cardinality(S) /\ Cardinality(B) # Cardinality(S)
  BY <1>1, FS_Subset
<1>3. Cardinality(B) \in Nat /\ Cardinality(S) \in Nat
  BY <1>2, FS_CardinalityType
<1>4. Rank(S, x) = Cardinality(B)
  BY QueueCardinality DEF Rank, B
<1> QED
  BY <1>2, <1>3, <1>4

LEMMA RankRises ==
  ASSUME NEW S \in SUBSET Nat, IsFiniteSet(S), NEW x \in S, NEW y \in S, x < y
  PROVE  Rank(S, x) < Rank(S, y)
<1> DEFINE B == {k \in S : k < x}
           C == {k \in S : k < y}
<1>1. B \in SUBSET C /\ C \in SUBSET S /\ x \in C /\ x \notin B
  <2>1. x \in Nat /\ y \in Nat /\ \A k \in S : k \in Nat
    OBVIOUS
  <2>2. ~(x < x) /\ \A k \in S : k < x => k < y
    BY <2>1
  <2> QED
    BY <2>2
<1>2. Rank(S, x) = Cardinality(B) /\ Rank(S, y) = Cardinality(C)
  BY QueueCardinality DEF Rank
<1> HIDE DEF B, C
<1>3. IsFiniteSet(C)
  BY <1>1, FS_Subset
<1>4. IsFiniteSet(B) /\ Cardinality(B) <= Cardinality(C) /\ Cardinality(B) # Cardinality(C)
  BY <1>1, <1>3, FS_Subset
<1>5. Cardinality(B) \in Nat /\ Cardinality(C) \in Nat
  BY <1>3, <1>4, FS_CardinalityType
<1> QED
  BY <1>2, <1>4, <1>5

LEMMA RankDiffers ==
  ASSUME NEW S \in SUBSET Nat, IsFiniteSet(S), NEW x \in S, NEW y \in S, Rank(S, x) = Rank(S, y)
  PROVE  x = y
<1>1. x \in Nat /\ y \in Nat /\ Rank(S, x) \in Int
  BY RankRange
<1>2. ~(x < y) /\ ~(y < x)
  <2>1. ASSUME x < y PROVE FALSE
    BY <1>1, <2>1, RankRises
  <2>2. ASSUME y < x PROVE FALSE
    BY <1>1, <2>2, RankRises
  <2> QED
    BY <2>1, <2>2
<1> QED
  BY <1>1, <1>2

LEMMA RankTaken ==
  ASSUME NEW S \in SUBSET Nat, IsFiniteSet(S), NEW j \in 1..Cardinality(S)
  PROVE  \E x \in S : Rank(S, x) = j - 1
<1> DEFINE n == Cardinality(S)
           T == 0..(n - 1)
           f == [x \in S |-> Rank(S, x)]
<1>1. n \in Nat
  BY FS_CardinalityType
<1>2. IsFiniteSet(T) /\ Cardinality(T) = n
  <2>1. 0 \in Int /\ n - 1 \in Int
    BY <1>1
  <2>2. IsFiniteSet(T) /\ Cardinality(T) = IF 0 > n - 1 THEN 0 ELSE (n - 1) - 0 + 1
    BY <2>1, FS_Interval
  <2> QED
    BY <1>1, <2>2
<1>3. f \in Injection(S, T)
  <2>1. f \in [S -> T]
    BY RankRange
  <2>2. \A x, y \in S : f[x] = f[y] => x = y
    BY RankDiffers
  <2> HIDE DEF f, T
  <2> QED
    BY <2>1, <2>2 DEF Injection, IsInjective
<1> HIDE DEF f
<1>4. f \in Surjection(S, T)
  <2> HIDE DEF T
  <2> QED
    BY <1>2, <1>3, FS_Injection
<1>5. j - 1 \in T
  BY <1>1
<1>6. \E x \in S : f[x] = j - 1
  <2> HIDE DEF T
  <2> QED
    BY <1>4, <1>5 DEF Surjection
<1> QED
  BY <1>6 DEF f

\* The j-th number, and where a number is.
LEMMA AscendingIs ==
  ASSUME NEW S \in SUBSET Nat, IsFiniteSet(S)
  PROVE  /\ Queue!Ascending(S) \in Seq(S) /\ Len(Queue!Ascending(S)) = Cardinality(S)
         /\ Cardinality(S) \in Nat
         /\ \A j \in 1..Cardinality(S) :
              Queue!Ascending(S)[j] \in S /\ Rank(S, Queue!Ascending(S)[j]) = j - 1
         /\ \A j \in 1..Cardinality(S), x \in S :
              Rank(S, x) = j - 1 => Queue!Ascending(S)[j] = x
<1> DEFINE a == Queue!Ascending(S)
           n == Cardinality(S)
<1>1. n \in Nat
  BY FS_CardinalityType
<1>2. a = [j \in 1..n |-> CHOOSE i \in S : Queue!Cardinality({k \in S : k < i}) = j - 1]
  BY QueueCardinality DEF Queue!Ascending
<1>3. ASSUME NEW j \in 1..n PROVE a[j] \in S /\ Rank(S, a[j]) = j - 1
  <2>1. \E i \in S : Queue!Cardinality({k \in S : k < i}) = j - 1
    BY RankTaken DEF Rank
  <2>2. a[j] = CHOOSE i \in S : Queue!Cardinality({k \in S : k < i}) = j - 1
    BY <1>2
  <2>3. a[j] \in S /\ Queue!Cardinality({k \in S : k < a[j]}) = j - 1
    BY <2>1, <2>2
  <2> QED
    BY <2>3 DEF Rank
<1>4. a \in [1..n -> S]
  BY <1>2, <1>3
<1> HIDE DEF a
<1>5. a \in Seq(S) /\ Len(a) = n
  BY <1>1, <1>4
<1>6. ASSUME NEW j \in 1..n, NEW x \in S, Rank(S, x) = j - 1 PROVE a[j] = x
  <2>1. a[j] \in S /\ Rank(S, a[j]) = Rank(S, x)
    BY <1>3, <1>6
  <2>2. \A y, z \in S : Rank(S, y) = Rank(S, z) => y = z
    BY RankDiffers
  <2> QED
    BY <2>1, <2>2
<1> QED
  BY <1>1, <1>3, <1>5, <1>6 DEF a

\* A sequence is told by its length and its elements.
LEMMA SameSequence ==
  ASSUME NEW S, NEW T, NEW a \in Seq(S), NEW b \in Seq(T), Len(a) = Len(b),
         \A j \in 1..Len(a) : a[j] = b[j]
  PROVE  a = b
OBVIOUS

LEMMA AscendingNext ==
  ASSUME NEW S \in SUBSET Nat, IsFiniteSet(S), NEW n \in Nat, \A x \in S : x < n
  PROVE  /\ Queue!Ascending(S \cup {n}) = Append(Queue!Ascending(S), n)
         /\ IsFiniteSet(S \cup {n}) /\ S \cup {n} \in SUBSET Nat
<1> DEFINE T == S \cup {n}
           a == Queue!Ascending(S)
           b == Queue!Ascending(T)
           c == Append(a, n)
           l == Cardinality(S)
<1>1. T \in SUBSET Nat /\ n \notin S /\ n \in T /\ S \subseteq T
  OBVIOUS
<1>2. IsFiniteSet(T) /\ Cardinality(T) = l + 1 /\ l \in Nat
  BY <1>1, FS_AddElement, FS_CardinalityType
<1>3. ASSUME NEW x \in S PROVE Rank(T, x) = Rank(S, x)
  <2>1. {k \in T : k < x} = {k \in S : k < x}
    OBVIOUS
  <2> QED
    BY <2>1 DEF Rank
<1>4. Rank(T, n) = l
  <2>1. {k \in T : k < n} = S
    <3>1. ~(n < n)
      OBVIOUS
    <3> QED
      BY <1>1, <3>1
  <2> QED
    BY <2>1, QueueCardinality DEF Rank
<1>5. /\ a \in Seq(S) /\ Len(a) = l
      /\ \A j \in 1..l : a[j] \in S /\ Rank(S, a[j]) = j - 1
  BY AscendingIs
<1> HIDE DEF T, a
<1>6. /\ b \in Seq(T) /\ Len(b) = l + 1
      /\ \A j \in 1..(l + 1), x \in T : Rank(T, x) = j - 1 => b[j] = x
  BY <1>1, <1>2, AscendingIs
<1>7. /\ c \in Seq(T) /\ Len(c) = l + 1 /\ \A j \in 1..l : c[j] = a[j]
      /\ c[l + 1] = n
  <2>1. a \in Seq(T)
    <3>1. a \in [1..l -> S]
      BY <1>5
    <3>2. a \in [1..l -> T]
      BY <1>1, <3>1
    <3> QED
      BY <1>2, <3>2
  <2> QED
    BY <1>1, <1>2, <1>5, <2>1
<1> HIDE DEF b, c
<1>8. ASSUME NEW j \in 1..(l + 1) PROVE b[j] = c[j]
  <2>1. CASE j = l + 1
    <3>1. Rank(T, n) = j - 1
      BY <1>2, <1>4, <2>1
    <3> QED
      BY <1>1, <1>6, <1>7, <2>1, <3>1
  <2>2. CASE j # l + 1
    <3>1. j \in 1..l
      BY <1>2, <2>2
    <3>2. a[j] \in T /\ Rank(T, a[j]) = j - 1
      BY <1>1, <1>3, <1>5, <3>1
    <3> QED
      BY <1>6, <1>7, <3>1, <3>2
  <2> QED
    BY <2>1, <2>2
<1>9. b = c
  BY <1>6, <1>7, <1>8, SameSequence
<1> QED
  BY <1>1, <1>2, <1>9 DEF T, a, b, c

LEMMA AscendingFirst ==
  ASSUME NEW S \in SUBSET Nat, IsFiniteSet(S), NEW m \in S, \A x \in S : m <= x
  PROVE  /\ Queue!Ascending(S) # <<>> /\ Head(Queue!Ascending(S)) = m
         /\ Queue!Ascending(S \ {m}) = Tail(Queue!Ascending(S))
         /\ IsFiniteSet(S \ {m}) /\ S \ {m} \in SUBSET Nat
<1> DEFINE T == S \ {m}
           a == Queue!Ascending(S)
           b == Queue!Ascending(T)
           c == Tail(a)
           l == Cardinality(T)
<1>1. T \in SUBSET Nat /\ T \subseteq S /\ m \notin T /\ m \in Nat
  OBVIOUS
<1>2. IsFiniteSet(T) /\ Cardinality(S) = l + 1 /\ l \in Nat
  <2>1. IsFiniteSet(T) /\ Cardinality(T) = Cardinality(S) - 1
    BY FS_RemoveElement
  <2>2. Cardinality(S) \in Nat /\ l \in Nat
    BY <2>1, FS_CardinalityType
  <2> QED
    BY <2>1, <2>2
<1>3. ASSUME NEW x \in T PROVE Rank(S, x) = Rank(T, x) + 1
  <2> DEFINE B == {k \in T : k < x}
  <2>1. {k \in S : k < x} = B \cup {m} /\ m \notin B /\ B \in SUBSET T
    <3>1. m < x
      OBVIOUS
    <3> QED
      BY <1>1, <3>1
  <2>2. IsFiniteSet(B)
    <3> HIDE DEF B, T
    <3> QED
      BY <1>2, <2>1, FS_Subset
  <2>3. Cardinality(B \cup {m}) = Cardinality(B) + 1
    <3> HIDE DEF B
    <3> QED
      BY <2>1, <2>2, FS_AddElement
  <2> QED
    BY <2>1, <2>3, QueueCardinality DEF Rank
<1>4. Rank(S, m) = 0
  <2>1. ASSUME NEW k \in S PROVE ~(k < m)
    <3>1. k \in Nat /\ m <= k
      OBVIOUS
    <3> QED
      BY <1>1, <3>1
  <2>2. {k \in S : k < m} = {}
    BY <2>1
  <2> QED
    BY <2>2, FS_EmptySet, QueueCardinality DEF Rank
<1>5. /\ a \in Seq(S) /\ Len(a) = l + 1
      /\ \A j \in 1..(l + 1), x \in S : Rank(S, x) = j - 1 => a[j] = x
  BY <1>2, AscendingIs
<1> HIDE DEF a
<1>6. a # <<>> /\ Head(a) = m
  <2>1. 1 \in 1..(l + 1) /\ Rank(S, m) = 1 - 1
    BY <1>2, <1>4
  <2>2. a[1] = m
    BY <1>5, <2>1
  <2> QED
    BY <1>2, <1>5, <2>2
<1>7. c \in Seq(S) /\ Len(c) = l /\ \A j \in 1..l : c[j] = a[j + 1]
  <2>1. c \in Seq(S) /\ Len(c) = Len(a) - 1 /\ \A j \in 1..Len(c) : c[j] = a[j + 1]
    BY <1>5, <1>6, HeadTailProperties
  <2>2. Len(a) - 1 = l
    BY <1>2, <1>5
  <2> HIDE DEF c
  <2> QED
    BY <2>1, <2>2
<1> HIDE DEF T
<1>8. /\ b \in Seq(T) /\ Len(b) = l
      /\ \A j \in 1..l : b[j] \in T /\ Rank(T, b[j]) = j - 1
  BY <1>1, <1>2, AscendingIs
<1> HIDE DEF b, c
<1>9. ASSUME NEW j \in 1..l PROVE b[j] = c[j]
  <2>1. b[j] \in T /\ Rank(T, b[j]) = j - 1
    BY <1>8
  <2>2. Rank(S, b[j]) = Rank(T, b[j]) + 1 /\ b[j] \in S
    BY <1>1, <1>3, <2>1
  <2>3. Rank(S, b[j]) = (j + 1) - 1 /\ j + 1 \in 1..(l + 1)
    BY <1>2, <2>1, <2>2
  <2> QED
    BY <1>5, <1>7, <2>2, <2>3
<1>10. b = c
  BY <1>7, <1>8, <1>9, SameSequence
<1> QED
  BY <1>1, <1>2, <1>6, <1>10 DEF T, a, b, c

LEMMA AscendingEmpty ==
  ASSUME NEW S \in SUBSET Nat, IsFiniteSet(S)
  PROVE  Queue!Ascending(S) = <<>> <=> S = {}
<1> DEFINE a == Queue!Ascending(S)
<1>1. a \in Seq(S) /\ Len(a) = Cardinality(S)
  BY AscendingIs
<1> HIDE DEF a
<1>2. Cardinality(S) = 0 <=> S = {}
  BY FS_EmptySet
<1>3. a = <<>> <=> Len(a) = 0
  BY <1>1
<1> QED
  BY <1>1, <1>2, <1>3 DEF a

-----------------------------------------------------------------------------
(* A queue *)

\* The items of a queue lie in the order in which they were pushed, which n were.
Row(s, n) ==
  /\ s \in Seq(Queue!Item)
  /\ \A i \in 1..Len(s) : s[i].id <= n
  /\ \A i \in 1..Len(s), j \in 1..Len(s) : i < j => s[i].id < s[j].id

Ids(s, p) == {s[i].id : i \in {k \in 1..Len(s) : s[k].prio = p}}

LEMMA SameSet == ASSUME NEW S, NEW T, \A x : x \in S <=> x \in T PROVE S = T
OBVIOUS

LEMMA SchedulerAssumed ==
  /\ Stages \in Nat \ {0} /\ MaxPushed \in Nat /\ Priorities \subseteq 0..3
  /\ Capacity \in [Queue!Queues -> Nat]
BY QueueAssumption DEF Queue!SchedulerAssumption, Queue!Data

LEMMA ItemIs ==
  ASSUME NEW s \in Seq(Queue!Item), NEW i \in 1..Len(s)
  PROVE  /\ s[i] \in Queue!Item /\ s[i].prio \in Priorities /\ s[i].prio \in Nat
         /\ s[i].prio <= 3 /\ s[i].id \in Nat /\ s[i].id >= 1
<1>1. s[i] \in Queue!Item
  OBVIOUS
<1>2. s[i].prio \in Priorities /\ s[i].id \in 1..MaxPushed
  BY <1>1 DEF Queue!Item
<1>3. s[i].prio \in Nat /\ s[i].prio <= 3
  <2>1. s[i].prio \in 0..3
    BY <1>2, SchedulerAssumed
  <2> QED
    BY <2>1
<1>4. s[i].id \in Nat /\ s[i].id >= 1
  <2>1. MaxPushed \in Nat
    BY SchedulerAssumed
  <2> QED
    BY <1>2, <2>1
<1> QED
  BY <1>1, <1>2, <1>3, <1>4

LEMMA IdsTyped ==
  ASSUME NEW n \in Nat, NEW s, Row(s, n), NEW p
  PROVE  /\ Ids(s, p) \in SUBSET Nat /\ IsFiniteSet(Ids(s, p))
         /\ \A x \in Ids(s, p) : x <= n
<1>1. ASSUME NEW x \in Ids(s, p) PROVE x \in Nat /\ x <= n
  <2>1. PICK i \in 1..Len(s) : x = s[i].id
    BY DEF Ids
  <2>2. s \in Seq(Queue!Item) /\ s[i].id <= n
    BY DEF Row
  <2> QED
    BY <2>1, <2>2, ItemIs
<1>2. Ids(s, p) \in SUBSET Nat
  BY <1>1
<1>3. IsFiniteSet(Ids(s, p))
  BY <1>1, <1>2, FS_BoundedSetOfNaturals
<1> QED
  BY <1>1, <1>2, <1>3

LEMMA IdOfOne ==
  ASSUME NEW n \in Nat, NEW s, Row(s, n), NEW i \in 1..Len(s), NEW j \in 1..Len(s),
         s[i].id = s[j].id
  PROVE  i = j
<1>1. s[i].id \in Nat /\ s[j].id \in Nat /\ i \in Nat /\ j \in Nat
  BY ItemIs DEF Row
<1>2. (i < j => s[i].id < s[j].id) /\ (j < i => s[j].id < s[i].id)
  BY DEF Row
<1> QED
  BY <1>1, <1>2

\* The queue after an item of priority p with the number m.
Added(s, p, m) == Append(s, [prio |-> p, id |-> m])

LEMMA Appended ==
  ASSUME NEW n \in Nat, NEW s, Row(s, n), NEW p \in Priorities, n < MaxPushed
  PROVE  /\ Row(Added(s, p, n + 1), n + 1) /\ Len(Added(s, p, n + 1)) = Len(s) + 1
         /\ Ids(Added(s, p, n + 1), p) = Ids(s, p) \cup {n + 1}
         /\ \A o \in Priorities : o # p => Ids(Added(s, p, n + 1), o) = Ids(s, o)
<1> DEFINE x == [prio |-> p, id |-> n + 1]
           r == Append(s, x)
<1>1. s \in Seq(Queue!Item) /\ Len(s) \in Nat
  BY DEF Row
<1>2. x \in Queue!Item
  <2>1. n + 1 \in 1..MaxPushed
    BY SchedulerAssumed
  <2> QED
    BY <2>1 DEF Queue!Item
<1>3. x.prio = p /\ x.id = n + 1
  OBVIOUS
<1> HIDE DEF x
<1>4. /\ r \in Seq(Queue!Item) /\ Len(r) = Len(s) + 1 /\ \A i \in 1..Len(s) : r[i] = s[i]
      /\ r[Len(s) + 1] = x
  BY <1>1, <1>2
<1> HIDE DEF r
<1>5. ASSUME NEW i \in 1..Len(r)
      PROVE  r[i].id <= n + 1 /\ (i # Len(r) => i \in 1..Len(s) /\ r[i].id <= n)
  <2>1. CASE i = Len(s) + 1
    BY <1>3, <1>4, <2>1
  <2>2. CASE i # Len(s) + 1
    <3>1. i \in 1..Len(s)
      BY <1>1, <1>4, <2>2
    <3>2. r[i] = s[i] /\ s[i].id <= n
      BY <1>4, <3>1 DEF Row
    <3>3. s[i].id \in Nat
      BY <1>1, <3>1, ItemIs
    <3> QED
      BY <3>1, <3>2, <3>3
  <2> QED
    BY <2>1, <2>2
<1>6. ASSUME NEW i \in 1..Len(r), NEW j \in 1..Len(r), i < j PROVE r[i].id < r[j].id
  <2>1. i \in 1..Len(s)
    BY <1>1, <1>4, <1>6
  <2>2. r[i] = s[i] /\ s[i].id <= n /\ s[i].id \in Nat
    BY <1>1, <1>4, <2>1, ItemIs DEF Row
  <2>3. CASE j = Len(s) + 1
    BY <1>3, <1>4, <2>2, <2>3
  <2>4. CASE j # Len(s) + 1
    <3>1. j \in 1..Len(s)
      BY <1>1, <1>4, <2>4
    <3> QED
      BY <1>4, <1>6, <2>1, <2>2, <3>1 DEF Row
  <2> QED
    BY <2>3, <2>4
<1>7. ASSUME NEW o, NEW y
      PROVE  y \in Ids(r, o) <=> y \in Ids(s, o) \/ (o = p /\ y = n + 1)
  <2>1. ASSUME y \in Ids(r, o) PROVE y \in Ids(s, o) \/ (o = p /\ y = n + 1)
    <3>1. PICK i \in 1..Len(r) : r[i].prio = o /\ y = r[i].id
      BY <2>1 DEF Ids
    <3>2. CASE i = Len(s) + 1
      BY <1>3, <1>4, <3>1, <3>2
    <3>3. CASE i # Len(s) + 1
      <4>1. i \in 1..Len(s)
        BY <1>1, <1>4, <3>3
      <4>2. s[i].prio = o /\ y = s[i].id
        BY <1>4, <3>1, <4>1
      <4> QED
        BY <4>1, <4>2 DEF Ids
    <3> QED
      BY <3>2, <3>3
  <2>2. ASSUME y \in Ids(s, o) PROVE y \in Ids(r, o)
    <3>1. PICK i \in 1..Len(s) : s[i].prio = o /\ y = s[i].id
      BY <2>2 DEF Ids
    <3>2. i \in 1..Len(r) /\ r[i].prio = o /\ y = r[i].id
      BY <1>1, <1>4, <3>1
    <3> QED
      BY <3>2 DEF Ids
  <2>3. ASSUME o = p, y = n + 1 PROVE y \in Ids(r, o)
    <3>1. Len(s) + 1 \in 1..Len(r) /\ r[Len(s) + 1].prio = o /\ r[Len(s) + 1].id = y
      BY <1>1, <1>3, <1>4, <2>3
    <3> QED
      BY <3>1 DEF Ids
  <2> QED
    BY <2>1, <2>2, <2>3
<1>8. Row(r, n + 1)
  BY <1>4, <1>5, <1>6 DEF Row
<1>9. Ids(r, p) = Ids(s, p) \cup {n + 1}
  <2>1. \A y : y \in Ids(r, p) <=> y \in Ids(s, p) \cup {n + 1}
    BY <1>7
  <2> QED
    BY <2>1, SameSet
<1>10. ASSUME NEW o \in Priorities, o # p PROVE Ids(r, o) = Ids(s, o)
  <2>1. \A y : y \in Ids(r, o) <=> y \in Ids(s, o)
    BY <1>7, <1>10
  <2> QED
    BY <2>1, SameSet
<1> QED
  BY <1>4, <1>8, <1>9, <1>10 DEF Added, r, x

LEMMA JoinedRows ==
  ASSUME NEW S, NEW a \in Seq(S), NEW z \in Seq(S), NEW r, r = a \o z
  PROVE  /\ r \in Seq(S) /\ Len(r) = Len(a) + Len(z)
         /\ \A j \in 1..Len(a) : r[j] = a[j]
         /\ \A j \in 1..Len(z) : r[Len(a) + j] = z[j]
<1>1. Len(a) \in Nat /\ Len(z) \in Nat
  OBVIOUS
<1>2. r \in Seq(S) /\ Len(r) = Len(a) + Len(z)
  OBVIOUS
<1>3. \A j \in 1..(Len(a) + Len(z)) : r[j] = IF j <= Len(a) THEN a[j] ELSE z[j - Len(a)]
  OBVIOUS
<1>4. ASSUME NEW j \in 1..Len(a) PROVE r[j] = a[j]
  <2>1. j \in 1..(Len(a) + Len(z)) /\ j <= Len(a)
    BY <1>1
  <2> QED
    BY <1>3, <2>1
<1>5. ASSUME NEW j \in 1..Len(z) PROVE r[Len(a) + j] = z[j]
  <2>1. /\ Len(a) + j \in 1..(Len(a) + Len(z)) /\ ~(Len(a) + j <= Len(a))
        /\ Len(a) + j - Len(a) = j
    BY <1>1
  <2> QED
    BY <1>3, <2>1
<1> QED
  BY <1>2, <1>4, <1>5

LEMMA RemovedIs ==
  ASSUME NEW S, NEW s \in Seq(S), NEW i \in 1..Len(s), NEW r, r = Queue!RemoveAt(s, i)
  PROVE  /\ r \in Seq(S) /\ Len(r) = Len(s) - 1 /\ Len(s) \in Nat
         /\ \A j \in 1..(i - 1) : r[j] = s[j]
         /\ \A j \in i..(Len(s) - 1) : r[j] = s[j + 1]
<1> DEFINE a == SubSeq(s, 1, i - 1)
           z == SubSeq(s, i + 1, Len(s))
<1>1. Len(s) \in Nat /\ i \in Nat /\ 1 <= i /\ i <= Len(s)
  OBVIOUS
<1>2. /\ a \in Seq(S) /\ Len(a) = i - 1 /\ \A j \in 1..(i - 1) : a[j] = s[j]
  BY <1>1
<1>3. /\ z \in Seq(S) /\ Len(z) = Len(s) - i
      /\ \A j \in 1..(Len(s) - i) : z[j] = s[i + j]
  BY <1>1
<1>4. r = a \o z
  BY DEF Queue!RemoveAt
<1> HIDE DEF a, z
<1>5. /\ r \in Seq(S) /\ Len(r) = Len(a) + Len(z)
      /\ \A j \in 1..Len(a) : r[j] = a[j]
      /\ \A j \in 1..Len(z) : r[Len(a) + j] = z[j]
  <2>1. a \in Seq(S) /\ z \in Seq(S)
    BY <1>2, <1>3
  <2>2. r \in Seq(S) /\ Len(r) = Len(a) + Len(z)
    BY <1>4, <2>1, JoinedRows
  <2>3. \A j \in 1..Len(a) : r[j] = a[j]
    BY <1>4, <2>1, JoinedRows
  <2>4. \A j \in 1..Len(z) : r[Len(a) + j] = z[j]
    BY <1>4, <2>1, JoinedRows
  <2> QED
    BY <2>2, <2>3, <2>4
<1>6. Len(r) = Len(s) - 1
  BY <1>1, <1>2, <1>3, <1>5
<1>7. ASSUME NEW j \in 1..(i - 1) PROVE r[j] = s[j]
  BY <1>2, <1>5
<1>8. ASSUME NEW j \in i..(Len(s) - 1) PROVE r[j] = s[j + 1]
  <2> DEFINE k == j - i + 1
  <2>1. k \in 1..Len(z) /\ Len(a) + k = j /\ i + k = j + 1
    BY <1>1, <1>2, <1>3
  <2>2. r[Len(a) + k] = z[k] /\ z[k] = s[i + k]
    BY <1>3, <1>5, <2>1
  <2> QED
    BY <2>1, <2>2
<1> QED
  BY <1>1, <1>5, <1>6, <1>7, <1>8

LEMMA Removed ==
  ASSUME NEW n \in Nat, NEW s, Row(s, n), NEW i \in 1..Len(s), NEW r, r = Queue!RemoveAt(s, i)
  PROVE  /\ Row(r, n) /\ Len(r) = Len(s) - 1
         /\ \A o : Ids(r, o) = IF o = s[i].prio THEN Ids(s, o) \ {s[i].id} ELSE Ids(s, o)
<1> DEFINE m(j) == IF j < i THEN j ELSE j + 1
<1>1. s \in Seq(Queue!Item) /\ Len(s) \in Nat /\ i \in Nat /\ 1 <= i /\ i <= Len(s)
  BY DEF Row
<1>2. /\ r \in Seq(Queue!Item) /\ Len(r) = Len(s) - 1
      /\ \A j \in 1..(i - 1) : r[j] = s[j]
      /\ \A j \in i..(Len(s) - 1) : r[j] = s[j + 1]
  BY <1>1, RemovedIs
<1>3. ASSUME NEW j \in 1..Len(r) PROVE m(j) \in 1..Len(s) /\ m(j) # i /\ r[j] = s[m(j)]
  <2>1. CASE j < i
    <3>1. j \in 1..(i - 1) /\ j \in 1..Len(s) /\ m(j) = j
      BY <1>1, <1>2, <2>1
    <3> QED
      BY <1>2, <2>1, <3>1
  <2>2. CASE ~(j < i)
    <3>1. j \in i..(Len(s) - 1) /\ j + 1 \in 1..Len(s) /\ m(j) = j + 1 /\ j + 1 # i
      BY <1>1, <1>2, <2>2
    <3> QED
      BY <1>2, <3>1
  <2> QED
    BY <2>1, <2>2
<1>4. ASSUME NEW k \in 1..Len(s), k # i PROVE \E j \in 1..Len(r) : m(j) = k
  <2>1. CASE k < i
    <3>1. k \in 1..Len(r) /\ m(k) = k
      BY <1>1, <1>2, <2>1
    <3> QED
      BY <3>1
  <2>2. CASE ~(k < i)
    <3>1. k - 1 \in 1..Len(r) /\ m(k - 1) = k
      BY <1>1, <1>2, <1>4, <2>2
    <3> QED
      BY <3>1
  <2> QED
    BY <2>1, <2>2
<1>5. \A j, k \in 1..Len(r) : j < k => m(j) < m(k)
  BY <1>1, <1>2
<1> HIDE DEF m
<1>6. Row(r, n)
  <2>1. ASSUME NEW j \in 1..Len(r) PROVE r[j].id <= n
    BY <1>3 DEF Row
  <2>2. ASSUME NEW j \in 1..Len(r), NEW k \in 1..Len(r), j < k PROVE r[j].id < r[k].id
    <3>1. /\ m(j) \in 1..Len(s) /\ m(k) \in 1..Len(s) /\ m(j) < m(k)
          /\ r[j] = s[m(j)] /\ r[k] = s[m(k)]
      BY <1>3, <1>5, <2>2
    <3> QED
      BY <3>1 DEF Row
  <2> QED
    BY <1>2, <2>1, <2>2 DEF Row
<1>7. ASSUME NEW o, NEW y
      PROVE  y \in Ids(r, o) <=> y \in Ids(s, o) /\ (o = s[i].prio => y # s[i].id)
  <2>1. ASSUME y \in Ids(r, o) PROVE y \in Ids(s, o) /\ y # s[i].id
    <3>1. PICK j \in 1..Len(r) : r[j].prio = o /\ y = r[j].id
      BY <2>1 DEF Ids
    <3>2. m(j) \in 1..Len(s) /\ m(j) # i /\ s[m(j)].prio = o /\ y = s[m(j)].id
      BY <1>3, <3>1
    <3>3. y # s[i].id
      BY <3>2, IdOfOne
    <3> QED
      BY <3>2, <3>3 DEF Ids
  <2>2. ASSUME y \in Ids(s, o), o = s[i].prio => y # s[i].id PROVE y \in Ids(r, o)
    <3>1. PICK k \in 1..Len(s) : s[k].prio = o /\ y = s[k].id
      BY <2>2 DEF Ids
    <3>2. k # i
      BY <2>2, <3>1
    <3>3. PICK j \in 1..Len(r) : m(j) = k
      BY <1>4, <3>2
    <3>4. r[j].prio = o /\ y = r[j].id
      BY <1>3, <3>1, <3>3
    <3> QED
      BY <3>4 DEF Ids
  <2> QED
    BY <2>1, <2>2
<1>8. \A o : Ids(r, o) = IF o = s[i].prio THEN Ids(s, o) \ {s[i].id} ELSE Ids(s, o)
  <2> SUFFICES ASSUME NEW o
               PROVE  Ids(r, o) = IF o = s[i].prio THEN Ids(s, o) \ {s[i].id} ELSE Ids(s, o)
    OBVIOUS
  <2>1. \A y : y \in Ids(r, o) <=> y \in Ids(s, o) /\ (o = s[i].prio => y # s[i].id)
    BY <1>7
  <2>2. CASE o = s[i].prio
    <3>1. \A y : y \in Ids(r, o) <=> y \in Ids(s, o) \ {s[i].id}
      BY <2>1, <2>2
    <3>2. Ids(r, o) = Ids(s, o) \ {s[i].id}
      BY <3>1, SameSet
    <3> QED
      BY <2>2, <3>2
  <2>3. CASE o # s[i].prio
    <3>1. \A y : y \in Ids(r, o) <=> y \in Ids(s, o)
      BY <2>1, <2>3
    <3>2. Ids(r, o) = Ids(s, o)
      BY <3>1, SameSet
    <3> QED
      BY <2>3, <3>2
  <2> QED
    BY <2>2, <2>3
<1> QED
  BY <1>2, <1>6, <1>8

LEMMA LeastNumber ==
  ASSUME NEW S \in SUBSET Nat, S # {}
  PROVE  \E m \in S : \A y \in S : m <= y
<1>1. PICK m \in S : \A y \in S : <<y, m>> \notin OpToRel(<, Nat)
  BY NatLessThanWellFounded, WFMin
<1>2. ASSUME NEW y \in S PROVE m <= y
  <2>1. m \in Nat /\ y \in Nat
    OBVIOUS
  <2>2. ~(y < m)
    BY <1>1, <2>1 DEF OpToRel
  <2> QED
    BY <2>1, <2>2
<1> QED
  BY <1>2

\* The oldest of the items of a priority that a queue has.
LEMMA OldestOf ==
  ASSUME NEW s \in Seq(Queue!Item), NEW k \in 1..Len(s)
  PROVE  \E i \in 1..Len(s) :
           s[i].prio = s[k].prio /\ \A j \in 1..Len(s) : s[j].prio = s[k].prio => i <= j
<1> DEFINE P == {j \in 1..Len(s) : s[j].prio = s[k].prio}
<1>1. P \in SUBSET Nat /\ k \in P
  OBVIOUS
<1>2. PICK i \in P : \A j \in P : i <= j
  <2> HIDE DEF P
  <2> QED
    BY <1>1, LeastNumber
<1> QED
  BY <1>2

LEMMA LeastUrgentIs ==
  ASSUME NEW n \in Nat, NEW s, Row(s, n), s # <<>>
  PROVE  LET i == Queue!LeastUrgent(s)
         IN /\ i \in 1..Len(s) /\ \A j \in 1..Len(s) : s[j].prio <= s[i].prio
            /\ \A x \in Ids(s, s[i].prio) : s[i].id <= x
            /\ s[i].id \in Ids(s, s[i].prio)
<1> DEFINE i == Queue!LeastUrgent(s)
           V == {3 - s[k].prio : k \in 1..Len(s)}
<1>1. s \in Seq(Queue!Item) /\ 1 \in 1..Len(s)
  <2>1. s \in Seq(Queue!Item)
    BY DEF Row
  <2>2. Len(s) \in Nat \ {0}
    BY <2>1, EmptySeq
  <2> QED
    BY <2>1, <2>2
<1>2. \A k \in 1..Len(s) : s[k].prio \in Nat /\ s[k].prio <= 3 /\ s[k].id \in Nat
  BY <1>1, ItemIs
<1>3. V \in SUBSET Nat /\ V # {}
  <2>1. \A k \in 1..Len(s) : 3 - s[k].prio \in Nat
    BY <1>2
  <2> QED
    BY <1>1, <2>1
<1>4. PICK v \in V : \A w \in V : v <= w
  <2> HIDE DEF V
  <2> QED
    BY <1>3, LeastNumber
<1>5. PICK k \in 1..Len(s) : v = 3 - s[k].prio
  OBVIOUS
<1>6. \A j \in 1..Len(s) : s[j].prio <= s[k].prio
  <2> SUFFICES ASSUME NEW j \in 1..Len(s) PROVE s[j].prio <= s[k].prio
    OBVIOUS
  <2>1. 3 - s[k].prio <= 3 - s[j].prio
    BY <1>4, <1>5
  <2> QED
    BY <1>2, <2>1
<1> HIDE DEF V
<1>7. PICK l \in 1..Len(s) :
        s[l].prio = s[k].prio /\ \A j \in 1..Len(s) : s[j].prio = s[k].prio => l <= j
  BY <1>1, OldestOf
<1>8. \A j \in 1..Len(s) : s[j].prio < s[l].prio \/ (s[j].prio = s[l].prio /\ l <= j)
  <2> SUFFICES ASSUME NEW j \in 1..Len(s)
               PROVE  s[j].prio < s[l].prio \/ (s[j].prio = s[l].prio /\ l <= j)
    OBVIOUS
  <2>1. s[j].prio <= s[l].prio /\ s[j].prio \in Nat /\ s[l].prio \in Nat
    BY <1>2, <1>6, <1>7
  <2>2. s[j].prio < s[l].prio \/ s[j].prio = s[l].prio
    BY <2>1
  <2> QED
    BY <1>7, <2>2
<1>9. /\ i \in 1..Len(s)
      /\ \A j \in 1..Len(s) : s[j].prio < s[i].prio \/ (s[j].prio = s[i].prio /\ i <= j)
  BY <1>8 DEF Queue!LeastUrgent
<1> HIDE DEF i
<1>10. ASSUME NEW j \in 1..Len(s) PROVE s[j].prio <= s[i].prio
  <2>1. s[j].prio < s[i].prio \/ s[j].prio = s[i].prio
    BY <1>9
  <2>2. s[j].prio \in Nat /\ s[i].prio \in Nat
    BY <1>2, <1>9
  <2> QED
    BY <2>1, <2>2
<1>11. ASSUME NEW x \in Ids(s, s[i].prio) PROVE s[i].id <= x
  <2>1. PICK j \in 1..Len(s) : s[j].prio = s[i].prio /\ x = s[j].id
    BY DEF Ids
  <2>2. i <= j /\ i \in Nat /\ j \in Nat
    BY <1>2, <1>9, <2>1
  <2>3. CASE i = j
    BY <1>2, <1>9, <2>1, <2>3
  <2>4. CASE i # j
    <3>1. i < j
      BY <2>2, <2>4
    <3>2. s[i].id < s[j].id
      BY <1>9, <3>1 DEF Row
    <3> QED
      BY <1>2, <1>9, <2>1, <3>2
  <2> QED
    BY <2>3, <2>4
<1>12. s[i].id \in Ids(s, s[i].prio)
  BY <1>9 DEF Ids
<1> QED
  BY <1>9, <1>10, <1>11, <1>12 DEF i

LEMMA MostUrgentIs ==
  ASSUME NEW n \in Nat, NEW s, Row(s, n), s # <<>>
  PROVE  LET i == Queue!MostUrgent(s)
         IN /\ i \in 1..Len(s) /\ \A j \in 1..Len(s) : s[i].prio <= s[j].prio
            /\ \A x \in Ids(s, s[i].prio) : s[i].id <= x
            /\ s[i].id \in Ids(s, s[i].prio)
<1> DEFINE i == Queue!MostUrgent(s)
           V == {s[k].prio : k \in 1..Len(s)}
<1>1. s \in Seq(Queue!Item) /\ 1 \in 1..Len(s)
  <2>1. s \in Seq(Queue!Item)
    BY DEF Row
  <2>2. Len(s) \in Nat \ {0}
    BY <2>1, EmptySeq
  <2> QED
    BY <2>1, <2>2
<1>2. \A k \in 1..Len(s) : s[k].prio \in Nat /\ s[k].id \in Nat
  BY <1>1, ItemIs
<1>3. V \in SUBSET Nat /\ V # {}
  BY <1>1, <1>2
<1>4. PICK v \in V : \A w \in V : v <= w
  <2> HIDE DEF V
  <2> QED
    BY <1>3, LeastNumber
<1>5. PICK k \in 1..Len(s) : v = s[k].prio
  OBVIOUS
<1>6. \A j \in 1..Len(s) : s[k].prio <= s[j].prio
  BY <1>4, <1>5
<1> HIDE DEF V
<1>7. PICK l \in 1..Len(s) :
        s[l].prio = s[k].prio /\ \A j \in 1..Len(s) : s[j].prio = s[k].prio => l <= j
  BY <1>1, OldestOf
<1>8. \A j \in 1..Len(s) : s[j].prio > s[l].prio \/ (s[j].prio = s[l].prio /\ l <= j)
  <2> SUFFICES ASSUME NEW j \in 1..Len(s)
               PROVE  s[j].prio > s[l].prio \/ (s[j].prio = s[l].prio /\ l <= j)
    OBVIOUS
  <2>1. s[l].prio <= s[j].prio /\ s[j].prio \in Nat /\ s[l].prio \in Nat
    BY <1>2, <1>6, <1>7
  <2>2. s[j].prio > s[l].prio \/ s[j].prio = s[l].prio
    BY <2>1
  <2> QED
    BY <1>7, <2>2
<1>9. /\ i \in 1..Len(s)
      /\ \A j \in 1..Len(s) : s[j].prio > s[i].prio \/ (s[j].prio = s[i].prio /\ i <= j)
  BY <1>8 DEF Queue!MostUrgent
<1> HIDE DEF i
<1>10. ASSUME NEW j \in 1..Len(s) PROVE s[i].prio <= s[j].prio
  <2>1. s[j].prio > s[i].prio \/ s[j].prio = s[i].prio
    BY <1>9
  <2>2. s[j].prio \in Nat /\ s[i].prio \in Nat
    BY <1>2, <1>9
  <2> QED
    BY <2>1, <2>2
<1>11. ASSUME NEW x \in Ids(s, s[i].prio) PROVE s[i].id <= x
  <2>1. PICK j \in 1..Len(s) : s[j].prio = s[i].prio /\ x = s[j].id
    BY DEF Ids
  <2>2. i <= j /\ i \in Nat /\ j \in Nat
    BY <1>2, <1>9, <2>1
  <2>3. CASE i = j
    BY <1>2, <1>9, <2>1, <2>3
  <2>4. CASE i # j
    <3>1. i < j
      BY <2>2, <2>4
    <3>2. s[i].id < s[j].id
      BY <1>9, <3>1 DEF Row
    <3> QED
      BY <1>2, <1>9, <2>1, <3>2
  <2> QED
    BY <2>3, <2>4
<1>12. s[i].id \in Ids(s, s[i].prio)
  BY <1>9 DEF Ids
<1> QED
  BY <1>9, <1>10, <1>11, <1>12 DEF i


-----------------------------------------------------------------------------
(* The lanes of a queue *)

LaneOf(s, p) == Queue!Ascending(Ids(s, p))

LEMMA LaneTaken ==
  ASSUME NEW n \in Nat, NEW s, Row(s, n), NEW p
  PROVE  LaneOf(s, p) # <<>> <=> \E i \in 1..Len(s) : s[i].prio = p
<1>1. LaneOf(s, p) = <<>> <=> Ids(s, p) = {}
  BY IdsTyped, AscendingEmpty DEF LaneOf
<1> QED
  BY <1>1 DEF Ids

\* The newcomer is the last of its lane.
LEMMA LaneAppended ==
  ASSUME NEW n \in Nat, NEW s, Row(s, n), NEW p \in Priorities, n < MaxPushed
  PROVE  /\ LaneOf(Added(s, p, n + 1), p) = Append(LaneOf(s, p), n + 1)
         /\ \A o \in Priorities : o # p => LaneOf(Added(s, p, n + 1), o) = LaneOf(s, o)
<1> DEFINE S == Ids(s, p)
<1>1. Ids(Added(s, p, n + 1), p) = S \cup {n + 1}
  BY Appended
<1>2. \A o \in Priorities : o # p => Ids(Added(s, p, n + 1), o) = Ids(s, o)
  BY Appended
<1>3. S \in SUBSET Nat /\ IsFiniteSet(S) /\ \A i \in S : i <= n
  BY IdsTyped
<1>4. n + 1 \in Nat /\ \A i \in S : i < n + 1
  BY <1>3
<1> HIDE DEF S
<1>5. Queue!Ascending(S \cup {n + 1}) = Append(Queue!Ascending(S), n + 1)
  BY <1>3, <1>4, AscendingNext
<1>6. LaneOf(Added(s, p, n + 1), p) = Append(LaneOf(s, p), n + 1)
  BY <1>1, <1>5 DEF LaneOf, S
<1> QED
  BY <1>2, <1>6 DEF LaneOf

\* The oldest item of its priority is the first of its lane.
LEMMA LaneRemoved ==
  ASSUME NEW n \in Nat, NEW s, Row(s, n), NEW i \in 1..Len(s),
         NEW v, v = s[i].prio, NEW m, m = s[i].id,
         m \in Ids(s, v), \A x \in Ids(s, v) : m <= x
  PROVE  /\ LaneOf(s, v) # <<>> /\ Head(LaneOf(s, v)) = m
         /\ LaneOf(Queue!RemoveAt(s, i), v) = Tail(LaneOf(s, v))
         /\ \A o \in Priorities : o # v => LaneOf(Queue!RemoveAt(s, i), o) = LaneOf(s, o)
<1> DEFINE S == Ids(s, v)
           r == Queue!RemoveAt(s, i)
<1>1. S \in SUBSET Nat /\ IsFiniteSet(S) /\ m \in S /\ \A x \in S : m <= x
  BY IdsTyped
<1>2. \A o : Ids(r, o) = IF o = s[i].prio THEN Ids(s, o) \ {s[i].id} ELSE Ids(s, o)
  BY Removed
<1> HIDE DEF r
<1>3. Ids(r, v) = S \ {m}
  BY <1>2
<1>4. \A o \in Priorities : o # v => Ids(r, o) = Ids(s, o)
  BY <1>2
<1> HIDE DEF S
<1>5. /\ Queue!Ascending(S) # <<>> /\ Head(Queue!Ascending(S)) = m
      /\ Queue!Ascending(S \ {m}) = Tail(Queue!Ascending(S))
  BY <1>1, AscendingFirst
<1>6. LaneOf(s, v) = Queue!Ascending(S) /\ LaneOf(r, v) = Queue!Ascending(S \ {m})
  BY <1>3 DEF LaneOf, S
<1>7. \A o \in Priorities : o # v => LaneOf(r, o) = LaneOf(s, o)
  BY <1>4 DEF LaneOf
<1> QED
  BY <1>5, <1>6, <1>7 DEF r

\* The lanes of a queue hold as many items as the queue.
LEMMA WaitingCount ==
  ASSUME NEW n \in Nat, NEW s, Row(s, n),
         NEW W, W = UNION {{p} \X (1..Len(LaneOf(s, p))) : p \in Priorities}
  PROVE  Cardinality(W) = Len(s)
<1> DEFINE D == 1..Len(s)
           f == [i \in D |-> <<s[i].prio, Rank(Ids(s, s[i].prio), s[i].id) + 1>>]
<1>1. s \in Seq(Queue!Item) /\ Len(s) \in Nat
  BY DEF Row
<1>2. ASSUME NEW p
      PROVE  /\ Ids(s, p) \in SUBSET Nat /\ IsFiniteSet(Ids(s, p))
             /\ Len(LaneOf(s, p)) = Cardinality(Ids(s, p)) /\ Cardinality(Ids(s, p)) \in Nat
  <2>1. Ids(s, p) \in SUBSET Nat /\ IsFiniteSet(Ids(s, p))
    BY IdsTyped
  <2> QED
    BY <2>1, AscendingIs DEF LaneOf
<1>3. ASSUME NEW p, NEW k
      PROVE  <<p, k>> \in W <=> p \in Priorities /\ k \in 1..Cardinality(Ids(s, p))
  BY <1>2
<1>4. ASSUME NEW i \in D
      PROVE  /\ s[i].prio \in Priorities /\ s[i].id \in Ids(s, s[i].prio)
             /\ Rank(Ids(s, s[i].prio), s[i].id) + 1 \in 1..Cardinality(Ids(s, s[i].prio))
  <2>1. s[i].prio \in Priorities /\ s[i].id \in Ids(s, s[i].prio)
    BY <1>1, ItemIs DEF Ids
  <2>2. Rank(Ids(s, s[i].prio), s[i].id) \in 0..(Cardinality(Ids(s, s[i].prio)) - 1)
    BY <1>2, <2>1, RankRange
  <2>3. Cardinality(Ids(s, s[i].prio)) \in Nat
    BY <1>2
  <2> QED
    BY <2>1, <2>2, <2>3
<1>5. f \in [D -> W]
  <2>1. \A i \in D : <<s[i].prio, Rank(Ids(s, s[i].prio), s[i].id) + 1>> \in W
    BY <1>3, <1>4
  <2> HIDE DEF D
  <2> QED
    BY <2>1
<1>6. ASSUME NEW i \in D, NEW j \in D, f[i] = f[j] PROVE i = j
  <2> DEFINE S == Ids(s, s[i].prio)
             x == s[i].id
             y == s[j].id
  <2>1. /\ s[i].prio = s[j].prio
        /\ Rank(Ids(s, s[i].prio), s[i].id) + 1 = Rank(Ids(s, s[j].prio), s[j].id) + 1
    BY <1>6
  <2>2. S \in SUBSET Nat /\ IsFiniteSet(S) /\ x \in S /\ y \in S
    BY <1>2, <1>4, <2>1
  <2>3. Rank(S, x) + 1 = Rank(S, y) + 1
    BY <2>1
  <2> HIDE DEF S, x, y
  <2>4. Rank(S, x) \in Int /\ Rank(S, y) \in Int
    BY <2>2, RankRange
  <2>5. Rank(S, x) = Rank(S, y)
    BY <2>3, <2>4
  <2>6. x = y
    BY <2>2, <2>5, RankDiffers
  <2> QED
    BY <2>6, IdOfOne DEF x, y
<1>7. ASSUME NEW w \in W PROVE \E i \in D : f[i] = w
  <2>1. PICK p \in Priorities : w \in {p} \X (1..Len(LaneOf(s, p)))
    OBVIOUS
  <2>2. PICK k \in 1..Cardinality(Ids(s, p)) : w = <<p, k>>
    BY <1>2, <2>1
  <2>3. PICK x \in Ids(s, p) : Rank(Ids(s, p), x) = k - 1
    BY <1>2, RankTaken
  <2>4. PICK i \in D : s[i].prio = p /\ x = s[i].id
    BY DEF Ids
  <2>5. k \in Int
    OBVIOUS
  <2>6. f[i] = <<p, k>>
    BY <2>3, <2>4, <2>5
  <2> QED
    BY <2>2, <2>6
<1>8. IsFiniteSet(D) /\ Cardinality(D) = Len(s)
  <2> DEFINE l == Len(s)
  <2>1. 1 \in Int /\ l \in Int /\ l \in Nat
    BY <1>1
  <2> HIDE DEF l
  <2>2. IsFiniteSet(1..l) /\ Cardinality(1..l) = IF 1 > l THEN 0 ELSE l - 1 + 1
    BY <2>1, FS_Interval
  <2>3. Cardinality(1..l) = l
    BY <2>1, <2>2
  <2> QED
    BY <2>2, <2>3 DEF l
<1> HIDE DEF f, D
<1>9. f \in Bijection(D, W)
  BY <1>5, <1>6, <1>7 DEF Bijection, Injection, Surjection, IsInjective
<1>10. ExistsBijection(D, W)
  BY <1>9 DEF ExistsBijection
<1> QED
  BY <1>8, <1>10, FS_Bijection

-----------------------------------------------------------------------------
(* The invariant *)

\* One cell per unit counted by f.
Cells(f) == UNION {{q} \X (1..f[q]) : q \in Queue!Queues}

LEMMA TotalIs == \A f : Queue!Total(f) = Cardinality(Cells(f))
BY QueueCardinality DEF Queue!Total, Cells

\* A unit more is a cell more.
LEMMA CellsAdd ==
  ASSUME NEW f \in [Queue!Queues -> Nat], NEW q \in Queue!Queues, IsFiniteSet(Cells(f)),
         NEW g, g = [f EXCEPT ![q] = f[q] + 1]
  PROVE  /\ g \in [Queue!Queues -> Nat] /\ IsFiniteSet(Cells(g))
         /\ Cardinality(Cells(f)) \in Nat /\ Cardinality(Cells(g)) = Cardinality(Cells(f)) + 1
<1>1. g \in [Queue!Queues -> Nat] /\ g[q] = f[q] + 1 /\ f[q] \in Nat
  OBVIOUS
<1>2. \A r \in Queue!Queues : r # q => g[r] = f[r]
  OBVIOUS
<1>3. ASSUME NEW r \in Queue!Queues, NEW k
      PROVE  <<r, k>> \in Cells(g) <=> <<r, k>> \in Cells(f) \/ (r = q /\ k = f[q] + 1)
  <2>1. <<r, k>> \in Cells(g) <=> k \in 1..g[r]
    BY DEF Cells
  <2>2. <<r, k>> \in Cells(f) <=> k \in 1..f[r]
    BY DEF Cells
  <2>3. CASE r = q
    <3>1. k \in 1..(f[q] + 1) <=> k \in 1..f[q] \/ k = f[q] + 1
      BY <1>1
    <3> QED
      BY <1>1, <2>1, <2>2, <2>3, <3>1
  <2>4. CASE r # q
    BY <1>2, <2>1, <2>2, <2>4
  <2> QED
    BY <2>3, <2>4
<1>4. Cells(g) = Cells(f) \cup {<<q, f[q] + 1>>}
  <2>1. ASSUME NEW w \in Cells(g) PROVE w \in Cells(f) \cup {<<q, f[q] + 1>>}
    <3>1. PICK r \in Queue!Queues : \E k \in 1..g[r] : w = <<r, k>>
      BY DEF Cells
    <3>2. PICK k \in 1..g[r] : w = <<r, k>>
      BY <3>1
    <3>3. <<r, k>> \in Cells(f) \/ (r = q /\ k = f[q] + 1)
      BY <1>3, <2>1, <3>2
    <3> QED
      BY <3>2, <3>3
  <2>2. ASSUME NEW w \in Cells(f) PROVE w \in Cells(g)
    <3>1. PICK r \in Queue!Queues : \E k \in 1..f[r] : w = <<r, k>>
      BY DEF Cells
    <3>2. PICK k \in 1..f[r] : w = <<r, k>>
      BY <3>1
    <3> QED
      BY <1>3, <2>2, <3>2
  <2>3. <<q, f[q] + 1>> \in Cells(g)
    BY <1>3
  <2> QED
    BY <2>1, <2>2, <2>3
<1>5. <<q, f[q] + 1>> \notin Cells(f)
  <2>1. f[q] + 1 \notin 1..f[q]
    BY <1>1
  <2> QED
    BY <2>1 DEF Cells
<1> DEFINE c == <<q, f[q] + 1>>
<1> HIDE DEF c
<1>6. Cells(g) = Cells(f) \cup {c} /\ c \notin Cells(f)
  BY <1>4, <1>5 DEF c
<1>7. /\ IsFiniteSet(Cells(f) \cup {c})
      /\ Cardinality(Cells(f) \cup {c}) = Cardinality(Cells(f)) + 1
  BY <1>6, FS_AddElement
<1> QED
  BY <1>1, <1>6, <1>7, FS_CardinalityType

LEMMA CellsRemove ==
  ASSUME NEW f \in [Queue!Queues -> Nat], NEW q \in Queue!Queues, IsFiniteSet(Cells(f)),
         f[q] > 0, NEW g, g = [f EXCEPT ![q] = f[q] - 1]
  PROVE  /\ g \in [Queue!Queues -> Nat] /\ IsFiniteSet(Cells(g))
         /\ Cardinality(Cells(g)) \in Nat /\ Cardinality(Cells(f)) = Cardinality(Cells(g)) + 1
<1>1. f[q] \in Nat /\ f[q] - 1 \in Nat /\ f[q] - 1 + 1 = f[q]
  OBVIOUS
<1>2. g \in [Queue!Queues -> Nat] /\ g[q] = f[q] - 1
  BY <1>1
<1>3. f = [g EXCEPT ![q] = g[q] + 1]
  BY <1>1, <1>2
<1>4. Cells(g) \in SUBSET Cells(f)
  <2>1. \A r \in Queue!Queues : g[r] \in Nat /\ f[r] \in Nat /\ g[r] <= f[r]
    BY <1>1
  <2>2. \A r \in Queue!Queues : 1..g[r] \subseteq 1..f[r]
    BY <2>1
  <2> QED
    BY <2>2 DEF Cells
<1>5. IsFiniteSet(Cells(g))
  BY <1>4, FS_Subset
<1> QED
  BY <1>2, <1>3, <1>5, CellsAdd

\* A queue at its high watermark is above its low one.
LEMMA HighIs ==
  ASSUME NEW q \in Queue!Queues, Capacity[q] > 0
  PROVE  /\ Queue!High(q) \in Nat /\ Queue!Low(q) \in Nat
         /\ Queue!High(q) > 0 /\ Queue!Low(q) < Queue!High(q)
<1> DEFINE c == Capacity[q]
           d == c * 3
           h == d \div 4
           l == c \div 4
<1>1. c \in Nat /\ c > 0
  BY SchedulerAssumed
<1>2. Queue!High(q) = (IF h = 0 THEN 1 ELSE h) /\ Queue!Low(q) = l
  BY <1>1 DEF Queue!High, Queue!Low
<1> HIDE DEF c
<1>3. d \in Nat /\ d = c + c + c
  BY <1>1
<1> HIDE DEF d
<1>4. h \in Nat /\ 4 * h <= d /\ d <= 4 * h + 3
  BY <1>3
<1>5. l \in Nat /\ 4 * l <= c /\ c <= 4 * l + 3
  BY <1>1
<1> HIDE DEF h, l
<1>6. h = 0 => l = 0
  BY <1>1, <1>3, <1>4, <1>5
<1>7. h # 0 => l < h
  BY <1>1, <1>3, <1>4, <1>5
<1> QED
  BY <1>2, <1>4, <1>5, <1>6, <1>7

Lengths == [q \in Queue!Queues |-> Len(items[q])]

\* Items lie as pushed, and what the counters claim holds.
SInv ==
  /\ items \in [Queue!Queues -> Seq(Queue!Item)]
  /\ \A q \in Queue!Queues : Row(items[q], pushed)
  /\ dropped \in [Queue!Queues -> Nat] /\ overHigh \in [Queue!Queues -> BOOLEAN]
  /\ pushed \in 0..MaxPushed /\ popped \in Nat
  /\ served \in (0..Stages) \X (0..MaxPushed)
  /\ IsFiniteSet(Cells(dropped)) /\ IsFiniteSet(Cells(Lengths))
  /\ pushed = popped + Cardinality(Cells(dropped)) + Cardinality(Cells(Lengths))
  /\ Queue!PressureSignalled

LEMMA SInvSafe == SInv => Queue!TypeOK /\ Queue!ProducersTold
<1> SUFFICES ASSUME SInv PROVE Queue!TypeOK /\ Queue!ProducersTold
  OBVIOUS
<1>1. Cardinality(Cells(dropped)) \in Nat /\ Cardinality(Cells(Lengths)) \in Nat
  BY FS_CardinalityType DEF SInv
<1>2. popped \in 0..pushed
  <2>1. popped \in Nat /\ pushed = popped + Cardinality(Cells(dropped)) + Cardinality(Cells(Lengths))
    BY DEF SInv
  <2> QED
    BY <1>1, <2>1
<1>3. Queue!Total([q \in Queue!Queues |-> Len(items[q])]) = Cardinality(Cells(Lengths))
  BY TotalIs DEF Lengths
<1>4. Queue!Accounted
  <2>1. Queue!Total(dropped) = Cardinality(Cells(dropped))
    BY TotalIs
  <2> QED
    BY <1>3, <2>1 DEF Queue!Accounted, SInv
<1>5. Queue!TypeOK
  BY <1>2 DEF Queue!TypeOK, SInv
<1> QED
  BY <1>4, <1>5 DEF Queue!ProducersTold, SInv

LEMMA SInvInit == Queue!Init => SInv
<1> SUFFICES ASSUME Queue!Init PROVE SInv
  OBVIOUS
<1>1. /\ items = [q \in Queue!Queues |-> <<>>] /\ dropped = [q \in Queue!Queues |-> 0]
      /\ overHigh = [q \in Queue!Queues |-> FALSE]
      /\ pushed = 0 /\ popped = 0 /\ served = <<0, 0>>
  BY DEF Queue!Init
<1>2. MaxPushed \in Nat /\ Stages \in Nat /\ Capacity \in [Queue!Queues -> Nat]
  BY SchedulerAssumed
<1>3. \A q \in Queue!Queues : items[q] = <<>> /\ Len(items[q]) = 0 /\ Row(items[q], pushed)
  BY <1>1 DEF Row
<1>4. Cells(dropped) = {} /\ Cells(Lengths) = {}
  <2>1. \A q \in Queue!Queues : dropped[q] = 0 /\ Lengths[q] = 0
    BY <1>1, <1>3 DEF Lengths
  <2>2. 1..0 = {}
    OBVIOUS
  <2> QED
    BY <2>1, <2>2 DEF Cells
<1>5. IsFiniteSet({}) /\ Cardinality({}) = 0
  BY FS_EmptySet
<1>6. ASSUME NEW q \in Queue!Queues, Capacity[q] > 0, Len(items[q]) >= Queue!High(q) PROVE FALSE
  <2>1. Queue!High(q) > 0 /\ Queue!High(q) \in Nat
    BY <1>6, HighIs
  <2> QED
    BY <1>3, <1>6, <2>1
<1>7. Queue!PressureSignalled
  BY <1>6 DEF Queue!PressureSignalled
<1>8. /\ items \in [Queue!Queues -> Seq(Queue!Item)]
      /\ dropped \in [Queue!Queues -> Nat] /\ overHigh \in [Queue!Queues -> BOOLEAN]
  BY <1>1
<1>9. pushed \in 0..MaxPushed /\ popped \in Nat /\ served \in (0..Stages) \X (0..MaxPushed)
  BY <1>1, <1>2
<1>10. /\ IsFiniteSet(Cells(dropped)) /\ IsFiniteSet(Cells(Lengths))
       /\ Cardinality(Cells(dropped)) = 0 /\ Cardinality(Cells(Lengths)) = 0
  BY <1>4, <1>5
<1>11. pushed = popped + Cardinality(Cells(dropped)) + Cardinality(Cells(Lengths))
  BY <1>1, <1>10
<1>12. \A q \in Queue!Queues : Row(items[q], pushed)
  BY <1>3
<1> QED
  BY <1>7, <1>8, <1>9, <1>10, <1>11, <1>12 DEF SInv

-----------------------------------------------------------------------------
(* The steps *)

LEMMA RowLater ==
  ASSUME NEW n \in Nat, NEW s, Row(s, n)
  PROVE  Row(s, n + 1)
<1>1. s \in Seq(Queue!Item)
  BY DEF Row
<1>2. ASSUME NEW i \in 1..Len(s) PROVE s[i].id <= n + 1
  <2>1. s[i].id \in Nat
    BY <1>1, ItemIs
  <2>2. s[i].id <= n
    BY DEF Row
  <2> QED
    BY <2>1, <2>2
<1> QED
  BY <1>1, <1>2 DEF Row

\* A queue takes the item n of priority p, at the cost of the oldest of v, or not.
Worst(s, v) ==
  LaneOf(s, v) # <<>> /\ \A o \in Priorities : o > v => LaneOf(s, o) = <<>>
Grown(s, r, p, n) ==
  /\ Len(r) = Len(s) + 1 /\ LaneOf(r, p) = Append(LaneOf(s, p), n)
  /\ \A o \in Priorities : o # p => LaneOf(r, o) = LaneOf(s, o)
Exchanged(s, r, p, n, v) ==
  /\ Len(r) = Len(s) /\ p < v /\ Worst(s, v)
  /\ LaneOf(r, p) = Append(LaneOf(s, p), n) /\ LaneOf(r, v) = Tail(LaneOf(s, v))
  /\ \A o \in Priorities : o # p /\ o # v => LaneOf(r, o) = LaneOf(s, o)

LEMMA WorstIs ==
  ASSUME NEW n \in Nat, NEW s, Row(s, n), s # <<>>,
         NEW l, l = Queue!LeastUrgent(s)
  PROVE  /\ l \in 1..Len(s) /\ s[l].prio \in Priorities /\ Worst(s, s[l].prio)
         /\ \A v \in Priorities : Worst(s, v) => v = s[l].prio
<1>1. /\ l \in 1..Len(s) /\ \A j \in 1..Len(s) : s[j].prio <= s[l].prio
  BY LeastUrgentIs
<1>2. s \in Seq(Queue!Item)
  BY DEF Row
<1>3. s[l].prio \in Priorities
  BY <1>1, <1>2, ItemIs
<1>4. \A o \in Priorities : o \in Nat
  BY SchedulerAssumed
<1>5. LaneOf(s, s[l].prio) # <<>>
  BY <1>1, LaneTaken
<1>6. ASSUME NEW o \in Priorities, o > s[l].prio PROVE LaneOf(s, o) = <<>>
  <2>1. ~\E i \in 1..Len(s) : s[i].prio = o
    BY <1>1, <1>3, <1>4, <1>6
  <2> QED
    BY <2>1, LaneTaken
<1>7. ASSUME NEW v \in Priorities, Worst(s, v) PROVE v = s[l].prio
  <2>1. PICK i \in 1..Len(s) : s[i].prio = v
    BY <1>7, LaneTaken DEF Worst
  <2>2. v <= s[l].prio
    BY <1>1, <2>1
  <2>3. ~(s[l].prio > v)
    BY <1>3, <1>5, <1>7 DEF Worst
  <2> QED
    BY <1>3, <1>4, <2>2, <2>3
<1> QED
  BY <1>1, <1>3, <1>5, <1>6, <1>7 DEF Worst

LEMMA PushedIs ==
  ASSUME SInv, NEW q \in Queue!Queues, NEW p \in Priorities, pushed < MaxPushed,
         NEW s, s = items[q], NEW r, r = Queue!PushedQueue(q, p)
  PROVE  /\ Row(s, pushed) /\ Row(r, pushed + 1)
         /\ \/ Len(s) < Capacity[q] /\ Grown(s, r, p, pushed + 1)
            \/ /\ ~(Len(s) < Capacity[q])
               /\ \E v \in Priorities : Exchanged(s, r, p, pushed + 1, v)
            \/ /\ ~(Len(s) < Capacity[q]) /\ r = s
               /\ \A v \in Priorities : Worst(s, v) => v <= p
<1> DEFINE n == pushed
           l == Queue!LeastUrgent(s)
           t == Queue!RemoveAt(s, l)
           k == Queue!PushedQueue(q, p)
<1>1. n \in Nat /\ n < MaxPushed /\ Row(s, n)
  BY SchedulerAssumed DEF SInv
<1>2. k = IF Len(s) < Capacity[q] THEN Added(s, p, n + 1)
          ELSE IF s # <<>> /\ p < s[l].prio THEN Added(t, p, n + 1)
          ELSE s
  BY DEF Queue!PushedQueue, Added
<1>3. r = IF Len(s) < Capacity[q] THEN Added(s, p, n + 1)
          ELSE IF s # <<>> /\ p < s[l].prio THEN Added(t, p, n + 1)
          ELSE s
  BY <1>2
<1>4. \A o \in Priorities : o \in Nat
  BY SchedulerAssumed
<1> HIDE DEF n, k
<1>5. CASE Len(s) < Capacity[q]
  <2>1. r = Added(s, p, n + 1)
    BY <1>3, <1>5
  <2>2. Row(r, n + 1) /\ Len(r) = Len(s) + 1
    BY <1>1, <2>1, Appended
  <2>3. /\ LaneOf(r, p) = Append(LaneOf(s, p), n + 1)
        /\ \A o \in Priorities : o # p => LaneOf(r, o) = LaneOf(s, o)
    BY <1>1, <2>1, LaneAppended
  <2> QED
    BY <1>1, <1>5, <2>2, <2>3 DEF Grown, n
<1>6. CASE ~(Len(s) < Capacity[q]) /\ s # <<>> /\ p < s[l].prio
  <2> DEFINE v == s[l].prio
             m == s[l].id
  <2>1. l \in 1..Len(s) /\ v \in Priorities /\ Worst(s, v)
    BY <1>1, <1>6, WorstIs
  <2>2. m \in Ids(s, v) /\ \A x \in Ids(s, v) : m <= x
    BY <1>1, <1>6, LeastUrgentIs
  <2> HIDE DEF l
  <2>3. v = s[l].prio /\ m = s[l].id /\ t = Queue!RemoveAt(s, l)
    OBVIOUS
  <2>4. Row(t, n) /\ Len(t) = Len(s) - 1
    BY <1>1, <2>1, Removed
  <2> HIDE DEF m
  <2>5. /\ LaneOf(t, v) = Tail(LaneOf(s, v))
        /\ \A o \in Priorities : o # v => LaneOf(t, o) = LaneOf(s, o)
    BY <1>1, <2>1, <2>2, <2>3, LaneRemoved
  <2> HIDE DEF t
  <2>6. r = Added(t, p, n + 1)
    BY <1>3, <1>6
  <2>7. p < v
    BY <1>6
  <2> HIDE DEF v
  <2>8. Row(r, n + 1) /\ Len(r) = Len(t) + 1
    BY <1>1, <2>4, <2>6, Appended
  <2>9. /\ LaneOf(r, p) = Append(LaneOf(t, p), n + 1)
        /\ \A o \in Priorities : o # p => LaneOf(r, o) = LaneOf(t, o)
    BY <1>1, <2>4, <2>6, LaneAppended
  <2>10. p # v
    BY <1>4, <2>1, <2>7
  <2>11. Len(s) \in Nat
    BY <1>1 DEF Row
  <2>12. Len(r) = Len(s)
    BY <2>4, <2>8, <2>11
  <2>13. /\ LaneOf(r, p) = Append(LaneOf(s, p), n + 1) /\ LaneOf(r, v) = Tail(LaneOf(s, v))
         /\ \A o \in Priorities : o # p /\ o # v => LaneOf(r, o) = LaneOf(s, o)
    BY <2>1, <2>5, <2>9, <2>10
  <2>14. Exchanged(s, r, p, n + 1, v)
    BY <2>1, <2>7, <2>12, <2>13 DEF Exchanged
  <2> QED
    BY <1>1, <1>6, <2>1, <2>8, <2>14 DEF n
<1>7. CASE ~(Len(s) < Capacity[q]) /\ ~(s # <<>> /\ p < s[l].prio)
  <2>1. r = s
    BY <1>3, <1>7
  <2>2. Row(r, n + 1)
    BY <1>1, <2>1, RowLater
  <2>3. ASSUME NEW v \in Priorities, Worst(s, v) PROVE v <= p
    <3>1. \E i \in 1..Len(s) : s[i].prio = v
      BY <1>1, <2>3, LaneTaken DEF Worst
    <3>2. s # <<>>
      BY <3>1
    <3>3. v = s[l].prio
      BY <1>1, <2>3, <3>2, WorstIs
    <3> QED
      BY <1>4, <1>7, <3>2, <3>3
  <2> QED
    BY <1>1, <1>7, <2>1, <2>2, <2>3 DEF n
<1> QED
  BY <1>5, <1>6, <1>7

\* What is popped is the first of the most urgent lane.
LEMMA PoppedIs ==
  ASSUME SInv, NEW q \in Queue!Queues, Queue!BestQueue(q),
         NEW s, s = items[q], NEW i, i = Queue!MostUrgent(s),
         NEW v, v = s[i].prio, NEW m, m = s[i].id, NEW r, r = Queue!RemoveAt(s, i)
  PROVE  /\ Row(s, pushed) /\ Row(r, pushed) /\ Len(r) = Len(s) - 1 /\ Len(s) \in Nat \ {0}
         /\ v \in Priorities /\ m \in 1..MaxPushed
         /\ LaneOf(s, v) # <<>> /\ Head(LaneOf(s, v)) = m /\ LaneOf(r, v) = Tail(LaneOf(s, v))
         /\ \A o \in Priorities : o # v => LaneOf(r, o) = LaneOf(s, o)
         /\ \A u \in Queue!Queues, o \in Priorities :
              LaneOf(items[u], o) # <<>> => v < o \/ (v = o /\ q <= u)
<1>1. pushed \in Nat /\ Row(s, pushed) /\ s \in Seq(Queue!Item)
  BY SchedulerAssumed DEF SInv
<1>2. s # <<>>
  BY DEF Queue!BestQueue
<1>3. /\ i \in 1..Len(s) /\ \A j \in 1..Len(s) : v <= s[j].prio
      /\ m \in Ids(s, v) /\ \A x \in Ids(s, v) : m <= x
  BY <1>1, <1>2, MostUrgentIs
<1>4. Row(r, pushed) /\ Len(r) = Len(s) - 1
  BY <1>1, <1>3, Removed
<1>5. Len(s) \in Nat \ {0}
  BY <1>1, <1>3
<1>6. v \in Priorities /\ m \in 1..MaxPushed
  <2>1. s[i] \in Queue!Item
    BY <1>1, <1>3
  <2> QED
    BY <2>1 DEF Queue!Item
<1>7. /\ LaneOf(s, v) # <<>> /\ Head(LaneOf(s, v)) = m
      /\ LaneOf(r, v) = Tail(LaneOf(s, v))
      /\ \A o \in Priorities : o # v => LaneOf(r, o) = LaneOf(s, o)
  BY <1>1, <1>3, LaneRemoved
<1>8. ASSUME NEW u \in Queue!Queues, NEW o \in Priorities, LaneOf(items[u], o) # <<>>
      PROVE  v < o \/ (v = o /\ q <= u)
  <2> DEFINE t == items[u]
             b == Queue!MostUrgent(t)
             w == t[b].prio
  <2>1. Row(t, pushed)
    BY DEF SInv
  <2>2. PICK k \in 1..Len(t) : t[k].prio = o
    BY <1>1, <1>8, <2>1, LaneTaken
  <2>3. t # <<>>
    BY <2>2
  <2>4. v < w \/ (v = w /\ q <= u)
    BY <2>3 DEF Queue!BestQueue
  <2> HIDE DEF t
  <2>5. b \in 1..Len(t) /\ \A j \in 1..Len(t) : w <= t[j].prio
    BY <1>1, <2>1, <2>3, MostUrgentIs
  <2>6. t \in Seq(Queue!Item)
    BY <2>1 DEF Row
  <2>7. w \in Nat /\ o \in Nat /\ v \in Nat /\ w <= o
    <3>1. \A x \in Priorities : x \in Nat
      BY SchedulerAssumed
    <3>2. w \in Nat
      BY <2>5, <2>6, ItemIs
    <3>3. w <= o
      BY <2>2, <2>5
    <3> QED
      BY <1>6, <3>1, <3>2, <3>3
  <2> HIDE DEF w
  <2> QED
    BY <2>4, <2>7
<1> QED
  BY <1>1, <1>4, <1>5, <1>6, <1>7, <1>8

\* The lanes that the queues implement.
LanesOf(it) == [q \in Queue!Queues |-> [p \in Priorities |-> LaneOf(it[q], p)]]

LEMMA LanesNow ==
  /\ [q \in Queue!Queues |-> [p \in Priorities |-> Queue!Lane(q, p)]] = LanesOf(items)
  /\ [q \in Queue!Queues |-> [p \in Priorities |-> Queue!Lane(q, p)]]' = LanesOf(items')
<1>1. \A q, p : Queue!Lane(q, p) = LaneOf(items[q], p)
  BY DEF Queue!Lane, Queue!Waiting, LaneOf, Ids
<1>2. \A q, p : Queue!Lane(q, p)' = LaneOf(items'[q], p)
  BY DEF Queue!Lane, Queue!Waiting, LaneOf, Ids
<1> QED
  BY <1>1, <1>2 DEF LanesOf

\* There is room in the lanes of a queue when there is room in the queue.
LEMMA RoomIs ==
  ASSUME SInv, NEW q \in Queue!Queues
  PROVE  Queue!Lanes!Room(q) <=> Len(items[q]) < Capacity[q]
<1> DEFINE s == items[q]
           W == UNION {{p} \X (1..Len(LaneOf(s, p))) : p \in Priorities}
           V == Queue!Lanes!Waiting(q)
<1>1. pushed \in Nat /\ Row(s, pushed)
  BY SchedulerAssumed DEF SInv
<1>2. V = W
  <2>1. \A p \in Priorities : Queue!Lane(q, p) = LaneOf(s, p)
    BY DEF Queue!Lane, Queue!Waiting, LaneOf, Ids
  <2> QED
    BY <2>1 DEF Queue!Lanes!Waiting
<1> HIDE DEF s
<1>3. W = UNION {{p} \X (1..Len(LaneOf(s, p))) : p \in Priorities}
  OBVIOUS
<1> HIDE DEF W
<1>4. Cardinality(W) = Len(s)
  BY <1>1, <1>3, WaitingCount
<1>5. Queue!Lanes!Room(q) <=> Cardinality(V) < Capacity[q]
  BY LanesCardinality DEF Queue!Lanes!Room
<1> QED
  BY <1>2, <1>4, <1>5 DEF s

LEMMA PushStep ==
  ASSUME SInv, NEW q \in Queue!Queues, NEW p \in Priorities, Queue!Push(q, p)
  PROVE  SInv'
<1> DEFINE s == items[q]
           r == Queue!PushedQueue(q, p)
<1>1. /\ pushed < MaxPushed /\ items' = [items EXCEPT ![q] = r]
      /\ dropped' = [dropped EXCEPT ![q] = IF Len(r) > Len(s) THEN @ ELSE @ + 1]
      /\ overHigh' = [overHigh EXCEPT ![q] = Queue!Watermarks(q, Len(items'[q]), @)]
      /\ pushed' = pushed + 1 /\ popped' = popped /\ served' = served
  BY DEF Queue!Push, Queue!CountLosses
<1>2. s = items[q] /\ r = Queue!PushedQueue(q, p)
  OBVIOUS
<1> HIDE DEF s, r
<1>3. /\ Row(s, pushed) /\ Row(r, pushed + 1)
      /\ Len(r) = Len(s) + 1 \/ Len(r) = Len(s)
  BY <1>1, <1>2, PushedIs DEF Grown, Exchanged
<1>4. Len(s) \in Nat /\ Len(r) \in Nat /\ r \in Seq(Queue!Item)
  BY <1>3 DEF Row
<1>5. /\ items \in [Queue!Queues -> Seq(Queue!Item)] /\ dropped \in [Queue!Queues -> Nat]
      /\ overHigh \in [Queue!Queues -> BOOLEAN] /\ pushed \in 0..MaxPushed /\ popped \in Nat
      /\ served \in (0..Stages) \X (0..MaxPushed)
      /\ IsFiniteSet(Cells(dropped)) /\ IsFiniteSet(Cells(Lengths))
      /\ pushed = popped + Cardinality(Cells(dropped)) + Cardinality(Cells(Lengths))
      /\ Queue!PressureSignalled
  BY DEF SInv
<1>6. /\ items' \in [Queue!Queues -> Seq(Queue!Item)] /\ items'[q] = r
      /\ \A u \in Queue!Queues : u # q => items'[u] = items[u]
  BY <1>1, <1>4, <1>5
<1>7. MaxPushed \in Nat /\ pushed \in Nat /\ pushed + 1 \in 0..MaxPushed
  BY <1>1, <1>5, SchedulerAssumed
<1>8. \A u \in Queue!Queues : Row(items'[u], pushed')
  <2> SUFFICES ASSUME NEW u \in Queue!Queues PROVE Row(items'[u], pushed')
    OBVIOUS
  <2>1. CASE u = q
    BY <1>1, <1>3, <1>6, <2>1
  <2>2. CASE u # q
    <3>1. Row(items[u], pushed)
      BY DEF SInv
    <3>2. Row(items[u], pushed + 1)
      BY <1>7, <3>1, RowLater
    <3> QED
      BY <1>1, <1>6, <2>2, <3>2
  <2> QED
    BY <2>1, <2>2
<1>9. Lengths' = [Lengths EXCEPT ![q] = Len(r)]
  BY <1>6 DEF Lengths
<1>10. Lengths \in [Queue!Queues -> Nat] /\ Lengths[q] = Len(s)
  <2>1. \A u \in Queue!Queues : Len(items[u]) \in Nat
    BY <1>5
  <2> QED
    BY <1>2, <2>1 DEF Lengths
<1>11. Cardinality(Cells(dropped)) \in Nat /\ Cardinality(Cells(Lengths)) \in Nat
  BY <1>5, FS_CardinalityType
<1>12. /\ dropped' \in [Queue!Queues -> Nat]
       /\ IsFiniteSet(Cells(dropped')) /\ IsFiniteSet(Cells(Lengths'))
       /\ pushed + 1 = popped + Cardinality(Cells(dropped')) + Cardinality(Cells(Lengths'))
  <2>1. CASE Len(r) = Len(s) + 1
    <3>1. Len(r) > Len(s)
      BY <1>4, <2>1
    <3>2. dropped' = dropped
      BY <1>1, <1>5, <3>1
    <3>3. Lengths' = [Lengths EXCEPT ![q] = Lengths[q] + 1]
      BY <1>9, <1>10, <2>1
    <3>4. /\ IsFiniteSet(Cells(Lengths'))
          /\ Cardinality(Cells(Lengths')) = Cardinality(Cells(Lengths)) + 1
      BY <1>5, <1>10, <3>3, CellsAdd
    <3>5. pushed + 1 = popped + Cardinality(Cells(dropped)) + (Cardinality(Cells(Lengths)) + 1)
      BY <1>5, <1>7, <1>11
    <3> QED
      BY <1>5, <3>2, <3>4, <3>5
  <2>2. CASE Len(r) = Len(s)
    <3>1. ~(Len(r) > Len(s))
      BY <1>4, <2>2
    <3>2. dropped' = [dropped EXCEPT ![q] = dropped[q] + 1]
      BY <1>1, <1>5, <3>1
    <3>3. Lengths' = Lengths
      BY <1>9, <1>10, <2>2
    <3>4. /\ dropped' \in [Queue!Queues -> Nat] /\ IsFiniteSet(Cells(dropped'))
          /\ Cardinality(Cells(dropped')) = Cardinality(Cells(dropped)) + 1
      BY <1>5, <3>2, CellsAdd
    <3>5. pushed + 1 = popped + (Cardinality(Cells(dropped)) + 1) + Cardinality(Cells(Lengths))
      BY <1>5, <1>7, <1>11
    <3> QED
      BY <1>5, <3>3, <3>4, <3>5
  <2> QED
    BY <1>3, <2>1, <2>2
<1>13. overHigh' \in [Queue!Queues -> BOOLEAN]
  <2>1. Queue!Watermarks(q, Len(items'[q]), overHigh[q]) \in BOOLEAN
    BY <1>5, Zenon DEF Queue!Watermarks
  <2> QED
    BY <1>1, <1>5, <2>1
<1>14. Queue!PressureSignalled'
  <2> SUFFICES ASSUME NEW u \in Queue!Queues, Capacity[u] > 0, Len(items'[u]) >= Queue!High(u)
               PROVE  overHigh'[u]
    BY DEF Queue!PressureSignalled, Queue!High
  <2>1. CASE u = q
    <3>1. overHigh'[q] = Queue!Watermarks(q, Len(r), overHigh[q])
      BY <1>1, <1>5, <1>6
    <3>2. /\ Capacity[q] > 0 /\ Len(r) >= Queue!High(q)
          /\ Queue!High(q) \in Nat /\ Queue!Low(q) \in Nat /\ Queue!Low(q) < Queue!High(q)
      BY <1>6, <2>1, HighIs
    <3>3. Len(r) > Queue!Low(q) /\ Capacity[q] # 0
      BY <1>4, <3>2
    <3>4. Queue!Watermarks(q, Len(r), overHigh[q])
      BY <3>2, <3>3 DEF Queue!Watermarks
    <3> QED
      BY <2>1, <3>1, <3>4
  <2>2. CASE u # q
    BY <1>1, <1>5, <1>6, <2>2 DEF Queue!PressureSignalled
  <2> QED
    BY <2>1, <2>2
<1>15. Cells(dropped)' = Cells(dropped') /\ Cells(Lengths)' = Cells(Lengths')
  BY DEF Cells
<1> QED
  BY <1>1, <1>5, <1>6, <1>7, <1>8, <1>12, <1>13, <1>14, <1>15 DEF SInv

LEMMA PopStep ==
  ASSUME SInv, NEW q \in Queue!Queues, Queue!Pop(q)
  PROVE  SInv'
<1> DEFINE s == items[q]
           i == Queue!MostUrgent(s)
           m == s[i].id
           r == Queue!RemoveAt(s, i)
<1>1. /\ Queue!BestQueue(q) /\ served' = <<q, m>> /\ items' = [items EXCEPT ![q] = r]
      /\ dropped' = dropped /\ overHigh' = overHigh
      /\ pushed' = pushed /\ popped' = popped + 1
  BY DEF Queue!Pop
<1>2. /\ Row(r, pushed) /\ Len(r) = Len(s) - 1 /\ Len(s) \in Nat \ {0} /\ m \in 1..MaxPushed
  BY <1>1, PoppedIs
<1> HIDE DEF r, m
<1>3. r \in Seq(Queue!Item)
  BY <1>2 DEF Row
<1>4. /\ items \in [Queue!Queues -> Seq(Queue!Item)] /\ dropped \in [Queue!Queues -> Nat]
      /\ overHigh \in [Queue!Queues -> BOOLEAN] /\ pushed \in 0..MaxPushed /\ popped \in Nat
      /\ IsFiniteSet(Cells(dropped)) /\ IsFiniteSet(Cells(Lengths))
      /\ pushed = popped + Cardinality(Cells(dropped)) + Cardinality(Cells(Lengths))
      /\ Queue!PressureSignalled /\ \A u \in Queue!Queues : Row(items[u], pushed)
  BY DEF SInv
<1>5. /\ items' \in [Queue!Queues -> Seq(Queue!Item)] /\ items'[q] = r
      /\ \A u \in Queue!Queues : u # q => items'[u] = items[u]
  BY <1>1, <1>3, <1>4
<1>6. \A u \in Queue!Queues : Row(items'[u], pushed')
  BY <1>1, <1>2, <1>4, <1>5
<1>7. Lengths' = [Lengths EXCEPT ![q] = Len(r)]
  BY <1>5 DEF Lengths
<1>8. Lengths \in [Queue!Queues -> Nat] /\ Lengths[q] = Len(s)
  <2>1. \A u \in Queue!Queues : Len(items[u]) \in Nat
    BY <1>4
  <2> QED
    BY <2>1 DEF Lengths
<1> HIDE DEF s
<1>9. Lengths' = [Lengths EXCEPT ![q] = Lengths[q] - 1] /\ Lengths[q] > 0
  BY <1>2, <1>7, <1>8
<1>10. /\ IsFiniteSet(Cells(Lengths')) /\ Cardinality(Cells(Lengths')) \in Nat
       /\ Cardinality(Cells(Lengths)) = Cardinality(Cells(Lengths')) + 1
  <2>1. /\ Lengths \in [Queue!Queues -> Nat] /\ IsFiniteSet(Cells(Lengths)) /\ Lengths[q] > 0
        /\ Lengths' = [Lengths EXCEPT ![q] = Lengths[q] - 1]
    BY <1>4, <1>8, <1>9
  <2>2. IsFiniteSet(Cells(Lengths'))
    BY <2>1, CellsRemove
  <2>3. Cardinality(Cells(Lengths')) \in Nat
    BY <2>2, FS_CardinalityType
  <2>4. Cardinality(Cells(Lengths)) = Cardinality(Cells(Lengths')) + 1
    BY <2>1, CellsRemove
  <2> QED
    BY <2>2, <2>3, <2>4
<1>11. Cardinality(Cells(dropped)) \in Nat
  BY <1>4, FS_CardinalityType
<1>12. pushed = popped + 1 + Cardinality(Cells(dropped)) + Cardinality(Cells(Lengths'))
  BY <1>4, <1>10, <1>11
<1>13. served' \in (0..Stages) \X (0..MaxPushed)
  <2>1. q \in 0..Stages /\ m \in 0..MaxPushed
    BY <1>2, SchedulerAssumed DEF Queue!Queues
  <2> QED
    BY <1>1, <2>1
<1>14. Queue!PressureSignalled'
  <2> SUFFICES ASSUME NEW u \in Queue!Queues, Capacity[u] > 0, Len(items'[u]) >= Queue!High(u)
               PROVE  overHigh'[u]
    BY DEF Queue!PressureSignalled, Queue!High
  <2>1. Len(items[u]) >= Queue!High(u)
    <3>1. CASE u = q
      <4>1. Queue!High(q) \in Nat /\ Len(r) >= Queue!High(q)
        BY <1>5, <3>1, HighIs
      <4>2. Len(s) >= Queue!High(q)
        BY <1>2, <4>1
      <4> QED
        BY <3>1, <4>2 DEF s
    <3>2. CASE u # q
      BY <1>5, <3>2
    <3> QED
      BY <3>1, <3>2
  <2> QED
    BY <1>1, <1>4, <2>1 DEF Queue!PressureSignalled
<1>15. Cells(dropped)' = Cells(dropped') /\ Cells(Lengths)' = Cells(Lengths')
  BY DEF Cells
<1>16. popped' \in Nat
  BY <1>1, <1>4
<1> QED
  BY <1>1, <1>4, <1>5, <1>6, <1>10, <1>12, <1>13, <1>14, <1>15, <1>16 DEF SInv

LEMMA PollStep ==
  ASSUME SInv, Queue!PollWatermarks
  PROVE  SInv'
<1>1. /\ overHigh' = [q \in Queue!Queues |-> Queue!Watermarks(q, Len(items[q]), overHigh[q])]
      /\ items' = items /\ dropped' = dropped /\ pushed' = pushed /\ popped' = popped
      /\ served' = served
  BY DEF Queue!PollWatermarks
<1>2. overHigh \in [Queue!Queues -> BOOLEAN] /\ items \in [Queue!Queues -> Seq(Queue!Item)]
  BY DEF SInv
<1>3. overHigh' \in [Queue!Queues -> BOOLEAN]
  <2>1. \A q \in Queue!Queues : Queue!Watermarks(q, Len(items[q]), overHigh[q]) \in BOOLEAN
    BY <1>2, Zenon DEF Queue!Watermarks
  <2> QED
    BY <1>1, <2>1
<1>4. Queue!PressureSignalled'
  <2> SUFFICES ASSUME NEW u \in Queue!Queues, Capacity[u] > 0, Len(items'[u]) >= Queue!High(u)
               PROVE  overHigh'[u]
    BY DEF Queue!PressureSignalled, Queue!High
  <2> DEFINE n == Len(items[u])
  <2>1. n \in Nat /\ n >= Queue!High(u) /\ Capacity[u] > 0
    BY <1>1, <1>2
  <2>2. overHigh'[u] = Queue!Watermarks(u, n, overHigh[u])
    BY <1>1
  <2> HIDE DEF n
  <2>3. Queue!High(u) \in Nat /\ Queue!Low(u) \in Nat /\ Queue!Low(u) < Queue!High(u)
    BY HighIs
  <2>4. n > Queue!Low(u) /\ Capacity[u] # 0
    BY <2>1, <2>3
  <2>5. Queue!Watermarks(u, n, overHigh[u])
    BY <2>1, <2>4 DEF Queue!Watermarks
  <2> QED
    BY <2>2, <2>5
<1>5. Lengths' = Lengths /\ Cells(dropped)' = Cells(dropped) /\ Cells(Lengths)' = Cells(Lengths)
  BY <1>1 DEF Lengths, Cells
<1>6. \A q \in Queue!Queues : Row(items'[q], pushed')
  BY <1>1 DEF SInv
<1> QED
  BY <1>1, <1>3, <1>4, <1>5, <1>6 DEF SInv

LEMMA SInvStep == SInv /\ [Queue!Next]_(Queue!vars) => SInv'
<1> SUFFICES ASSUME SInv, [Queue!Next]_(Queue!vars) PROVE SInv'
  OBVIOUS
<1>1. CASE \E q \in Queue!Queues, p \in Priorities : Queue!Push(q, p)
  BY <1>1, PushStep
<1>2. CASE \E q \in Queue!Queues : Queue!Pop(q)
  BY <1>2, PopStep
<1>3. CASE Queue!PollWatermarks
  BY <1>3, PollStep
<1>4. CASE UNCHANGED Queue!vars
  BY <1>4 DEF SInv, Queue!vars, Row, Cells, Lengths, Queue!PressureSignalled, Queue!High
<1> QED
  BY <1>1, <1>2, <1>3, <1>4 DEF Queue!Next

-----------------------------------------------------------------------------
(* The steps are steps of the lanes *)

LEMMA LanesPush ==
  ASSUME SInv, NEW q \in Queue!Queues, NEW p \in Priorities, Queue!Push(q, p)
  PROVE  Queue!Lanes!Next
<1> DEFINE s == items[q]
           r == Queue!PushedQueue(q, p)
           L == LanesOf(items)
           M == LanesOf(items')
           N == [u \in Queue!Queues |-> [o \in Priorities |-> Queue!Lane(u, o)]]
<1>1. /\ pushed < MaxPushed /\ items' = [items EXCEPT ![q] = r]
      /\ pushed' = pushed + 1 /\ served' = served
  BY DEF Queue!Push
<1>2. /\ Row(s, pushed) /\ Row(r, pushed + 1)
      /\ \/ Len(s) < Capacity[q] /\ Grown(s, r, p, pushed + 1)
         \/ /\ ~(Len(s) < Capacity[q])
            /\ \E v \in Priorities : Exchanged(s, r, p, pushed + 1, v)
         \/ /\ ~(Len(s) < Capacity[q]) /\ r = s
            /\ \A v \in Priorities : Worst(s, v) => v <= p
  BY <1>1, PushedIs
<1>3. items'[q] = r /\ \A u \in Queue!Queues : u # q => items'[u] = items[u]
  BY <1>1 DEF SInv
<1>4. /\ \A o \in Priorities : L[q][o] = LaneOf(s, o)
      /\ \A o \in Priorities : M[q][o] = LaneOf(r, o)
      /\ \A u \in Queue!Queues : u # q => M[u] = L[u]
  BY <1>3 DEF LanesOf
<1>5. N = L /\ N' = M
  BY LanesNow
<1>6. Queue!Lanes!Room(q) <=> Len(s) < Capacity[q]
  BY RoomIs
<1>7. \A v \in Priorities : Queue!Lanes!Victim(q, v) <=> Worst(s, v)
  <2>1. \A o \in Priorities : N[q][o] = LaneOf(s, o)
    BY <1>4, <1>5
  <2> QED
    BY <2>1 DEF Queue!Lanes!Victim, Worst
<1>8. DOMAIN L = Queue!Queues /\ DOMAIN M = Queue!Queues /\ DOMAIN L[q] = Priorities
      /\ DOMAIN M[q] = Priorities
  BY DEF LanesOf
<1>9. L = [u \in Queue!Queues |-> L[u]] /\ M = [u \in Queue!Queues |-> M[u]]
      /\ L[q] = [o \in Priorities |-> L[q][o]] /\ M[q] = [o \in Priorities |-> M[q][o]]
  BY DEF LanesOf
<1> HIDE DEF s, r, L, M
<1>10. \E u \in Queue!Lanes!Queues, o \in Priorities : Queue!Lanes!Push(u, o)
  <2>1. q \in Queue!Lanes!Queues
    BY DEF Queue!Queues, Queue!Lanes!Queues
  <2>2. Queue!Lanes!Accept(q, p) \/ Queue!Lanes!Displace(q, p) \/ Queue!Lanes!Refuse(q, p)
    <3>1. CASE Len(s) < Capacity[q] /\ Grown(s, r, p, pushed + 1)
      <4>1. M[q] = [L[q] EXCEPT ![p] = Append(L[q][p], pushed + 1)]
        BY <1>4, <1>9, <3>1 DEF Grown
      <4>2. M = [L EXCEPT ![q][p] = Append(@, pushed + 1)]
        BY <1>4, <1>9, <4>1
      <4>3. N' = [N EXCEPT ![q][p] = Append(@, pushed + 1)]
        BY <1>5, <4>2
      <4> QED
        BY <1>6, <3>1, <4>3 DEF Queue!Lanes!Accept
    <3>2. CASE ~(Len(s) < Capacity[q]) /\ \E v \in Priorities : Exchanged(s, r, p, pushed + 1, v)
      <4>1. PICK v \in Priorities : Exchanged(s, r, p, pushed + 1, v)
        BY <3>2
      <4>2. p # v
        BY <4>1, SchedulerAssumed DEF Exchanged
      <4>3. M[q] = [L[q] EXCEPT ![v] = Tail(L[q][v]), ![p] = Append(L[q][p], pushed + 1)]
        BY <1>4, <1>9, <4>1, <4>2 DEF Exchanged
      <4>4. M = [L EXCEPT ![q] = [L[q] EXCEPT ![v] = Tail(L[q][v]),
                                              ![p] = Append(L[q][p], pushed + 1)]]
        BY <1>4, <1>9, <4>3
      <4>5. N' = [N EXCEPT ![q][v] = Tail(@), ![q][p] = Append(@, pushed + 1)]
        BY <1>5, <1>9, <4>2, <4>4
      <4>6. Queue!Lanes!Victim(q, v) /\ p < v
        BY <1>7, <4>1 DEF Exchanged
      <4> QED
        BY <1>6, <3>2, <4>5, <4>6 DEF Queue!Lanes!Displace
    <3>3. CASE /\ ~(Len(s) < Capacity[q]) /\ r = s
               /\ \A v \in Priorities : Worst(s, v) => v <= p
      <4>1. M[q] = L[q]
        BY <1>4, <1>9, <3>3
      <4>2. M = L
        BY <1>4, <1>9, <4>1
      <4>3. N' = N
        BY <1>5, <4>2
      <4>4. \A v \in Priorities : Queue!Lanes!Victim(q, v) => v <= p
        BY <1>7, <3>3
      <4> QED
        BY <1>6, <3>3, <4>3, <4>4 DEF Queue!Lanes!Refuse
    <3> QED
      BY <1>2, <3>1, <3>2, <3>3
  <2>3. Queue!Lanes!Push(q, p)
    BY <1>1, <2>2 DEF Queue!Lanes!Push
  <2> QED
    BY <2>1, <2>3
<1> QED
  BY <1>10 DEF Queue!Lanes!Next

LEMMA LanesPop ==
  ASSUME SInv, NEW q \in Queue!Queues, Queue!Pop(q)
  PROVE  Queue!Lanes!Next
<1> DEFINE s == items[q]
           i == Queue!MostUrgent(s)
           v == s[i].prio
           m == s[i].id
           r == Queue!RemoveAt(s, i)
           L == LanesOf(items)
           M == LanesOf(items')
           N == [u \in Queue!Queues |-> [o \in Priorities |-> Queue!Lane(u, o)]]
<1>1. /\ Queue!BestQueue(q) /\ served' = <<q, m>> /\ items' = [items EXCEPT ![q] = r]
      /\ pushed' = pushed
  BY DEF Queue!Pop
<1>2. /\ v \in Priorities
      /\ LaneOf(s, v) # <<>> /\ Head(LaneOf(s, v)) = m /\ LaneOf(r, v) = Tail(LaneOf(s, v))
      /\ \A o \in Priorities : o # v => LaneOf(r, o) = LaneOf(s, o)
      /\ \A u \in Queue!Queues, o \in Priorities :
           LaneOf(items[u], o) # <<>> => v < o \/ (v = o /\ q <= u)
  BY <1>1, PoppedIs
<1> HIDE DEF r, m, v
<1>3. items'[q] = r /\ \A u \in Queue!Queues : u # q => items'[u] = items[u]
  BY <1>1 DEF SInv
<1>4. /\ \A o \in Priorities : L[q][o] = LaneOf(s, o)
      /\ \A o \in Priorities : M[q][o] = LaneOf(r, o)
      /\ \A u \in Queue!Queues : u # q => M[u] = L[u]
      /\ \A u \in Queue!Queues, o \in Priorities : L[u][o] = LaneOf(items[u], o)
  BY <1>3 DEF LanesOf
<1>5. N = L /\ N' = M
  BY LanesNow
<1>6. L = [u \in Queue!Queues |-> L[u]] /\ M = [u \in Queue!Queues |-> M[u]]
      /\ L[q] = [o \in Priorities |-> L[q][o]] /\ M[q] = [o \in Priorities |-> M[q][o]]
  BY DEF LanesOf
<1> HIDE DEF s, L, M
<1>7. M[q] = [L[q] EXCEPT ![v] = Tail(L[q][v])]
  BY <1>2, <1>4, <1>6
<1>8. M = [L EXCEPT ![q][v] = Tail(@)]
  BY <1>4, <1>6, <1>7
<1>9. N' = [N EXCEPT ![q][v] = Tail(@)]
  BY <1>5, <1>8
<1>10. /\ N[q][v] # <<>> /\ Head(N[q][v]) = m
       /\ \A u \in Queue!Queues, o \in Priorities :
            N[u][o] # <<>> => v < o \/ (v = o /\ q <= u)
  BY <1>2, <1>4, <1>5
<1>11. Queue!Queues = Queue!Lanes!Queues
  BY DEF Queue!Queues, Queue!Lanes!Queues
<1>12. Queue!Lanes!Pop(q, v)
  BY <1>1, <1>9, <1>10, <1>11 DEF Queue!Lanes!Pop
<1> QED
  BY <1>2, <1>11, <1>12 DEF Queue!Lanes!Next

LEMMA LanesStep ==
  ASSUME SInv, [Queue!Next]_(Queue!vars)
  PROVE  [Queue!Lanes!Next]_<<[q \in Queue!Queues |-> [p \in Priorities |-> Queue!Lane(q, p)]],
                              pushed, served>>
<1>1. CASE \E q \in Queue!Queues, p \in Priorities : Queue!Push(q, p)
  BY <1>1, LanesPush
<1>2. CASE \E q \in Queue!Queues : Queue!Pop(q)
  BY <1>2, LanesPop
<1>3. CASE Queue!PollWatermarks \/ UNCHANGED Queue!vars
  <2>1. items' = items /\ pushed' = pushed /\ served' = served
    BY <1>3 DEF Queue!PollWatermarks, Queue!vars
  <2>2. [q \in Queue!Queues |-> [p \in Priorities |-> Queue!Lane(q, p)]]'
          = [q \in Queue!Queues |-> [p \in Priorities |-> Queue!Lane(q, p)]]
    BY <2>1, LanesNow
  <2> QED
    BY <2>1, <2>2
<1> QED
  BY <1>1, <1>2, <1>3 DEF Queue!Next

LEMMA LanesInit == Queue!Init => Queue!Lanes!Init
<1> SUFFICES ASSUME Queue!Init PROVE Queue!Lanes!Init
  OBVIOUS
<1>1. \A q \in Queue!Queues, p \in Priorities : LaneOf(items[q], p) = <<>>
  <2> SUFFICES ASSUME NEW q \in Queue!Queues, NEW p \in Priorities
               PROVE  LaneOf(items[q], p) = <<>>
    OBVIOUS
  <2>1. items[q] = <<>>
    BY DEF Queue!Init
  <2>2. Row(items[q], 0)
    BY <2>1 DEF Row
  <2>3. ~\E i \in 1..Len(items[q]) : items[q][i].prio = p
    BY <2>1
  <2> QED
    BY <2>2, <2>3, LaneTaken
<1>2. [q \in Queue!Queues |-> [p \in Priorities |-> Queue!Lane(q, p)]]
        = [q \in Queue!Queues |-> [p \in Priorities |-> <<>>]]
  BY <1>1, LanesNow DEF LanesOf
<1>3. Queue!Queues = Queue!Lanes!Queues
  BY DEF Queue!Queues, Queue!Lanes!Queues
<1> QED
  BY <1>2, <1>3 DEF Queue!Init, Queue!Lanes!Init

\* Whatever the stages, the priorities, their capacities and the traffic, every
\* push and pop of the scheduler is one on FIFO lanes per priority, no item is
\* lost uncounted and no queue is at its high watermark untold (Scheduler::push,
\* pop and poll_watermarks of scheduler.rs).
THEOREM SchedulerCorrect == Queue!Spec => SchedulerKeeps
<1>1. Queue!Init => SInv
  BY SInvInit
<1>2. SInv /\ [Queue!Next]_(Queue!vars) => SInv'
  BY SInvStep
<1>3. SInv => Queue!TypeOK /\ Queue!ProducersTold
  BY SInvSafe
<1>4. Queue!Init => Queue!Lanes!Init
  BY LanesInit
<1>5. SInv /\ [Queue!Next]_(Queue!vars) =>
        [Queue!Lanes!Next]_<<[q \in Queue!Queues |-> [p \in Priorities |-> Queue!Lane(q, p)]],
                             pushed, served>>
  BY LanesStep
<1> QED
  BY <1>1, <1>2, <1>3, <1>4, <1>5, PTL
     DEF Queue!Spec, SchedulerKeeps, Queue!SchedulerKeeps, Queue!ImplementsLanes,
         Queue!Lanes!Spec
=============================================================================
