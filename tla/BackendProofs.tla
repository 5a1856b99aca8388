----------------------------- MODULE BackendProofs -----------------------------
(***************************************************************************)
(* Proofs about what plays in a browser, as MCBackends instantiates it,    *)
(* for every value of the constants.                                       *)
(*                                                                         *)
(* The audio ring: until a reset no frame is lost, repeated or             *)
(* overwritten.  The invariant measures every index by how far it is       *)
(* behind the writer, which does not wrap where the indices do.            *)
(* The MSE backend: segments are appended in order, the queue never waits  *)
(* for nothing, and a stopped backend holds nothing.                       *)
(* The controller that chooses between backends: one is alive at a time.   *)
(* The planner of pipelines: a plan on its list can be carried out.        *)
(***************************************************************************)
EXTENDS MCBackends, WellFoundedInduction, TLAPS

-----------------------------------------------------------------------------
(* The audio ring *)

\* No reset has begun.
Calm == resets = 0 /\ main.at \in {"idle", "copy"}

\* Where the writer puts the next frame, and how far a slot is behind it.
Front == IF main.at = "copy" THEN main.index ELSE write
Behind(s) == Available(Front, s)

\* Where the worklet goes on: its local index once it has loaded one.
Position == IF worklet.at \in {"loadGen", "play"} THEN worklet.index ELSE read

\* The indices follow each other, and the frames to be copied fit behind them.
Ordered ==
  /\ Behind(write) <= Behind(read)
  /\ Behind(read) + main.left < Capacity
  /\ worklet.at # "idle" =>
       Behind(write) <= Behind(worklet.write) /\ Behind(worklet.write) <= Behind(Position)
  /\ Behind(Position) <= Behind(read)

\* From the read index on, every slot holds the frame that was put there last.
Holds ==
  /\ Behind(read) <= written
  /\ \A s \in Slots : 1 <= Behind(s) /\ Behind(s) <= Behind(read) =>
       slots[s] = written - Behind(s) + 1

\* What was heard ends just before the worklet's position.
HeardUpTo ==
  /\ worklet.at = "play" => worklet.gen = gen
  /\ heard # <<>> =>
       /\ worklet.gen = gen
       /\ heard[Len(heard)] = written - Behind(Position)
       /\ Len(heard) <= heard[Len(heard)]
  /\ \A i \in 1..(Len(heard) - 1) : heard[i + 1] = heard[i] + 1

\* A reset has room to complete, and a batch to be copied.
Counts ==
  /\ gen = resets + 1
  /\ main.at \in {"reset1", "reset2"} => resets < MaxResets
  /\ main.at # "copy" => main.left = 0
  /\ written + main.left <= MaxFrames

RInv == TypeOK /\ Counts /\ (Calm => Ordered /\ Holds /\ HeardUpTo)

-----------------------------------------------------------------------------
(* Arithmetic of the indices *)

LEMMA Wrap ==
  ASSUME NEW x \in Nat, x < 2 * Capacity
  PROVE  x % Capacity = IF x < Capacity THEN x ELSE x - Capacity
BY RingAssumption

LEMMA AvailableIs ==
  ASSUME NEW w \in Slots, NEW r \in Slots
  PROVE  /\ Available(w, r) = IF w >= r THEN w - r ELSE w - r + Capacity
         /\ Available(w, r) \in 0..(Capacity - 1)
<1>1. w \in Nat /\ r \in Nat /\ w < Capacity /\ r < Capacity /\ Capacity \in Nat
  BY RingAssumption DEF Slots
<1> DEFINE x == w - r + Capacity
<1>2. x \in Nat /\ x < 2 * Capacity /\ (x < Capacity <=> w < r)
  BY <1>1
<1> HIDE DEF x
<1>3. x % Capacity = IF x < Capacity THEN x ELSE x - Capacity
  BY <1>2, Wrap
<1>4. Available(w, r) = IF w >= r THEN x - Capacity ELSE x
  BY <1>1, <1>2, <1>3 DEF Available, x
<1> QED
  BY <1>1, <1>4 DEF x

LEMMA NextSlot ==
  ASSUME NEW s \in Slots
  PROVE  /\ (s + 1) % Capacity = IF s + 1 = Capacity THEN 0 ELSE s + 1
         /\ (s + 1) % Capacity \in Slots
<1>1. s \in Nat /\ s < Capacity /\ Capacity \in Nat
  BY RingAssumption DEF Slots
<1> DEFINE x == s + 1
<1>2. x \in Nat /\ x <= Capacity /\ x < 2 * Capacity
  BY <1>1
<1> HIDE DEF x
<1>3. x % Capacity = IF x < Capacity THEN x ELSE x - Capacity
  BY <1>2, Wrap
<1>4. (x % Capacity = IF x = Capacity THEN 0 ELSE x) /\ x % Capacity \in Slots
  BY <1>1, <1>2, <1>3 DEF Slots
<1> QED
  BY <1>4 DEF x

MainRecords == [at : {"idle", "copy", "reset1", "reset2"}, index : Slots, left : 0..Capacity]
WorkletRecords == [at : {"idle", "loadRead", "loadGen", "play", "store"}, write : Slots,
                   index : Slots, left : 0..Block, gen : 0..(MaxResets + 1), floor : 0..MaxFrames]

\* Records of the two threads after a step.
LEMMA MainMoves ==
  ASSUME NEW m \in MainRecords, NEW i \in Slots, m.left > 0
  PROVE  [m EXCEPT !.index = i, !.left = @ - 1] \in MainRecords
<1>1. m.left - 1 \in 0..Capacity
  BY RingAssumption DEF MainRecords
<1> QED
  BY <1>1 DEF MainRecords

LEMMA WorkletMoves ==
  ASSUME NEW k \in WorkletRecords, NEW i \in Slots
  PROVE  /\ \A g \in 0..(MaxResets + 1) : [k EXCEPT !.at = "play", !.gen = g, !.left = Block, !.index = i] \in WorkletRecords
         /\ k.left > 0 => [k EXCEPT !.left = @ - 1] \in WorkletRecords
         /\ k.left > 0 => [k EXCEPT !.left = @ - 1, !.index = i] \in WorkletRecords
<1>1. Block \in 0..Block /\ (k.left > 0 => k.left - 1 \in 0..Block)
  BY RingAssumption DEF WorkletRecords
<1>2. \A g \in 0..(MaxResets + 1) : [k EXCEPT !.at = "play", !.gen = g, !.left = Block, !.index = i] \in WorkletRecords
  BY <1>1 DEF WorkletRecords
<1>3. k.left > 0 => [k EXCEPT !.left = @ - 1] \in WorkletRecords
  BY <1>1 DEF WorkletRecords
<1>4. k.left > 0 => [k EXCEPT !.left = @ - 1, !.index = i] \in WorkletRecords
  BY <1>1 DEF WorkletRecords
<1> QED
  BY <1>2, <1>3, <1>4

\* The slot itself is 0 behind, and every other one is farther.
LEMMA BehindSelf ==
  ASSUME NEW w \in Slots, NEW r \in Slots
  PROVE  Available(w, r) = 0 <=> w = r
<1>1. w \in Nat /\ r \in Nat /\ w < Capacity /\ r < Capacity /\ Capacity \in Nat
  BY RingAssumption DEF Slots
<1>2. Available(w, r) = IF w >= r THEN w - r ELSE w - r + Capacity
  BY AvailableIs
<1> QED
  BY <1>1, <1>2

\* Two slots are never equally far behind.
LEMMA BehindOnce ==
  ASSUME NEW f \in Slots, NEW w \in Slots, NEW r \in Slots, Available(f, w) = Available(f, r)
  PROVE  w = r
<1>1. /\ f \in Nat /\ w \in Nat /\ r \in Nat /\ Capacity \in Nat
      /\ f < Capacity /\ w < Capacity /\ r < Capacity
  BY RingAssumption DEF Slots
<1>2. /\ Available(f, w) = IF f >= w THEN f - w ELSE f - w + Capacity
      /\ Available(f, r) = IF f >= r THEN f - r ELSE f - r + Capacity
  BY AvailableIs
<1> DEFINE a == Available(f, w)
           b == Available(f, r)
<1>3. a \in Int /\ b \in Int /\ a = b
  BY <1>1, <1>2
<1>4. (a = f - w \/ a = f - w + Capacity) /\ (b = f - r \/ b = f - r + Capacity)
  BY <1>2
<1> HIDE DEF a, b
<1> QED
  BY <1>1, <1>3, <1>4

\* Distances add up along the ring.
LEMMA BehindAdds ==
  ASSUME NEW f \in Slots, NEW w \in Slots, NEW r \in Slots, Available(f, w) <= Available(f, r)
  PROVE  Available(f, r) = Available(f, w) + Available(w, r)
<1>1. /\ f \in Nat /\ w \in Nat /\ r \in Nat /\ Capacity \in Nat
      /\ f < Capacity /\ w < Capacity /\ r < Capacity
  BY RingAssumption DEF Slots
<1>2. /\ Available(f, w) = IF f >= w THEN f - w ELSE f - w + Capacity
      /\ Available(f, r) = IF f >= r THEN f - r ELSE f - r + Capacity
      /\ Available(w, r) = IF w >= r THEN w - r ELSE w - r + Capacity
  BY AvailableIs
<1> QED
  BY <1>1, <1>2

\* One step of the writer puts every slot one farther behind, the one it filled
\* included, but for the one it comes to.
LEMMA WriterStep ==
  ASSUME NEW w \in Slots, NEW r \in Slots
  PROVE  /\ Available(w, r) + 1 < Capacity => Available((w + 1) % Capacity, r) = Available(w, r) + 1
         /\ Available((w + 1) % Capacity, r) >= 1 => Available((w + 1) % Capacity, r) = Available(w, r) + 1
<1> DEFINE x == (w + 1) % Capacity
<1>1. x \in Slots /\ x = IF w + 1 = Capacity THEN 0 ELSE w + 1
  BY NextSlot
<1> HIDE DEF x
<1>2. /\ w \in Nat /\ r \in Nat /\ x \in Nat /\ Capacity \in Nat
      /\ w < Capacity /\ r < Capacity /\ x < Capacity
  BY <1>1, RingAssumption DEF Slots
<1>3. /\ Available(x, r) = IF x >= r THEN x - r ELSE x - r + Capacity
      /\ Available(w, r) = IF w >= r THEN w - r ELSE w - r + Capacity
  BY <1>1, AvailableIs
<1>4. Available(w, r) + 1 < Capacity \/ Available(x, r) >= 1 => Available(x, r) = Available(w, r) + 1
  BY <1>1, <1>2, <1>3
<1> QED
  BY <1>4 DEF x

\* One step of the reader brings it one closer.
LEMMA ReaderStep ==
  ASSUME NEW w \in Slots, NEW r \in Slots, w # r
  PROVE  Available(w, (r + 1) % Capacity) = Available(w, r) - 1
<1> DEFINE x == (r + 1) % Capacity
<1>1. x \in Slots /\ x = IF r + 1 = Capacity THEN 0 ELSE r + 1
  BY NextSlot
<1> HIDE DEF x
<1>2. /\ w \in Nat /\ r \in Nat /\ x \in Nat /\ Capacity \in Nat
      /\ w < Capacity /\ r < Capacity /\ x < Capacity
  BY <1>1, RingAssumption DEF Slots
<1>3. /\ Available(w, x) = IF w >= x THEN w - x ELSE w - x + Capacity
      /\ Available(w, r) = IF w >= r THEN w - r ELSE w - r + Capacity
  BY <1>1, AvailableIs
<1>4. Available(w, x) = Available(w, r) - 1
  BY <1>1, <1>2, <1>3
<1> QED
  BY <1>4 DEF x

\* The slot that is i behind w, where the read index is farther behind.
LEMMA SlotBehind ==
  ASSUME NEW f \in Slots, NEW w \in Slots, NEW i \in Nat,
         Available(f, w) + i < Capacity
  PROVE  /\ (w - i + Capacity) % Capacity \in Slots
         /\ Available(f, (w - i + Capacity) % Capacity) = Available(f, w) + i
<1> DEFINE s == (w - i + Capacity) % Capacity
<1>1. /\ Capacity \in Nat /\ w \in Nat /\ w < Capacity /\ f \in Nat /\ f < Capacity
      /\ i < Capacity
  BY AvailableIs, RingAssumption DEF Slots
<1>2. w - i + Capacity \in Nat /\ w - i + Capacity < 2 * Capacity
  BY <1>1
<1>3. s = IF w - i < 0 THEN w - i + Capacity ELSE w - i
  BY <1>1, <1>2, Wrap
<1> HIDE DEF s
<1>4. s \in Slots
  BY <1>1, <1>3 DEF Slots
<1>5. Available(f, s) = Available(f, w) + i
  BY <1>1, <1>3, <1>4, AvailableIs
<1> QED
  BY <1>4, <1>5 DEF s

-----------------------------------------------------------------------------
(* The invariant *)

LEMMA RingInit == Init => RInv
<1> SUFFICES ASSUME Init PROVE RInv
  OBVIOUS
<1>1. 0 \in Slots
  BY RingAssumption DEF Slots
<1>2. TypeOK
  BY <1>1, RingAssumption DEF Init, TypeOK, Idle
<1>3. Counts
  BY RingAssumption DEF Init, Counts, Idle
<1>4. Available(0, 0) = 0
  BY <1>1, BehindSelf
<1>5. Front = 0 /\ Position = 0 /\ read = 0 /\ write = 0 /\ written = 0 /\ main.left = 0
      /\ worklet.at = "idle"
  BY DEF Init, Idle, Front, Position
<1>a. Behind(read) = 0 /\ Behind(write) = 0 /\ Behind(Position) = 0
  BY <1>4, <1>5 DEF Behind
<1>b. Ordered
  BY <1>5, <1>a, RingAssumption DEF Ordered
<1>c. \A s \in Slots : Behind(s) \in Nat
  BY <1>1, <1>5, AvailableIs DEF Behind
<1>d. Holds
  BY <1>5, <1>a, <1>c DEF Holds
<1>6. HeardUpTo
  BY DEF Init, HeardUpTo
<1> QED
  BY <1>2, <1>3, <1>b, <1>d, <1>6 DEF RInv

LEMMA HeardFacts ==
  ASSUME NEW S, NEW q \in Seq(S), NEW x \in S
  PROVE  /\ Append(q, x) \in Seq(S)
         /\ Len(q) \in Nat /\ Len(Append(q, x)) = Len(q) + 1
         /\ \A i \in 1..Len(q) : Append(q, x)[i] = q[i]
         /\ Append(q, x)[Len(q) + 1] = x
OBVIOUS

LEMMA TypeStep == TypeOK /\ Counts /\ [Next]_vars => TypeOK' /\ Counts'
<1> SUFFICES ASSUME TypeOK, Counts, [Next]_vars PROVE TypeOK' /\ Counts'
  OBVIOUS
<1>a. 0 \in Slots /\ \A s \in Slots : (s + 1) % Capacity \in Slots
  BY NextSlot, RingAssumption DEF Slots
<1>b. main \in MainRecords /\ worklet \in WorkletRecords
  BY DEF TypeOK, MainRecords, WorkletRecords
<1>c. Capacity \in Nat /\ MaxFrames \in Nat /\ MaxResets \in Nat
  BY RingAssumption
<1>1. ASSUME NEW n \in Batches, WriteBegin(n) PROVE TypeOK' /\ Counts'
  <2> DEFINE free == Capacity - Available(write, read) - 1
             todo == IF n < free THEN n ELSE free
  <2>1. /\ todo > 0 /\ written + todo <= MaxFrames
        /\ main' = [at |-> "copy", index |-> write, left |-> todo]
        /\ UNCHANGED <<write, read, gen, slots, worklet, written, resets, floor, heard>>
    BY <1>1 DEF WriteBegin
  <2>2. Available(write, read) \in 0..(Capacity - 1) /\ n \in Nat
    BY AvailableIs, RingAssumption DEF TypeOK
  <2>3. todo \in 0..Capacity
    BY <1>c, <2>1, <2>2
  <2> HIDE DEF todo
  <2>4. main' \in MainRecords /\ main'.left = todo /\ main'.at = "copy"
    BY <2>1, <2>3 DEF MainRecords, TypeOK
  <2>5. TypeOK'
    BY <2>1, <2>4 DEF TypeOK, MainRecords
  <2>6. Counts'
    BY <2>1, <2>4 DEF Counts
  <2> QED
    BY <2>5, <2>6
<1>2. CASE CopyFrame
  <2> DEFINE after == (main.index + 1) % Capacity
  <2>1. /\ main' = [main EXCEPT !.index = after, !.left = @ - 1]
        /\ main.left > 0 /\ main.at = "copy"
        /\ slots' = [slots EXCEPT ![main.index] = written + 1] /\ written' = written + 1
        /\ UNCHANGED <<write, read, gen, worklet, resets, floor, heard>>
    BY <1>2 DEF CopyFrame
  <2>2. after \in Slots
    BY <1>a, <1>b DEF MainRecords
  <2> HIDE DEF after
  <2>3. main'.left = main.left - 1 /\ main'.at = "copy" /\ main.left \in Nat
    BY <1>b, <1>c, <2>1 DEF MainRecords
  <2>4. main' \in MainRecords
    BY <1>b, <2>1, <2>2, MainMoves
  <2>5. written \in Nat /\ written + main.left <= MaxFrames
    BY <1>c DEF TypeOK, Counts
  <2>6. written' \in 0..MaxFrames
    BY <1>c, <2>1, <2>3, <2>5
  <2>7. slots' \in [Slots -> 0..MaxFrames]
    BY <2>1, <2>6 DEF TypeOK
  <2>8. TypeOK'
    BY <2>1, <2>4, <2>6, <2>7 DEF TypeOK, MainRecords
  <2>9. Counts'
    BY <2>1, <2>3, <2>5 DEF Counts
  <2> QED
    BY <2>8, <2>9
<1>3. CASE WriteEnd
  BY <1>3, <1>a DEF WriteEnd, TypeOK, Counts, Idle
<1>4. CASE ResetRead \/ ResetWrite
  BY <1>4, <1>a DEF ResetRead, ResetWrite, TypeOK, Counts
<1>5. CASE ResetGeneration
  BY <1>5, <1>a, <1>c DEF ResetGeneration, TypeOK, Counts, Idle
<1>6. CASE LoadWrite \/ LoadRead
  BY <1>6 DEF LoadWrite, LoadRead, TypeOK, Counts
<1>7. CASE LoadGen
  <2> DEFINE i == IF gen # worklet.gen THEN worklet.write ELSE worklet.index
  <2>1. /\ worklet' = [worklet EXCEPT !.at = "play", !.gen = gen, !.left = Block, !.index = i]
        /\ UNCHANGED <<write, read, gen, slots, main, written, resets, floor, heard>>
    BY <1>7 DEF LoadGen
  <2>2. i \in Slots /\ gen \in 0..(MaxResets + 1)
    BY <1>b, <1>c DEF TypeOK, WorkletRecords
  <2> HIDE DEF i
  <2>3. worklet' \in WorkletRecords
    BY <1>b, <2>1, <2>2, WorkletMoves
  <2> QED
    BY <2>1, <2>3 DEF TypeOK, Counts, WorkletRecords
<1>8. CASE PlayFrame
  <2> DEFINE after == (worklet.index + 1) % Capacity
             heardNext == IF slots[worklet.index] = 0 \/ Len(heard) = MaxHeard
                          THEN heard ELSE Append(heard, slots[worklet.index])
  <2>1. /\ worklet.left > 0
        /\ \/ worklet' = [worklet EXCEPT !.left = @ - 1]
           \/ worklet' = [worklet EXCEPT !.left = @ - 1, !.index = after]
        /\ heard' = heard \/ heard' = heardNext
        /\ UNCHANGED <<write, read, gen, slots, main, written, resets, floor>>
    BY <1>8 DEF PlayFrame
  <2>2. after \in Slots /\ slots[worklet.index] \in 0..MaxFrames
    BY <1>a, <1>b DEF TypeOK, WorkletRecords
  <2>0. heard \in Seq(0..MaxFrames)
    BY DEF TypeOK
  <2>3. heardNext \in Seq(0..MaxFrames)
    BY <2>0, <2>2, HeardFacts
  <2> HIDE DEF after, heardNext
  <2>4. /\ [worklet EXCEPT !.left = @ - 1] \in WorkletRecords
        /\ [worklet EXCEPT !.left = @ - 1, !.index = after] \in WorkletRecords
    BY <1>b, <2>1, <2>2, WorkletMoves
  <2>5. worklet' \in WorkletRecords
    BY <2>1, <2>4
  <2>6. heard' \in Seq(0..MaxFrames)
    BY <2>1, <2>3 DEF TypeOK
  <2> QED
    BY <2>1, <2>5, <2>6 DEF TypeOK, Counts, WorkletRecords
<1>9. CASE StoreRead
  BY <1>9 DEF StoreRead, TypeOK, Counts
<1>10. CASE UNCHANGED vars
  BY <1>10 DEF vars, TypeOK, Counts
<1> QED
  BY <1>1, <1>2, <1>3, <1>4, <1>5, <1>6, <1>7, <1>8, <1>9, <1>10 DEF Next, Main, Process

LEMMA CalmStep ==
  ASSUME RInv, [Next]_vars, TypeOK', Counts', Calm'
  PROVE  Ordered' /\ Holds' /\ HeardUpTo'
<1>a. /\ main \in MainRecords /\ worklet \in WorkletRecords
      /\ write \in Slots /\ read \in Slots /\ written \in 0..MaxFrames /\ heard \in Seq(0..MaxFrames)
      /\ slots \in [Slots -> 0..MaxFrames] /\ gen = resets + 1 /\ resets \in 0..MaxResets
  BY DEF RInv, TypeOK, Counts, MainRecords, WorkletRecords
<1>b. Front \in Slots /\ Position \in Slots /\ worklet.write \in Slots /\ worklet.index \in Slots
  BY <1>a DEF Front, Position, MainRecords, WorkletRecords
<1>c. Capacity \in Nat /\ MaxFrames \in Nat /\ written \in Nat /\ main.left \in Nat
  BY <1>a, RingAssumption DEF MainRecords
<1>d. \A s \in Slots : Behind(s) \in 0..(Capacity - 1)
  BY <1>b, AvailableIs DEF Behind
<1>e. \A s \in Slots : Behind(s) \in Nat /\ Behind(s) < Capacity
  BY <1>c, <1>d
<1>f. Calm => Ordered /\ Holds /\ HeardUpTo
  BY DEF RInv
<1>1. ASSUME NEW n \in Batches, WriteBegin(n) PROVE Ordered' /\ Holds' /\ HeardUpTo'
  <2> DEFINE free == Capacity - Available(write, read) - 1
             todo == IF n < free THEN n ELSE free
  <2>1. /\ main.at = "idle" /\ main' = [at |-> "copy", index |-> write, left |-> todo]
        /\ UNCHANGED <<write, read, gen, slots, worklet, written, resets, floor, heard>>
    BY <1>1 DEF WriteBegin
  <2>2. Calm /\ Front = write /\ Front' = write /\ Position' = Position /\ main'.left = todo
    BY <2>1 DEF Calm, Front, Position
  <2>3. Behind(read) = Available(write, read) /\ n \in Nat
    BY <2>2, RingAssumption DEF Behind
  <2>4. Behind(read) + todo < Capacity
    BY <1>a, <1>c, <1>e, <2>3
  <2> HIDE DEF todo
  <2>5. Ordered'
    BY <1>f, <2>1, <2>2, <2>4 DEF Ordered, Behind
  <2>6. Holds' /\ HeardUpTo'
    BY <1>f, <2>1, <2>2 DEF Holds, HeardUpTo, Behind
  <2> QED
    BY <2>5, <2>6
<1>2. CASE CopyFrame
  <2> DEFINE after == (main.index + 1) % Capacity
  <2>1. /\ main.at = "copy" /\ main.left > 0
        /\ main' = [main EXCEPT !.index = after, !.left = @ - 1]
        /\ slots' = [slots EXCEPT ![main.index] = written + 1] /\ written' = written + 1
        /\ UNCHANGED <<write, read, gen, worklet, resets, floor, heard>>
    BY <1>2 DEF CopyFrame
  <2>a. after \in Slots
    BY <1>a, NextSlot DEF MainRecords
  <2> HIDE DEF after
  <2>2. /\ Calm /\ Front = main.index /\ Front' = after /\ Position' = Position
        /\ main'.left = main.left - 1
    BY <1>a, <2>1 DEF Calm, Front, Position, MainRecords
  <2>3. \A s \in Slots : /\ Behind(s) + 1 < Capacity => Available(after, s) = Behind(s) + 1
                         /\ Available(after, s) >= 1 => Available(after, s) = Behind(s) + 1
    BY <1>b, <2>2, WriterStep DEF Behind, after
  <2>4. Ordered /\ Holds /\ HeardUpTo
    BY <1>f, <2>2
  <2>5. \A s \in Slots : Behind(s) <= Behind(read) => Available(after, s) = Behind(s) + 1
    BY <1>a, <1>c, <1>e, <2>1, <2>3, <2>4 DEF Ordered
  <2>6. Behind(write) <= Behind(read) /\ Behind(Position) <= Behind(read)
        /\ (worklet.at # "idle" => Behind(worklet.write) <= Behind(read))
    BY <1>a, <1>b, <1>e, <2>4 DEF Ordered
  <2>7. /\ Behind(write)' = Behind(write) + 1 /\ Behind(read)' = Behind(read) + 1
        /\ Behind(Position)' = Behind(Position) + 1
        /\ worklet.at # "idle" => Behind(worklet.write)' = Behind(worklet.write) + 1
    BY <1>a, <1>b, <1>e, <2>1, <2>2, <2>5, <2>6, SMTT(30) DEF Behind
  <2>8. Ordered'
    <3>1. /\ Behind(write) \in Nat /\ Behind(read) \in Nat /\ Behind(Position) \in Nat
          /\ Behind(worklet.write) \in Nat
      BY <1>a, <1>b, <1>e
    <3>2. Behind(read)' + main'.left < Capacity
      BY <1>c, <2>2, <2>4, <2>7, <3>1 DEF Ordered
    <3>3. Behind(write)' <= Behind(read)' /\ Behind(Position)' <= Behind(read)'
      BY <2>6, <2>7, <3>1
    <3>4. worklet'.at # "idle" =>
            /\ Behind(write)' <= Behind(worklet.write)'
            /\ Behind(worklet.write)' <= Behind(Position)'
      BY <2>1, <2>4, <2>7, <3>1 DEF Ordered
    <3> QED
      BY <3>2, <3>3, <3>4 DEF Ordered
  <2>9. ASSUME NEW s \in Slots, 1 <= Available(after, s), Available(after, s) <= Behind(read) + 1
        PROVE  slots'[s] = written' - Available(after, s) + 1
    <3>1. Available(after, s) = Behind(s) + 1
      BY <1>a, <1>e, <2>a, <2>3, <2>9, AvailableIs
    <3>2. CASE s = Front
      <4>1. Behind(s) = 0 /\ slots'[s] = written + 1
        BY <1>a, <1>b, <2>1, <2>2, <3>2, BehindSelf DEF Behind
      <4> QED
        BY <1>c, <2>1, <3>1, <4>1
    <3>3. CASE s # Front
      <4>1. Behind(s) # 0 /\ slots'[s] = slots[s]
        BY <1>a, <1>b, <2>1, <2>2, <3>3, BehindSelf DEF Behind
      <4>2. slots[s] = written - Behind(s) + 1
        BY <1>a, <1>e, <2>4, <2>9, <3>1, <4>1 DEF Holds
      <4> QED
        BY <1>c, <1>e, <2>1, <3>1, <4>1, <4>2
    <3> QED
      BY <3>2, <3>3
  <2>10. Holds'
    BY <1>a, <1>c, <1>e, <2>1, <2>2, <2>4, <2>7, <2>9 DEF Holds, Behind
  <2>11. HeardUpTo'
    BY <1>b, <1>c, <1>e, <2>1, <2>4, <2>7 DEF HeardUpTo
  <2> QED
    BY <2>8, <2>10, <2>11
<1>3. CASE WriteEnd
  <2>1. /\ main.at = "copy" /\ main.left = 0 /\ write' = main.index /\ main' = Idle
        /\ UNCHANGED <<read, gen, slots, worklet, written, resets, floor, heard>>
    BY <1>3 DEF WriteEnd
  <2>2. /\ Calm /\ Front' = Front /\ Front = write' /\ Position' = Position /\ main'.left = 0
    BY <2>1 DEF Calm, Front, Position, Idle
  <2>3. Available(Front, Front) = 0
    BY <1>b, BehindSelf
  <2>4. \A s \in Slots : Available(Front, s) \in Nat
    BY <1>e DEF Behind
  <2>5. Ordered'
    BY <1>a, <1>b, <1>e, <1>f, <2>1, <2>2, <2>3, <2>4 DEF Ordered, Behind
  <2>6. Holds' /\ HeardUpTo'
    BY <1>f, <2>1, <2>2 DEF Holds, HeardUpTo, Behind
  <2> QED
    BY <2>5, <2>6
<1>4. CASE ResetRead \/ ResetWrite \/ ResetGeneration
  BY <1>4, <1>a DEF ResetRead, ResetWrite, ResetGeneration, Calm, MainRecords
<1>5. CASE LoadWrite
  <2>1. /\ worklet.at = "idle" /\ worklet'.at = "loadRead" /\ worklet'.write = write
        /\ worklet'.gen = worklet.gen
        /\ UNCHANGED <<write, read, gen, slots, main, written, resets, floor, heard>>
    BY <1>5, <1>a DEF LoadWrite, WorkletRecords
  <2>2. Calm /\ Front' = Front /\ Position' = read /\ Position = read
    BY <2>1 DEF Calm, Front, Position
  <2>3. Ordered'
    BY <1>a, <1>e, <1>f, <2>1, <2>2 DEF Ordered, Behind
  <2>4. Holds' /\ HeardUpTo'
    BY <1>f, <2>1, <2>2 DEF Holds, HeardUpTo, Behind
  <2> QED
    BY <2>3, <2>4
<1>6. CASE LoadRead
  <2>1. /\ worklet.at = "loadRead" /\ worklet'.at = "loadGen" /\ worklet'.index = read
        /\ worklet'.gen = worklet.gen /\ worklet'.write = worklet.write
        /\ UNCHANGED <<write, read, gen, slots, main, written, resets, floor, heard>>
    BY <1>6, <1>a DEF LoadRead, WorkletRecords
  <2>2. Calm /\ Front' = Front /\ Position' = read /\ Position = read
    BY <2>1 DEF Calm, Front, Position
  <2>3. Ordered'
    BY <1>a, <1>e, <1>f, <2>1, <2>2 DEF Ordered, Behind
  <2>4. Holds' /\ HeardUpTo'
    BY <1>f, <2>1, <2>2 DEF Holds, HeardUpTo, Behind
  <2> QED
    BY <2>3, <2>4
<1>7. CASE LoadGen
  <2>1. /\ worklet.at = "loadGen" /\ worklet'.at = "play" /\ worklet'.gen = gen
        /\ worklet'.write = worklet.write
        /\ worklet'.index = IF gen # worklet.gen THEN worklet.write ELSE worklet.index
        /\ UNCHANGED <<write, read, gen, slots, main, written, resets, floor, heard>>
    BY <1>7, <1>a DEF LoadGen, WorkletRecords
  <2>2. /\ Calm /\ Front' = Front /\ Position = worklet.index
        /\ Position' = IF gen # worklet.gen THEN worklet.write ELSE Position
    BY <2>1 DEF Calm, Front, Position
  <2>3. Ordered'
    BY <1>a, <1>b, <1>e, <1>f, <2>1, <2>2 DEF Ordered, Behind
  <2>4. Holds' /\ HeardUpTo'
    BY <1>f, <2>1, <2>2 DEF Holds, HeardUpTo, Behind
  <2> QED
    BY <2>3, <2>4
<1>8. CASE StoreRead
  <2>1. /\ worklet.at = "play" /\ worklet'.at = "idle" /\ worklet'.gen = worklet.gen
        /\ read' = worklet.index
        /\ UNCHANGED <<write, gen, slots, main, written, resets, floor, heard>>
    BY <1>8, <1>a DEF StoreRead, WorkletRecords
  <2>2. Calm /\ Front' = Front /\ Position' = Position /\ Position = read'
    BY <2>1 DEF Calm, Front, Position
  <2>3. Ordered'
    <3>1. /\ Behind(write) \in Nat /\ Behind(read) \in Nat /\ Behind(Position) \in Nat
          /\ Behind(worklet.write) \in Nat
      BY <1>a, <1>b, <1>e
    <3>2. /\ Behind(write)' = Behind(write) /\ Behind(read)' = Behind(Position)
          /\ Behind(Position)' = Behind(Position) /\ main' = main
      BY <2>1, <2>2 DEF Behind
    <3>3. /\ Behind(write) <= Behind(Position) /\ Behind(Position) <= Behind(read)
          /\ Behind(read) + main.left < Capacity
      BY <1>f, <2>1, <2>2, <3>1 DEF Ordered
    <3>4. Behind(Position) + main.left < Capacity
      BY <1>c, <3>1, <3>3
    <3> QED
      BY <2>1, <3>1, <3>2, <3>3, <3>4 DEF Ordered
  <2>4. Holds'
    BY <1>a, <1>b, <1>c, <1>e, <1>f, <2>1, <2>2, SMTT(30) DEF Ordered, Holds, Behind
  <2>5. HeardUpTo'
    BY <1>f, <2>1, <2>2 DEF HeardUpTo, Behind
  <2> QED
    BY <2>3, <2>4, <2>5
<1>9. CASE UNCHANGED vars
  BY <1>9, <1>f DEF vars, Calm, Ordered, Holds, HeardUpTo, Behind, Front, Position
<1>10. CASE PlayFrame
  <2>1. /\ worklet.at = "play" /\ worklet'.at = "play" /\ worklet'.gen = worklet.gen
        /\ worklet'.write = worklet.write
        /\ UNCHANGED <<write, read, gen, slots, main, written, resets, floor>>
    BY <1>10, <1>a DEF PlayFrame, WorkletRecords
  <2>2. /\ Calm /\ Front' = Front /\ Position = worklet.index /\ Position' = worklet'.index
    BY <2>1 DEF Calm, Front, Position
  <2>a. Ordered /\ Holds /\ HeardUpTo
    BY <1>f, <2>2
  <2>b. Holds'
    BY <2>a, <2>1, <2>2 DEF Holds, Behind
  <2>3. CASE worklet.index = worklet.write
    <3>1. worklet'.index = worklet.index /\ heard' = heard
      BY <1>10, <1>a, <2>3 DEF PlayFrame, WorkletRecords
    <3>2. Ordered' /\ HeardUpTo'
      BY <2>1, <2>2, <2>a, <3>1 DEF Ordered, HeardUpTo, Behind
    <3> QED
      BY <2>b, <3>2
  <2>4. CASE worklet.index # worklet.write
    <3> DEFINE i == worklet.index
               after == (i + 1) % Capacity
               x == slots[i]
    <3>1. worklet'.index = after
          /\ heard' = IF x = 0 \/ Len(heard) = MaxHeard THEN heard ELSE Append(heard, x)
      BY <1>10, <1>a, <2>4 DEF PlayFrame, WorkletRecords
    <3>2. Behind(worklet.write) < Behind(i)
      <4>1. Behind(worklet.write) <= Behind(i)
        BY <2>1, <2>2, <2>a DEF Ordered
      <4>2. Behind(worklet.write) # Behind(i)
        BY <1>b, <2>4, BehindOnce DEF Behind
      <4> QED
        BY <1>b, <1>e, <4>1, <4>2
    <3>3. Front # i
      <4>1. Available(Front, i) # 0
        BY <1>b, <1>e, <3>2 DEF Behind
      <4> QED
        BY <1>b, <4>1, BehindSelf
    <3>4. Available(Front, after) = Behind(i) - 1 /\ after \in Slots
      BY <1>b, <3>3, ReaderStep, NextSlot DEF Behind
    <3>5. Behind(i) <= Behind(read) /\ Behind(read) <= written
      BY <2>2, <2>a DEF Ordered, Holds
    <3>6. x = written - Behind(i) + 1 /\ x \in 0..MaxFrames
      BY <1>a, <1>b, <1>e, <3>2, <3>5, <2>a, SMTT(30) DEF Holds
    <3> HIDE DEF i, after, x
    <3>7. /\ Behind(i) \in Nat /\ Behind(write) \in Nat /\ Behind(worklet.write) \in Nat
          /\ Behind(read) \in Nat
      BY <1>a, <1>b, <1>e DEF i
    <3>8. x # 0 /\ Len(heard) \in Nat
      BY <1>a, <1>c, <3>5, <3>6, <3>7
    <3>9. Len(heard) # MaxHeard
      <4>1. CASE heard = <<>>
        BY <1>c, <4>1 DEF MaxHeard
      <4>2. CASE heard # <<>>
        <5>1. Len(heard) <= written - Behind(i)
          BY <2>2, <2>a, <4>2 DEF HeardUpTo, i
        <5>2. written <= MaxFrames
          BY <1>a, <1>c
        <5> QED
          BY <1>c, <3>7, <3>8, <5>1, <5>2 DEF MaxHeard
      <4> QED
        BY <4>1, <4>2
    <3>10. heard' = Append(heard, x)
      BY <3>1, <3>8, <3>9
    <3>11. Behind(Position)' = Behind(i) - 1 /\ Behind(write)' = Behind(write)
           /\ Behind(worklet.write)' = Behind(worklet.write) /\ Behind(read)' = Behind(read)
      BY <2>1, <2>2, <3>1, <3>4 DEF Behind
    <3>12. Ordered'
      BY <1>c, <2>1, <2>2, <2>a, <3>2, <3>5, <3>7, <3>11 DEF Ordered
    <3>13. /\ Len(heard') = Len(heard) + 1 /\ heard'[Len(heard) + 1] = x
           /\ \A j \in 1..Len(heard) : heard'[j] = heard[j]
      BY <1>a, <3>6, <3>10, HeardFacts
    <3>14. heard # <<>> => heard[Len(heard)] = x - 1 /\ Len(heard) <= x - 1 /\ Len(heard) # 0
      BY <1>a, <1>c, <2>2, <2>a, <3>6, <3>7, SMTT(30) DEF HeardUpTo, i
    <3>15. heard = <<>> => Len(heard) = 0
      OBVIOUS
    <3>16. ASSUME NEW j \in 1..Len(heard) PROVE heard'[j + 1] = heard'[j] + 1
      <4>1. CASE j = Len(heard)
        BY <3>6, <3>8, <3>13, <3>14, <3>15, <3>16, <4>1
      <4>2. CASE j # Len(heard)
        <5>1. j \in 1..(Len(heard) - 1) /\ j + 1 \in 1..Len(heard)
          BY <3>8, <3>16, <4>2
        <5> QED
          BY <2>a, <3>13, <5>1 DEF HeardUpTo
      <4> QED
        BY <4>1, <4>2
    <3>17. Len(heard') <= heard'[Len(heard')] /\ heard'[Len(heard')] = written' - Behind(Position)'
      BY <1>c, <2>1, <3>6, <3>7, <3>8, <3>11, <3>13, <3>14, <3>15
    <3>18. \A j \in 1..(Len(heard') - 1) : heard'[j + 1] = heard'[j] + 1
      BY <3>8, <3>13, <3>16
    <3>19. HeardUpTo'
      BY <2>1, <2>a, <3>17, <3>18 DEF HeardUpTo
    <3> QED
      BY <2>b, <3>12, <3>19
  <2> QED
    BY <2>3, <2>4
<1> QED
  BY <1>1, <1>2, <1>3, <1>4, <1>5, <1>6, <1>7, <1>8, <1>9, <1>10 DEF Next, Main, Process

\* What the run checks follows from the invariant.
LEMMA IntactInv == RInv => RingSafe
<1> SUFFICES ASSUME RInv PROVE RingSafe
  OBVIOUS
<1>1. TypeOK /\ write \in Slots /\ read \in Slots /\ Front \in Slots /\ written \in Nat
  BY RingAssumption DEF RInv, TypeOK, Front
<1>2. HeardInOrder
  <2>1. resets = 0 /\ main.at # "reset1" /\ main.at # "reset2" => Calm
    BY <1>1 DEF Calm, TypeOK
  <2> QED
    BY <2>1 DEF RInv, HeardInOrder, HeardUpTo
<1>3. UnplayedIntact
  <2> SUFFICES ASSUME Calm, NEW i \in 1..Available(write, read)
               PROVE  slots[(write - i + Capacity) % Capacity] =
                        (IF main.at = "copy" THEN written - Available(main.index, write) ELSE written)
                          - i + 1
    BY DEF UnplayedIntact, Calm
  <2> DEFINE s == (write - i + Capacity) % Capacity
  <2>1. Ordered /\ Holds
    BY DEF RInv
  <2>2. /\ Behind(write) \in Nat /\ Behind(read) \in Nat /\ Available(write, read) \in Nat
        /\ Behind(read) < Capacity
    BY <1>1, AvailableIs, RingAssumption DEF Behind
  <2>3. Behind(read) = Behind(write) + Available(write, read)
    BY <1>1, <2>1, BehindAdds DEF Ordered, Behind
  <2>4. i \in Nat /\ i >= 1 /\ Behind(write) + i <= Behind(read) /\ Behind(write) + i < Capacity
    BY <2>2, <2>3, RingAssumption
  <2>5. s \in Slots /\ Behind(s) = Behind(write) + i
    BY <1>1, <2>4, SlotBehind DEF Behind
  <2> HIDE DEF s
  <2>6. slots[s] = written - (Behind(write) + i) + 1
    BY <2>1, <2>2, <2>4, <2>5 DEF Holds
  <2>7. (IF main.at = "copy" THEN written - Available(main.index, write) ELSE written)
          = written - Behind(write)
    <3>1. CASE main.at = "copy"
      BY <3>1 DEF Behind, Front
    <3>2. CASE main.at # "copy"
      <4>1. Behind(write) = 0
        BY <1>1, <3>2, BehindSelf DEF Behind, Front
      <4> QED
        BY <1>1, <3>2, <4>1
    <3> QED
      BY <3>1, <3>2
  <2>8. slots[s] = (written - Behind(write)) - i + 1
    BY <1>1, <2>2, <2>4, <2>6
  <2> QED
    BY <2>7, <2>8 DEF s
<1> QED
  BY <1>1, <1>2, <1>3 DEF RingSafe, FramesIntact

\* Until a reset, however the two threads interleave and the indices wrap, and
\* for any capacity, block and batches, frames are heard in the order they were
\* written, each once, and none is overwritten before it was heard.
THEOREM RingCorrect == Spec => []RingSafe
<1>1. RInv /\ [Next]_vars => RInv'
  BY TypeStep, CalmStep DEF RInv
<1> QED
  BY <1>1, RingInit, IntactInv, PTL DEF Spec

-----------------------------------------------------------------------------
(* The MSE backend *)

EventNames == {"updateend", "abort", "error"}

MseRecords ==
  [phase : {"new", "opening", "ready", "stopped", "failed"},
   url : BOOLEAN, timer : BOOLEAN, cleanup : BOOLEAN,
   queue : Seq(Mse!Segments), retries : 0..MaxQuotaRetries,
   display : {"on", "kept", "cut"}, seeks : 0..MaxSeeks, sought : 0..MaxSeeks]
BufferRecords == [op : {"none", "append", "remove"}, events : Seq(EventNames), held : Nat]

-----------------------------------------------------------------------------
(* The inductive invariant, of the fields m and the buffer s               *)

\* The last event that is queued is an updateend, and while a clean-up is on,
\* one is still to come.  Before the source is open there is nothing.
Steady(m, s) ==
  /\ m \in MseRecords /\ s \in BufferRecords
  /\ Len(m.queue) <= MaxAppendQueue /\ m.seeks <= m.sought
  /\ s.events # <<>> => s.events[Len(s.events)] = "updateend"
  /\ m.cleanup => s.op # "none" \/ s.events # <<>>
  /\ m.phase \in {"new", "opening"} => m.queue = <<>> /\ s.op = "none" /\ s.events = <<>>
  /\ m.phase \in {"stopped", "failed"} => ~m.url /\ ~m.timer /\ m.queue = <<>>
  /\ m.phase = "ready" /\ m.seeks = 0 => m.timer

Moves(m, s) == m.queue # <<>> => s.op # "none" \/ s.events # <<>>

\* The segments of the queue and those that were appended, before segment n.
Rising(m, st, n) ==
  /\ st.ordered
  /\ \A k \in st.segments : k < n
  /\ \A i \in 1..Len(m.queue) : m.queue[i] < n
  /\ \A i, j \in 1..Len(m.queue) : i < j => m.queue[i] < m.queue[j]

\* The head of the queue is in the buffer, and its updateend is still to come.
InFlight(m, s) == s.op = "append" \/ (s.op = "none" /\ s.events # <<>> /\ ~m.cleanup)

HeadSent(m, st) ==
  /\ m.queue # <<>> /\ m.queue[1] \in st.segments
  /\ \A k \in st.segments : k <= m.queue[1]
Unsent(m, st) == \A k \in st.segments, i \in 1..Len(m.queue) : k < m.queue[i]

\* Without a crossing call there is one operation or its events, never both.
Alone(m, s) ==
  /\ s.op = "append" => s.events = <<>> /\ ~m.cleanup
  /\ s.op = "remove" => s.events = <<>> /\ m.cleanup
  /\ s.op = "none" => \/ s.events = <<>> /\ ~m.cleanup
                      \/ s.events = <<"updateend">>
                      \/ s.events = <<"error", "updateend">> /\ ~m.cleanup

Uncrossed(m, s, st, n) ==
  /\ Rising(m, st, n) /\ Alone(m, s)
  /\ InFlight(m, s) => HeadSent(m, st)
  /\ ~InFlight(m, s) => Unsent(m, st)

Ghosts ==
  /\ next \in 1..(MaxSegments + 1)
  /\ sent \in [segments : SUBSET Mse!Segments, ordered : BOOLEAN]
  /\ lost \subseteq Mse!Segments /\ crossed \in BOOLEAN

MInv ==
  /\ Ghosts /\ Steady(mse, sb) /\ Moves(mse, sb)
  /\ ~crossed => lost = {} /\ Uncrossed(mse, sb, sent, next)

-----------------------------------------------------------------------------
(* Sequences *)

LEMMA AppendFacts ==
  ASSUME NEW S, NEW q \in Seq(S), NEW x \in S
  PROVE  /\ Append(q, x) \in Seq(S) /\ Append(q, x) # <<>>
         /\ Len(q) \in Nat /\ Len(Append(q, x)) = Len(q) + 1
         /\ \A i \in 1..Len(q) : Append(q, x)[i] = q[i]
         /\ Append(q, x)[Len(q) + 1] = x
OBVIOUS

LEMMA TailFacts ==
  ASSUME NEW S, NEW q \in Seq(S), q # <<>>
  PROVE  /\ Tail(q) \in Seq(S) /\ Len(q) \in Nat /\ Len(q) >= 1
         /\ Len(Tail(q)) = Len(q) - 1
         /\ \A i \in 1..(Len(q) - 1) : Tail(q)[i] = q[i + 1]
         /\ Head(q) = q[1] /\ q[1] \in S
OBVIOUS

LEMMA LastKept ==
  ASSUME NEW S, NEW q \in Seq(S), q # <<>>, q[1] # q[Len(q)]
  PROVE  Tail(q) # <<>> /\ Tail(q)[Len(Tail(q))] = q[Len(q)]
<1>1. Len(q) \in Nat /\ Len(q) >= 1 /\ Len(q) # 1
  BY TailFacts
<1>2. Len(q) - 1 \in Nat /\ Len(q) - 1 >= 1 /\ (Len(q) - 1) + 1 = Len(q)
  BY <1>1
<1>3. Len(q) - 1 \in 1..(Len(q) - 1)
  BY <1>2
<1>4. Len(Tail(q)) = Len(q) - 1 /\ Tail(q)[Len(q) - 1] = q[(Len(q) - 1) + 1]
  BY <1>3, TailFacts
<1>5. Tail(q) # <<>>
  <2>1. Len(<<>>) = 0 /\ Len(Tail(q)) >= 1
    BY <1>2, <1>4
  <2>2. Len(Tail(q)) # 0
    BY <1>2, <1>4
  <2> QED
    BY <2>1, <2>2
<1> QED
  BY <1>2, <1>4, <1>5

LEMMA PairFacts ==
  ASSUME NEW S, NEW q \in Seq(S), NEW x \in S, NEW y \in S
  PROVE  /\ q \o <<x, y>> \in Seq(S) /\ q \o <<x, y>> # <<>>
         /\ (q \o <<x, y>>)[Len(q \o <<x, y>>)] = y
OBVIOUS

LEMMA QueueIsBounded ==
  ASSUME NEW S, NEW n \in Nat, NEW q \in Seq(S), Len(q) <= n
  PROVE  q \in Mse!SeqOf(S, n)
<1>1. Len(q) \in 0..n /\ q \in [1..Len(q) -> S]
  OBVIOUS
<1> QED
  BY <1>1 DEF Mse!SeqOf

LEMMA TypeFrom == Mse!MseAssumption /\ MInv => Mse!TypeOK
<1> SUFFICES ASSUME Mse!MseAssumption, MInv PROVE Mse!TypeOK
  OBVIOUS
<1>1. mse.queue \in Mse!SeqOf(Mse!Segments, MaxAppendQueue)
  BY QueueIsBounded DEF MInv, Steady, MseRecords, Mse!MseAssumption
<1>2. mse \in [phase : {"new", "opening", "ready", "stopped", "failed"},
              url : BOOLEAN, timer : BOOLEAN, cleanup : BOOLEAN,
              queue : Mse!SeqOf(Mse!Segments, MaxAppendQueue), retries : 0..MaxQuotaRetries,
              display : {"on", "kept", "cut"}, seeks : 0..MaxSeeks, sought : 0..MaxSeeks]
  BY <1>1 DEF MInv, Steady, MseRecords
<1>3. /\ sb.op \in {"none", "append", "remove"} /\ sb.held \in Nat
      /\ \A k \in 1..Len(sb.events) : sb.events[k] \in {"updateend", "abort", "error"}
  BY DEF MInv, Steady, BufferRecords, EventNames
<1> QED
  BY <1>2, <1>3 DEF Mse!TypeOK, MInv, Ghosts

-----------------------------------------------------------------------------
(* processQueue() and stop() *)

LEMMA QuietFacts ==
  /\ Mse!QuietBuffer \in BufferRecords
  /\ Mse!QuietBuffer.op = "none" /\ Mse!QuietBuffer.events = <<>>
BY DEF Mse!QuietBuffer, BufferRecords

LEMMA ClosedFacts ==
  ASSUME Mse!MseAssumption, NEW m \in MseRecords
  PROVE  /\ Mse!Closed(m) \in MseRecords
         /\ Mse!Closed(m).phase = "stopped" /\ ~Mse!Closed(m).url /\ ~Mse!Closed(m).timer
              /\ ~Mse!Closed(m).cleanup
         /\ Mse!Closed(m).queue = <<>> /\ Mse!Closed(m).seeks = m.seeks
              /\ Mse!Closed(m).sought = m.sought
<1>1. 0 \in 0..MaxQuotaRetries /\ <<>> \in Seq(Mse!Segments)
  BY DEF Mse!MseAssumption
<1> QED
  BY <1>1 DEF Mse!Closed, MseRecords

LEMMA ShutdownKeeps ==
  ASSUME Mse!MseAssumption, NEW m \in MseRecords, m.seeks <= m.sought, Mse!Shutdown(m), NEW n
  PROVE  /\ Steady(mse', sb') /\ Moves(mse', sb') /\ sent' = sent
         /\ sent.ordered /\ (\A k \in sent.segments : k < n) => Uncrossed(mse', sb', sent', n)
<1>1. mse' = Mse!Closed(m) /\ sb' = Mse!QuietBuffer /\ sent' = sent
  BY DEF Mse!Shutdown
<1>2. Len(mse'.queue) = 0 /\ 0 <= MaxAppendQueue
  BY <1>1, ClosedFacts DEF Mse!MseAssumption
<1>3. Steady(mse', sb') /\ Moves(mse', sb')
  BY <1>1, <1>2, ClosedFacts, QuietFacts DEF Steady, Moves
<1>4. ASSUME sent.ordered, \A k \in sent.segments : k < n PROVE Uncrossed(mse', sb', sent', n)
  BY <1>1, <1>2, <1>4, ClosedFacts, QuietFacts DEF Uncrossed, Rising, Alone, InFlight, Unsent
<1> QED
  BY <1>1, <1>3, <1>4

LEMMA ProcessSteady ==
  ASSUME Mse!MseAssumption, NEW m, NEW s, Steady(m, s), Ghosts, Mse!ProcessQueue(m, s)
  PROVE  /\ Steady(mse', sb') /\ Moves(mse', sb')
         /\ sent' \in [segments : SUBSET Mse!Segments, ordered : BOOLEAN]
<1>1. CASE mse' = m /\ sb' = s /\ UNCHANGED sent /\ (s.op # "none" \/ m.cleanup \/ m.queue = <<>>)
  BY <1>1 DEF Steady, Moves, Ghosts
<1>2. CASE Mse!PerformAppend(m, s) /\ m.queue # <<>>
  <2>1. ASSUME mse' = m, sb' = [s EXCEPT !.op = "append"], sent' = Mse!Sent(Head(m.queue))
        PROVE  /\ Steady(mse', sb') /\ Moves(mse', sb')
               /\ sent' \in [segments : SUBSET Mse!Segments, ordered : BOOLEAN]
    <3>1. sb' \in BufferRecords /\ sb'.op = "append" /\ sb'.events = s.events
      BY <2>1 DEF Steady, BufferRecords
    <3>2. Head(m.queue) \in Mse!Segments
      BY <1>2, TailFacts DEF Steady, MseRecords
    <3>3. sent' \in [segments : SUBSET Mse!Segments, ordered : BOOLEAN]
      BY <2>1, <3>2 DEF Mse!Sent, Ghosts
    <3> QED
      BY <1>2, <2>1, <3>1, <3>3 DEF Steady, Moves
  <2>2. ASSUME m.retries < MaxQuotaRetries, Mse!StartCleanup([m EXCEPT !.retries = @ + 1], s)
        PROVE  /\ Steady(mse', sb') /\ Moves(mse', sb')
               /\ sent' \in [segments : SUBSET Mse!Segments, ordered : BOOLEAN]
    <3>1. sb' \in BufferRecords /\ sb'.op = "remove" /\ sb'.events = s.events /\ sent' = sent
      BY <2>2 DEF Steady, BufferRecords, Mse!StartCleanup
    <3>2. m.retries + 1 \in 0..MaxQuotaRetries
      BY <2>2 DEF Steady, MseRecords, Mse!MseAssumption
    <3>3. /\ mse' \in MseRecords /\ mse'.queue = m.queue /\ mse'.seeks = m.seeks
          /\ mse'.sought = m.sought /\ mse'.phase = m.phase /\ mse'.timer = m.timer
               /\ mse'.url = m.url
      BY <2>2, <3>2 DEF Steady, MseRecords, Mse!StartCleanup
    <3> QED
      BY <1>2, <3>1, <3>3 DEF Steady, Moves, Ghosts
  <2>3. CASE Mse!Shutdown(m)
    BY <2>3, ShutdownKeeps DEF Steady, Ghosts
  <2> QED
    BY <1>2, <2>1, <2>2, <2>3 DEF Mse!PerformAppend
<1> QED
  BY <1>1, <1>2 DEF Mse!ProcessQueue

\* With nothing going on, the head is sent, or room is made for it first.
LEMMA ProcessFresh ==
  ASSUME Mse!MseAssumption, NEW m, NEW s, NEW n, Steady(m, s), Mse!ProcessQueue(m, s),
         sent.segments \subseteq Nat,
         s.op = "none", s.events = <<>>, ~m.cleanup, Rising(m, sent, n), Unsent(m, sent)
  PROVE  Uncrossed(mse', sb', sent', n)
<1>1. CASE m.queue = <<>>
  BY <1>1 DEF Mse!ProcessQueue, Uncrossed, Alone, InFlight
<1>2. CASE m.queue # <<>>
  <2>1. /\ Head(m.queue) = m.queue[1] /\ m.queue[1] \in Nat /\ 1 \in 1..Len(m.queue)
        /\ \A i \in 1..Len(m.queue) : m.queue[i] \in Nat
    <3>1. m.queue \in Seq(Mse!Segments)
      BY DEF Steady, MseRecords
    <3>2. /\ Head(m.queue) = m.queue[1] /\ 1 \in 1..Len(m.queue)
          /\ \A i \in 1..Len(m.queue) : m.queue[i] \in Mse!Segments
      BY <1>2, <3>1, TailFacts
    <3> QED
      BY <3>2 DEF Mse!Segments
  <2>2. Mse!PerformAppend(m, s)
    BY <1>2 DEF Mse!ProcessQueue
  <2>3. ASSUME mse' = m, sb' = [s EXCEPT !.op = "append"], sent' = Mse!Sent(Head(m.queue))
        PROVE  Uncrossed(mse', sb', sent', n)
    <3>1. sb'.op = "append" /\ sb'.events = <<>>
      BY <2>3 DEF Steady, BufferRecords
    <3>2. /\ sent'.segments = sent.segments \cup {m.queue[1]}
          /\ sent'.ordered = (sent.ordered /\ \A k \in sent.segments : k < m.queue[1])
      BY <2>1, <2>3 DEF Mse!Sent
    <3>3. \A k \in sent.segments : k < m.queue[1]
      BY <2>1 DEF Unsent
    <3>4. Rising(mse', sent', n)
      BY <2>1, <2>3, <3>2, <3>3 DEF Rising
    <3>5. HeadSent(mse', sent')
      BY <1>2, <2>1, <2>3, <3>2, <3>3 DEF HeadSent
    <3> QED
      BY <2>3, <3>1, <3>4, <3>5 DEF Uncrossed, Alone, InFlight
  <2>4. ASSUME Mse!StartCleanup([m EXCEPT !.retries = @ + 1], s)
        PROVE Uncrossed(mse', sb', sent', n)
    <3>1. sb'.op = "remove" /\ sb'.events = <<>> /\ sent' = sent
      BY <2>4 DEF Steady, BufferRecords, Mse!StartCleanup
    <3>2. mse'.queue = m.queue /\ mse'.cleanup
      BY <2>4 DEF Steady, MseRecords, Mse!StartCleanup
    <3> QED
      BY <3>1, <3>2 DEF Uncrossed, Rising, Unsent, Alone, InFlight
  <2>5. CASE Mse!Shutdown(m)
    BY <2>5, ShutdownKeeps DEF Steady, Rising
  <2> QED
    BY <2>2, <2>3, <2>4, <2>5 DEF Mse!PerformAppend
<1> QED
  BY <1>1, <1>2

LEMMA MseInit == Mse!MseAssumption /\ Mse!Init => MInv
<1> SUFFICES ASSUME Mse!MseAssumption, Mse!Init PROVE MInv
  OBVIOUS
<1>1. <<>> \in Seq(Mse!Segments) /\ Len(<<>>) = 0
  OBVIOUS
<1>2. Steady(mse, sb)
  BY <1>1, QuietFacts DEF Mse!Init, Steady, MseRecords, Mse!MseAssumption
<1>3. Ghosts
  <2>1. 1 \in 1..(MaxSegments + 1)
    BY DEF Mse!MseAssumption
  <2>2. [segments |-> {}, ordered |-> TRUE] \in [segments : SUBSET Mse!Segments, ordered : BOOLEAN]
    OBVIOUS
  <2> QED
    BY <2>1, <2>2 DEF Mse!Init, Ghosts
<1>4. Moves(mse, sb) /\ Uncrossed(mse, sb, sent, next)
  BY <1>1, QuietFacts DEF Mse!Init, Moves, Uncrossed, Rising, Alone, InFlight, Unsent
<1> QED
  BY <1>2, <1>3, <1>4 DEF MInv, Mse!Init

\* A step that leaves the buffer and the queue alone.
LEMMA FieldsStep ==
  ASSUME Mse!MseAssumption, MInv, Steady(mse', sb), mse'.queue = mse.queue,
         mse'.cleanup = mse.cleanup,
         UNCHANGED <<sb, next, sent, lost>>, crossed' \in BOOLEAN, crossed => crossed'
  PROVE  MInv'
<1>1. Ghosts' /\ Steady(mse', sb') /\ Moves(mse', sb')
  BY DEF MInv, Ghosts, Moves
<1>2. ASSUME ~crossed' PROVE lost' = {} /\ Uncrossed(mse', sb', sent', next')
  BY <1>2 DEF MInv, Uncrossed, Rising, Alone, InFlight, HeadSent, Unsent
<1> QED
  BY <1>1, <1>2 DEF MInv

\* A step that leaves everything but the buffer alone.
LEMMA BufferStep ==
  ASSUME Mse!MseAssumption, MInv, Mse!Updating, sb' \in BufferRecords, sb'.events # <<>>,
         sb'.events[Len(sb'.events)] = "updateend",
         UNCHANGED <<mse, next, sent, lost, crossed>>,
         ~crossed => Alone(mse, sb') /\ (InFlight(mse, sb') <=> InFlight(mse, sb))
  PROVE  MInv'
<1>1. Ghosts' /\ Steady(mse', sb') /\ Moves(mse', sb')
  BY DEF MInv, Ghosts, Moves, Steady, Mse!Updating
<1>2. ASSUME ~crossed' PROVE lost' = {} /\ Uncrossed(mse', sb', sent', next')
  BY <1>2 DEF MInv, Uncrossed, Rising
<1> QED
  BY <1>1, <1>2 DEF MInv

LEMMA PushStep == Mse!MseAssumption /\ MInv /\ Mse!PushSegment => MInv'
<1> SUFFICES ASSUME Mse!MseAssumption, MInv, Mse!PushSegment PROVE MInv'
  OBVIOUS
<1> DEFINE m == [mse EXCEPT !.queue = Append(@, next)]
<1>1. /\ Mse!Ready /\ next <= MaxSegments /\ next' = next + 1 /\ lost' = lost
      /\ \/ UNCHANGED <<mse, sb, sent, crossed>>
         \/ /\ Len(mse.queue) < MaxAppendQueue
            /\ Mse!ProcessQueue(m, sb)
            /\ crossed' = (crossed \/ (Mse!Gap /\ ~mse.cleanup))
  <2>1. Len(mse.queue) \in Nat
    BY DEF MInv, Steady, MseRecords
  <2> QED
    BY <2>1 DEF Mse!PushSegment, Mse!MseAssumption
<1>2. next \in Nat /\ next \in Mse!Segments /\ next + 1 \in 1..(MaxSegments + 1)
  BY <1>1 DEF MInv, Ghosts, Mse!Segments, Mse!MseAssumption
<1>3. /\ mse.queue \in Seq(Mse!Segments) /\ sent.segments \subseteq Mse!Segments
      /\ Mse!Segments \subseteq Nat
  BY DEF MInv, Steady, MseRecords, Ghosts, Mse!Segments
<1>a. \A i \in 1..Len(mse.queue) : mse.queue[i] \in Nat
  <2>1. \A i \in 1..Len(mse.queue) : mse.queue[i] \in Mse!Segments
    BY <1>3
  <2> QED
    BY <1>3, <2>1
<1>b. \A k \in sent.segments : k \in Nat
  BY <1>3
<1>4. CASE UNCHANGED <<mse, sb, sent, crossed>>
  <2>1. Ghosts' /\ Steady(mse', sb') /\ Moves(mse', sb')
    BY <1>1, <1>2, <1>4 DEF MInv, Ghosts
  <2>2. ASSUME ~crossed' PROVE lost' = {} /\ Uncrossed(mse', sb', sent', next')
    <3>1. Uncrossed(mse, sb, sent, next) /\ lost = {}
      BY <1>4, <2>2 DEF MInv
    <3>2. Rising(mse, sent, next + 1)
      <4>1. ASSUME NEW k \in sent.segments PROVE k < next + 1
        <5>1. k < next /\ k \in Nat
          BY <1>b, <3>1 DEF Uncrossed, Rising
        <5> QED
          BY <1>2, <5>1
      <4>2. ASSUME NEW i \in 1..Len(mse.queue) PROVE mse.queue[i] < next + 1
        <5>1. mse.queue[i] < next /\ mse.queue[i] \in Nat
          BY <1>a, <3>1 DEF Uncrossed, Rising
        <5> QED
          BY <1>2, <5>1
      <4> QED
        BY <3>1, <4>1, <4>2 DEF Uncrossed, Rising
    <3> QED
      BY <1>1, <1>4, <3>1, <3>2 DEF Uncrossed
  <2> QED
    BY <2>1, <2>2 DEF MInv
<1>5. CASE Len(mse.queue) < MaxAppendQueue /\ Mse!ProcessQueue(m, sb)
             /\ crossed' = (crossed \/ (Mse!Gap /\ ~mse.cleanup))
  <2>1. /\ Append(mse.queue, next) \in Seq(Mse!Segments) /\ Len(mse.queue) \in Nat
        /\ Len(Append(mse.queue, next)) = Len(mse.queue) + 1
        /\ \A i \in 1..Len(mse.queue) : Append(mse.queue, next)[i] = mse.queue[i]
        /\ Append(mse.queue, next)[Len(mse.queue) + 1] = next
        /\ Append(mse.queue, next) # <<>>
    BY <1>2, <1>3, AppendFacts
  <2>2. /\ m \in MseRecords /\ m.queue = Append(mse.queue, next) /\ m.phase = "ready"
        /\ m.cleanup = mse.cleanup /\ m.seeks = mse.seeks /\ m.sought = mse.sought
        /\ m.timer = mse.timer
    BY <1>1, <2>1 DEF MInv, Steady, MseRecords, Mse!Ready
  <2> HIDE DEF m
  <2>3. Steady(m, sb)
    BY <1>1, <1>5, <2>1, <2>2 DEF MInv, Steady, Mse!Ready, Mse!MseAssumption
  <2>4. /\ Steady(mse', sb') /\ Moves(mse', sb')
        /\ sent' \in [segments : SUBSET Mse!Segments, ordered : BOOLEAN]
    BY <1>5, <2>3, ProcessSteady DEF MInv
  <2>5. Ghosts'
    BY <1>1, <1>2, <1>5, <2>4 DEF MInv, Ghosts
  <2>6. ASSUME ~crossed' PROVE Uncrossed(mse', sb', sent', next')
    <3>1. Uncrossed(mse, sb, sent, next) /\ ~(Mse!Gap /\ ~mse.cleanup)
      BY <1>5, <2>6 DEF MInv
    <3>2. Rising(m, sent, next + 1)
      <4>1. ASSUME NEW k \in sent.segments PROVE k < next + 1
        <5>1. k < next /\ k \in Nat
          BY <1>b, <3>1 DEF Uncrossed, Rising
        <5> QED
          BY <1>2, <5>1
      <4>2. ASSUME NEW i \in 1..Len(m.queue) PROVE m.queue[i] < next + 1
        <5>1. i \in 1..Len(mse.queue) \/ i = Len(mse.queue) + 1
          BY <2>1, <2>2
        <5> QED
          BY <1>2, <1>a, <2>1, <2>2, <3>1, <5>1 DEF Uncrossed, Rising
      <4>3. ASSUME NEW i \in 1..Len(m.queue), NEW j \in 1..Len(m.queue), i < j
            PROVE  m.queue[i] < m.queue[j]
        <5>1. i \in 1..Len(mse.queue) /\ (j \in 1..Len(mse.queue) \/ j = Len(mse.queue) + 1)
          BY <2>1, <2>2, <4>3
        <5> QED
          BY <2>1, <2>2, <3>1, <4>3, <5>1 DEF Uncrossed, Rising
      <4> QED
        BY <3>1, <4>1, <4>2, <4>3 DEF Uncrossed, Rising
    <3>3. InFlight(m, sb) <=> InFlight(mse, sb)
      BY <2>2 DEF InFlight
    <3>4. InFlight(m, sb) => HeadSent(m, sent)
      <4> SUFFICES ASSUME InFlight(m, sb) PROVE HeadSent(m, sent)
        OBVIOUS
      <4>1. HeadSent(mse, sent)
        BY <3>1, <3>3 DEF Uncrossed
      <4>2. m.queue[1] = mse.queue[1]
        BY <1>3, <2>1, <2>2, <4>1 DEF HeadSent
      <4> QED
        BY <2>1, <2>2, <4>1, <4>2 DEF HeadSent
    <3>5. ~InFlight(m, sb) => Unsent(m, sent)
      <4> SUFFICES ASSUME ~InFlight(m, sb), NEW k \in sent.segments, NEW i \in 1..Len(m.queue)
                   PROVE  k < m.queue[i]
        BY DEF Unsent
      <4>1. i \in 1..Len(mse.queue) \/ i = Len(mse.queue) + 1
        BY <2>1, <2>2
      <4>2. Unsent(mse, sent)
        BY <3>1, <3>3 DEF Uncrossed
      <4> QED
        BY <2>1, <2>2, <3>1, <4>1, <4>2 DEF Unsent, Uncrossed, Rising
    <3>6. CASE sb.op # "none" \/ mse.cleanup
      <4>1. mse' = m /\ sb' = sb /\ sent' = sent
        BY <1>5, <2>2, <3>6 DEF Mse!ProcessQueue
      <4>2. Alone(m, sb)
        BY <2>2, <3>1 DEF Uncrossed, Alone
      <4> QED
        BY <1>1, <3>2, <3>4, <3>5, <4>1, <4>2 DEF Uncrossed
    <3>7. CASE sb.op = "none" /\ ~mse.cleanup
      <4>1. sb.events = <<>> /\ ~InFlight(m, sb)
        BY <2>2, <3>1, <3>7 DEF Mse!Gap, Mse!Updating, InFlight
      <4>2. sent.segments \subseteq Nat
        BY <1>3
      <4>3. Uncrossed(mse', sb', sent', next + 1)
        BY <1>5, <2>2, <2>3, <3>2, <3>5, <3>7, <4>1, <4>2, ProcessFresh
      <4> QED
        BY <1>1, <4>3
    <3> QED
      BY <3>6, <3>7
  <2>7. ~crossed' => lost' = {}
    BY <1>1, <1>5 DEF MInv
  <2> QED
    BY <2>4, <2>5, <2>6, <2>7 DEF MInv
<1> QED
  BY <1>1, <1>4, <1>5

LEMMA UpdateEndStep == Mse!MseAssumption /\ MInv /\ Mse!OnUpdateEnd => MInv'
<1> SUFFICES ASSUME Mse!MseAssumption, MInv, Mse!OnUpdateEnd PROVE MInv'
  OBVIOUS
<1> DEFINE m == IF mse.cleanup THEN [mse EXCEPT !.cleanup = FALSE]
                ELSE IF mse.queue = <<>> THEN mse
                ELSE [mse EXCEPT !.queue = Tail(@), !.retries = 0]
           s == Mse!Popped
<1>1. /\ sb.events # <<>> /\ Head(sb.events) = "updateend"
      /\ Mse!ProcessQueue(m, s)
      /\ \/ lost' = lost
         \/ ~mse.cleanup /\ mse.queue # <<>>
              /\ lost' = lost \cup ({Head(mse.queue)} \ sent.segments)
      /\ UNCHANGED <<next, crossed>>
  BY DEF Mse!OnUpdateEnd
<1>2. /\ mse.queue \in Seq(Mse!Segments) /\ sent.segments \subseteq Mse!Segments
           /\ Mse!Segments \subseteq Nat
      /\ sb.events \in Seq(EventNames)
  BY DEF MInv, Steady, MseRecords, BufferRecords, Ghosts, Mse!Segments
<1>3. mse.queue # <<>> =>
        /\ Tail(mse.queue) \in Seq(Mse!Segments) /\ Len(mse.queue) \in Nat /\ Len(mse.queue) >= 1
        /\ Len(Tail(mse.queue)) = Len(mse.queue) - 1
        /\ \A i \in 1..(Len(mse.queue) - 1) : Tail(mse.queue)[i] = mse.queue[i + 1]
        /\ Head(mse.queue) = mse.queue[1] /\ mse.queue[1] \in Mse!Segments
  BY <1>2, TailFacts
<1>4. /\ m \in MseRecords /\ m.cleanup = FALSE /\ m.phase = mse.phase /\ m.url = mse.url
      /\ m.timer = mse.timer /\ m.seeks = mse.seeks /\ m.sought = mse.sought
      /\ m.queue = IF mse.cleanup \/ mse.queue = <<>> THEN mse.queue ELSE Tail(mse.queue)
  <2>1. mse \in MseRecords /\ 0 \in 0..MaxQuotaRetries
    BY DEF MInv, Steady, Mse!MseAssumption
  <2>2. CASE mse.cleanup
    BY <2>1, <2>2 DEF MseRecords
  <2>3. CASE ~mse.cleanup /\ mse.queue = <<>>
    BY <2>1, <2>3 DEF MseRecords
  <2>4. CASE ~mse.cleanup /\ mse.queue # <<>>
    BY <1>3, <2>1, <2>4 DEF MseRecords
  <2> QED
    BY <2>2, <2>3, <2>4
<1>5. /\ Tail(sb.events) \in Seq(EventNames)
      /\ Tail(sb.events) # <<>> => Tail(sb.events)[Len(Tail(sb.events))] = sb.events[Len(sb.events)]
  BY <1>1, <1>2, TailFacts
<1>6. s \in BufferRecords /\ s.op = sb.op /\ s.events = Tail(sb.events)
  BY <1>5 DEF MInv, Steady, BufferRecords, Mse!Popped
<1> HIDE DEF m, s
<1>7. Len(m.queue) <= MaxAppendQueue
  BY <1>3, <1>4 DEF MInv, Steady, Mse!MseAssumption
<1>8. Steady(m, s)
  BY <1>1, <1>4, <1>5, <1>6, <1>7 DEF MInv, Steady
<1>9. /\ Steady(mse', sb') /\ Moves(mse', sb')
      /\ sent' \in [segments : SUBSET Mse!Segments, ordered : BOOLEAN]
  BY <1>1, <1>8, ProcessSteady DEF MInv
<1>10. Ghosts'
  BY <1>1, <1>3, <1>9 DEF MInv, Ghosts
<1>11. ASSUME ~crossed' PROVE lost' = {} /\ Uncrossed(mse', sb', sent', next')
  <2>1. Uncrossed(mse, sb, sent, next) /\ lost = {}
    BY <1>1, <1>11 DEF MInv
  <2>2. sb.op = "none" /\ sb.events = <<"updateend">>
    <3>1. sb.events # <<"error", "updateend">>
      BY <1>1
    <3> QED
      BY <1>1, <2>1, <3>1 DEF Uncrossed, Alone, MInv, Steady, BufferRecords
  <2>3. s.op = "none" /\ s.events = <<>>
    BY <1>6, <2>2
  <2>4. ~mse.cleanup => HeadSent(mse, sent)
    BY <1>1, <2>1, <2>2 DEF Uncrossed, InFlight
  <2>5. lost' = {}
    BY <1>1, <1>3, <2>1, <2>4 DEF HeadSent
  <2>6. Rising(m, sent, next)
    <3>1. CASE m.queue = mse.queue
      BY <2>1, <3>1 DEF Uncrossed, Rising
    <3>2. CASE mse.queue # <<>> /\ m.queue = Tail(mse.queue)
      <4>1. \A i \in 1..Len(m.queue) : i + 1 \in 1..Len(mse.queue) /\ m.queue[i] = mse.queue[i + 1]
        BY <1>3, <3>2
      <4> QED
        BY <2>1, <4>1 DEF Uncrossed, Rising
    <3> QED
      BY <1>4, <3>1, <3>2
  <2>7. Unsent(m, sent)
    <3>1. CASE mse.cleanup
      BY <1>4, <2>1, <2>2, <3>1 DEF Uncrossed, InFlight, Unsent
    <3>2. CASE ~mse.cleanup
      <4> SUFFICES ASSUME NEW k \in sent.segments, NEW i \in 1..Len(m.queue) PROVE k < m.queue[i]
        BY DEF Unsent
      <4>1. mse.queue # <<>> /\ k <= mse.queue[1] /\ m.queue = Tail(mse.queue)
        BY <1>4, <2>4, <3>2 DEF HeadSent
      <4>2. /\ i + 1 \in 1..Len(mse.queue) /\ 1 \in 1..Len(mse.queue) /\ 1 < i + 1
            /\ m.queue[i] = mse.queue[i + 1]
        BY <1>3, <4>1
      <4>3. mse.queue[1] < mse.queue[i + 1]
        BY <2>1, <4>2 DEF Uncrossed, Rising
      <4>4. k \in Nat /\ mse.queue[1] \in Nat /\ mse.queue[i + 1] \in Nat
        <5>1. k \in Mse!Segments /\ mse.queue[1] \in Mse!Segments
              /\ mse.queue[i + 1] \in Mse!Segments
          BY <1>2, <4>2
        <5> QED
          BY <1>2, <5>1
      <4> QED
        BY <4>1, <4>2, <4>3, <4>4
    <3> QED
      BY <3>1, <3>2
  <2>8. sent.segments \subseteq Nat
    BY <1>2
  <2>9. Uncrossed(mse', sb', sent', next)
    BY <1>1, <1>4, <1>8, <2>3, <2>6, <2>7, <2>8, ProcessFresh
  <2> QED
    BY <1>1, <2>5, <2>9
<1> QED
  BY <1>9, <1>10, <1>11 DEF MInv

\* A call that closes the backend: its queue is empty and its buffer is quiet.
LEMMA ClosingStep ==
  ASSUME Mse!MseAssumption, MInv, Mse!Shutdown(mse), UNCHANGED <<next, lost, crossed>>
  PROVE  MInv'
<1>1. mse \in MseRecords /\ mse.seeks <= mse.sought
  BY DEF MInv, Steady
<1>2. Steady(mse', sb') /\ Moves(mse', sb') /\ sent' = sent
  BY <1>1, ShutdownKeeps
<1>3. ASSUME ~crossed' PROVE lost' = {} /\ Uncrossed(mse', sb', sent', next')
  <2>1. lost = {} /\ sent.ordered /\ \A k \in sent.segments : k < next
    BY <1>3 DEF MInv, Uncrossed, Rising
  <2> QED
    BY <1>1, <2>1, ShutdownKeeps
<1> QED
  BY <1>2, <1>3 DEF MInv, Ghosts

LEMMA OpeningStep == Mse!MseAssumption /\ MInv /\ (Mse!Configure \/ Mse!SourceOpen) => MInv'
<1> SUFFICES ASSUME Mse!MseAssumption, MInv, Mse!Configure \/ Mse!SourceOpen PROVE MInv'
  OBVIOUS
<1>1. /\ mse' \in MseRecords /\ mse'.queue = mse.queue /\ mse'.cleanup = mse.cleanup
      /\ mse'.seeks = mse.seeks /\ mse'.sought = mse.sought
      /\ mse.phase \in {"new", "opening"}
      /\ mse'.phase \in {"opening", "ready"} /\ (mse'.phase = "ready" => mse'.timer)
      /\ UNCHANGED <<sb, next, sent, lost, crossed>>
  BY DEF MInv, Steady, MseRecords, Mse!Configure, Mse!SourceOpen
<1>2. Steady(mse', sb)
  BY <1>1 DEF MInv, Steady
<1> QED
  BY <1>1, <1>2, FieldsStep DEF MInv, Ghosts

LEMMA SeekEndsStep == Mse!MseAssumption /\ MInv /\ Mse!SeekEnds => MInv'
<1> SUFFICES ASSUME Mse!MseAssumption, MInv, Mse!SeekEnds PROVE MInv'
  OBVIOUS
<1>1. PICK left \in {0, mse.seeks - 1} :
        mse' = [mse EXCEPT !.seeks = left, !.timer = @ \/ Mse!Ready]
  BY DEF Mse!SeekEnds
<1>2. mse \in MseRecords /\ mse.seeks > 0 /\ mse.seeks \in 0..MaxSeeks /\ mse.sought \in 0..MaxSeeks
  BY DEF MInv, Steady, MseRecords, Mse!SeekEnds
<1>3. left \in 0..MaxSeeks /\ left <= mse.sought
  BY <1>1, <1>2 DEF MInv, Steady, Mse!MseAssumption
<1>4. /\ mse' \in MseRecords /\ mse'.queue = mse.queue /\ mse'.cleanup = mse.cleanup
      /\ mse'.phase = mse.phase /\ mse'.url = mse.url /\ mse'.seeks = left
      /\ mse'.sought = mse.sought /\ mse'.timer = (mse.timer \/ Mse!Ready)
  BY <1>1, <1>2, <1>3 DEF MseRecords
<1>5. Steady(mse', sb)
  BY <1>3, <1>4 DEF MInv, Steady, Mse!Ready
<1> QED
  BY <1>4, <1>5, FieldsStep DEF MInv, Ghosts, Mse!SeekEnds

\* The queue is emptied by a call that crosses whatever the buffer is doing.
LEMMA EmptiedStep ==
  ASSUME Mse!MseAssumption, MInv, Steady(mse', sb'), mse'.queue = <<>>, mse'.cleanup = mse.cleanup,
         UNCHANGED <<next, sent, lost>>, crossed' \in BOOLEAN, crossed => crossed',
         ~crossed' => ~Mse!Crosses /\ sb' = sb
  PROVE  MInv'
<1>1. Ghosts' /\ Moves(mse', sb')
  BY DEF MInv, Ghosts, Moves
<1>2. ASSUME ~crossed' PROVE lost' = {} /\ Uncrossed(mse', sb', sent', next')
  <2>1. lost = {} /\ Rising(mse, sent, next) /\ Alone(mse, sb) /\ ~Mse!Crosses /\ sb' = sb
    BY <1>2 DEF MInv, Uncrossed
  <2>2. sb.op = "none" /\ sb.events = <<>>
    BY <2>1 DEF Mse!Crosses, Mse!Updating
  <2>3. Rising(mse', sent, next) /\ Unsent(mse', sent)
    <3>1. 1..Len(mse'.queue) = {}
      OBVIOUS
    <3> QED
      BY <2>1, <3>1 DEF Rising, Unsent
  <2>4. Alone(mse', sb) /\ ~InFlight(mse', sb)
    BY <2>1, <2>2 DEF Alone, InFlight
  <2> QED
    BY <2>1, <2>3, <2>4 DEF Uncrossed
<1> QED
  BY <1>1, <1>2 DEF MInv

\* A failed configure() closes a backend whose buffer has done nothing.
LEMMA ConfigureFailsStep == Mse!MseAssumption /\ MInv /\ Mse!ConfigureFails => MInv'
<1> SUFFICES ASSUME Mse!MseAssumption, MInv, Mse!ConfigureFails PROVE MInv'
  OBVIOUS
<1>1. /\ mse' = [Mse!Closed(mse) EXCEPT !.phase = "failed"] /\ mse \in MseRecords
      /\ mse.phase = "opening" /\ UNCHANGED <<sb, next, sent, lost, crossed>>
  BY DEF MInv, Steady, Mse!ConfigureFails
<1>2. sb.op = "none" /\ sb.events = <<>> /\ ~mse.cleanup
  BY <1>1 DEF MInv, Steady
<1>3. /\ mse' \in MseRecords /\ mse'.queue = <<>> /\ ~mse'.cleanup /\ mse'.phase = "failed"
      /\ ~mse'.url /\ ~mse'.timer /\ mse'.seeks = mse.seeks /\ mse'.sought = mse.sought
  BY <1>1, ClosedFacts DEF MseRecords
<1>4. Steady(mse', sb') /\ ~Mse!Crosses
  BY <1>1, <1>2, <1>3 DEF MInv, Steady, Mse!Crosses, Mse!Updating, Mse!MseAssumption
<1>5. mse'.cleanup = mse.cleanup
  BY <1>2, <1>3 DEF MInv, Steady, MseRecords
<1> QED
  BY <1>1, <1>3, <1>4, <1>5, EmptiedStep DEF MInv, Ghosts

LEMMA PauseStep ==
  ASSUME Mse!MseAssumption, MInv, NEW keepConnection \in BOOLEAN, Mse!PauseDisplay(keepConnection)
  PROVE  MInv'
<1>1. <<>> \in Seq(Mse!Segments) /\ Len(<<>>) = 0 /\ 0 <= MaxAppendQueue
  BY DEF Mse!MseAssumption
<1>2. /\ mse \in MseRecords /\ mse.phase = "ready"
      /\ mse' = [mse EXCEPT !.display = IF keepConnection THEN "kept" ELSE "cut",
                            !.queue = IF keepConnection THEN @ ELSE <<>>, !.timer = TRUE]
      /\ crossed' = (crossed \/ (~keepConnection /\ Mse!Crosses))
      /\ UNCHANGED <<sb, next, sent, lost>>
  BY DEF MInv, Steady, Mse!PauseDisplay, Mse!Ready
<1>3. /\ mse' \in MseRecords /\ mse'.phase = "ready" /\ mse'.timer
      /\ mse'.cleanup = mse.cleanup /\ mse'.seeks = mse.seeks /\ mse'.sought = mse.sought
      /\ mse'.queue = IF keepConnection THEN mse.queue ELSE <<>>
  BY <1>1, <1>2 DEF MseRecords
<1>4. Steady(mse', sb)
  BY <1>1, <1>3 DEF MInv, Steady
<1>5. crossed' \in BOOLEAN /\ (crossed => crossed')
  BY <1>2 DEF MInv, Ghosts
<1>6. CASE keepConnection
  BY <1>2, <1>3, <1>4, <1>5, <1>6, FieldsStep
<1>7. CASE ~keepConnection
  BY <1>2, <1>3, <1>4, <1>5, <1>7, EmptiedStep
<1> QED
  BY <1>6, <1>7

LEMMA SeekStep == Mse!MseAssumption /\ MInv /\ Mse!Seek => MInv'
<1> SUFFICES ASSUME Mse!MseAssumption, MInv, Mse!Seek PROVE MInv'
  OBVIOUS
<1> DEFINE aborted == IF sb.op = "append"
                      THEN [sb EXCEPT !.op = "none", !.events = @ \o <<"abort", "updateend">>]
                      ELSE sb
<1>1. <<>> \in Seq(Mse!Segments) /\ Len(<<>>) = 0 /\ 0 <= MaxAppendQueue
  BY DEF Mse!MseAssumption
<1>2. /\ mse \in MseRecords /\ mse.phase = "ready" /\ mse.sought < MaxSeeks
      /\ mse.seeks \in 0..MaxSeeks /\ mse.sought \in 0..MaxSeeks /\ mse.seeks <= mse.sought
      /\ mse' = [mse EXCEPT !.timer = FALSE, !.queue = <<>>, !.seeks = @ + 1, !.sought = @ + 1]
      /\ sb' = Mse!AbortAndRemove(sb)
      /\ crossed' = (crossed \/ Mse!Crosses \/ sb'.op = "remove")
      /\ UNCHANGED <<next, sent, lost>>
  BY DEF MInv, Steady, MseRecords, Mse!Seek, Mse!Ready
<1>3. /\ mse.seeks + 1 \in 0..MaxSeeks /\ mse.sought + 1 \in 0..MaxSeeks
      /\ mse.seeks + 1 <= mse.sought + 1 /\ mse.seeks + 1 # 0
  BY <1>2 DEF Mse!MseAssumption
<1>4. /\ mse' \in MseRecords /\ mse'.phase = "ready" /\ mse'.queue = <<>>
      /\ mse'.cleanup = mse.cleanup /\ mse'.seeks = mse.seeks + 1 /\ mse'.sought = mse.sought + 1
  BY <1>1, <1>2, <1>3 DEF MseRecords
<1>5. sb \in BufferRecords /\ sb.events \in Seq(EventNames)
  BY DEF MInv, Steady, BufferRecords
<1>6. /\ aborted \in BufferRecords
      /\ sb.events # <<>> => aborted.events # <<>>
      /\ sb.op = "append" => aborted.events # <<>>
      /\ aborted.op = "remove" \/ (aborted.op = "none" /\ sb.op # "remove")
      /\ aborted.events # <<>> => aborted.events[Len(aborted.events)] = "updateend"
      /\ sb.op # "append" => aborted = sb
  <2>1. CASE sb.op = "append"
    <3>1. /\ sb.events \o <<"abort", "updateend">> \in Seq(EventNames)
          /\ sb.events \o <<"abort", "updateend">> # <<>>
          /\ (sb.events \o <<"abort", "updateend">>)[Len(sb.events \o <<"abort", "updateend">>)]
               = "updateend"
      BY <1>5, PairFacts DEF EventNames
    <3>2. /\ aborted \in BufferRecords /\ aborted.op = "none"
          /\ aborted.events = sb.events \o <<"abort", "updateend">>
      BY <1>5, <2>1, <3>1 DEF BufferRecords
    <3> QED
      BY <2>1, <3>1, <3>2
  <2>2. CASE sb.op # "append"
    BY <1>5, <2>2 DEF MInv, Steady, BufferRecords
  <2> QED
    BY <2>1, <2>2
<1>7. \/ sb' = aborted
      \/ sb' = [aborted EXCEPT !.op = "remove"]
  BY <1>2 DEF Mse!AbortAndRemove
<1> HIDE DEF aborted
<1>8. /\ sb' \in BufferRecords /\ sb'.events = aborted.events
      /\ sb'.op = aborted.op \/ sb'.op = "remove"
      /\ sb' = aborted \/ sb'.op = "remove"
  BY <1>6, <1>7 DEF BufferRecords
<1>9. Steady(mse', sb')
  BY <1>1, <1>3, <1>4, <1>6, <1>8 DEF MInv, Steady
<1>10. crossed' \in BOOLEAN /\ (crossed => crossed')
  BY <1>2 DEF MInv, Ghosts
<1>11. ~crossed' => ~Mse!Crosses /\ sb' = sb
  BY <1>2, <1>6, <1>8 DEF Mse!Crosses, Mse!Updating
<1> QED
  BY <1>2, <1>4, <1>9, <1>10, <1>11, EmptiedStep

LEMMA AdjustStep == Mse!MseAssumption /\ MInv /\ Mse!AdjustPlayback => MInv'
<1> SUFFICES ASSUME Mse!MseAssumption, MInv, Mse!AdjustPlayback PROVE MInv'
  OBVIOUS
<1>1. /\ mse.phase = "ready" /\ mse.timer /\ ~mse.cleanup /\ sb.op = "none"
      /\ mse' = [mse EXCEPT !.cleanup = TRUE] /\ sb' = [sb EXCEPT !.op = "remove"]
      /\ crossed' = (crossed \/ Mse!Gap) /\ UNCHANGED <<next, sent, lost>>
  BY DEF Mse!AdjustPlayback, Mse!StartCleanup, Mse!Ready, Mse!Updating
<1>2. mse \in MseRecords /\ sb \in BufferRecords
  BY DEF MInv, Steady
<1>3. /\ mse' \in MseRecords /\ mse'.phase = mse.phase /\ mse'.queue = mse.queue /\ mse'.cleanup
      /\ mse'.timer = mse.timer /\ mse'.url = mse.url
      /\ mse'.seeks = mse.seeks /\ mse'.sought = mse.sought
  BY <1>1, <1>2 DEF MseRecords
<1>4. sb' \in BufferRecords /\ sb'.op = "remove" /\ sb'.events = sb.events
  BY <1>1, <1>2 DEF BufferRecords
<1>5. Steady(mse', sb') /\ Moves(mse', sb')
  BY <1>1, <1>3, <1>4 DEF MInv, Steady, Moves
<1>6. ASSUME ~crossed' PROVE lost' = {} /\ Uncrossed(mse', sb', sent', next')
  <2>1. lost = {} /\ Uncrossed(mse, sb, sent, next) /\ sb.events = <<>>
    BY <1>1, <1>6 DEF MInv, Mse!Gap, Mse!Updating
  <2>2. Rising(mse', sent, next)
    BY <1>3, <2>1 DEF Uncrossed, Rising
  <2>3. Unsent(mse', sent)
    BY <1>1, <1>3, <2>1 DEF Uncrossed, Unsent, InFlight
  <2>4. Alone(mse', sb') /\ ~InFlight(mse', sb')
    BY <1>3, <1>4, <2>1 DEF Alone, InFlight
  <2> QED
    BY <1>1, <2>1, <2>2, <2>3, <2>4 DEF Uncrossed
<1>7. Ghosts'
  BY <1>1 DEF MInv, Ghosts
<1> QED
  BY <1>5, <1>6, <1>7 DEF MInv

LEMMA BufferEndsStep == Mse!MseAssumption /\ MInv /\ (Mse!AppendEnds \/ Mse!RemoveEnds) => MInv'
<1> SUFFICES ASSUME Mse!MseAssumption, MInv, Mse!AppendEnds \/ Mse!RemoveEnds PROVE MInv'
  OBVIOUS
<1>1. sb \in BufferRecords /\ sb.events \in Seq(EventNames) /\ sb.held \in Nat
  BY DEF MInv, Steady, BufferRecords
<1>2. /\ Append(sb.events, "updateend") \in Seq(EventNames)
      /\ Append(sb.events, "updateend") # <<>> /\ Len(sb.events) \in Nat
      /\ Len(Append(sb.events, "updateend")) = Len(sb.events) + 1
      /\ Append(sb.events, "updateend")[Len(sb.events) + 1] = "updateend"
  BY <1>1, AppendFacts DEF EventNames
<1>3. /\ sb'.op = "none" /\ sb'.events = Append(sb.events, "updateend")
      /\ sb' \in BufferRecords /\ UNCHANGED <<mse, next, sent, lost, crossed>>
  <2>1. CASE Mse!AppendEnds
    <3>1. sb.held + 1 \in Nat
      BY <1>1
    <3> QED
      BY <1>2, <2>1, <3>1 DEF Mse!AppendEnds, BufferRecords
  <2>2. CASE Mse!RemoveEnds
    <3>1. PICK left \in 0..(sb.held - 1) :
            sb' = [op |-> "none", events |-> Append(sb.events, "updateend"), held |-> left]
      BY <2>2 DEF Mse!RemoveEnds
    <3>2. left \in Nat
      BY <1>1
    <3> QED
      BY <1>2, <2>2, <3>1, <3>2 DEF Mse!RemoveEnds, BufferRecords
  <2> QED
    BY <2>1, <2>2
<1>4. ASSUME ~crossed PROVE Alone(mse, sb') /\ (InFlight(mse, sb') <=> InFlight(mse, sb))
  <2>1. Alone(mse, sb) /\ (sb.op = "append" \/ sb.op = "remove")
    BY <1>4 DEF MInv, Uncrossed, Mse!AppendEnds, Mse!RemoveEnds
  <2>2. sb.events = <<>> /\ (sb.op = "append" <=> ~mse.cleanup)
    BY <2>1 DEF Alone
  <2>3. sb'.events = <<"updateend">>
    BY <1>3, <2>2
  <2> QED
    BY <1>3, <2>1, <2>2, <2>3 DEF Alone, InFlight
<1>5. Mse!Updating
  BY DEF Mse!AppendEnds, Mse!RemoveEnds, Mse!Updating
<1> QED
  BY <1>2, <1>3, <1>4, <1>5, BufferStep

LEMMA AppendFailsStep == Mse!MseAssumption /\ MInv /\ Mse!AppendFails => MInv'
<1> SUFFICES ASSUME Mse!MseAssumption, MInv, Mse!AppendFails PROVE MInv'
  OBVIOUS
<1>1. sb \in BufferRecords /\ sb.events \in Seq(EventNames)
  BY DEF MInv, Steady, BufferRecords
<1>2. /\ sb.events \o <<"error", "updateend">> \in Seq(EventNames)
      /\ sb.events \o <<"error", "updateend">> # <<>>
      /\ (sb.events \o <<"error", "updateend">>)[Len(sb.events \o <<"error", "updateend">>)]
           = "updateend"
  BY <1>1, PairFacts DEF EventNames
<1>3. /\ sb'.op = "none" /\ sb'.events = sb.events \o <<"error", "updateend">>
      /\ sb' \in BufferRecords /\ sb.op = "append" /\ UNCHANGED <<mse, next, sent, lost, crossed>>
  BY <1>1, <1>2 DEF Mse!AppendFails, BufferRecords
<1>4. ASSUME ~crossed PROVE Alone(mse, sb') /\ (InFlight(mse, sb') <=> InFlight(mse, sb))
  <2>1. sb.events = <<>> /\ ~mse.cleanup
    BY <1>3, <1>4 DEF MInv, Uncrossed, Alone
  <2>2. sb'.events = <<"error", "updateend">>
    BY <1>3, <2>1
  <2> QED
    BY <1>2, <1>3, <2>1, <2>2 DEF Alone, InFlight
<1> QED
  BY <1>2, <1>3, <1>4, BufferStep DEF Mse!Updating

LEMMA AbortStep == Mse!MseAssumption /\ MInv /\ Mse!OnAbort => MInv'
<1> SUFFICES ASSUME Mse!MseAssumption, MInv, Mse!OnAbort PROVE MInv'
  OBVIOUS
<1> DEFINE s == Mse!Popped
<1>1. /\ sb.events # <<>> /\ Head(sb.events) = "abort" /\ Mse!ProcessQueue(mse, s)
      /\ UNCHANGED <<next, lost, crossed>>
  BY DEF Mse!OnAbort
<1>2. sb \in BufferRecords /\ sb.events \in Seq(EventNames)
      /\ sb.events[Len(sb.events)] = "updateend"
  BY <1>1 DEF MInv, Steady, BufferRecords
<1>3. /\ Tail(sb.events) \in Seq(EventNames) /\ Tail(sb.events) # <<>>
      /\ Tail(sb.events)[Len(Tail(sb.events))] = sb.events[Len(sb.events)]
  BY <1>1, <1>2, TailFacts, LastKept
<1>4. s \in BufferRecords /\ s.op = sb.op /\ s.events = Tail(sb.events)
  BY <1>2, <1>3 DEF BufferRecords, Mse!Popped
<1> HIDE DEF s
<1>5. Steady(mse, s)
  BY <1>2, <1>3, <1>4 DEF MInv, Steady
<1>6. /\ Steady(mse', sb') /\ Moves(mse', sb')
      /\ sent' \in [segments : SUBSET Mse!Segments, ordered : BOOLEAN]
  BY <1>1, <1>5, ProcessSteady DEF MInv
<1>7. crossed
  <2>1. sb.events # <<"updateend">> /\ sb.events # <<"error", "updateend">>
    BY <1>1
  <2>2. ~Alone(mse, sb)
    BY <1>1, <1>2, <2>1 DEF Alone, BufferRecords
  <2> QED
    BY <2>2 DEF MInv, Uncrossed
<1> QED
  BY <1>1, <1>6, <1>7 DEF MInv, Ghosts

-----------------------------------------------------------------------------
(* The theorem                                                             *)

LEMMA MseKeeps == Mse!MseAssumption /\ MInv /\ [Mse!Next]_(Mse!vars) => MInv'
<1> SUFFICES ASSUME Mse!MseAssumption, MInv, [Mse!Next]_(Mse!vars) PROVE MInv'
  OBVIOUS
<1>1. CASE Mse!Configure \/ Mse!SourceOpen
  BY <1>1, OpeningStep
<1>2. CASE Mse!ConfigureFails
  BY <1>2, ConfigureFailsStep
<1>3. CASE Mse!PushSegment
  BY <1>3, PushStep
<1>4. CASE Mse!Seek
  BY <1>4, SeekStep
<1>5. CASE Mse!SeekEnds
  BY <1>5, SeekEndsStep
<1>6. CASE Mse!Stop \/ Mse!MediaError \/ Mse!OnError
  BY <1>6, ClosingStep DEF Mse!Stop, Mse!MediaError, Mse!OnError
<1>7. CASE \E keepConnection \in BOOLEAN : Mse!PauseDisplay(keepConnection)
  BY <1>7, PauseStep
<1>8. CASE Mse!AdjustPlayback
  BY <1>8, AdjustStep
<1>9. CASE Mse!AppendEnds \/ Mse!RemoveEnds
  BY <1>9, BufferEndsStep
<1>10. CASE Mse!AppendFails
  BY <1>10, AppendFailsStep
<1>11. CASE Mse!OnUpdateEnd
  BY <1>11, UpdateEndStep
<1>12. CASE Mse!OnAbort
  BY <1>12, AbortStep
<1>13. CASE UNCHANGED Mse!vars
  BY <1>13 DEF Mse!vars, MInv, Ghosts, Steady, Moves, Uncrossed, Rising, Alone, InFlight,
     HeadSent, Unsent
<1> QED
  BY <1>1, <1>2, <1>3, <1>4, <1>5, <1>6, <1>7, <1>8, <1>9, <1>10, <1>11, <1>12, <1>13 DEF Mse!Next

LEMMA MseHolds == Mse!MseAssumption /\ MInv => Mse!MseSafe
<1> SUFFICES ASSUME Mse!MseAssumption, MInv PROVE Mse!MseSafe
  OBVIOUS
<1>1. Mse!TypeOK
  BY TypeFrom
<1>2. Mse!AppendedInOrder
  BY DEF MInv, Mse!AppendedInOrder, Uncrossed, Rising
<1>3. Mse!QueueMoves
  BY DEF MInv, Mse!QueueMoves, Moves, Mse!Updating
<1>4. Mse!StoppedHoldsNothing /\ Mse!LiveControlRuns
  BY DEF MInv, Steady, Mse!StoppedHoldsNothing, Mse!LiveControlRuns, Mse!Ready
<1> QED
  BY <1>1, <1>2, <1>3, <1>4 DEF Mse!MseSafe

\* However pushes, seeks, pauses, stops, errors, the live control timer and the
\* buffer's events interleave: without a crossing call every segment is appended
\* once and in order and none is skipped, the queue never waits for nothing, a
\* stopped backend holds no URL, timer or segment, and live control runs when no
\* seek is pending (mse.ts:479, 577, 804, 912).
THEOREM MseCorrect == Mse!Spec => []MseSafe
<1>1. Mse!Init => MInv
  BY MseInit, MseAssumption
<1>2. MInv /\ [Mse!Next]_(Mse!vars) => MInv'
  BY MseKeeps, MseAssumption
<1>3. MInv => MseSafe
  BY MseHolds, MseAssumption DEF MseSafe
<1> QED
  BY <1>1, <1>2, <1>3, PTL DEF Mse!Spec

-----------------------------------------------------------------------------
(* The fallback controller *)

CallRecords ==
  [at : {"new", "reporting", "replacing", "configuring", "cleanup", "stopping", "returned"},
   pick : Fallback!Candidates \cup {0}, leaving : Fallback!Objects \cup {Fallback!NoBackend}]

\* The call c, which is under way alone: what it stops is current, and what it
\* configures is all there is.
Under(c) ==
  /\ call[c].at \in {"reporting", "replacing", "stopping"} =>
       current # Fallback!NoBackend /\ call[c].leaving = current /\ alive = {current}
  /\ call[c].at \in {"configuring", "cleanup"} =>
       current = Fallback!NoBackend /\ alive = {<<c, call[c].pick>>}
  /\ call[c].at = "replacing" => CandidatePlan[call[c].pick] \cap failed = {}
  /\ stopped => call[c].at = "stopping"

Picked(c) ==
  call[c].at \in {"replacing", "configuring", "cleanup"} => call[c].pick \in Fallback!Candidates

\* No call is under way.
Resting ==
  /\ current = Fallback!NoBackend => alive = {}
  /\ current # Fallback!NoBackend => alive = {current}
  /\ stopped => current = Fallback!NoBackend

FInv ==
  /\ Fallback!TypeOK /\ failed \subseteq tried /\ \A c \in Calls : Picked(c)
  /\ ~overlap =>
       /\ \A c, d \in Calls : Fallback!Busy(c) /\ Fallback!Busy(d) => c = d
       /\ \A c \in Calls : Fallback!Busy(c) => Under(c)
       /\ (\A c \in Calls : ~Fallback!Busy(c)) => Resting

LEMMA LeastCandidate ==
  ASSUME Fallback!FallbackAssumption, NEW S, S \subseteq Fallback!Candidates, S # {}
  PROVE  \E j \in S : \A k \in S : j <= k
<1> DEFINE R == OpToRel(<, Nat)
<1>1. S \subseteq Nat
  BY DEF Fallback!FallbackAssumption, Fallback!Candidates
<1>2. PICK j \in S : \A k \in S : ~(<<k, j>> \in R)
  <2>1. IsWellFoundedOn(R, Nat)
    BY NatLessThanWellFounded
  <2> HIDE DEF R
  <2> QED
    BY <1>1, <2>1, WFMin
<1>3. ASSUME NEW k \in S PROVE j <= k
  <2>1. ~(k < j)
    BY <1>1, <1>2 DEF OpToRel
  <2> QED
    BY <1>1, <2>1
<1> QED
  BY <1>3

\* What configureNext() leaves: it is done, or it has found a candidate none of
\* whose backends is in bs.
Found(c, bs, b, now) ==
  \/ call' = [call EXCEPT ![c].at = "returned"] /\ alive' = now
  \/ \E i \in Fallback!Candidates :
       /\ ~stopped /\ CandidatePlan[i] \cap bs = {}
       /\ call' =
             [call EXCEPT ![c] =
                [at |-> IF b = Fallback!NoBackend THEN "configuring" ELSE "replacing",
                 pick |-> i, leaving |-> b]]
       /\ alive' = IF b = Fallback!NoBackend THEN now \cup {<<c, i>>} ELSE now

LEMMA ConfigureNextFinds ==
  ASSUME Fallback!FallbackAssumption, NEW c \in Calls, NEW bs, NEW cs, NEW b, NEW now,
         Fallback!ConfigureNext(c, bs, cs, b, now)
  PROVE  Found(c, bs, b, now)
<1> DEFINE S == Fallback!Untried(bs, cs)
           i == CHOOSE j \in S : \A k \in S : j <= k
<1>1. CASE stopped \/ S = {}
  BY <1>1 DEF Fallback!ConfigureNext, Fallback!Await, Found
<1>2. CASE ~(stopped \/ S = {})
  <2>1. i \in S
    <3>1. \E j \in S : \A k \in S : j <= k
      BY <1>2, LeastCandidate DEF Fallback!Untried
    <3> QED
      BY <3>1
  <2>2. i \in Fallback!Candidates /\ CandidatePlan[i] \cap bs = {}
    BY <2>1 DEF Fallback!Untried
  <2>3. /\ call' =
              [call EXCEPT ![c] =
                 [at |-> IF b = Fallback!NoBackend THEN "configuring" ELSE "replacing",
                  pick |-> i, leaving |-> b]]
        /\ alive' = IF b = Fallback!NoBackend THEN now \cup {<<c, i>>} ELSE now
    BY <1>2 DEF Fallback!ConfigureNext
  <2> HIDE DEF i
  <2> QED
    BY <1>2, <2>2, <2>3 DEF Found
<1> QED
  BY <1>1, <1>2

\* A step of the call c when no other is under way.
LEMMA OneCall ==
  ASSUME FInv, NEW c \in Calls, Fallback!TypeOK', failed' \subseteq tried', Picked(c)',
         \A d \in Calls \ {c} : call'[d] = call[d],
         ~overlap' => \A d \in Calls \ {c} : ~Fallback!Busy(d),
         ~overlap' => (Fallback!Busy(c)' => Under(c)') /\ (~Fallback!Busy(c)' => Resting')
  PROVE  FInv'
<1>1. \A d \in Calls \ {c} : ~overlap' => ~Fallback!Busy(d)'
  BY DEF Fallback!Busy
<1>2. ASSUME ~overlap'
      PROVE  /\ \A d, e \in Calls : Fallback!Busy(d)' /\ Fallback!Busy(e)' => d = e
             /\ \A d \in Calls : Fallback!Busy(d)' => Under(d)'
             /\ (\A d \in Calls : ~Fallback!Busy(d)') => Resting'
  <2>1. \A d \in Calls : Fallback!Busy(d)' => d = c
    BY <1>1, <1>2
  <2> QED
    BY <1>2, <2>1
<1>3. \A d \in Calls : Picked(d)'
  BY DEF FInv, Picked
<1> QED
  BY <1>2, <1>3 DEF FInv

\* What a call that continues, or starts, knows when it is alone.
LEMMA ContinuesAlone ==
  ASSUME FInv, NEW c \in Calls, Fallback!Busy(c), ~overlap
  PROVE  Under(c) /\ \A d \in Calls \ {c} : ~Fallback!Busy(d)
BY DEF FInv

LEMMA StartsAlone ==
  ASSUME FInv, NEW c \in Calls, Fallback!Called(c), ~overlap'
  PROVE  Resting /\ (\A d \in Calls \ {c} : ~Fallback!Busy(d)) /\ call[c].at = "new"
<1>1. ~overlap /\ (\A d \in Calls : ~Fallback!Busy(d)) /\ call[c].at = "new"
  BY DEF Fallback!Called
<1> QED
  BY <1>1 DEF FInv

\* The call c finds a candidate after it has stopped what was current, or has none.
LEMMA FoundStep ==
  ASSUME FInv, NEW c \in Calls, NEW bs, failed \subseteq bs, NEW b,
         b \in Fallback!Objects \cup {Fallback!NoBackend},
         NEW now, now \subseteq Fallback!Objects, Found(c, bs, b, now),
         tried' = tried, failed' = failed, stopped' = stopped, epochs' = epochs,
         triedCandidates' \subseteq Fallback!Candidates, current' = b, overlap' \in BOOLEAN,
         ~overlap' => /\ \A d \in Calls \ {c} : ~Fallback!Busy(d)
                      /\ b = Fallback!NoBackend => now = {}
                      /\ b # Fallback!NoBackend => now = {b}
                      /\ stopped => b = Fallback!NoBackend
  PROVE  FInv'
<1>1. /\ call \in [Calls -> CallRecords] /\ failed \subseteq tried
      /\ tried \subseteq Backends /\ failed \subseteq Backends /\ stopped \in BOOLEAN
      /\ epochs \in 0..MaxEpochs
  BY DEF FInv, Fallback!TypeOK, CallRecords
<1>2. CASE call' = [call EXCEPT ![c].at = "returned"] /\ alive' = now
  <2>1. /\ call' \in [Calls -> CallRecords] /\ call'[c].at = "returned"
        /\ \A d \in Calls \ {c} : call'[d] = call[d]
    BY <1>1, <1>2 DEF CallRecords
  <2>2. Fallback!TypeOK'
    BY <1>1, <1>2, <2>1 DEF Fallback!TypeOK, CallRecords
  <2>3. ~overlap' => ~Fallback!Busy(c)' /\ Resting'
    BY <1>2, <2>1 DEF Fallback!Busy, Resting
  <2> QED
    BY <1>1, <2>1, <2>2, <2>3, OneCall DEF Picked
<1>3. ASSUME NEW i \in Fallback!Candidates, ~stopped, CandidatePlan[i] \cap bs = {},
             call' =
                [call EXCEPT ![c] =
                   [at |-> IF b = Fallback!NoBackend THEN "configuring" ELSE "replacing",
                    pick |-> i, leaving |-> b]],
             alive' = IF b = Fallback!NoBackend THEN now \cup {<<c, i>>} ELSE now
      PROVE  FInv'
  <2>1. /\ call'[c] = [at |-> IF b = Fallback!NoBackend THEN "configuring" ELSE "replacing",
                       pick |-> i, leaving |-> b]
        /\ \A d \in Calls \ {c} : call'[d] = call[d]
    BY <1>1, <1>3
  <2>2. /\ call'[c].at = IF b = Fallback!NoBackend THEN "configuring" ELSE "replacing"
        /\ call'[c].pick = i /\ call'[c].leaving = b
    BY <2>1
  <2>3. call' \in [Calls -> CallRecords]
    BY <1>1, <1>3 DEF CallRecords
  <2>4. <<c, i>> \in Fallback!Objects
    BY <1>3 DEF Fallback!Objects
  <2>5. Fallback!TypeOK'
    BY <1>1, <1>3, <2>3, <2>4 DEF Fallback!TypeOK, CallRecords
  <2>6. ASSUME ~overlap' PROVE Under(c)'
    <3>1. CASE b = Fallback!NoBackend
      BY <1>3, <2>2, <2>6, <3>1 DEF Under
    <3>2. CASE b # Fallback!NoBackend
      BY <1>3, <2>2, <2>6, <3>2 DEF Under
    <3> QED
      BY <3>1, <3>2
  <2>7. Fallback!Busy(c)'
    BY <2>2 DEF Fallback!Busy
  <2> QED
    BY <1>1, <1>3, <2>1, <2>2, <2>5, <2>6, <2>7, OneCall DEF Picked
<1> QED
  BY <1>2, <1>3 DEF Found

\* The types that the steps below start from.
LEMMA Typed ==
  ASSUME FInv
  PROVE  /\ call \in [Calls -> CallRecords] /\ failed \subseteq tried
         /\ tried \subseteq Backends /\ failed \subseteq Backends
         /\ triedCandidates \subseteq Fallback!Candidates /\ \A c \in Calls : Picked(c)
         /\ current \in Fallback!Objects \cup {Fallback!NoBackend}
         /\ alive \subseteq Fallback!Objects
         /\ stopped \in BOOLEAN /\ overlap \in BOOLEAN /\ epochs \in 0..MaxEpochs
BY DEF FInv, Fallback!TypeOK, CallRecords

LEMMA OverlapTyped ==
  ASSUME FInv, NEW c \in Calls, Fallback!Called(c)
  PROVE  overlap' \in BOOLEAN
BY DEF FInv, Fallback!TypeOK, Fallback!Called

LEMMA CalledFinds ==
  ASSUME Fallback!FallbackAssumption, FInv, NEW c \in Calls, Fallback!Called(c),
         Fallback!ConfigureNext(c, tried, triedCandidates, current, alive),
         UNCHANGED <<current, tried, triedCandidates, stopped, epochs, failed>>
  PROVE  FInv'
<1>1. Found(c, tried, current, alive)
  BY ConfigureNextFinds
<1>2. ~overlap' => Resting /\ \A d \in Calls \ {c} : ~Fallback!Busy(d)
  BY StartsAlone
<1> QED
  BY <1>1, <1>2, Typed, OverlapTyped, FoundStep DEF Resting

LEMMA CallReportFailureStep ==
  ASSUME Fallback!FallbackAssumption, FInv, NEW c \in Calls, Fallback!CallReportFailure(c)
  PROVE  FInv'
<1>1. Fallback!Called(c) /\ UNCHANGED <<current, triedCandidates, stopped, epochs, failed>>
  BY DEF Fallback!CallReportFailure
<1>2. CASE stopped \/ current = Fallback!NoBackend
  BY <1>1, <1>2, CalledFinds DEF Fallback!CallReportFailure
<1>3. CASE ~(stopped \/ current = Fallback!NoBackend)
  <2>1. PICK b \in Backends : tried' = tried \cup {b}
    BY <1>3 DEF Fallback!CallReportFailure
  <2>2. /\ call' = [call EXCEPT ![c].at = "reporting", ![c].leaving = current]
        /\ alive' = alive
    BY <1>3 DEF Fallback!CallReportFailure
  <2>3. /\ call'[c].at = "reporting" /\ call'[c].leaving = current
        /\ call' \in [Calls -> CallRecords]
        /\ \A d \in Calls \ {c} : call'[d] = call[d]
    BY <1>1, <2>2, Typed DEF CallRecords
  <2>4. Fallback!TypeOK' /\ failed' \subseteq tried'
    BY <1>1, <2>1, <2>2, <2>3, Typed, OverlapTyped DEF Fallback!TypeOK, CallRecords
  <2>5. Fallback!Busy(c)'
    BY <2>3 DEF Fallback!Busy
  <2>6. ~overlap' => Resting /\ \A d \in Calls \ {c} : ~Fallback!Busy(d)
    BY <1>1, StartsAlone
  <2>7. ~overlap' => Under(c)'
    BY <1>1, <1>3, <2>2, <2>3, <2>6 DEF Under, Resting
  <2> QED
    BY <2>3, <2>4, <2>5, <2>6, <2>7, OneCall DEF Picked
<1> QED
  BY <1>2, <1>3

LEMMA CallStopStep ==
  ASSUME FInv, NEW c \in Calls, Fallback!CallStop(c)
  PROVE  FInv'
<1>1. /\ Fallback!Called(c) /\ stopped' = TRUE
      /\ UNCHANGED <<current, tried, triedCandidates, epochs, alive, failed>>
  BY DEF Fallback!CallStop
<1>2. ~overlap' => Resting /\ \A d \in Calls \ {c} : ~Fallback!Busy(d)
  BY <1>1, StartsAlone
<1>3. CASE current = Fallback!NoBackend
  <2>1. /\ call'[c].at = "returned" /\ call' \in [Calls -> CallRecords]
        /\ \A d \in Calls \ {c} : call'[d] = call[d]
    BY <1>3, Typed DEF Fallback!CallStop, Fallback!Await, CallRecords
  <2>2. Fallback!TypeOK'
    BY <1>1, <2>1, Typed, OverlapTyped DEF Fallback!TypeOK, CallRecords
  <2>3. ~overlap' => ~Fallback!Busy(c)' /\ Resting'
    BY <1>1, <1>2, <1>3, <2>1 DEF Fallback!Busy, Resting
  <2> QED
    BY <1>1, <1>2, <2>1, <2>2, <2>3, Typed, OneCall DEF Picked
<1>4. CASE current # Fallback!NoBackend
  <2>1. /\ call'[c].at = "stopping" /\ call'[c].leaving = current
        /\ call' \in [Calls -> CallRecords]
        /\ \A d \in Calls \ {c} : call'[d] = call[d]
    BY <1>4, Typed DEF Fallback!CallStop, CallRecords
  <2>2. Fallback!TypeOK'
    BY <1>1, <2>1, Typed, OverlapTyped DEF Fallback!TypeOK, CallRecords
  <2>3. Fallback!Busy(c)' /\ (~overlap' => Under(c)')
    BY <1>1, <1>2, <1>4, <2>1 DEF Fallback!Busy, Under, Resting
  <2> QED
    BY <1>1, <1>2, <2>1, <2>2, <2>3, Typed, OneCall DEF Picked
<1> QED
  BY <1>3, <1>4

LEMMA StopCurrentEndsStep ==
  ASSUME Fallback!FallbackAssumption, FInv, NEW c \in Calls, Fallback!StopCurrentEnds(c)
  PROVE  FInv'
<1> DEFINE rest == alive \ {call[c].leaving}
<1>1. /\ call[c].at \in {"reporting", "replacing", "stopping"} /\ current' = Fallback!NoBackend
      /\ UNCHANGED <<tried, triedCandidates, stopped, epochs, failed, overlap>>
  BY DEF Fallback!StopCurrentEnds
<1>2. ~overlap => Under(c) /\ \A d \in Calls \ {c} : ~Fallback!Busy(d)
  BY <1>1, ContinuesAlone DEF Fallback!Busy
<1>3. ~overlap => rest = {}
  BY <1>1, <1>2 DEF Under
<1>4. rest \subseteq Fallback!Objects
  BY Typed
<1> HIDE DEF rest
<1>5. CASE call[c].at = "stopping" /\ Fallback!Await(c, "returned") /\ alive' = rest
  <2>1. /\ call'[c].at = "returned" /\ call' \in [Calls -> CallRecords]
        /\ \A d \in Calls \ {c} : call'[d] = call[d]
    BY <1>5, Typed DEF Fallback!Await, CallRecords
  <2>2. Fallback!TypeOK'
    BY <1>1, <1>4, <1>5, <2>1, Typed DEF Fallback!TypeOK, CallRecords
  <2>3. ~overlap' => ~Fallback!Busy(c)' /\ Resting'
    BY <1>1, <1>3, <1>5, <2>1 DEF Fallback!Busy, Resting
  <2> QED
    BY <1>1, <1>2, <2>1, <2>2, <2>3, Typed, OneCall DEF Picked
<1>6. CASE /\ call[c].at = "replacing" /\ Fallback!Await(c, "configuring")
           /\ alive' = rest \cup {<<c, call[c].pick>>}
  <2>1. /\ call'[c].at = "configuring" /\ call'[c].pick = call[c].pick
        /\ call' \in [Calls -> CallRecords]
        /\ \A d \in Calls \ {c} : call'[d] = call[d]
    BY <1>6, Typed DEF Fallback!Await, CallRecords
  <2>2. call[c].pick \in Fallback!Candidates
    BY <1>6, Typed DEF Picked
  <2>3. Fallback!TypeOK'
    BY <1>1, <1>4, <1>6, <2>1, <2>2, Typed DEF Fallback!TypeOK, CallRecords, Fallback!Objects
  <2>4. Fallback!Busy(c)' /\ (~overlap' => Under(c)')
    BY <1>1, <1>2, <1>3, <1>6, <2>1 DEF Fallback!Busy, Under
  <2> QED
    BY <1>1, <1>2, <2>1, <2>2, <2>3, <2>4, Typed, OneCall DEF Picked
<1>7. CASE /\ call[c].at = "reporting"
           /\ Fallback!ConfigureNext(c, tried, triedCandidates, Fallback!NoBackend, rest)
  <2>1. Found(c, tried, Fallback!NoBackend, rest)
    BY <1>7, ConfigureNextFinds
  <2> QED
    BY <1>1, <1>2, <1>3, <1>4, <2>1, Typed, FoundStep
<1> QED
  BY <1>5, <1>6, <1>7 DEF Fallback!StopCurrentEnds, rest

LEMMA ConfigureWorksStep ==
  ASSUME FInv, NEW c \in Calls, Fallback!ConfigureWorks(c)
  PROVE  FInv'
<1>1. /\ call[c].at = "configuring" /\ current' = <<c, call[c].pick>>
      /\ UNCHANGED <<tried, triedCandidates, stopped, epochs, alive, failed, overlap>>
  BY DEF Fallback!ConfigureWorks
<1>2. ~overlap => Under(c) /\ \A d \in Calls \ {c} : ~Fallback!Busy(d)
  BY <1>1, ContinuesAlone DEF Fallback!Busy
<1>3. /\ call'[c].at = "returned" /\ call' \in [Calls -> CallRecords]
      /\ \A d \in Calls \ {c} : call'[d] = call[d]
  BY Typed DEF Fallback!ConfigureWorks, Fallback!Await, CallRecords
<1>4. call[c].pick \in Fallback!Candidates
  BY <1>1, Typed DEF Picked
<1>5. Fallback!TypeOK'
  BY <1>1, <1>3, <1>4, Typed DEF Fallback!TypeOK, CallRecords, Fallback!Objects
<1>6. ~overlap' => ~Fallback!Busy(c)' /\ Resting'
  BY <1>1, <1>2, <1>3 DEF Fallback!Busy, Resting, Under, Fallback!NoBackend
<1> QED
  BY <1>1, <1>2, <1>3, <1>5, <1>6, Typed, OneCall DEF Picked

LEMMA FallbackFailsStep ==
  ASSUME Fallback!FallbackAssumption, FInv, NEW c \in Calls, Fallback!ConfigureFails(c)
  PROVE  FInv'
<1>1. /\ call[c].at = "configuring"
      /\ tried' = tried \cup CandidatePlan[call[c].pick] /\ failed' = failed \cup CandidatePlan[call[c].pick]
      /\ UNCHANGED <<current, triedCandidates, stopped, epochs, alive, overlap>>
  BY DEF Fallback!ConfigureFails
<1>2. ~overlap => Under(c) /\ \A d \in Calls \ {c} : ~Fallback!Busy(d)
  BY <1>1, ContinuesAlone DEF Fallback!Busy
<1>3. /\ call'[c].at = "cleanup" /\ call'[c].pick = call[c].pick
      /\ call' \in [Calls -> CallRecords]
      /\ \A d \in Calls \ {c} : call'[d] = call[d]
  BY Typed DEF Fallback!ConfigureFails, Fallback!Await, CallRecords
<1>4. call[c].pick \in Fallback!Candidates /\ CandidatePlan[call[c].pick] \subseteq Backends
  BY <1>1, Typed DEF Picked, Fallback!FallbackAssumption, Fallback!Candidates
<1>5. Fallback!TypeOK' /\ failed' \subseteq tried'
  BY <1>1, <1>3, <1>4, Typed DEF Fallback!TypeOK, CallRecords
<1>6. Fallback!Busy(c)' /\ (~overlap' => Under(c)')
  BY <1>1, <1>2, <1>3 DEF Fallback!Busy, Under
<1> QED
  BY <1>1, <1>2, <1>3, <1>4, <1>5, <1>6, OneCall DEF Picked

LEMMA CleanupEndsStep ==
  ASSUME Fallback!FallbackAssumption, FInv, NEW c \in Calls, Fallback!CleanupEnds(c)
  PROVE  FInv'
<1> DEFINE rest == alive \ {<<c, call[c].pick>>}
<1>1. /\ call[c].at = "cleanup" /\ triedCandidates' = triedCandidates \cup {call[c].pick}
      /\ UNCHANGED <<current, tried, stopped, epochs, failed, overlap>>
      /\ Fallback!ConfigureNext(c, tried, triedCandidates', current, rest)
  BY DEF Fallback!CleanupEnds
<1>2. ~overlap => Under(c) /\ \A d \in Calls \ {c} : ~Fallback!Busy(d)
  BY <1>1, ContinuesAlone DEF Fallback!Busy
<1>3. ~overlap => rest = {} /\ current = Fallback!NoBackend
  BY <1>1, <1>2 DEF Under
<1>4. rest \subseteq Fallback!Objects
  BY Typed
<1> HIDE DEF rest
<1>5. Found(c, tried, current, rest)
  BY <1>1, ConfigureNextFinds
<1>6. triedCandidates' \subseteq Fallback!Candidates
  BY <1>1, Typed DEF Picked
<1> QED
  BY <1>1, <1>2, <1>3, <1>4, <1>5, <1>6, Typed, FoundStep

LEMMA NewEpochStep == Fallback!FallbackAssumption /\ FInv /\ Fallback!NewEpoch => FInv'
<1> SUFFICES ASSUME Fallback!FallbackAssumption, FInv, Fallback!NewEpoch PROVE FInv'
  OBVIOUS
<1>1. epochs' \in 0..MaxEpochs
  BY Typed DEF Fallback!NewEpoch, Fallback!FallbackAssumption
<1>2. UNCHANGED <<call, current, stopped, alive, overlap>>
  BY DEF Fallback!NewEpoch
<1>3. Fallback!TypeOK' /\ failed' \subseteq tried'
  BY <1>1, Typed DEF Fallback!TypeOK, Fallback!NewEpoch, CallRecords
<1>4. \A c \in Calls : /\ Fallback!Busy(c)' = Fallback!Busy(c) /\ Picked(c)' = Picked(c)
                       /\ Under(c) => Under(c)'
  BY <1>2 DEF Fallback!Busy, Picked, Under, Fallback!NewEpoch
<1>5. Resting' = Resting
  BY <1>2 DEF Resting
<1> QED
  BY <1>2, <1>3, <1>4, <1>5 DEF FInv

LEMMA FallbackInit == Fallback!FallbackAssumption /\ Fallback!Init => FInv
<1> SUFFICES ASSUME Fallback!FallbackAssumption, Fallback!Init PROVE FInv
  OBVIOUS
<1>1. /\ call \in [Calls -> CallRecords] /\ \A c \in Calls : call[c].at = "new"
  BY DEF Fallback!Init, CallRecords
<1>2. epochs \in 0..MaxEpochs
  BY DEF Fallback!Init, Fallback!FallbackAssumption
<1>3. Fallback!TypeOK /\ failed \subseteq tried
  BY <1>1, <1>2 DEF Fallback!Init, Fallback!TypeOK, CallRecords
<1>4. \A c \in Calls : ~Fallback!Busy(c) /\ Picked(c)
  BY <1>1 DEF Fallback!Busy, Picked
<1>5. Resting
  BY DEF Fallback!Init, Resting
<1> QED
  BY <1>3, <1>4, <1>5 DEF FInv

LEMMA FallbackKeeps ==
  Fallback!FallbackAssumption /\ FInv /\ [Fallback!Next]_(Fallback!vars) => FInv'
<1> SUFFICES ASSUME Fallback!FallbackAssumption, FInv, [Fallback!Next]_(Fallback!vars) PROVE FInv'
  OBVIOUS
<1>1. CASE UNCHANGED Fallback!vars
  BY <1>1 DEF Fallback!vars, FInv, Fallback!TypeOK, Fallback!Busy, Under, Picked, Resting
<1>2. CASE Fallback!NewEpoch
  BY <1>2, NewEpochStep
<1>3. ASSUME NEW c \in Calls,
             \/ Fallback!CallConfigureNext(c) \/ Fallback!CallReportFailure(c)
             \/ Fallback!CallStop(c) \/ Fallback!Continue(c)
      PROVE  FInv'
  <2>1. CASE Fallback!CallConfigureNext(c)
    BY <2>1, CalledFinds DEF Fallback!CallConfigureNext
  <2>2. CASE Fallback!CallReportFailure(c)
    BY <2>2, CallReportFailureStep
  <2>3. CASE Fallback!CallStop(c)
    BY <2>3, CallStopStep
  <2>4. CASE Fallback!Continue(c)
    BY <2>4, StopCurrentEndsStep, ConfigureWorksStep, FallbackFailsStep, CleanupEndsStep
       DEF Fallback!Continue
  <2> QED
    BY <1>3, <2>1, <2>2, <2>3, <2>4
<1> QED
  BY <1>1, <1>2, <1>3 DEF Fallback!Next

LEMMA FallbackHolds == FInv => Fallback!TypeOK /\ Fallback!OneBackend
<1> SUFFICES ASSUME FInv PROVE Fallback!TypeOK /\ Fallback!OneBackend
  OBVIOUS
<1>1. Fallback!TypeOK
  BY DEF FInv
<1>2. ASSUME ~overlap
      PROVE  /\ alive = {} \/ \E x \in Fallback!Objects : alive = {x}
             /\ (\A c \in Calls : ~Fallback!Busy(c)) =>
                  alive = IF current = Fallback!NoBackend THEN {} ELSE {current}
             /\ stopped /\ (\A c \in Calls : ~Fallback!Busy(c)) => alive = {}
  <2>1. CASE \A c \in Calls : ~Fallback!Busy(c)
    BY <1>2, <2>1, Typed DEF FInv, Resting
  <2>2. ASSUME NEW c \in Calls, Fallback!Busy(c)
        PROVE  \E x \in Fallback!Objects : alive = {x}
    <3>1. Under(c) /\ Picked(c)
      BY <1>2, <2>2 DEF FInv
    <3>2. call[c].at \in {"reporting", "replacing", "stopping", "configuring", "cleanup"}
      BY <2>2, Typed DEF Fallback!Busy, CallRecords
    <3> QED
      BY <3>1, <3>2, Typed DEF Under, Picked, Fallback!Objects
  <2> QED
    BY <2>1, <2>2
<1>3. Fallback!OneBackend
  BY <1>2 DEF Fallback!OneBackend
<1> QED
  BY <1>1, <1>3

\* What a call configures without an overlap has no backend that failed.
LEMMA FoundFresh ==
  ASSUME FInv, NEW c \in Calls, NEW b, NEW now, Found(c, tried, b, now),
         failed' = failed, NEW d \in Calls,
         call'[d].at = "configuring", call[d].at # "configuring"
  PROVE  CandidatePlan[call'[d].pick] \cap failed' = {}
<1>1. failed \subseteq tried /\ call \in [Calls -> CallRecords]
  BY Typed
<1>2. CASE call' = [call EXCEPT ![c].at = "returned"]
  BY <1>1, <1>2 DEF CallRecords
<1>3. ASSUME NEW i \in Fallback!Candidates, CandidatePlan[i] \cap tried = {},
             call' =
                [call EXCEPT ![c] =
                   [at |-> IF b = Fallback!NoBackend THEN "configuring" ELSE "replacing",
                    pick |-> i, leaving |-> b]]
      PROVE  CandidatePlan[call'[d].pick] \cap failed' = {}
  BY <1>1, <1>3
<1> QED
  BY <1>2, <1>3 DEF Found

LEMMA FreshStep ==
  ASSUME Fallback!FallbackAssumption, FInv, [Fallback!Next]_(Fallback!vars), NEW d \in Calls,
         ~overlap, call'[d].at = "configuring", call[d].at # "configuring"
  PROVE  CandidatePlan[call'[d].pick] \cap failed' = {}
<1>1. call \in [Calls -> CallRecords]
  BY Typed
<1>2. PICK c \in Calls :
        \/ Fallback!CallConfigureNext(c) \/ Fallback!CallReportFailure(c)
        \/ Fallback!CallStop(c) \/ Fallback!StopCurrentEnds(c)
        \/ Fallback!ConfigureWorks(c) \/ Fallback!ConfigureFails(c)
        \/ Fallback!CleanupEnds(c)
  BY DEF Fallback!Next, Fallback!Continue, Fallback!vars, Fallback!NewEpoch
<1>3. CASE Fallback!CallConfigureNext(c)
  BY <1>3, ConfigureNextFinds, FoundFresh DEF Fallback!CallConfigureNext
<1>4. CASE Fallback!CallReportFailure(c)
  <2>1. CASE stopped \/ current = Fallback!NoBackend
    BY <1>4, <2>1, ConfigureNextFinds, FoundFresh DEF Fallback!CallReportFailure
  <2>2. CASE ~(stopped \/ current = Fallback!NoBackend)
    BY <1>1, <1>4, <2>2 DEF Fallback!CallReportFailure, CallRecords
  <2> QED
    BY <2>1, <2>2
<1>5. CASE Fallback!CallStop(c) \/ Fallback!ConfigureWorks(c) \/ Fallback!ConfigureFails(c)
  BY <1>1, <1>5
     DEF Fallback!CallStop, Fallback!ConfigureWorks, Fallback!ConfigureFails, Fallback!Await,
         CallRecords
<1>6. CASE Fallback!StopCurrentEnds(c)
  <2>1. CASE call[c].at = "stopping" /\ Fallback!Await(c, "returned")
    BY <1>1, <2>1 DEF Fallback!Await, CallRecords
  <2>2. CASE call[c].at = "replacing" /\ Fallback!Await(c, "configuring")
    <3>1. Under(c)
      BY <2>2, ContinuesAlone DEF Fallback!Busy
    <3>2. c = d /\ call'[d].pick = call[d].pick /\ failed' = failed
      BY <1>1, <1>6, <2>2 DEF Fallback!Await, CallRecords, Fallback!StopCurrentEnds
    <3> QED
      BY <2>2, <3>1, <3>2 DEF Under
  <2>3. CASE Fallback!ConfigureNext(c, tried, triedCandidates, Fallback!NoBackend,
         alive \ {call[c].leaving})
    BY <1>6, <2>3, ConfigureNextFinds, FoundFresh DEF Fallback!StopCurrentEnds
  <2> QED
    BY <1>6, <2>1, <2>2, <2>3 DEF Fallback!StopCurrentEnds
<1>7. CASE Fallback!CleanupEnds(c)
  BY <1>7, ConfigureNextFinds, FoundFresh DEF Fallback!CleanupEnds
<1> QED
  BY <1>2, <1>3, <1>4, <1>5, <1>6, <1>7

\* However calls of configureNext(), reportFailure() and stop(), new epochs and
\* backends that fail interleave, for any plan: unless calls overlap, one backend
\* is alive at a time on every error path and none is left after stop(), and no
\* backend that failed is configured again in its epoch (fallback.ts:51, 252).
THEOREM FallbackCorrect == Fallback!Spec => FallbackSafe
<1>1. Fallback!Init => FInv
  BY FallbackInit, FallbackAssumption
<1>2. FInv /\ [Fallback!Next]_(Fallback!vars) => FInv'
  BY FallbackKeeps, FallbackAssumption
<1>3. FInv => Fallback!TypeOK /\ Fallback!OneBackend
  BY FallbackHolds, FallbackAssumption
<1>4. FInv /\ [Fallback!Next]_(Fallback!vars) =>
        [\A c \in Calls :
           ~overlap /\ call'[c].at = "configuring" /\ call[c].at # "configuring"
             => CandidatePlan[call'[c].pick] \cap failed' = {}]_(Fallback!vars)
  BY FreshStep, FallbackAssumption
<1> QED
  BY <1>1, <1>2, <1>3, <1>4, PTL
  DEF Fallback!Spec, FallbackSafe, Fallback!FallbackSafe, Fallback!NoLoops

-----------------------------------------------------------------------------
(* The planner of pipelines *)

\* The plans are those of the request and what was probed.
PInv ==
  /\ request \in Planner!Requests /\ caps \in Planner!Snapshots
  /\ plans \in {<<>>, Planner!PlanFor(request, caps)}

\* The two candidates of plan().
Base(r, c) == [Planner!Adjusted(Planner!BasePlan(r, c), r, c) EXCEPT !.copy = Planner!CopyBytes(r)]
Second(r, c) ==
  [Planner!FallbackPlan(r, c) EXCEPT !.score = Base(r, c).score - 1, !.copy = Planner!CopyBytes(r)]

LEMMA TracksAre ==
  ASSUME NEW r \in Planner!Requests
  PROVE  /\ r.tracks \in Seq(Planner!Tracks) /\ Len(r.tracks) \in Nat
         /\ DOMAIN r.tracks = 1..Len(r.tracks)
         /\ r.low \in BOOLEAN /\ r.isolation \in BOOLEAN /\ r.tight \in BOOLEAN
<1>1. r.tracks \in UNION {[1..n -> Planner!Tracks] : n \in 0..MaxTracks}
  BY DEF Planner!Requests
<1>2. PICK n \in 0..MaxTracks : r.tracks \in [1..n -> Planner!Tracks]
  BY <1>1
<1>3. n \in Nat
  OBVIOUS
<1>4. r.tracks \in Seq(Planner!Tracks)
  BY <1>2, <1>3
<1> QED
  BY <1>4 DEF Planner!Requests

LEMMA MaxIsIn ==
  ASSUME NEW n \in Nat, NEW S \in SUBSET (1..n), S # {}
  PROVE  Planner!Max(S) \in S
<1> DEFINE R == OpToRel(<, Nat)
           T == {n - x : x \in S}
<1>1. T # {} /\ T \subseteq Nat
  <2>1. \A x \in S : n - x \in Nat
    <3> SUFFICES ASSUME NEW x \in S PROVE n - x \in Nat
      OBVIOUS
    <3>1. x \in 1..n
      OBVIOUS
    <3> QED
      BY <3>1
  <2>2. T \subseteq Nat
    BY <2>1
  <2> QED
    BY <2>2
<1>2. IsWellFoundedOn(R, Nat)
  BY NatLessThanWellFounded
<1>3. PICK m \in T : \A k \in T : ~(<<k, m>> \in R)
  <2> HIDE DEF T, R
  <2> QED
    BY <1>1, <1>2, WFMin
<1>4. PICK x \in S : m = n - x
  BY <1>3
<1>5. ASSUME NEW y \in S PROVE x >= y
  <2>1. n - y \in T /\ ~(<<n - y, n - x>> \in R)
    BY <1>3, <1>4
  <2>2. n - y \in Nat /\ n - x \in Nat
    BY <1>1, <1>4, <2>1
  <2>3. ~(n - y < n - x)
    BY <2>1, <2>2 DEF OpToRel
  <2> QED
    BY <2>3
<1> QED
  BY <1>5 DEF Planner!Max

LEMMA DecidingIs ==
  ASSUME NEW r \in Planner!Requests, NEW kind, NEW codecs
  PROVE  LET i == Planner!Deciding(r, kind, codecs)
         IN  \/ /\ i = 0
                /\ \A j \in DOMAIN r.tracks : ~(r.tracks[j].kind = kind /\ r.tracks[j].codec \in codecs)
             \/ /\ i # 0 /\ i \in DOMAIN r.tracks
                /\ r.tracks[i].kind = kind /\ r.tracks[i].codec \in codecs
<1> DEFINE I == {i \in 1..Len(r.tracks) : r.tracks[i].kind = kind /\ r.tracks[i].codec \in codecs}
<1>1. Planner!Deciding(r, kind, codecs) = IF I # {} THEN Planner!Max(I) ELSE 0
  BY DEF Planner!Deciding, Planner!SelectLastInSeq
<1>2. Len(r.tracks) \in Nat /\ DOMAIN r.tracks = 1..Len(r.tracks)
  BY TracksAre
<1>3. CASE I = {}
  BY <1>1, <1>2, <1>3
<1>4. CASE I # {}
  <2>1. Planner!Max(I) \in I
    <3>1. I \in SUBSET (1..Len(r.tracks))
      OBVIOUS
    <3> HIDE DEF I
    <3> QED
      BY <1>2, <1>4, <3>1, MaxIsIn
  <2> QED
    BY <1>1, <1>2, <1>4, <2>1, SMTT(30)
<1> QED
  BY <1>3, <1>4

\* The decode path of a kind in the base plan, and in the software plan.
PathOf(r, c, kind) ==
  LET i == Planner!Deciding(r, kind, Codecs)
  IN IF i = 0 THEN "Software" ELSE Planner!BestDecodePath(r.tracks[i].codec, c)
SoftPathOf(r, c, kind) ==
  IF Planner!Deciding(r, kind, c.ffmpeg) = 0 THEN PathOf(r, c, kind) ELSE "FFmpegWasm"

Points(r, c) ==
  100 + (IF r.low THEN 10 ELSE 0) - (IF r.isolation /\ ~c.isolated THEN 20 ELSE 0)
      - (IF r.tight THEN 5 ELSE 0)

LEMMA BaseFields ==
  \A r, c : /\ Base(r, c).video = PathOf(r, c, "Video") /\ Base(r, c).audio = PathOf(r, c, "Audio")
            /\ Base(r, c).score = Points(r, c)
<1> TAKE r, c
<1> DEFINE p == Planner!BasePlan(r, c)
<1>1. /\ p.video = PathOf(r, c, "Video") /\ p.audio = PathOf(r, c, "Audio") /\ p.score = 100
      /\ DOMAIN p = {"demux", "video", "audio", "render", "sound", "record", "reasons", "copy",
          "score"}
  BY DEF Planner!BasePlan, PathOf
<1> HIDE DEF p
<1> DEFINE q == Planner!Adjusted(p, r, c)
<1>2. /\ q.video = p.video /\ q.audio = p.audio /\ DOMAIN q = DOMAIN p
      /\ q.score = Points(r, c)
  BY <1>1 DEF Planner!Adjusted, Points
<1> HIDE DEF q
<1>3. Base(r, c) = [q EXCEPT !.copy = Planner!CopyBytes(r)]
  BY DEF Base, q, p
<1> QED
  BY <1>1, <1>2, <1>3

LEMMA SecondFields ==
  \A r, c : /\ Second(r, c).video = SoftPathOf(r, c, "Video")
            /\ Second(r, c).audio = SoftPathOf(r, c, "Audio")
            /\ Second(r, c).score = Points(r, c) - 1
<1> TAKE r, c
<1> DEFINE p == Planner!BasePlan(r, c)
<1>1. /\ p.video = PathOf(r, c, "Video") /\ p.audio = PathOf(r, c, "Audio")
      /\ DOMAIN p = {"demux", "video", "audio", "render", "sound", "record", "reasons", "copy",
          "score"}
  BY DEF Planner!BasePlan, PathOf
<1> HIDE DEF p
<1> DEFINE q == Planner!FallbackPlan(r, c)
<1>2. /\ q.video = SoftPathOf(r, c, "Video") /\ q.audio = SoftPathOf(r, c, "Audio")
      /\ DOMAIN q = DOMAIN p
  BY <1>1 DEF Planner!FallbackPlan, Planner!Packed, SoftPathOf, p
<1> HIDE DEF q
<1>3. Second(r, c) = [q EXCEPT !.score = Base(r, c).score - 1, !.copy = Planner!CopyBytes(r)]
  BY DEF Second, q
<1> QED
  BY <1>1, <1>2, <1>3, BaseFields

\* What plan() returns: the base plan before the software plan, or nothing.
LEMMA PlanIs ==
  ASSUME NEW r \in Planner!Requests, NEW c
  PROVE  Planner!PlanFor(r, c) =
           IF c.confidence = 0 \/ ~Planner!Supportable(r, c) \/ ~Planner!WithinLimits(r)
             THEN Planner!NotSupported ELSE <<Base(r, c), Second(r, c)>>
<1>1. Points(r, c) \in Int
  BY TracksAre DEF Points
<1>2. Second(r, c).score = Base(r, c).score - 1 /\ Base(r, c).score \in Int
  BY <1>1, BaseFields, SecondFields
<1>3. Planner!Ranked(Base(r, c), Second(r, c)) = <<Base(r, c), Second(r, c)>>
  <2>1. ~(Second(r, c).score > Base(r, c).score)
    BY <1>2
  <2> QED
    BY <2>1 DEF Planner!Ranked
<1> QED
  BY <1>3 DEF Planner!PlanFor, Base, Second

LEMMA PathsAre ==
  \A r, c, k : PathOf(r, c, k) \in Planner!DecodePaths
      /\ SoftPathOf(r, c, k) \in Planner!DecodePaths
BY DEF PathOf, SoftPathOf, Planner!BestDecodePath, Planner!DecodePaths

LEMMA PlanTyped == PInv => Planner!TypeOK
<1> SUFFICES ASSUME PInv, plans # Planner!NotSupported, NEW i \in DOMAIN plans
             PROVE  plans[i].video \in Planner!DecodePaths /\ plans[i].audio \in Planner!DecodePaths
  BY DEF PInv, Planner!TypeOK
<1>1. plans = <<Base(request, caps), Second(request, caps)>>
  BY PlanIs DEF PInv
<1>2. plans[i] \in {Base(request, caps), Second(request, caps)}
  BY <1>1
<1> QED
  BY <1>2, BaseFields, SecondFields, PathsAre

\* What a list with candidates was made of.
LEMMA PlannedIs ==
  PInv /\ Planner!Planned => /\ plans = <<Base(request, caps), Second(request, caps)>>
                             /\ caps.confidence # 0 /\ Planner!Supportable(request, caps)
                             /\ Planner!WithinLimits(request)
BY PlanIs DEF PInv, Planner!Planned

\* The path that is chosen for a track alone of its kind decodes it.
LEMMA PathDecodes ==
  ASSUME PInv, Planner!Supportable(request, caps), NEW i \in DOMAIN request.tracks,
         Planner!Alone(i),
         NEW kind \in {"Video", "Audio"}, request.tracks[i].kind = kind
  PROVE  /\ Planner!Decodes(PathOf(request, caps, kind), request.tracks[i].codec)
         /\ Planner!Decodes(SoftPathOf(request, caps, kind), request.tracks[i].codec)
<1>1. request \in Planner!Requests /\ request.tracks[i].codec \in Codecs
  <2>1. request.tracks[i] \in Planner!Tracks
    BY TracksAre DEF PInv
  <2> QED
    BY <2>1 DEF PInv, Planner!Tracks
<1>2. Planner!Deciding(request, kind, Codecs) = i /\ i # 0
  <2>1. i # 0
    BY <1>1, TracksAre
  <2> QED
    BY <1>1, <2>1, DecidingIs DEF Planner!Alone
<1>3. Planner!Decodes(PathOf(request, caps, kind), request.tracks[i].codec)
  BY <1>2 DEF PathOf, Planner!Supportable, Planner!CodecSupported, Planner!BestDecodePath,
     Planner!Decodes
<1>4. CASE Planner!Deciding(request, kind, caps.ffmpeg) = 0
  BY <1>3, <1>4 DEF SoftPathOf
<1>5. CASE Planner!Deciding(request, kind, caps.ffmpeg) # 0
  <2>1. request.tracks[i].codec \in caps.ffmpeg
    BY <1>1, <1>5, DecidingIs DEF Planner!Alone
  <2> QED
    BY <1>3, <1>5, <2>1 DEF SoftPathOf, Planner!Decodes
<1> QED
  BY <1>3, <1>4, <1>5

LEMMA PlansDo == PInv => Planner!PlansDecode
<1> SUFFICES ASSUME PInv, Planner!Planned, NEW i \in DOMAIN request.tracks, NEW k \in DOMAIN plans,
                    Planner!Alone(i)
             PROVE  /\ request.tracks[i].kind = "Video" =>
                         Planner!Decodes(plans[k].video, request.tracks[i].codec)
                    /\ request.tracks[i].kind = "Audio" =>
                         Planner!Decodes(plans[k].audio, request.tracks[i].codec)
  BY DEF Planner!PlansDecode
<1>1. plans[k] \in {Base(request, caps), Second(request, caps)}
      /\ Planner!Supportable(request, caps)
  BY PlannedIs
<1> QED
  BY <1>1, PathDecodes, BaseFields, SecondFields

LEMMA FallbackDoes == PInv => Planner!FallbackIndependent
<1> SUFFICES ASSUME PInv, Planner!Planned, NEW i \in DOMAIN request.tracks,
                    request.tracks[i].codec \in caps.ffmpeg
             PROVE  /\ request.tracks[i].kind = "Video" => plans[Len(plans)].video = "FFmpegWasm"
                    /\ request.tracks[i].kind = "Audio" => plans[Len(plans)].audio = "FFmpegWasm"
  BY DEF Planner!FallbackIndependent
<1>1. plans[Len(plans)] = Second(request, caps)
  <2>1. plans = <<Base(request, caps), Second(request, caps)>>
    BY PlannedIs
  <2>2. Len(plans) = 2 /\ plans[2] = Second(request, caps)
    BY <2>1
  <2> QED
    BY <2>2
<1>2. ASSUME NEW kind, request.tracks[i].kind = kind
      PROVE  SoftPathOf(request, caps, kind) = "FFmpegWasm"
  <2>1. request \in Planner!Requests
    BY DEF PInv
  <2>2. Planner!Deciding(request, kind, caps.ffmpeg) # 0
    BY <1>2, <2>1, DecidingIs
  <2> QED
    BY <2>2 DEF SoftPathOf
<1> QED
  BY <1>1, <1>2, SecondFields

LEMMA MoreDoes == PInv => Planner!MoreIsNoWorse
<1> SUFFICES ASSUME PInv, Planner!Planned, NEW c \in Planner!More
             PROVE  LET better == Planner!PlanFor(request, c)
                    IN better # Planner!NotSupported /\ better[1].score >= plans[1].score
  BY DEF Planner!MoreIsNoWorse
<1>1. /\ plans = <<Base(request, caps), Second(request, caps)>>
      /\ caps.confidence # 0 /\ Planner!Supportable(request, caps) /\ Planner!WithinLimits(request)
  BY PlannedIs
<1>2. request \in Planner!Requests /\ caps \in Planner!Snapshots
  BY DEF PInv
<1>3. /\ c.confidence = caps.confidence /\ caps.webcodecs \subseteq c.webcodecs
      /\ caps.ffmpeg \subseteq c.ffmpeg /\ c.isolated \in BOOLEAN /\ (caps.isolated => c.isolated)
  <2>1. /\ DOMAIN caps = {"webcodecs", "ffmpeg", "webgpu", "webgl", "isolated", "confidence"}
        /\ caps.isolated \in BOOLEAN
    BY <1>2 DEF Planner!Snapshots
  <2>2. CASE c \in {[caps EXCEPT !.webcodecs = @ \cup {x}] : x \in Codecs}
    <3>1. PICK x \in Codecs : c = [caps EXCEPT !.webcodecs = @ \cup {x}]
      BY <2>2
    <3>2. /\ c.webcodecs = caps.webcodecs \cup {x} /\ c.ffmpeg = caps.ffmpeg
          /\ c.isolated = caps.isolated /\ c.confidence = caps.confidence
      BY <2>1, <3>1
    <3> QED
      BY <2>1, <3>2
  <2>3. CASE c \in {[caps EXCEPT !.ffmpeg = @ \cup {x}] : x \in Codecs}
    <3>1. PICK x \in Codecs : c = [caps EXCEPT !.ffmpeg = @ \cup {x}]
      BY <2>3
    <3>2. /\ c.ffmpeg = caps.ffmpeg \cup {x} /\ c.webcodecs = caps.webcodecs
          /\ c.isolated = caps.isolated /\ c.confidence = caps.confidence
      BY <2>1, <3>1
    <3> QED
      BY <2>1, <3>2
  <2>4. CASE c \in {[caps EXCEPT !.isolated = TRUE], [caps EXCEPT !.webgpu = TRUE],
                    [caps EXCEPT !.webgl = TRUE]}
    BY <2>1, <2>4
  <2> QED
    BY <2>2, <2>3, <2>4 DEF Planner!More
<1>4. Planner!Supportable(request, c)
  BY <1>1, <1>3 DEF Planner!Supportable, Planner!CodecSupported, Planner!BestDecodePath
<1>5. Planner!PlanFor(request, c) = <<Base(request, c), Second(request, c)>>
  BY <1>1, <1>2, <1>3, <1>4, PlanIs
<1>6. Points(request, c) >= Points(request, caps)
  BY <1>2, <1>3, TracksAre DEF Points
<1>7. Planner!PlanFor(request, c) # Planner!NotSupported
  BY <1>5 DEF Planner!NotSupported
<1> QED
  BY <1>1, <1>5, <1>6, <1>7, BaseFields

\* For any request, however many tracks it has, and any probed capabilities: every
\* plan on the list decodes the tracks it was made for, the last one does without
\* the browser's decoders where there is a pack, and a platform with one capability
\* more is offered no less (planner.rs:200).
THEOREM PlansCorrect == Planner!Spec => []PlansSafe
<1>1. Planner!Init => PInv
  BY DEF Planner!Init, PInv
<1>2. PInv /\ [Planner!Next]_(Planner!vars) => PInv'
  BY DEF PInv, Planner!Next, Planner!Plan, Planner!vars
<1>3. PInv => PlansSafe
  BY PlanTyped, PlansDo, FallbackDoes, MoreDoes DEF PlansSafe, Planner!PlansSafe
<1> QED
  BY <1>1, <1>2, <1>3, PTL DEF Planner!Spec
===============================================================================

