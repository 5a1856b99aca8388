------------------------------- MODULE AudioRing -------------------------------
(***************************************************************************)
(* The shared audio ring (packages/runtime, audio/ring.ts) between the     *)
(* main thread, which writes decoded frames and resets the ring after a    *)
(* discontinuity (audio/pipeline.ts), and the AudioWorklet, which plays a  *)
(* block of frames per process() call (audio/worklet.ts).  The threads     *)
(* share memory only: every Atomics access is a step, and so is the copy   *)
(* of each frame.  A frame is its number; one slot stays empty.            *)
(*                                                                         *)
(* Left out: the channels of a frame and the underrun and overrun counters *)
(* (diagnostics).                                                          *)
(***************************************************************************)
EXTENDS Integers, Sequences

CONSTANTS Capacity,   \* frames in the ring
          Block,      \* frames a process() call plays
          Batches,    \* numbers of frames a decoded batch may have
          MaxFrames,  \* bound on the frames written, for model checking
          MaxResets   \* bound on the resets after the first, for model checking

ASSUME RingAssumption ==
  /\ Capacity \in Nat \ {0} /\ Block \in Nat \ {0}
  /\ Batches \subseteq Nat \ {0}
  /\ MaxFrames \in Nat /\ MaxResets \in Nat

VARIABLES
  write, read, gen,   \* IDX_WRITE, IDX_READ, IDX_GENERATION
  slots,              \* the samples; 0 was never written
  main,               \* the main thread: where it is, and its locals
  worklet,            \* the audio thread: where it is, and its locals
  written,            \* ghost: frames copied so far; frames are numbered from 1
  resets,             \* ghost: completed resets after the first
  floor,              \* ghost: frames copied when the last reset completed
  heard               \* ghost: the frames played, in order, up to MaxHeard

vars == <<write, read, gen, slots, main, worklet, written, resets, floor, heard>>

\* Only a reset makes the worklet play a frame again; what it plays past this
\* bound is not recorded.
MaxHeard == MaxFrames + 1

Slots == 0..(Capacity - 1)
Available(w, r) == (w - r + Capacity) % Capacity

Idle == [at |-> "idle", index |-> 0, left |-> 0]

TypeOK ==
  /\ write \in Slots /\ read \in Slots /\ gen \in 1..(MaxResets + 1)
  /\ slots \in [Slots -> 0..MaxFrames]
  /\ main \in [at : {"idle", "copy", "reset1", "reset2"}, index : Slots, left : 0..Capacity]
  /\ worklet \in [at : {"idle", "loadRead", "loadGen", "play", "store"}, write : Slots,
                  index : Slots, left : 0..Block, gen : 0..(MaxResets + 1), floor : 0..MaxFrames]
  /\ written \in 0..MaxFrames /\ resets \in 0..MaxResets /\ floor \in 0..MaxFrames
  /\ heard \in Seq(0..MaxFrames)

\* The constructor resets the ring before the worklet exists.
Init ==
  /\ write = 0 /\ read = 0 /\ gen = 1
  /\ slots = [s \in Slots |-> 0]
  /\ main = Idle
  /\ worklet = [at |-> "idle", write |-> 0, index |-> 0, left |-> 0, gen |-> 0, floor |-> 0]
  /\ written = 0 /\ resets = 0 /\ floor = 0
  /\ heard = <<>>

-----------------------------------------------------------------------------
(* Main thread: SharedAudioRingBuffer.write and reset *)

\* Mutant: no slot is kept empty.
WriteBeginFull(n) ==
  LET free == Capacity - Available(write, read)
      todo == IF n < free THEN n ELSE free
  IN /\ main.at = "idle"
     /\ todo > 0 /\ written + todo <= MaxFrames
     /\ main' = [at |-> "copy", index |-> write, left |-> todo]
     /\ UNCHANGED <<write, read, gen, slots, worklet, written, resets, floor, heard>>

\* Loads both indices and decides how many frames fit; the rest is dropped.
WriteBegin(n) ==
  LET free == Capacity - Available(write, read) - 1
      todo == IF n < free THEN n ELSE free
  IN /\ main.at = "idle"
     /\ todo > 0 /\ written + todo <= MaxFrames
     /\ main' = [at |-> "copy", index |-> write, left |-> todo]
     /\ UNCHANGED <<write, read, gen, slots, worklet, written, resets, floor, heard>>

\* Mutant: the write index is published before the frames are.
CopyFrameEarly ==
  /\ main.at = "copy" /\ main.left > 0
  /\ slots' = [slots EXCEPT ![main.index] = written + 1]
  /\ written' = written + 1
  /\ main' = [main EXCEPT !.index = (@ + 1) % Capacity, !.left = @ - 1]
  /\ write' = (main.index + main.left) % Capacity
  /\ UNCHANGED <<read, gen, worklet, resets, floor, heard>>

CopyFrame ==
  /\ main.at = "copy" /\ main.left > 0
  /\ slots' = [slots EXCEPT ![main.index] = written + 1]
  /\ written' = written + 1
  /\ main' = [main EXCEPT !.index = (@ + 1) % Capacity, !.left = @ - 1]
  /\ UNCHANGED <<write, read, gen, worklet, resets, floor, heard>>

WriteEnd ==
  /\ main.at = "copy" /\ main.left = 0
  /\ write' = main.index
  /\ main' = Idle
  /\ UNCHANGED <<read, gen, slots, worklet, written, resets, floor, heard>>

\* reset(): three stores, read index first, generation last.
ResetRead ==
  /\ main.at = "idle" /\ resets < MaxResets
  /\ read' = 0
  /\ main' = [main EXCEPT !.at = "reset1"]
  /\ UNCHANGED <<write, gen, slots, worklet, written, resets, floor, heard>>

ResetWrite ==
  /\ main.at = "reset1"
  /\ write' = 0
  /\ main' = [main EXCEPT !.at = "reset2"]
  /\ UNCHANGED <<read, gen, slots, worklet, written, resets, floor, heard>>

ResetGeneration ==
  /\ main.at = "reset2"
  /\ gen' = gen + 1
  /\ resets' = resets + 1
  /\ floor' = written
  /\ main' = Idle
  /\ UNCHANGED <<write, read, slots, worklet, written, heard>>

-----------------------------------------------------------------------------
(* Audio thread: CheetahAudioProcessor.process *)

LoadWrite ==
  /\ worklet.at = "idle"
  /\ worklet' = [worklet EXCEPT !.at = "loadRead", !.write = write, !.floor = floor]
  /\ UNCHANGED <<write, read, gen, slots, main, written, resets, floor, heard>>

LoadRead ==
  /\ worklet.at = "loadRead"
  /\ worklet' = [worklet EXCEPT !.at = "loadGen", !.index = read]
  /\ UNCHANGED <<write, read, gen, slots, main, written, resets, floor, heard>>

\* A new generation: nothing written before is played.
LoadGen ==
  /\ worklet.at = "loadGen"
  /\ worklet' = [worklet EXCEPT !.at = "play", !.gen = gen, !.left = Block,
                                !.index = IF gen # worklet.gen THEN worklet.write ELSE @]
  /\ UNCHANGED <<write, read, gen, slots, main, written, resets, floor, heard>>

\* A frame, or silence when it has caught up with the write index it loaded.
PlayFrame ==
  /\ worklet.at = "play" /\ worklet.left > 0
  /\ \/ /\ worklet.index = worklet.write
        /\ worklet' = [worklet EXCEPT !.left = @ - 1]
        /\ UNCHANGED heard
     \/ /\ worklet.index # worklet.write
        /\ heard' = IF slots[worklet.index] = 0 \/ Len(heard) = MaxHeard
                    THEN heard ELSE Append(heard, slots[worklet.index])
        /\ worklet' = [worklet EXCEPT !.left = @ - 1, !.index = (@ + 1) % Capacity]
  /\ UNCHANGED <<write, read, gen, slots, main, written, resets, floor>>

StoreRead ==
  /\ worklet.at = "play" /\ worklet.left = 0
  /\ read' = worklet.index
  /\ worklet' = [worklet EXCEPT !.at = "idle"]
  /\ UNCHANGED <<write, gen, slots, main, written, resets, floor, heard>>

Main == (\E n \in Batches : WriteBegin(n)) \/ CopyFrame \/ WriteEnd
          \/ ResetRead \/ ResetWrite \/ ResetGeneration
Process == LoadWrite \/ LoadRead \/ LoadGen \/ PlayFrame \/ StoreRead

Next == Main \/ Process

\* The audio thread calls process() for as long as the context runs, and a
\* started call of the main thread runs to its end.
Spec ==
  /\ Init /\ [][Next]_vars
  /\ WF_vars(Process)
  /\ WF_vars(CopyFrame \/ WriteEnd \/ ResetWrite \/ ResetGeneration)

-----------------------------------------------------------------------------
(* Properties *)

\* Until a reset, frames are heard in the order they were written, each once and
\* none left out in the middle, whatever the threads' interleaving and however
\* often the indices wrap; what was written before the worklet's first call is
\* skipped as a whole.
HeardInOrder ==
  resets = 0 /\ main.at # "reset1" /\ main.at # "reset2" =>
    \A i \in 1..(Len(heard) - 1) : heard[i + 1] = heard[i] + 1

\* Until a reset, the writer never touches a slot the worklet may still play: what
\* lies between the indices is the run of the last frames published.
UnplayedIntact ==
  resets = 0 /\ main.at \in {"idle", "copy"} =>
    LET n == Available(write, read)
        published == IF main.at = "copy"
                     THEN written - Available(main.index, write) ELSE written
    IN \A i \in 1..n : slots[(write - i + Capacity) % Capacity] = published - i + 1

\* Until a reset, no frame is lost, repeated or overwritten, heard or not.
FramesIntact == HeardInOrder /\ UnplayedIntact

\* Both, in a ring whose indices stay within it.
RingSafe == TypeOK /\ FramesIntact

\* Unless the ring is reset, a frame once the worklet has joined is heard: the
\* ring neither loses its tail nor stops.
EventuallyHeard ==
  \A n \in 1..MaxFrames :
    (written = n /\ main.at = "idle" /\ heard # <<>>) ~>
      (resets > 0 \/ main.at = "reset1" \/ main.at = "reset2" \/ \E i \in 1..Len(heard) : heard[i] = n)

\* ring.ts:38 "Reset the ring, dropping all samples and bumping generation.": a
\* process() call that begins after a reset plays nothing written before it.
NothingStaleHeard ==
  [][heard' # heard => heard'[Len(heard')] > worklet.floor]_vars
=============================================================================
