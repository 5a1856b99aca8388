-------------------------------- MODULE GopCache --------------------------------
(***************************************************************************)
(* The cache of groups of pictures (gop.rs): packets since a key frame,    *)
(* bounded in bytes, frames and duration over all groups.                  *)
(*                                                                         *)
(* Packets are numbered in the order they are fed; a decoder of generation *)
(* g can decode the packets that were fed under g.                         *)
(***************************************************************************)
EXTENDS Integers, SequencesExt, FiniteSetsExt

CONSTANTS MaxBytes, MaxFrames, MaxDuration,  \* GopLimits
          Sizes, Times,                      \* of packets; a time may also be unknown
          MaxPackets, MaxGeneration          \* bounds, for model checking

GopAssumption ==
  /\ MaxBytes \in Nat /\ MaxFrames \in Nat /\ MaxDuration \in Nat
  /\ Sizes \subseteq Nat /\ Times \subseteq Int
  /\ MaxPackets \in Nat /\ MaxGeneration \in Nat

VARIABLES
  gops,        \* finalized groups, oldest first
  current,     \* no group, or the one that is fed
  generation,  \* current_config_generation
  fed,         \* ghost: the packets fed so far
  taken        \* the group handed to a decoder last, and the time asked for

vars == <<gops, current, generation, fed, taken>>

Unknown == -1

Init ==
  /\ gops = <<>> /\ current = <<>> /\ generation = 0 /\ fed = <<>>
  /\ taken = <<>>

TypeOK ==
  /\ Len(current) <= 1 /\ Len(fed) <= MaxPackets /\ generation \in 0..MaxGeneration
  /\ \A i \in DOMAIN gops : gops[i].packets # <<>> /\ gops[i].generation \in 0..MaxGeneration

-----------------------------------------------------------------------------

\* Gop::new() with its first packet n, and Gop::push().
NewGop(n, p, g) ==
  [generation |-> g, start |-> p.time, end |-> p.time, packets |-> <<n>>,
   bytes |-> p.size, duration |-> 0]

Push(gop, n, p) ==
  LET start == IF gop.start = Unknown THEN p.time ELSE gop.start
  IN [gop EXCEPT !.packets = Append(@, n), !.bytes = @ + p.size,
                 !.start = start,
                 !.end = IF p.time > @ THEN p.time ELSE @,
                 !.duration = IF p.time # Unknown /\ p.time - start > @ THEN p.time - start ELSE @]

\* A sum over the groups, counted unit by unit.
Units(f) == UNION {{i} \X (1..f[i]) : i \in DOMAIN f}
Total(f) == Cardinality(Units(f))
Bytes(gs) == Total([i \in DOMAIN gs |-> gs[i].bytes])
Frames(gs) == Total([i \in DOMAIN gs |-> Len(gs[i].packets)])
Duration(gs) == Total([i \in DOMAIN gs |-> gs[i].duration])

Fits(gs) == Bytes(gs) <= MaxBytes /\ Frames(gs) <= MaxFrames /\ Duration(gs) <= MaxDuration

\* Mutant: only finalized groups are counted.
TrimFinalized(gs, gop) ==
  LET kept(k) == SubSeq(gs, k + 1, Len(gs))
      k == Min({i \in 0..Len(gs) : Fits(kept(i))})
  IN gops' = kept(k) /\ current' = <<gop>>

\* trim(): the oldest groups go until the rest fits; at last the current one.
Trim(gs, gop) ==
  LET kept(k) == SubSeq(gs, k + 1, Len(gs))
      fitting == {k \in 0..Len(gs) : Fits(Append(kept(k), gop))}
  IN IF fitting = {} THEN gops' = <<>> /\ current' = <<>>
     ELSE gops' = kept(Min(fitting)) /\ current' = <<gop>>

\* Mutant: a group that was trimmed away goes on with the next packet.
FeedAnyway(p, g) ==
  /\ Len(fed) < MaxPackets /\ fed' = Append(fed, p)
  /\ generation' = g
  /\ LET same == g = generation
         gs == IF same THEN gops ELSE <<>>
         now == IF same THEN current ELSE <<>>
         n == Len(fed')
     IN IF now = <<>> /\ ~p.key /\ g # generation THEN gops' = gs /\ current' = now
        ELSE IF p.key \/ now = <<>> THEN Trim(gs \o now, NewGop(n, p, g))
        ELSE Trim(gs, Push(now[1], n, p))
  /\ UNCHANGED taken

\* feed(): with a new generation everything cached goes, and packets are ignored up
\* to a key frame.
Feed(p, g) ==
  /\ Len(fed) < MaxPackets /\ fed' = Append(fed, p)
  /\ generation' = g
  /\ LET same == g = generation
         gs == IF same THEN gops ELSE <<>>
         now == IF same THEN current ELSE <<>>
         n == Len(fed')
     IN IF now = <<>> /\ ~p.key THEN gops' = gs /\ current' = now
        ELSE IF p.key THEN Trim(gs \o now, NewGop(n, p, g))
        ELSE Trim(gs, Push(now[1], n, p))
  /\ UNCHANGED taken

AtOrBefore(gop, time) == gop.start # Unknown /\ gop.start <= time

\* random_access(): of the finalized groups the newest one that starts in time, or
\* else the current one (which is newer).
RandomAccess(time) ==
  LET i == SelectLastInSeq(gops, LAMBDA gop : AtOrBefore(gop, time))
  IN IF i # 0 THEN <<gops[i]>>
     ELSE IF current # <<>> /\ AtOrBefore(current[1], time) THEN current ELSE <<>>

\* take_random_access()
TakeRandomAccess(time) ==
  LET i == SelectLastInSeq(gops, LAMBDA gop : AtOrBefore(gop, time))
  IN /\ RandomAccess(time) # <<>>
     /\ taken' = RandomAccess(time)
     /\ IF i # 0 THEN gops' = RemoveAt(gops, i) /\ UNCHANGED current
        ELSE current' = <<>> /\ UNCHANGED gops
     /\ UNCHANGED <<generation, fed>>

Next ==
  \/ \E key \in BOOLEAN, time \in Times \cup {Unknown}, size \in Sizes, g \in generation..MaxGeneration :
       Feed([key |-> key, time |-> time, size |-> size], g)
  \/ \E time \in Times : TakeRandomAccess(time)

Spec == Init /\ [][Next]_vars

-----------------------------------------------------------------------------
(* Properties *)

Cached == gops \o current

\* The limits hold over all groups, the one that is being fed included.
WithinLimits == Fits(Cached)

\* What a decoder gets can be decoded: each group starts with a key frame, and is
\* followed by every packet that was fed since, none missing and none of another key
\* frame, whatever was trimmed, taken or discarded meanwhile.
Decodable ==
  \A i \in DOMAIN (Cached \o taken) :
    LET ps == (Cached \o taken)[i].packets
    IN /\ fed[ps[1]].key
       /\ \A k \in 2..Len(ps) : ps[k] = ps[1] + k - 1 /\ ~fed[ps[k]].key

\* Cached groups are of the generation in effect, and in the order they were fed.
CurrentAndOrdered ==
  /\ \A i \in DOMAIN Cached : Cached[i].generation = generation
  /\ \A i, j \in DOMAIN Cached : i < j => Last(Cached[i].packets) < Head(Cached[j].packets)

GopSafe == TypeOK /\ WithinLimits /\ Decodable /\ CurrentAndOrdered
=============================================================================
