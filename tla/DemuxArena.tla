------------------------------- MODULE DemuxArena -------------------------------
(***************************************************************************)
(* The demuxers of the wasm bindings (cheetah-media-web-bindings, demux)   *)
(* and the arena that their events point into (arena.rs): the application  *)
(* holds the slot and the generation of a region, without its arena.       *)
(*                                                                         *)
(* Annex-B and MPEG-PS bindings are the same but for the demuxer inside,   *)
(* which is external here: any sequence of its events.  The contents of a  *)
(* region are numbered in the order they were stored.                      *)
(***************************************************************************)
EXTENDS Integers, Sequences, FiniteSets, SequencesExt

CONSTANTS MaxGeneration,        \* u64::MAX in the code
          MaxResets, MaxStores  \* bounds, for model checking

\* The constants of a build.
ArenaAssumption == MaxGeneration \in Nat \ {0} /\ MaxResets \in Nat /\ MaxStores \in Nat

VARIABLES
  slots,     \* a free or occupied slot each, with its generation
  free,      \* the stack of free slots
  nextGeneration,
  instance,  \* of the arena: which reset() created it
  last,      \* the handles of the last events
  errored,
  stored,    \* ghost: number of regions stored
  held,      \* ghost: what the application was given, and what it should find there
  dropped    \* ghost: regions that the application released itself

vars == <<slots, free, nextGeneration, instance, last, errored, stored, held, dropped>>

Kinds == {"config", "data", "metadata"}
NoHandle == [slot |-> 0, generation |-> 0]
Handles == [slot : 0..(MaxStores + 1), generation : 0..MaxGeneration]

Init ==
  /\ slots = <<>> /\ free = <<>> /\ nextGeneration = 1
  /\ instance = 0 /\ last = [k \in Kinds |-> NoHandle] /\ errored = FALSE
  /\ stored = 0 /\ held = {} /\ dropped = {}

TypeOK ==
  /\ \A s \in DOMAIN slots : slots[s].used \in BOOLEAN /\ slots[s].generation \in 1..MaxGeneration
  /\ \A i \in DOMAIN free : free[i] \in DOMAIN slots
  /\ nextGeneration \in 1..MaxGeneration
  /\ last \in [Kinds -> Handles] /\ errored \in BOOLEAN
  /\ stored \in 0..MaxStores /\ instance \in 0..MaxResets

-----------------------------------------------------------------------------
(* The arena *)

\* Mutant: a slot is all that is looked at.
ValidateSlot(h) ==
  IF h.slot \notin DOMAIN slots THEN "OutOfBounds"
  ELSE IF slots[h.slot].used THEN "ok" ELSE "DoubleFree"

\* MemoryArena::validate(); the bindings fill in the arena's own instance.
Validate(h) ==
  IF h.slot \notin DOMAIN slots THEN "OutOfBounds"
  ELSE IF slots[h.slot].generation # h.generation THEN "StaleHandle"
  ELSE IF slots[h.slot].used THEN "ok" ELSE "DoubleFree"

\* Mutant: a region that was released is released again.
ReleaseAgain(ss, fs, h) ==
  IF h = NoHandle \/ Validate(h) = "StaleHandle" THEN <<ss, fs>>
  ELSE <<[ss EXCEPT ![h.slot].used = FALSE], Append(fs, h.slot)>>

\* release(): the slots and the free stack afterwards.
Release(ss, fs, h) ==
  IF h = NoHandle \/ Validate(h) # "ok" THEN <<ss, fs>>
  ELSE <<[ss EXCEPT ![h.slot].used = FALSE], Append(fs, h.slot)>>

\* Slot of the next region: the one freed last, or a new one.
NextSlot(ss, fs) == IF fs = <<>> THEN Len(ss) + 1 ELSE Last(fs)

\* store(), which is request(), write() and commit() of a buffer that is not empty.
Store(ss, fs) ==
  LET region == [used |-> TRUE, generation |-> nextGeneration, content |-> stored + 1]
  IN /\ slots' = IF fs = <<>> THEN Append(ss, region) ELSE [ss EXCEPT ![Last(fs)] = region]
     /\ free' = IF fs = <<>> THEN fs ELSE Front(fs)
     /\ nextGeneration' = nextGeneration + 1
     /\ stored' = stored + 1

-----------------------------------------------------------------------------
(* The demuxer's interface *)

\* next_event() for a track, packet or metadata: the region of the last event of its
\* kind is released, and then the new one is stored.  After an error nothing comes.
NextEvent(k, empty) ==
  /\ ~errored
  /\ LET r == Release(slots, free, last[k])
         h == [slot |-> NextSlot(r[1], r[2]), generation |-> nextGeneration]
     IN IF empty
        THEN /\ slots' = r[1] /\ free' = r[2]
             /\ last' = [last EXCEPT ![k] = NoHandle]
             /\ UNCHANGED <<nextGeneration, errored, stored, held>>
        ELSE IF nextGeneration = MaxGeneration
        THEN /\ slots' = r[1] /\ free' = r[2]
             /\ last' = [last EXCEPT ![k] = NoHandle]
             /\ errored' = TRUE
             /\ UNCHANGED <<nextGeneration, stored, held>>
        ELSE /\ stored < MaxStores
             /\ Store(r[1], r[2])
             /\ last' = [last EXCEPT ![k] = h]
             /\ held' = held \cup {[h |-> h, content |-> stored + 1, instance |-> instance]}
             /\ UNCHANGED errored
  /\ UNCHANGED <<instance, dropped>>

\* The demuxer inside reports an error.
InnerError ==
  /\ ~errored /\ errored' = TRUE
  /\ UNCHANGED <<slots, free, nextGeneration, instance, last, stored, held, dropped>>

\* release_region(), of anything that the application was ever given.
ReleaseRegion(g) ==
  /\ LET r == Release(slots, free, g.h) IN slots' = r[1] /\ free' = r[2]
  /\ dropped' = IF Validate(g.h) = "ok" THEN dropped \cup {slots[g.h.slot].content} ELSE dropped
  /\ UNCHANGED <<nextGeneration, instance, last, errored, stored, held>>

\* reset(): a new arena, whose generations start again.
Reset ==
  /\ instance < MaxResets
  /\ instance' = instance + 1
  /\ slots' = <<>> /\ free' = <<>> /\ nextGeneration' = 1
  /\ last' = [k \in Kinds |-> NoHandle] /\ errored' = FALSE
  /\ UNCHANGED <<stored, held, dropped>>

Next ==
  \/ \E k \in Kinds, empty \in BOOLEAN : NextEvent(k, empty)
  \/ InnerError \/ Reset
  \/ \E g \in held : ReleaseRegion(g)

Spec == Init /\ [][Next]_vars

-----------------------------------------------------------------------------
(* Properties *)

\* A slot is on the free stack exactly once when it is free: regions may be released
\* by the application and by the next event as well, in either order.
FreeExact ==
  /\ IsInjective(free)
  /\ {free[i] : i \in DOMAIN free} = {s \in DOMAIN slots : ~slots[s].used}

\* Whatever the application still holds, it either reads what it was given or an
\* error.  (Not across reset(), demux/mod.rs:115: the new arena hands out the same
\* slots and generations again, and the application's handles lack the instance.)
NoAliasing ==
  \A g \in held :
    g.instance = instance /\ Validate(g.h) = "ok" => slots[g.h.slot].content = g.content

\* The regions of the last events can be read until the next event of their kind,
\* and nothing else is occupied, so that the arena does not grow with the stream.
LastEventsReadable ==
  /\ \A k \in Kinds : last[k] # NoHandle =>
       \/ Validate(last[k]) = "ok"
       \/ \E g \in held : g.h = last[k] /\ g.content \in dropped
  /\ \A s \in DOMAIN slots : slots[s].used => \E k \in Kinds : last[k].slot = s
  /\ Len(slots) <= Cardinality(Kinds)

ArenaSafe == TypeOK /\ FreeExact /\ NoAliasing /\ LastEventsReadable
=============================================================================
