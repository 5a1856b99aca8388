------------------------------ MODULE StreamInput ------------------------------
(***************************************************************************)
(* What a playback session relies on when it reads a Transport             *)
(* (packages/runtime, transport-common.ts:189): after start() the caller   *)
(* hears chunks, then at most one error, then exactly one end; and once    *)
(* stop() was called it hears no chunk, but the one that may have been     *)
(* read before and not been handed over yet.                               *)
(***************************************************************************)
EXTENDS Sequences

VARIABLES
  phase,    \* "new", "open" or "ended"
  stopped,  \* stop() was called, by the caller or by the transport itself
  ready,    \* a chunk was read and is about to be handed over
  out       \* what the caller heard in the last step

vars == <<phase, stopped, ready, out>>

Endings == {<<"end">>, <<"error", "end">>}

Init == phase = "new" /\ stopped = FALSE /\ ready = FALSE /\ out = <<>>

\* A chunk may be handed over; the one that was ready when it was stopped, once.
MayHear == phase = "open" /\ (~stopped \/ (ready /\ ~ready'))

Quiet ==
  /\ phase' = phase \/ (phase = "new" /\ phase' = "open")
  /\ out' = <<>>

Chunk ==
  /\ MayHear
  /\ phase' = phase /\ out' = <<"chunk">>

End ==
  /\ phase # "ended" /\ phase' = "ended"
  /\ out' \in Endings

\* The caller stops the stream while it hears a chunk.
ChunkThenEnd ==
  /\ MayHear
  /\ phase' = "ended" /\ stopped'
  /\ \E e \in Endings : out' = <<"chunk">> \o e

Next ==
  /\ stopped' \in BOOLEAN /\ (stopped => stopped')
  \* Nothing more is read once it is stopped.
  /\ ready' \in BOOLEAN /\ (stopped /\ ready' => ready)
  /\ Quiet \/ Chunk \/ End \/ ChunkThenEnd

Spec == Init /\ [][Next]_vars
=============================================================================
