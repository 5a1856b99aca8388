---------------------------- MODULE WebCodecsBackend ----------------------------
(***************************************************************************)
(* The WebCodecs backend (webcodecs.ts) for a stream with a video and an   *)
(* audio track.                                                            *)
(*                                                                         *)
(* The decoders are the browser's (external): a FIFO of chunks each, whose *)
(* output arrives in a callback of its own; reset() forgets the chunks and *)
(* the configuration, and decode() then throws; an error closes the        *)
(* decoder.  A decoder is named by the configure() call that created it    *)
(* and its kind.  Chunks are numbered in the order they are pushed.        *)
(***************************************************************************)
EXTENDS Integers, Sequences, FiniteSets, SequencesExt

CONSTANTS MaxPending, MaxVideoQueue,               \* maxPendingDecodes, maxVideoQueue
          Configures,                              \* calls of configure()
          MaxChunks, MaxSteps, MaxErrors, MaxMarks \* bounds, for model checking

\* maxVideoQueue is a length; the bounds may be anything.
DecoderAssumption == MaxVideoQueue \in Nat

VARIABLES
  b,          \* the backend's fields
  dec,        \* the decoders: state, generation of their callbacks, chunks
  configures, \* what each configure() awaits
  pushed, steps, errors, marks,
  shown,      \* ghost: the video chunks whose frames the application got
  overlap,    \* ghost: two configure() calls, or a stop() during one
  threw       \* ghost: decode() threw, on a decoder that was reset (webcodecs.ts:613)

vars == <<b, dec, configures, pushed, steps, errors, marks, shown, overlap, threw>>

MediaKinds == {"video", "audio"}
Decoders == Configures \X MediaKinds
None == <<>>

Init ==
  /\ b = [generation |-> 0, stopped |-> TRUE, closing |-> "no", errored |-> FALSE,
          configured |-> FALSE, decoder |-> [k \in MediaKinds |-> None],
          reconfigure |-> FALSE, pending |-> [k \in MediaKinds |-> 0],
          paused |-> FALSE, keep |-> FALSE, step |-> "none", keyOnly |-> FALSE, queue |-> <<>>]
  /\ dec = [d \in Decoders |-> [state |-> "none", generation |-> 0, work |-> <<>>]]
  /\ configures = [c \in Configures |-> "new"]
  /\ pushed = 0 /\ steps = 0 /\ errors = 0 /\ marks = 0
  /\ shown = <<>> /\ overlap = FALSE /\ threw = FALSE

TypeOK ==
  /\ b.closing \in {"no", "video", "audio"} /\ b.step \in {"none", "waiting", "dispatched"}
  /\ b.decoder \in [MediaKinds -> Decoders \cup {None}]
  /\ Len(b.queue) <= MaxVideoQueue
  /\ \A d \in Decoders : dec[d].state \in {"none", "configured", "unconfigured", "closed"}
  /\ configures \in [Configures -> {"new", "checking", "video", "audio", "returned"}]

Usable == ~b.stopped /\ b.closing = "no" /\ ~b.errored
Total(r) == r.pending["video"] + r.pending["audio"]
IsOpen(d) == dec[d].state \in {"configured", "unconfigured"}

-----------------------------------------------------------------------------
(* configure() and stop() *)

Configuring == \E c \in Configures : configures[c] \notin {"new", "returned"}

Configure(c) ==
  /\ configures[c] = "new"
  /\ configures' = [configures EXCEPT ![c] = IF b.configured THEN "returned" ELSE "checking"]
  /\ overlap' = (overlap \/ (~b.configured /\ (b.closing # "no" \/ Configuring)))
  /\ UNCHANGED <<b, dec, pushed, steps, errors, marks, shown, threw>>

Unsupported(c) ==
  /\ configures[c] = "checking"
  /\ configures' = [configures EXCEPT ![c] = "returned"]
  /\ UNCHANGED <<b, dec, pushed, steps, errors, marks, shown, overlap, threw>>

\* The decoders of ks are created; all are configured, or the last one throws.
Create(c, ks, works) ==
  /\ configures[c] = "checking"
  /\ configures' = [configures EXCEPT ![c] = IF works THEN "returned" ELSE "video"]
  /\ b' = [b EXCEPT !.generation = @ + 1, !.stopped = FALSE, !.configured = works \/ @,
                    !.decoder = [k \in MediaKinds |-> IF k \in ks THEN <<c, k>> ELSE @[k]]]
  /\ dec' = [d \in Decoders |->
       IF d[1] = c /\ d[2] \in ks
         THEN [state |-> IF works \/ (d[2] = "video" /\ "audio" \in ks)
                           THEN "configured" ELSE "unconfigured",
               generation |-> b.generation + 1, work |-> <<>>]
         ELSE dec[d]]
  /\ UNCHANGED <<pushed, steps, errors, marks, shown, overlap, threw>>

Created(c) ==
  \/ Create(c, MediaKinds, TRUE) \/ Create(c, MediaKinds, FALSE) \/ Create(c, {"video"}, FALSE)

\* closeDecoder() of the decoder of kind k, when its flush() has settled.
Flushed(k) == LET d == b.decoder[k] IN d # None => dec[d].state # "configured" \/ dec[d].work = <<>>
CloseDecoder(k) ==
  dec' = [d \in Decoders |-> IF d = b.decoder[k] THEN [dec[d] EXCEPT !.state = "closed", !.work = <<>>]
                             ELSE dec[d]]

\* The catch block of configure().
Unwind(c) ==
  LET k == configures[c] IN
  /\ k \in MediaKinds /\ Flushed(k) /\ CloseDecoder(k)
  /\ IF k = "video"
     THEN /\ configures' = [configures EXCEPT ![c] = "audio"]
          /\ b' = [b EXCEPT !.decoder[k] = None]
     ELSE /\ configures' = [configures EXCEPT ![c] = "returned"]
          /\ b' = [b EXCEPT !.decoder[k] = None, !.stopped = TRUE, !.configured = FALSE,
                            !.pending = [x \in MediaKinds |-> 0],
                            !.generation = @ + 1, !.reconfigure = FALSE]
  /\ UNCHANGED <<pushed, steps, errors, marks, shown, overlap, threw>>

Stopping(r) == IF r.stopped \/ r.closing # "no" THEN r ELSE [r EXCEPT !.closing = "video"]

Stop ==
  /\ b.closing = "no"
  /\ b' = Stopping(b)
  /\ overlap' = (overlap \/ Configuring)
  /\ UNCHANGED <<dec, configures, pushed, steps, errors, marks, shown, threw>>

\* Mutant: what was buffered for frame steps, and a pending step, stay.
CloseKeepsStep ==
  LET k == b.closing IN
  /\ k \in MediaKinds /\ Flushed(k) /\ CloseDecoder(k)
  /\ b' = IF k = "video" THEN [b EXCEPT !.decoder[k] = None, !.closing = "audio"]
          ELSE [b EXCEPT !.decoder[k] = None, !.closing = "no", !.stopped = TRUE,
                         !.errored = FALSE, !.configured = FALSE,
                         !.pending = [x \in MediaKinds |-> 0], !.paused = FALSE, !.keep = FALSE,
                         !.generation = @ + 1, !.reconfigure = FALSE]
  /\ UNCHANGED <<configures, pushed, steps, errors, marks, shown, overlap, threw>>

\* stop() goes on.  A frame step that is pending is rejected.
Close ==
  LET k == b.closing IN
  /\ k \in MediaKinds /\ Flushed(k) /\ CloseDecoder(k)
  /\ b' = IF k = "video" THEN [b EXCEPT !.decoder[k] = None, !.closing = "audio"]
          ELSE [b EXCEPT !.decoder[k] = None, !.closing = "no", !.stopped = TRUE,
                         !.errored = FALSE, !.configured = FALSE,
                         !.pending = [x \in MediaKinds |-> 0], !.paused = FALSE, !.keep = FALSE,
                         !.step = "none", !.keyOnly = FALSE, !.queue = <<>>,
                         !.generation = @ + 1, !.reconfigure = FALSE]
  /\ UNCHANGED <<configures, pushed, steps, errors, marks, shown, overlap, threw>>

-----------------------------------------------------------------------------
(* Chunks *)

\* Mutant: a reset keeps the count of the decodes that it discards.
DecodeKeepsCount(r, x) ==
  LET d == r.decoder["video"]
      reset == x.key /\ r.reconfigure
      works == reset \/ dec[d].state = "configured"
  IN IF d = None THEN b' = r /\ UNCHANGED <<dec, threw>> ELSE
     /\ b' = [r EXCEPT !.reconfigure = @ /\ ~x.key, !.pending["video"] = @ + 1]
     /\ dec' = IF works THEN [dec EXCEPT ![d].state = "configured",
                                         ![d].work = IF reset THEN <<x.n>> ELSE Append(@, x.n)]
               ELSE dec
     /\ threw' = (threw \/ ~works)

\* decodeVideoChunk() of x, with reconfigureVideo().
Decode(r, x) ==
  LET d == r.decoder["video"]
      reset == x.key /\ r.reconfigure
      works == reset \/ dec[d].state = "configured"
  IN IF d = None THEN b' = r /\ UNCHANGED <<dec, threw>> ELSE
     /\ b' = [r EXCEPT !.reconfigure = @ /\ ~x.key,
                       !.pending["video"] = IF reset THEN 1 ELSE @ + 1]
     /\ dec' = IF works THEN [dec EXCEPT ![d].state = "configured",
                                         ![d].work = IF reset THEN <<x.n>> ELSE Append(@, x.n)]
               ELSE dec
     /\ threw' = (threw \/ ~works)

PushVideo ==
  /\ Usable /\ b.decoder["video"] # None /\ pushed < MaxChunks
  /\ pushed' = pushed + 1
  /\ \E key \in BOOLEAN :
       LET x == [n |-> pushed + 1, key |-> key]
           stepped == b.paused /\ b.step = "waiting"
           dropped == \/ stepped /\ b.keyOnly /\ ~key
                      \/ ~stepped /\ b.paused /\ (~b.keep \/ Len(b.queue) >= MaxVideoQueue)
                      \/ ~b.paused /\ Total(b) >= MaxPending
       IN \/ dropped /\ UNCHANGED <<b, dec, threw>>
          \/ ~dropped /\ stepped /\ Decode([b EXCEPT !.step = "dispatched"], x)
          \/ ~dropped /\ ~stepped /\ ~b.paused /\ Decode(b, x)
          \/ /\ ~dropped /\ ~stepped /\ b.paused
             /\ b' = [b EXCEPT !.queue = Append(@, x)] /\ UNCHANGED <<dec, threw>>
  /\ UNCHANGED <<configures, steps, errors, marks, shown, overlap>>

PushAudio ==
  /\ Usable /\ b.decoder["audio"] # None /\ pushed < MaxChunks
  /\ pushed' = pushed + 1
  /\ LET d == b.decoder["audio"]
     IN IF b.paused \/ Total(b) >= MaxPending THEN UNCHANGED <<b, dec, threw>>
        ELSE /\ b' = [b EXCEPT !.pending["audio"] = @ + 1]
             /\ IF dec[d].state = "configured"
                THEN dec' = [dec EXCEPT ![d].work = Append(@, pushed')] /\ UNCHANGED threw
                ELSE threw' = TRUE /\ UNCHANGED dec
  /\ UNCHANGED <<configures, steps, errors, marks, shown, overlap>>

MarkVideoConfigChanged ==
  /\ marks < MaxMarks /\ marks' = marks + 1
  /\ b' = [b EXCEPT !.reconfigure = TRUE]
  /\ UNCHANGED <<dec, configures, pushed, steps, errors, shown, overlap, threw>>

-----------------------------------------------------------------------------
(* Pausing and frame steps *)

PauseDisplay ==
  /\ Usable /\ b.configured
  /\ \/ /\ b' = [b EXCEPT !.paused = TRUE, !.keep = TRUE]
        /\ UNCHANGED dec
     \/ /\ b' = [b EXCEPT !.paused = TRUE, !.keep = FALSE, !.step = "none", !.queue = <<>>,
                          !.pending = [k \in MediaKinds |-> 0]]
        /\ dec' = [d \in Decoders |->
                     IF \E k \in MediaKinds : b.decoder[k] = d
                       THEN [dec[d] EXCEPT !.state = "unconfigured", !.work = <<>>]
                       ELSE dec[d]]
  /\ UNCHANGED <<configures, pushed, steps, errors, marks, shown, overlap, threw>>

\* The first entry of the queue that a step may decode, or 0.
Matching(queue, keyOnly) == SelectInSeq(queue, LAMBDA x : x.key \/ ~keyOnly)

FrameStep ==
  /\ Usable /\ b.configured /\ b.paused /\ b.step = "none" /\ steps < MaxSteps
  /\ steps' = steps + 1
  /\ \E keyOnly \in BOOLEAN :
       LET i == Matching(b.queue, keyOnly)
           r == [b EXCEPT !.keyOnly = keyOnly, !.step = IF i = 0 THEN "waiting" ELSE "dispatched",
                          !.queue = IF i = 0 THEN <<>> ELSE SubSeq(@, i + 1, Len(@))]
       IN IF i = 0 THEN b' = r /\ UNCHANGED <<dec, threw>> ELSE Decode(r, b.queue[i])
  /\ UNCHANGED <<configures, pushed, errors, marks, shown, overlap>>

-----------------------------------------------------------------------------
(* Callbacks of the decoders *)

\* handleError(): the backend begins to stop.
HandleError(r) ==
  IF r.stopped \/ r.errored THEN r
  ELSE Stopping([r EXCEPT !.errored = TRUE, !.pending = [k \in MediaKinds |-> 0]])

\* handleVideoOutput() and handleAudioOutput(); the application may throw.
Output(d) ==
  /\ dec[d].work # <<>>
  /\ dec' = [dec EXCEPT ![d].work = Tail(@)]
  /\ LET k == d[2]
         x == Head(dec[d].work)
         r == [b EXCEPT !.pending[k] = @ - 1,
                        !.step = IF k = "video" THEN "none" ELSE @,
                        !.keyOnly = IF k = "video" /\ b.step # "none" THEN FALSE ELSE @]
         given == ~b.paused \/ (k = "video" /\ b.step # "none")
     IN IF b.stopped \/ b.errored \/ dec[d].generation # b.generation
        THEN UNCHANGED <<b, errors, shown>>
        ELSE \/ /\ b' = r /\ UNCHANGED errors
                /\ shown' = IF given /\ k = "video" THEN Append(shown, x) ELSE shown
             \/ /\ given /\ errors < MaxErrors /\ errors' = errors + 1
                /\ b' = HandleError(r) /\ UNCHANGED shown
  /\ UNCHANGED <<configures, pushed, steps, marks, overlap, threw>>

DecoderFails(d) ==
  /\ IsOpen(d) /\ errors < MaxErrors
  /\ errors' = errors + 1
  /\ dec' = [dec EXCEPT ![d].state = "closed", ![d].work = <<>>]
  /\ b' = HandleError(b)
  /\ UNCHANGED <<configures, pushed, steps, marks, shown, overlap, threw>>

Next ==
  \/ \E c \in Configures : Configure(c) \/ Unsupported(c) \/ Created(c) \/ Unwind(c)
  \/ Stop \/ Close \/ PushVideo \/ PushAudio \/ MarkVideoConfigChanged
  \/ PauseDisplay \/ FrameStep
  \/ \E d \in Decoders : Output(d) \/ DecoderFails(d)

Spec == Init /\ [][Next]_vars

-----------------------------------------------------------------------------
(* Properties *)

\* The count that bounds the decoders' queues is the number of outputs to come,
\* whatever was reset meanwhile (webcodecs.ts:686).  (Unless configure() calls
\* overlap, or decode() threw.)
PendingExact ==
  ~overlap /\ ~threw /\ Usable =>
    \A k \in MediaKinds : b.decoder[k] # None => b.pending[k] = Len(dec[b.decoder[k]].work)

\* Frames reach the application in the order of the chunks, although chunks are
\* buffered for frame steps, decoders are replaced and outputs arrive late.
FramesInOrder == \A i, j \in DOMAIN shown : i < j => shown[i] < shown[j]

\* A stopped backend has closed its decoders, holds no chunks and no frame step
\* waits for it, on every error path.  (Unless a stop() or a second configure()
\* came while one was running: the decoders of the first are then never closed.)
StoppedReleases ==
  ~overlap /\ b.stopped =>
    /\ \A d \in Decoders : ~IsOpen(d)
    /\ b.queue = <<>> /\ b.step = "none"

DecoderSafe == TypeOK /\ PendingExact /\ FramesInOrder /\ StoppedReleases
=============================================================================
