--------------------------------- MODULE Planner ---------------------------------
(***************************************************************************)
(* The pipeline planner (cheetah-media-pipeline-core, planner.rs): from a  *)
(* request and what was probed of the platform, an ordered list of plans.  *)
(*                                                                         *)
(* A list of probed codecs is the set of those that have an entry other    *)
(* than Unsupported.  Failure reasons and expiry are for the caller; sizes *)
(* do not overflow here (the code saturates).                              *)
(***************************************************************************)
EXTENDS Integers, Sequences, SequencesExt

CONSTANTS Codecs,
          Transports,           \* of TransportKind
          Sizes,                \* widths and heights that a request may set
          MaxSize,              \* max_resolution, the same for width and height
          DefaultW, DefaultH,   \* 1920 and 1080 in the code
          MaxTracks             \* bound, for model checking

VARIABLES
  request,   \* PipelineRequest
  caps,      \* CapabilitySnapshot
  plans      \* what plan() returned: NotSupported, or candidates; <<>> before

vars == <<request, caps, plans>>

NotSupported == <<"NotSupported">>
Unset == 0      \* of a maximum that the request does not set

TrackKinds == {"Video", "Audio", "Data"}
Tracks == [kind : TrackKinds, codec : Codecs]
Requests ==
  [transport : Transports, tracks : UNION {[1..n -> Tracks] : n \in 0..MaxTracks},
   low : BOOLEAN, isolation : BOOLEAN, tight : BOOLEAN,
   width : Sizes \cup {Unset}, height : Sizes \cup {Unset}, record : BOOLEAN]
Snapshots ==
  [webcodecs : SUBSET Codecs, ffmpeg : SUBSET Codecs, webgpu : BOOLEAN, webgl : BOOLEAN,
   isolated : BOOLEAN, confidence : {0, 100}]

DecodePaths == {"WebCodecs", "FFmpegWasm", "Software"}

Init == request \in Requests /\ caps \in Snapshots /\ plans = <<>>

TypeOK ==
  /\ request \in Requests /\ caps \in Snapshots
  /\ plans # NotSupported =>
       \A i \in DOMAIN plans : plans[i].video \in DecodePaths /\ plans[i].audio \in DecodePaths

-----------------------------------------------------------------------------
(* The choices *)

\* demux_for()
DemuxFor(transport) ==
  CASE transport \in {"Flv", "Rtmp"} -> "Flv"
    [] transport \in {"MpegTs", "Rtsp"} -> "MpegTs"
    [] transport \in {"WebSocket", "WebTransport"} -> "Raw"
    [] OTHER -> transport

\* best_decode_path()
BestDecodePath(codec, c) ==
  IF codec \in c.webcodecs THEN "WebCodecs" ELSE IF codec \in c.ffmpeg THEN "FFmpegWasm" ELSE "Software"

\* codec_supported()
CodecSupported(codec, c) == BestDecodePath(codec, c) # "Software"

\* render_for() and audio_for()
RenderFor(c) == IF c.webgpu THEN "WebGPU" ELSE IF c.webgl THEN "WebGL" ELSE "VideoElement"
AudioFor(low, c) == IF low /\ c.isolated THEN "AudioWorklet" ELSE "WebAudio"

\* The track that decides for its kind: the last one of a codec in question, or 0.
Deciding(r, kind, codecs) ==
  SelectLastInSeq(r.tracks, LAMBDA x : x.kind = kind /\ x.codec \in codecs)

\* base_plan()
BasePlan(r, c) ==
  LET path(i) == IF i = 0 THEN "Software" ELSE BestDecodePath(r.tracks[i].codec, c)
  IN [demux |-> DemuxFor(r.transport),
      video |-> path(Deciding(r, "Video", Codecs)), audio |-> path(Deciding(r, "Audio", Codecs)),
      render |-> RenderFor(c), sound |-> AudioFor(r.low, c), record |-> r.record,
      reasons |-> <<"base_plan">>, copy |-> 0, score |-> 100]

\* The software plan: the FFmpeg pack for the kinds that have a track of those codecs.
Packed(r, c, codecs) ==
  LET path(kind, base) == IF Deciding(r, kind, codecs) = 0 THEN base ELSE "FFmpegWasm"
  IN [BasePlan(r, c) EXCEPT !.video = path("Video", @), !.audio = path("Audio", @),
                            !.render = "Canvas2d", !.sound = "Software",
                            !.reasons = <<"software_fallback">>]

\* Mutant: the pack is taken for whatever track there is.
FallbackPlanPacked(r, c) == Packed(r, c, Codecs)

\* fallback_plan(): the pack for what it decodes.
FallbackPlan(r, c) == Packed(r, c, c.ffmpeg)

\* The adjustments of plan(), each with its reason.
Adjusted(plan, r, c) ==
  LET unavailable == r.isolation /\ ~c.isolated
      points(b, n) == IF b THEN n ELSE 0
      reason(b, x) == IF b THEN <<x>> ELSE <<>>
  IN [plan EXCEPT
        !.score = @ + points(r.low, 10) - points(unavailable, 20) - points(r.tight, 5),
        !.reasons = @ \o reason(r.low, "low_latency_prefer_hardware")
                      \o reason(unavailable, "isolation_requested_but_unavailable")
                      \o reason(r.tight, "bitrate_constrained")]

CopyBytes(r) ==
  ((IF r.width = Unset THEN DefaultW ELSE r.width) * (IF r.height = Unset THEN DefaultH ELSE r.height) * 3) \div 2

\* check_resolution(), of two maxima or none.
WithinLimits(r) ==
  r.width = Unset \/ r.height = Unset \/ (r.width <= MaxSize /\ r.height <= MaxSize)

\* Mutant: only video tracks are verified.
SupportableVideo(r, c) ==
  \A i \in DOMAIN r.tracks : r.tracks[i].kind = "Video" => CodecSupported(r.tracks[i].codec, c)

Supportable(r, c) ==
  \A i \in DOMAIN r.tracks : r.tracks[i].kind = "Data" \/ CodecSupported(r.tracks[i].codec, c)

\* sort_by(): the higher score first.  Scores differ, so that the reasons do not count.
Ranked(p, q) == IF q.score > p.score THEN <<q, p>> ELSE <<p, q>>

\* plan()
PlanFor(r, c) ==
  LET base == [Adjusted(BasePlan(r, c), r, c) EXCEPT !.copy = CopyBytes(r)]
      fallback == [FallbackPlan(r, c) EXCEPT !.score = base.score - 1, !.copy = CopyBytes(r)]
  IN IF c.confidence = 0 \/ ~Supportable(r, c) \/ ~WithinLimits(r) THEN NotSupported
     ELSE Ranked(base, fallback)

Plan ==
  /\ plans = <<>> /\ plans' = PlanFor(request, caps)
  /\ UNCHANGED <<request, caps>>

Next == Plan

Spec == Init /\ [][Next]_vars

-----------------------------------------------------------------------------
(* Properties *)

Decodes(path, codec) ==
  \/ path = "WebCodecs" /\ codec \in caps.webcodecs
  \/ path = "FFmpegWasm" /\ codec \in caps.ffmpeg

Alone(i) == \A j \in DOMAIN request.tracks : request.tracks[j].kind = request.tracks[i].kind => j = i

Planned == plans # <<>> /\ plans # NotSupported

\* Every plan on the list can be carried out: its paths decode what they are for.
\* (A kind with two tracks has one path for both, and it may decode one of them only:
\* planner.rs:286-291.)
PlansDecode ==
  Planned =>
    \A i \in DOMAIN request.tracks, k \in DOMAIN plans :
      LET x == request.tracks[i]
      IN Alone(i) => /\ x.kind = "Video" => Decodes(plans[k].video, x.codec)
                     /\ x.kind = "Audio" => Decodes(plans[k].audio, x.codec)

\* The fallback does without the browser's decoders for whatever the pack decodes.
FallbackIndependent ==
  Planned =>
    \A i \in DOMAIN request.tracks :
      /\ request.tracks[i].codec \in caps.ffmpeg
      => LET p == plans[Len(plans)]
         IN /\ request.tracks[i].kind = "Video" => p.video = "FFmpegWasm"
            /\ request.tracks[i].kind = "Audio" => p.audio = "FFmpegWasm"

\* A platform with one capability more can do what one without it can, at least as well.
More ==
  {[caps EXCEPT !.webcodecs = @ \cup {x}] : x \in Codecs}
    \cup {[caps EXCEPT !.ffmpeg = @ \cup {x}] : x \in Codecs}
    \cup {[caps EXCEPT !.isolated = TRUE], [caps EXCEPT !.webgpu = TRUE], [caps EXCEPT !.webgl = TRUE]}
MoreIsNoWorse ==
  Planned =>
    \A c \in More :
      LET better == PlanFor(request, c)
      IN better # NotSupported /\ better[1].score >= plans[1].score

PlansSafe == TypeOK /\ PlansDecode /\ FallbackIndependent /\ MoreIsNoWorse
=============================================================================
