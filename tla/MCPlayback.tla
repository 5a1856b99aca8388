------------------------------- MODULE MCPlayback -------------------------------
(***************************************************************************)
(* Small instances of the player engine, of the native player around it,   *)
(* of its timeline, of the web runtime with its worker, and of the         *)
(* WebCodecs backend in one run: a behaviour is of one of them, and the    *)
(* others stay as they were created.                                       *)
(***************************************************************************)
EXTENDS PlayerEngine

CONSTANTS ChannelSize, MemoryChunks, MaxSessions, MaxChunks, MaxCalls,      \* of the native player
          MaxLoads, MaxStops, RuntimePending, RuntimeCalls, MaxFailures,   \* of the web runtime
          MaxPending, MaxVideoQueue, Configures,                           \* of WebCodecs
          DecoderChunks, MaxSteps, MaxErrors, MaxMarks,
          WrapBits, Threshold, TickNum, TickDen, Ms, MaxDrift, Late,       \* of the timeline
          Epochs, Starts, Steps, MaxSamples

VARIABLES part,
          player, input, task, chan, heard, soak, unlogged, calls,
          wrapBits, clock, sync, times, samples, given,
          main, worker, up, down, failures, late,
          b, dec, configures, pushed, steps, errors, marks, shown, overlap, threw

\* Budgets and windows scaled down, the order between them kept (default_player:
\* reconnect has the largest).
SmallAttempts == [a \in Actions |-> 1]
SmallWindow == [a \in Actions |-> IF a = "ReconnectSource" THEN 1 ELSE 0]

\* Both directions, and less than half the range of a counter of three bits.
SmallSteps == {-2, 1, 3}

nativeVars == <<player, input, task, chan, heard, soak, unlogged, calls>>
timelineVars == <<wrapBits, clock, sync, times, samples, given>>
runtimeVars == <<main, worker, up, down, failures, late>>
decoderVars == <<b, dec, configures, pushed, steps, errors, marks, shown, overlap, threw>>

Native == INSTANCE NativePlayer WITH source <- input

Time == INSTANCE Timeline WITH source <- times
Runtime == INSTANCE WorkerRuntime WITH MaxPending <- RuntimePending, MaxCalls <- RuntimeCalls
Codec == INSTANCE WebCodecsBackend WITH MaxChunks <- DecoderChunks

ASSUME NativeAssumption == Native!NativeAssumption
ASSUME RuntimeAssumption == Runtime!RuntimeAssumption
ASSUME DecoderAssumption == Codec!DecoderAssumption
ASSUME TimelineAssumption == Time!TimelineAssumption

MCInit ==
  /\ Init /\ Native!Init /\ Time!Init /\ Runtime!Init /\ Codec!Init
  /\ part \in {"engine", "native", "timeline", "runtime", "webcodecs"}
  \* One initial state will do for a timeline that does not move.
  /\ part # "timeline" => wrapBits = 0 /\ times = [e \in Epochs |-> 2]

EngineStep ==
  part = "engine" /\ Next
  /\ UNCHANGED <<part, nativeVars, timelineVars, runtimeVars, decoderVars>>
NativeStep ==
  part = "native" /\ Native!Next
  /\ UNCHANGED <<part, vars, timelineVars, runtimeVars, decoderVars>>
TimelineStep ==
  part = "timeline" /\ Time!Next
  /\ UNCHANGED <<part, vars, nativeVars, runtimeVars, decoderVars>>
RuntimeStep ==
  part = "runtime" /\ Runtime!Next
  /\ UNCHANGED <<part, vars, nativeVars, timelineVars, decoderVars>>
WebCodecsStep ==
  part = "webcodecs" /\ Codec!Next
  /\ UNCHANGED <<part, vars, nativeVars, timelineVars, runtimeVars>>

MCNext == EngineStep \/ NativeStep \/ TimelineStep \/ RuntimeStep \/ WebCodecsStep

MCSpec ==
  MCInit /\ [][MCNext]_<<part, vars, nativeVars, timelineVars, runtimeVars, decoderVars>>

\* An idle native player holds nothing, its log is legal, chunks are decoded in
\* order, and rebuffering stays (see NativePlayer).
NativePlays == Native!NativePlays

\* Unwrapped ticks follow the source, and the clock does not go back (see Timeline).
TimelineFollows == Time!TimelineFollows

\* Answers and events are those of the current stream (see WorkerRuntime).
RuntimeSafe == Runtime!RuntimeSafe

\* Decoders and frames are accounted for (see WebCodecsBackend).
DecoderSafe == Codec!DecoderSafe
=============================================================================
