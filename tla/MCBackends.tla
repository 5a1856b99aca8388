------------------------------- MODULE MCBackends -------------------------------
(***************************************************************************)
(* Small instances of what plays in a browser, in one run: the audio ring, *)
(* the MSE backend, the controller that chooses between backends, and the  *)
(* planner of pipelines.  A behaviour is of one of them, and the others    *)
(* stay as they were created.                                              *)
(***************************************************************************)
EXTENDS AudioRing

CONSTANTS MaxAppendQueue, MaxQuotaRetries, MaxSegments, MaxSeeks, MaxEvents,   \* of MSE
          Backends, CandidatePlan, Calls, MaxEpochs,                           \* of the controller
          Codecs, Transports, Sizes, MaxSize, DefaultW, DefaultH, MaxTracks    \* of the planner

VARIABLES part,
          mse, sb, next, sent, lost, crossed,
          call, current, tried, triedCandidates, stopped, epochs, alive, failed, overlap,
          request, caps, plans

mseVars == <<mse, sb, next, sent, lost, crossed>>
fallbackVars == <<call, current, tried, triedCandidates, stopped, epochs, alive, failed, overlap>>

plannerVars == <<request, caps, plans>>

\* A candidate that shares its backend with another, and one that has none.
SmallPlan == <<{"a"}, {"a", "b"}, {}>>

Mse == INSTANCE MseBackend
Fallback == INSTANCE FallbackController WITH Plan <- CandidatePlan
Planner == INSTANCE Planner

ASSUME MseAssumption == Mse!MseAssumption
ASSUME FallbackAssumption == Fallback!FallbackAssumption

MCInit ==
  /\ part \in {"ring", "mse", "fallback", "planner"}
  /\ Init /\ Mse!Init /\ Fallback!Init
  /\ \/ /\ part = "planner" /\ Planner!Init
        /\ request.width # 2 /\ request.height # 9 /\ request.tight = request.low
        /\ ~request.record /\ ~caps.webgpu /\ ~caps.webgl
     \/ /\ part # "planner" /\ plans = <<>>
        /\ request = [transport |-> "Rtmp", tracks |-> <<>>, low |-> FALSE, isolation |-> FALSE,
                      tight |-> FALSE, width |-> 2, height |-> 2, record |-> FALSE]
        /\ caps = [webcodecs |-> {}, ffmpeg |-> {}, webgpu |-> FALSE, webgl |-> FALSE,
                   isolated |-> FALSE, confidence |-> 0]

Ring(A) ==
  part = "ring" /\ A /\ UNCHANGED <<part, mseVars, fallbackVars, plannerVars>>
MseStep ==
  part = "mse" /\ Mse!Next /\ UNCHANGED <<part, vars, fallbackVars, plannerVars>>
FallbackStep ==
  part = "fallback" /\ Fallback!Next
  /\ UNCHANGED <<part, vars, mseVars, plannerVars>>
PlannerStep ==
  part = "planner" /\ Planner!Next
  /\ UNCHANGED <<part, vars, mseVars, fallbackVars>>
MCNext == Ring(Next) \/ MseStep \/ FallbackStep \/ PlannerStep

MCSpec ==
  /\ MCInit /\ [][MCNext]_<<part, vars, mseVars, fallbackVars, plannerVars>>
  /\ WF_vars(Ring(Process))
  /\ WF_vars(Ring(CopyFrame \/ WriteEnd \/ ResetWrite \/ ResetGeneration))
  /\ Mse!Fairness /\ Fallback!Fairness

\* Segments are appended in order, the queue never waits without an event to come,
\* live control runs whenever no seek is pending, and a stopped backend holds
\* nothing (see MseBackend).
MseSafe == Mse!MseSafe

\* Every appended segment leaves the queue, and every call of the controller
\* returns (see the modules).
PartsSettle == Mse!SegmentsLeave /\ Fallback!CallsReturn

\* One backend at a time, and none is tried again in its epoch (see
\* FallbackController).
FallbackSafe == Fallback!FallbackSafe

\* A plan decodes the tracks it was made for, the fallback needs no browser decoder
\* where there is a pack, and more capabilities make no plan worse (see Planner).
PlansSafe == Planner!PlansSafe
=============================================================================
