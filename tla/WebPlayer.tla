------------------------------- MODULE WebPlayer -------------------------------
(***************************************************************************)
(* The web player (packages/web, player.ts) and the sessions it owns.      *)
(* load(), stop() and destroy() are asynchronous and may overlap: each runs *)
(* up to its next await in one step.  What a session emits is heard in the *)
(* same step, as the callback runs inside it.                              *)
(*                                                                         *)
(* The worker runtime (runtime.ts) is seen through what load() awaits from *)
(* it and the errors it reports.  Left out: recording, snapshot, download, *)
(* intercom, composite, and the media element, which stays as attached.    *)
(***************************************************************************)
EXTENDS PlaybackSession

CONSTANTS MaxLoads, MaxStops   \* bounds on the calls, for model checking

ASSUME PlayerAssumption ==
  /\ MaxLoads \in Nat /\ MaxStops \in Nat
  /\ Sessions = 1..MaxLoads

VARIABLES
  player,    \* the fields of CheetahPlayer that tell its state
  current,   \* this.session
  load,      \* where each load() call is; its session has the same number
  stops,     \* stop() calls that finished, and where the current one is
  destroy,   \* where destroy() is
  attached,  \* a media element is attached
  overlap    \* ghost: a call was made while another had not settled

vars == <<session, emitted, player, current, load, stops, destroy, attached, overlap>>

Loads == 1..MaxLoads
None == 0

PlayerStates == {"idle", "loading", "preroll", "playing", "paused", "rebuffering",
                 "stopping", "failed", "destroyed"}

PlayerRecord ==
  [state : PlayerStates, pendingFailed : BOOLEAN, destroyed : BOOLEAN, worker : {"quiet", "busy"}]

TypeOK ==
  /\ SessionType /\ Len(emitted) <= 4
  /\ player \in PlayerRecord
  /\ current \in Loads \cup {None}
  /\ load \in [Loads -> {"none", "teardown", "bootstrap", "runtime", "refused",
                         "starting", "done", "failed"}]
  /\ stops \in [done : 0..MaxStops, at : {"none", "teardown", "runtime"}]
  /\ destroy \in {"none", "begun", "teardown", "done"}
  /\ attached \in BOOLEAN /\ overlap \in BOOLEAN

Init ==
  /\ SessionInit
  /\ player = [state |-> "idle", pendingFailed |-> FALSE, destroyed |-> FALSE,
               worker |-> "quiet"]
  /\ current = None
  /\ load = [i \in Loads |-> "none"]
  /\ stops = [done |-> 0, at |-> "none"]
  /\ destroy = "none"
  /\ attached \in BOOLEAN
  /\ overlap = FALSE

-----------------------------------------------------------------------------
(* setState and what the player does with a session's events *)

\* A failure in preroll is held back for 1.5 s (HoldEnds); these states cancel
\* it.  The timer is set exactly while pendingFailed is.
Cancelling == {"idle", "destroyed", "failed", "loading", "preroll", "playing"}

SetState(p, to) ==
  IF p.state = to THEN p
  ELSE IF to = "failed" /\ p.state = "preroll" THEN [p EXCEPT !.pendingFailed = TRUE]
  ELSE [p EXCEPT !.state = to, !.pendingFailed = @ /\ to \notin Cancelling]

\* Mutant: the session's events taken for player states.
StateOfRaw(event) == event

StateOf(event) ==
  CASE event = "error" -> "failed"
    [] event = "ended" -> "idle"
    [] OTHER -> event

Hear(p, events, i) == IF i \in 1..Len(events) THEN SetState(p, StateOf(events[i])) ELSE p

\* What a session emits in one step, in order: four events at most.
Heard(p, events) == Hear(Hear(Hear(Hear(p, events, 1), events, 2), events, 3), events, 4)

HoldEnds ==
  /\ player.pendingFailed
  /\ player' = [player EXCEPT !.state = "failed", !.pendingFailed = FALSE]
  /\ emitted' = <<>>
  /\ UNCHANGED <<current, session, load, stops, destroy, attached, overlap>>

\* teardownSession(): forget the session and stop it.
Teardown ==
  /\ session' = IF current = None THEN session
                ELSE [session EXCEPT ![current] = Stopped(@)]
  /\ current' = None
  /\ emitted' = <<>>

Settling ==
  \/ \E i \in Loads : load[i] \in {"teardown", "bootstrap", "runtime", "refused"}
  \/ stops.at # "none"

\* Runtime commands that are rejected: the runtime moved on to another stream.
Refused == [i \in Loads |-> IF load[i] = "runtime" THEN "refused" ELSE load[i]]

-----------------------------------------------------------------------------
(* load() *)

Load(i) ==
  /\ ~player.destroyed
  /\ load[i] = "none" /\ \A j \in 1..(i - 1) : load[j] # "none"
  /\ Teardown
  /\ player' = SetState(player, "loading")
  /\ load' = [load EXCEPT ![i] = "teardown"]
  /\ overlap' = (overlap \/ Settling)
  /\ UNCHANGED <<stops, destroy, attached>>

\* After the teardown: the runtime is asked to load the stream, with the
\* session to follow when a media element is attached.  runtime.load throws
\* when it is destroyed, which the attached path ignores.
LoadTornDown(i) ==
  /\ load[i] = "teardown"
  /\ load' = [Refused EXCEPT ![i] = IF attached THEN "bootstrap"
                                    ELSE IF destroy = "done" THEN "refused" ELSE "runtime"]
  /\ player' = [player EXCEPT !.worker = IF destroy = "done" THEN @ ELSE "busy"]
  /\ emitted' = <<>>
  /\ UNCHANGED <<current, session, stops, destroy, attached, overlap>>

\* The protocol is one the attached media element cannot play.
LoadUnsupported(i) ==
  /\ load[i] = "teardown" /\ attached
  /\ load' = [load EXCEPT ![i] = "failed"]
  /\ player' = SetState(player, "failed")
  /\ emitted' = <<>>
  /\ UNCHANGED <<current, session, stops, destroy, attached, overlap>>

\* Mutant: the new session is not remembered until it has started.
BootstrapEndsLate(i) ==
  /\ load[i] = "bootstrap"
  /\ StartSession(i)
  /\ load' = [load EXCEPT ![i] = "starting"]
  /\ player' = Heard(player, emitted')
  /\ UNCHANGED <<current, stops, destroy, attached, overlap>>

\* The runtime answered, failed, or 3 s went by.  The new session replaces
\* whatever session there is; nothing is checked again.
BootstrapEnds(i) ==
  /\ load[i] = "bootstrap"
  /\ StartSession(i)
  /\ load' = [load EXCEPT ![i] = "starting"]
  /\ current' = i
  /\ player' = Heard(player, emitted')
  /\ UNCHANGED <<stops, destroy, attached, overlap>>

\* Mutant: the player's state is not looked at after the await.
LoadStartedAlways(i) ==
  /\ load[i] = "starting" /\ session[i].at = "resolved"
  /\ load' = [load EXCEPT ![i] = "done"]
  /\ player' = SetState(player, "preroll")
  /\ emitted' = <<>>
  /\ UNCHANGED <<current, session, stops, destroy, attached, overlap>>

\* session.start() returned.
LoadStarted(i) ==
  /\ load[i] = "starting" /\ session[i].at = "resolved"
  /\ load' = [load EXCEPT ![i] = "done"]
  /\ player' = IF player.state \in {"failed", "destroyed"} THEN player
               ELSE SetState(player, "preroll")
  /\ emitted' = <<>>
  /\ UNCHANGED <<current, session, stops, destroy, attached, overlap>>

\* Mutant: the failed session is stopped but not forgotten.
LoadThrewKeeps(i) ==
  /\ load[i] = "starting" /\ session[i].at = "rejected"
  /\ load' = [load EXCEPT ![i] = "failed"]
  /\ session' = IF current = None THEN session
                ELSE [session EXCEPT ![current] = Stopped(@)]
  /\ emitted' = <<>> /\ UNCHANGED current
  /\ player' = SetState(player, "failed")
  /\ UNCHANGED <<stops, destroy, attached, overlap>>

\* session.start() threw: the player tears down the session it has, which may
\* be another one by now.
LoadThrew(i) ==
  /\ load[i] = "starting" /\ session[i].at = "rejected"
  /\ load' = [load EXCEPT ![i] = "failed"]
  /\ Teardown
  /\ player' = SetState(player, "failed")
  /\ UNCHANGED <<stops, destroy, attached, overlap>>

\* Without a media element the runtime plays alone.
RuntimeLoaded(i) ==
  /\ load[i] = "runtime"
  /\ load' = [load EXCEPT ![i] = "done"]
  /\ player' = IF player.state = "failed" THEN player ELSE SetState(player, "preroll")
  /\ emitted' = <<>>
  /\ UNCHANGED <<current, session, stops, destroy, attached, overlap>>

RuntimeRefused(i) ==
  /\ load[i] \in {"runtime", "refused"}
  /\ load' = [load EXCEPT ![i] = "failed"]
  /\ player' = SetState(player, "failed")
  /\ emitted' = <<>>
  /\ UNCHANGED <<current, session, stops, destroy, attached, overlap>>

\* handleRuntimeError: the worker reports an error of the current stream, also
\* when load() no longer waits for it.
WorkerError ==
  /\ player.worker = "busy"
  /\ player' = [SetState(player, "failed") EXCEPT !.worker = "quiet"]
  /\ load' = Refused
  /\ emitted' = <<>>
  /\ UNCHANGED <<current, session, stops, destroy, attached, overlap>>

-----------------------------------------------------------------------------
(* play() and pause() *)

Play ==
  /\ ~player.destroyed
  /\ player.state \notin {"loading", "failed", "stopping"}
  /\ IF current # None
     THEN /\ PlaySession(current)
          /\ player' = Heard(player, emitted')
     ELSE /\ player' = SetState(player, "playing")
          /\ emitted' = <<>> /\ UNCHANGED session
  /\ UNCHANGED <<current, load, stops, destroy, attached, overlap>>

Pause ==
  /\ ~player.destroyed
  /\ player.state \in {"playing", "rebuffering"}
  /\ IF current # None
     THEN /\ PauseSession(current)
          /\ player' = Heard(player, emitted')
     ELSE /\ player' = SetState(player, "paused")
          /\ emitted' = <<>> /\ UNCHANGED session
  /\ UNCHANGED <<current, load, stops, destroy, attached, overlap>>

-----------------------------------------------------------------------------
(* stop() and destroy() *)

Stop ==
  /\ ~player.destroyed
  /\ stops.at = "none" /\ stops.done < MaxStops
  /\ Teardown
  /\ player' = SetState(player, "stopping")
  /\ stops' = [stops EXCEPT !.at = "teardown"]
  /\ overlap' = (overlap \/ Settling)
  /\ UNCHANGED <<load, destroy, attached>>

\* runtime.stop(): a new epoch, so the worker's late reports are stale.
StopRuntime ==
  /\ stops.at = "teardown"
  /\ stops' = [stops EXCEPT !.at = "runtime"]
  /\ load' = Refused
  /\ player' = [player EXCEPT !.worker = "quiet"]
  /\ emitted' = <<>>
  /\ UNCHANGED <<current, session, destroy, attached, overlap>>

StopEnds ==
  /\ stops.at = "runtime"
  /\ stops' = [done |-> stops.done + 1, at |-> "none"]
  /\ player' = SetState(player, "idle")
  /\ emitted' = <<>>
  /\ UNCHANGED <<current, session, load, destroy, attached, overlap>>

Destroy ==
  /\ ~player.destroyed
  /\ destroy' = "begun"
  /\ player' = [player EXCEPT !.destroyed = TRUE, !.pendingFailed = FALSE]
  /\ overlap' = (overlap \/ Settling)
  /\ emitted' = <<>>
  /\ UNCHANGED <<current, session, load, stops, attached>>

\* Download, intercom and composite recording were cleaned up.
DestroyTeardown ==
  /\ destroy = "begun"
  /\ destroy' = "teardown"
  /\ Teardown
  /\ UNCHANGED <<player, load, stops, attached, overlap>>

DestroyEnds ==
  /\ destroy = "teardown"
  /\ destroy' = "done"
  /\ player' = [player EXCEPT !.state = "destroyed", !.worker = "quiet"]
  /\ load' = Refused
  /\ emitted' = <<>>
  /\ UNCHANGED <<current, session, stops, attached, overlap>>

-----------------------------------------------------------------------------
\* The sessions' own steps, which the player hears.
SessionRuns(s) ==
  /\ SessionStep(s)
  /\ player' = Heard(player, emitted')
  /\ UNCHANGED <<current, load, stops, destroy, attached, overlap>>

LoadStep(i) ==
  \/ LoadTornDown(i) \/ LoadUnsupported(i) \/ BootstrapEnds(i)
  \/ LoadStarted(i) \/ LoadThrew(i) \/ RuntimeLoaded(i) \/ RuntimeRefused(i)

Next ==
  \/ \E s \in Sessions : SessionRuns(s)
  \/ \E i \in Loads : Load(i) \/ LoadStep(i)
  \/ HoldEnds \/ WorkerError
  \/ Play \/ Pause
  \/ Stop \/ StopRuntime \/ StopEnds
  \/ Destroy \/ DestroyTeardown \/ DestroyEnds

\* Continuations run, timers fire (3 s bootstrap, 5 s source open) and an input
\* that was aborted ends (see Transports; a fetch is rejected).  LoadsSettle needs
\* that after destroy() only.  Nothing is assumed of the input, of the body of an
\* HLS response, the video element, the worker or the caller.
Continues(s) == MseOpens(s) \/ ConfigureFails(s) \/ AfterConfigure(s) \/ Aborted(s)

Fairness ==
  /\ \A i \in Loads : WF_vars(player.destroyed /\ LoadStep(i))
  /\ \A s \in Sessions : WF_vars(player.destroyed /\ Continues(s) /\ SessionRuns(s))
  /\ WF_vars(DestroyTeardown \/ DestroyEnds)

Spec == Init /\ [][Next]_vars /\ Fairness

-----------------------------------------------------------------------------
(* Properties *)

\* docs/web-v1-handoff/acceptance-checklist.md:38 says stop, reload and destroy
\* are leak-free: a session that holds resources is the player's current one.
SessionsOwned == \A s \in Sessions : Active(s) => s = current

\* A caller that waits for each load() to reach its session, and for stop(),
\* before the next call never leaves a session behind (player.ts:1258).
OwnedUnlessOverlap == ~overlap => SessionsOwned

\* The player never refers to a session that it has stopped, however a late
\* failure of one load() crosses the next (player.ts:936).
CurrentIsLive == current # None => Active(current)

\* After destroy(), nothing that was still awaited makes the player look alive
\* again (player.ts:1104), unless calls overlapped.
DestroyedStaysDead ==
  destroy = "done" /\ ~overlap => player.state \in {"destroyed", "failed"}

\* A stopped session is silent, except that start() reports a source that did
\* not open (playback-session.ts:263).
StoppedQuiet ==
  [][\A s \in Sessions :
       session[s].stopped /\ session[s].at # "configuring" /\ session'[s] # session[s]
         => emitted' = <<>>]_vars

\* start() waits for the body of an HLS response.
Draining(i) == load[i] = "starting" /\ session[i].flow = "draining"

\* Once the player is destroyed every load() call settles, so nobody waits for a
\* stream that is gone.  The exception: the body of an HLS response can be neither
\* aborted nor timed out (playback-session.ts:720); a load() whose body never comes
\* waits for ever.
LoadsSettle ==
  player.destroyed /\ ~overlap ~>
    \A i \in Loads : load[i] \in {"none", "done", "failed"} \/ []Draining(i)

\* Stopped sessions hold nothing, and the player refers to none of them.
SessionsTracked == StoppedHoldsNothing /\ CurrentIsLive

\* Without overlapping calls nothing is left behind, and what was destroyed stays so.
LeakFree == OwnedUnlessOverlap /\ DestroyedStaysDead
=============================================================================
