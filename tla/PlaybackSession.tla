---------------------------- MODULE PlaybackSession ----------------------------
(***************************************************************************)
(* The main-thread playback session (packages/runtime, playback-session.ts):*)
(* start() configures an MSE backend, binds the video element and feeds the *)
(* backend from a stream transport or from HLS fetches, until the input     *)
(* ends, fails or stop() is called.  Everything after an await is a step of *)
(* its own, so stop(), play() and the callbacks fall between.               *)
(*                                                                         *)
(* A step names in `emitted` the events it hands to onEvent, in order; what *)
(* the owner does with them is the owner's module (WebPlayer).  Left out:   *)
(* the media bytes, the tracks/backend/firstframe/stats events, seek, rate  *)
(* and frame stepping (forwarded to the MSE backend).                       *)
(***************************************************************************)
EXTENDS Naturals, Sequences

CONSTANTS Sessions,      \* identities of the sessions that may be created
          HlsSessions    \* those that play HLS; the others read one stream

ASSUME SessionsAssumption == HlsSessions \subseteq Sessions

VARIABLES
  session,   \* each session's fields and where its start() is
  emitted    \* the events the last step emitted

sessionVars == <<session, emitted>>

Fatal == <<"error", "failed">>

Created == [at |-> "none", mse |-> "none", flow |-> "off",
            stopped |-> FALSE, wantPlay |-> FALSE, watching |-> FALSE]

SessionRecord ==
  \* flow: "on" while the next data, or the headers of an HLS response, are awaited;
  \* "body" while the body of that response is, which stop() cannot abort.
  [at : {"none", "configuring", "configured", "streaming", "resolved", "rejected"},
   mse : {"none", "opening", "open", "closed"},
   flow : {"off", "on", "body", "aborting", "draining", "done"},
   stopped : BOOLEAN, wantPlay : BOOLEAN, watching : BOOLEAN]

\* The states it announces, and its errors.
SessionEvents ==
  {"loading", "preroll", "playing", "paused", "rebuffering", "ended", "failed", "error"}

SessionType == session \in [Sessions -> SessionRecord] /\ emitted \in Seq(SessionEvents)

SessionInit ==
  /\ session = [s \in Sessions |-> Created]
  /\ emitted = <<>>

Become(s, r, events) ==
  /\ session' = [session EXCEPT ![s] = r]
  /\ emitted' = events

\* What play() emits when the session feeds data and the user wants playback.
Resumed(s) == IF session[s].wantPlay THEN <<"playing">> ELSE <<>>

\* A step of a callback that checks `generation !== gen || stopped`.
Live(s) == ~session[s].stopped
Flowing(s) == session[s].flow \in {"on", "body"} /\ Live(s)

-----------------------------------------------------------------------------
(* start() *)

\* Up to `await mse.configure()`.
StartSession(s) ==
  /\ session[s].at = "none"
  /\ Become(s, [session[s] EXCEPT !.at = "configuring", !.mse = "opening"], <<"loading">>)

MseOpens(s) ==
  /\ session[s].at = "configuring" /\ session[s].mse = "opening"
  /\ Become(s, [session[s] EXCEPT !.at = "configured", !.mse = "open"], <<>>)

\* No MediaSource, an unsupported type, or the source does not open within
\* 5 s: the backend stops itself and start() fails, stopped or not.  A stop()
\* while the source opens does not end the wait.
ConfigureFails(s) ==
  /\ session[s].at = "configuring"
  /\ Become(s, [session[s] EXCEPT !.at = "rejected", !.mse = "closed"], Fatal)

\* Mutant: a session stopped while it was configured starts to stream.
AfterConfigureAlways(s) ==
  /\ session[s].at = "configured"
  /\ Become(s, [session[s] EXCEPT !.at = "streaming", !.watching = TRUE, !.flow = "on"],
            <<"preroll">>)

AfterConfigure(s) ==
  /\ session[s].at = "configured"
  /\ IF Live(s)
     THEN Become(s, [session[s] EXCEPT !.at = "streaming", !.watching = TRUE, !.flow = "on"],
                 <<"preroll">>)
     ELSE Become(s, [session[s] EXCEPT !.at = "resolved"], <<>>)

-----------------------------------------------------------------------------
(* The input: transport callbacks, or the HLS loop *)

\* Data was demuxed and pushed; the video is asked to play again.  The transport
\* of a session that failed goes on until it is stopped.
Chunk(s) ==
  /\ Flowing(s) /\ s \notin HlsSessions /\ session[s].wantPlay
  /\ Become(s, session[s], <<"playing">>)

\* The headers of a playlist or a segment arrive: from here on neither a timer
\* nor stop() ends the request.
HlsHeaders(s) ==
  /\ Flowing(s) /\ session[s].flow = "on" /\ s \in HlsSessions
  /\ Become(s, [session[s] EXCEPT !.flow = "body"], <<>>)

\* A body is complete and the next request is made: after a segment was pushed,
\* the video is asked to play.
HlsBody(s) ==
  /\ Flowing(s) /\ session[s].flow = "body"
  /\ \E events \in {<<>>, Resumed(s)} :
       Become(s, [session[s] EXCEPT !.flow = "on"], events)

\* push() throws.  The stream's transport is not stopped by it; an HLS loop is
\* left, by an encrypted playlist too, and reports the error a second time.
DemuxError(s) ==
  /\ Flowing(s)
  /\ IF s \in HlsSessions
     THEN /\ session[s].flow = "body"
          /\ Become(s, [session[s] EXCEPT !.at = "rejected", !.flow = "done"], Fatal \o Fatal)
     ELSE Become(s, [session[s] EXCEPT !.at = "rejected"], Fatal)

\* The transport gives up: onError, then onEnd, which flushes and resumes.
TransportFails(s, retryable) ==
  /\ Flowing(s) /\ s \notin HlsSessions
  /\ Become(s, [session[s] EXCEPT !.flow = "done",
                                  !.at = IF @ # "streaming" THEN @
                                         ELSE IF retryable THEN "resolved" ELSE "rejected"],
            (IF retryable THEN <<"error">> ELSE Fatal) \o Resumed(s))

\* A fetch or the reading of its body fails, or the playlist is empty.
HlsFails(s) ==
  /\ Flowing(s) /\ s \in HlsSessions
  /\ Become(s, [session[s] EXCEPT !.at = "rejected", !.flow = "done"], Fatal)

\* The transport ends, or the last segment was read: the video is asked to play.
StreamEnds(s) ==
  /\ Flowing(s) /\ (s \in HlsSessions => session[s].flow = "body")
  /\ Become(s, [session[s] EXCEPT !.flow = "done",
                                  !.at = IF @ = "streaming" THEN "resolved" ELSE @], Resumed(s))

\* start() returns once its input is gone.
InputGone(s) ==
  Become(s, [session[s] EXCEPT !.flow = "done",
                               !.at = IF @ = "streaming" THEN "resolved" ELSE @], <<>>)

\* stop() aborted the input: onEnd or the rejected fetch lets start() return.
Aborted(s) == session[s].flow = "aborting" /\ InputGone(s)

\* The body that was being read at stop() is complete or failed; until then
\* start() does not return.
Drained(s) == session[s].flow = "draining" /\ InputGone(s)

-----------------------------------------------------------------------------
(* The MSE backend's and the video element's callbacks *)

\* MseBackend.handleError: onError, then it stops itself; the input goes on.
MseError(s) ==
  /\ session[s].mse \in {"opening", "open"} /\ Live(s)
  /\ Become(s, [session[s] EXCEPT !.mse = "closed"], Fatal)

VideoEvent(s, event) ==
  /\ session[s].watching /\ Live(s)
  /\ event = "paused" => ~session[s].wantPlay
  /\ Become(s, session[s], <<event>>)

VideoEvents == {"playing", "rebuffering", "paused", "ended"}

-----------------------------------------------------------------------------
(* play(), pause() and stop() *)

PlaySession(s) ==
  Become(s, [session[s] EXCEPT !.wantPlay = TRUE], IF Live(s) THEN <<"playing">> ELSE <<>>)

PauseSession(s) ==
  Become(s, [session[s] EXCEPT !.wantPlay = FALSE], IF Live(s) THEN <<"paused">> ELSE <<>>)

\* Mutant: the input is not aborted.
StoppedFlowing(r) ==
  IF r.stopped THEN r
  ELSE [r EXCEPT !.stopped = TRUE, !.watching = FALSE,
                 !.mse = IF @ = "none" THEN @ ELSE "closed"]

\* The synchronous part of stop(), MseBackend.stop() included.
Stopped(r) ==
  IF r.stopped THEN r
  ELSE [r EXCEPT !.stopped = TRUE, !.watching = FALSE,
                 !.flow = CASE @ = "on" -> "aborting"
                            [] @ = "body" -> "draining"
                            [] OTHER -> @,
                 !.mse = IF @ = "none" THEN @ ELSE "closed"]

StopSession(s) == Become(s, Stopped(session[s]), <<>>)

-----------------------------------------------------------------------------
\* Steps the session takes by itself, on a callback or after an await.
SessionStep(s) ==
  \/ MseOpens(s) \/ ConfigureFails(s) \/ AfterConfigure(s)
  \/ Chunk(s) \/ HlsHeaders(s) \/ HlsBody(s) \/ DemuxError(s)
  \/ \E retryable \in BOOLEAN : TransportFails(s, retryable)
  \/ HlsFails(s) \/ StreamEnds(s) \/ Aborted(s) \/ Drained(s)
  \/ MseError(s) \/ \E event \in VideoEvents : VideoEvent(s, event)

\* Steps the owner makes it take.
SessionCall(s) ==
  \/ StartSession(s)
  \/ session[s].at # "none" /\ (PlaySession(s) \/ PauseSession(s) \/ StopSession(s))

SessionNext == \E s \in Sessions : SessionStep(s) \/ SessionCall(s)

SessionSpec == SessionInit /\ [][SessionNext]_sessionVars

-----------------------------------------------------------------------------
\* A session that is not stopped may have a MediaSource, listeners, a timer
\* and a connection.
Active(s) == session[s].at # "none" /\ Live(s)

\* The parts of a stopped session that stop() and the late continuations of
\* start() must agree on: no listeners or stats timer, no MediaSource, no input
\* that data is taken from or that stop() could have aborted.  What is left is
\* the body of an HLS response that is "draining".
Released(r) == ~r.watching /\ r.mse \in {"none", "closed"} /\ r.flow \notin {"on", "body"}

\* Whatever stop() interrupted (playback-session.ts:363), nothing that start()
\* does after its awaits takes hold of a resource again.
StoppedHoldsNothing == \A s \in Sessions : session[s].stopped => Released(session[s])
=============================================================================
