---------------------------- MODULE WebPlayerProofs ----------------------------
(***************************************************************************)
(* Proofs about the web player: whatever load(), stop(), destroy() and the *)
(* callbacks do in between, a stopped session holds nothing and the player *)
(* never refers to a session that is stopped or was not started.  Calls    *)
(* that do not overlap leave no session behind, and a player that is       *)
(* destroyed stays so.                                                     *)
(***************************************************************************)
EXTENDS WebPlayer, TLAPS

\* What holds of each session at every step.  A session that was not started
\* is as it was created, which keeps callbacks and stop() away from it.
Good(r) ==
  /\ r \in SessionRecord
  /\ r.stopped => Released(r)
  /\ r.at = "none" => r = Created

\* The sessions are good and the current one, if any, was started and is live.
SInv ==
  /\ session \in [Sessions -> SessionRecord]
  /\ \A s \in Sessions : Good(session[s])
  /\ current \in Loads \cup {None}
  /\ CurrentIsLive

\* A session's own step keeps it good, and neither starts nor stops it.
LEMMA StepGood ==
  ASSUME NEW s \in Sessions, SInv, SessionStep(s)
  PROVE  \E r \in SessionRecord :
           /\ session' = [session EXCEPT ![s] = r]
           /\ Good(r)
           /\ r.stopped = session[s].stopped
           /\ r.at # "none"
<1> DEFINE old == session[s]
<1>1. /\ old \in SessionRecord
      /\ old.stopped => Released(old)
      /\ old.at = "none" => old = Created
  BY DEF SInv, Good
<1>2. CASE MseOpens(s)
  <2> DEFINE r == [old EXCEPT !.at = "configured", !.mse = "open"]
  <2>1. session' = [session EXCEPT ![s] = r]
    BY <1>2 DEF MseOpens, Become
  <2>2. ~old.stopped
    BY <1>1, <1>2 DEF MseOpens, Released
  <2>9. r \in SessionRecord /\ Good(r) /\ r.stopped = old.stopped /\ r.at # "none"
    BY <1>1, <2>1, <2>2 DEF Good, SessionRecord
  <2> QED
    BY <2>1, <2>9
<1>3. CASE ConfigureFails(s)
  <2> DEFINE r == [old EXCEPT !.at = "rejected", !.mse = "closed"]
  <2>1. session' = [session EXCEPT ![s] = r]
    BY <1>3 DEF ConfigureFails, Become
  <2>9. r \in SessionRecord /\ Good(r) /\ r.stopped = old.stopped /\ r.at # "none"
    BY <1>1, <2>1 DEF Good, SessionRecord, Released
  <2> QED
    BY <2>1, <2>9
<1>4. CASE AfterConfigure(s)
  <2>1. CASE old.stopped
    <3> DEFINE r == [old EXCEPT !.at = "resolved"]
    <3>1. session' = [session EXCEPT ![s] = r]
      BY <1>4, <2>1 DEF AfterConfigure, Become, Live
    <3>9. r \in SessionRecord /\ Good(r) /\ r.stopped = old.stopped /\ r.at # "none"
      BY <1>1, <3>1 DEF Good, SessionRecord, Released
    <3> QED
      BY <3>1, <3>9
  <2>2. CASE ~old.stopped
    <3> DEFINE r == [old EXCEPT !.at = "streaming", !.watching = TRUE, !.flow = "on"]
    <3>1. session' = [session EXCEPT ![s] = r]
      BY <1>4, <2>2 DEF AfterConfigure, Become, Live
    <3>9. r \in SessionRecord /\ Good(r) /\ r.stopped = old.stopped /\ r.at # "none"
      BY <1>1, <2>2, <3>1 DEF Good, SessionRecord
    <3> QED
      BY <3>1, <3>9
  <2> QED
    BY <2>1, <2>2
<1>5. CASE Chunk(s) \/ \E event \in VideoEvents : VideoEvent(s, event)
  <2>1. session' = [session EXCEPT ![s] = old]
    BY <1>5 DEF Chunk, VideoEvent, Become
  <2>2. old.at # "none"
    <3>1. CASE Chunk(s)
      BY <1>1, <3>1 DEF Chunk, Flowing, Created
    <3>2. CASE old.watching
      BY <1>1, <3>2 DEF Created
    <3> QED
      BY <1>5, <3>1, <3>2 DEF VideoEvent
  <2>9. Good(old)
    BY <1>1 DEF Good
  <2> QED
    BY <1>1, <2>1, <2>2, <2>9
<1>6. CASE DemuxError(s)
  <2>1. PICK f \in {old.flow, "done"} :
          session' = [session EXCEPT ![s] = [old EXCEPT !.at = "rejected", !.flow = f]]
    <3>1. CASE s \in HlsSessions
      BY <1>6, <3>1 DEF DemuxError, Become
    <3>2. CASE s \notin HlsSessions
      <4>1. [old EXCEPT !.at = "rejected", !.flow = old.flow] = [old EXCEPT !.at = "rejected"]
        BY <1>1 DEF SessionRecord
      <4> QED
        BY <1>6, <3>2, <4>1 DEF DemuxError, Become
    <3> QED
      BY <3>1, <3>2
  <2> DEFINE r == [old EXCEPT !.at = "rejected", !.flow = f]
  <2>2. f \in {old.flow, "done"} /\ ~old.stopped
    BY <1>6 DEF DemuxError, Flowing, Live
  <2>9. r \in SessionRecord /\ Good(r) /\ r.stopped = old.stopped /\ r.at # "none"
    BY <1>1, <2>1, <2>2 DEF Good, SessionRecord, Released
  <2> QED
    BY <2>1, <2>9
<1>7. CASE \/ \E retryable \in BOOLEAN : TransportFails(s, retryable)
           \/ HlsFails(s) \/ StreamEnds(s) \/ Aborted(s) \/ Drained(s)
  <2>1. PICK a \in {old.at, "resolved", "rejected"} :
          session' = [session EXCEPT ![s] = [old EXCEPT !.flow = "done", !.at = a]]
    <3>1. CASE \E retryable \in BOOLEAN : TransportFails(s, retryable)
      BY <1>1, <3>1 DEF TransportFails, Become, SessionRecord
    <3>2. CASE HlsFails(s)
      BY <1>1, <3>2 DEF HlsFails, Become, SessionRecord
    <3>3. CASE StreamEnds(s)
      BY <1>1, <3>3 DEF StreamEnds, Become, SessionRecord
    <3>4. CASE Aborted(s) \/ Drained(s)
      BY <1>1, <3>4 DEF Aborted, Drained, InputGone, Become, SessionRecord
    <3> QED
      BY <1>7, <3>1, <3>2, <3>3, <3>4
  <2>2. old.at # "none"
    <3>1. old.flow # "off"
      BY <1>7 DEF TransportFails, HlsFails, StreamEnds, Aborted, Drained, Flowing
    <3> QED
      BY <1>1, <3>1 DEF Created
  <2> DEFINE r == [old EXCEPT !.flow = "done", !.at = a]
  <2>9. r \in SessionRecord /\ Good(r) /\ r.stopped = old.stopped /\ r.at # "none"
    BY <1>1, <2>1, <2>2 DEF Good, SessionRecord, Released
  <2> QED
    BY <2>1, <2>9
<1>8. CASE MseError(s)
  <2> DEFINE r == [old EXCEPT !.mse = "closed"]
  <2>1. session' = [session EXCEPT ![s] = r]
    BY <1>8 DEF MseError, Become
  <2>2. old.at # "none"
    BY <1>1, <1>8 DEF MseError, Created
  <2>9. r \in SessionRecord /\ Good(r) /\ r.stopped = old.stopped /\ r.at # "none"
    BY <1>1, <2>1, <2>2 DEF Good, SessionRecord, Released
  <2> QED
    BY <2>1, <2>9
<1>9. CASE HlsHeaders(s) \/ HlsBody(s)
  <2>1. PICK f \in {"on", "body"} : session' = [session EXCEPT ![s] = [old EXCEPT !.flow = f]]
    BY <1>9 DEF HlsHeaders, HlsBody, Become
  <2>2. ~old.stopped /\ old.at # "none"
    BY <1>1, <1>9 DEF HlsHeaders, HlsBody, Flowing, Live, Created
  <2> DEFINE r == [old EXCEPT !.flow = f]
  <2>9. r \in SessionRecord /\ Good(r) /\ r.stopped = old.stopped /\ r.at # "none"
    BY <1>1, <2>1, <2>2 DEF Good, SessionRecord
  <2> QED
    BY <2>1, <2>9
<1> QED
  BY <1>2, <1>3, <1>4, <1>5, <1>6, <1>7, <1>8, <1>9 DEF SessionStep

\* stop() leaves a started session good and stopped.
LEMMA StoppedGood ==
  ASSUME NEW r, Good(r), r.at # "none"
  PROVE  Good(Stopped(r)) /\ Stopped(r).at # "none"
<1>1. CASE r.stopped
  BY <1>1 DEF Stopped
<1>2. CASE ~r.stopped
  BY <1>2 DEF Stopped, Good, SessionRecord, Released
<1> QED
  BY <1>1, <1>2

\* teardownSession() keeps the sessions good and leaves none current.
LEMMA TeardownSafe ==
  ASSUME SInv, Teardown
  PROVE  SInv'
<1>1. CASE current = None
  BY <1>1 DEF SInv, Teardown, CurrentIsLive, Active, Live, Good
<1>2. CASE current # None
  <2>1. current \in Sessions /\ session[current].at # "none"
    BY <1>2, PlayerAssumption DEF SInv, CurrentIsLive, Active, Loads
  <2>2. Good(Stopped(session[current]))
    BY <2>1, StoppedGood DEF SInv
  <2>3. session' = [session EXCEPT ![current] = Stopped(session[current])]
    BY <1>2 DEF Teardown
  <2>4. session' \in [Sessions -> SessionRecord] /\ \A s \in Sessions : Good(session'[s])
    BY <2>1, <2>2, <2>3 DEF SInv, Good
  <2> QED
    BY <2>4 DEF Teardown, SInv, CurrentIsLive, Good
<1> QED
  BY <1>1, <1>2

\* The player's play() and pause() change only what the user wants.
LEMMA WantGood ==
  ASSUME SInv, current # None, NEW w \in BOOLEAN,
         session' = [session EXCEPT ![current] = [session[current] EXCEPT !.wantPlay = w]],
         current' = current
  PROVE  SInv'
<1> DEFINE r == [session[current] EXCEPT !.wantPlay = w]
<1>1. current \in Sessions /\ session[current].at # "none" /\ ~session[current].stopped
  BY PlayerAssumption DEF SInv, CurrentIsLive, Active, Live, Loads
<1>2. Good(r) /\ r.at # "none" /\ ~r.stopped
  BY <1>1 DEF SInv, Good, SessionRecord
<1>3. session' \in [Sessions -> SessionRecord] /\ \A s \in Sessions : Good(session'[s])
  BY <1>1, <1>2 DEF SInv, Good
<1> QED
  BY <1>1, <1>2, <1>3 DEF SInv, CurrentIsLive, Active, Live, Good

\* Every step keeps the sessions and the player's reference sound.
LEMMA SInvStep ==
  ASSUME SInv, [Next]_vars
  PROVE  SInv'
<1> USE PlayerAssumption DEF Loads
<1>1. CASE UNCHANGED <<session, current>>
  BY <1>1 DEF SInv, CurrentIsLive, Active, Live, Good
<1>2. ASSUME NEW s \in Sessions, SessionRuns(s) PROVE SInv'
  <2>1. PICK r \in SessionRecord :
          /\ session' = [session EXCEPT ![s] = r]
          /\ Good(r)
          /\ r.stopped = session[s].stopped
          /\ r.at # "none"
    BY <1>2, StepGood DEF SessionRuns
  <2>2. current' = current
    BY <1>2 DEF SessionRuns
  <2>3. session' \in [Sessions -> SessionRecord] /\ \A t \in Sessions : Good(session'[t])
    BY <2>1 DEF SInv
  <2>4. CurrentIsLive'
    BY <2>1, <2>2 DEF SInv, CurrentIsLive, Active, Live
  <2> QED
    BY <2>2, <2>3, <2>4 DEF SInv, Good
<1>3. ASSUME Teardown PROVE SInv'
  BY <1>3, TeardownSafe
<1>4. ASSUME NEW i \in Loads, BootstrapEnds(i) PROVE SInv'
  <2> DEFINE r == [session[i] EXCEPT !.at = "configuring", !.mse = "opening"]
  <2>1. i \in Sessions /\ i # None
    BY DEF None
  <2>2. session' = [session EXCEPT ![i] = r] /\ current' = i /\ session[i] = Created
    BY <1>4, <2>1 DEF BootstrapEnds, StartSession, Become, SInv, Good
  <2>3. Good(r) /\ r.at # "none" /\ ~r.stopped
    <3>1. session[i] \in SessionRecord
      BY <2>1 DEF SInv
    <3>2. ~session[i].stopped
      BY <2>2 DEF Created
    <3> QED
      BY <3>1, <3>2 DEF Good, SessionRecord
  <2>4. session' \in [Sessions -> SessionRecord] /\ \A t \in Sessions : Good(session'[t])
    BY <2>1, <2>2, <2>3 DEF SInv, Good
  <2> QED
    BY <2>1, <2>2, <2>3, <2>4 DEF SInv, CurrentIsLive, Active, Live, Good
<1>5. ASSUME Play PROVE SInv'
  <2>1. CASE current # None
    BY <1>5, <2>1, WantGood DEF Play, PlaySession, Become
  <2>2. CASE current = None
    BY <1>1, <1>5, <2>2 DEF Play
  <2> QED
    BY <2>1, <2>2
<1>6. ASSUME Pause PROVE SInv'
  <2>1. CASE current # None
    BY <1>6, <2>1, WantGood DEF Pause, PauseSession, Become
  <2>2. CASE current = None
    BY <1>1, <1>6, <2>2 DEF Pause
  <2> QED
    BY <2>1, <2>2
<1>7. ASSUME NEW i \in Loads, Load(i) \/ LoadThrew(i) \/ Stop \/ DestroyTeardown PROVE SInv'
  BY <1>3, <1>7 DEF Load, LoadThrew, Stop, DestroyTeardown
<1>8. CASE UNCHANGED vars
  BY <1>1, <1>8 DEF vars
<1>9. CASE Next
  <2>1. ASSUME NEW i \in Loads, Load(i) \/ LoadStep(i) PROVE SInv'
    BY <1>1, <1>4, <1>7, <2>1
    DEF LoadStep, LoadTornDown, LoadUnsupported, LoadStarted, RuntimeLoaded, RuntimeRefused
  <2>2. CASE Stop \/ DestroyTeardown
    BY <1>3, <2>2 DEF Stop, DestroyTeardown
  <2>3. CASE HoldEnds \/ WorkerError \/ StopRuntime \/ StopEnds \/ Destroy \/ DestroyEnds
    BY <1>1, <2>3 DEF HoldEnds, WorkerError, StopRuntime, StopEnds, Destroy, DestroyEnds
  <2> QED
    BY <1>2, <1>5, <1>6, <1>9, <2>1, <2>2, <2>3 DEF Next
<1> QED
  BY <1>8, <1>9

LEMMA SInvInit == Init => SInv
BY DEF Init, SessionInit, SInv, Good, CurrentIsLive, SessionRecord, Created

\* A stopped session never holds listeners, a MediaSource or an input again, and
\* the player's current session is never one that was stopped: for any number of
\* loads and stops, however they overlap (playback-session.ts:363, player.ts:1258).
THEOREM SessionsReleased == Spec => []SessionsTracked
<1>1. SInv => SessionsTracked
  BY DEF SInv, Good, SessionsTracked, StoppedHoldsNothing
<1> QED
  BY <1>1, SInvInit, SInvStep, PTL DEF Spec

-----------------------------------------------------------------------------
(* What a session emits, and what the player makes of it *)

\* What a step may emit: events its owner knows, four at most.
Announced(u) == u \in Seq(SessionEvents) /\ Len(u) <= 4

LEMMA EventsTyped ==
  /\ Announced(<<>>) /\ Announced(Fatal) /\ Announced(Fatal \o Fatal)
  /\ \A e \in SessionEvents : Announced(<<e>>)
  /\ \A s \in Sessions : /\ Announced(Resumed(s))
                        /\ Announced(<<"error">> \o Resumed(s))
                        /\ Announced(Fatal \o Resumed(s))
<1>1. /\ Fatal \in Seq(SessionEvents) /\ Len(Fatal) = 2
      /\ <<"error">> \in Seq(SessionEvents) /\ Len(<<"error">>) = 1
      /\ <<"playing">> \in Seq(SessionEvents) /\ Len(<<"playing">>) = 1
      /\ <<>> \in Seq(SessionEvents) /\ Len(<<>>) = 0
  BY DEF SessionEvents, Fatal
<1>2. \A s \in Sessions : Resumed(s) \in Seq(SessionEvents) /\ Len(Resumed(s)) <= 1
  BY <1>1 DEF Resumed
<1>3. ASSUME NEW u \in Seq(SessionEvents), NEW v \in Seq(SessionEvents), Len(u) <= 2, Len(v) <= 2
      PROVE  Announced(u \o v)
  BY <1>3 DEF Announced
<1>4. \A e \in SessionEvents : Announced(<<e>>)
  BY DEF Announced
<1>5. Announced(<<>>) /\ Announced(Fatal) /\ Announced(Fatal \o Fatal)
  <2>1. Len(Fatal) <= 2
    BY <1>1
  <2>2. Announced(Fatal \o Fatal)
    BY <1>1, <1>3, <2>1, Zenon
  <2> QED
    BY <1>1, <2>2 DEF Announced
<1>6. ASSUME NEW s \in Sessions
      PROVE  /\ Announced(Resumed(s))
             /\ Announced(<<"error">> \o Resumed(s))
             /\ Announced(Fatal \o Resumed(s))
  <2>1. Len(Resumed(s)) \in Nat /\ Len(Resumed(s)) <= 2
    BY <1>2
  <2>2. Resumed(s) \in Seq(SessionEvents) /\ Len(Fatal) <= 2 /\ Len(<<"error">>) <= 2
    BY <1>1, <1>2
  <2>3. Announced(<<"error">> \o Resumed(s)) /\ Announced(Fatal \o Resumed(s))
    BY <1>1, <1>3, <2>1, <2>2, Zenon
  <2> QED
    BY <2>1, <2>2, <2>3 DEF Announced
<1> QED
  BY <1>4, <1>5, <1>6

\* Every step of a session emits events its owner knows, four at most.
LEMMA StepEmits ==
  ASSUME NEW s \in Sessions, SessionStep(s)
  PROVE  Announced(emitted')
<1>1. CASE MseOpens(s) \/ AfterConfigure(s) \/ Chunk(s) \/ HlsHeaders(s)
  <2>1. emitted' \in {<<>>, <<"preroll">>, <<"playing">>}
    BY <1>1 DEF MseOpens, AfterConfigure, Chunk, HlsHeaders, Become
  <2>2. {"preroll", "playing"} \subseteq SessionEvents
    BY DEF SessionEvents
  <2> QED
    BY <2>1, <2>2, EventsTyped
<1>2. CASE \/ ConfigureFails(s) \/ HlsFails(s) \/ Aborted(s) \/ Drained(s)
           \/ MseError(s) \/ DemuxError(s)
  <2>1. emitted' \in {<<>>, Fatal, Fatal \o Fatal}
    BY <1>2 DEF ConfigureFails, HlsFails, Aborted, Drained, InputGone, MseError, DemuxError,
         Become
  <2> QED
    BY <2>1, EventsTyped
<1>3. CASE HlsBody(s) \/ StreamEnds(s) \/ \E retryable \in BOOLEAN : TransportFails(s, retryable)
  <2>1. emitted' \in {<<>>, Resumed(s), <<"error">> \o Resumed(s), Fatal \o Resumed(s)}
    BY <1>3 DEF HlsBody, StreamEnds, TransportFails, Become
  <2> QED
    BY <2>1, EventsTyped
<1>4. CASE \E event \in VideoEvents : VideoEvent(s, event)
  <2>1. \E event \in SessionEvents : emitted' = <<event>>
    BY <1>4 DEF VideoEvent, VideoEvents, SessionEvents, Become
  <2> QED
    BY <2>1, EventsTyped
<1> QED
  BY <1>1, <1>2, <1>3, <1>4 DEF SessionStep

\* A stopped session is silent, but for the failure of a start() that still
\* waits for its source to open.
LEMMA StoppedEmits ==
  ASSUME NEW s \in Sessions, SInv, SessionStep(s), session[s].stopped
  PROVE  emitted' = <<>> \/ (emitted' = Fatal /\ session[s].at = "configuring")
<1>1. Released(session[s]) /\ ~Live(s) /\ ~Flowing(s)
  BY DEF SInv, Good, Live, Flowing
<1>2. ~session[s].watching /\ session[s].mse \notin {"opening", "open"}
  BY <1>1 DEF Released
<1> QED
  BY <1>1, <1>2 DEF SessionStep, MseOpens, ConfigureFails, AfterConfigure, Chunk, HlsHeaders,
       HlsBody, DemuxError, TransportFails, HlsFails, StreamEnds, Aborted, Drained, InputGone,
       MseError, VideoEvent, Become

\* A stopped session says nothing to the player any more, whatever was under way
\* in it, but for a source that does not open (playback-session.ts:263, 378).
THEOREM StoppedIsQuiet == Spec => StoppedQuiet
<1> DEFINE Quiet == \A s \in Sessions :
              session[s].stopped /\ session[s].at # "configuring" /\ session'[s] # session[s]
                => emitted' = <<>>
<1>1. SInv /\ [Next]_vars => [Quiet]_vars
  <2> SUFFICES ASSUME SInv, Next, NEW s \in Sessions, session[s].stopped,
                      session[s].at # "configuring", session'[s] # session[s]
               PROVE  emitted' = <<>>
    OBVIOUS
  <2>1. ASSUME NEW u \in Sessions, SessionRuns(u) PROVE emitted' = <<>>
    <3>1. u = s
      BY <2>1, StepGood DEF SessionRuns, SInv
    <3> QED
      BY <2>1, <3>1, StoppedEmits DEF SessionRuns
  <2>2. ASSUME NEW i \in Loads, BootstrapEnds(i) PROVE emitted' = <<>>
    <3>1. session[s].at # "none"
      BY DEF SInv, Good, Created
    <3>2. i \in Sessions /\ session[i].at = "none" /\ session'[s] = session[s]
      BY <2>2, <3>1, PlayerAssumption DEF Loads, BootstrapEnds, StartSession, Become, SInv
    <3> QED
      BY <3>2
  <2>3. CASE (Play \/ Pause) /\ current # None
    <3>1. current \in Sessions /\ current # s
      BY <2>3, PlayerAssumption DEF SInv, Loads, CurrentIsLive, Active, Live
    <3>2. session'[s] = session[s]
      BY <2>3, <3>1 DEF Play, Pause, PlaySession, PauseSession, Become, SInv
    <3> QED
      BY <3>2
  <2>4. CASE (Play \/ Pause) /\ current = None
    BY <2>4 DEF Play, Pause
  <2>5. ASSUME NEW i \in Loads, Load(i) \/ LoadStep(i), ~BootstrapEnds(i) PROVE emitted' = <<>>
    BY <2>5 DEF Load, LoadStep, LoadTornDown, LoadUnsupported, LoadStarted, LoadThrew,
         RuntimeLoaded, RuntimeRefused, Teardown
  <2>6. CASE HoldEnds \/ WorkerError \/ Stop \/ StopRuntime \/ StopEnds
             \/ Destroy \/ DestroyTeardown \/ DestroyEnds
    BY <2>6 DEF HoldEnds, WorkerError, Stop, StopRuntime, StopEnds, Destroy, DestroyTeardown,
         DestroyEnds, Teardown
  <2> QED
    BY <2>1, <2>2, <2>3, <2>4, <2>5, <2>6 DEF Next
<1> QED
  BY <1>1, SInvInit, SInvStep, PTL DEF Spec, StoppedQuiet

-----------------------------------------------------------------------------
(* Type correctness *)

LEMMA SetStateTyped ==
  ASSUME NEW p \in PlayerRecord, NEW to \in PlayerStates
  PROVE  /\ SetState(p, to) \in PlayerRecord
         /\ SetState(p, to).destroyed = p.destroyed
<1>1. CASE p.state = to
  BY <1>1 DEF SetState
<1>2. CASE p.state # to /\ to = "failed" /\ p.state = "preroll"
  BY <1>2 DEF SetState, PlayerRecord
<1>3. CASE p.state # to /\ ~(to = "failed" /\ p.state = "preroll")
  <2> DEFINE f == p.pendingFailed /\ to \notin Cancelling
  <2>1. SetState(p, to) = [p EXCEPT !.state = to, !.pendingFailed = f]
    BY <1>3, Zenon DEF SetState
  <2>2. f \in BOOLEAN
    OBVIOUS
  <2> QED
    BY <2>1, <2>2 DEF PlayerRecord
<1> QED
  BY <1>1, <1>2, <1>3

LEMMA HearTyped ==
  ASSUME NEW p \in PlayerRecord, NEW u, Announced(u), NEW i
  PROVE  /\ Hear(p, u, i) \in PlayerRecord
         /\ Hear(p, u, i).destroyed = p.destroyed
<1>1. CASE i \in 1..Len(u)
  <2>1. u[i] \in SessionEvents
    BY <1>1 DEF Announced
  <2>2. StateOf(u[i]) \in PlayerStates
    BY <2>1 DEF SessionEvents, StateOf, PlayerStates
  <2> QED
    BY <1>1, <2>2, SetStateTyped DEF Hear
<1>2. CASE i \notin 1..Len(u)
  BY <1>2 DEF Hear
<1> QED
  BY <1>1, <1>2

LEMMA HeardTyped ==
  ASSUME NEW p \in PlayerRecord, NEW u, Announced(u)
  PROVE  Heard(p, u) \in PlayerRecord /\ Heard(p, u).destroyed = p.destroyed
<1> DEFINE p1 == Hear(p, u, 1)
           p2 == Hear(p1, u, 2)
           p3 == Hear(p2, u, 3)
<1>1. p1 \in PlayerRecord /\ p1.destroyed = p.destroyed
  BY HearTyped
<1> HIDE DEF p1
<1>2. p2 \in PlayerRecord /\ p2.destroyed = p.destroyed
  BY <1>1, HearTyped
<1> HIDE DEF p2
<1>3. p3 \in PlayerRecord /\ p3.destroyed = p.destroyed
  BY <1>2, HearTyped
<1> HIDE DEF p3
<1>4. Hear(p3, u, 4) \in PlayerRecord /\ Hear(p3, u, 4).destroyed = p.destroyed
  BY <1>3, HearTyped
<1> QED
  BY <1>4 DEF Heard, p1, p2, p3

\* The types of the player's own variables; SInv has those of the sessions.
PlayerTyped ==
  /\ Announced(emitted)
  /\ player \in PlayerRecord
  /\ load \in [Loads -> {"none", "teardown", "bootstrap", "runtime", "refused",
                         "starting", "done", "failed"}]
  /\ stops \in [done : 0..MaxStops, at : {"none", "teardown", "runtime"}]
  /\ stops.at # "none" => stops.done < MaxStops
  /\ destroy \in {"none", "begun", "teardown", "done"}
  /\ attached \in BOOLEAN /\ overlap \in BOOLEAN

LEMMA PlayerTypedStep ==
  ASSUME SInv, PlayerTyped, [Next]_vars
  PROVE  PlayerTyped'
<1> USE DEF PlayerTyped
<1>1. Announced(<<>>)
  BY EventsTyped
<1>2. \A to \in PlayerStates : SetState(player, to) \in PlayerRecord
  BY SetStateTyped
<1>3. Refused \in [Loads -> {"none", "teardown", "bootstrap", "runtime", "refused",
                            "starting", "done", "failed"}]
  BY DEF Refused
<1>4. (overlap \/ Settling) \in BOOLEAN
  OBVIOUS
<1>5. {"idle", "loading", "preroll", "playing", "paused", "stopping", "failed", "destroyed"}
        \subseteq PlayerStates
  BY DEF PlayerStates
<1>10. ASSUME NEW s \in Sessions, SessionRuns(s) PROVE PlayerTyped'
  BY <1>10, StepEmits, HeardTyped DEF SessionRuns
<1>11. ASSUME NEW i \in Loads, Load(i) PROVE PlayerTyped'
  BY <1>1, <1>2, <1>4, <1>5, <1>11 DEF Load, Teardown
<1>12. ASSUME NEW i \in Loads, LoadTornDown(i) PROVE PlayerTyped'
  <2>1. player' \in PlayerRecord
    BY <1>12 DEF LoadTornDown, PlayerRecord
  <2> QED
    BY <1>1, <1>3, <1>12, <2>1 DEF LoadTornDown
<1>13. ASSUME NEW i \in Loads, LoadUnsupported(i) PROVE PlayerTyped'
  BY <1>1, <1>2, <1>5, <1>13 DEF LoadUnsupported
<1>14. ASSUME NEW i \in Loads, BootstrapEnds(i) PROVE PlayerTyped'
  <2>1. emitted' = <<"loading">>
    BY <1>14 DEF BootstrapEnds, StartSession, Become
  <2>2. Announced(emitted')
    BY <2>1, EventsTyped DEF SessionEvents
  <2>3. player' \in PlayerRecord
    BY <1>14, <2>2, HeardTyped DEF BootstrapEnds
  <2> QED
    BY <1>14, <2>2, <2>3 DEF BootstrapEnds
<1>15. ASSUME NEW i \in Loads, LoadStarted(i) PROVE PlayerTyped'
  BY <1>1, <1>2, <1>5, <1>15 DEF LoadStarted
<1>16. ASSUME NEW i \in Loads, LoadThrew(i) PROVE PlayerTyped'
  BY <1>1, <1>2, <1>5, <1>16 DEF LoadThrew, Teardown
<1>17. ASSUME NEW i \in Loads, RuntimeLoaded(i) PROVE PlayerTyped'
  BY <1>1, <1>2, <1>5, <1>17 DEF RuntimeLoaded
<1>18. ASSUME NEW i \in Loads, RuntimeRefused(i) PROVE PlayerTyped'
  BY <1>1, <1>2, <1>5, <1>18 DEF RuntimeRefused
<1>19. CASE HoldEnds
  <2>1. player' \in PlayerRecord
    BY <1>19 DEF HoldEnds, PlayerRecord, PlayerStates
  <2> QED
    BY <1>1, <1>19, <2>1 DEF HoldEnds
<1>20. CASE WorkerError
  <2> DEFINE p == SetState(player, "failed")
  <2>1. p \in PlayerRecord
    BY <1>2, <1>5
  <2> HIDE DEF p
  <2>2. [p EXCEPT !.worker = "quiet"] \in PlayerRecord
    BY <2>1 DEF PlayerRecord
  <2> QED
    BY <1>1, <1>3, <1>20, <2>2 DEF WorkerError, p
<1>21. CASE Play
  <2>1. emitted' \in {<<>>, <<"playing">>}
    BY <1>21 DEF Play, PlaySession, Become
  <2>2. Announced(emitted')
    BY <2>1, EventsTyped DEF SessionEvents
  <2>3. player' \in PlayerRecord
    BY <1>2, <1>5, <1>21, <2>2, HeardTyped DEF Play
  <2> QED
    BY <1>21, <2>2, <2>3 DEF Play
<1>22. CASE Pause
  <2>1. emitted' \in {<<>>, <<"paused">>}
    BY <1>22 DEF Pause, PauseSession, Become
  <2>2. Announced(emitted')
    BY <2>1, EventsTyped DEF SessionEvents
  <2>3. player' \in PlayerRecord
    BY <1>2, <1>5, <1>22, <2>2, HeardTyped DEF Pause
  <2> QED
    BY <1>22, <2>2, <2>3 DEF Pause
<1>23. CASE Stop
  BY <1>1, <1>2, <1>4, <1>5, <1>23 DEF Stop, Teardown
<1>24. CASE StopRuntime
  <2>1. player' \in PlayerRecord
    BY <1>24 DEF StopRuntime, PlayerRecord
  <2> QED
    BY <1>1, <1>3, <1>24, <2>1 DEF StopRuntime
<1>25. CASE StopEnds
  <2>1. stops.done + 1 \in 0..MaxStops
    BY <1>25, PlayerAssumption DEF StopEnds
  <2> QED
    BY <1>1, <1>2, <1>5, <1>25, <2>1 DEF StopEnds
<1>26. CASE Destroy
  <2>1. player' \in PlayerRecord
    BY <1>26 DEF Destroy, PlayerRecord
  <2> QED
    BY <1>1, <1>4, <1>26, <2>1 DEF Destroy
<1>27. CASE DestroyTeardown
  BY <1>1, <1>27 DEF DestroyTeardown, Teardown
<1>28. CASE DestroyEnds
  <2>1. player' \in PlayerRecord
    BY <1>28 DEF DestroyEnds, PlayerRecord, PlayerStates
  <2> QED
    BY <1>1, <1>3, <1>28, <2>1 DEF DestroyEnds
<1>29. CASE UNCHANGED vars
  BY <1>29 DEF vars
<1> QED
  BY <1>10, <1>11, <1>12, <1>13, <1>14, <1>15, <1>16, <1>17, <1>18, <1>19, <1>20, <1>21, <1>22,
     <1>23, <1>24, <1>25, <1>26, <1>27, <1>28, <1>29 DEF Next, LoadStep

LEMMA PlayerTypedInit == Init => PlayerTyped
<1> SUFFICES ASSUME Init PROVE PlayerTyped
  OBVIOUS
<1>1. player \in PlayerRecord /\ overlap \in BOOLEAN /\ attached \in BOOLEAN
  BY DEF Init, PlayerRecord, PlayerStates
<1>2. Announced(emitted)
  BY EventsTyped DEF Init, SessionInit
<1> QED
  BY <1>1, <1>2, PlayerAssumption DEF Init, PlayerTyped

\* The player's and the sessions' fields keep their types, and no step of a
\* session announces more than four events, whatever overlaps (player.ts:1266).
THEOREM PlayerCorrect == Spec => []TypeOK
<1>1. SInv /\ PlayerTyped => TypeOK
  BY DEF SInv, PlayerTyped, TypeOK, SessionType, Announced
<1> QED
  BY <1>1, PlayerTypedInit, SInvInit, SInvStep, PlayerTypedStep, PTL DEF Spec

-----------------------------------------------------------------------------
(* Calls that do not overlap *)

\* A load() that has not reached its session, or been answered by the runtime.
Unsettled(i) == load[i] \in {"teardown", "bootstrap", "runtime", "refused"}

\* As long as no call was made while another was unsettled: at most one call is
\* under way, and none once the player is destroyed; what it tore down is not
\* there any more when it goes on; and no session runs but the current one.
Calm ==
  /\ \A i, j \in Loads : Unsettled(i) /\ Unsettled(j) => i = j
  /\ \A i \in Loads : Unsettled(i) => stops.at = "none" /\ ~player.destroyed
  /\ \A i \in Loads : load[i] \in {"teardown", "bootstrap"} => current = None
  /\ stops.at # "none" => current = None /\ ~player.destroyed
  /\ destroy \in {"teardown", "done"} => current = None
  /\ destroy = "done" => player.state \in {"destroyed", "failed"}
  /\ SessionsOwned

LInv ==
  /\ player.destroyed <=> destroy # "none"
  /\ ~overlap => Calm

\* The session that steps was started before, and stays as live as it was.
LEMMA StepOwned ==
  ASSUME NEW s \in Sessions, SInv, SessionStep(s), SessionsOwned, current' = current
  PROVE  SessionsOwned' /\ session[s].at # "none"
<1>1. session[s].at # "none"
  <2> SUFFICES ASSUME session[s].at = "none" PROVE FALSE
    OBVIOUS
  <2>1. session[s] = Created
    BY DEF SInv, Good
  <2>2. session[s].flow = "off" /\ session[s].mse = "none" /\ ~session[s].watching
    BY <2>1 DEF Created
  <2> QED
    BY <2>2 DEF SessionStep, MseOpens, ConfigureFails, AfterConfigure, Chunk, DemuxError,
         TransportFails, HlsFails, StreamEnds, HlsHeaders, HlsBody, InputGone, Aborted, Drained,
         MseError, VideoEvent, Flowing
<1> QED
  BY <1>1, StepGood DEF SessionsOwned, Active, Live, SInv

\* Tearing the current session down leaves none that runs.
LEMMA TeardownOwned ==
  ASSUME SInv, SessionsOwned, Teardown
  PROVE  SessionsOwned'
<1>1. CASE current = None
  BY <1>1, PlayerAssumption DEF Teardown, SessionsOwned, Active, Live, None
<1>2. CASE current # None
  <2>1. session' = [session EXCEPT ![current] = Stopped(session[current])] /\ current \in Sessions
    BY <1>2, PlayerAssumption DEF Teardown, SInv, Loads
  <2>2. Stopped(session[current]).stopped
    BY <2>1 DEF Stopped, SInv, SessionRecord
  <2> QED
    BY <2>1, <2>2 DEF SessionsOwned, Active, Live, SInv
<1> QED
  BY <1>1, <1>2

\* A player that is dead stays dead when it hears nothing, or a failure.
LEMMA FailedDead ==
  ASSUME NEW p \in PlayerRecord, p.state \in {"destroyed", "failed"}
  PROVE  /\ SetState(p, "failed") \in PlayerRecord
         /\ SetState(p, "failed").state = "failed"
<1>1. SetState(p, "failed") \in PlayerRecord
  BY SetStateTyped DEF PlayerStates
<1> QED
  BY <1>1 DEF SetState, PlayerRecord

LEMMA HeardDead ==
  ASSUME NEW p \in PlayerRecord, p.state \in {"destroyed", "failed"}, NEW u \in {<<>>, Fatal}
  PROVE  Heard(p, u).state \in {"destroyed", "failed"}
<1>1. /\ SetState(p, "failed") \in PlayerRecord
      /\ SetState(p, "failed").state = "failed"
  BY FailedDead
<1>2. CASE u = <<>>
  BY <1>2 DEF Heard, Hear
<1>3. CASE u = Fatal
  <2> DEFINE q == SetState(p, "failed")
  <2>1. SetState(q, "failed") = q
    BY <1>1, Zenon DEF SetState
  <2>2. Hear(p, u, 1) = q
    BY <1>3 DEF Hear, Fatal, StateOf
  <2>3. Hear(q, u, 2) = q
    <3>1. Hear(q, u, 2) = SetState(q, "failed")
      BY <1>3 DEF Hear, Fatal, StateOf
    <3> QED
      BY <2>1, <3>1
  <2>4. Hear(q, u, 3) = q /\ Hear(q, u, 4) = q
    BY <1>3 DEF Hear, Fatal
  <2> QED
    BY <1>1, <2>2, <2>3, <2>4 DEF Heard
<1> QED
  BY <1>2, <1>3

\* A step that begins no call and leaves every call where it was, or lets it
\* settle, keeps the calm.
LEMMA CalmKept ==
  ASSUME LInv, UNCHANGED <<stops, destroy, overlap>>,
         current' = current \/ current' = None,
         player'.destroyed = player.destroyed,
         \A j \in Loads : Unsettled(j)' => Unsettled(j),
         \A j \in Loads : load'[j] \in {"teardown", "bootstrap"} => load[j] \in {"teardown", "bootstrap"},
         Calm /\ destroy = "done" => player'.state \in {"destroyed", "failed"},
         Calm => SessionsOwned'
  PROVE  LInv'
BY DEF LInv, Calm

\* A load() that settles, or reaches its session, unsettles no other.
LEMMA Settled ==
  ASSUME PlayerTyped, NEW i \in Loads, NEW v \in {"starting", "done", "failed"},
         load' = [load EXCEPT ![i] = v]
  PROVE  /\ \A j \in Loads : Unsettled(j)' => Unsettled(j) /\ j # i
         /\ \A j \in Loads : load'[j] \in {"teardown", "bootstrap"} => load[j] \in {"teardown", "bootstrap"}
BY DEF PlayerTyped, Unsettled

LEMMA LInvStep ==
  ASSUME SInv, PlayerTyped, LInv, [Next]_vars
  PROVE  LInv'
<1> USE DEF PlayerTyped
<1>1. \A to \in PlayerStates : SetState(player, to).destroyed = player.destroyed
  BY SetStateTyped
<1>2. {"idle", "loading", "preroll", "playing", "paused", "stopping", "failed", "destroyed"}
        \subseteq PlayerStates
  BY DEF PlayerStates
<1>3. UNCHANGED <<session, current>> => (Calm => SessionsOwned')
  BY DEF Calm, SessionsOwned, Active, Live
<1>4. \A j \in Loads : /\ Refused[j] \in {"teardown", "bootstrap", "runtime", "refused"} <=> Unsettled(j)
                       /\ Refused[j] \in {"teardown", "bootstrap"} <=> load[j] \in {"teardown", "bootstrap"}
  BY DEF Refused, Unsettled
<1>5. player.state \in {"destroyed", "failed"} => SetState(player, "failed").state \in {"destroyed", "failed"}
  BY FailedDead
<1>6. ASSUME NEW i \in Loads, Unsettled(i) PROVE ~(Calm /\ destroy = "done")
  BY <1>6 DEF LInv, Calm
<1>10. ASSUME NEW s \in Sessions, SessionRuns(s) PROVE LInv'
  <2>1. SessionStep(s) /\ player' = Heard(player, emitted')
        /\ UNCHANGED <<current, load, stops, destroy, overlap>>
    BY <1>10 DEF SessionRuns
  <2>2. player'.destroyed = player.destroyed
    BY <2>1, StepEmits, HeardTyped
  <2>3. Calm => SessionsOwned' /\ session[s].at # "none"
    BY <2>1, StepOwned DEF Calm
  <2>4. ASSUME Calm, destroy = "done" PROVE player'.state \in {"destroyed", "failed"}
    <3>1. s # current
      BY <2>4, PlayerAssumption DEF Calm, None
    <3>2. session[s].stopped
      BY <2>3, <2>4, <3>1 DEF Calm, SessionsOwned, Active, Live
    <3>3. emitted' \in {<<>>, Fatal}
      BY <2>1, <3>2, StoppedEmits
    <3>4. player.state \in {"destroyed", "failed"}
      BY <2>4 DEF Calm
    <3> QED
      BY <2>1, <3>3, <3>4, HeardDead
  <2> QED
    BY <2>1, <2>2, <2>3, <2>4, CalmKept DEF Unsettled
<1>11. ASSUME NEW i \in Loads, Load(i) PROVE LInv'
  <2>1. /\ ~player.destroyed /\ player'.destroyed = player.destroyed
        /\ Teardown /\ current' = None /\ UNCHANGED <<stops, destroy>>
        /\ load' = [load EXCEPT ![i] = "teardown"]
        /\ overlap' = (overlap \/ Settling)
    BY <1>1, <1>2, <1>11 DEF Load, Teardown
  <2>2. destroy = "none"
    BY <2>1 DEF LInv
  <2>3. CASE overlap \/ Settling
    BY <2>1, <2>3 DEF LInv
  <2>4. CASE ~(overlap \/ Settling)
    <3>1. stops.at = "none" /\ \A j \in Loads : ~Unsettled(j)
      BY <2>4 DEF Settling, Unsettled
    <3>2. \A j \in Loads : j # i => ~Unsettled(j)'
      BY <2>1, <3>1 DEF Unsettled
    <3>3. SessionsOwned'
      BY <2>1, <2>4, TeardownOwned DEF LInv, Calm
    <3> QED
      BY <2>1, <2>2, <3>1, <3>2, <3>3 DEF LInv, Calm
  <2> QED
    BY <2>3, <2>4
<1>12. ASSUME NEW i \in Loads, LoadTornDown(i) PROVE LInv'
  <2>1. /\ load[i] = "teardown" /\ UNCHANGED <<current, session, stops, destroy, overlap>>
        /\ \E v \in {"bootstrap", "runtime", "refused"} : load' = [Refused EXCEPT ![i] = v]
    BY <1>12 DEF LoadTornDown
  <2>2. player'.destroyed = player.destroyed
    BY <1>12 DEF LoadTornDown, PlayerRecord
  <2>3. \A j \in Loads : /\ Unsettled(j)' => Unsettled(j)
                         /\ load'[j] \in {"teardown", "bootstrap"} => load[j] \in {"teardown", "bootstrap"}
    <3>1. \A j \in Loads : j # i => load'[j] = Refused[j]
      BY <2>1
    <3>2. Unsettled(i)
      BY <2>1 DEF Unsettled
    <3> QED
      BY <1>4, <2>1, <3>1, <3>2 DEF Unsettled
  <2> QED
    BY <1>3, <1>6, <2>1, <2>2, <2>3, CalmKept DEF Unsettled
<1>13. ASSUME NEW i \in Loads, LoadUnsupported(i) PROVE LInv'
  <2>1. /\ Unsettled(i) /\ UNCHANGED <<current, session, stops, destroy, overlap>>
        /\ load' = [load EXCEPT ![i] = "failed"]
        /\ player'.destroyed = player.destroyed
    BY <1>1, <1>2, <1>13 DEF LoadUnsupported, Unsettled
  <2>5. /\ \A j \in Loads : Unsettled(j)' => Unsettled(j) /\ j # i
        /\ \A j \in Loads : load'[j] \in {"teardown", "bootstrap"} => load[j] \in {"teardown", "bootstrap"}
    BY <2>1, Settled
  <2> QED
    BY <1>3, <1>6, <2>1, <2>5, CalmKept
<1>14. ASSUME NEW i \in Loads, BootstrapEnds(i) PROVE LInv'
  <2>1. /\ Unsettled(i) /\ load[i] = "bootstrap" /\ current' = i
        /\ load' = [load EXCEPT ![i] = "starting"]
        /\ UNCHANGED <<stops, destroy, overlap>>
        /\ player' = Heard(player, emitted') /\ emitted' = <<"loading">>
    BY <1>14 DEF BootstrapEnds, StartSession, Become, Unsettled
  <2>2. player'.destroyed = player.destroyed
    BY <2>1, EventsTyped, HeardTyped DEF SessionEvents
  <2>3. CASE overlap
    BY <2>1, <2>2, <2>3 DEF LInv
  <2>4. CASE ~overlap
    <3>1. /\ current = None /\ stops.at = "none" /\ destroy = "none" /\ SessionsOwned
      BY <2>1, <2>4 DEF LInv, Calm
    <3>2. \A j \in Loads : ~Unsettled(j)'
      BY <2>1, <2>4, Settled DEF LInv, Calm
    <3>3. SessionsOwned'
      <4>1. \A s \in Sessions : s # i => ~Active(s)'
        BY <1>14, <3>1, PlayerAssumption
        DEF BootstrapEnds, StartSession, Become, SessionsOwned, Active, Live, None, SInv
      <4> QED
        BY <2>1, <4>1 DEF SessionsOwned, Active, Live
    <3>4. \A j \in Loads : load'[j] \notin {"teardown", "bootstrap"}
      BY <3>2 DEF Unsettled
    <3> QED
      BY <2>1, <2>2, <3>1, <3>2, <3>3, <3>4 DEF LInv, Calm
  <2> QED
    BY <2>3, <2>4
<1>15. ASSUME NEW i \in Loads, LoadStarted(i) PROVE LInv'
  <2>1. /\ UNCHANGED <<current, session, stops, destroy, overlap>>
        /\ load' = [load EXCEPT ![i] = "done"]
        /\ player'.destroyed = player.destroyed
        /\ player.state \in {"destroyed", "failed"} => player' = player
    BY <1>1, <1>2, <1>15 DEF LoadStarted
  <2>2. Calm /\ destroy = "done" => player'.state \in {"destroyed", "failed"}
    BY <2>1 DEF Calm
  <2>5. /\ \A j \in Loads : Unsettled(j)' => Unsettled(j) /\ j # i
        /\ \A j \in Loads : load'[j] \in {"teardown", "bootstrap"} => load[j] \in {"teardown", "bootstrap"}
    BY <2>1, Settled
  <2> QED
    BY <1>3, <2>1, <2>2, <2>5, CalmKept
<1>16. ASSUME NEW i \in Loads, LoadThrew(i) PROVE LInv'
  <2>1. /\ UNCHANGED <<stops, destroy, overlap>>
        /\ Teardown /\ current' = None
        /\ load' = [load EXCEPT ![i] = "failed"]
        /\ player' = SetState(player, "failed")
        /\ player'.destroyed = player.destroyed
    BY <1>1, <1>2, <1>16 DEF LoadThrew, Teardown
  <2>2. Calm /\ destroy = "done" => player'.state \in {"destroyed", "failed"}
    BY <1>5, <2>1 DEF Calm
  <2>3. Calm => SessionsOwned'
    BY <2>1, TeardownOwned DEF Calm
  <2>5. /\ \A j \in Loads : Unsettled(j)' => Unsettled(j) /\ j # i
        /\ \A j \in Loads : load'[j] \in {"teardown", "bootstrap"} => load[j] \in {"teardown", "bootstrap"}
    BY <2>1, Settled
  <2> QED
    BY <2>1, <2>2, <2>3, <2>5, CalmKept
<1>17. ASSUME NEW i \in Loads, RuntimeLoaded(i) \/ RuntimeRefused(i) PROVE LInv'
  <2>1. /\ Unsettled(i) /\ UNCHANGED <<current, session, stops, destroy, overlap>>
        /\ \E v \in {"done", "failed"} : load' = [load EXCEPT ![i] = v]
        /\ player'.destroyed = player.destroyed
    BY <1>1, <1>2, <1>17 DEF RuntimeLoaded, RuntimeRefused, Unsettled
  <2>5. /\ \A j \in Loads : Unsettled(j)' => Unsettled(j) /\ j # i
        /\ \A j \in Loads : load'[j] \in {"teardown", "bootstrap"} => load[j] \in {"teardown", "bootstrap"}
    BY <2>1, Settled
  <2> QED
    BY <1>3, <1>6, <2>1, <2>5, CalmKept
<1>18. CASE HoldEnds
  <2>1. player'.destroyed = player.destroyed /\ player'.state = "failed"
    BY <1>18 DEF HoldEnds, PlayerRecord
  <2> QED
    BY <1>3, <1>18, <2>1, CalmKept DEF HoldEnds, Unsettled
<1>19. CASE WorkerError
  <2> DEFINE p == SetState(player, "failed")
  <2>1. p \in PlayerRecord /\ p.destroyed = player.destroyed
    BY SetStateTyped, <1>2
  <2>2. player.state \in {"destroyed", "failed"} => p.state \in {"destroyed", "failed"}
    BY <1>5
  <2> HIDE DEF p
  <2>3. player' = [p EXCEPT !.worker = "quiet"]
    BY <1>19 DEF WorkerError, p
  <2>4. player'.destroyed = player.destroyed /\ player'.state = p.state
    BY <2>1, <2>3 DEF PlayerRecord
  <2>5. Calm /\ destroy = "done" => player'.state \in {"destroyed", "failed"}
    BY <2>2, <2>4 DEF Calm
  <2>6. load' = Refused /\ UNCHANGED <<current, session, stops, destroy, overlap>>
    BY <1>19 DEF WorkerError
  <2> QED
    BY <1>3, <1>4, <2>4, <2>5, <2>6, CalmKept DEF Unsettled
<1>20. CASE Play \/ Pause
  <2>1. ~player.destroyed /\ UNCHANGED <<current, load, stops, destroy, overlap>>
    BY <1>20 DEF Play, Pause
  <2>2. destroy = "none"
    BY <2>1 DEF LInv
  <2>3. player'.destroyed = player.destroyed
    <3>1. CASE current # None
      <4>1. player' = Heard(player, emitted') /\ emitted' \in {<<>>, <<"playing">>, <<"paused">>}
        BY <1>20, <3>1 DEF Play, Pause, PlaySession, PauseSession, Become
      <4>2. Announced(emitted')
        BY <4>1, EventsTyped DEF SessionEvents
      <4> QED
        BY <4>1, <4>2, HeardTyped
    <3>2. CASE current = None
      BY <1>1, <1>2, <1>20, <3>2 DEF Play, Pause
    <3> QED
      BY <3>1, <3>2
  <2>4. Calm => SessionsOwned'
    <3>1. CASE current # None
      <4>1. \E w \in BOOLEAN : session' = [session EXCEPT ![current] = [session[current] EXCEPT !.wantPlay = w]]
        BY <1>20, <3>1 DEF Play, Pause, PlaySession, PauseSession, Become
      <4>2. \A s \in Sessions : s # current => session'[s] = session[s]
        BY <4>1 DEF SInv
      <4> QED
        BY <2>1, <4>2 DEF Calm, SessionsOwned, Active, Live
    <3>2. CASE current = None
      BY <1>3, <1>20, <2>1, <3>2 DEF Play, Pause
    <3> QED
      BY <3>1, <3>2
  <2> QED
    BY <2>1, <2>2, <2>3, <2>4, CalmKept DEF Unsettled
<1>21. CASE Stop
  <2>1. /\ ~player.destroyed /\ player'.destroyed = player.destroyed
        /\ Teardown /\ current' = None /\ UNCHANGED <<load, destroy>>
        /\ overlap' = (overlap \/ Settling)
    BY <1>1, <1>2, <1>21 DEF Stop, Teardown
  <2>2. destroy = "none"
    BY <2>1 DEF LInv
  <2>3. CASE overlap \/ Settling
    BY <2>1, <2>3 DEF LInv
  <2>4. CASE ~(overlap \/ Settling)
    <3>1. \A j \in Loads : ~Unsettled(j) /\ ~Unsettled(j)' /\ load'[j] \notin {"teardown", "bootstrap"}
      BY <2>1, <2>4 DEF Settling, Unsettled
    <3>2. SessionsOwned'
      BY <2>1, <2>4, TeardownOwned DEF LInv, Calm
    <3> QED
      BY <2>1, <2>2, <3>1, <3>2 DEF LInv, Calm
  <2> QED
    BY <2>3, <2>4
<1>22. CASE StopRuntime
  <2>1. /\ stops.at # "none" /\ UNCHANGED <<current, session, destroy, overlap>>
        /\ load' = Refused
    BY <1>22 DEF StopRuntime
  <2>2. player'.destroyed = player.destroyed /\ player'.state = player.state
    BY <1>22 DEF StopRuntime, PlayerRecord
  <2>3. \A j \in Loads : /\ Unsettled(j)' <=> Unsettled(j)
                         /\ load'[j] \in {"teardown", "bootstrap"} <=> load[j] \in {"teardown", "bootstrap"}
    BY <1>4, <2>1 DEF Unsettled
  <2> QED
    BY <1>3, <2>1, <2>2, <2>3 DEF LInv, Calm
<1>23. CASE StopEnds
  <2>1. /\ stops.at # "none" /\ UNCHANGED <<current, session, load, destroy, overlap>>
        /\ stops'.at = "none"
        /\ player'.destroyed = player.destroyed
    BY <1>1, <1>2, <1>23 DEF StopEnds
  <2>2. \A j \in Loads : Unsettled(j)' <=> Unsettled(j)
    BY <2>1 DEF Unsettled
  <2> QED
    BY <1>3, <2>1, <2>2 DEF LInv, Calm
<1>24. CASE Destroy
  <2>1. /\ destroy' = "begun" /\ UNCHANGED <<current, session, load, stops>>
        /\ overlap' = (overlap \/ Settling)
    BY <1>24 DEF Destroy
  <2>2. player'.destroyed
    BY <1>24 DEF Destroy, PlayerRecord
  <2>3. CASE overlap \/ Settling
    BY <2>1, <2>2, <2>3 DEF LInv
  <2>4. CASE ~(overlap \/ Settling)
    <3>1. stops.at = "none" /\ \A j \in Loads : ~Unsettled(j)' /\ load'[j] \notin {"teardown", "bootstrap"}
      BY <2>1, <2>4 DEF Settling, Unsettled
    <3> QED
      BY <1>3, <2>1, <2>2, <2>4, <3>1 DEF LInv, Calm
  <2> QED
    BY <2>3, <2>4
<1>25. CASE DestroyTeardown
  <2>1. /\ destroy = "begun" /\ destroy' = "teardown" /\ Teardown /\ current' = None
        /\ UNCHANGED <<player, load, stops, overlap>>
    BY <1>25 DEF DestroyTeardown, Teardown
  <2>2. Calm => SessionsOwned'
    BY <2>1, TeardownOwned DEF Calm
  <2> QED
    BY <2>1, <2>2 DEF LInv, Calm, Unsettled
<1>26. CASE DestroyEnds
  <2>1. /\ destroy = "teardown" /\ destroy' = "done" /\ load' = Refused
        /\ UNCHANGED <<current, session, stops, overlap>>
    BY <1>26 DEF DestroyEnds
  <2>2. player'.state = "destroyed" /\ player'.destroyed = player.destroyed
    BY <1>26 DEF DestroyEnds, PlayerRecord
  <2>3. \A j \in Loads : /\ Unsettled(j)' <=> Unsettled(j)
                         /\ load'[j] \in {"teardown", "bootstrap"} <=> load[j] \in {"teardown", "bootstrap"}
    BY <1>4, <2>1 DEF Unsettled
  <2> QED
    BY <1>3, <2>1, <2>2, <2>3 DEF LInv, Calm
<1>27. CASE UNCHANGED vars
  <2>1. UNCHANGED <<session, player, current, load, stops, destroy, overlap>>
    BY <1>27 DEF vars
  <2> QED
    BY <1>3, <2>1 DEF LInv, Calm, Unsettled
<1> QED
  BY <1>10, <1>11, <1>12, <1>13, <1>14, <1>15, <1>16, <1>17, <1>18, <1>19, <1>20, <1>21, <1>22,
     <1>23, <1>24, <1>25, <1>26, <1>27 DEF Next, LoadStep

\* A caller that waits for each call before the next leaves no session behind,
\* and a destroyed player never looks alive again, for any number of loads and
\* stops and whatever the sessions, the worker and the timers do in between
\* (player.ts:1104, 1258).
THEOREM NothingLeft == Spec => []LeakFree
<1>1. Init => LInv
  BY PlayerAssumption DEF Init, SessionInit, Created, LInv, Calm, Unsettled, SessionsOwned, Active, None
<1>2. LInv => LeakFree
  BY DEF LInv, Calm, LeakFree, OwnedUnlessOverlap, DestroyedStaysDead
<1> QED
  BY <1>1, <1>2, PlayerTypedInit, SInvInit, SInvStep, PlayerTypedStep, LInvStep, PTL DEF Spec
=============================================================================
