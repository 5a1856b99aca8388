---------------------------- MODULE PlayerEngine ----------------------------
(***************************************************************************)
(* The player's engine (crates/cheetah-media-engine: state.rs, recovery.rs,*)
(* resource.rs).  Engine::apply runs one command to completion, so every   *)
(* command is one action; what makes it hard is the order in which user    *)
(* commands, network events and backend callbacks reach it.  A backend     *)
(* callback carries the epoch of the session that caused it and may arrive *)
(* any number of sessions late; a network event carries none.              *)
(*                                                                         *)
(* Left out: the fields nothing in the engine reads back (command sequence *)
(* number, is_live, track_count, metrics, latency) and the payloads and    *)
(* the delay of the events.                                                *)
(***************************************************************************)
EXTENDS Integers, Sequences, FiniteSets

CONSTANTS Codes,        \* error codes backends and network report
          MaxAttempts,  \* RetryBudget::max_attempts, per recovery action
          Window,       \* RetryBudget::window_ms, per recovery action
          Kinds,        \* resource kinds the host registers in the ledger
          MaxHandles,   \* bound on the handles of one kind, for model checking
          MaxEpoch,     \* bound on the number of loads, for model checking
          MaxTime       \* bound on the clock, for model checking

Stages == {"network", "decoder"}    \* the stages engine errors are reported for

\* RecoveryAction, in the order decide_action escalates; Fatal comes after.
Chain == <<"RetrySame", "RebuildStage", "FallbackBackend", "ReconnectSource">>
Actions == {Chain[i] : i \in 1..4}
Keys == Codes \X Stages \X Actions

ASSUME EngineAssumption ==
  /\ MaxAttempts \in [Actions -> Nat]
  /\ Window \in [Actions -> Nat]
  /\ MaxHandles \in Nat /\ MaxEpoch \in Nat /\ MaxTime \in Nat

VARIABLES
  state,
  epoch,             \* of the current session; Stop does not advance it
  hasTrack, hasConfig,
  preRebuffer,       \* Engine::pre_rebuffer_state
  history,           \* RecoveryTracker::history: the attempts not yet pruned
  ledger,            \* ResourceLedger::counts
  now,
  out,               \* events of the last command
  source,            \* ghost: sessions the track, config and attempts came from
  wanted,            \* ghost: the last play or pause the engine accepted
  log                \* ghost: every recovery scheduled in this session

session == <<hasTrack, hasConfig, preRebuffer, history, source, log>>
vars == <<state, epoch, session, wanted, ledger, now, out>>

Active == {"Loading", "Preroll", "Playing", "Paused", "Rebuffering"}
States == Active \cup {"Idle", "Stopping", "Failed", "Destroyed"}

Changed(from, to) == <<"StateChanged", from, to>>
Transition(from, to) == IF from = to THEN <<>> ELSE <<Changed(from, to)>>
Events ==
  {Changed(f, t) : f \in States, t \in States}
    \cup {<<e>> : e \in {"Track", "Config", "Eof", "Error", "ResourceWarning", "Stopped", "Destroyed"}}
    \cup {<<"Recovery", a>> : a \in Actions}

\* A recorded attempt; n tells two attempts of the same millisecond apart.
Attempts == [key : Keys, at : Nat, n : Nat]
NoHandles == [k \in Kinds |-> 0]

TypeOK ==
  /\ state \in States /\ preRebuffer \in States
  /\ epoch \in Nat /\ now \in Nat
  /\ hasTrack \in BOOLEAN /\ hasConfig \in BOOLEAN
  /\ history \subseteq Attempts
  /\ ledger \in [Kinds -> Nat]
  /\ out \in Seq(Events)
  /\ source \in [{"track", "config", "history"} -> Nat]
  /\ wanted \in {"none", "play", "pause"}
  /\ log \subseteq Attempts

Init ==
  /\ state = "Idle" /\ preRebuffer = "Idle"
  /\ epoch = 0 /\ now = 0
  /\ hasTrack = FALSE /\ hasConfig = FALSE
  /\ history = {}
  /\ ledger = NoHandles
  /\ out = <<>>
  /\ source = [x \in {"track", "config", "history"} |-> 0]
  /\ wanted = "none"
  /\ log = {}

-----------------------------------------------------------------------------
(* The host's clock and the ledger it shares with the engine *)

\* Engine::tick: RecoveryTracker::prune forgets what no budget can see.
MaxWindow == CHOOSE w \in {Window[a] : a \in Actions} : \A a \in Actions : Window[a] <= w

\* Mutant: prunes by the smallest window instead of the largest.
TickForgetful ==
  /\ \E t \in (now + 1)..MaxTime :
       /\ now' = t
       /\ history' = {h \in history : h.at >= t - Window["RetrySame"]}
  /\ UNCHANGED <<state, epoch, hasTrack, hasConfig, preRebuffer, source, log, wanted, ledger, out>>

Tick ==
  /\ \E t \in (now + 1)..MaxTime :
       /\ now' = t
       /\ history' = {h \in history : h.at >= t - MaxWindow}
  /\ UNCHANGED <<state, epoch, hasTrack, hasConfig, preRebuffer, source, log, wanted, ledger, out>>

HostAcquire(k) ==
  /\ ledger[k] < MaxHandles
  /\ ledger' = [ledger EXCEPT ![k] = @ + 1]
  /\ UNCHANGED <<state, epoch, session, wanted, now, out>>

\* Mutant: release does not look at the count.
HostReleaseUnchecked(k) ==
  /\ ledger' = [ledger EXCEPT ![k] = @ - 1]
  /\ UNCHANGED <<state, epoch, session, wanted, now, out>>

\* ResourceLedger::release refuses to go below zero.
HostRelease(k) ==
  /\ ledger[k] > 0
  /\ ledger' = [ledger EXCEPT ![k] = @ - 1]
  /\ UNCHANGED <<state, epoch, session, wanted, now, out>>

\* Engine::reset_ledger warns about what it drops.
ResetLedger == ledger' = NoHandles
LeakWarning == IF ledger = NoHandles THEN <<>> ELSE <<<<"ResourceWarning">>>>

-----------------------------------------------------------------------------
(* User commands *)

\* Mutant: stop skips an event.
StopEventsGap ==
  IF state = "Idle" THEN <<>>
  ELSE LeakWarning \o <<Changed("Stopping", "Idle"), <<"Stopped">>>>

\* Engine::on_stop: a session that is not Idle stops in one step, through
\* Stopping, because the ledger is reset and then found to be clean.
StopEvents ==
  IF state = "Idle" THEN <<>>
  ELSE Transition(state, "Stopping") \o LeakWarning
         \o <<Changed("Stopping", "Idle"), <<"Stopped">>>>

\* Mutant: a new session keeps the tracks of the old one.
NewSessionKeepsTrack ==
  /\ epoch' = epoch + 1
  /\ hasConfig' = FALSE
  /\ preRebuffer' = "Idle"
  /\ history' = {} /\ log' = {}
  /\ ResetLedger
  /\ wanted' = "none"
  /\ UNCHANGED <<hasTrack, source>>

\* Engine::start_new_session.
NewSession ==
  /\ epoch' = epoch + 1
  /\ hasTrack' = FALSE /\ hasConfig' = FALSE
  /\ preRebuffer' = "Idle"
  /\ history' = {} /\ log' = {}
  /\ ResetLedger
  /\ wanted' = "none"
  /\ UNCHANGED source

\* Engine::on_load: a load over an active session is a stop and a load.
Load ==
  /\ state # "Destroyed"
  /\ epoch < MaxEpoch
  /\ NewSession
  /\ state' = "Loading"
  /\ out' = IF state \in {"Idle", "Failed"}
            THEN LeakWarning \o <<Changed(state, "Loading")>>
            ELSE StopEvents \o <<Changed("Idle", "Loading")>>
  /\ UNCHANGED now

\* Engine::on_play and Engine::on_pause: elsewhere an InvalidState error.
Play ==
  /\ state # "Destroyed"
  /\ \/ /\ state \in {"Preroll", "Paused", "Rebuffering", "Playing"}
        /\ state' = "Playing" /\ wanted' = "play"
        /\ out' = Transition(state, "Playing")
     \/ /\ state \notin {"Preroll", "Paused", "Rebuffering", "Playing"}
        /\ out' = <<<<"Error">>>>
        /\ UNCHANGED <<state, wanted>>
  /\ UNCHANGED <<epoch, session, ledger, now>>

Pause ==
  /\ state # "Destroyed"
  /\ \/ /\ state \in {"Playing", "Paused"}
        /\ state' = "Paused" /\ wanted' = "pause"
        /\ out' = Transition(state, "Paused")
     \/ /\ state \notin {"Playing", "Paused"}
        /\ out' = <<<<"Error">>>>
        /\ UNCHANGED <<state, wanted>>
  /\ UNCHANGED <<epoch, session, ledger, now>>

Stop ==
  /\ state # "Destroyed"
  /\ state' = "Idle"
  /\ out' = StopEvents
  /\ IF state = "Idle" THEN UNCHANGED ledger ELSE ResetLedger
  /\ UNCHANGED <<epoch, session, wanted, now>>

Destroy ==
  /\ state # "Destroyed"
  /\ state' = "Destroyed"
  /\ out' = LeakWarning \o <<Changed(state, "Destroyed"), <<"Destroyed">>>>
  /\ ResetLedger
  /\ UNCHANGED <<epoch, session, wanted, now>>

-----------------------------------------------------------------------------
(* Recovery (RecoveryPolicy::decide, RecoveryTracker, Engine::recover_or_fail) *)

\* RecoveryPolicy::classify under default_player(): position in Chain.
Classify(stage) == IF stage = "network" THEN 4 ELSE 3

\* Recorded attempts of a key that fall inside its action's window.
Recent(k, hist) == {h \in hist : h.key = k /\ h.at >= now - Window[k[3]]}

HasBudget(k) == Cardinality(Recent(k, history)) < MaxAttempts[k[3]]

\* The steps of the escalation chain that still have budget for this error.
Retryable(code, stage) == {i \in Classify(stage)..4 : HasBudget(<<code, stage, Chain[i]>>)}

\* RecoveryTracker::record.
Attempt(k) == [key |-> k, at |-> now, n |-> Cardinality({h \in log : h.key = k /\ h.at = now})]

\* decide() returns the first of them, or Fatal; a reconnect outside Loading
\* is presented to the user as rebuffering.
Retry(code, stage) ==
  \E i \in Retryable(code, stage) :
    LET a == Chain[i]
        rebuffer == a = "ReconnectSource" /\ state # "Loading"
    IN /\ \A j \in Retryable(code, stage) : i <= j
       /\ history' = history \cup {Attempt(<<code, stage, a>>)}
       /\ log' = log \cup {Attempt(<<code, stage, a>>)}
       /\ source' = [source EXCEPT !["history"] = epoch]
       /\ state' = IF rebuffer THEN "Rebuffering" ELSE state
       /\ preRebuffer' = IF rebuffer /\ state # "Rebuffering" THEN state ELSE preRebuffer
       /\ out' = Transition(state, state') \o <<<<"Recovery", a>>>>
       /\ UNCHANGED <<epoch, hasTrack, hasConfig, wanted, ledger, now>>

Fail(code, stage) ==
  /\ Retryable(code, stage) = {}
  /\ state' = "Failed"
  /\ out' = <<<<"Error">>, Changed(state, "Failed")>>
  /\ UNCHANGED <<epoch, session, wanted, ledger, now>>

RecoverOrFail(code, stage) ==
  /\ state \notin {"Destroyed", "Failed"}
  /\ Retry(code, stage) \/ Fail(code, stage)

-----------------------------------------------------------------------------
(* Network events: they carry no epoch *)

\* Mutant: data is back, so play.
NetworkConnectedPlays ==
  /\ state = "Rebuffering"
  /\ state' = "Playing"
  /\ out' = Transition(state, "Playing")
  /\ UNCHANGED <<epoch, session, wanted, ledger, now>>

NetworkConnected ==
  /\ state = "Rebuffering"
  /\ state' = preRebuffer
  /\ out' = Transition(state, preRebuffer)
  /\ UNCHANGED <<epoch, session, wanted, ledger, now>>

NetworkEof ==
  /\ state \in Active
  /\ state' = "Stopping"
  /\ out' = <<<<"Eof">>, Changed(state, "Stopping")>>
  /\ UNCHANGED <<epoch, session, wanted, ledger, now>>

NetworkRetryable ==
  /\ state \in {"Playing", "Paused"}
  /\ preRebuffer' = state
  /\ state' = "Rebuffering"
  /\ out' = <<Changed(state, "Rebuffering")>>
  /\ UNCHANGED <<epoch, hasTrack, hasConfig, history, source, log, wanted, ledger, now>>

NetworkFatal(code) == RecoverOrFail(code, "network")

-----------------------------------------------------------------------------
(* Backend callbacks of session e, which may be over *)

\* Mutant: no generation barrier.
CurrentAny(e) == e > 0

\* The generation barrier of on_backend.
Current(e) == e = epoch /\ e > 0

\* Mutant: preroll on the configuration alone.
MaybePrerollEarly(track, config) ==
  IF state = "Loading" /\ config THEN "Preroll" ELSE state

\* Engine::maybe_enter_preroll, with the flags the callback has just set.
MaybePreroll(track, config) ==
  IF state = "Loading" /\ track /\ config THEN "Preroll" ELSE state

BackendTrack(e) ==
  /\ state # "Destroyed" /\ Current(e)
  /\ hasTrack' = TRUE
  /\ source' = [source EXCEPT !["track"] = e]
  /\ state' = MaybePreroll(TRUE, hasConfig)
  /\ out' = <<<<"Track">>>> \o Transition(state, state')
  /\ UNCHANGED <<epoch, hasConfig, preRebuffer, history, log, wanted, ledger, now>>

BackendConfig(e) ==
  /\ state # "Destroyed" /\ Current(e)
  /\ hasConfig' = TRUE
  /\ source' = [source EXCEPT !["config"] = e]
  /\ state' = MaybePreroll(hasTrack, TRUE)
  /\ out' = <<<<"Config">>>> \o Transition(state, state')
  /\ UNCHANGED <<epoch, hasTrack, preRebuffer, history, log, wanted, ledger, now>>

BackendDecoderError(e, code) == Current(e) /\ RecoverOrFail(code, "decoder")

\* BackendEvent::Stopped carries no epoch either.
BackendStopped ==
  /\ state = "Stopping"
  /\ state' = "Idle"
  /\ out' = <<Changed("Stopping", "Idle"), <<"Stopped">>>>
  /\ UNCHANGED <<epoch, session, wanted, ledger, now>>

-----------------------------------------------------------------------------
UserCommand == Load \/ Play \/ Pause \/ Stop \/ Destroy
\* There is a network to hear of once something has been loaded.
NetworkEvent ==
  /\ epoch > 0
  /\ NetworkConnected \/ NetworkEof \/ NetworkRetryable \/ \E c \in Codes : NetworkFatal(c)
BackendEvent ==
  \/ BackendStopped
  \/ \E e \in 0..epoch :
       BackendTrack(e) \/ BackendConfig(e) \/ \E c \in Codes : BackendDecoderError(e, c)
Host == Tick \/ \E k \in Kinds : HostAcquire(k) \/ HostRelease(k)

Next == UserCommand \/ NetworkEvent \/ BackendEvent \/ Host

Spec == Init /\ [][Next]_vars

-----------------------------------------------------------------------------
(* Properties *)

\* recovery.rs:3: no more than max_attempts recoveries of one kind are ever
\* scheduled for the same error within its window, although tick() forgets old
\* attempts and every error restarts the escalation from its first action.
BudgetRespected == \A k \in Keys : Cardinality(Recent(k, log)) <= MaxAttempts[k[3]]

\* Preroll means the track and its configuration are known, also when it is
\* re-entered after rebuffering, and a load that knows both does not stay in
\* Loading, in whatever order and session the callbacks arrive.
PrerollReady ==
  /\ state = "Preroll" => hasTrack /\ hasConfig
  /\ state = "Loading" => ~(hasTrack /\ hasConfig)

\* What the engine knows about the session came from this session: no late
\* callback of an earlier one, and nothing kept across a load.
SessionFresh ==
  /\ hasTrack => source["track"] = epoch
  /\ hasConfig => source["config"] = epoch
  /\ history # {} => source["history"] = epoch

\* The engine plays or is paused only as the user last asked, whatever
\* rebuffering and recovery happened in between.
PlaybackFollowsUser ==
  /\ state = "Playing" => wanted = "play"
  /\ state = "Paused" => wanted = "pause"

\* The StateChanged events among those of a command.
ChangesIn(events) == {i \in 1..Len(events) : events[i][1] = "StateChanged"}

\* They begin and end in the given states, and each begins where the one before
\* it ended.
Leads(from, events, to) ==
  LET C == ChangesIn(events)
  IN /\ C = {} => to = from
     /\ \A i \in C :
          /\ (\A j \in C : i <= j) => events[i][2] = from
          /\ (\A j \in C : j <= i) => events[i][3] = to
          /\ \A j \in C : (j < i /\ \A k \in C : k <= j \/ i <= k) => events[i][2] = events[j][3]

\* A host acquires and releases; else handles are cleared with a warning.
Warned ==
  \/ \A k \in Kinds : ledger'[k] >= ledger[k] - 1 /\ UNCHANGED <<state, epoch>>
  \/ ledger' = ledger \/ ledger = NoHandles
  \/ ledger' = NoHandles /\ \E i \in 1..Len(out') : out'[i] = <<"ResourceWarning">>

\* The events tell everything (state.rs:5): those of a command lead from the state
\* before it to the state after it without a gap, and handles still registered
\* when a session is stopped, replaced or destroyed are not dropped silently.
EventsTellState ==
  [][/\ UNCHANGED <<state, out>> \/ Leads(state, out', state')
     /\ Warned]_vars

\* Preroll and playback rest on what this session delivered and the user asked for.
SessionCoherent == PrerollReady /\ SessionFresh /\ PlaybackFollowsUser
=============================================================================
