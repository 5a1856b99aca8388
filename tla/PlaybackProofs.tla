---------------------------- MODULE PlaybackProofs ----------------------------
(***************************************************************************)
(* Proofs about the parts of MCPlayback, for any numbers of calls, epochs  *)
(* and sessions.                                                           *)
(*                                                                         *)
(* Engine: for any error codes, retry budgets, windows and resources.      *)
(* Runtime: every envelope on its way to the worker or back belongs to an  *)
(* epoch that is over, or to a command that is still pending; that an      *)
(* answer is of the pending call needs the numbers of all of them to be    *)
(* different.  Decoder: the chunks of the queue, of the decoder of the     *)
(* current generation and of the frames that were shown rise through all   *)
(* three, and a decoder of an earlier generation shows nothing; that one   *)
(* configure() runs and every decoder is held by the backend is invariant  *)
(* only while calls do not overlap.                                        *)
(* Native player: the chunks in the channel of the network task continue   *)
(* what was decoded, up to the task's count of what it sent; and the log   *)
(* is where the player is, unless the player moves without logging.        *)
(* Timeline: an epoch that was seen remembers where its source is          *)
(* (unwrapping gives the source's own time, as its steps are less than     *)
(* half of the range), the microseconds of that, and the time it was given *)
(* last; every update gives a time at or behind all that were given before.*)
(***************************************************************************)
EXTENDS MCPlayback, FiniteSetTheorems, WellFoundedInduction, TLAPS

-----------------------------------------------------------------------------
(* Lemmas on the policy and on event sequences *)

LEMMA ChainActions == Actions = {"RetrySame", "RebuildStage", "FallbackBackend", "ReconnectSource"}
BY DEF Actions, Chain

\* max_window_ms is at least every window.
LEMMA MaxWindowBounds == MaxWindow \in Nat /\ \A a \in Actions : Window[a] <= MaxWindow
<1> DEFINE W == {Window[a] : a \in Actions}
<1>1. \E w \in W : \A a \in Actions : Window[a] <= w
  <2>1. /\ Window["RetrySame"] \in Nat /\ Window["RebuildStage"] \in Nat
        /\ Window["FallbackBackend"] \in Nat /\ Window["ReconnectSource"] \in Nat
    BY EngineAssumption, ChainActions
  <2>2. \E a \in Actions : \A z \in Actions : Window[z] <= Window[a]
    BY <2>1, ChainActions
  <2> QED
    BY <2>2
<1>2. MaxWindow \in W /\ \A a \in Actions : Window[a] <= MaxWindow
  BY <1>1 DEF MaxWindow
<1> QED
  BY <1>2, EngineAssumption

LEMMA SeqCat ==
  ASSUME NEW S, NEW s \in Seq(S), NEW t \in Seq(S)
  PROVE  s \o t \in Seq(S)
OBVIOUS

LEMMA EventKinds ==
  /\ \A f, t \in States : Changed(f, t) \in Events
  /\ \A e \in {"Track", "Config", "Eof", "Error", "ResourceWarning", "Stopped", "Destroyed"} : <<e>> \in Events
  /\ \A a \in Actions : <<"Recovery", a>> \in Events
BY DEF Events

LEMMA EventSeqs ==
  /\ LeakWarning \in Seq(Events)
  /\ \A f, t \in States : Transition(f, t) \in Seq(Events) /\ <<Changed(f, t)>> \in Seq(Events)
BY EventKinds DEF LeakWarning, Transition

LEMMA StopEventsType == state \in States => StopEvents \in Seq(Events)
<1> SUFFICES ASSUME state \in States PROVE StopEvents \in Seq(Events)
  OBVIOUS
<1>1. "Stopping" \in States /\ "Idle" \in States
  BY DEF States, Active
<1>2. <<Changed("Stopping", "Idle"), <<"Stopped">>>> \in Seq(Events)
  BY <1>1, EventKinds
<1>3. Transition(state, "Stopping") \o LeakWarning \in Seq(Events)
  BY <1>1, EventSeqs, SeqCat
<1>4. Transition(state, "Stopping") \o LeakWarning \o <<Changed("Stopping", "Idle"), <<"Stopped">>>> \in Seq(Events)
  BY <1>2, <1>3, SeqCat
<1> QED
  BY <1>4 DEF StopEvents

-----------------------------------------------------------------------------
(* The inductive invariant *)

\* A rebuffering engine remembers a state it may return to.
Flags ==
  /\ PrerollReady
  /\ preRebuffer = "Preroll" => hasTrack /\ hasConfig
  /\ preRebuffer # "Loading"

User ==
  /\ PlaybackFollowsUser
  /\ state = "Rebuffering" /\ preRebuffer = "Playing" => wanted = "play"
  /\ state = "Rebuffering" /\ preRebuffer = "Paused" => wanted = "pause"

\* Pruning forgets no attempt that some budget can still see.
Tracker ==
  /\ IsFiniteSet(log)
  /\ history \subseteq log
  /\ \A h \in log : h.at >= now - MaxWindow => h \in history
  /\ BudgetRespected

Clean == TypeOK /\ IsFiniteSet(log)

-----------------------------------------------------------------------------
(* Type correctness *)

\* Recovery keeps the types: the attempt it records is one.
LEMMA RetryTypes ==
  ASSUME Clean, NEW c \in Codes, NEW st \in Stages, Retry(c, st)
  PROVE  Clean'
<1>1. PICK i \in Retryable(c, st) :
        LET a == Chain[i]
            rebuffer == a = "ReconnectSource" /\ state # "Loading"
        IN /\ history' = history \cup {Attempt(<<c, st, a>>)}
           /\ log' = log \cup {Attempt(<<c, st, a>>)}
           /\ source' = [source EXCEPT !["history"] = epoch]
           /\ state' = IF rebuffer THEN "Rebuffering" ELSE state
           /\ preRebuffer' = IF rebuffer /\ state # "Rebuffering" THEN state ELSE preRebuffer
           /\ out' = Transition(state, state') \o <<<<"Recovery", a>>>>
           /\ UNCHANGED <<epoch, hasTrack, hasConfig, wanted, ledger, now>>
  BY DEF Retry
<1>2. Chain[i] \in Actions
  BY DEF Retryable, Classify, Actions
<1> DEFINE k == <<c, st, Chain[i]>>
<1>3. k \in Keys
  BY <1>2 DEF Keys
<1> HIDE DEF k
<1>4. Attempt(k) \in Attempts
  <2>1. {h \in log : h.key = k /\ h.at = now} \in SUBSET log
    OBVIOUS
  <2>2. Cardinality({h \in log : h.key = k /\ h.at = now}) \in Nat
    BY <2>1, FS_Subset, FS_CardinalityType DEF Clean
  <2> QED
    BY <1>3, <2>2 DEF Attempt, Attempts, Clean, TypeOK
<1>5. state' \in States /\ preRebuffer' \in States /\ state \in States
  BY <1>1 DEF Clean, TypeOK, States, Active
<1>6. out' \in Seq(Events)
  <2>1. <<<<"Recovery", Chain[i]>>>> \in Seq(Events)
    BY <1>2, EventKinds
  <2>2. Transition(state, state') \in Seq(Events)
    BY <1>5, EventSeqs
  <2>3. Transition(state, state') \o <<<<"Recovery", Chain[i]>>>> \in Seq(Events)
    BY <2>1, <2>2, SeqCat
  <2> QED
    BY <1>1, <2>3
<1>7. IsFiniteSet(log')
  BY <1>1, FS_AddElement DEF Clean
<1> QED
  BY <1>1, <1>4, <1>5, <1>6, <1>7 DEF Clean, TypeOK, k

LEMMA TypeStep == Clean /\ [Next]_vars => Clean'
<1> SUFFICES ASSUME Clean, [Next]_vars PROVE Clean'
  OBVIOUS
<1>a. TypeOK /\ IsFiniteSet(log)
  BY DEF Clean
<1>b. Active \cup {"Idle", "Stopping", "Failed", "Destroyed"} = States /\ state \in States
  BY <1>a DEF States, TypeOK
<1>c. NoHandles \in [Kinds -> Nat] /\ IsFiniteSet({})
  BY FS_EmptySet DEF NoHandles
<1>1. CASE Load
  <2>1. <<Changed(state, "Loading")>> \in Seq(Events) /\ <<Changed("Idle", "Loading")>> \in Seq(Events)
    BY <1>b, EventSeqs DEF States, Active
  <2>2. LeakWarning \o <<Changed(state, "Loading")>> \in Seq(Events)
    BY <2>1, EventSeqs, SeqCat
  <2>3. StopEvents \o <<Changed("Idle", "Loading")>> \in Seq(Events)
    BY <2>1, <1>b, StopEventsType, SeqCat
  <2>4. out' \in Seq(Events)
    BY <1>1, <2>2, <2>3 DEF Load
  <2>5. history' = {} /\ log' = {} /\ ledger' = NoHandles /\ epoch' = epoch + 1
        /\ state' = "Loading" /\ preRebuffer' = "Idle" /\ wanted' = "none"
        /\ source' = source /\ now' = now
    BY <1>1 DEF Load, NewSession, ResetLedger
  <2>6. IsFiniteSet(log')
    BY <2>5, <1>c
  <2>7. hasTrack' \in BOOLEAN /\ hasConfig' \in BOOLEAN
    BY <1>1 DEF Load, NewSession
  <2>8. epoch' \in Nat /\ state' \in States /\ preRebuffer' \in States
    BY <2>5, <1>a DEF TypeOK, States, Active
  <2> QED
    BY <2>4, <2>5, <2>6, <2>7, <2>8, <1>a, <1>c DEF Clean, TypeOK
<1>2. CASE Play
  <2>0. "Playing" \in States
    BY DEF States, Active
  <2>1. Transition(state, "Playing") \in Seq(Events) /\ <<<<"Error">>>> \in Seq(Events)
    BY <2>0, <1>b, EventSeqs, EventKinds
  <2> QED
    BY <1>2, <1>a, <2>1 DEF Play, session, Clean, TypeOK, States, Active
<1>3. CASE Pause
  <2>0. "Paused" \in States
    BY DEF States, Active
  <2>1. Transition(state, "Paused") \in Seq(Events) /\ <<<<"Error">>>> \in Seq(Events)
    BY <2>0, <1>b, EventSeqs, EventKinds
  <2> QED
    BY <1>3, <1>a, <2>1 DEF Pause, session, Clean, TypeOK, States, Active
<1>4. CASE Stop
  <2>1. StopEvents \in Seq(Events)
    BY <1>b, StopEventsType
  <2> QED
    BY <1>4, <1>a, <1>c, <2>1 DEF Stop, ResetLedger, session, Clean, TypeOK, States, Active
<1>5. CASE Destroy
  <2>1. <<Changed(state, "Destroyed"), <<"Destroyed">>>> \in Seq(Events)
    <3>1. "Destroyed" \in States
      BY DEF States
    <3> QED
      BY <1>b, <3>1, EventKinds
  <2>2. LeakWarning \o <<Changed(state, "Destroyed"), <<"Destroyed">>>> \in Seq(Events)
    BY <2>1, EventSeqs, SeqCat
  <2> QED
    BY <1>5, <1>a, <1>c, <2>2 DEF Destroy, ResetLedger, session, Clean, TypeOK, States, Active
<1>6. ASSUME NEW c \in Codes, NEW st \in Stages, RecoverOrFail(c, st) PROVE Clean'
  <2>1. CASE Retry(c, st)
    BY <2>1, RetryTypes
  <2>2. CASE Fail(c, st)
    <3>1. <<<<"Error">>, Changed(state, "Failed")>> \in Seq(Events)
      <4>1. "Failed" \in States
        BY DEF States
      <4> QED
        BY <1>b, <4>1, EventKinds
    <3> QED
      BY <2>2, <3>1, <1>a DEF Fail, session, Clean, TypeOK, States, Active
  <2> QED
    BY <1>6, <2>1, <2>2 DEF RecoverOrFail
<1>7. CASE NetworkConnected
  <2>1. Transition(state, preRebuffer) \in Seq(Events)
    BY <1>a, EventSeqs DEF TypeOK
  <2> QED
    BY <1>7, <2>1, <1>a DEF NetworkConnected, session, Clean, TypeOK
<1>8. CASE NetworkEof
  <2>1. <<<<"Eof">>, Changed(state, "Stopping")>> \in Seq(Events)
    <3>1. "Stopping" \in States
      BY DEF States
    <3> QED
      BY <1>b, <3>1, EventKinds
  <2> QED
    BY <1>8, <2>1, <1>a DEF NetworkEof, session, Clean, TypeOK, States, Active
<1>9. CASE NetworkRetryable
  <2>1. <<Changed(state, "Rebuffering")>> \in Seq(Events)
    BY <1>b, EventSeqs DEF States, Active
  <2> QED
    BY <1>9, <2>1, <1>a DEF NetworkRetryable, Clean, TypeOK, States, Active
<1>10. ASSUME NEW e \in 0..epoch, BackendTrack(e) PROVE Clean'
  <2>1. state' \in States
    BY <1>10, <1>b DEF BackendTrack, MaybePreroll, States, Active
  <2>2. <<<<"Track">>>> \in Seq(Events) /\ Transition(state, state') \in Seq(Events)
    BY <2>1, <1>b, EventKinds, EventSeqs
  <2>3. <<<<"Track">>>> \o Transition(state, state') \in Seq(Events)
    BY <2>2, SeqCat
  <2>4. e \in Nat
    BY <1>10, <1>a DEF TypeOK
  <2> QED
    BY <1>10, <2>1, <2>3, <2>4, <1>a DEF BackendTrack, Clean, TypeOK
<1>11. ASSUME NEW e \in 0..epoch, BackendConfig(e) PROVE Clean'
  <2>1. state' \in States
    BY <1>11, <1>b DEF BackendConfig, MaybePreroll, States, Active
  <2>2. <<<<"Config">>>> \in Seq(Events) /\ Transition(state, state') \in Seq(Events)
    BY <2>1, <1>b, EventKinds, EventSeqs
  <2>3. <<<<"Config">>>> \o Transition(state, state') \in Seq(Events)
    BY <2>2, SeqCat
  <2>4. e \in Nat
    BY <1>11, <1>a DEF TypeOK
  <2> QED
    BY <1>11, <2>1, <2>3, <2>4, <1>a DEF BackendConfig, Clean, TypeOK
<1>12. CASE BackendStopped
  <2>1. <<Changed("Stopping", "Idle"), <<"Stopped">>>> \in Seq(Events)
    <3>1. "Stopping" \in States /\ "Idle" \in States
      BY DEF States
    <3> QED
      BY <3>1, EventKinds
  <2> QED
    BY <1>12, <2>1, <1>a DEF BackendStopped, session, Clean, TypeOK, States, Active
<1>13. CASE Tick
  <2>1. now' \in Nat /\ history' \subseteq history
    BY <1>13, <1>a, EngineAssumption DEF Tick, TypeOK
  <2> QED
    BY <1>13, <2>1, <1>a DEF Tick, Clean, TypeOK
<1>14. ASSUME NEW k \in Kinds, HostAcquire(k) \/ HostRelease(k) PROVE Clean'
  <2>1. ledger' \in [Kinds -> Nat]
    BY <1>14, <1>a DEF HostAcquire, HostRelease, TypeOK
  <2> QED
    BY <1>14, <2>1, <1>a DEF HostAcquire, HostRelease, session, Clean, TypeOK
<1>15. CASE UNCHANGED vars
  BY <1>15, <1>a DEF vars, session, Clean, TypeOK
<1>16. "network" \in Stages /\ "decoder" \in Stages
  BY DEF Stages
<1> QED
  BY <1>1, <1>2, <1>3, <1>4, <1>5, <1>6, <1>7, <1>8, <1>9, <1>10, <1>11, <1>12, <1>13, <1>14, <1>15, <1>16
     DEF Next, UserCommand, NetworkEvent, BackendEvent, Host, NetworkFatal, BackendDecoderError

LEMMA TypeInvariance == Spec => []Clean
<1>1. Init => Clean
  <2> SUFFICES ASSUME Init PROVE Clean
    OBVIOUS
  <2>1. log = {} /\ history = {} /\ IsFiniteSet(log)
    BY FS_EmptySet DEF Init
  <2>2. ledger \in [Kinds -> Nat] /\ source \in [{"track", "config", "history"} -> Nat]
    BY DEF Init, NoHandles
  <2>3. hasTrack \in BOOLEAN /\ hasConfig \in BOOLEAN
    BY DEF Init
  <2>4. state \in States /\ preRebuffer \in States /\ epoch \in Nat /\ now \in Nat
        /\ out \in Seq(Events) /\ wanted \in {"none", "play", "pause"}
    BY DEF Init, States, Active
  <2> QED
    BY <2>1, <2>2, <2>3, <2>4 DEF Clean, TypeOK
<1> QED
  BY <1>1, TypeStep, PTL DEF Spec

\* The engine's variables, ledger, tracker and emitted events always have their
\* types.
THEOREM TypeCorrect == Spec => []TypeOK
<1>1. Clean => TypeOK
  BY DEF Clean
<1> QED
  BY <1>1, TypeInvariance, PTL

-----------------------------------------------------------------------------
(* What the engine knows and shows belongs to the session and to the user *)

\* What recovery leaves alone, and the state it may enter.
LEMMA RetryEffect ==
  ASSUME NEW c \in Codes, NEW st \in Stages, Retry(c, st), TypeOK
  PROVE  /\ UNCHANGED <<epoch, hasTrack, hasConfig, wanted>>
         /\ \/ state' = state /\ preRebuffer' = preRebuffer
            \/ state' = "Rebuffering" /\ state # "Loading" /\ state # "Rebuffering" /\ preRebuffer' = state
         /\ source' = [source EXCEPT !["history"] = epoch]
BY DEF Retry, TypeOK

Knowledge == Flags /\ SessionFresh /\ User

LEMMA KnowledgeStep == TypeOK /\ Knowledge /\ [Next]_vars => Knowledge'
<1> SUFFICES ASSUME TypeOK, Knowledge, [Next]_vars PROVE Knowledge'
  OBVIOUS
<1> USE DEF Knowledge, Flags, PrerollReady, SessionFresh, User, PlaybackFollowsUser
<1>1. CASE Load
  BY <1>1 DEF Load, NewSession
<1>2. CASE Play
  BY <1>2 DEF Play, session
<1>3. CASE Pause
  BY <1>3 DEF Pause, session
<1>4. CASE Stop
  BY <1>4 DEF Stop, session
<1>5. CASE Destroy
  BY <1>5 DEF Destroy, session
<1>6. ASSUME NEW c \in Codes, NEW st \in Stages, RecoverOrFail(c, st) PROVE Knowledge'
  <2>1. CASE Retry(c, st)
    <3>1. source' = [source EXCEPT !["history"] = epoch] /\ source \in [{"track", "config", "history"} -> Nat]
      BY <2>1, RetryEffect DEF TypeOK
    <3>2. SessionFresh'
      BY <2>1, <3>1, RetryEffect
    <3>3. Flags' /\ User'
      BY <2>1, RetryEffect
    <3> QED
      BY <3>2, <3>3
  <2>2. CASE Fail(c, st)
    BY <2>2 DEF Fail, session
  <2> QED
    BY <1>6, <2>1, <2>2 DEF RecoverOrFail
<1>7. CASE NetworkConnected
  <2>1. UNCHANGED <<epoch, hasTrack, hasConfig, preRebuffer, history, source, wanted>>
    BY <1>7 DEF NetworkConnected, session
  <2>2. state = "Rebuffering" /\ state' = preRebuffer
    BY <1>7 DEF NetworkConnected
  <2>3. Flags'
    BY <2>1, <2>2
  <2>4. SessionFresh'
    BY <2>1
  <2>5. User'
    BY <2>1, <2>2
  <2> QED
    BY <2>3, <2>4, <2>5
<1>8. CASE NetworkEof
  BY <1>8 DEF NetworkEof, session
<1>9. CASE NetworkRetryable
  BY <1>9 DEF NetworkRetryable
<1>10. ASSUME NEW e \in 0..epoch, BackendTrack(e) PROVE Knowledge'
  <2>1. SessionFresh'
    BY <1>10 DEF BackendTrack, Current, TypeOK
  <2>2. Flags' /\ User'
    BY <1>10 DEF BackendTrack, MaybePreroll, TypeOK
  <2> QED
    BY <2>1, <2>2
<1>11. ASSUME NEW e \in 0..epoch, BackendConfig(e) PROVE Knowledge'
  <2>1. SessionFresh'
    BY <1>11 DEF BackendConfig, Current, TypeOK
  <2>2. Flags' /\ User'
    BY <1>11 DEF BackendConfig, MaybePreroll, TypeOK
  <2> QED
    BY <2>1, <2>2
<1>12. CASE BackendStopped
  BY <1>12 DEF BackendStopped, session
<1>13. CASE Tick
  BY <1>13 DEF Tick
<1>14. ASSUME NEW k \in Kinds, HostAcquire(k) \/ HostRelease(k) PROVE Knowledge'
  BY <1>14 DEF HostAcquire, HostRelease, session
<1>15. CASE UNCHANGED vars
  BY <1>15 DEF vars, session
<1>16. "network" \in Stages /\ "decoder" \in Stages
  BY DEF Stages
<1> QED
  <2> HIDE DEF Knowledge
  <2> QED
    BY <1>1, <1>2, <1>3, <1>4, <1>5, <1>6, <1>7, <1>8, <1>9, <1>10, <1>11, <1>12, <1>13, <1>14, <1>15, <1>16
       DEF Next, UserCommand, NetworkEvent, BackendEvent, Host, NetworkFatal, BackendDecoderError

\* In whatever order commands, network events and callbacks of any session
\* arrive: Preroll means the track and configuration are known, everything
\* known came from the current session, and the engine plays or is paused only
\* as the user last asked.
THEOREM SessionSafe == Spec => []SessionCoherent
<1>1. Init => Knowledge
  BY DEF Init, Knowledge, Flags, PrerollReady, SessionFresh, User, PlaybackFollowsUser
<1>2. Knowledge => SessionCoherent
  BY DEF Knowledge, Flags, User, SessionCoherent
<1> QED
  BY <1>1, <1>2, TypeCorrect, KnowledgeStep, PTL DEF Spec

-----------------------------------------------------------------------------
(* The retry budgets *)

\* Every attempt a budget can see is still in the tracker.
LEMMA RecentKnown ==
  ASSUME TypeOK, Tracker, NEW k \in Keys
  PROVE  Recent(k, log) = Recent(k, history)
<1>1. k[3] \in Actions
  BY DEF Keys
<1>2. Window[k[3]] \in Nat /\ Window[k[3]] <= MaxWindow /\ MaxWindow \in Nat
  BY <1>1, MaxWindowBounds, EngineAssumption
<1>3. ASSUME NEW h \in log, h.at >= now - Window[k[3]] PROVE h \in history
  <2>1. h.at \in Nat /\ now \in Nat
    BY DEF TypeOK, Attempts
  <2>2. h.at >= now - MaxWindow
    BY <1>2, <1>3, <2>1
  <2> QED
    BY <2>2 DEF Tracker
<1> QED
  BY <1>3 DEF Recent, Tracker

\* Recording an attempt that had budget leaves every budget respected.
LEMMA RetryTracked ==
  ASSUME TypeOK, Tracker, NEW c \in Codes, NEW st \in Stages, Retry(c, st)
  PROVE  Tracker'
<1>1. PICK i \in Retryable(c, st) :
        /\ history' = history \cup {Attempt(<<c, st, Chain[i]>>)}
        /\ log' = log \cup {Attempt(<<c, st, Chain[i]>>)}
        /\ now' = now
  BY DEF Retry
<1> DEFINE k == <<c, st, Chain[i]>>
           a == Attempt(k)
<1>2. k \in Keys
  BY DEF Retryable, Classify, Keys, Actions
<1>3. Cardinality(Recent(k, history)) < MaxAttempts[k[3]]
  BY DEF Retryable, HasBudget
<1>4. a.key = k
  BY DEF Attempt
<1>5. log' = log \cup {a} /\ history' = history \cup {a} /\ now' = now
  BY <1>1
<1> HIDE DEF k, a
<1>6. IsFiniteSet(log')
  BY <1>5, FS_AddElement DEF Tracker
<1>7. history' \subseteq log' /\ \A h \in log' : h.at >= now' - MaxWindow => h \in history'
  BY <1>5 DEF Tracker
<1>8. ASSUME NEW j \in Keys PROVE Cardinality(Recent(j, log)') <= MaxAttempts[j[3]]
  <2>1. CASE j # k
    <3>1. Recent(j, log)' = Recent(j, log)
      BY <2>1, <1>4, <1>5 DEF Recent
    <3> QED
      BY <3>1 DEF Tracker, BudgetRespected
  <2>2. CASE j = k
    <3>1. Recent(k, log)' \subseteq Recent(k, log) \cup {a}
      BY <1>5 DEF Recent
    <3>2. IsFiniteSet(Recent(k, log))
      <4>1. Recent(k, log) \in SUBSET log
        BY DEF Recent
      <4> QED
        BY <4>1, FS_Subset DEF Tracker
    <3>3. IsFiniteSet(Recent(k, log) \cup {a})
          /\ Cardinality(Recent(k, log) \cup {a}) <= Cardinality(Recent(k, log)) + 1
      <4> DEFINE S == Recent(k, log)
      <4>1. Cardinality(S) \in Nat
        BY <3>2, FS_CardinalityType
      <4>2. IsFiniteSet(S \cup {a})
            /\ Cardinality(S \cup {a}) \in {Cardinality(S), Cardinality(S) + 1}
        <5> HIDE DEF S
        <5> QED
          BY <3>2, FS_AddElement DEF S
      <4> HIDE DEF S
      <4>3. Cardinality(S \cup {a}) <= Cardinality(S) + 1
        BY <4>1, <4>2
      <4> QED
        BY <4>2, <4>3 DEF S
    <3>4. Cardinality(Recent(k, log)') <= Cardinality(Recent(k, log) \cup {a})
      BY <3>1, <3>3, FS_Subset
    <3>5. Cardinality(Recent(k, log)) < MaxAttempts[k[3]]
      BY <1>2, <1>3, RecentKnown
    <3>6. Cardinality(Recent(k, log)) \in Nat /\ MaxAttempts[k[3]] \in Nat
      BY <3>2, <1>2, FS_CardinalityType, EngineAssumption DEF Keys
    <3>7. Cardinality(Recent(k, log)') \in Nat /\ Cardinality(Recent(k, log) \cup {a}) \in Nat
      BY <3>1, <3>3, FS_Subset, FS_CardinalityType
    <3> QED
      BY <2>2, <3>3, <3>4, <3>5, <3>6, <3>7
  <2> QED
    BY <2>1, <2>2
<1>9. BudgetRespected'
  BY <1>8 DEF BudgetRespected
<1> QED
  BY <1>6, <1>7, <1>9 DEF Tracker

\* Time passes: windows only move on, and pruning keeps what they can see.
LEMMA TickTracked ==
  ASSUME TypeOK, Tracker, Tick
  PROVE  Tracker'
<1>1. PICK t \in (now + 1)..MaxTime :
        now' = t /\ history' = {h \in history : h.at >= t - MaxWindow} /\ log' = log
  BY DEF Tick
<1>2. now \in Nat /\ now' \in Nat /\ now < now' /\ MaxWindow \in Nat
  BY <1>1, MaxWindowBounds, EngineAssumption DEF TypeOK
<1>3. ASSUME NEW h \in log, h.at >= now' - MaxWindow PROVE h \in history'
  <2>1. h.at \in Nat
    BY DEF TypeOK, Attempts
  <2>2. h.at >= now - MaxWindow
    BY <1>2, <1>3, <2>1
  <2> QED
    BY <1>1, <1>3, <2>2 DEF Tracker
<1>4. ASSUME NEW k \in Keys PROVE Cardinality(Recent(k, log)') <= MaxAttempts[k[3]]
  <2>1. Window[k[3]] \in Nat
    BY EngineAssumption DEF Keys
  <2>2. Recent(k, log)' \subseteq Recent(k, log)
    <3>1. ASSUME NEW h \in log, h.at >= now' - Window[k[3]]
          PROVE  h.at >= now - Window[k[3]]
      <4>1. h.at \in Nat
        BY DEF TypeOK, Attempts
      <4> QED
        BY <1>2, <2>1, <3>1, <4>1
    <3>2. Recent(k, log)' = {h \in log : h.key = k /\ h.at >= now' - Window[k[3]]}
      BY <1>1 DEF Recent
    <3> QED
      BY <3>1, <3>2 DEF Recent
  <2>3. IsFiniteSet(Recent(k, log))
    <3>1. Recent(k, log) \in SUBSET log
      BY DEF Recent
    <3> QED
      BY <3>1, FS_Subset DEF Tracker
  <2>4. Cardinality(Recent(k, log)') <= Cardinality(Recent(k, log))
    BY <2>2, <2>3, FS_Subset
  <2>5. Cardinality(Recent(k, log)) \in Nat /\ Cardinality(Recent(k, log)') \in Nat /\ MaxAttempts[k[3]] \in Nat
    BY <2>2, <2>3, FS_Subset, FS_CardinalityType, EngineAssumption DEF Keys
  <2>6. Cardinality(Recent(k, log)) <= MaxAttempts[k[3]]
    BY DEF Tracker, BudgetRespected
  <2> QED
    BY <2>4, <2>5, <2>6
<1>5. BudgetRespected'
  BY <1>4 DEF BudgetRespected
<1> QED
  BY <1>1, <1>3, <1>5 DEF Tracker

\* Nothing recorded, nothing exceeded.
LEMMA EmptyTracked ==
  \A k \in Keys : Recent(k, {}) = {} /\ Cardinality({}) <= MaxAttempts[k[3]]
<1> SUFFICES ASSUME NEW k \in Keys PROVE Recent(k, {}) = {} /\ Cardinality({}) <= MaxAttempts[k[3]]
  OBVIOUS
<1>1. MaxAttempts[k[3]] \in Nat
  BY EngineAssumption DEF Keys
<1>2. Cardinality({}) = 0
  BY FS_EmptySet
<1> QED
  BY <1>1, <1>2 DEF Recent

LEMMA TrackerStep == TypeOK /\ Tracker /\ [Next]_vars => Tracker'
<1> SUFFICES ASSUME TypeOK, Tracker, [Next]_vars PROVE Tracker'
  OBVIOUS
<1>1. CASE Load
  <2>1. log' = {} /\ history' = {}
    BY <1>1 DEF Load, NewSession
  <2>2. BudgetRespected'
    <3> SUFFICES ASSUME NEW k \in Keys PROVE Cardinality(Recent(k, log)') <= MaxAttempts[k[3]]
      BY DEF BudgetRespected
    <3>1. Recent(k, log)' = {}
      BY <2>1 DEF Recent
    <3> QED
      BY <3>1, EmptyTracked
  <2> QED
    BY <2>1, <2>2, FS_EmptySet DEF Tracker
<1>2. CASE Tick
  BY <1>2, TickTracked
<1>3. ASSUME NEW c \in Codes, NEW st \in Stages, RecoverOrFail(c, st), ~Fail(c, st) PROVE Tracker'
  BY <1>3, RetryTracked DEF RecoverOrFail
<1>4. ASSUME UNCHANGED <<history, log, now>> PROVE Tracker'
  <2>1. BudgetRespected' <=> BudgetRespected
    BY <1>4 DEF BudgetRespected, Recent
  <2> QED
    BY <1>4, <2>1 DEF Tracker
<1>5. CASE Play \/ Pause \/ Stop \/ Destroy
  BY <1>4, <1>5 DEF Play, Pause, Stop, Destroy, session
<1>6. CASE NetworkConnected \/ NetworkEof \/ NetworkRetryable \/ BackendStopped
  BY <1>4, <1>6 DEF NetworkConnected, NetworkEof, NetworkRetryable, BackendStopped, session
<1>7. ASSUME NEW e \in 0..epoch, BackendTrack(e) \/ BackendConfig(e) PROVE Tracker'
  BY <1>4, <1>7 DEF BackendTrack, BackendConfig
<1>8. ASSUME NEW k \in Kinds, HostAcquire(k) \/ HostRelease(k) PROVE Tracker'
  BY <1>4, <1>8 DEF HostAcquire, HostRelease, session
<1>9. ASSUME NEW c \in Codes, NEW st \in Stages, Fail(c, st) PROVE Tracker'
  BY <1>4, <1>9 DEF Fail, session
<1>10. CASE UNCHANGED vars
  BY <1>4, <1>10 DEF vars, session
<1>11. "network" \in Stages /\ "decoder" \in Stages
  BY DEF Stages
<1> QED
  BY <1>1, <1>2, <1>3, <1>5, <1>6, <1>7, <1>8, <1>9, <1>10, <1>11
     DEF Next, UserCommand, NetworkEvent, BackendEvent, Host, NetworkFatal, BackendDecoderError

\* However errors, ticks and new loads interleave, no recovery action is
\* scheduled more often for one error than its budget allows within its window,
\* although the tracker keeps only what max_window_ms covers.
THEOREM BudgetSafe == Spec => []BudgetRespected
<1>1. Init => Tracker
  <2> SUFFICES ASSUME Init PROVE Tracker
    OBVIOUS
  <2>1. log = {} /\ history = {}
    BY DEF Init
  <2>2. BudgetRespected
    BY <2>1, EmptyTracked DEF BudgetRespected
  <2> QED
    BY <2>1, <2>2, FS_EmptySet DEF Tracker
<1>2. Tracker => BudgetRespected
  BY DEF Tracker
<1> QED
  BY <1>1, <1>2, TypeCorrect, TrackerStep, PTL DEF Spec

-----------------------------------------------------------------------------
(* What the events of a command tell *)

LEMMA CatFacts ==
  ASSUME NEW u \in Seq(Events), NEW v \in Seq(Events)
  PROVE  /\ u \o v \in Seq(Events)
         /\ Len(u \o v) = Len(u) + Len(v)
         /\ Len(u) \in Nat /\ Len(v) \in Nat
         /\ \A i \in 1..Len(u) : (u \o v)[i] = u[i]
         /\ \A i \in 1..Len(v) : (u \o v)[Len(u) + i] = v[i]
         /\ \A i \in 1..Len(u \o v) : i \in 1..Len(u) \/ i - Len(u) \in 1..Len(v)
OBVIOUS

\* Two sequences of events that follow each other, the first from a to z and the
\* second from z to c, lead from a to c.
LEMMA LeadsCat ==
  ASSUME NEW u \in Seq(Events), NEW v \in Seq(Events), NEW a, NEW z, NEW c,
         Leads(a, u, z), Leads(z, v, c)
  PROVE  Leads(a, u \o v, c)
<1> DEFINE w == u \o v
           m == Len(u)
<1>1. /\ w \in Seq(Events) /\ Len(w) = m + Len(v) /\ m \in Nat /\ Len(v) \in Nat
      /\ \A i \in 1..m : w[i] = u[i]
      /\ \A i \in 1..Len(v) : w[m + i] = v[i]
  BY CatFacts
<1> HIDE DEF w, m
<1>2. \A i \in 1..m : i \in ChangesIn(w) <=> i \in ChangesIn(u)
  BY <1>1 DEF ChangesIn, m
<1>3. \A i \in 1..Len(v) : m + i \in ChangesIn(w) <=> i \in ChangesIn(v)
  BY <1>1 DEF ChangesIn
<1>4. \A i \in ChangesIn(w) : i \in ChangesIn(u) \/ (\E j \in ChangesIn(v) : i = m + j)
  <2> SUFFICES ASSUME NEW i \in ChangesIn(w)
               PROVE  i \in ChangesIn(u) \/ (\E j \in ChangesIn(v) : i = m + j)
    OBVIOUS
  <2>1. i \in 1..(m + Len(v))
    BY <1>1 DEF ChangesIn
  <2>2. CASE i <= m
    BY <1>1, <1>2, <2>1, <2>2
  <2>3. CASE i > m
    <3>1. i - m \in 1..Len(v) /\ i = m + (i - m)
      BY <1>1, <2>1, <2>3
    <3> QED
      BY <1>3, <3>1
  <2> QED
    BY <1>1, <2>1, <2>2, <2>3
<1>5. /\ \A i \in ChangesIn(u) : i \in 1..m /\ i \in ChangesIn(w) /\ w[i] = u[i]
      /\ \A j \in ChangesIn(v) : j \in 1..Len(v) /\ m + j \in ChangesIn(w) /\ w[m + j] = v[j]
  BY <1>1, <1>2, <1>3 DEF ChangesIn, m
<1>6. ChangesIn(w) = {} => a = c
  BY <1>5 DEF Leads
<1>7. ASSUME NEW i \in ChangesIn(w), \A j \in ChangesIn(w) : i <= j PROVE w[i][2] = a
  <2>1. CASE i \in ChangesIn(u)
    BY <1>5, <1>7, <2>1 DEF Leads
  <2>2. ASSUME NEW j \in ChangesIn(v), i = m + j PROVE w[i][2] = a
    <3>1. ASSUME NEW k \in ChangesIn(u) PROVE FALSE
      <4>1. k \in 1..m /\ i <= k /\ j \in 1..Len(v)
        BY <1>5, <1>7, <2>2
      <4> QED
        BY <1>1, <2>2, <4>1
    <3>2. \A k \in ChangesIn(v) : j <= k
      BY <1>1, <1>5, <1>7, <2>2
    <3>3. a = z /\ v[j][2] = z
      BY <3>1, <3>2 DEF Leads
    <3> QED
      BY <1>5, <2>2, <3>3
  <2> QED
    BY <1>4, <2>1, <2>2
<1>8. ASSUME NEW i \in ChangesIn(w), \A j \in ChangesIn(w) : j <= i PROVE w[i][3] = c
  <2>1. CASE i \in ChangesIn(u)
    <3>1. ChangesIn(v) = {}
      BY <1>1, <1>5, <1>8, <2>1
    <3>2. \A k \in ChangesIn(u) : k <= i
      BY <1>5, <1>8
    <3>3. z = c /\ u[i][3] = z
      BY <2>1, <3>1, <3>2 DEF Leads
    <3> QED
      BY <1>5, <2>1, <3>3
  <2>2. ASSUME NEW j \in ChangesIn(v), i = m + j PROVE w[i][3] = c
    <3>1. \A k \in ChangesIn(v) : k <= j
      BY <1>1, <1>5, <1>8, <2>2
    <3>2. v[j][3] = c
      BY <3>1 DEF Leads
    <3> QED
      BY <1>5, <2>2, <3>2
  <2> QED
    BY <1>4, <2>1, <2>2
<1>9. ASSUME NEW i \in ChangesIn(w), NEW j \in ChangesIn(w), j < i,
             \A k \in ChangesIn(w) : k <= j \/ i <= k
      PROVE  w[i][2] = w[j][3]
  <2>1. CASE i \in ChangesIn(u)
    <3>1. j \in ChangesIn(u)
      BY <1>1, <1>4, <1>5, <1>9, <2>1
    <3>2. \A k \in ChangesIn(u) : k <= j \/ i <= k
      BY <1>5, <1>9
    <3>3. u[i][2] = u[j][3]
      BY <1>9, <2>1, <3>1, <3>2 DEF Leads
    <3> QED
      BY <1>5, <2>1, <3>1, <3>3
  <2>2. ASSUME NEW p \in ChangesIn(v), i = m + p, j \in ChangesIn(u) PROVE w[i][2] = w[j][3]
    <3>1. \A k \in ChangesIn(u) : k <= j
      BY <1>1, <1>5, <1>9, <2>2
    <3>2. \A k \in ChangesIn(v) : p <= k
      BY <1>1, <1>5, <1>9, <2>2
    <3>3. u[j][3] = z /\ v[p][2] = z
      BY <2>2, <3>1, <3>2 DEF Leads
    <3> QED
      BY <1>5, <2>2, <3>3
  <2>3. ASSUME NEW p \in ChangesIn(v), i = m + p, NEW q \in ChangesIn(v), j = m + q
        PROVE  w[i][2] = w[j][3]
    <3>1. q < p /\ \A k \in ChangesIn(v) : k <= q \/ p <= k
      BY <1>1, <1>5, <1>9, <2>3
    <3>2. v[p][2] = v[q][3]
      BY <3>1 DEF Leads
    <3> QED
      BY <1>5, <2>3, <3>2
  <2> QED
    BY <1>4, <2>1, <2>2, <2>3
<1> QED
  BY <1>6, <1>7, <1>8, <1>9 DEF Leads, w

\* What a single event tells.
LEMMA LeadsOne ==
  /\ \A a : Leads(a, <<>>, a)
  /\ \A a, z : Leads(a, <<Changed(a, z)>>, z)
  /\ \A a, e : e[1] # "StateChanged" => Leads(a, <<e>>, a)
  /\ \A a, z : Leads(a, Transition(a, z), z)
<1>1. \A a : Leads(a, <<>>, a)
  BY DEF Leads, ChangesIn
<1>2. ASSUME NEW a, NEW z PROVE Leads(a, <<Changed(a, z)>>, z)
  <2> DEFINE u == <<Changed(a, z)>>
  <2>1. u[1][1] = "StateChanged" /\ u[1][2] = a /\ u[1][3] = z /\ Len(u) = 1
    BY DEF Changed
  <2> HIDE DEF u
  <2>2. ChangesIn(u) = {1}
    BY <2>1 DEF ChangesIn
  <2> QED
    BY <2>1, <2>2 DEF Leads, u
<1>3. ASSUME NEW a, NEW e, e[1] # "StateChanged" PROVE Leads(a, <<e>>, a)
  <2>1. ChangesIn(<<e>>) = {}
    BY <1>3 DEF ChangesIn
  <2> QED
    BY <2>1 DEF Leads
<1> QED
  BY <1>1, <1>2, <1>3 DEF Transition

LEMMA LeakWarningLeads == \A a : Leads(a, LeakWarning, a)
BY LeadsOne DEF LeakWarning

LEMMA Pair ==
  ASSUME NEW x \in Events, NEW y \in Events
  PROVE  /\ <<x, y>> = <<x>> \o <<y>>
         /\ <<x>> \in Seq(Events) /\ <<y>> \in Seq(Events) /\ <<x, y>> \in Seq(Events)
<1>1. <<x>> \in Seq(Events) /\ <<y>> \in Seq(Events) /\ <<x, y>> \in Seq(Events)
  OBVIOUS
<1> DEFINE w == <<x>> \o <<y>>
<1>2. Len(w) = 2 /\ w[1] = x /\ w[2] = y /\ w \in Seq(Events)
  BY <1>1
<1> HIDE DEF w
<1>3. w = <<x, y>>
  BY <1>2
<1> QED
  BY <1>1, <1>3 DEF w

\* A change of state and another event, in either order.
LEMMA LeadsPair ==
  ASSUME NEW f \in States, NEW g \in States, NEW e \in Events, e[1] # "StateChanged"
  PROVE  Leads(f, <<Changed(f, g), e>>, g) /\ Leads(f, <<e, Changed(f, g)>>, g)
<1> DEFINE x == Changed(f, g)
<1>1. x \in Events
  BY EventKinds
<1>2. Leads(f, <<x>>, g) /\ Leads(f, <<e>>, f) /\ Leads(g, <<e>>, g)
  BY LeadsOne
<1> HIDE DEF x
<1>3. <<x>> \in Seq(Events) /\ <<e>> \in Seq(Events)
      /\ <<x, e>> = <<x>> \o <<e>> /\ <<e, x>> = <<e>> \o <<x>>
  BY <1>1, Pair
<1>4. Leads(f, <<x>> \o <<e>>, g) /\ Leads(f, <<e>> \o <<x>>, g)
  BY <1>2, <1>3, LeadsCat
<1> QED
  BY <1>3, <1>4 DEF x

LEMMA StopEventsLead ==
  ASSUME state \in States
  PROVE  Leads(state, StopEvents, "Idle")
<1>1. CASE state = "Idle"
  BY <1>1, LeadsOne DEF StopEvents
<1>2. CASE state # "Idle"
  <2> DEFINE stopping == Transition(state, "Stopping") \o LeakWarning
             last == <<Changed("Stopping", "Idle"), <<"Stopped">>>>
  <2>1. "Stopping" \in States /\ "Idle" \in States /\ <<"Stopped">> \in Events
    BY EventKinds DEF States
  <2>2. stopping \in Seq(Events) /\ Leads(state, stopping, "Stopping")
    BY <2>1, EventSeqs, SeqCat, LeadsOne, LeakWarningLeads, LeadsCat
  <2>3. Changed("Stopping", "Idle") \in Events /\ <<"Stopped">>[1] # "StateChanged"
    BY <2>1, EventKinds
  <2>4. last \in Seq(Events)
    BY <2>1, <2>3, Pair
  <2>5. Leads("Stopping", last, "Idle")
    BY <2>1, <2>3, LeadsPair
  <2> HIDE DEF stopping, last
  <2>6. Leads(state, stopping \o last, "Idle")
    BY <2>2, <2>4, <2>5, LeadsCat
  <2> QED
    BY <1>2, <2>6 DEF StopEvents, stopping, last
<1> QED
  BY <1>1, <1>2

\* The events tell of handles that were dropped.
Warns(u) == \E i \in 1..Len(u) : u[i] = <<"ResourceWarning">>

LEMMA WarnsCat ==
  ASSUME NEW u \in Seq(Events), NEW v \in Seq(Events), Warns(u) \/ Warns(v)
  PROVE  Warns(u \o v)
<1> DEFINE w == u \o v
<1>1. /\ Len(w) = Len(u) + Len(v) /\ Len(u) \in Nat /\ Len(v) \in Nat
      /\ \A i \in 1..Len(u) : w[i] = u[i]
      /\ \A i \in 1..Len(v) : w[Len(u) + i] = v[i]
  BY CatFacts
<1> HIDE DEF w
<1>2. CASE Warns(u)
  BY <1>1, <1>2 DEF Warns, w
<1>3. CASE Warns(v)
  <2>1. PICK i \in 1..Len(v) : v[i] = <<"ResourceWarning">>
    BY <1>3 DEF Warns
  <2>2. Len(u) + i \in 1..Len(w) /\ w[Len(u) + i] = <<"ResourceWarning">>
    BY <1>1, <2>1
  <2> QED
    BY <2>2 DEF Warns, w
<1> QED
  BY <1>2, <1>3

LEMMA LeakWarns == ledger # NoHandles => Warns(LeakWarning)
BY DEF LeakWarning, Warns

LEMMA StopWarns ==
  ASSUME state \in States, state # "Idle", ledger # NoHandles
  PROVE  Warns(StopEvents)
<1> DEFINE stopping == Transition(state, "Stopping") \o LeakWarning
           last == <<Changed("Stopping", "Idle"), <<"Stopped">>>>
<1>1. "Stopping" \in States /\ "Idle" \in States /\ <<"Stopped">> \in Events
  BY EventKinds DEF States
<1>2. stopping \in Seq(Events) /\ Warns(stopping)
  BY <1>1, EventSeqs, SeqCat, LeakWarns, WarnsCat
<1>3. last \in Seq(Events)
  BY <1>1, EventKinds
<1> HIDE DEF stopping, last
<1>4. Warns(stopping \o last)
  BY <1>2, <1>3, WarnsCat
<1> QED
  BY <1>4 DEF StopEvents, stopping, last

\* One step tells everything.
Told == (UNCHANGED <<state, out>> \/ Leads(state, out', state')) /\ Warned

LEMMA ToldStep == TypeOK /\ [Next]_vars => [Told]_vars
<1> SUFFICES ASSUME TypeOK, Next PROVE Told
  OBVIOUS
<1>a. /\ state \in States /\ preRebuffer \in States
      /\ ledger \in [Kinds -> Nat]
  BY DEF TypeOK
<1>b. States = {"Loading", "Preroll", "Playing", "Paused", "Rebuffering",
                "Idle", "Stopping", "Failed", "Destroyed"}
  BY DEF States, Active
<1>c. ledger' = ledger => Warned
  BY DEF Warned
<1>d. /\ \A e \in {"Track", "Config", "Eof", "Error", "Stopped", "Destroyed"} :
           <<e>> \in Events /\ <<e>>[1] # "StateChanged"
      /\ \A a \in Actions : <<"Recovery", a>> \in Events /\ <<"Recovery", a>>[1] # "StateChanged"
  BY EventKinds
<1>1. CASE Load
  <2> DEFINE first == IF state \in {"Idle", "Failed"} THEN LeakWarning ELSE StopEvents
             from == IF state \in {"Idle", "Failed"} THEN state ELSE "Idle"
  <2>1. out' = first \o <<Changed(from, "Loading")>> /\ state' = "Loading" /\ ledger' = NoHandles
    BY <1>1 DEF Load, NewSession, ResetLedger
  <2>2. first \in Seq(Events) /\ Leads(state, first, from)
    BY <1>a, EventSeqs, StopEventsType, LeakWarningLeads, StopEventsLead
  <2>3. ledger # NoHandles => Warns(first)
    BY <1>a, LeakWarns, StopWarns
  <2>4. <<Changed(from, "Loading")>> \in Seq(Events)
    BY <1>a, <1>b, EventSeqs
  <2> HIDE DEF first, from
  <2>5. Leads(state, out', state')
    BY <2>1, <2>2, <2>4, LeadsOne, LeadsCat
  <2>6. Warned
    BY <2>1, <2>2, <2>3, <2>4, WarnsCat DEF Warned, Warns
  <2> QED
    BY <2>5, <2>6 DEF Told
<1>2. CASE Play
  BY <1>2, <1>c, <1>d, LeadsOne DEF Play, Told
<1>3. CASE Pause
  BY <1>3, <1>c, <1>d, LeadsOne DEF Pause, Told
<1>4. CASE Stop
  <2>1. Leads(state, out', state')
    BY <1>4, <1>a, StopEventsLead DEF Stop
  <2>2. Warned
    BY <1>4, <1>a, StopWarns DEF Stop, ResetLedger, Warned, Warns
  <2> QED
    BY <2>1, <2>2 DEF Told
<1>5. CASE Destroy
  <2> DEFINE last == <<Changed(state, "Destroyed"), <<"Destroyed">>>>
  <2>1. out' = LeakWarning \o last /\ state' = "Destroyed" /\ ledger' = NoHandles
    BY <1>5 DEF Destroy, ResetLedger
  <2>a. "Destroyed" \in States /\ Changed(state, "Destroyed") \in Events
    BY <1>a, <1>b, EventKinds
  <2>b. last \in Seq(Events)
    BY <1>d, <2>a, Pair
  <2>2. last \in Seq(Events) /\ Leads(state, last, "Destroyed")
    BY <1>a, <1>d, <2>a, <2>b, LeadsPair
  <2> HIDE DEF last
  <2>3. Leads(state, out', state')
    BY <2>1, <2>2, EventSeqs, LeakWarningLeads, LeadsCat
  <2>4. Warned
    BY <2>1, <2>2, EventSeqs, LeakWarns, WarnsCat DEF Warned, Warns
  <2> QED
    BY <2>3, <2>4 DEF Told
<1>6. ASSUME NEW c \in Codes, NEW st \in Stages, RecoverOrFail(c, st) PROVE Told
  <2>1. CASE Retry(c, st)
    <3>1. PICK i \in Retryable(c, st) :
            out' = Transition(state, state') \o <<<<"Recovery", Chain[i]>>>>
      BY <2>1 DEF Retry
    <3>2. Chain[i] \in Actions
      BY DEF Retryable, Classify, Actions
    <3>3. state' \in States /\ ledger' = ledger
      BY <2>1, <1>a, <1>b DEF Retry
    <3>4. <<<<"Recovery", Chain[i]>>>> \in Seq(Events)
          /\ Leads(state', <<<<"Recovery", Chain[i]>>>>, state')
      BY <1>d, <3>2, LeadsOne
    <3>5. Leads(state, out', state')
      BY <1>a, <3>1, <3>3, <3>4, EventSeqs, LeadsOne, LeadsCat
    <3> QED
      BY <1>c, <3>3, <3>5 DEF Told
  <2>2. CASE Fail(c, st)
    BY <2>2, <1>a, <1>b, <1>c, <1>d, LeadsPair DEF Fail, Told
  <2> QED
    BY <1>6, <2>1, <2>2 DEF RecoverOrFail
<1>7. CASE NetworkConnected
  BY <1>7, <1>c, LeadsOne DEF NetworkConnected, Told
<1>8. CASE NetworkEof
  BY <1>8, <1>a, <1>b, <1>c, <1>d, LeadsPair DEF NetworkEof, Told
<1>9. CASE NetworkRetryable
  BY <1>9, <1>c, LeadsOne DEF NetworkRetryable, Told
<1>10. ASSUME NEW e \in 0..epoch, BackendTrack(e) \/ BackendConfig(e) PROVE Told
  <2>1. PICK x \in {"Track", "Config"} : out' = <<<<x>>>> \o Transition(state, state')
    BY <1>10 DEF BackendTrack, BackendConfig
  <2>2. state' \in States /\ ledger' = ledger
    BY <1>10, <1>a, <1>b DEF BackendTrack, BackendConfig, MaybePreroll
  <2>3. <<<<x>>>> \in Seq(Events) /\ Leads(state, <<<<x>>>>, state)
    BY <1>d, LeadsOne
  <2>4. Transition(state, state') \in Seq(Events) /\ Leads(state, Transition(state, state'), state')
    BY <1>a, <2>2, EventSeqs, LeadsOne
  <2>5. Leads(state, out', state')
    BY <2>1, <2>3, <2>4, LeadsCat
  <2> QED
    BY <1>c, <2>2, <2>5 DEF Told
<1>11. CASE BackendStopped
  BY <1>11, <1>b, <1>c, <1>d, LeadsPair DEF BackendStopped, Told
<1>12. CASE Tick
  BY <1>12, <1>c DEF Tick, Told
<1>13. ASSUME NEW k \in Kinds, HostAcquire(k) \/ HostRelease(k) PROVE Told
  <2>1. \A j \in Kinds : ledger'[j] >= ledger[j] - 1
    BY <1>13, <1>a DEF HostAcquire, HostRelease
  <2>2. UNCHANGED <<state, epoch, out>>
    BY <1>13 DEF HostAcquire, HostRelease
  <2> QED
    BY <2>1, <2>2 DEF Told, Warned
<1>14. "network" \in Stages /\ "decoder" \in Stages
  BY DEF Stages
<1> QED
  BY <1>1, <1>2, <1>3, <1>4, <1>5, <1>6, <1>7, <1>8, <1>9, <1>10, <1>11, <1>12, <1>13, <1>14
     DEF Next, UserCommand, NetworkEvent, BackendEvent, Host, NetworkFatal, BackendDecoderError

\* A host that only listens to the events always knows the state of the engine:
\* those of a command lead without a gap from the state before it to the state
\* after it, also through the stop inside a load, and handles that a stop, a load
\* or a destroy drops are reported (state.rs:5).
THEOREM EventsComplete == Spec => EventsTellState
<1>1. [Told]_vars => [/\ UNCHANGED <<state, out>> \/ Leads(state, out', state')
                      /\ Warned]_vars
  BY DEF Told
<1> QED
  BY <1>1, ToldStep, TypeCorrect, PTL DEF Spec, EventsTellState

-----------------------------------------------------------------------------
(* The web runtime and its worker *)

MainRecords ==
  [instance : 0..MaxLoads, epoch : Nat, sequence : Nat, calls : Nat, stops : 0..MaxStops,
   pending : SUBSET [sequence : Nat, type : Runtime!Commands, call : Nat],
   alive : BOOLEAN, created : BOOLEAN, halted : BOOLEAN, quiet : BOOLEAN]
Envelopes ==
  [instance : 0..MaxLoads, epoch : Nat, sequence : Nat,
   type : Runtime!Commands \cup Runtime!Controls \cup {"error"}, call : Nat]
EventEnvelopes ==
  [instance : 0..MaxLoads, epoch : Nat, sequence : Nat, type : {"event"}, call : Nat,
   event : {"loaded", "playing", "seeking", "stopped"}, stream : 0..MaxLoads]
WorkerRecords ==
  [epoch : Nat, wasm : {"none", "loading", "ready"}, url : BOOLEAN,
   waiting : Seq(Envelopes), engine : 0..MaxLoads]

Items(s) == {s[i] : i \in 1..Len(s)}

\* What m pending has room for.
Fits(P) == IsFiniteSet(P) /\ Cardinality(P) <= RuntimePending

RTyped(m) ==
  /\ m \in MainRecords /\ Fits(m.pending)
  /\ m.epoch = m.instance + m.stops
  /\ worker \in WorkerRecords
  /\ up \in Seq(Envelopes) /\ down \in Seq(Envelopes \cup EventEnvelopes)
  /\ \A e \in Items(up) : e.type # "error"

\* The worker's fields w.
Steady(w) ==
  /\ w.wasm = "loading" <=> w.waiting # <<>>
  /\ w.waiting # <<>> => w.url
  /\ w.engine # 0 => w.wasm = "ready"
  /\ \A e \in Items(w.waiting) : e.type = "load"

\* What the envelope e says is of a call that m has made, and the answer of no other.
Answers(m, e) ==
  /\ e.instance <= m.instance
  /\ e.instance = m.instance =>
       /\ e.sequence <= m.sequence
       /\ \A p \in m.pending : p.sequence = e.sequence => p.call = e.call

\* The epoch of a command is that of one load, and was ended by a stop or not.
InEpoch(m, e) ==
  /\ e.epoch <= m.epoch
  /\ e.epoch = m.epoch =>
       /\ e.instance = m.instance
       /\ e.type \in {"bootstrap", "load"} => ~m.halted
       /\ e.type = "stop" => m.halted

\* An event of the current epoch is of the current stream.
OfStream(m, e) ==
  e.instance = m.instance /\ e.epoch = m.epoch /\ e.event # "stopped"
    => e.stream = m.instance /\ ~m.halted

\* The commands that wait, and what was answered.
SoundDown(m, w, e) ==
  /\ e.type # "event" => Answers(m, e)
  /\ e.type \in Runtime!Commands => InEpoch(m, e)
  /\ e.type = "stop" => e.epoch <= w.epoch
  /\ e.type = "event" => e.epoch <= m.epoch
Sound(m) ==
  /\ \A p \in m.pending : p.sequence <= m.sequence
  /\ \A e \in Items(up) \cup Items(worker.waiting) : Answers(m, e) /\ InEpoch(m, e)
  /\ \A e \in Items(down) : SoundDown(m, worker, e)

\* Epochs reach the worker in order.
Ordered(m) ==
  /\ worker.epoch <= m.epoch
  /\ \A i \in 1..Len(up) : worker.epoch <= up[i].epoch
  /\ \A i, j \in 1..Len(up) : i < j => up[i].epoch <= up[j].epoch

\* Without a late stop.
Timely(m, w) ==
  /\ w.waiting # <<>> => w.waiting[Len(w.waiting)].epoch = w.epoch
  /\ w.engine # 0 /\ w.epoch = m.epoch => w.engine = m.instance /\ ~m.halted
  /\ m.quiet => m.halted /\ w.engine = 0 /\ w.waiting = <<>>

OnTime(m) ==
  /\ Timely(m, worker)
  /\ \A e \in Items(down) : e.type = "event" => OfStream(m, e)
  /\ m.quiet => \A e \in Items(up) : e.type # "load"

Kept(m) == RTyped(m) /\ Steady(worker) /\ Sound(m) /\ Ordered(m) /\ (~late => OnTime(m))

RInv == Kept(main)

-----------------------------------------------------------------------------

\* The instance's count of a set is the library's.
LEMMA SameCount == \A S : Runtime!Cardinality(S) = Cardinality(S)
BY DEF Runtime!Cardinality, Cardinality

LEMMA ItemsAppend ==
  ASSUME NEW S, NEW s \in Seq(S), NEW e \in S
  PROVE  /\ Append(s, e) \in Seq(S) /\ Items(Append(s, e)) = Items(s) \cup {e}
         /\ Len(Append(s, e)) = Len(s) + 1 /\ Append(s, e)[Len(s) + 1] = e
         /\ \A i \in 1..Len(s) : Append(s, e)[i] = s[i]
<1>1. /\ Append(s, e) \in Seq(S) /\ Len(Append(s, e)) = Len(s) + 1 /\ Append(s, e)[Len(s) + 1] = e
      /\ \A i \in 1..Len(s) : Append(s, e)[i] = s[i]
  OBVIOUS
<1>2. Items(Append(s, e)) = Items(s) \cup {e}
  BY <1>1 DEF Items
<1> QED
  BY <1>1, <1>2

LEMMA ItemsTail ==
  ASSUME NEW S, NEW s \in Seq(S), s # <<>>
  PROVE  /\ Head(s) \in S /\ Tail(s) \in Seq(S)
         /\ Head(s) \in Items(s) /\ Items(Tail(s)) \subseteq Items(s)
         /\ Head(s) = s[1] /\ Len(s) >= 1 /\ Len(Tail(s)) = Len(s) - 1
         /\ \A i \in 1..Len(Tail(s)) : i + 1 \in 1..Len(s) /\ Tail(s)[i] = s[i + 1]
<1>1. /\ Head(s) \in S /\ Tail(s) \in Seq(S) /\ Head(s) = s[1] /\ Len(s) >= 1
      /\ Len(Tail(s)) = Len(s) - 1 /\ Len(s) \in Nat
      /\ \A i \in 1..Len(Tail(s)) : i + 1 \in 1..Len(s) /\ Tail(s)[i] = s[i + 1]
  OBVIOUS
<1>2. 1 \in 1..Len(s)
  BY <1>1
<1> QED
  BY <1>1, <1>2 DEF Items

LEMMA ItemsConcat ==
  ASSUME NEW S, NEW s \in Seq(S), NEW t \in Seq(S)
  PROVE  s \o t \in Seq(S) /\ Items(s \o t) \subseteq Items(s) \cup Items(t)
<1>1. s \o t \in Seq(S) /\ Len(s) \in Nat /\ Len(t) \in Nat /\ Len(s \o t) = Len(s) + Len(t)
  OBVIOUS
<1>2. ASSUME NEW i \in 1..Len(s \o t) PROVE (s \o t)[i] \in Items(s) \cup Items(t)
  <2>1. CASE i <= Len(s)
    <3>1. i \in 1..Len(s) /\ (s \o t)[i] = s[i]
      BY <1>1, <1>2, <2>1
    <3> QED
      BY <3>1 DEF Items
  <2>2. CASE i > Len(s)
    <3>1. i - Len(s) \in 1..Len(t) /\ (s \o t)[i] = t[i - Len(s)]
      BY <1>1, <1>2, <2>2
    <3> QED
      BY <3>1 DEF Items
  <2> QED
    BY <1>1, <2>1, <2>2
<1> QED
  BY <1>1, <1>2 DEF Items

LEMMA ItemsFew ==
  /\ Items(<<>>) = {}
  /\ \A e : Items(<<e>>) = {e}
  /\ \A e, f : Items(<<e, f>>) = {e, f}
BY DEF Items

LEMMA ItemsOf ==
  ASSUME NEW S, NEW n \in Nat, NEW f \in [1..n -> S]
  PROVE  f \in Seq(S) /\ Items(f) = {f[i] : i \in 1..n}
<1>1. f \in Seq(S) /\ Len(f) = n
  OBVIOUS
<1> QED
  BY <1>1 DEF Items

LEMMA ItemsTyped ==
  ASSUME NEW S, NEW s \in Seq(S) PROVE \A e \in Items(s) : e \in S
BY DEF Items

-----------------------------------------------------------------------------
(* The main thread *)

\* The numbers in the fields, and in what is under way.
LEMMA SequenceNumbers ==
  ASSUME Runtime!RuntimeAssumption, NEW m \in MainRecords, RTyped(m)
  PROVE  /\ m.epoch \in Nat /\ m.instance \in Nat /\ m.sequence \in Nat
         /\ worker.epoch \in Nat /\ worker.engine \in Nat
         /\ worker.waiting \in Seq(Envelopes)
         /\ \A e \in Items(up) \cup Items(worker.waiting) : e \in Envelopes
         /\ \A e \in Items(down) : e \in Envelopes \cup EventEnvelopes
         /\ \A e \in Items(up) \cup Items(worker.waiting) \cup Items(down) :
              e.instance \in Nat /\ e.epoch \in Nat /\ e.sequence \in Nat
         /\ \A p \in m.pending : p.sequence \in Nat
<1>1. /\ m.epoch \in Nat /\ m.instance \in Nat /\ m.sequence \in Nat
      /\ \A p \in m.pending : p.sequence \in Nat
  BY DEF MainRecords, Runtime!RuntimeAssumption
<1>2. worker.epoch \in Nat /\ worker.engine \in Nat /\ worker.waiting \in Seq(Envelopes)
  BY DEF RTyped, WorkerRecords, Runtime!RuntimeAssumption
<1>3. \A e \in Items(up) \cup Items(worker.waiting) : e \in Envelopes
  BY <1>2, ItemsTyped DEF RTyped
<1>4. \A e \in Items(down) : e \in Envelopes \cup EventEnvelopes
  BY ItemsTyped DEF RTyped
<1>5. \A e \in Envelopes \cup EventEnvelopes :
        e.instance \in Nat /\ e.epoch \in Nat /\ e.sequence \in Nat
  BY DEF Envelopes, EventEnvelopes, Runtime!RuntimeAssumption
<1> QED
  BY <1>1, <1>2, <1>3, <1>4, <1>5

LEMMA LaterEpoch ==
  ASSUME Runtime!RuntimeAssumption, RInv, NEW m \in MainRecords, m.epoch = m.instance + m.stops,
         m.epoch > main.epoch, m.instance >= main.instance, m.pending = {},
         m.instance = main.instance => m.sequence = main.sequence,
         m.quiet => m.halted /\ main.quiet
  PROVE  Kept(m)
<1>1. Fits({})
  BY FS_EmptySet DEF Fits, Runtime!RuntimeAssumption
<1>2. RTyped(m) /\ RTyped(main) /\ main \in MainRecords
  BY <1>1 DEF RInv, Kept, RTyped
<1>3. \A e : Answers(main, e) /\ e.instance \in Nat => Answers(m, e)
  BY <1>2, SequenceNumbers DEF Answers
<1>4. \A e : e.epoch \in Nat /\ e.epoch <= main.epoch => e.epoch <= m.epoch /\ e.epoch # m.epoch
  BY <1>2, SequenceNumbers
<1>5. Sound(m)
  BY <1>2, <1>3, <1>4, SequenceNumbers DEF RInv, Kept, Sound, SoundDown, InEpoch
<1>6. Ordered(m)
  BY <1>2, <1>4, SequenceNumbers DEF RInv, Kept, Ordered
<1>7. ASSUME ~late PROVE OnTime(m)
  <2>1. Timely(m, worker)
    BY <1>2, <1>4, <1>7, SequenceNumbers DEF RInv, Kept, OnTime, Timely, Ordered
  <2>2. \A e \in Items(down) : e.type = "event" => OfStream(m, e)
    BY <1>2, <1>4, SequenceNumbers DEF RInv, Kept, Sound, SoundDown, OfStream
  <2> QED
    BY <1>7, <2>1, <2>2 DEF RInv, Kept, OnTime
<1> QED
  BY <1>2, <1>5, <1>6, <1>7 DEF RInv, Kept

LEMMA FewerFit ==
  ASSUME Runtime!RuntimeAssumption, NEW P, Fits(P), NEW Q, Q \subseteq P
  PROVE  Fits(Q)
<1>1. IsFiniteSet(Q) /\ Cardinality(Q) <= Cardinality(P)
  BY FS_Subset DEF Fits
<1>2. Cardinality(Q) \in Nat /\ Cardinality(P) \in Nat
  BY <1>1, FS_CardinalityType DEF Fits
<1> QED
  BY <1>1, <1>2 DEF Fits, Runtime!RuntimeAssumption

LEMMA OneMoreFits ==
  ASSUME Runtime!RuntimeAssumption, NEW P, Fits(P), ~(Cardinality(P) >= RuntimePending), NEW p
  PROVE  Fits(P \cup {p})
<1>1. Cardinality(P) \in Nat
  BY FS_CardinalityType DEF Fits
<1>2. /\ IsFiniteSet(P \cup {p})
      /\ Cardinality(P \cup {p}) = IF p \in P THEN Cardinality(P) ELSE Cardinality(P) + 1
  BY FS_AddElement DEF Fits
<1> QED
  BY <1>1, <1>2 DEF Fits, Runtime!RuntimeAssumption

\* Fewer commands wait.
LEMMA FewerPending ==
  ASSUME Runtime!RuntimeAssumption, RInv, NEW m, NEW P, P \subseteq main.pending,
         m = [main EXCEPT !.pending = P]
  PROVE  Kept(m) /\ m \in MainRecords
<1>1. main \in MainRecords /\ RTyped(main)
  BY DEF RInv, Kept, RTyped
<1>2. /\ m \in MainRecords /\ m.pending = P /\ m.epoch = main.epoch /\ m.instance = main.instance
      /\ m.sequence = main.sequence /\ m.halted = main.halted /\ m.quiet = main.quiet
      /\ m.stops = main.stops /\ m.calls = main.calls
  BY <1>1 DEF MainRecords
<1>3. Fits(P)
  BY <1>1, FewerFit DEF RTyped
<1>4. RTyped(m)
  BY <1>1, <1>2, <1>3 DEF RTyped
<1>5. \A e : Answers(main, e) => Answers(m, e)
  BY <1>2 DEF Answers
<1>6. Sound(m)
  BY <1>2, <1>5 DEF RInv, Kept, Sound, SoundDown, InEpoch
<1>7. Ordered(m)
  BY <1>2 DEF RInv, Kept, Ordered
<1>8. ~late => OnTime(m)
  BY <1>2 DEF RInv, Kept, OnTime, Timely, OfStream
<1> QED
  BY <1>2, <1>4, <1>6, <1>7, <1>8 DEF RInv, Kept

\* The main thread handles what has come down, or does not; m are its fields.
LEMMA DownShrinks ==
  ASSUME Runtime!RuntimeAssumption, NEW m, Kept(m), main' = m, UNCHANGED <<worker, up, late>>,
         down' \in Seq(Envelopes \cup EventEnvelopes), Items(down') \subseteq Items(down)
  PROVE  RInv'
<1>1. RTyped(main)'
  BY DEF Kept, RTyped
<1>2. Sound(main)'
  BY DEF Kept, Sound, SoundDown
<1>3. (Ordered(main) /\ Steady(worker))'
  BY DEF Kept, Ordered, Steady
<1>4. ~late' => OnTime(main)'
  BY DEF Kept, OnTime
<1> QED
  BY <1>1, <1>2, <1>3, <1>4 DEF RInv, Kept

\* An envelope of m with the next sequence number goes up; the command that waits
\* for its answer, if any, is in P.
LEMMA GoesUp ==
  ASSUME Runtime!RuntimeAssumption, NEW m \in MainRecords, Kept(m),
         NEW type \in Runtime!Commands \cup Runtime!Controls,
         type \in {"bootstrap", "load"} => ~m.halted, type = "stop" => m.halted,
         type = "load" /\ ~late => ~m.quiet,
         NEW P, Fits(m.pending \cup P),
             P \subseteq {[sequence |-> m.sequence + 1, type |-> type, call |-> m.calls + 1]},
         P # {} => type \in Runtime!Commands,
         main' = [m EXCEPT !.sequence = @ + 1, !.calls = @ + 1, !.created = TRUE,
                           !.pending = @ \cup P],
         up' = Append(up, Runtime!Envelope(main', type, main'.calls)), UNCHANGED <<worker, late>>,
         down' \in Seq(Envelopes \cup EventEnvelopes), Items(down') \subseteq Items(down)
  PROVE  RInv'
<1> DEFINE e == Runtime!Envelope(main', type, main'.calls)
<1>1. RTyped(m)
  BY DEF Kept
<1>2. /\ main' \in MainRecords /\ main'.epoch = m.epoch /\ main'.instance = m.instance
      /\ main'.sequence = m.sequence + 1 /\ main'.halted = m.halted /\ main'.quiet = m.quiet
      /\ main'.stops = m.stops /\ main'.calls = m.calls + 1 /\ main'.pending = m.pending \cup P
  <2>1. m.sequence + 1 \in Nat /\ m.calls + 1 \in Nat
    BY DEF MainRecords
  <2>2. P \subseteq [sequence : Nat, type : Runtime!Commands, call : Nat]
    BY <2>1
  <2>3. m.pending \cup P \in SUBSET [sequence : Nat, type : Runtime!Commands, call : Nat]
    BY <2>2 DEF MainRecords
  <2> QED
    BY <2>1, <2>3 DEF MainRecords
<1>3. /\ e.instance = m.instance /\ e.epoch = m.epoch /\ e.sequence = m.sequence + 1
      /\ e.type = type /\ e.call = m.calls + 1 /\ e \in Envelopes
  BY <1>2 DEF Runtime!Envelope, MainRecords, Envelopes
<1>4. up \in Seq(Envelopes) /\ up' = Append(up, e)
  BY <1>1 DEF RTyped
<1> HIDE DEF e
<1>5. /\ up' \in Seq(Envelopes) /\ Items(up') = Items(up) \cup {e}
      /\ Len(up') = Len(up) + 1 /\ up'[Len(up) + 1] = e /\ \A i \in 1..Len(up) : up'[i] = up[i]
  BY <1>3, <1>4, ItemsAppend
<1>6. RTyped(main)'
  BY <1>1, <1>2, <1>3, <1>5 DEF RTyped, Runtime!Commands, Runtime!Controls
<1>7. \A f : f.sequence \in Nat /\ f.instance \in Nat /\ Answers(m, f) => Answers(main', f)
  BY <1>1, <1>2, SequenceNumbers DEF Answers
<1>8. Answers(main', e) /\ InEpoch(main', e)
  <2>1. \A p \in m.pending : p.sequence <= m.sequence
    BY DEF Kept, Sound
  <2> QED
    BY <1>1, <1>2, <1>3, <2>1, SequenceNumbers DEF Answers, InEpoch
<1>9. Sound(main)'
  <2>1. \A f : InEpoch(m, f) => InEpoch(main', f)
    BY <1>2 DEF InEpoch
  <2>2. \A f \in Items(up') \cup Items(worker'.waiting) : Answers(main', f) /\ InEpoch(main', f)
    BY <1>1, <1>5, <1>7, <1>8, <2>1, SequenceNumbers DEF Kept, Sound
  <2>3. \A f \in Items(down') : SoundDown(main', worker', f)
    BY <1>1, <1>2, <1>7, <2>1, SequenceNumbers DEF Kept, Sound, SoundDown
  <2>4. \A p \in main'.pending : p.sequence <= main'.sequence
    BY <1>1, <1>2, SequenceNumbers DEF Kept, Sound
  <2> QED
    BY <2>2, <2>3, <2>4 DEF Sound
<1>10. Ordered(main)'
  <2>1. \A i \in 1..Len(up) : up[i].epoch <= m.epoch
    BY DEF Kept, Sound, InEpoch, Items
  <2>2. Len(up) \in Nat
    BY <1>4
  <2>3. \A i \in 1..Len(up') : i \in 1..Len(up) \/ i = Len(up) + 1
    BY <1>5, <2>2
  <2>4. \A i \in 1..Len(up') : worker'.epoch <= up'[i].epoch
    BY <1>3, <1>5, <2>3 DEF Kept, Ordered
  <2>5. \A i, j \in 1..Len(up') : i < j => up'[i].epoch <= up'[j].epoch
    <3> TAKE i, j \in 1..Len(up')
    <3>1. CASE i \in 1..Len(up) /\ j \in 1..Len(up)
      BY <1>5, <3>1 DEF Kept, Ordered
    <3>2. CASE i \in 1..Len(up) /\ j = Len(up) + 1
      BY <1>3, <1>5, <2>1, <3>2
    <3>3. CASE i = Len(up) + 1
      BY <1>5, <2>2, <3>3
    <3> QED
      BY <2>3, <3>1, <3>2, <3>3
  <2> QED
    BY <1>2, <2>4, <2>5 DEF Kept, Ordered
<1>11. ~late' => OnTime(main)'
  BY <1>2, <1>3, <1>5 DEF Kept, OnTime, Timely, OfStream
<1> QED
  BY <1>6, <1>9, <1>10, <1>11 DEF RInv, Kept, Steady

LEMMA PostKeeps ==
  ASSUME Runtime!RuntimeAssumption, NEW m \in MainRecords, Kept(m), NEW type \in Runtime!Commands,
         type \in {"bootstrap", "load"} => ~m.halted, type = "stop" => m.halted,
         type = "load" /\ ~late => ~m.quiet, Runtime!Post(m, type), UNCHANGED <<worker, late>>,
         down' \in Seq(Envelopes \cup EventEnvelopes), Items(down') \subseteq Items(down)
  PROVE  RInv'
<1>1. CASE Cardinality(m.pending) >= RuntimePending
  BY <1>1, DownShrinks, SameCount DEF Runtime!Post
<1>2. CASE ~(Cardinality(m.pending) >= RuntimePending)
  <2> DEFINE p == [sequence |-> m.sequence + 1, type |-> type, call |-> m.calls + 1]
  <2>1. Fits(m.pending \cup {p})
    BY <1>2, OneMoreFits DEF Kept, RTyped
  <2>2. /\ main' = [m EXCEPT !.sequence = @ + 1, !.calls = @ + 1, !.created = TRUE,
                             !.pending = @ \cup {p}]
        /\ up' = Append(up, Runtime!Envelope(main', type, main'.calls))
    BY <1>2, SameCount DEF Runtime!Post, Runtime!Posted
  <2>3. type \in Runtime!Commands \cup Runtime!Controls
    OBVIOUS
  <2> QED
    BY <2>1, <2>2, <2>3, GoesUp
<1> QED
  BY <1>1, <1>2

LEMMA EmptyTyped == <<>> \in Seq(Envelopes)
OBVIOUS

LEMMA DownTyped == RInv => /\ down \in Seq(Envelopes \cup EventEnvelopes) /\ main \in MainRecords
                           /\ RTyped(main)
BY DEF RInv, Kept, RTyped

LEMMA LoadStep == ASSUME Runtime!RuntimeAssumption, RInv, Runtime!Load PROVE RInv'
<1> DEFINE m == [main EXCEPT !.instance = @ + 1, !.epoch = @ + 1, !.sequence = 0,
                             !.pending = {}, !.halted = FALSE, !.quiet = FALSE]
<1>1. main \in MainRecords /\ main.instance < MaxLoads /\ main.epoch = main.instance + main.stops
  BY DEF Runtime!Load, RInv, Kept, RTyped
<1>2. main.instance \in Nat /\ main.epoch \in Nat /\ main.stops \in Nat
  BY <1>1 DEF MainRecords, Runtime!RuntimeAssumption
<1>3. main.instance + 1 \in 0..MaxLoads /\ main.epoch + 1 \in Nat
  BY <1>1, <1>2 DEF Runtime!RuntimeAssumption
<1>4. /\ m \in MainRecords /\ m.epoch = main.epoch + 1 /\ m.instance = main.instance + 1
      /\ m.stops = main.stops /\ m.pending = {} /\ ~m.quiet /\ ~m.halted
  BY <1>1, <1>3 DEF MainRecords
<1>5. Runtime!Post(m, "bootstrap") /\ UNCHANGED <<worker, late, down>>
  BY DEF Runtime!Load
<1> HIDE DEF m
<1>6. Kept(m)
  BY <1>1, <1>2, <1>4, LaterEpoch
<1> QED
  BY <1>4, <1>5, <1>6, PostKeeps, DownTyped DEF Runtime!Commands

LEMMA RequestStep == ASSUME Runtime!RuntimeAssumption, RInv, Runtime!Request PROVE RInv'
<1>1. Runtime!Post(main, "seek") /\ UNCHANGED <<worker, late, down>>
  BY DEF Runtime!Request
<1> QED
  BY <1>1, PostKeeps, DownTyped DEF Runtime!Commands, RInv

LEMMA SendControlStep == ASSUME Runtime!RuntimeAssumption, RInv, Runtime!SendControl PROVE RInv'
<1>1. /\ main' = [main EXCEPT !.sequence = @ + 1, !.calls = @ + 1, !.created = TRUE]
      /\ up' = Append(up, Runtime!Envelope(main', "play", main'.calls))
      /\ UNCHANGED <<worker, late, down>>
  BY DEF Runtime!SendControl
<1>2. main' = [main EXCEPT !.sequence = @ + 1, !.calls = @ + 1, !.created = TRUE,
                           !.pending = @ \cup {}]
  BY <1>1, DownTyped DEF MainRecords
<1>3. Fits(main.pending \cup {})
  BY DownTyped DEF RTyped
<1> QED
  BY <1>1, <1>2, <1>3, GoesUp, DownTyped DEF Runtime!Controls, RInv

LEMMA StopStep == ASSUME Runtime!RuntimeAssumption, RInv, Runtime!Stop PROVE RInv'
<1> DEFINE m == [main EXCEPT !.epoch = @ + 1, !.stops = @ + 1, !.pending = {}, !.halted = TRUE]
<1>1. main \in MainRecords /\ main.stops < MaxStops /\ main.epoch = main.instance + main.stops
  BY DEF Runtime!Stop, RInv, Kept, RTyped
<1>2. main.instance \in Nat /\ main.epoch \in Nat /\ main.stops \in Nat
  BY <1>1 DEF MainRecords, Runtime!RuntimeAssumption
<1>3. main.stops + 1 \in 0..MaxStops /\ main.epoch + 1 \in Nat
  BY <1>1, <1>2 DEF Runtime!RuntimeAssumption
<1>4. /\ m \in MainRecords /\ m.epoch = main.epoch + 1 /\ m.instance = main.instance
      /\ m.stops = main.stops + 1 /\ m.pending = {} /\ m.halted /\ m.quiet = main.quiet
      /\ m.sequence = main.sequence
  BY <1>1, <1>3 DEF MainRecords
<1>5. /\ Runtime!Post(m, "stop") \/ (main' = m /\ up' = up)
      /\ UNCHANGED <<worker, late, down>>
  BY DEF Runtime!Stop
<1> HIDE DEF m
<1>6. Kept(m)
  BY <1>1, <1>2, <1>4, LaterEpoch
<1>7. CASE Runtime!Post(m, "stop")
  BY <1>4, <1>5, <1>6, <1>7, PostKeeps, DownTyped DEF Runtime!Commands
<1>8. CASE main' = m /\ up' = up
  BY <1>5, <1>6, <1>8, DownShrinks, DownTyped
<1> QED
  BY <1>5, <1>7, <1>8

LEMMA DestroyStep == ASSUME Runtime!RuntimeAssumption, RInv, Runtime!Destroy PROVE RInv'
<1>1. /\ main \in MainRecords /\ worker \in WorkerRecords
      /\ main.epoch = main.instance + main.stops /\ Ordered(main)
  BY DEF RInv, Kept, RTyped
<1>2. /\ main' \in MainRecords /\ main'.pending = {} /\ main'.epoch = main.epoch
      /\ main'.instance = main.instance /\ main'.stops = main.stops /\ main'.halted
  BY <1>1 DEF Runtime!Destroy, MainRecords
<1>3. /\ worker' \in WorkerRecords /\ worker'.wasm = "none" /\ worker'.waiting = <<>>
      /\ worker'.engine = 0 /\ worker'.epoch = worker.epoch
  <2>1. 0 \in 0..MaxLoads
    BY DEF Runtime!RuntimeAssumption
  <2>2. worker' = [worker EXCEPT !.wasm = "none", !.waiting = <<>>, !.engine = 0]
    BY DEF Runtime!Destroy
  <2> QED
    BY <1>1, <2>1, <2>2, EmptyTyped DEF WorkerRecords
<1>4. up' = <<>> /\ down' = <<>> /\ Items(<<>>) = {} /\ Len(<<>>) = 0
  BY ItemsFew DEF Runtime!Destroy
<1>5. Fits({})
  BY FS_EmptySet DEF Fits, Runtime!RuntimeAssumption
<1>6. RTyped(main)' /\ Steady(worker)' /\ Sound(main)'
  BY <1>1, <1>2, <1>3, <1>4, <1>5 DEF RTyped, Steady, Sound
<1>7. Ordered(main)' /\ OnTime(main)'
  BY <1>1, <1>2, <1>3, <1>4 DEF Ordered, OnTime, Timely
<1> QED
  BY <1>6, <1>7 DEF RInv, Kept

LEMMA RejectStep == ASSUME Runtime!RuntimeAssumption, RInv, Runtime!TimesOut
    \/ Runtime!WorkerError PROVE RInv'
<1>1. PICK P \in SUBSET main.pending : main' = [main EXCEPT !.pending = P]
  BY DEF Runtime!TimesOut, Runtime!WorkerError
<1>2. UNCHANGED <<worker, up, down, late>>
  BY DEF Runtime!TimesOut, Runtime!WorkerError
<1>3. Kept(main')
  BY <1>1, FewerPending
<1> QED
  BY <1>2, <1>3, DownShrinks, DownTyped

LEMMA HandleMessageStep == ASSUME Runtime!RuntimeAssumption, RInv, Runtime!HandleMessage PROVE RInv'
<1> DEFINE e == Head(down)
           rest == [main EXCEPT !.pending = @ \ Runtime!Matching(e)]
<1>1. /\ down # <<>> /\ down' = Tail(down) /\ UNCHANGED <<worker, failures, late>>
  BY DEF Runtime!HandleMessage
<1>2. /\ e \in Envelopes \cup EventEnvelopes /\ e \in Items(down)
      /\ down' \in Seq(Envelopes \cup EventEnvelopes) /\ Items(down') \subseteq Items(down)
  BY <1>1, ItemsTail, DownTyped
<1>3. Kept(rest) /\ rest \in MainRecords
  BY FewerPending
<1>4. /\ rest.halted = main.halted /\ rest.quiet = main.quiet /\ rest.epoch = main.epoch
      /\ rest.instance = main.instance
  BY DownTyped DEF MainRecords
<1>5. SoundDown(main, worker, e)
  BY <1>2 DEF RInv, Kept, Sound
<1>6. \/ UNCHANGED <<main, up>>
      \/ Runtime!Current(e) /\ e.type = "error" /\ main' = rest /\ up' = up
      \/ Runtime!Current(e) /\ e.type = "bootstrap" /\ Runtime!Post(rest, "load")
      \/ /\ Runtime!Current(e) /\ e.type \notin {"event", "error", "bootstrap"}
         /\ main' = [rest EXCEPT !.quiet = @ \/ e.type = "stop"] /\ up' = up
  BY DEF Runtime!HandleMessage
<1> HIDE DEF e, rest
<1>7. CASE UNCHANGED <<main, up>>
  BY <1>1, <1>2, <1>7, DownShrinks DEF RInv
<1>8. CASE Runtime!Current(e) /\ e.type = "error" /\ main' = rest /\ up' = up
  BY <1>1, <1>2, <1>3, <1>8, DownShrinks
<1>9. CASE Runtime!Current(e) /\ e.type = "bootstrap" /\ Runtime!Post(rest, "load")
  <2>1. ~main.halted
    BY <1>5, <1>9 DEF SoundDown, InEpoch, Runtime!Current, Runtime!Commands
  <2>2. ~late => ~rest.quiet
    BY <1>3, <1>4, <2>1 DEF Kept, OnTime, Timely
  <2> QED
    BY <1>1, <1>2, <1>3, <1>4, <1>9, <2>1, <2>2, PostKeeps DEF Runtime!Commands
<1>10. CASE /\ Runtime!Current(e) /\ e.type \notin {"event", "error", "bootstrap"}
            /\ main' = [rest EXCEPT !.quiet = @ \/ e.type = "stop"] /\ up' = up
  <2> DEFINE m == [rest EXCEPT !.quiet = @ \/ e.type = "stop"]
  <2>1. CASE e.type # "stop"
    <3>1. m = rest
      BY <1>3, <2>1 DEF MainRecords
    <3> QED
      BY <1>1, <1>2, <1>3, <1>10, <3>1, DownShrinks
  <2>2. CASE e.type = "stop"
    <3>1. /\ m \in MainRecords /\ m.quiet /\ m.epoch = rest.epoch /\ m.instance = rest.instance
          /\ m.stops = rest.stops /\ m.halted = rest.halted /\ m.sequence = rest.sequence
          /\ m.pending = rest.pending
      BY <1>3, <2>2 DEF MainRecords
    <3>2. worker.epoch = rest.epoch /\ rest.halted /\ RTyped(rest)
      BY <1>3, <1>4, <1>5, <1>10, <2>2, SequenceNumbers
         DEF SoundDown, InEpoch, Runtime!Current, Runtime!Commands, Kept, Ordered
    <3> HIDE DEF m
    <3>3. \A f \in Items(up) : f.type # "load"
      <4>1. \A f \in Items(up) : worker.epoch <= f.epoch
        BY DEF RInv, Kept, Ordered, Items
      <4> QED
        BY <1>3, <3>2, <4>1, SequenceNumbers DEF Kept, Sound, InEpoch
    <3>4. ASSUME ~late, worker.waiting # <<>> PROVE FALSE
      <4> DEFINE f == worker.waiting[Len(worker.waiting)]
      <4>1. f \in Items(worker.waiting)
        <5>1. Len(worker.waiting) \in 1..Len(worker.waiting)
          BY <3>2, <3>4, SequenceNumbers, <1>3
        <5> QED
          BY <5>1 DEF Items
      <4>2. f.epoch = worker.epoch /\ f.type = "load"
        BY <1>3, <3>4, <4>1 DEF Kept, OnTime, Timely, Steady
      <4> HIDE DEF f
      <4>3. InEpoch(rest, f)
        BY <1>3, <4>1 DEF Kept, Sound
      <4> QED
        BY <3>2, <4>2, <4>3 DEF InEpoch
    <3>5. ~late => OnTime(m)
      BY <1>3, <3>1, <3>2, <3>3, <3>4 DEF Kept, OnTime, Timely, OfStream
    <3>6. RTyped(m) /\ Sound(m) /\ Ordered(m)
      BY <1>3, <3>1 DEF Kept, RTyped, Sound, SoundDown, Answers, InEpoch, Ordered
    <3>7. Kept(m)
      BY <1>3, <3>5, <3>6 DEF Kept
    <3> QED
      BY <1>1, <1>2, <1>10, <3>7, DownShrinks DEF m
  <2> QED
    BY <2>1, <2>2
<1> QED
  BY <1>6, <1>7, <1>8, <1>9, <1>10

-----------------------------------------------------------------------------
(* The worker *)

\* The worker answers es; what is left above comes after its epoch.
LEMMA WorkerMoves ==
  ASSUME Runtime!RuntimeAssumption, RInv, main' = main,
         worker' \in WorkerRecords, Steady(worker'), worker'.epoch >= worker.epoch,
         worker'.epoch <= main.epoch,
         Items(worker'.waiting) \subseteq Items(worker.waiting) \cup Items(up),
         up' \in Seq(Envelopes), Items(up') \subseteq Items(up),
         \A i \in 1..Len(up') : worker'.epoch <= up'[i].epoch,
         \A i, j \in 1..Len(up') : i < j => up'[i].epoch <= up'[j].epoch,
         NEW es \in Seq(Envelopes \cup EventEnvelopes), down' = down \o es,
         \A e \in Items(es) : SoundDown(main, worker', e),
         late => late',
         ~late' => /\ Timely(main, worker')
                   /\ \A e \in Items(es) : e.type = "event" => OfStream(main, e)
  PROVE  RInv'
<1>1. RTyped(main) /\ main \in MainRecords
  BY DEF RInv, Kept, RTyped
<1>2. /\ down' \in Seq(Envelopes \cup EventEnvelopes)
      /\ Items(down') \subseteq Items(down) \cup Items(es)
  BY <1>1, ItemsConcat DEF RTyped
<1>3. RTyped(main)'
  BY <1>1, <1>2 DEF RTyped
<1>4. Sound(main)'
  <2>1. ASSUME NEW e \in Items(down) PROVE SoundDown(main, worker', e)
    <3>1. SoundDown(main, worker, e) /\ e.epoch \in Nat
      BY <1>1, SequenceNumbers DEF RInv, Kept, Sound
    <3>2. worker.epoch \in Nat /\ worker'.epoch \in Nat
      BY <1>1, SequenceNumbers DEF WorkerRecords
    <3> QED
      BY <3>1, <3>2 DEF SoundDown
  <2>2. \A e \in Items(down') : SoundDown(main', worker', e)
    BY <1>2, <2>1
  <2> QED
    BY <2>2 DEF RInv, Kept, Sound
<1>5. Ordered(main)'
  BY DEF Ordered
<1>6. ~late' => OnTime(main)'
  <2>1. ASSUME ~late' PROVE \A e \in Items(down') : e.type = "event" => OfStream(main, e)
    BY <1>2, <2>1 DEF RInv, Kept, OnTime
  <2> QED
    BY <2>1 DEF RInv, Kept, OnTime
<1> QED
  BY <1>3, <1>4, <1>5, <1>6 DEF RInv, Kept

\* The envelope that the worker handles, and those that wait behind it.
LEMMA HeadUp ==
  ASSUME Runtime!RuntimeAssumption, RInv, up # <<>>, up' = Tail(up), NEW e, e = Head(up)
  PROVE  /\ e \in Envelopes /\ e \in Items(up) /\ e.type # "error"
         /\ up' \in Seq(Envelopes) /\ Items(up') \subseteq Items(up)
         /\ Answers(main, e) /\ InEpoch(main, e)
         /\ worker.epoch <= e.epoch /\ e.epoch <= main.epoch
         /\ \A i \in 1..Len(up') : e.epoch <= up'[i].epoch /\ worker.epoch <= up'[i].epoch
         /\ \A i, j \in 1..Len(up') : i < j => up'[i].epoch <= up'[j].epoch
         /\ e.epoch \in Nat /\ e.sequence \in Nat /\ e.call \in Nat /\ e.instance \in 0..MaxLoads
<1>1. up \in Seq(Envelopes) /\ RTyped(main) /\ main \in MainRecords
  BY DEF RInv, Kept, RTyped
<1>2. /\ e \in Envelopes /\ e \in Items(up) /\ e = up[1] /\ Len(up) >= 1
      /\ up' \in Seq(Envelopes) /\ Items(up') \subseteq Items(up)
      /\ Len(up') = Len(up) - 1
      /\ \A i \in 1..Len(up') : i + 1 \in 1..Len(up) /\ up'[i] = up[i + 1]
  BY <1>1, ItemsTail
<1>3. e.type # "error" /\ Answers(main, e) /\ InEpoch(main, e) /\ e.epoch <= main.epoch
  BY <1>2 DEF RInv, Kept, RTyped, Sound, InEpoch
<1>4. Len(up) \in Nat /\ 1 \in 1..Len(up)
  BY <1>1, <1>2
<1>5. worker.epoch <= e.epoch
  BY <1>2, <1>4 DEF RInv, Kept, Ordered
<1>6. \A i \in 1..Len(up') : e.epoch <= up'[i].epoch /\ worker.epoch <= up'[i].epoch
  <2> TAKE i \in 1..Len(up')
  <2>1. i + 1 \in 1..Len(up) /\ up'[i] = up[i + 1] /\ 1 < i + 1
    BY <1>2, <1>4
  <2> QED
    BY <1>2, <1>4, <2>1 DEF RInv, Kept, Ordered
<1>7. \A i, j \in 1..Len(up') : i < j => up'[i].epoch <= up'[j].epoch
  <2> TAKE i, j \in 1..Len(up')
  <2>1. /\ i + 1 \in 1..Len(up) /\ up'[i] = up[i + 1] /\ j + 1 \in 1..Len(up)
        /\ up'[j] = up[j + 1] /\ (i < j => i + 1 < j + 1)
    BY <1>2, <1>4
  <2> QED
    BY <2>1 DEF RInv, Kept, Ordered
<1> QED
  BY <1>2, <1>3, <1>5, <1>6, <1>7 DEF Envelopes

LEMMA EventOf ==
  ASSUME NEW w \in WorkerRecords, NEW e, e.instance \in 0..MaxLoads,
         NEW what \in {"loaded", "playing", "seeking", "stopped"}, NEW x,
             x = Runtime!Event(w, e, what)
  PROVE  /\ x \in Envelopes \cup EventEnvelopes /\ x.type = "event" /\ x.event = what
         /\ x.instance = e.instance /\ x.epoch = w.epoch /\ x.stream = w.engine
<1>1. w.epoch \in Nat /\ w.engine \in 0..MaxLoads
  BY DEF WorkerRecords
<1> QED
  BY <1>1 DEF Runtime!Event, EventEnvelopes

LEMMA ErrorOf ==
  ASSUME NEW w \in WorkerRecords, NEW e \in Envelopes, NEW x, x = Runtime!Error(w, e)
  PROVE  /\ x \in Envelopes \cup EventEnvelopes /\ x.type = "error"
         /\ x.instance = e.instance /\ x.sequence = e.sequence /\ x.call = e.call
<1>1. w.epoch \in Nat
  BY DEF WorkerRecords
<1> QED
  BY <1>1 DEF Runtime!Error, Envelopes

\* What the worker may say of the command e, when its fields are w by then.
LEMMA Says ==
  ASSUME Runtime!RuntimeAssumption, RInv, NEW w \in WorkerRecords, NEW e \in Envelopes,
         Answers(main, e), w.epoch <= main.epoch
  PROVE  /\ SoundDown(main, w, Runtime!Error(w, e)) /\ Runtime!Error(w, e).type # "event"
         /\ \A what \in {"loaded", "playing", "seeking", "stopped"} :
              SoundDown(main, w, Runtime!Event(w, e, what))
         /\ InEpoch(main, e) /\ (e.type = "stop" => e.epoch <= w.epoch) /\ e.type # "error" =>
              SoundDown(main, w, e) /\ e.type # "event"
<1>1. e.instance \in 0..MaxLoads /\ e.type # "event"
  BY DEF Envelopes, Runtime!Commands, Runtime!Controls
<1>2. SoundDown(main, w, Runtime!Error(w, e)) /\ Runtime!Error(w, e).type # "event"
  BY ErrorOf DEF SoundDown, Answers, Runtime!Commands
<1>3. ASSUME NEW what \in {"loaded", "playing", "seeking", "stopped"}
      PROVE  SoundDown(main, w, Runtime!Event(w, e, what))
  BY <1>1, EventOf DEF SoundDown, Runtime!Commands
<1> QED
  BY <1>1, <1>2, <1>3 DEF SoundDown

LEMMA OneTwo ==
  ASSUME NEW S
  PROVE  /\ <<>> \in Seq(S) /\ \A s \in Seq(S) : s \o <<>> = s
         /\ \A x \in S : <<x>> \in Seq(S)
         /\ \A x, y \in S : <<x, y>> \in Seq(S)
OBVIOUS

\* The worker handles the head of up, which tells the main thread es, and has the
\* same epoch and engine.
LEMMA Handled ==
  ASSUME Runtime!RuntimeAssumption, RInv, up # <<>>, up' = Tail(up), main' = main, late' = late,
         worker' \in WorkerRecords, Steady(worker'),
         worker'.epoch = worker.epoch, worker'.engine = worker.engine,
         worker'.waiting = worker.waiting,
         NEW es \in Seq(Envelopes \cup EventEnvelopes), down' = down \o es,
         \A e \in Items(es) : SoundDown(main, worker', e),
         \A e \in Items(es) : e.type = "event" =>
            worker.engine # 0 /\ e.stream = worker.engine /\ e.epoch = worker.epoch
  PROVE  RInv'
<1>1. ~late => Timely(main, worker) /\ Timely(main, worker')
  BY DEF RInv, Kept, OnTime, Timely
<1>2. ~late => \A e \in Items(es) : e.type = "event" => OfStream(main, e)
  BY <1>1 DEF OfStream, Timely
<1>3. worker.epoch \in Nat /\ worker.epoch <= main.epoch
  BY SequenceNumbers DEF RInv, Kept, Ordered, RTyped
<1>4. /\ up' \in Seq(Envelopes) /\ Items(up') \subseteq Items(up)
      /\ \A i \in 1..Len(up') : worker'.epoch <= up'[i].epoch
      /\ \A i, j \in 1..Len(up') : i < j => up'[i].epoch <= up'[j].epoch
  BY HeadUp
<1> QED
  BY <1>1, <1>2, <1>3, <1>4, WorkerMoves, SMTT(30)

LEMMA OnMessageStep == ASSUME Runtime!RuntimeAssumption, RInv, Runtime!OnMessage PROVE RInv'
<1> DEFINE e == Head(up)
<1>1. /\ up # <<>> /\ up' = Tail(up) /\ main' = main
      /\ \/ UNCHANGED <<worker, down, late>>
         \/ Runtime!HandleBootstrap(e) \/ Runtime!HandleLoad(e) \/ Runtime!HandleControl(e)
         \/ Runtime!HandleRequest(e) \/ Runtime!HandleStop(e)
  BY DEF Runtime!OnMessage
<1>2. /\ e \in Envelopes /\ e \in Items(up) /\ e.type # "error"
      /\ up' \in Seq(Envelopes) /\ Items(up') \subseteq Items(up)
      /\ Answers(main, e) /\ InEpoch(main, e)
      /\ worker.epoch <= e.epoch /\ e.epoch <= main.epoch
      /\ \A i \in 1..Len(up') : e.epoch <= up'[i].epoch /\ worker.epoch <= up'[i].epoch
      /\ \A i, j \in 1..Len(up') : i < j => up'[i].epoch <= up'[j].epoch
      /\ e.epoch \in Nat /\ e.sequence \in Nat /\ e.call \in Nat /\ e.instance \in 0..MaxLoads
  BY <1>1, HeadUp
<1> HIDE DEF e
<1>3. /\ worker \in WorkerRecords /\ Steady(worker) /\ RTyped(main) /\ worker.epoch <= main.epoch
      /\ main \in MainRecords
  BY DEF RInv, Kept, RTyped, Ordered
<1>4. /\ down \o <<>> = down /\ <<>> \in Seq(Envelopes \cup EventEnvelopes)
      /\ Items(<<>>) = {}
  BY <1>3, OneTwo, ItemsFew DEF RTyped
<1>5. CASE UNCHANGED <<worker, down, late>>
  BY <1>1, <1>3, <1>4, <1>5, Handled
<1>6. CASE Runtime!HandleBootstrap(e)
  <2>1. worker' \in WorkerRecords /\ Steady(worker') /\ worker'.epoch = worker.epoch
        /\ worker'.engine = worker.engine /\ worker'.waiting = worker.waiting
    BY <1>3, <1>6 DEF Runtime!HandleBootstrap, WorkerRecords, Steady
  <2>2. /\ down' = down \o <<e>> /\ <<e>> \in Seq(Envelopes \cup EventEnvelopes)
        /\ Items(<<e>>) = {e} /\ late' = late /\ e.type = "bootstrap"
    BY <1>2, <1>6, ItemsFew, OneTwo DEF Runtime!HandleBootstrap, Runtime!Say
  <2>3. SoundDown(main, worker', e)
    BY <1>2, <1>3, <2>1, <2>2, Says
  <2> QED
    BY <1>1, <2>1, <2>2, <2>3, Handled
<1>7. CASE Runtime!HandleControl(e)
  <2> DEFINE x == IF worker.engine = 0
        THEN Runtime!Error(worker, e) ELSE Runtime!Event(worker, e, "playing")
  <2>1. x \in Envelopes \cup EventEnvelopes /\ SoundDown(main, worker, x)
    BY <1>2, <1>3, EventOf, ErrorOf, Says
  <2>2. x.type = "event" => /\ worker.engine # 0 /\ x.stream = worker.engine
                            /\ x.epoch = worker.epoch
    BY <1>2, <1>3, EventOf, Says
  <2>3. down' = down \o <<x>> /\ late' = late /\ worker' = worker
    BY <1>7 DEF Runtime!HandleControl, Runtime!Say
  <2> HIDE DEF x
  <2>4. <<x>> \in Seq(Envelopes \cup EventEnvelopes) /\ Items(<<x>>) = {x}
    BY <2>1, ItemsFew, OneTwo
  <2> QED
    BY <1>1, <1>3, <2>1, <2>2, <2>3, <2>4, Handled
<1>8. CASE Runtime!HandleRequest(e)
  <2>1. late' = late /\ worker' = worker /\ e.type = "seek"
    BY <1>8 DEF Runtime!HandleRequest
  <2>2. CASE worker.engine = 0
    <3> DEFINE x == Runtime!Error(worker, e)
    <3>1. /\ x \in Envelopes \cup EventEnvelopes /\ SoundDown(main, worker, x)
          /\ x.type # "event"
      BY <1>2, <1>3, ErrorOf, Says
    <3>2. down' = down \o <<x>>
      BY <1>8, <2>2 DEF Runtime!HandleRequest, Runtime!Say
    <3> HIDE DEF x
    <3>3. <<x>> \in Seq(Envelopes \cup EventEnvelopes) /\ Items(<<x>>) = {x}
      BY <3>1, ItemsFew, OneTwo
    <3> QED
      BY <1>1, <1>3, <2>1, <3>1, <3>2, <3>3, Handled
  <2>3. CASE worker.engine # 0
    <3> DEFINE x == Runtime!Event(worker, e, "seeking")
    <3>1. /\ x \in Envelopes \cup EventEnvelopes /\ SoundDown(main, worker, x)
          /\ x.stream = worker.engine /\ x.epoch = worker.epoch
      BY <1>2, <1>3, EventOf, Says
    <3>2. down' = down \o <<x, e>>
      BY <1>8, <2>3 DEF Runtime!HandleRequest, Runtime!Say
    <3> HIDE DEF x
    <3>3. <<x, e>> \in Seq(Envelopes \cup EventEnvelopes) /\ Items(<<x, e>>) = {x, e}
      BY <1>2, <3>1, ItemsFew, OneTwo
    <3>4. SoundDown(main, worker, e)
      BY <1>2, <1>3, <2>1, Says
    <3> QED
      BY <1>1, <1>3, <2>1, <2>3, <3>1, <3>2, <3>3, <3>4, Handled
  <2> QED
    BY <2>2, <2>3
<1>9. CASE Runtime!HandleStop(e)
  <2> DEFINE w == [worker EXCEPT !.epoch = e.epoch]
             x == IF w.engine = 0 THEN Runtime!Error(w, e) ELSE Runtime!Event(w, e, "stopped")
             es == IF w.engine = 0 THEN <<x>> ELSE <<x, e>>
  <2>1. /\ e.type = "stop" /\ worker' = [w EXCEPT !.engine = 0]
        /\ down' = down \o es /\ late' = (late \/ worker.waiting # <<>>)
    BY <1>9 DEF Runtime!HandleStop, Runtime!Say
  <2>2. /\ w \in WorkerRecords /\ w.epoch = e.epoch /\ w.engine = worker.engine
        /\ w.waiting = worker.waiting /\ w.wasm = worker.wasm /\ w.url = worker.url
    BY <1>2, <1>3 DEF WorkerRecords
  <2> HIDE DEF w
  <2>3. 0 \in 0..MaxLoads
    BY DEF Runtime!RuntimeAssumption
  <2>4. /\ worker' \in WorkerRecords /\ worker'.epoch = e.epoch /\ worker'.engine = 0
        /\ worker'.waiting = worker.waiting /\ worker'.wasm = worker.wasm
        /\ worker'.url = worker.url
    BY <2>1, <2>2, <2>3 DEF WorkerRecords
  <2>5. /\ x \in Envelopes \cup EventEnvelopes /\ SoundDown(main, w, x)
        /\ x.type = "event" => x.event = "stopped"
    BY <1>2, <2>2, EventOf, ErrorOf, Says
  <2>6. SoundDown(main, w, e) /\ e.type # "event"
    BY <1>2, <2>2, Says
  <2> HIDE DEF x
  <2>7. es \in Seq(Envelopes \cup EventEnvelopes) /\ Items(es) \subseteq {x, e}
    BY <1>2, <2>5, ItemsFew, OneTwo
  <2> HIDE DEF es
  <2>8. \A f \in Items(es) : SoundDown(main, worker', f)
    BY <2>2, <2>4, <2>5, <2>6, <2>7 DEF SoundDown
  <2>9. \A f \in Items(es) : f.type = "event" => OfStream(main, f)
    BY <2>5, <2>6, <2>7 DEF OfStream
  <2>10. ~late' => Timely(main, worker')
    BY <1>3, <2>1, <2>4 DEF RInv, Kept, OnTime, Timely
  <2>11. Steady(worker')
    BY <1>3, <2>4 DEF Steady
  <2> QED
    BY <1>1, <1>2, <2>1, <2>4, <2>7, <2>8, <2>9, <2>10, <2>11, WorkerMoves
<1>10. CASE Runtime!HandleLoad(e)
  <2> DEFINE w == [worker EXCEPT !.epoch = e.epoch]
  <2>1. e.type = "load" /\ late' = late
    BY <1>10 DEF Runtime!HandleLoad
  <2>2. /\ w \in WorkerRecords /\ w.epoch = e.epoch /\ w.engine = worker.engine
        /\ w.waiting = worker.waiting /\ w.wasm = worker.wasm /\ w.url = worker.url
    BY <1>2, <1>3 DEF WorkerRecords
  <2>3. ~late => ~main.quiet
    BY <1>2, <2>1 DEF RInv, Kept, OnTime
  <2>4. e.epoch = main.epoch => e.instance = main.instance /\ ~main.halted
    BY <1>2, <2>1 DEF InEpoch
  <2>5. \/ w.wasm = "ready" /\ worker' = Runtime!LoadEngine(w, e)
             /\ Runtime!Say(Runtime!Loaded(w, e))
        \/ w.wasm # "ready" /\ ~w.url /\ worker' = w /\ Runtime!Say(<<Runtime!Error(w, e)>>)
        \/ /\ w.wasm # "ready" /\ w.url /\ down' = down
           /\ worker' = [w EXCEPT !.wasm = "loading", !.waiting = Append(@, e)]
    BY <1>10 DEF Runtime!HandleLoad
  <2> HIDE DEF w
  <2>6. CASE w.wasm = "ready" /\ worker' = Runtime!LoadEngine(w, e)
        /\ Runtime!Say(Runtime!Loaded(w, e))
    <3> DEFINE x == Runtime!Event(Runtime!LoadEngine(w, e), e, "loaded")
    <3>1. /\ worker' \in WorkerRecords /\ worker'.epoch = e.epoch /\ worker'.engine = e.instance
          /\ worker'.waiting = worker.waiting /\ worker'.wasm = "ready" /\ worker'.url = worker.url
      BY <1>2, <2>2, <2>6 DEF Runtime!LoadEngine, WorkerRecords
    <3>2. /\ x \in Envelopes \cup EventEnvelopes /\ SoundDown(main, worker', x)
          /\ x.stream = e.instance /\ x.instance = e.instance /\ x.epoch = e.epoch
      BY <1>2, <2>6, <3>1, EventOf, Says
    <3>3. SoundDown(main, worker', e) /\ e.type # "event"
      BY <1>2, <2>1, <3>1, Says
    <3>4. down' = down \o <<x, e>>
      BY <2>6 DEF Runtime!Say, Runtime!Loaded
    <3> HIDE DEF x
    <3>5. <<x, e>> \in Seq(Envelopes \cup EventEnvelopes) /\ Items(<<x, e>>) = {x, e}
      BY <1>2, <3>2, ItemsFew, OneTwo
    <3>6. OfStream(main, x)
      BY <2>4, <3>2 DEF OfStream
    <3>7. Steady(worker') /\ worker.waiting = <<>>
      BY <1>3, <2>2, <2>6, <3>1 DEF Steady
    <3>8. ~late => Timely(main, worker')
      BY <2>3, <2>4, <3>1, <3>7 DEF Timely
    <3> QED
      BY <1>1, <1>2, <2>1, <3>1, <3>2, <3>3, <3>4, <3>5, <3>6, <3>7, <3>8, WorkerMoves
  <2>7. CASE w.wasm # "ready" /\ ~w.url /\ worker' = w /\ Runtime!Say(<<Runtime!Error(w, e)>>)
    <3> DEFINE x == Runtime!Error(w, e)
    <3>1. /\ x \in Envelopes \cup EventEnvelopes /\ SoundDown(main, w, x) /\ x.type # "event"
      BY <1>2, <2>2, ErrorOf, Says
    <3>2. down' = down \o <<x>>
      BY <2>7 DEF Runtime!Say
    <3> HIDE DEF x
    <3>3. <<x>> \in Seq(Envelopes \cup EventEnvelopes) /\ Items(<<x>>) = {x}
      BY <3>1, ItemsFew, OneTwo
    <3>4. Steady(w) /\ w.waiting = <<>> /\ w.engine = 0
      BY <1>3, <2>2, <2>7 DEF Steady
    <3>5. ~late => Timely(main, w)
      BY <2>3, <3>4 DEF Timely
    <3> QED
      BY <1>1, <1>2, <2>1, <2>2, <2>7, <3>1, <3>2, <3>3, <3>4, <3>5, WorkerMoves
  <2>8. CASE /\ w.wasm # "ready" /\ w.url /\ down' = down
             /\ worker' = [w EXCEPT !.wasm = "loading", !.waiting = Append(@, e)]
    <3> DEFINE s == worker.waiting
    <3>1. /\ Append(s, e) \in Seq(Envelopes) /\ Items(Append(s, e)) = Items(s) \cup {e}
          /\ Append(s, e)[Len(Append(s, e))] = e /\ Append(s, e) # <<>>
      <4>1. s \in Seq(Envelopes)
        BY <1>3, SequenceNumbers
      <4>2. /\ Append(s, e) \in Seq(Envelopes) /\ Items(Append(s, e)) = Items(s) \cup {e}
            /\ Len(Append(s, e)) = Len(s) + 1 /\ Append(s, e)[Len(s) + 1] = e
        BY <1>2, <4>1, ItemsAppend
      <4>3. Len(s) \in Nat
        BY <4>1
      <4> QED
        BY <4>1, <4>2, <4>3
    <3>2. /\ worker' \in WorkerRecords /\ worker'.epoch = e.epoch /\ worker'.engine = worker.engine
          /\ worker'.waiting = Append(s, e) /\ worker'.wasm = "loading" /\ worker'.url
      BY <2>2, <2>8, <3>1 DEF WorkerRecords
    <3>3. worker.engine = 0
      BY <1>3, <2>2, <2>8 DEF Steady
    <3> HIDE DEF s
    <3>4. Steady(worker')
      BY <1>3, <2>1, <3>1, <3>2, <3>3 DEF Steady, s
    <3>5. ~late => Timely(main, worker')
      BY <2>3, <3>1, <3>2, <3>3 DEF Timely
    <3>6. Items(worker'.waiting) \subseteq Items(worker.waiting) \cup Items(up)
      BY <1>2, <3>1, <3>2 DEF s
    <3> QED
      BY <1>1, <1>2, <1>4, <2>1, <2>8, <3>2, <3>4, <3>5, <3>6, WorkerMoves
  <2> QED
    BY <2>5, <2>6, <2>7, <2>8
<1> QED
  BY <1>1, <1>5, <1>6, <1>7, <1>8, <1>9, <1>10

\* What the worker says while nothing goes up or comes in.
LEMMA UpStays ==
  ASSUME Runtime!RuntimeAssumption, RInv, up' = up, worker'.epoch = worker.epoch
  PROVE  /\ up' \in Seq(Envelopes) /\ Items(up') \subseteq Items(up)
         /\ \A i \in 1..Len(up') : worker'.epoch <= up'[i].epoch
         /\ \A i, j \in 1..Len(up') : i < j => up'[i].epoch <= up'[j].epoch
BY DEF RInv, Kept, RTyped, Ordered

\* The loads that wait for the module.
LEMMA Waiting ==
  ASSUME Runtime!RuntimeAssumption, RInv, worker.wasm = "loading"
  PROVE  /\ worker.waiting \in Seq(Envelopes) /\ Len(worker.waiting) \in Nat \ {0}
         /\ \A i \in 1..Len(worker.waiting) :
              LET e == worker.waiting[i]
              IN e \in Envelopes /\ e.type = "load" /\ Answers(main, e) /\ InEpoch(main, e)
         /\ ~late => /\ worker.waiting[Len(worker.waiting)].epoch = worker.epoch
                     /\ worker.epoch = main.epoch =>
                          worker.waiting[Len(worker.waiting)].instance = main.instance
                              /\ ~main.halted
                     /\ ~main.quiet
         /\ worker.epoch \in Nat /\ worker.epoch <= main.epoch
<1>1. RTyped(main) /\ main \in MainRecords /\ worker.waiting # <<>> /\ Steady(worker)
  BY DEF RInv, Kept, RTyped, Steady
<1>2. worker.waiting \in Seq(Envelopes) /\ worker.epoch \in Nat
  BY <1>1, SequenceNumbers
<1>3. Len(worker.waiting) \in Nat \ {0}
  BY <1>1, <1>2
<1>4. ASSUME NEW i \in 1..Len(worker.waiting), NEW e, e = worker.waiting[i]
      PROVE e \in Envelopes /\ e.type = "load" /\ Answers(main, e) /\ InEpoch(main, e)
  <2>1. e \in Items(worker.waiting)
    BY <1>4 DEF Items
  <2> QED
    BY <1>1, <2>1, SequenceNumbers DEF Steady, RInv, Kept, Sound
<1>5. Len(worker.waiting) \in 1..Len(worker.waiting)
  BY <1>3
<1>6. ~late => /\ worker.waiting[Len(worker.waiting)].epoch = worker.epoch
               /\ ~main.quiet
  BY <1>1 DEF RInv, Kept, OnTime, Timely
<1>7. ~late /\ worker.epoch = main.epoch =>
        worker.waiting[Len(worker.waiting)].instance = main.instance /\ ~main.halted
  BY <1>4, <1>5, <1>6 DEF InEpoch
<1> QED
  BY <1>2, <1>3, <1>4, <1>6, <1>7 DEF RInv, Kept, Ordered

LEMMA WasmReadyStep == ASSUME Runtime!RuntimeAssumption, RInv, Runtime!WasmReady PROVE RInv'
<1> DEFINE s == worker.waiting
           Said(n) == Runtime!Loaded(worker, s[(n + 1) \div 2])[2 - (n % 2)]
           es == [n \in 1..(2 * Len(s)) |-> Said(n)]
<1>1. /\ worker.wasm = "loading" /\ main' = main /\ up' = up /\ late' = late
      /\ worker' = [worker EXCEPT !.wasm = "ready", !.waiting = <<>>,
                                  !.engine = s[Len(s)].instance]
      /\ down' = down \o es
  BY DEF Runtime!WasmReady, Runtime!Say, Runtime!Last
<1>2. /\ s \in Seq(Envelopes) /\ Len(s) \in Nat \ {0}
      /\ \A i \in 1..Len(s) : /\ s[i] \in Envelopes /\ s[i].type = "load"
                              /\ Answers(main, s[i]) /\ InEpoch(main, s[i])
      /\ worker.epoch \in Nat /\ worker.epoch <= main.epoch
  BY <1>1, Waiting
<1>3. ~late => /\ s[Len(s)].epoch = worker.epoch /\ ~main.quiet
               /\ worker.epoch = main.epoch => s[Len(s)].instance = main.instance /\ ~main.halted
  BY <1>1, Waiting
<1>4. worker \in WorkerRecords
  BY DEF RInv, Kept, RTyped
<1>5. /\ worker' \in WorkerRecords /\ worker'.epoch = worker.epoch /\ worker'.wasm = "ready"
      /\ worker'.waiting = <<>> /\ worker'.engine = s[Len(s)].instance
  <2>1. Len(s) \in 1..Len(s)
    BY <1>2
  <2>2. s[Len(s)].instance \in 0..MaxLoads
    BY <1>2, <2>1 DEF Envelopes
  <2> HIDE DEF s
  <2> QED
    BY <1>1, <1>4, <2>2, EmptyTyped DEF WorkerRecords
<1>6. ASSUME NEW n \in 1..(2 * Len(s))
      PROVE  /\ Said(n) \in Envelopes \cup EventEnvelopes /\ SoundDown(main, worker', Said(n))
             /\ ~late => (Said(n).type = "event" => OfStream(main, Said(n)))
  <2> DEFINE i == (n + 1) \div 2
             e == s[i]
             x == Runtime!Event(Runtime!LoadEngine(worker, e), e, "loaded")
  <2>1. i \in 1..Len(s)
    BY <1>2
  <2>2. e \in Envelopes /\ e.type = "load" /\ Answers(main, e) /\ InEpoch(main, e)
    BY <1>2, <2>1
  <2>3. Said(n) = x \/ Said(n) = e
    <3>1. 2 - (n % 2) \in {1, 2}
      OBVIOUS
    <3>2. Said(n) = <<x, e>>[2 - (n % 2)]
      BY DEF Runtime!Loaded
    <3> HIDE DEF x, e
    <3> QED
      BY <3>1, <3>2
  <2> HIDE DEF i, e, Said
  <2>4. Runtime!LoadEngine(worker, e) \in WorkerRecords
        /\ Runtime!LoadEngine(worker, e).epoch = worker.epoch
        /\ Runtime!LoadEngine(worker, e).engine = e.instance
    BY <1>4, <2>2 DEF Runtime!LoadEngine, WorkerRecords, Envelopes
  <2>5. e.instance \in 0..MaxLoads /\ e.type # "event"
    BY <2>2 DEF Envelopes
  <2>6. /\ x \in Envelopes \cup EventEnvelopes /\ x.type = "event" /\ x.instance = e.instance
        /\ x.epoch = worker.epoch /\ x.stream = e.instance
    BY <2>4, <2>5, EventOf
  <2>7. SoundDown(main, worker', x) /\ SoundDown(main, worker', e)
    <3>1. SoundDown(main, Runtime!LoadEngine(worker, e), x)
          /\ SoundDown(main, Runtime!LoadEngine(worker, e), e)
      BY <1>2, <2>2, <2>4, Says
    <3> HIDE DEF x
    <3> QED
      BY <1>5, <2>4, <3>1 DEF SoundDown
  <2> HIDE DEF x
  <2>8. ~late => OfStream(main, x)
    BY <1>3, <2>6 DEF OfStream
  <2> QED
    BY <2>2, <2>3, <2>5, <2>6, <2>7, <2>8
<1> HIDE DEF Said
<1>7. /\ es \in Seq(Envelopes \cup EventEnvelopes)
      /\ \A f \in Items(es) : \E n \in 1..(2 * Len(s)) : f = Said(n)
  <2>1. 2 * Len(s) \in Nat
    BY <1>2
  <2>2. es \in [1..(2 * Len(s)) -> Envelopes \cup EventEnvelopes]
    BY <1>6
  <2>3. \A n \in 1..(2 * Len(s)) : es[n] = Said(n)
    OBVIOUS
  <2> HIDE DEF es
  <2>4. /\ es \in Seq(Envelopes \cup EventEnvelopes)
        /\ Items(es) = {es[n] : n \in 1..(2 * Len(s))}
    BY <2>1, <2>2, ItemsOf
  <2> QED
    BY <2>3, <2>4
<1> HIDE DEF s, es
<1>8. Steady(worker') /\ (~late => Timely(main, worker'))
  BY <1>3, <1>5, ItemsFew DEF Steady, Timely
<1>9. Items(worker'.waiting) \subseteq Items(worker.waiting) \cup Items(up)
  BY <1>5, ItemsFew
<1>10. worker'.epoch >= worker.epoch /\ worker'.epoch <= main.epoch
  BY <1>2, <1>5
<1> QED
  BY <1>1, <1>5, <1>6, <1>7, <1>8, <1>9, <1>10, UpStays, WorkerMoves

LEMMA WasmFailsStep == ASSUME Runtime!RuntimeAssumption, RInv, Runtime!WasmFails PROVE RInv'
<1> DEFINE s == worker.waiting
           es == [i \in DOMAIN s |-> Runtime!Error(worker, s[i])]
<1>1. /\ worker.wasm = "loading" /\ main' = main /\ up' = up /\ late' = late
      /\ worker' = [worker EXCEPT !.wasm = "none", !.waiting = <<>>]
      /\ down' = down \o es
  BY DEF Runtime!WasmFails, Runtime!Say
<1>2. /\ s \in Seq(Envelopes) /\ Len(s) \in Nat
      /\ \A i \in 1..Len(s) : s[i] \in Envelopes /\ Answers(main, s[i])
      /\ worker.epoch \in Nat /\ worker.epoch <= main.epoch
  BY <1>1, Waiting
<1>3. ~late => ~main.quiet
  BY <1>1, Waiting
<1>4. worker \in WorkerRecords /\ Steady(worker)
  BY DEF RInv, Kept, RTyped
<1>5. /\ worker' \in WorkerRecords /\ worker'.epoch = worker.epoch /\ worker'.wasm = "none"
      /\ worker'.waiting = <<>> /\ worker'.engine = worker.engine
  BY <1>1, <1>4, EmptyTyped DEF WorkerRecords
<1>6. worker.engine = 0
  BY <1>1, <1>4 DEF Steady
<1>7. \A i \in 1..Len(s) : /\ Runtime!Error(worker, s[i]) \in Envelopes \cup EventEnvelopes
                           /\ SoundDown(main, worker, Runtime!Error(worker, s[i]))
                           /\ Runtime!Error(worker, s[i]).type # "event"
  BY <1>2, <1>4, ErrorOf, Says
<1>8. /\ es \in Seq(Envelopes \cup EventEnvelopes)
      /\ \A f \in Items(es) : \E i \in 1..Len(s) : f = Runtime!Error(worker, s[i])
  <2>1. DOMAIN s = 1..Len(s)
    BY <1>2
  <2>2. es \in [1..Len(s) -> Envelopes \cup EventEnvelopes]
    BY <1>7, <2>1
  <2>3. \A i \in 1..Len(s) : es[i] = Runtime!Error(worker, s[i])
    BY <2>1
  <2> HIDE DEF es
  <2>4. es \in Seq(Envelopes \cup EventEnvelopes) /\ Items(es) = {es[i] : i \in 1..Len(s)}
    BY <1>2, <2>2, ItemsOf, ZenonT(30)
  <2> QED
    BY <2>3, <2>4
<1> HIDE DEF s, es
<1>9. \A f \in Items(es) : SoundDown(main, worker', f) /\ f.type # "event"
  BY <1>5, <1>7, <1>8 DEF SoundDown
<1>10. Steady(worker') /\ (~late => Timely(main, worker'))
  BY <1>3, <1>5, <1>6, ItemsFew DEF Steady, Timely
<1>11. Items(worker'.waiting) \subseteq Items(worker.waiting) \cup Items(up)
  BY <1>5, ItemsFew
<1>12. worker'.epoch >= worker.epoch /\ worker'.epoch <= main.epoch
  BY <1>2, <1>5
<1> QED
  BY <1>1, <1>5, <1>8, <1>9, <1>10, <1>11, <1>12, UpStays, WorkerMoves

LEMMA RuntimeInit == ASSUME Runtime!RuntimeAssumption, Runtime!Init PROVE RInv
<1>1. Fits({}) /\ Items(<<>>) = {} /\ Len(<<>>) = 0
  BY FS_EmptySet, ItemsFew DEF Fits, Runtime!RuntimeAssumption
<1>2. 0 \in 0..MaxLoads /\ 0 \in 0..MaxStops
  BY DEF Runtime!RuntimeAssumption
<1>3. main \in MainRecords /\ worker \in WorkerRecords
  BY <1>2, EmptyTyped DEF Runtime!Init, MainRecords, WorkerRecords
<1>4. RTyped(main)
  BY <1>1, <1>3 DEF Runtime!Init, RTyped
<1> QED
  BY <1>1, <1>4 DEF Runtime!Init, RInv, Kept, Steady, Sound, Ordered, OnTime, Timely

LEMMA WorkerStep == Runtime!RuntimeAssumption /\ RInv /\ [Runtime!Next]_(Runtime!vars) => RInv'
<1> SUFFICES ASSUME Runtime!RuntimeAssumption, RInv, [Runtime!Next]_(Runtime!vars) PROVE RInv'
  OBVIOUS
<1>1. CASE UNCHANGED Runtime!vars
  BY <1>1 DEF Runtime!vars, RInv, Kept, RTyped, Steady, Sound, SoundDown, Ordered, OnTime
<1> QED
  BY <1>1, LoadStep, RequestStep, SendControlStep, StopStep, DestroyStep, RejectStep,
     HandleMessageStep, OnMessageStep, WasmReadyStep, WasmFailsStep DEF Runtime!Next

LEMMA RuntimeHolds == Runtime!RuntimeAssumption /\ RInv => Runtime!RuntimeSafe
<1> SUFFICES ASSUME Runtime!RuntimeAssumption, RInv PROVE Runtime!RuntimeSafe
  OBVIOUS
<1>1. /\ RTyped(main) /\ main \in MainRecords /\ worker \in WorkerRecords /\ Steady(worker)
      /\ up \in Seq(Envelopes) /\ down \in Seq(Envelopes \cup EventEnvelopes)
  BY DEF RInv, Kept, RTyped
<1>2. Runtime!TypeOK
  <2>1. main.instance \in 0..MaxLoads /\ main.epoch \in 0..(MaxLoads + MaxStops)
    <3>1. /\ main.instance \in Nat /\ main.stops \in Nat /\ main.instance <= MaxLoads
          /\ main.stops <= MaxStops /\ main.epoch = main.instance + main.stops
      BY <1>1 DEF MainRecords, Runtime!RuntimeAssumption, RTyped
    <3> QED
      BY <3>1 DEF Runtime!RuntimeAssumption
  <2>2. \A i \in DOMAIN up : up[i].type \in Runtime!Commands \cup Runtime!Controls
    <3>1. \A e \in Items(up) : e.type \in Runtime!Commands \cup Runtime!Controls
      <4>1. \A e \in Items(up) : e \in Envelopes /\ e.type # "error"
        BY <1>1, ItemsTyped DEF RTyped
      <4> QED
        BY <4>1 DEF Envelopes
    <3>2. \A i \in DOMAIN up : up[i] \in Items(up)
      BY <1>1 DEF Items
    <3> QED
      BY <3>1, <3>2
  <2>3. Cardinality(main.pending) <= RuntimePending
    BY <1>1 DEF RTyped, Fits
  <2> QED
    BY <1>1, <2>1, <2>2, <2>3, SameCount DEF Runtime!TypeOK, WorkerRecords, Steady
<1>3. ASSUME down # <<>>, NEW e, e = Head(down) PROVE SoundDown(main, worker, e)
      /\ (~late /\ e.type = "event" => OfStream(main, e))
  BY <1>1, <1>3, ItemsTail DEF RInv, Kept, Sound, OnTime
<1>4. Runtime!AnswersMatch
  BY <1>3 DEF Runtime!AnswersMatch, SoundDown, Answers, Runtime!Current, Runtime!Matching
<1>5. Runtime!EventsCurrent
  BY <1>3 DEF Runtime!EventsCurrent, OfStream, Runtime!Current
<1>6. Runtime!StopReleases
  BY DEF Runtime!StopReleases, RInv, Kept, OnTime, Timely
<1> QED
  BY <1>2, <1>4, <1>5, <1>6 DEF Runtime!RuntimeSafe

\* Whatever the order of loads, calls, answers, timeouts, stops, failures of the
\* worker and of its module, and a destroy: an answer settles the call it is of;
\* and unless a stop reaches the worker while a load awaits its module, events are
\* of the current stream and a completed stop leaves no engine (runtime.ts:71,
\* worker.ts:185).
THEOREM RuntimeCorrect == Runtime!Spec => []RuntimeSafe
<1>1. Runtime!Init => RInv
  BY RuntimeInit, RuntimeAssumption
<1>2. RInv /\ [Runtime!Next]_(Runtime!vars) => RInv'
  BY WorkerStep, RuntimeAssumption
<1>3. RInv => RuntimeSafe
  BY RuntimeHolds, RuntimeAssumption DEF RuntimeSafe
<1> QED
  BY <1>1, <1>2, <1>3, PTL DEF Runtime!Spec

-----------------------------------------------------------------------------
(* The WebCodecs backend *)

Chunks == [n : Nat, key : BOOLEAN]
BackendRecords ==
  [generation : Nat, stopped : BOOLEAN, closing : {"no", "video", "audio"}, errored : BOOLEAN,
   configured : BOOLEAN, decoder : [Codec!MediaKinds -> Codec!Decoders \cup {Codec!None}],
   reconfigure : BOOLEAN, pending : [Codec!MediaKinds -> Int],
   paused : BOOLEAN, keep : BOOLEAN, step : {"none", "waiting", "dispatched"},
   keyOnly : BOOLEAN, queue : Seq(Chunks)]
DecoderRecords ==
  [state : {"none", "configured", "unconfigured", "closed"}, generation : Nat, work : Seq(Nat)]

DTyped ==
  /\ b \in BackendRecords /\ dec \in [Codec!Decoders -> DecoderRecords]
  /\ configures \in [Configures -> {"new", "checking", "video", "audio", "returned"}]
  /\ pushed \in Nat /\ shown \in Seq(Nat) /\ overlap \in BOOLEAN /\ threw \in BOOLEAN

DKinds == \A k \in Codec!MediaKinds : b.decoder[k] # Codec!None => b.decoder[k][2] = k

\* Every generation has one video decoder, and no later one is about.
Generations ==
  /\ \A d \in Codec!Decoders : dec[d].generation <= b.generation
  /\ \A d \in Codec!Decoders : dec[d].work # <<>> => dec[d].generation # 0
  /\ \A k \in Codec!MediaKinds : b.decoder[k] # Codec!None => dec[b.decoder[k]].generation # 0
  /\ \A d, e \in Codec!Decoders :
       d[2] = "video" /\ e[2] = "video" /\ dec[d].generation = dec[e].generation
         => d = e \/ dec[d].generation = 0

Rising(s) == \A i, j \in 1..Len(s) : i < j => s[i] < s[j]
Below(s, t) == \A i \in 1..Len(s), j \in 1..Len(t) : s[i] < t[j]
UpTo(s, n) == \A i \in 1..Len(s) : s[i] <= n
Numbers(q) == [i \in 1..Len(q) |-> q[i].n]

\* Chunks go from q to the decoder, w, and from there to the application.
InOrder(w, q, sh, n) ==
  /\ Rising(sh) /\ Rising(w) /\ Rising(Numbers(q))
  /\ Below(sh, w) /\ Below(sh, Numbers(q)) /\ Below(w, Numbers(q))
  /\ UpTo(sh, n) /\ UpTo(w, n) /\ UpTo(Numbers(q), n)

ChunksInOrder ==
  /\ InOrder(<<>>, b.queue, shown, pushed)
  /\ \A d \in Codec!Decoders : d[2] = "video" /\ dec[d].generation = b.generation
       => InOrder(dec[d].work, b.queue, shown, pushed)

\* Chunks wait only while the display is paused, and never beside a waiting step.
QueueWaits ==
  /\ ~b.paused => b.queue = <<>> /\ b.step = "none"
  /\ b.step = "waiting" => b.queue = <<>>
  /\ Len(b.queue) <= MaxVideoQueue

Running(c) == configures[c] \in {"checking", "video", "audio"}
Unwinding(c) == configures[c] \in {"video", "audio"}

\* What holds unless calls overlap.
AtRest ==
  /\ \A k \in Codec!MediaKinds : b.decoder[k] = Codec!None /\ b.pending[k] = 0
  /\ ~b.configured
Alone ==
  /\ \A c, d \in Configures : Running(c) /\ Running(d) => c = d
  /\ \A c \in Configures : configures[c] = "checking" => b.stopped /\ b.closing = "no"
  /\ \A c \in Configures : Unwinding(c) => ~b.configured
  /\ \A c \in Configures : configures[c] = "audio" => b.decoder["video"] = Codec!None
  /\ b.closing = "audio" => b.decoder["video"] = Codec!None
  /\ b.stopped => AtRest
  /\ ~b.stopped => b.configured \/ \E c \in Configures : Unwinding(c)
  /\ ~b.configured => ~b.paused
  /\ b.closing = "no" => ~b.errored
Tracked ==
  /\ \A d \in Codec!Decoders : IF Codec!IsOpen(d) THEN d = b.decoder[d[2]] ELSE dec[d].work = <<>>
  /\ ~b.stopped => \A k \in Codec!MediaKinds : b.decoder[k] # Codec!None =>
       /\ dec[b.decoder[k]].generation = b.generation
       /\ ~b.errored /\ ~threw => b.pending[k] = Len(dec[b.decoder[k]].work)

DInv ==
  /\ DTyped /\ DKinds /\ Generations /\ ChunksInOrder /\ QueueWaits
  /\ ~overlap => Alone /\ Tracked

-----------------------------------------------------------------------------
(* Types *)

LEMMA NoneDiffers == \A d \in Codec!Decoders : d # Codec!None
<1>1. SUFFICES ASSUME NEW c \in Configures, NEW k \in Codec!MediaKinds PROVE <<c, k>> # <<>>
  BY <1>1 DEF Codec!Decoders, Codec!None
<1> QED  OBVIOUS

LEMMA VideoIsKind == "video" \in Codec!MediaKinds /\ "audio" \in Codec!MediaKinds
BY DEF Codec!MediaKinds

LEMMA StoppingTyped == \A r \in BackendRecords : Codec!Stopping(r) \in BackendRecords
BY DEF Codec!Stopping, BackendRecords

LEMMA HandleErrorTyped == \A r \in BackendRecords : Codec!HandleError(r) \in BackendRecords
<1> SUFFICES ASSUME NEW r \in BackendRecords PROVE Codec!HandleError(r) \in BackendRecords
  OBVIOUS
<1> DEFINE q == [r EXCEPT !.errored = TRUE, !.pending = [k \in Codec!MediaKinds |-> 0]]
<1>0. [k \in Codec!MediaKinds |-> 0] \in [Codec!MediaKinds -> Int]
  OBVIOUS
<1>1. q \in BackendRecords
  BY <1>0 DEF BackendRecords
<1> HIDE DEF q
<1> QED  BY <1>1, StoppingTyped DEF Codec!HandleError, q

LEMMA InitTyped == Codec!Init => DTyped
<1> SUFFICES ASSUME Codec!Init PROVE DTyped
  OBVIOUS
<1>1. <<>> \in Seq(Chunks) /\ <<>> \in Seq(Nat) /\ 0 \in Nat
  OBVIOUS
<1>0. [k \in Codec!MediaKinds |-> 0] \in [Codec!MediaKinds -> Int]
  OBVIOUS
<1>9. [k \in Codec!MediaKinds |-> Codec!None]
      \in [Codec!MediaKinds -> Codec!Decoders \cup {Codec!None}]
  OBVIOUS
<1>2. b \in BackendRecords
  BY <1>0, <1>1, <1>9 DEF Codec!Init, BackendRecords
<1>3. dec \in [Codec!Decoders -> DecoderRecords]
  BY <1>1 DEF Codec!Init, DecoderRecords
<1> QED  BY <1>1, <1>2, <1>3 DEF Codec!Init, DTyped

LEMMA DecodeTyped ==
  ASSUME DTyped, NEW r \in BackendRecords, NEW x \in Chunks, Codec!Decode(r, x)
  PROVE  b' \in BackendRecords /\ dec' \in [Codec!Decoders -> DecoderRecords] /\ threw' \in BOOLEAN
<1> DEFINE d == r.decoder["video"]
<1> DEFINE reset == x.key /\ r.reconfigure
<1> DEFINE works == reset \/ dec[d].state = "configured"
<1>1. CASE d = Codec!None
  BY <1>1 DEF Codec!Decode, DTyped
<1>2. CASE d # Codec!None
  <2>1. d \in Codec!Decoders
    BY <1>2, VideoIsKind DEF BackendRecords
  <2>2. x.n \in Nat /\ x.key \in BOOLEAN
    BY DEF Chunks
  <2>3. b' \in BackendRecords
    <3> DEFINE p == [r.pending EXCEPT !["video"] = IF reset THEN 1 ELSE @ + 1]
    <3>1. b' = [r EXCEPT !.reconfigure = @ /\ ~x.key, !.pending = p]
      BY <1>2 DEF Codec!Decode
    <3>2. r.pending \in [Codec!MediaKinds -> Int] /\ (r.reconfigure /\ ~x.key) \in BOOLEAN
      BY <2>2 DEF BackendRecords
    <3>3. p \in [Codec!MediaKinds -> Int]
      BY <3>2, VideoIsKind
    <3> HIDE DEF p
    <3> QED  BY <3>1, <3>2, <3>3 DEF BackendRecords
  <2>4. dec[d] \in DecoderRecords
    BY <2>1 DEF DTyped
  <2>5. dec[d].work \in Seq(Nat)
    BY <2>4 DEF DecoderRecords
  <2>6. <<x.n>> \in Seq(Nat) /\ Append(dec[d].work, x.n) \in Seq(Nat)
    BY <2>2, <2>5
  <2>7. dec' \in [Codec!Decoders -> DecoderRecords]
    <3>1. CASE works /\ reset
      <4>1. dec' = [dec EXCEPT ![d] = [dec[d] EXCEPT !.state = "configured", !.work = <<x.n>>]]
        BY <1>2, <3>1 DEF Codec!Decode
      <4> QED  BY <4>1, <2>1, <2>4, <2>6 DEF DTyped, DecoderRecords
    <3>2. CASE works /\ ~reset
      <4>1. dec' = [dec EXCEPT ![d] = [dec[d] EXCEPT !.state = "configured",
                                                     !.work = Append(@, x.n)]]
        BY <1>2, <3>2 DEF Codec!Decode
      <4> QED  BY <4>1, <2>1, <2>4, <2>6 DEF DTyped, DecoderRecords
    <3>3. CASE ~works
      BY <1>2, <3>3 DEF Codec!Decode, DTyped
    <3> QED  BY <3>1, <3>2, <3>3
  <2>8. threw' \in BOOLEAN
    BY <1>2 DEF Codec!Decode, DTyped
  <2> QED  BY <2>3, <2>7, <2>8
<1> QED  BY <1>1, <1>2

LEMMA CloseDecoderTyped ==
  ASSUME DTyped, NEW k \in Codec!MediaKinds, Codec!CloseDecoder(k)
  PROVE  dec' \in [Codec!Decoders -> DecoderRecords]
<1>1. \A d \in Codec!Decoders : [dec[d] EXCEPT !.state = "closed", !.work = <<>>] \in DecoderRecords
  <2>1. <<>> \in Seq(Nat)
    OBVIOUS
  <2> QED  BY <2>1 DEF DTyped, DecoderRecords
<1> QED  BY <1>1 DEF Codec!CloseDecoder, DTyped

LEMMA MatchingAt ==
  ASSUME NEW q \in Seq(Chunks), NEW keyOnly \in BOOLEAN
  PROVE  Codec!Matching(q, keyOnly) \in 0..Len(q)
<1> DEFINE I == {i \in 1..Len(q) : q[i].key \/ ~keyOnly}
<1> DEFINE m == Codec!Matching(q, keyOnly)
<1>1. m = IF I # {} THEN Codec!Min(I) ELSE 0
  BY DEF Codec!Matching, Codec!SelectInSeq
<1>2. CASE I = {}
  BY <1>1, <1>2
<1>3. CASE I # {}
  <2>1. I \in SUBSET Nat
    OBVIOUS
  <2>2. PICK x \in I : \A y \in I : <<y, x>> \notin OpToRel(<, Nat)
    BY <1>3, <2>1, NatLessThanWellFounded, WFMin
  <2>3. \A y \in I : x <= y
    <3> SUFFICES ASSUME NEW y \in I PROVE x <= y
      OBVIOUS
    <3>1. x \in Nat /\ y \in Nat
      BY <2>1
    <3>2. ~(y < x)
      BY <2>2, <3>1 DEF OpToRel
    <3> QED  BY <3>1, <3>2
  <2>4. Codec!Min(I) \in I
    BY <2>3 DEF Codec!Min
  <2> QED  BY <1>1, <1>3, <2>4
<1> QED  BY <1>2, <1>3

LEMMA NextTyped == DTyped /\ Codec!Next => DTyped'
<1> SUFFICES ASSUME DTyped, Codec!Next PROVE DTyped'
  OBVIOUS
<1> USE VideoIsKind
<1>0. /\ [k \in Codec!MediaKinds |-> 0] \in [Codec!MediaKinds -> Int] /\ <<>> \in Seq(Chunks)
      /\ <<>> \in Seq(Nat) /\ b.generation + 1 \in Nat
      /\ \A k \in Codec!MediaKinds : [b.decoder EXCEPT ![k] = Codec!None]
           \in [Codec!MediaKinds -> Codec!Decoders \cup {Codec!None}]
  <2>1. b.decoder \in [Codec!MediaKinds -> Codec!Decoders \cup {Codec!None}] /\ b.generation \in Nat
    BY DEF DTyped, BackendRecords
  <2> QED  BY <2>1
<1>1. ASSUME NEW c \in Configures, Codec!Configure(c) PROVE DTyped'
  BY <1>1 DEF Codec!Configure, DTyped
<1>2. ASSUME NEW c \in Configures, Codec!Unsupported(c) PROVE DTyped'
  BY <1>2 DEF Codec!Unsupported, DTyped
<1>3. ASSUME NEW c \in Configures, NEW ks \in SUBSET Codec!MediaKinds, NEW works \in BOOLEAN,
             Codec!Create(c, ks, works) PROVE DTyped'
  <2> DEFINE ds == [k \in Codec!MediaKinds |-> IF k \in ks THEN <<c, k>> ELSE b.decoder[k]]
  <2>1. ds \in [Codec!MediaKinds -> Codec!Decoders \cup {Codec!None}]
    <3>1. b.decoder \in [Codec!MediaKinds -> Codec!Decoders \cup {Codec!None}]
      BY DEF DTyped, BackendRecords
    <3>2. \A k \in Codec!MediaKinds : <<c, k>> \in Codec!Decoders
      BY DEF Codec!Decoders
    <3> QED  BY <3>1, <3>2
  <2>2. b' = [b EXCEPT !.generation = @ + 1, !.stopped = FALSE, !.configured = works \/ @,
                       !.decoder = ds]
    BY <1>3 DEF Codec!Create
  <2>3. b' \in BackendRecords
    <3> HIDE DEF ds
    <3> QED  BY <2>1, <2>2, <1>0 DEF DTyped, BackendRecords
  <2>4. dec' \in [Codec!Decoders -> DecoderRecords]
    <3>1. \A st \in {"configured", "unconfigured"} :
            [state |-> st, generation |-> b.generation + 1, work |-> <<>>] \in DecoderRecords
      BY <1>0 DEF DecoderRecords
    <3> QED  BY <1>3, <3>1 DEF Codec!Create, DTyped
  <2> QED  BY <1>3, <2>3, <2>4 DEF Codec!Create, DTyped
<1>4. ASSUME NEW c \in Configures, Codec!Unwind(c) PROVE DTyped'
  <2> DEFINE k == configures[c]
  <2>1. k \in Codec!MediaKinds /\ dec' \in [Codec!Decoders -> DecoderRecords]
    BY <1>4, CloseDecoderTyped DEF Codec!Unwind
  <2>2. configures' \in [Configures -> {"new", "checking", "video", "audio", "returned"}]
    BY <1>4 DEF Codec!Unwind, DTyped
  <2>3. b' \in BackendRecords
    <3> DEFINE ds == [b.decoder EXCEPT ![k] = Codec!None]
    <3> DEFINE zero == [x \in Codec!MediaKinds |-> 0]
    <3>1. ds \in [Codec!MediaKinds -> Codec!Decoders \cup {Codec!None}]
          /\ zero \in [Codec!MediaKinds -> Int]
      BY <2>1, <1>0
    <3>2. \/ b' = [b EXCEPT !.decoder = ds]
          \/ b' = [b EXCEPT !.decoder = ds, !.stopped = TRUE, !.configured = FALSE,
                            !.pending = zero, !.generation = @ + 1, !.reconfigure = FALSE]
      BY <1>4 DEF Codec!Unwind
    <3> HIDE DEF ds, zero
    <3> QED  BY <3>1, <3>2, <1>0, ZenonT(30) DEF DTyped, BackendRecords
  <2> QED  BY <1>4, <2>1, <2>2, <2>3 DEF Codec!Unwind, DTyped
<1>5. ASSUME Codec!Stop PROVE DTyped'
  <2>1. b' \in BackendRecords
    BY <1>5, StoppingTyped DEF Codec!Stop, DTyped
  <2> QED  BY <1>5, <2>1 DEF Codec!Stop, DTyped
<1>6. ASSUME Codec!Close PROVE DTyped'
  <2> DEFINE k == b.closing
  <2>1. k \in Codec!MediaKinds /\ dec' \in [Codec!Decoders -> DecoderRecords]
    BY <1>6, CloseDecoderTyped DEF Codec!Close
  <2>2. b' \in BackendRecords
    <3> DEFINE ds == [b.decoder EXCEPT ![k] = Codec!None]
    <3> DEFINE zero == [x \in Codec!MediaKinds |-> 0]
    <3>1. ds \in [Codec!MediaKinds -> Codec!Decoders \cup {Codec!None}]
          /\ zero \in [Codec!MediaKinds -> Int]
      BY <2>1, <1>0
    <3>2. \/ b' = [b EXCEPT !.decoder = ds, !.closing = "audio"]
          \/ b' = [b EXCEPT !.decoder = ds, !.closing = "no", !.stopped = TRUE,
                         !.errored = FALSE, !.configured = FALSE,
                         !.pending = zero, !.paused = FALSE, !.keep = FALSE,
                         !.step = "none", !.keyOnly = FALSE, !.queue = <<>>,
                         !.generation = @ + 1, !.reconfigure = FALSE]
      BY <1>6 DEF Codec!Close
    <3> HIDE DEF ds, zero
    <3>3. CASE b' = [b EXCEPT !.decoder = ds, !.closing = "audio"]
      BY <3>1, <3>3 DEF DTyped, BackendRecords
    <3>4. CASE b' = [b EXCEPT !.decoder = ds, !.closing = "no", !.stopped = TRUE,
                         !.errored = FALSE, !.configured = FALSE,
                         !.pending = zero, !.paused = FALSE, !.keep = FALSE,
                         !.step = "none", !.keyOnly = FALSE, !.queue = <<>>,
                         !.generation = @ + 1, !.reconfigure = FALSE]
      <4>1. "no" \in {"no", "video", "audio"} /\ "none" \in {"none", "waiting", "dispatched"}
        OBVIOUS
      <4>2. b \in BackendRecords /\ TRUE \in BOOLEAN /\ FALSE \in BOOLEAN
        BY DEF DTyped
      <4> QED  BY <3>1, <3>4, <1>0, <4>1, <4>2 DEF BackendRecords
    <3> QED  BY <3>2, <3>3, <3>4
  <2> QED  BY <1>6, <2>1, <2>2 DEF Codec!Close, DTyped
<1>7. ASSUME Codec!PushVideo PROVE DTyped'
  <2>1. PICK key \in BOOLEAN :
          LET x == [n |-> pushed + 1, key |-> key]
          IN \/ UNCHANGED <<b, dec, threw>>
             \/ Codec!Decode([b EXCEPT !.step = "dispatched"], x)
             \/ Codec!Decode(b, x)
             \/ b' = [b EXCEPT !.queue = Append(@, x)] /\ UNCHANGED <<dec, threw>>
    BY <1>7 DEF Codec!PushVideo
  <2> DEFINE x == [n |-> pushed + 1, key |-> key]
  <2>2. x \in Chunks
    BY DEF Chunks, DTyped
  <2>3. [b EXCEPT !.step = "dispatched"] \in BackendRecords /\ b \in BackendRecords
    BY DEF DTyped, BackendRecords
  <2>5. b' \in BackendRecords /\ dec' \in [Codec!Decoders -> DecoderRecords] /\ threw' \in BOOLEAN
    <3> HIDE DEF x
    <3>1. \/ UNCHANGED <<b, dec, threw>>
          \/ Codec!Decode([b EXCEPT !.step = "dispatched"], x)
          \/ Codec!Decode(b, x)
          \/ b' = [b EXCEPT !.queue = Append(@, x)] /\ UNCHANGED <<dec, threw>>
      BY <2>1 DEF x
    <3>2. CASE Codec!Decode([b EXCEPT !.step = "dispatched"], x)
      BY <3>2, <2>2, <2>3, DecodeTyped
    <3>3. CASE Codec!Decode(b, x)
      BY <3>3, <2>2, <2>3, DecodeTyped
    <3>4. CASE UNCHANGED <<b, dec, threw>>
      BY <3>4 DEF DTyped
    <3>5. CASE b' = [b EXCEPT !.queue = Append(@, x)] /\ UNCHANGED <<dec, threw>>
      <4>1. Append(b.queue, x) \in Seq(Chunks)
        BY <2>2, <2>3 DEF BackendRecords
      <4>2. b' \in BackendRecords
        BY <2>3, <3>5, <4>1 DEF BackendRecords
      <4> QED  BY <4>2, <3>5 DEF DTyped
    <3> QED  BY <3>1, <3>2, <3>3, <3>4, <3>5
  <2> QED  BY <1>7, <2>5 DEF Codec!PushVideo, DTyped
<1>8. ASSUME Codec!PushAudio PROVE DTyped'
  <2> DEFINE d == b.decoder["audio"]
  <2> DEFINE p == [b.pending EXCEPT !["audio"] = @ + 1]
  <2>1. d \in Codec!Decoders
    BY <1>8 DEF Codec!PushAudio, DTyped, BackendRecords
  <2>2. p \in [Codec!MediaKinds -> Int] /\ b \in BackendRecords /\ pushed \in Nat
    BY DEF DTyped, BackendRecords
  <2>3. b' = b \/ b' = [b EXCEPT !.pending = p]
    BY <1>8 DEF Codec!PushAudio
  <2>4. b' \in BackendRecords
    <3> HIDE DEF p
    <3> QED  BY <2>2, <2>3 DEF BackendRecords
  <2>5. dec[d] \in DecoderRecords /\ dec \in [Codec!Decoders -> DecoderRecords]
        /\ pushed' = pushed + 1
    BY <1>8, <2>1 DEF DTyped, Codec!PushAudio
  <2>6. Append(dec[d].work, pushed') \in Seq(Nat)
    BY <2>2, <2>5 DEF DecoderRecords
  <2>7. \/ dec' = dec
        \/ dec' = [dec EXCEPT ![d] = [dec[d] EXCEPT !.work = Append(@, pushed')]]
    BY <1>8 DEF Codec!PushAudio
  <2>8. dec' \in [Codec!Decoders -> DecoderRecords]
    <3> HIDE DEF d
    <3>1. [dec[d] EXCEPT !.work = Append(@, pushed')] \in DecoderRecords
      BY <2>5, <2>6 DEF DecoderRecords
    <3> QED  BY <2>1, <2>5, <2>7, <3>1
  <2>9. pushed' = pushed + 1 /\ (threw' = threw \/ threw' = TRUE)
    BY <1>8 DEF Codec!PushAudio
  <2>10. pushed' \in Nat /\ threw' \in BOOLEAN
    <3>1. threw \in BOOLEAN /\ pushed + 1 \in Nat
      BY <2>2 DEF DTyped
    <3>2. pushed' \in Nat
      BY <2>9, <3>1
    <3>3. CASE threw' = threw
      BY <3>1, <3>2, <3>3
    <3>4. CASE threw' = TRUE
      BY <3>2, <3>4
    <3> QED  BY <2>9, <3>3, <3>4
  <2> QED  BY <1>8, <2>4, <2>8, <2>10 DEF Codec!PushAudio, DTyped
<1>9. ASSUME Codec!MarkVideoConfigChanged PROVE DTyped'
  BY <1>9 DEF Codec!MarkVideoConfigChanged, DTyped, BackendRecords
<1>10. ASSUME Codec!PauseDisplay PROVE DTyped'
  <2> DEFINE zero == [k \in Codec!MediaKinds |-> 0]
  <2>1. \/ b' = [b EXCEPT !.paused = TRUE, !.keep = TRUE]
        \/ b' = [b EXCEPT !.paused = TRUE, !.keep = FALSE, !.step = "none", !.queue = <<>>,
                          !.pending = zero]
    BY <1>10 DEF Codec!PauseDisplay
  <2>2. b' \in BackendRecords
    <3>1. zero \in [Codec!MediaKinds -> Int]
      BY <1>0
    <3> HIDE DEF zero
    <3>2. CASE b' = [b EXCEPT !.paused = TRUE, !.keep = TRUE]
      BY <3>2 DEF DTyped, BackendRecords
    <3>3. CASE b' = [b EXCEPT !.paused = TRUE, !.keep = FALSE, !.step = "none", !.queue = <<>>,
                              !.pending = zero]
      BY <3>1, <3>3, <1>0 DEF DTyped, BackendRecords
    <3> QED  BY <2>1, <3>2, <3>3
  <2>3. \A d \in Codec!Decoders : [dec[d] EXCEPT !.state = "unconfigured",
                                       !.work = <<>>] \in DecoderRecords
    BY <1>0 DEF DTyped, DecoderRecords
  <2>4. dec' \in [Codec!Decoders -> DecoderRecords]
    <3>1. \/ dec' = dec
          \/ dec' = [d \in Codec!Decoders |->
                       IF \E k \in Codec!MediaKinds : b.decoder[k] = d
                         THEN [dec[d] EXCEPT !.state = "unconfigured", !.work = <<>>]
                         ELSE dec[d]]
      BY <1>10 DEF Codec!PauseDisplay
    <3>2. dec \in [Codec!Decoders -> DecoderRecords]
      BY DEF DTyped
    <3> DEFINE Reset(d) == IF \E k \in Codec!MediaKinds : b.decoder[k] = d
                             THEN [dec[d] EXCEPT !.state = "unconfigured", !.work = <<>>]
                             ELSE dec[d]
    <3>3. ASSUME NEW d \in Codec!Decoders PROVE Reset(d) \in DecoderRecords
      <4>1. dec[d] \in DecoderRecords
        BY <3>2
      <4> QED  BY <2>3, <4>1
    <3>4. dec' = dec \/ dec' = [d \in Codec!Decoders |-> Reset(d)]
      BY <3>1
    <3> HIDE DEF Reset
    <3> QED  BY <3>2, <3>3, <3>4
  <2> QED  BY <1>10, <2>2, <2>4 DEF Codec!PauseDisplay, DTyped
<1>11. ASSUME Codec!FrameStep PROVE DTyped'
  <2>1. PICK keyOnly \in BOOLEAN :
          LET i == Codec!Matching(b.queue, keyOnly)
              r == [b EXCEPT !.keyOnly = keyOnly,
                    !.step = IF i = 0 THEN "waiting" ELSE "dispatched",
                             !.queue = IF i = 0 THEN <<>> ELSE SubSeq(@, i + 1, Len(@))]
          IN IF i = 0 THEN b' = r /\ UNCHANGED <<dec, threw>> ELSE Codec!Decode(r, b.queue[i])
    BY <1>11 DEF Codec!FrameStep
  <2> DEFINE i == Codec!Matching(b.queue, keyOnly)
  <2> DEFINE q == IF i = 0 THEN <<>> ELSE SubSeq(b.queue, i + 1, Len(b.queue))
  <2> DEFINE r == [b EXCEPT !.keyOnly = keyOnly, !.step = IF i = 0 THEN "waiting" ELSE "dispatched",
                            !.queue = q]
  <2>2. b.queue \in Seq(Chunks)
    BY DEF DTyped, BackendRecords
  <2>3. i \in 0..Len(b.queue)
    BY <2>2, MatchingAt
  <2>4. q \in Seq(Chunks)
    BY <2>2, <2>3, <1>0
  <2>5. r \in BackendRecords
    <3> HIDE DEF q
    <3> QED  BY <2>4 DEF DTyped, BackendRecords
  <2>6. IF i = 0 THEN b' = r /\ UNCHANGED <<dec, threw>> ELSE Codec!Decode(r, b.queue[i])
    BY <2>1
  <2>7. i # 0 => b.queue[i] \in Chunks
    BY <2>2, <2>3
  <2>8. b' \in BackendRecords /\ dec' \in [Codec!Decoders -> DecoderRecords] /\ threw' \in BOOLEAN
    <3> HIDE DEF r, i
    <3>1. CASE i = 0
      BY <2>5, <2>6, <3>1 DEF DTyped
    <3>2. CASE i # 0
      BY <2>5, <2>6, <2>7, <3>2, DecodeTyped
    <3> QED  BY <3>1, <3>2
  <2> QED  BY <1>11, <2>8 DEF Codec!FrameStep, DTyped
<1>12. ASSUME NEW d \in Codec!Decoders, Codec!Output(d) PROVE DTyped'
  <2> DEFINE k == d[2]
  <2>1. k \in Codec!MediaKinds /\ dec[d] \in DecoderRecords
    BY DEF Codec!Decoders, DTyped
  <2>2. Head(dec[d].work) \in Nat /\ Tail(dec[d].work) \in Seq(Nat)
    BY <1>12, <2>1 DEF Codec!Output, DecoderRecords
  <2>3. dec' = [dec EXCEPT ![d] = [dec[d] EXCEPT !.work = Tail(@)]]
    BY <1>12 DEF Codec!Output
  <2>4. dec' \in [Codec!Decoders -> DecoderRecords]
    BY <2>1, <2>2, <2>3 DEF DTyped, DecoderRecords
  <2> DEFINE p == [b.pending EXCEPT ![k] = @ - 1]
  <2> DEFINE r == [b EXCEPT !.pending = p,
                        !.step = IF k = "video" THEN "none" ELSE @,
                        !.keyOnly = IF k = "video" /\ b.step # "none" THEN FALSE ELSE @]
  <2>5. p \in [Codec!MediaKinds -> Int]
    BY <2>1 DEF DTyped, BackendRecords
  <2>6. r \in BackendRecords
    <3> HIDE DEF p, k
    <3> QED  BY <2>5 DEF DTyped, BackendRecords
  <2>7. /\ b' \in {b, r, Codec!HandleError(r)}
        /\ shown' = shown \/ shown' = Append(shown, Head(dec[d].work))
    BY <1>12 DEF Codec!Output
  <2>8. b' \in BackendRecords
    <3> HIDE DEF r
    <3> QED  BY <2>6, <2>7, HandleErrorTyped DEF DTyped
  <2>9. shown' \in Seq(Nat)
    <3> DEFINE x == Head(dec[d].work)
    <3>1. x \in Nat /\ (shown' = shown \/ shown' = Append(shown, x)) /\ shown \in Seq(Nat)
      BY <2>2, <2>7 DEF DTyped
    <3> HIDE DEF x
    <3> QED  BY <3>1
  <2> QED  BY <1>12, <2>4, <2>8, <2>9 DEF Codec!Output, DTyped
<1>13. ASSUME NEW d \in Codec!Decoders, Codec!DecoderFails(d) PROVE DTyped'
  <2>1. b' \in BackendRecords
    BY <1>13, HandleErrorTyped DEF Codec!DecoderFails, DTyped
  <2>2. dec' = [dec EXCEPT ![d] = [dec[d] EXCEPT !.state = "closed", !.work = <<>>]]
    BY <1>13 DEF Codec!DecoderFails
  <2>3. dec' \in [Codec!Decoders -> DecoderRecords]
    BY <2>2, <1>0 DEF DTyped, DecoderRecords
  <2> QED  BY <1>13, <2>1, <2>3 DEF Codec!DecoderFails, DTyped
<1> QED  BY <1>1, <1>2, <1>3, <1>4, <1>5, <1>6, <1>7, <1>8, <1>9, <1>10, <1>11, <1>12, <1>13
         DEF Codec!Next, Codec!Created

-----------------------------------------------------------------------------
(* What the operators leave alone *)

StoppingDoes(r, s) ==
  /\ s.generation = r.generation /\ s.stopped = r.stopped /\ s.configured = r.configured
  /\ s.decoder = r.decoder /\ s.paused = r.paused /\ s.step = r.step /\ s.queue = r.queue
  /\ s.errored = r.errored /\ s.pending = r.pending
  /\ s.closing = IF r.stopped \/ r.closing # "no" THEN r.closing ELSE "video"

LEMMA StoppingEffect == \A r \in BackendRecords : StoppingDoes(r, Codec!Stopping(r))
<1> SUFFICES ASSUME NEW r \in BackendRecords PROVE StoppingDoes(r, Codec!Stopping(r))
  OBVIOUS
<1> QED  BY DEF BackendRecords, StoppingDoes, Codec!Stopping

HandlingDoes(r, s) ==
  /\ s.generation = r.generation /\ s.stopped = r.stopped /\ s.configured = r.configured
  /\ s.decoder = r.decoder /\ s.paused = r.paused /\ s.step = r.step /\ s.queue = r.queue
  /\ \/ s = r /\ (r.stopped \/ r.errored)
     \/ /\ ~r.stopped /\ s.errored /\ s.closing \in {r.closing, "video"}
        /\ r.closing = "no" => s.closing = "video"
        /\ s.closing = "audio" => r.closing = "audio"
        /\ s.closing # "no"

LEMMA HandleErrorEffect == \A r \in BackendRecords : HandlingDoes(r, Codec!HandleError(r))
<1> SUFFICES ASSUME NEW r \in BackendRecords PROVE HandlingDoes(r, Codec!HandleError(r))
  OBVIOUS
<1> DEFINE q == [r EXCEPT !.errored = TRUE, !.pending = [k \in Codec!MediaKinds |-> 0]]
<1>0. [k \in Codec!MediaKinds |-> 0] \in [Codec!MediaKinds -> Int]
  OBVIOUS
<1>1. q \in BackendRecords
  BY <1>0 DEF BackendRecords
<1>2. /\ q.generation = r.generation /\ q.stopped = r.stopped /\ q.configured = r.configured
      /\ q.decoder = r.decoder /\ q.paused = r.paused /\ q.step = r.step /\ q.queue = r.queue
      /\ q.errored /\ q.closing = r.closing
  BY DEF BackendRecords
<1>3. Codec!HandleError(r) = IF r.stopped \/ r.errored THEN r ELSE Codec!Stopping(q)
  BY DEF Codec!HandleError
<1>4. r.closing \in {"no", "video", "audio"}
  BY DEF BackendRecords
<1> HIDE DEF q
<1>5. StoppingDoes(q, Codec!Stopping(q))
  BY <1>1, StoppingEffect
<1>6. CASE r.stopped \/ r.errored
  BY <1>3, <1>6 DEF HandlingDoes
<1>7. CASE ~(r.stopped \/ r.errored)
  BY <1>2, <1>3, <1>4, <1>5, <1>7 DEF HandlingDoes, StoppingDoes
<1> QED  BY <1>6, <1>7

\* The decoders, when chunk x is decoded by a backend in state r.
DecodeDoes(r, x) ==
  LET d == r.decoder["video"] IN
  /\ b'.generation = r.generation /\ b'.stopped = r.stopped /\ b'.configured = r.configured
  /\ b'.decoder = r.decoder /\ b'.paused = r.paused /\ b'.step = r.step /\ b'.queue = r.queue
  /\ b'.errored = r.errored /\ b'.closing = r.closing
  /\ b'.pending["audio"] = r.pending["audio"]
  /\ d = Codec!None => b' = r /\ dec' = dec /\ threw' = threw
  /\ \A e \in Codec!Decoders : e # d => dec'[e] = dec[e]
  /\ d # Codec!None =>
       /\ dec'[d].generation = dec[d].generation
       /\ \/ dec' = dec /\ threw' = TRUE
          \/ /\ dec'[d].work = <<x.n>> /\ b'.pending["video"] = 1
             /\ dec'[d].state = "configured" /\ threw' = threw
          \/ /\ dec'[d].work = Append(dec[d].work, x.n)
             /\ b'.pending["video"] = r.pending["video"] + 1
             /\ dec'[d].state = "configured" /\ dec[d].state = "configured" /\ threw' = threw

LEMMA DecodeEffect ==
  ASSUME DTyped, NEW r \in BackendRecords, NEW x \in Chunks, Codec!Decode(r, x)
  PROVE  DecodeDoes(r, x)
<1> DEFINE d == r.decoder["video"]
<1> DEFINE reset == x.key /\ r.reconfigure
<1> DEFINE works == reset \/ dec[d].state = "configured"
<1>1. CASE d = Codec!None
  BY <1>1 DEF Codec!Decode, DTyped, DecodeDoes
<1>2. CASE d # Codec!None
  <2>1. d \in Codec!Decoders
    BY <1>2, VideoIsKind DEF BackendRecords
  <2>2. dec \in [Codec!Decoders -> DecoderRecords] /\ dec[d] \in DecoderRecords /\ threw \in BOOLEAN
    BY <2>1 DEF DTyped
  <2> DEFINE p == [r.pending EXCEPT !["video"] = IF reset THEN 1 ELSE @ + 1]
  <2>3. b' = [r EXCEPT !.reconfigure = @ /\ ~x.key, !.pending = p]
    BY <1>2 DEF Codec!Decode
  <2>4. /\ p["audio"] = r.pending["audio"]
        /\ p["video"] = IF reset THEN 1 ELSE r.pending["video"] + 1
    BY VideoIsKind DEF BackendRecords
  <2>5. /\ b'.generation = r.generation /\ b'.stopped = r.stopped
        /\ b'.configured = r.configured
        /\ b'.decoder = r.decoder /\ b'.paused = r.paused /\ b'.step = r.step
        /\ b'.queue = r.queue /\ b'.errored = r.errored /\ b'.closing = r.closing
        /\ b'.pending = p
    <3> HIDE DEF p
    <3> QED  BY <2>3 DEF BackendRecords
  <2>6. CASE ~works
    <3>1. dec' = dec /\ threw' = TRUE
      BY <1>2, <2>6 DEF Codec!Decode
    <3> HIDE DEF p, d
    <3> QED  BY <1>2, <2>4, <2>5, <3>1 DEF DecodeDoes, d
  <2>7. CASE works
    <3>1. threw' = threw
      BY <1>2, <2>2, <2>7 DEF Codec!Decode
    <3>2. dec' = [dec EXCEPT ![d] = [dec[d] EXCEPT !.state = "configured",
                                 !.work = IF reset THEN <<x.n>> ELSE Append(@, x.n)]]
      BY <1>2, <2>7 DEF Codec!Decode
    <3>3. /\ \A e \in Codec!Decoders : e # d => dec'[e] = dec[e]
          /\ dec'[d].generation = dec[d].generation /\ dec'[d].state = "configured"
          /\ dec'[d].work = IF reset THEN <<x.n>> ELSE Append(dec[d].work, x.n)
      BY <2>1, <2>2, <3>2 DEF DecoderRecords
    <3>4. ~reset => dec[d].state = "configured"
      BY <2>7
    <3> HIDE DEF p, d, reset
    <3>5. CASE reset
      BY <1>2, <2>4, <2>5, <3>1, <3>3, <3>5 DEF DecodeDoes, d
    <3>6. CASE ~reset
      BY <1>2, <2>4, <2>5, <3>1, <3>3, <3>4, <3>6 DEF DecodeDoes, d
    <3> QED  BY <3>5, <3>6
  <2> QED  BY <2>6, <2>7
<1> QED  BY <1>1, <1>2

CloseDoes(k) ==
  /\ \A d \in Codec!Decoders : dec'[d].generation = dec[d].generation
  /\ \A d \in Codec!Decoders : d # b.decoder[k] => dec'[d] = dec[d]
  /\ \A d \in Codec!Decoders : d = b.decoder[k] => dec'[d].state = "closed" /\ dec'[d].work = <<>>

LEMMA CloseDecoderEffect ==
  ASSUME DTyped, NEW k \in Codec!MediaKinds, Codec!CloseDecoder(k)
  PROVE  CloseDoes(k)
<1>1. \A d \in Codec!Decoders : LET r == [dec[d] EXCEPT !.state = "closed", !.work = <<>>] IN
        r.generation = dec[d].generation /\ r.state = "closed" /\ r.work = <<>>
  BY DEF DTyped, DecoderRecords
<1> QED  BY <1>1 DEF Codec!CloseDecoder, CloseDoes

KeepsAll(r, s) ==
  /\ s.generation = r.generation /\ s.stopped = r.stopped /\ s.configured = r.configured
  /\ s.decoder = r.decoder /\ s.paused = r.paused /\ s.errored = r.errored
  /\ s.closing = r.closing /\ s.pending = r.pending

\* A chunk is decoded: the one that was just pushed, or the first that matches.
Decodes ==
  /\ ~b.stopped
  /\ \E r \in BackendRecords, x \in Chunks :
       /\ KeepsAll(b, r) /\ DecodeDoes(r, x) /\ r.step # "waiting"
       /\ \/ r.paused /\ b.paused
          \/ r.step = b.step /\ r.queue = b.queue
       /\ \/ /\ b.queue = <<>> /\ r.queue = <<>> /\ x.n = pushed + 1 /\ pushed' = pushed + 1
          \/ /\ pushed' = pushed
             /\ \E i \in 1..Len(b.queue) :
                  r.queue = SubSeq(b.queue, i + 1, Len(b.queue)) /\ x = b.queue[i]
  /\ UNCHANGED <<configures, shown, overlap>>

\* A chunk is queued.
Queues ==
  /\ b.paused /\ b.step # "waiting" /\ KeepsAll(b, b') /\ b'.step = b.step
  /\ Len(b.queue) < MaxVideoQueue /\ pushed' = pushed + 1
  /\ \E x \in Chunks : x.n = pushed + 1 /\ b'.queue = Append(b.queue, x)
  /\ UNCHANGED <<dec, threw, configures, shown, overlap>>

Skips == pushed' \in {pushed, pushed + 1} /\ UNCHANGED <<b, dec, threw, configures, shown, overlap>>

LEMMA PushVideoEffect ==
  ASSUME DTyped, QueueWaits, Codec!DecoderAssumption, Codec!PushVideo
  PROVE  Skips \/ Decodes \/ Queues
<1>1. PICK key \in BOOLEAN :
        LET x == [n |-> pushed + 1, key |-> key]
            stepped == b.paused /\ b.step = "waiting"
            dropped == \/ stepped /\ b.keyOnly /\ ~key
                       \/ ~stepped /\ b.paused /\ (~b.keep \/ Len(b.queue) >= MaxVideoQueue)
                       \/ ~b.paused /\ Codec!Total(b) >= MaxPending
        IN \/ dropped /\ UNCHANGED <<b, dec, threw>>
           \/ ~dropped /\ stepped /\ Codec!Decode([b EXCEPT !.step = "dispatched"], x)
           \/ ~dropped /\ ~stepped /\ ~b.paused /\ Codec!Decode(b, x)
           \/ /\ ~dropped /\ ~stepped /\ b.paused
              /\ b' = [b EXCEPT !.queue = Append(@, x)] /\ UNCHANGED <<dec, threw>>
  BY DEF Codec!PushVideo
<1> DEFINE x == [n |-> pushed + 1, key |-> key]
<1> DEFINE r == [b EXCEPT !.step = "dispatched"]
<1>2. /\ pushed' = pushed + 1 /\ UNCHANGED <<configures, shown, overlap>> /\ ~b.stopped
  BY DEF Codec!PushVideo, Codec!Usable
<1>3. x \in Chunks /\ x.n = pushed + 1
  BY DEF Chunks, DTyped
<1>4. /\ r \in BackendRecords /\ b \in BackendRecords /\ KeepsAll(b, r) /\ KeepsAll(b, b)
      /\ r.step = "dispatched" /\ r.queue = b.queue
  BY DEF DTyped, BackendRecords, KeepsAll
<1>5. Len(b.queue) \in Nat /\ b.queue \in Seq(Chunks)
  BY DEF DTyped, BackendRecords
<1>6. \/ UNCHANGED <<b, dec, threw>>
      \/ b.paused /\ b.step = "waiting" /\ Codec!Decode(r, x)
      \/ ~b.paused /\ Codec!Decode(b, x)
      \/ /\ b.paused /\ b.step # "waiting" /\ ~(Len(b.queue) >= MaxVideoQueue)
         /\ b' = [b EXCEPT !.queue = Append(@, x)] /\ UNCHANGED <<dec, threw>>
  BY <1>1
<1> HIDE DEF x, r
<1>7. CASE UNCHANGED <<b, dec, threw>>
  BY <1>2, <1>7 DEF Skips
<1>8. CASE b.paused /\ b.step = "waiting" /\ Codec!Decode(r, x)
  <2>1. DecodeDoes(r, x) /\ b.queue = <<>>
    BY <1>3, <1>4, <1>8, DecodeEffect DEF QueueWaits
  <2>2. r.paused /\ r.step # "waiting"
    BY <1>4, <1>8 DEF KeepsAll
  <2> QED  BY <1>2, <1>3, <1>4, <1>8, <2>1, <2>2 DEF Decodes
<1>9. CASE ~b.paused /\ Codec!Decode(b, x)
  <2>1. DecodeDoes(b, x) /\ b.queue = <<>> /\ b.step = "none"
    BY <1>3, <1>4, <1>9, DecodeEffect DEF QueueWaits
  <2> QED  BY <1>2, <1>3, <1>4, <1>9, <2>1 DEF Decodes
<1>10. CASE /\ b.paused /\ b.step # "waiting" /\ ~(Len(b.queue) >= MaxVideoQueue)
            /\ b' = [b EXCEPT !.queue = Append(@, x)] /\ UNCHANGED <<dec, threw>>
  <2>1. KeepsAll(b, b') /\ b'.step = b.step /\ b'.queue = Append(b.queue, x)
    BY <1>4, <1>10 DEF BackendRecords, KeepsAll
  <2>2. Len(b.queue) < MaxVideoQueue
    BY <1>5, <1>10 DEF Codec!DecoderAssumption
  <2> QED  BY <1>2, <1>3, <1>10, <2>1, <2>2 DEF Queues
<1> QED  BY <1>6, <1>7, <1>8, <1>9, <1>10

\* A frame step waits for a chunk that matches.
Waits ==
  /\ b.paused /\ KeepsAll(b, b') /\ b'.step = "waiting" /\ b'.queue = <<>> /\ pushed' = pushed
  /\ UNCHANGED <<dec, threw, configures, shown, overlap>>

LEMMA FrameStepEffect ==
  ASSUME DTyped, Codec!FrameStep
  PROVE  Waits \/ Decodes
<1>1. PICK keyOnly \in BOOLEAN :
        LET i == Codec!Matching(b.queue, keyOnly)
            r == [b EXCEPT !.keyOnly = keyOnly, !.step = IF i = 0 THEN "waiting" ELSE "dispatched",
                           !.queue = IF i = 0 THEN <<>> ELSE SubSeq(@, i + 1, Len(@))]
        IN IF i = 0 THEN b' = r /\ UNCHANGED <<dec, threw>> ELSE Codec!Decode(r, b.queue[i])
  BY DEF Codec!FrameStep
<1> DEFINE i == Codec!Matching(b.queue, keyOnly)
<1> DEFINE q == IF i = 0 THEN <<>> ELSE SubSeq(b.queue, i + 1, Len(b.queue))
<1> DEFINE st == IF i = 0 THEN "waiting" ELSE "dispatched"
<1> DEFINE r == [b EXCEPT !.keyOnly = keyOnly, !.step = st, !.queue = q]
<1>2. b.queue \in Seq(Chunks) /\ b \in BackendRecords /\ <<>> \in Seq(Chunks)
  BY DEF DTyped, BackendRecords
<1>3. i \in 0..Len(b.queue)
  BY <1>2, MatchingAt
<1>4. q \in Seq(Chunks) /\ st \in {"waiting", "dispatched"}
  BY <1>2, <1>3
<1>5. IF i = 0 THEN b' = r /\ UNCHANGED <<dec, threw>> ELSE Codec!Decode(r, b.queue[i])
  BY <1>1
<1>6. r \in BackendRecords /\ KeepsAll(b, r) /\ r.step = st /\ r.queue = q /\ r.paused
  <2>1. b.paused
    BY DEF Codec!FrameStep
  <2> HIDE DEF q, st
  <2> QED  BY <1>2, <1>4, <2>1 DEF BackendRecords, KeepsAll
<1>7. UNCHANGED <<pushed, configures, shown, overlap>> /\ ~b.stopped /\ b.paused
  BY DEF Codec!FrameStep, Codec!Usable
<1> HIDE DEF r, i
<1>8. CASE i = 0
  BY <1>5, <1>6, <1>7, <1>8 DEF Waits
<1>9. CASE i # 0
  <2>1. i \in 1..Len(b.queue) /\ b.queue[i] \in Chunks
    BY <1>2, <1>3, <1>9
  <2>2. DecodeDoes(r, b.queue[i])
    BY <1>5, <1>6, <1>9, <2>1, DecodeEffect
  <2> QED  BY <1>6, <1>7, <1>9, <2>1, <2>2 DEF Decodes
<1> QED  BY <1>8, <1>9

\* An output is given to the application, or forgotten with its generation.
Outputs(d) ==
  LET k == d[2]
  IN
  /\ dec[d].work # <<>> /\ dec'[d].work = Tail(dec[d].work)
  /\ dec'[d].state = dec[d].state /\ dec'[d].generation = dec[d].generation
  /\ \A e \in Codec!Decoders : e # d => dec'[e] = dec[e]
  /\ UNCHANGED <<configures, pushed, overlap, threw>>
  /\ b'.generation = b.generation /\ b'.stopped = b.stopped /\ b'.configured = b.configured
  /\ b'.decoder = b.decoder /\ b'.paused = b.paused /\ b'.queue = b.queue
  /\ b'.step \in {b.step, "none"}
  /\ \/ /\ b.stopped \/ b.errored \/ dec[d].generation # b.generation
        /\ b' = b /\ shown' = shown
     \/ /\ ~b.stopped /\ dec[d].generation = b.generation
        /\ \/ shown' = shown
           \/ k = "video" /\ shown' = Append(shown, Head(dec[d].work))
        /\ \/ /\ b'.errored = b.errored /\ b'.closing = b.closing
              /\ b'.pending = [b.pending EXCEPT ![k] = @ - 1]
           \/ /\ b'.errored /\ b'.closing # "no"
              /\ b'.closing = "audio" => b.closing = "audio"

LEMMA OutputEffect ==
  ASSUME DTyped, NEW d \in Codec!Decoders, Codec!Output(d)
  PROVE  Outputs(d)
<1> DEFINE k == d[2]
<1> DEFINE p == [b.pending EXCEPT ![k] = @ - 1]
<1> DEFINE r == [b EXCEPT !.pending = p,
                          !.step = IF k = "video" THEN "none" ELSE @,
                          !.keyOnly = IF k = "video" /\ b.step # "none" THEN FALSE ELSE @]
<1>1. k \in Codec!MediaKinds /\ dec[d] \in DecoderRecords
      /\ dec \in [Codec!Decoders -> DecoderRecords]
  BY DEF Codec!Decoders, DTyped
<1>2. dec' = [dec EXCEPT ![d] = [dec[d] EXCEPT !.work = Tail(@)]] /\ dec[d].work # <<>>
  BY DEF Codec!Output
<1>3. /\ dec'[d].work = Tail(dec[d].work)
      /\ dec'[d].state = dec[d].state /\ dec'[d].generation = dec[d].generation
      /\ \A e \in Codec!Decoders : e # d => dec'[e] = dec[e]
  BY <1>1, <1>2 DEF DecoderRecords
<1>4. p \in [Codec!MediaKinds -> Int]
  BY <1>1 DEF DTyped, BackendRecords
<1>5. /\ r \in BackendRecords /\ r.pending = p
      /\ r.generation = b.generation /\ r.stopped = b.stopped /\ r.configured = b.configured
      /\ r.decoder = b.decoder /\ r.paused = b.paused /\ r.queue = b.queue
      /\ r.errored = b.errored /\ r.closing = b.closing /\ r.step \in {b.step, "none"}
  <2> HIDE DEF p, k
  <2> QED  BY <1>4 DEF DTyped, BackendRecords
<1>6. UNCHANGED <<configures, pushed, overlap, threw>>
  BY DEF Codec!Output
<1>7. \/ (b.stopped \/ b.errored \/ dec[d].generation # b.generation) /\ b' = b /\ shown' = shown
      \/ /\ ~b.stopped /\ ~b.errored /\ dec[d].generation = b.generation
         /\ shown' = shown \/ (k = "video" /\ shown' = Append(shown, Head(dec[d].work)))
         /\ b' = r \/ b' = Codec!HandleError(r)
  BY DEF Codec!Output
<1>8. HandlingDoes(r, Codec!HandleError(r))
  BY <1>5, HandleErrorEffect
<1> HIDE DEF r, p, k
<1>9. CASE (b.stopped \/ b.errored \/ dec[d].generation # b.generation) /\ b' = b /\ shown' = shown
  BY <1>2, <1>3, <1>6, <1>9 DEF Outputs, k
<1>10. CASE /\ ~b.stopped /\ ~b.errored /\ dec[d].generation = b.generation
            /\ shown' = shown \/ (k = "video" /\ shown' = Append(shown, Head(dec[d].work)))
            /\ b' = r \/ b' = Codec!HandleError(r)
  <2>1. CASE b' = r
    BY <1>2, <1>3, <1>5, <1>6, <1>10, <2>1 DEF Outputs, k, p
  <2>2. CASE b' = Codec!HandleError(r)
    <3>1. /\ b'.generation = b.generation /\ b'.stopped = b.stopped
          /\ b'.configured = b.configured
          /\ b'.decoder = b.decoder /\ b'.paused = b.paused /\ b'.queue = b.queue
          /\ b'.step \in {b.step, "none"} /\ b'.errored /\ b'.closing # "no"
          /\ b'.closing = "audio" => b.closing = "audio"
      BY <1>5, <1>8, <1>10, <2>2 DEF HandlingDoes
    <3> QED  BY <1>2, <1>3, <1>6, <1>10, <3>1 DEF Outputs, k
  <2> QED  BY <1>10, <2>1, <2>2
<1> QED  BY <1>7, <1>9, <1>10

Creates(c, ks) ==
  /\ configures[c] = "checking" /\ c \in Configures /\ "video" \in ks
       /\ ks \in SUBSET Codec!MediaKinds
  /\ b'.generation = b.generation + 1 /\ ~b'.stopped
  /\ \/ configures' = [configures EXCEPT ![c] = "returned"] /\ b'.configured
     \/ configures' = [configures EXCEPT ![c] = "video"] /\ b'.configured = b.configured
  /\ b'.closing = b.closing /\ b'.errored = b.errored /\ b'.pending = b.pending
  /\ b'.paused = b.paused /\ b'.step = b.step /\ b'.queue = b.queue
  /\ \A k \in Codec!MediaKinds : b'.decoder[k] = IF k \in ks THEN <<c, k>> ELSE b.decoder[k]
  /\ \A d \in Codec!Decoders :
       IF d[1] = c /\ d[2] \in ks
       THEN dec'[d].generation = b.generation + 1 /\ dec'[d].work = <<>>
            /\ dec'[d].state \in {"configured", "unconfigured"}
       ELSE dec'[d] = dec[d]
  /\ UNCHANGED <<pushed, shown, overlap, threw>>

LEMMA CreatedEffect ==
  ASSUME DTyped, NEW c \in Configures, Codec!Created(c)
  PROVE  \E ks \in SUBSET Codec!MediaKinds : Creates(c, ks)
<1>1. PICK ks \in SUBSET Codec!MediaKinds, works \in BOOLEAN : "video" \in ks
      /\ Codec!Create(c, ks, works)
  BY VideoIsKind DEF Codec!Created
<1> DEFINE ds == [k \in Codec!MediaKinds |-> IF k \in ks THEN <<c, k>> ELSE b.decoder[k]]
<1>2. /\ configures[c] = "checking"
      /\ b' = [b EXCEPT !.generation = @ + 1, !.stopped = FALSE, !.configured = works \/ @,
                        !.decoder = ds]
      /\ configures' = [configures EXCEPT ![c] = IF works THEN "returned" ELSE "video"]
      /\ UNCHANGED <<pushed, shown, overlap, threw>>
  BY <1>1 DEF Codec!Create
<1>3. /\ b'.generation = b.generation + 1 /\ ~b'.stopped /\ b'.configured = (works \/ b.configured)
      /\ b'.closing = b.closing /\ b'.errored = b.errored /\ b'.pending = b.pending
      /\ b'.paused = b.paused /\ b'.step = b.step /\ b'.queue = b.queue /\ b'.decoder = ds
  <2> HIDE DEF ds
  <2> QED  BY <1>2 DEF DTyped, BackendRecords
<1>4. \A d \in Codec!Decoders :
       IF d[1] = c /\ d[2] \in ks
       THEN /\ dec'[d].generation = b.generation + 1 /\ dec'[d].work = <<>>
            /\ dec'[d].state \in {"configured", "unconfigured"}
       ELSE dec'[d] = dec[d]
  BY <1>1 DEF Codec!Create
<1>5. \/ configures' = [configures EXCEPT ![c] = "returned"] /\ b'.configured
      \/ configures' = [configures EXCEPT ![c] = "video"] /\ b'.configured = b.configured
  <2>1. b.configured \in BOOLEAN
    BY DEF DTyped, BackendRecords
  <2> QED  BY <1>2, <1>3, <2>1
<1>6. \A k \in Codec!MediaKinds : b'.decoder[k] = IF k \in ks THEN <<c, k>> ELSE b.decoder[k]
  BY <1>3
<1> QED  BY <1>1, <1>2, <1>3, <1>4, <1>5, <1>6 DEF Creates

\* closeDecoder() in configure()'s catch block, and in stop().
Releases(k, ends) ==
  /\ k \in Codec!MediaKinds /\ CloseDoes(k)
  /\ b'.decoder = [b.decoder EXCEPT ![k] = Codec!None] /\ b'.step \in {b.step, "none"}
  /\ IF ends THEN /\ b'.stopped /\ ~b'.configured /\ b'.pending = [x \in Codec!MediaKinds |-> 0]
                  /\ b'.generation = b.generation + 1
             ELSE /\ b'.stopped = b.stopped /\ b'.configured = b.configured
                  /\ b'.pending = b.pending /\ b'.generation = b.generation
  /\ UNCHANGED <<pushed, shown, overlap, threw>>

LEMMA UnwindEffect ==
  ASSUME DTyped, NEW c \in Configures, Codec!Unwind(c)
  PROVE  /\ Releases(configures[c], configures[c] = "audio")
         /\ b'.closing = b.closing /\ b'.errored = b.errored /\ b'.paused = b.paused
         /\ b'.step = b.step /\ b'.queue = b.queue
         /\ configures' = [configures EXCEPT ![c] =
                             IF configures[c] = "video" THEN "audio" ELSE "returned"]
<1> DEFINE k == configures[c]
<1> DEFINE ds == [b.decoder EXCEPT ![k] = Codec!None]
<1> DEFINE zero == [x \in Codec!MediaKinds |-> 0]
<1>1. k \in Codec!MediaKinds /\ CloseDoes(k) /\ UNCHANGED <<pushed, shown, overlap, threw>>
  BY CloseDecoderEffect DEF Codec!Unwind
<1>2. b' = IF k = "video" THEN [b EXCEPT !.decoder = ds]
           ELSE [b EXCEPT !.decoder = ds, !.stopped = TRUE, !.configured = FALSE,
                            !.pending = zero, !.generation = @ + 1, !.reconfigure = FALSE]
  BY DEF Codec!Unwind
<1>3. configures' = [configures EXCEPT ![c] = IF k = "video" THEN "audio" ELSE "returned"]
  BY DEF Codec!Unwind
<1>4. k = "video" \/ k = "audio"
  BY <1>1 DEF Codec!MediaKinds
<1> HIDE DEF ds, zero, k
<1>5. /\ b'.closing = b.closing /\ b'.errored = b.errored /\ b'.paused = b.paused
      /\ b'.step = b.step /\ b'.queue = b.queue /\ b'.decoder = ds
      /\ IF k = "audio"
         THEN b'.stopped /\ ~b'.configured /\ b'.pending = zero /\ b'.generation = b.generation + 1
         ELSE /\ b'.stopped = b.stopped /\ b'.configured = b.configured
              /\ b'.pending = b.pending /\ b'.generation = b.generation
  BY <1>2, <1>4 DEF DTyped, BackendRecords
<1> QED  BY <1>1, <1>3, <1>5 DEF Releases, k, ds, zero

LEMMA CloseEffect ==
  ASSUME DTyped, Codec!Close
  PROVE  /\ Releases(b.closing, b.closing = "audio")
         /\ IF b.closing = "audio"
            THEN /\ b'.closing = "no" /\ ~b'.errored /\ ~b'.paused /\ b'.step = "none"
                 /\ b'.queue = <<>>
            ELSE /\ b'.closing = "audio" /\ b'.errored = b.errored /\ b'.paused = b.paused
                 /\ b'.step = b.step /\ b'.queue = b.queue
         /\ UNCHANGED configures
<1> DEFINE k == b.closing
<1> DEFINE ds == [b.decoder EXCEPT ![k] = Codec!None]
<1> DEFINE zero == [x \in Codec!MediaKinds |-> 0]
<1>1. k \in Codec!MediaKinds /\ CloseDoes(k)
      /\ UNCHANGED <<pushed, shown, overlap, threw, configures>>
  BY CloseDecoderEffect DEF Codec!Close
<1>2. b' = IF k = "video" THEN [b EXCEPT !.decoder = ds, !.closing = "audio"]
           ELSE [b EXCEPT !.decoder = ds, !.closing = "no", !.stopped = TRUE,
                         !.errored = FALSE, !.configured = FALSE,
                         !.pending = zero, !.paused = FALSE, !.keep = FALSE,
                         !.step = "none", !.keyOnly = FALSE, !.queue = <<>>,
                         !.generation = @ + 1, !.reconfigure = FALSE]
  BY DEF Codec!Close
<1>4. k = "video" \/ k = "audio"
  BY <1>1 DEF Codec!MediaKinds
<1> HIDE DEF ds, zero, k
<1>5. CASE k = "audio"
  <2>1. /\ b'.closing = "no" /\ ~b'.errored /\ ~b'.paused /\ b'.step = "none"
        /\ b'.queue = <<>> /\ b'.decoder = ds
        /\ b'.stopped /\ ~b'.configured /\ b'.pending = zero /\ b'.generation = b.generation + 1
    BY <1>2, <1>5 DEF DTyped, BackendRecords
  <2> QED  BY <1>1, <1>5, <2>1 DEF Releases, k, ds, zero
<1>6. CASE k = "video"
  <2>1. /\ b'.closing = "audio" /\ b'.errored = b.errored /\ b'.paused = b.paused
        /\ b'.step = b.step /\ b'.queue = b.queue /\ b'.decoder = ds
        /\ b'.stopped = b.stopped /\ b'.configured = b.configured
        /\ b'.pending = b.pending /\ b'.generation = b.generation
    BY <1>2, <1>6 DEF DTyped, BackendRecords
  <2> QED  BY <1>1, <1>6, <2>1 DEF Releases, k, ds, zero
<1> QED  BY <1>4, <1>5, <1>6

Pauses ==
  /\ ~b.stopped /\ ~b.errored /\ b.configured /\ b'.paused
  /\ b'.generation = b.generation /\ b'.stopped = b.stopped /\ b'.configured = b.configured
  /\ b'.decoder = b.decoder /\ b'.errored = b.errored /\ b'.closing = b.closing
  /\ UNCHANGED <<configures, pushed, shown, overlap, threw>>
  /\ \/ b'.pending = b.pending /\ b'.step = b.step /\ b'.queue = b.queue /\ dec' = dec
     \/ /\ b'.pending = [k \in Codec!MediaKinds |-> 0] /\ b'.step = "none" /\ b'.queue = <<>>
        /\ \A d \in Codec!Decoders :
             IF \E k \in Codec!MediaKinds : b.decoder[k] = d
             THEN dec'[d].state = "unconfigured" /\ dec'[d].work = <<>>
                  /\ dec'[d].generation = dec[d].generation
             ELSE dec'[d] = dec[d]

LEMMA PauseEffect == DTyped /\ Codec!PauseDisplay => Pauses
<1> SUFFICES ASSUME DTyped, Codec!PauseDisplay PROVE Pauses
  OBVIOUS
<1> DEFINE zero == [k \in Codec!MediaKinds |-> 0]
<1>1. /\ ~b.stopped /\ ~b.errored /\ b.configured
      /\ UNCHANGED <<configures, pushed, shown, overlap, threw>>
      /\ \/ b' = [b EXCEPT !.paused = TRUE, !.keep = TRUE] /\ dec' = dec
         \/ /\ b' = [b EXCEPT !.paused = TRUE, !.keep = FALSE, !.step = "none", !.queue = <<>>,
                          !.pending = zero]
            /\ dec' = [d \in Codec!Decoders |->
                     IF \E k \in Codec!MediaKinds : b.decoder[k] = d
                       THEN [dec[d] EXCEPT !.state = "unconfigured", !.work = <<>>]
                       ELSE dec[d]]
  BY DEF Codec!PauseDisplay, Codec!Usable
<1>2. \A d \in Codec!Decoders : LET r == [dec[d] EXCEPT !.state = "unconfigured", !.work = <<>>] IN
        r.generation = dec[d].generation /\ r.state = "unconfigured" /\ r.work = <<>>
  BY DEF DTyped, DecoderRecords
<1> HIDE DEF zero
<1>3. CASE b' = [b EXCEPT !.paused = TRUE, !.keep = TRUE] /\ dec' = dec
  <2>1. /\ b'.generation = b.generation /\ b'.stopped = b.stopped /\ b'.configured = b.configured
        /\ b'.decoder = b.decoder /\ b'.errored = b.errored /\ b'.closing = b.closing
        /\ b'.paused /\ b'.pending = b.pending /\ b'.step = b.step /\ b'.queue = b.queue
    BY <1>3 DEF DTyped, BackendRecords
  <2> QED  BY <1>1, <1>3, <2>1 DEF Pauses
<1>4. CASE /\ b' = [b EXCEPT !.paused = TRUE, !.keep = FALSE, !.step = "none", !.queue = <<>>,
                          !.pending = zero]
           /\ dec' = [d \in Codec!Decoders |->
                     IF \E k \in Codec!MediaKinds : b.decoder[k] = d
                       THEN [dec[d] EXCEPT !.state = "unconfigured", !.work = <<>>]
                       ELSE dec[d]]
  <2>1. /\ b'.generation = b.generation /\ b'.stopped = b.stopped /\ b'.configured = b.configured
        /\ b'.decoder = b.decoder /\ b'.errored = b.errored /\ b'.closing = b.closing
        /\ b'.paused /\ b'.pending = zero /\ b'.step = "none" /\ b'.queue = <<>>
    BY <1>4 DEF DTyped, BackendRecords
  <2>2. \A d \in Codec!Decoders :
             IF \E k \in Codec!MediaKinds : b.decoder[k] = d
             THEN dec'[d].state = "unconfigured" /\ dec'[d].work = <<>>
                  /\ dec'[d].generation = dec[d].generation
             ELSE dec'[d] = dec[d]
    BY <1>2, <1>4
  <2> QED  BY <1>1, <2>1, <2>2 DEF Pauses, zero
<1> QED  BY <1>1, <1>3, <1>4

Fails(d) ==
  /\ Codec!IsOpen(d) /\ UNCHANGED <<configures, pushed, shown, overlap, threw>>
  /\ dec'[d].state = "closed" /\ dec'[d].work = <<>> /\ dec'[d].generation = dec[d].generation
  /\ \A e \in Codec!Decoders : e # d => dec'[e] = dec[e]
  /\ HandlingDoes(b, b')

LEMMA DecoderFailsEffect ==
  ASSUME DTyped, NEW d \in Codec!Decoders, Codec!DecoderFails(d)
  PROVE  Fails(d)
<1>1. dec' = [dec EXCEPT ![d] = [dec[d] EXCEPT !.state = "closed", !.work = <<>>]]
  BY DEF Codec!DecoderFails
<1>2. /\ dec'[d].state = "closed" /\ dec'[d].work = <<>> /\ dec'[d].generation = dec[d].generation
      /\ \A e \in Codec!Decoders : e # d => dec'[e] = dec[e]
  BY <1>1 DEF DTyped, DecoderRecords
<1>3. HandlingDoes(b, b')
  BY HandleErrorEffect DEF Codec!DecoderFails, DTyped
<1> QED  BY <1>2, <1>3 DEF Codec!DecoderFails, Fails

PushesAudio ==
  LET d == b.decoder["audio"] IN
  /\ d # Codec!None /\ ~b.stopped /\ pushed' = pushed + 1
  /\ UNCHANGED <<configures, shown, overlap>>
  /\ b'.generation = b.generation /\ b'.stopped = b.stopped /\ b'.configured = b.configured
  /\ b'.decoder = b.decoder /\ b'.errored = b.errored /\ b'.closing = b.closing
  /\ b'.paused = b.paused /\ b'.step = b.step /\ b'.queue = b.queue
  /\ b'.pending["video"] = b.pending["video"]
  /\ \A e \in Codec!Decoders : e # d => dec'[e] = dec[e]
  /\ \/ b'.pending["audio"] = b.pending["audio"] /\ dec' = dec /\ threw' = threw
     \/ threw' = TRUE /\ dec' = dec
     \/ /\ dec[d].state = "configured" /\ dec'[d].state = "configured" /\ threw' = threw
        /\ dec'[d].work = Append(dec[d].work, pushed') /\ dec'[d].generation = dec[d].generation
        /\ b'.pending["audio"] = b.pending["audio"] + 1

LEMMA PushAudioEffect == DTyped /\ Codec!PushAudio => PushesAudio
<1> SUFFICES ASSUME DTyped, Codec!PushAudio PROVE PushesAudio
  OBVIOUS
<1> DEFINE d == b.decoder["audio"]
<1> DEFINE p == [b.pending EXCEPT !["audio"] = @ + 1]
<1>1. /\ d # Codec!None /\ ~b.stopped /\ pushed' = pushed + 1
           /\ UNCHANGED <<configures, shown, overlap>>
      /\ \/ UNCHANGED <<b, dec, threw>>
         \/ /\ b' = [b EXCEPT !.pending = p]
            /\ \/ /\ dec[d].state = "configured" /\ threw' = threw
                  /\ dec' = [dec EXCEPT ![d] = [dec[d] EXCEPT !.work = Append(@, pushed')]]
               \/ threw' = TRUE /\ dec' = dec
  BY DEF Codec!PushAudio, Codec!Usable
<1>2. d \in Codec!Decoders
  BY <1>1, VideoIsKind DEF DTyped, BackendRecords
<1>3. p["video"] = b.pending["video"] /\ p["audio"] = b.pending["audio"] + 1
  BY VideoIsKind DEF DTyped, BackendRecords
<1>4. dec[d] \in DecoderRecords /\ dec \in [Codec!Decoders -> DecoderRecords]
  BY <1>2 DEF DTyped
<1> HIDE DEF p, d
<1>5. CASE UNCHANGED <<b, dec, threw>>
  BY <1>1, <1>5 DEF PushesAudio, d
<1>6. CASE /\ b' = [b EXCEPT !.pending = p]
           /\ \/ /\ dec[d].state = "configured" /\ threw' = threw
                 /\ dec' = [dec EXCEPT ![d] = [dec[d] EXCEPT !.work = Append(@, pushed')]]
              \/ threw' = TRUE /\ dec' = dec
  <2>1. /\ b'.generation = b.generation /\ b'.stopped = b.stopped /\ b'.configured = b.configured
        /\ b'.decoder = b.decoder /\ b'.errored = b.errored /\ b'.closing = b.closing
        /\ b'.paused = b.paused /\ b'.step = b.step /\ b'.queue = b.queue /\ b'.pending = p
    BY <1>6 DEF DTyped, BackendRecords
  <2>2. CASE threw' = TRUE /\ dec' = dec
    BY <1>1, <1>3, <2>1, <2>2 DEF PushesAudio, d
  <2>3. CASE /\ dec[d].state = "configured" /\ threw' = threw
             /\ dec' = [dec EXCEPT ![d] = [dec[d] EXCEPT !.work = Append(@, pushed')]]
    <3>1. /\ dec'[d].work = Append(dec[d].work, pushed') /\ dec'[d].state = "configured"
          /\ dec'[d].generation = dec[d].generation
          /\ \A e \in Codec!Decoders : e # d => dec'[e] = dec[e]
      BY <1>2, <1>4, <2>3 DEF DecoderRecords
    <3> QED  BY <1>1, <1>3, <2>1, <2>3, <3>1 DEF PushesAudio, d
  <2> QED  BY <1>6, <2>2, <2>3
<1> QED  BY <1>1, <1>5, <1>6

LEMMA MarkEffect ==
  DTyped /\ Codec!MarkVideoConfigChanged =>
    /\ KeepsAll(b, b') /\ b'.step = b.step /\ b'.queue = b.queue
    /\ UNCHANGED <<dec, configures, pushed, shown, overlap, threw>>
BY DEF DTyped, BackendRecords, Codec!MarkVideoConfigChanged, KeepsAll

LEMMA StopEffect ==
  DTyped /\ Codec!Stop =>
    /\ StoppingDoes(b, b') /\ b.closing = "no" /\ overlap' = (overlap \/ Codec!Configuring)
    /\ UNCHANGED <<dec, configures, pushed, shown, threw>>
BY StoppingEffect DEF DTyped, Codec!Stop

LEMMA ConfigureEffect ==
  ASSUME DTyped, NEW c \in Configures, Codec!Configure(c) \/ Codec!Unsupported(c)
  PROVE  UNCHANGED <<b, dec, pushed, shown, threw>>
BY DEF Codec!Configure, Codec!Unsupported

-----------------------------------------------------------------------------
(* The invariant, action by action *)

LEMMA QueueNext ==
  ASSUME DTyped, Codec!DecoderAssumption, QueueWaits, Codec!Next
  PROVE  QueueWaits'
<1>0. Len(<<>>) = 0 /\ MaxVideoQueue \in Nat /\ b.queue \in Seq(Chunks)
  BY DEF Codec!DecoderAssumption, DTyped, BackendRecords
<1> DEFINE Still == /\ b'.paused = b.paused /\ b'.step \in {b.step, "none"}
                    /\ b'.queue \in {b.queue, <<>>}
<1>1. ASSUME Still PROVE QueueWaits'
  BY <1>0, <1>1 DEF QueueWaits
<1>2. ASSUME NEW c \in Configures, Codec!Configure(c) \/ Codec!Unsupported(c) PROVE QueueWaits'
  BY <1>1, <1>2, ConfigureEffect
<1>3. ASSUME NEW c \in Configures, Codec!Created(c) PROVE QueueWaits'
  BY <1>1, <1>3, CreatedEffect DEF Creates
<1>4. ASSUME NEW c \in Configures, Codec!Unwind(c) PROVE QueueWaits'
  BY <1>1, <1>4, UnwindEffect DEF Releases
<1>5. CASE Codec!Stop
  BY <1>1, <1>5, StopEffect DEF StoppingDoes
<1>6. CASE Codec!Close
  <2>1. \/ ~b'.paused /\ b'.step = "none" /\ b'.queue = <<>>
        \/ Still
    BY <1>6, CloseEffect
  <2> QED  BY <1>0, <1>1, <2>1 DEF QueueWaits
<1>7. ASSUME Skips \/ Queues \/ Waits PROVE QueueWaits'
  <2>1. CASE Skips
    BY <1>1, <2>1 DEF Skips
  <2>2. CASE Queues
    <3>1. PICK x \in Chunks : b'.queue = Append(b.queue, x)
      BY <2>2 DEF Queues
    <3>2. Len(b'.queue) <= MaxVideoQueue
      BY <1>0, <2>2, <3>1 DEF Queues
    <3> QED  BY <2>2, <3>2 DEF Queues, QueueWaits, KeepsAll
  <2>3. CASE Waits
    BY <1>0, <2>3 DEF Waits, QueueWaits, KeepsAll
  <2> QED  BY <1>7, <2>1, <2>2, <2>3
<1>8. ASSUME Decodes PROVE QueueWaits'
  <2>1. PICK r \in BackendRecords, x \in Chunks :
       /\ KeepsAll(b, r) /\ DecodeDoes(r, x) /\ r.step # "waiting"
       /\ \/ r.paused /\ b.paused
          \/ r.step = b.step /\ r.queue = b.queue
       /\ \/ b.queue = <<>> /\ r.queue = <<>>
          \/ \E i \in 1..Len(b.queue) : r.queue = SubSeq(b.queue, i + 1, Len(b.queue))
    BY <1>8 DEF Decodes
  <2>2. b'.paused = b.paused /\ b'.step = r.step /\ b'.queue = r.queue
    BY <2>1 DEF KeepsAll, DecodeDoes
  <2>3. Len(r.queue) <= MaxVideoQueue
    <3>1. CASE r.queue = <<>>
      BY <1>0, <3>1
    <3>2. ASSUME NEW i \in 1..Len(b.queue), r.queue = SubSeq(b.queue, i + 1, Len(b.queue))
          PROVE  Len(r.queue) <= MaxVideoQueue
      <4>1. Len(r.queue) <= Len(b.queue) /\ Len(r.queue) \in Nat /\ Len(b.queue) \in Nat
        BY <1>0, <3>2
      <4>2. Len(b.queue) <= MaxVideoQueue
        BY DEF QueueWaits
      <4> QED  BY <1>0, <4>1, <4>2
    <3> QED  BY <2>1, <3>1, <3>2
  <2> QED  BY <2>1, <2>2, <2>3 DEF QueueWaits
<1>9. CASE Codec!PushVideo
  BY <1>7, <1>8, <1>9, PushVideoEffect
<1>10. CASE Codec!FrameStep
  BY <1>7, <1>8, <1>10, FrameStepEffect
<1>11. CASE Codec!PushAudio
  BY <1>1, <1>11, PushAudioEffect DEF PushesAudio
<1>12. CASE Codec!MarkVideoConfigChanged
  BY <1>1, <1>12, MarkEffect DEF KeepsAll
<1>13. CASE Codec!PauseDisplay
  BY <1>0, <1>13, PauseEffect DEF Pauses, QueueWaits
<1>14. ASSUME NEW d \in Codec!Decoders, Codec!Output(d) PROVE QueueWaits'
  BY <1>1, <1>14, OutputEffect DEF Outputs
<1>15. ASSUME NEW d \in Codec!Decoders, Codec!DecoderFails(d) PROVE QueueWaits'
  BY <1>1, <1>15, DecoderFailsEffect DEF Fails, HandlingDoes
<1> QED  BY <1>2, <1>3, <1>4, <1>5, <1>6, <1>9, <1>10, <1>11, <1>12, <1>13, <1>14, <1>15
           DEF Codec!Next

\* All but the creation of decoders.
Quiet ==
  /\ \A k \in Codec!MediaKinds : b'.decoder[k] \in {b.decoder[k], Codec!None}
  /\ b'.generation \in {b.generation, b.generation + 1}
  /\ \A d \in Codec!Decoders : dec'[d].generation = dec[d].generation
  /\ \A d \in Codec!Decoders :
       dec'[d].work # <<>> => dec[d].work # <<>> \/ \E k \in Codec!MediaKinds : d = b.decoder[k]

LEMMA QuietSteps ==
  ASSUME DTyped, Codec!DecoderAssumption, QueueWaits, Codec!Next
  PROVE  Quiet \/ \E c \in Configures : Codec!Created(c)
<1>0. b.generation \in Nat /\ b.decoder \in [Codec!MediaKinds -> Codec!Decoders \cup {Codec!None}]
  BY DEF DTyped, BackendRecords
<1>2. ASSUME NEW c \in Configures, Codec!Configure(c) \/ Codec!Unsupported(c) PROVE Quiet
  BY <1>2, ConfigureEffect DEF Quiet
<1>1. ASSUME NEW k \in Codec!MediaKinds, NEW e, Releases(k, e) PROVE Quiet
  <2>1. \A x \in Codec!MediaKinds : b'.decoder[x] \in {b.decoder[x], Codec!None}
    BY <1>0, <1>1 DEF Releases
  <2>2. b'.generation \in {b.generation, b.generation + 1}
    BY <1>1 DEF Releases
  <2>3. \A d \in Codec!Decoders : dec'[d].generation = dec[d].generation /\
          (dec'[d].work # <<>> => dec[d].work # <<>>)
    BY <1>1 DEF Releases, CloseDoes
  <2> QED  BY <2>1, <2>2, <2>3 DEF Quiet
<1>4. ASSUME NEW c \in Configures, Codec!Unwind(c) PROVE Quiet
  BY <1>1, <1>4, UnwindEffect DEF Releases
<1>5. CASE Codec!Stop
  BY <1>5, StopEffect DEF StoppingDoes, Quiet
<1>6. CASE Codec!Close
  BY <1>1, <1>6, CloseEffect DEF Releases
<1>7. ASSUME Skips \/ Queues \/ Waits PROVE Quiet
  BY <1>7 DEF Skips, Queues, Waits, KeepsAll, Quiet
<1>8. ASSUME Decodes PROVE Quiet
  <2>1. PICK r \in BackendRecords, x \in Chunks : KeepsAll(b, r) /\ DecodeDoes(r, x)
    BY <1>8 DEF Decodes
  <2>2. b'.decoder = b.decoder /\ b'.generation = b.generation /\ r.decoder = b.decoder
    BY <2>1 DEF KeepsAll, DecodeDoes
  <2>3. \A d \in Codec!Decoders : dec'[d] = dec[d] \/ (d = b.decoder["video"] /\
                               dec'[d].generation = dec[d].generation)
    BY <2>1, <2>2, NoneDiffers DEF DecodeDoes
  <2> QED  BY <2>2, <2>3, VideoIsKind DEF Quiet
<1>9. CASE Codec!PushVideo
  BY <1>7, <1>8, <1>9, PushVideoEffect
<1>10. CASE Codec!FrameStep
  BY <1>7, <1>8, <1>10, FrameStepEffect
<1>11. CASE Codec!PushAudio
  BY <1>11, PushAudioEffect, VideoIsKind DEF PushesAudio, Quiet
<1>12. CASE Codec!MarkVideoConfigChanged
  BY <1>12, MarkEffect DEF KeepsAll, Quiet
<1>13. CASE Codec!PauseDisplay
  <2>1. b'.decoder = b.decoder /\ b'.generation = b.generation
    BY <1>13, PauseEffect DEF Pauses
  <2>2. \A d \in Codec!Decoders : dec'[d] = dec[d]
                 \/ (dec'[d].work = <<>> /\ dec'[d].generation = dec[d].generation)
    BY <1>13, PauseEffect DEF Pauses
  <2> QED  BY <2>1, <2>2 DEF Quiet
<1>14. ASSUME NEW d \in Codec!Decoders, Codec!Output(d) PROVE Quiet
  <2>1. Outputs(d)
    BY <1>14, OutputEffect
  <2> QED  BY <2>1 DEF Outputs, Quiet
<1>15. ASSUME NEW d \in Codec!Decoders, Codec!DecoderFails(d) PROVE Quiet
  <2>1. Fails(d)
    BY <1>15, DecoderFailsEffect
  <2> QED  BY <2>1 DEF Fails, HandlingDoes, Quiet
<1> QED  BY <1>2, <1>4, <1>5, <1>6, <1>9, <1>10, <1>11, <1>12, <1>13, <1>14, <1>15 DEF Codec!Next

LEMMA GenerationsNext ==
  ASSUME DTyped, DTyped', Codec!DecoderAssumption, QueueWaits, DKinds, Generations, Codec!Next
  PROVE  DKinds' /\ Generations'
<1>0. /\ b.generation \in Nat /\ b'.generation \in Nat
      /\ b.decoder \in [Codec!MediaKinds -> Codec!Decoders \cup {Codec!None}]
      /\ \A d \in Codec!Decoders : dec[d].generation \in Nat /\ dec'[d].generation \in Nat
  BY DEF DTyped, BackendRecords, DecoderRecords
<1>1. CASE Quiet
  <2>1. DKinds'
    BY <1>1 DEF Quiet, DKinds
  <2>2. \A d \in Codec!Decoders : dec'[d].generation <= b'.generation
    BY <1>0, <1>1 DEF Quiet, Generations
  <2>3. \A k \in Codec!MediaKinds : b.decoder[k] # Codec!None => dec[b.decoder[k]].generation # 0
    BY DEF Generations
  <2>4. \A d \in Codec!Decoders : dec'[d].work # <<>> => dec'[d].generation # 0
    BY <1>1, <2>3, NoneDiffers DEF Quiet, Generations
  <2>5. \A k \in Codec!MediaKinds : b'.decoder[k] # Codec!None => dec'[b'.decoder[k]].generation # 0
    BY <1>0, <1>1, <2>3 DEF Quiet
  <2>6. \A d, e \in Codec!Decoders :
          d[2] = "video" /\ e[2] = "video" /\ dec'[d].generation = dec'[e].generation
            => d = e \/ dec'[d].generation = 0
    BY <1>1 DEF Quiet, Generations
  <2> QED  BY <2>1, <2>2, <2>4, <2>5, <2>6 DEF Generations
<1>2. ASSUME NEW c \in Configures, Codec!Created(c) PROVE DKinds' /\ Generations'
  <2>1. PICK ks \in SUBSET Codec!MediaKinds : Creates(c, ks)
    BY <1>2, CreatedEffect
  <2>2. \A k \in Codec!MediaKinds : b'.decoder[k] = IF k \in ks THEN <<c, k>> ELSE b.decoder[k]
    BY <2>1 DEF Creates
  <2>3. \A d \in Codec!Decoders :
           IF d[1] = c /\ d[2] \in ks
           THEN dec'[d].generation = b.generation + 1 /\ dec'[d].work = <<>>
           ELSE dec'[d] = dec[d]
    BY <2>1 DEF Creates
  <2>4. b'.generation = b.generation + 1
    BY <2>1 DEF Creates
  <2>5. \A k \in Codec!MediaKinds : <<c, k>> \in Codec!Decoders /\ <<c, k>>[1] = c
        /\ <<c, k>>[2] = k
    BY DEF Codec!Decoders
  <2>6. DKinds'
    BY <2>2, <2>5 DEF DKinds
  <2>7. \A d \in Codec!Decoders : dec'[d].generation <= b'.generation
    BY <1>0, <2>3, <2>4 DEF Generations
  <2>8. \A d \in Codec!Decoders : dec'[d].work # <<>> => dec'[d].generation # 0
    BY <2>3 DEF Generations
  <2>9. \A k \in Codec!MediaKinds : b'.decoder[k] # Codec!None => dec'[b'.decoder[k]].generation # 0
    <3> SUFFICES ASSUME NEW k \in Codec!MediaKinds, b'.decoder[k] # Codec!None
                 PROVE  dec'[b'.decoder[k]].generation # 0
      OBVIOUS
    <3>1. CASE k \in ks
      <4>1. b'.decoder[k] = <<c, k>> /\ dec'[<<c, k>>].generation = b.generation + 1
        BY <2>2, <2>3, <2>5, <3>1
      <4> QED  BY <1>0, <4>1
    <3>2. CASE k \notin ks
      <4> DEFINE d == b.decoder[k]
      <4>1. b'.decoder[k] = d /\ d \in Codec!Decoders /\ dec[d].generation # 0
        BY <1>0, <2>2, <3>2 DEF Generations
      <4>2. dec'[d].generation # 0
        BY <1>0, <2>3, <4>1
      <4> QED  BY <4>1, <4>2
    <3> QED  BY <3>1, <3>2
  <2>10. \A d, e \in Codec!Decoders :
          d[2] = "video" /\ e[2] = "video" /\ dec'[d].generation = dec'[e].generation
            => d = e \/ dec'[d].generation = 0
    <3> SUFFICES ASSUME NEW d \in Codec!Decoders, NEW e \in Codec!Decoders, d[2] = "video",
                        e[2] = "video",
                        dec'[d].generation = dec'[e].generation
                 PROVE  d = e \/ dec'[d].generation = 0
      OBVIOUS
    <3>1. dec[d].generation <= b.generation /\ dec[e].generation <= b.generation
      BY DEF Generations
    <3>2. (d[1] = c /\ d[2] \in ks) <=> (e[1] = c /\ e[2] \in ks)
      BY <1>0, <2>3, <3>1
    <3>3. d[1] = c /\ e[1] = c => d = e
      BY DEF Codec!Decoders
    <3> QED  BY <2>3, <3>2, <3>3 DEF Generations
  <2> QED  BY <2>6, <2>7, <2>8, <2>9, <2>10 DEF Generations
<1> QED  BY <1>1, <1>2, QuietSteps

-----------------------------------------------------------------------------
(* The order of the chunks *)

LEMMA NumbersTyped == \A q \in Seq(Chunks) : Numbers(q) \in Seq(Nat)
<1> SUFFICES ASSUME NEW q \in Seq(Chunks) PROVE Numbers(q) \in Seq(Nat)
  OBVIOUS
<1>1. ASSUME NEW i \in 1..Len(q) PROVE q[i].n \in Nat
  <2>1. q[i] \in Chunks
    BY <1>1
  <2> QED  BY <2>1 DEF Chunks
<1>2. Numbers(q) \in [1..Len(q) -> Nat] /\ Len(q) \in Nat
  BY <1>1 DEF Numbers
<1> QED  BY <1>2

LEMMA OrderKept ==
  ASSUME NEW w \in Seq(Nat), NEW q \in Seq(Chunks), NEW sh \in Seq(Nat), NEW n \in Nat,
         InOrder(w, q, sh, n)
  PROVE  /\ InOrder(<<>>, q, sh, n) /\ InOrder(w, <<>>, sh, n)
         /\ InOrder(w, q, sh, n + 1)
<1>1. \A s \in Seq(Nat) : UpTo(s, n) => UpTo(s, n + 1)
  <2>1. ASSUME NEW s \in Seq(Nat), UpTo(s, n), NEW i \in 1..Len(s) PROVE s[i] <= n + 1
    <3>1. s[i] \in Nat /\ s[i] <= n
      BY <2>1 DEF UpTo
    <3> QED  BY <3>1
  <2> QED  BY <2>1 DEF UpTo
<1>2. Numbers(q) \in Seq(Nat)
  BY NumbersTyped
<1>3. Len(<<>>) = 0 /\ Len(Numbers(<<>>)) = 0
  BY DEF Numbers
<1>4. /\ Rising(<<>>) /\ Rising(Numbers(<<>>)) /\ Below(sh, <<>>) /\ Below(sh, Numbers(<<>>))
      /\ Below(w, Numbers(<<>>)) /\ Below(<<>>, Numbers(q)) /\ UpTo(<<>>, n)
      /\ UpTo(Numbers(<<>>), n)
  BY <1>3 DEF Rising, Below, UpTo
<1> QED  BY <1>1, <1>2, <1>4 DEF InOrder

LEMMA OrderOutput ==
  ASSUME NEW w \in Seq(Nat), NEW q \in Seq(Chunks), NEW sh \in Seq(Nat), NEW n \in Nat,
         InOrder(w, q, sh, n), w # <<>>
  PROVE  InOrder(Tail(w), q, sh, n) /\ InOrder(Tail(w), q, Append(sh, Head(w)), n)
<1> DEFINE t == Tail(w)
<1> DEFINE s == Append(sh, Head(w))
<1>1. Len(w) \in Nat /\ Len(w) >= 1 /\ Len(sh) \in Nat
  OBVIOUS
<1>2. Len(t) = Len(w) - 1 /\ \A i \in 1..Len(t) : i + 1 \in 1..Len(w) /\ t[i] = w[i + 1]
  <2>1. Len(t) = Len(w) - 1 /\ \A i \in 1..Len(t) : t[i] = w[i + 1]
    BY <1>1
  <2> HIDE DEF t
  <2> QED  BY <1>1, <2>1
<1>3. Len(s) = Len(sh) + 1 /\ \A i \in 1..Len(s) : s[i] = IF i <= Len(sh) THEN sh[i] ELSE w[1]
  <2> DEFINE h == Head(w)
  <2>1. h \in Nat /\ h = w[1]
    BY <1>1
  <2>2. s = Append(sh, h)
    OBVIOUS
  <2> HIDE DEF h, s
  <2> QED  BY <1>1, <2>1, <2>2, SMTT(30)
<1>4. \A i \in 1..Len(s) : i <= Len(sh) => i \in 1..Len(sh)
  BY <1>1
<1>5. 1 \in 1..Len(w)
  BY <1>1
<1> DEFINE m == Numbers(q)
<1>6. /\ Rising(sh) /\ Rising(w) /\ Rising(m) /\ Below(sh, w) /\ Below(sh, m) /\ Below(w, m)
      /\ UpTo(sh, n) /\ UpTo(w, n) /\ UpTo(m, n)
  BY DEF InOrder
<1> HIDE DEF t, s, m
<1>7. \A i \in 1..Len(s) : i \in Nat /\ i >= 1
  BY <1>1, <1>3
<1>8. \A i \in 1..Len(t) : i \in Nat /\ i >= 1 /\ 1 < i + 1
  BY <1>1, <1>2
<1>9. Rising(t)
  <2> SUFFICES ASSUME NEW i \in 1..Len(t), NEW j \in 1..Len(t), i < j PROVE t[i] < t[j]
    BY DEF Rising
  <2>1. i + 1 < j + 1
    BY <1>8
  <2> QED  BY <1>2, <1>6, <2>1 DEF Rising
<1>10. Below(sh, t) /\ Below(t, m) /\ UpTo(t, n)
  BY <1>2, <1>6 DEF Below, UpTo
<1>11. Rising(s)
  <2> SUFFICES ASSUME NEW i \in 1..Len(s), NEW j \in 1..Len(s), i < j PROVE s[i] < s[j]
    BY DEF Rising
  <2>1. i \in 1..Len(sh)
    BY <1>1, <1>3, <1>7
  <2>2. s[i] = sh[i]
    BY <1>3, <2>1
  <2>3. CASE j <= Len(sh)
    BY <1>3, <1>4, <1>6, <2>1, <2>2, <2>3 DEF Rising
  <2>4. CASE ~(j <= Len(sh))
    BY <1>3, <1>5, <1>6, <2>1, <2>2, <2>4 DEF Below
  <2> QED  BY <2>3, <2>4
<1>12. Below(s, t)
  <2> SUFFICES ASSUME NEW i \in 1..Len(s), NEW j \in 1..Len(t) PROVE s[i] < t[j]
    BY DEF Below
  <2>1. t[j] = w[j + 1] /\ j + 1 \in 1..Len(w) /\ 1 < j + 1
    BY <1>2, <1>8
  <2>2. CASE i <= Len(sh)
    BY <1>3, <1>4, <1>6, <2>1, <2>2 DEF Below
  <2>3. CASE ~(i <= Len(sh))
    BY <1>3, <1>5, <1>6, <2>1, <2>3 DEF Rising
  <2> QED  BY <2>2, <2>3
<1>13. Below(s, m)
  <2> SUFFICES ASSUME NEW i \in 1..Len(s), NEW j \in 1..Len(m) PROVE s[i] < m[j]
    BY DEF Below
  <2> QED  BY <1>3, <1>4, <1>5, <1>6 DEF Below
<1>14. UpTo(s, n)
  BY <1>3, <1>4, <1>5, <1>6 DEF UpTo
<1> QED  BY <1>6, <1>9, <1>10, <1>11, <1>12, <1>13, <1>14 DEF InOrder, t, s, m

\* Chunk i of q goes to the decoder, or is the last that does not.
LEMMA OrderDecode ==
  ASSUME NEW w \in Seq(Nat), NEW q \in Seq(Chunks), NEW sh \in Seq(Nat), NEW n \in Nat,
         InOrder(w, q, sh, n), NEW i \in 1..Len(q), NEW v,
         v = w \/ v = <<q[i].n>> \/ v = Append(w, q[i].n)
  PROVE  InOrder(v, SubSeq(q, i + 1, Len(q)), sh, n)
<1> DEFINE p == SubSeq(q, i + 1, Len(q))
<1> DEFINE m == Numbers(q)
<1> DEFINE k == Numbers(p)
<1>1. Len(q) \in Nat /\ Len(w) \in Nat /\ i \in Nat /\ i >= 1 /\ i <= Len(q)
  OBVIOUS
<1>2. Len(p) = Len(q) - i /\ \A j \in 1..Len(p) : p[j] = q[j + i]
  BY <1>1
<1>3. \A j \in 1..Len(p) : j \in Nat /\ j >= 1 /\ j + i \in 1..Len(q) /\ i < j + i
  <2> HIDE DEF p
  <2> QED  BY <1>1, <1>2
<1>4. /\ Len(m) = Len(q) /\ \A j \in 1..Len(q) : m[j] = q[j].n
      /\ Len(k) = Len(p) /\ \A j \in 1..Len(p) : k[j] = p[j].n
  <2>1. Len(p) \in Nat
    BY <1>1, <1>2
  <2> HIDE DEF p
  <2> QED  BY <1>1, <2>1 DEF Numbers
<1>5. /\ Rising(sh) /\ Rising(w) /\ Rising(m) /\ Below(sh, w) /\ Below(sh, m) /\ Below(w, m)
      /\ UpTo(sh, n) /\ UpTo(w, n) /\ UpTo(m, n)
  BY DEF InOrder
<1>6. \A j \in 1..Len(k) : k[j] = m[j + i] /\ j + i \in 1..Len(m) /\ i < j + i /\ j \in Nat
  <2> HIDE DEF p, m, k
  <2> QED  BY <1>2, <1>3, <1>4
<1>7. \/ v = w
      \/ Len(v) = 1 /\ v[1] = m[i]
      \/ Len(v) = Len(w) + 1 /\ \A j \in 1..Len(v) : v[j] = IF j <= Len(w) THEN w[j] ELSE m[i]
  <2>1. m[i] = q[i].n
    BY <1>4
  <2>2. CASE v = w
    BY <2>2
  <2>3. CASE v = <<q[i].n>>
    BY <2>1, <2>3
  <2>4. CASE v = Append(w, q[i].n)
    BY <1>1, <2>1, <2>4
  <2> QED  BY <2>2, <2>3, <2>4
<1>8. i \in 1..Len(m)
  BY <1>4
<1> HIDE DEF p, m, k
<1>9. \A j, l \in 1..Len(k) : j < l => j + i < l + i
  BY <1>1, <1>6
<1>10. Rising(k) /\ Below(sh, k) /\ UpTo(k, n)
  BY <1>5, <1>6, <1>9 DEF Rising, Below, UpTo
<1>11. \A j \in 1..Len(k) : m[i] < k[j]
  BY <1>5, <1>6, <1>8 DEF Rising
<1>12. (\A j \in 1..Len(sh) : sh[j] < m[i]) /\ (\A j \in 1..Len(w) : w[j] < m[i]) /\ m[i] <= n
  BY <1>5, <1>8 DEF Below, UpTo
<1>13. Below(w, k)
  BY <1>5, <1>6 DEF Below
<1>14. CASE v = w
  BY <1>5, <1>10, <1>13, <1>14 DEF InOrder, p, k
<1>15. CASE Len(v) = 1 /\ v[1] = m[i]
  <2>1. \A j \in 1..Len(v) : j = 1 /\ v[j] = m[i]
    BY <1>15
  <2>2. Rising(v) /\ Below(sh, v) /\ Below(v, k) /\ UpTo(v, n)
    BY <1>11, <1>12, <2>1 DEF Rising, Below, UpTo
  <2> QED  BY <1>5, <1>10, <2>2 DEF InOrder, p, k
<1>16. CASE Len(v) = Len(w) + 1 /\ \A j \in 1..Len(v) : v[j] = IF j <= Len(w) THEN w[j] ELSE m[i]
  <2>1. \A j \in 1..Len(v) : (j <= Len(w) => j \in 1..Len(w)) /\ j \in Nat
    BY <1>1, <1>16
  <2>2. \A j, l \in 1..Len(v) : j < l => j \in 1..Len(w)
    BY <1>1, <1>16
  <2>3. Rising(v)
    <3> SUFFICES ASSUME NEW j \in 1..Len(v), NEW l \in 1..Len(v), j < l PROVE v[j] < v[l]
      BY DEF Rising
    <3>1. v[j] = w[j] /\ j \in 1..Len(w) /\ j \in Nat /\ l \in Nat
      BY <1>1, <1>16, <2>1, <2>2
    <3>2. CASE l <= Len(w)
      BY <1>5, <1>16, <2>1, <3>1, <3>2 DEF Rising
    <3>3. CASE ~(l <= Len(w))
      BY <1>12, <1>16, <3>1, <3>3
    <3> QED  BY <3>2, <3>3
  <2>4. Below(sh, v) /\ Below(v, k) /\ UpTo(v, n)
    BY <1>5, <1>11, <1>12, <1>13, <1>16, <2>1 DEF Below, UpTo
  <2> QED  BY <1>5, <1>10, <2>3, <2>4 DEF InOrder, p, k
<1> QED  BY <1>7, <1>14, <1>15, <1>16

LEMMA OrderQueued ==
  ASSUME NEW w \in Seq(Nat), NEW q \in Seq(Chunks), NEW sh \in Seq(Nat), NEW n \in Nat,
         InOrder(w, q, sh, n), NEW x \in Chunks, x.n = n + 1
  PROVE  InOrder(w, Append(q, x), sh, n + 1)
<1> DEFINE p == Append(q, x)
<1> DEFINE m == Numbers(q)
<1> DEFINE k == Numbers(p)
<1>1. Len(q) \in Nat /\ Len(p) = Len(q) + 1 /\ p[Len(p)] = x /\ \A j \in 1..Len(q) : p[j] = q[j]
  OBVIOUS
<1>2. /\ Len(m) = Len(q) /\ \A j \in 1..Len(q) : m[j] = q[j].n
      /\ Len(k) = Len(p) /\ \A j \in 1..Len(p) : k[j] = p[j].n
  <2>1. Len(p) \in Nat
    BY <1>1
  <2> HIDE DEF p
  <2> QED  BY <1>1, <2>1 DEF Numbers
<1>3. \A j \in 1..Len(p) : j \in 1..Len(q) \/ j = Len(p)
  <2> HIDE DEF p
  <2> QED  BY <1>1
<1>4. \A j \in 1..Len(k) : (j \in 1..Len(m) /\ k[j] = m[j]) \/ (j = Len(k) /\ k[j] = n + 1)
  <2> HIDE DEF p, m, k
  <2> QED  BY <1>1, <1>2, <1>3
<1>5. InOrder(w, q, sh, n + 1)
  BY OrderKept
<1>6. /\ Rising(sh) /\ Rising(w) /\ Rising(m) /\ Below(sh, w) /\ Below(sh, m) /\ Below(w, m)
      /\ UpTo(sh, n) /\ UpTo(w, n) /\ UpTo(m, n) /\ UpTo(sh, n + 1) /\ UpTo(w, n + 1)
  BY <1>5 DEF InOrder
<1>7. m \in Seq(Nat)
  BY NumbersTyped
<1>8. \A s \in Seq(Nat) : UpTo(s, n) => \A j \in 1..Len(s) : s[j] \in Nat /\ s[j] < n + 1
  <2>1. ASSUME NEW s \in Seq(Nat), UpTo(s, n), NEW i \in 1..Len(s)
        PROVE  s[i] \in Nat /\ s[i] < n + 1
    <3>1. s[i] \in Nat /\ s[i] <= n
      BY <2>1 DEF UpTo
    <3> QED  BY <3>1
  <2> QED  BY <2>1
<1>9. \A j \in 1..Len(k) : j \in Nat /\ j <= Len(k)
  BY <1>1, <1>2
<1>10. \A j \in 1..Len(m) : j < Len(k)
  BY <1>1, <1>2
<1>16. Len(k) \in Nat
  BY <1>1, <1>2
<1> HIDE DEF p, m, k
<1>11. Rising(k)
  <2> SUFFICES ASSUME NEW i \in 1..Len(k), NEW j \in 1..Len(k), i < j PROVE k[i] < k[j]
    BY DEF Rising
  <2>1. i # Len(k)
    BY <1>9, <1>16
  <2>2. i \in 1..Len(m) /\ k[i] = m[i] /\ m[i] < n + 1
    BY <1>4, <1>6, <1>7, <1>8, <2>1
  <2> QED  BY <1>4, <1>6, <2>2 DEF Rising
<1>12. Below(sh, k) /\ Below(w, k)
  BY <1>4, <1>6, <1>8 DEF Below
<1>13. UpTo(k, n + 1)
  <2> SUFFICES ASSUME NEW i \in 1..Len(k) PROVE k[i] <= n + 1
    BY DEF UpTo
  <2>1. CASE i \in 1..Len(m) /\ k[i] = m[i]
    <3>1. m[i] \in Nat /\ m[i] < n + 1
      BY <1>6, <1>7, <1>8, <2>1
    <3> QED  BY <2>1, <3>1
  <2>2. CASE k[i] = n + 1
    BY <2>2
  <2> QED  BY <1>4, <2>1, <2>2
<1> QED  BY <1>6, <1>11, <1>12, <1>13 DEF InOrder, p, k

LEMMA ChunksNext ==
  ASSUME DTyped, DTyped', Codec!DecoderAssumption, QueueWaits, DKinds, Generations, ChunksInOrder,
         Codec!Next
  PROVE  ChunksInOrder'
<1>0. /\ b.generation \in Nat /\ b.queue \in Seq(Chunks) /\ shown \in Seq(Nat) /\ pushed \in Nat
      /\ b'.queue \in Seq(Chunks) /\ <<>> \in Seq(Nat) /\ <<>> \in Seq(Chunks)
      /\ \A d \in Codec!Decoders : dec[d].work \in Seq(Nat) /\ dec'[d].work \in Seq(Nat)
      /\ \A d \in Codec!Decoders : dec[d].generation \in Nat /\ dec'[d].generation \in Nat
  BY DEF DTyped, BackendRecords, DecoderRecords
<1> DEFINE Video(d) == d \in Codec!Decoders /\ d[2] = "video" /\ dec[d].generation = b.generation
<1> DEFINE Fine(w) == InOrder(w, b'.queue, shown', pushed')
<1>1. /\ InOrder(<<>>, b.queue, shown, pushed)
      /\ \A d : Video(d) => InOrder(dec[d].work, b.queue, shown, pushed)
  BY DEF ChunksInOrder
<1> DEFINE OneLess == /\ shown' = shown /\ pushed' \in {pushed, pushed + 1}
                      /\ b'.queue \in {b.queue, <<>>}
<1>2. ASSUME OneLess, NEW w \in Seq(Nat), InOrder(w, b.queue, shown, pushed)
      PROVE  Fine(w) /\ Fine(<<>>)
  <2>1. InOrder(w, b'.queue, shown, pushed)
    BY <1>0, <1>2, OrderKept
  <2>2. InOrder(w, b'.queue, shown, pushed')
    BY <1>0, <1>2, <2>1, OrderKept
  <2>3. pushed' \in Nat
    BY <1>0, <1>2
  <2> QED  BY <1>0, <1>2, <2>2, <2>3, OrderKept
\* The decoders of the backend's generation keep their chunks, or lose them.
<1>3. ASSUME OneLess,
             \A d \in Codec!Decoders : d[2] = "video" /\ dec'[d].generation = b'.generation =>
               dec'[d].work = <<>> \/ (Video(d) /\ dec'[d].work = dec[d].work)
      PROVE  ChunksInOrder'
  <2>1. Fine(<<>>)
    BY <1>0, <1>1, <1>2, <1>3
  <2>2. \A d \in Codec!Decoders : d[2] = "video" /\ dec'[d].generation = b'.generation =>
          Fine(dec'[d].work)
    <3> SUFFICES ASSUME NEW d \in Codec!Decoders, d[2] = "video", dec'[d].generation = b'.generation
                 PROVE  Fine(dec'[d].work)
      OBVIOUS
    <3>1. CASE dec'[d].work = <<>>
      BY <2>1, <3>1
    <3>2. CASE Video(d) /\ dec'[d].work = dec[d].work
      BY <1>0, <1>1, <1>2, <1>3, <3>2
    <3> QED  BY <1>3, <3>1, <3>2
  <2> QED  BY <2>1, <2>2 DEF ChunksInOrder
<1>4. ASSUME UNCHANGED <<dec, shown>>, pushed' \in {pushed, pushed + 1},
             b'.queue \in {b.queue, <<>>}, b'.generation = b.generation
      PROVE  ChunksInOrder'
  BY <1>3, <1>4
<1>5. ASSUME NEW c \in Configures, Codec!Configure(c) \/ Codec!Unsupported(c) PROVE ChunksInOrder'
  BY <1>4, <1>5, ConfigureEffect
<1>6. ASSUME NEW c \in Configures, Codec!Created(c) PROVE ChunksInOrder'
  <2>1. PICK ks \in SUBSET Codec!MediaKinds : Creates(c, ks)
    BY <1>6, CreatedEffect
  <2>2. OneLess /\ b'.generation = b.generation + 1
    BY <2>1 DEF Creates
  <2>3. \A d \in Codec!Decoders : dec'[d].work = <<>> \/ dec'[d] = dec[d]
    BY <2>1 DEF Creates
  <2>4. \A d \in Codec!Decoders : dec'[d].generation = b'.generation => dec'[d] # dec[d]
    BY <1>0, <2>2 DEF Generations
  <2> QED  BY <1>3, <2>2, <2>3, <2>4
<1>7. ASSUME NEW k \in Codec!MediaKinds, NEW e, Releases(k, e), b'.queue \in {b.queue, <<>>}
      PROVE  ChunksInOrder'
  <2>1. OneLess
    BY <1>7 DEF Releases
  <2>2. \A d \in Codec!Decoders : dec'[d].work = <<>> \/ dec'[d] = dec[d]
    BY <1>7 DEF Releases, CloseDoes
  <2>3. b'.generation = b.generation \/ b'.generation = b.generation + 1
    BY <1>7 DEF Releases
  <2>4. \A d \in Codec!Decoders : dec'[d].generation = b'.generation /\ dec'[d] = dec[d]
          => dec[d].generation = b.generation
    BY <1>0, <2>3 DEF Generations
  <2> QED  BY <1>3, <2>1, <2>2, <2>4
<1>8. ASSUME NEW c \in Configures, Codec!Unwind(c) PROVE ChunksInOrder'
  BY <1>7, <1>8, UnwindEffect DEF Releases
<1>9. CASE Codec!Stop
  BY <1>4, <1>9, StopEffect DEF StoppingDoes
<1>10. CASE Codec!Close
  BY <1>7, <1>10, CloseEffect DEF Releases
<1>11. CASE Skips
  BY <1>4, <1>11 DEF Skips
<1>12. CASE Queues
  <2>1. PICK x \in Chunks : x.n = pushed + 1 /\ b'.queue = Append(b.queue, x)
    BY <1>12 DEF Queues
  <2>2. UNCHANGED <<dec, shown>> /\ pushed' = pushed + 1 /\ b'.generation = b.generation
    BY <1>12 DEF Queues, KeepsAll
  <2>3. \A w \in Seq(Nat) : InOrder(w, b.queue, shown, pushed) => Fine(w)
    BY <1>0, <2>1, <2>2, OrderQueued
  <2> QED  BY <1>0, <1>1, <2>2, <2>3 DEF ChunksInOrder
<1>13. CASE Waits
  BY <1>4, <1>13 DEF Waits, KeepsAll
<1>14. CASE Decodes
  <2>1. PICK r \in BackendRecords, x \in Chunks :
       /\ KeepsAll(b, r) /\ DecodeDoes(r, x)
       /\ \/ /\ b.queue = <<>> /\ r.queue = <<>> /\ x.n = pushed + 1 /\ pushed' = pushed + 1
          \/ /\ pushed' = pushed
             /\ \E i \in 1..Len(b.queue) :
                  r.queue = SubSeq(b.queue, i + 1, Len(b.queue)) /\ x = b.queue[i]
    BY <1>14 DEF Decodes
  <2> DEFINE d == b.decoder["video"]
  <2>2. /\ b'.queue = r.queue /\ b'.generation = b.generation /\ shown' = shown
        /\ r.decoder["video"] = d
    BY <1>14, <2>1 DEF DecodeDoes, KeepsAll, Decodes
  <2>3. \A w, v \in Seq(Nat) :
          /\ InOrder(w, b.queue, shown, pushed)
          /\ v = w \/ v = <<x.n>> \/ v = Append(w, x.n)
          => Fine(v)
    <3> SUFFICES ASSUME NEW w \in Seq(Nat), NEW v \in Seq(Nat),
                        InOrder(w, b.queue, shown, pushed),
                        v = w \/ v = <<x.n>> \/ v = Append(w, x.n)
                 PROVE  Fine(v)
      OBVIOUS
    <3>1. CASE pushed' = pushed /\ \E i \in 1..Len(b.queue) :
                  r.queue = SubSeq(b.queue, i + 1, Len(b.queue)) /\ x = b.queue[i]
      BY <1>0, <2>2, <3>1, OrderDecode
    <3>2. CASE b.queue = <<>> /\ r.queue = <<>> /\ x.n = pushed + 1 /\ pushed' = pushed + 1
      <4> DEFINE q == Append(<<>>, x)
      <4>1. InOrder(w, q, shown, pushed + 1)
        BY <1>0, <3>2, OrderQueued
      <4>2. q \in Seq(Chunks) /\ Len(q) = 1 /\ q[1] = x /\ SubSeq(q, 2, 1) = <<>>
            /\ pushed + 1 \in Nat
        BY <1>0
      <4> HIDE DEF q
      <4>3. 1 \in 1..Len(q) /\ 1 + 1 = 2
        BY <4>2
      <4>4. v = w \/ v = <<q[1].n>> \/ v = Append(w, q[1].n)
        BY <4>2
      <4>5. InOrder(v, SubSeq(q, 1 + 1, Len(q)), shown, pushed + 1)
        BY <1>0, <4>1, <4>2, <4>3, <4>4, OrderDecode
      <4> QED  BY <2>2, <3>2, <4>2, <4>3, <4>5
    <3> QED  BY <2>1, <3>1, <3>2
  <2>4. Fine(<<>>)
    BY <1>0, <1>1, <2>3
  <2>5. ASSUME NEW e \in Codec!Decoders, e[2] = "video", dec'[e].generation = b'.generation
        PROVE  Fine(dec'[e].work)
    <3>1. dec'[e] = dec[e] \/ (e = d /\ dec'[e].generation = dec[e].generation
             /\ (dec'[e].work = <<x.n>> \/ dec'[e].work = Append(dec[e].work, x.n)))
      BY <2>1, <2>2, NoneDiffers DEF DecodeDoes
    <3>2. InOrder(dec[e].work, b.queue, shown, pushed)
      BY <1>1, <2>2, <2>5, <3>1
    <3> QED  BY <1>0, <2>3, <3>1, <3>2
  <2> QED  BY <2>4, <2>5 DEF ChunksInOrder
<1>15. CASE Codec!PushVideo
  BY <1>11, <1>12, <1>14, <1>15, PushVideoEffect
<1>16. CASE Codec!FrameStep
  BY <1>13, <1>14, <1>16, FrameStepEffect
<1>17. CASE Codec!PushAudio
  <2>1. PushesAudio
    BY <1>17, PushAudioEffect
  <2>2. b.decoder["audio"] # Codec!None /\ b.decoder["audio"][2] = "audio"
    BY <2>1, VideoIsKind DEF PushesAudio, DKinds
  <2>3. OneLess /\ b'.generation = b.generation
    BY <2>1 DEF PushesAudio
  <2>4. \A d \in Codec!Decoders : d[2] = "video" => dec'[d] = dec[d]
    BY <2>1, <2>2 DEF PushesAudio
  <2> QED  BY <1>3, <2>3, <2>4
<1>18. CASE Codec!MarkVideoConfigChanged
  BY <1>4, <1>18, MarkEffect DEF KeepsAll
<1>19. CASE Codec!PauseDisplay
  <2>1. OneLess /\ b'.generation = b.generation
    BY <1>19, PauseEffect DEF Pauses
  <2>2. \A d \in Codec!Decoders : dec'[d].work = <<>> \/ dec'[d] = dec[d]
    BY <1>19, PauseEffect DEF Pauses
  <2> QED  BY <1>3, <2>1, <2>2
<1>20. ASSUME NEW d \in Codec!Decoders, Codec!Output(d) PROVE ChunksInOrder'
  <2>1. Outputs(d)
    BY <1>20, OutputEffect
  <2>2. /\ b'.queue = b.queue /\ b'.generation = b.generation /\ pushed' = pushed
        /\ dec[d].work # <<>> /\ dec'[d].work = Tail(dec[d].work)
        /\ dec'[d].generation = dec[d].generation
        /\ \A e \in Codec!Decoders : e # d => dec'[e] = dec[e]
    BY <2>1 DEF Outputs
  <2>3. CASE shown' = shown
    <3>1. \A e : Video(e) => Fine(dec'[e].work)
      <4> SUFFICES ASSUME NEW e, Video(e) PROVE Fine(dec'[e].work)
        OBVIOUS
      <4>1. CASE e = d
        BY <1>0, <1>1, <2>2, <2>3, <4>1, OrderOutput
      <4>2. CASE e # d
        BY <1>1, <2>2, <2>3, <4>2
      <4> QED  BY <4>1, <4>2
    <3>2. Fine(<<>>)
      BY <1>1, <2>2, <2>3
    <3> QED  BY <2>2, <3>1, <3>2 DEF ChunksInOrder
  <2>4. CASE /\ d[2] = "video" /\ dec[d].generation = b.generation
             /\ shown' = Append(shown, Head(dec[d].work))
    <3>1. Fine(dec'[d].work)
      BY <1>0, <1>1, <2>2, <2>4, OrderOutput
    <3>2. shown' \in Seq(Nat) /\ dec'[d].work \in Seq(Nat)
      BY <1>0 DEF DTyped
    <3>3. Fine(<<>>)
      BY <1>0, <2>2, <3>1, <3>2, OrderKept
    <3>4. dec[d].generation # 0
      BY <2>2 DEF Generations
    <3>5. \A e : Video(e) => e = d
      BY <2>4, <3>4 DEF Generations
    <3> QED  BY <2>2, <3>1, <3>3, <3>5 DEF ChunksInOrder
  <2> QED  BY <2>1, <2>3, <2>4 DEF Outputs
<1>21. ASSUME NEW d \in Codec!Decoders, Codec!DecoderFails(d) PROVE ChunksInOrder'
  <2>1. Fails(d)
    BY <1>21, DecoderFailsEffect
  <2>2. OneLess /\ b'.generation = b.generation
    BY <2>1 DEF Fails, HandlingDoes
  <2>3. \A e \in Codec!Decoders : dec'[e].work = <<>> \/ dec'[e] = dec[e]
    BY <2>1 DEF Fails
  <2> QED  BY <1>3, <2>2, <2>3
<1> QED  BY <1>5, <1>6, <1>8, <1>9, <1>10, <1>15, <1>16, <1>17, <1>18, <1>19, <1>20, <1>21
           DEF Codec!Next

-----------------------------------------------------------------------------
(* Calls that do not overlap *)

LEMMA OverlapStays == DTyped /\ Codec!Next /\ ~overlap' => ~overlap
<1> SUFFICES ASSUME DTyped, Codec!Next, overlap PROVE overlap'
  BY DEF DTyped
<1> QED  BY DEF Codec!Next, Codec!Configure, Codec!Unsupported, Codec!Created, Codec!Create,
            Codec!Unwind, Codec!Stop, Codec!Close, Codec!PushVideo,
                Codec!PushAudio, Codec!MarkVideoConfigChanged, Codec!PauseDisplay,
                    Codec!FrameStep, Codec!Output, Codec!DecoderFails

\* What most of the steps keep.
Unmoved ==
  /\ configures' = configures /\ b'.stopped = b.stopped /\ b'.configured = b.configured
  /\ b'.decoder = b.decoder /\ (b.paused => b'.paused) /\ (b'.paused => b.configured \/ b.paused)
  /\ b'.closing = "audio" => b.closing = "audio"
  /\ b.stopped => b'.closing = b.closing /\ b'.errored = b.errored /\ b'.pending = b.pending
  /\ (b.closing = "no" => ~b.errored) => (b'.closing = "no" => ~b'.errored)

LEMMA UnmovedAlone ==
  ASSUME DTyped, DTyped', Alone, Unmoved
  PROVE  Alone'
<1>1. \A c \in Configures : configures'[c] = configures[c]
  BY DEF Unmoved
<1> QED  BY <1>1 DEF Unmoved, Alone, AtRest, Running, Unwinding

LEMMA AloneNext ==
  ASSUME DTyped, DTyped', Codec!DecoderAssumption, QueueWaits, Alone, Codec!Next, ~overlap'
  PROVE  Alone'
<1>0. /\ configures \in [Configures -> {"new", "checking", "video", "audio", "returned"}]
      /\ b.decoder \in [Codec!MediaKinds -> Codec!Decoders \cup {Codec!None}]
      /\ b.closing \in {"no", "video", "audio"} /\ b'.closing \in {"no", "video", "audio"}
  BY DEF DTyped, BackendRecords
<1>1. ASSUME NEW c \in Configures, Codec!Configure(c) PROVE Alone'
  <2>1. UNCHANGED <<b, dec, pushed, shown, threw>>
    BY <1>1, ConfigureEffect
  <2>2. CASE b.configured
    <3>1. configures' = [configures EXCEPT ![c] = "returned"] /\ configures[c] = "new"
      BY <1>1, <2>2 DEF Codec!Configure
    <3>2. \A d \in Configures : configures'[d] = configures[d] \/
              (configures'[d] = "returned" /\ configures[d] = "new")
      BY <1>0, <3>1
    <3>3. \A d \in Configures : Unwinding(d) => configures'[d] = configures[d]
      BY <3>2 DEF Unwinding
    <3> QED  BY <2>1, <3>2, <3>3 DEF Alone, AtRest, Running, Unwinding
  <2>3. CASE ~b.configured
    <3>1. configures' = [configures EXCEPT ![c] = "checking"] /\ b.closing = "no"
          /\ ~Codec!Configuring
      BY <1>1, <2>3 DEF Codec!Configure
    <3>2. \A d \in Configures : configures[d] \in {"new", "returned"}
      BY <3>1 DEF Codec!Configuring
    <3>3. \A d \in Configures : configures'[d] =
              IF d = c THEN "checking" ELSE configures[d]
      BY <1>0, <3>1
    <3>4. b.stopped
      BY <2>3, <3>2 DEF Alone, Unwinding
    <3> QED  BY <2>1, <3>1, <3>2, <3>3, <3>4 DEF Alone, AtRest, Running, Unwinding
  <2> QED  BY <2>2, <2>3
<1>2. ASSUME NEW c \in Configures, Codec!Unsupported(c) PROVE Alone'
  <2>1. UNCHANGED <<b, dec, pushed, shown, threw>>
    BY <1>2, ConfigureEffect
  <2>2. \A d \in Configures : configures'[d] = IF d = c THEN "returned" ELSE configures[d]
    BY <1>0, <1>2 DEF Codec!Unsupported
  <2>3. b.stopped
    BY <1>2 DEF Codec!Unsupported, Alone
  <2> QED  BY <2>1, <2>2, <2>3 DEF Alone, AtRest, Running, Unwinding
<1>3. ASSUME NEW c \in Configures, Codec!Created(c) PROVE Alone'
  <2>1. PICK ks \in SUBSET Codec!MediaKinds : Creates(c, ks)
    BY <1>3, CreatedEffect
  <2>2. /\ configures[c] = "checking" /\ b.stopped /\ b.closing = "no" /\ ~b.configured
        /\ ~b.paused
    BY <2>1 DEF Creates, Alone, AtRest
  <2>3. \A d \in Configures : d # c => ~Running(d)
    BY <2>2 DEF Alone, Running
  <2>4. \A d \in Configures : d # c => configures'[d] = configures[d]
    BY <1>0, <2>1 DEF Creates
  <2>5. \/ configures'[c] = "returned" /\ b'.configured
        \/ configures'[c] = "video" /\ ~b'.configured
    BY <1>0, <2>1, <2>2 DEF Creates
  <2>6. ~b'.stopped /\ b'.closing = "no" /\ ~b'.paused /\ ~b'.errored
    BY <2>1, <2>2 DEF Creates, Alone
  <2>7. \A d \in Configures : d # c => configures'[d] \notin {"checking", "video", "audio"}
    BY <2>3, <2>4 DEF Running
  <2> QED  BY <2>5, <2>6, <2>7 DEF Alone, AtRest, Running, Unwinding
<1>4. ASSUME NEW c \in Configures, Codec!Unwind(c) PROVE Alone'
  <2>1. /\ Releases(configures[c], configures[c] = "audio")
        /\ b'.closing = b.closing /\ b'.errored = b.errored /\ b'.paused = b.paused
        /\ configures' = [configures EXCEPT ![c] =
                             IF configures[c] = "video" THEN "audio" ELSE "returned"]
    BY <1>4, UnwindEffect
  <2>2. configures[c] \in {"video", "audio"}
    BY <2>1 DEF Releases, Codec!MediaKinds
  <2>3. ~b.configured /\ ~b.paused
    BY <2>2 DEF Alone, Unwinding
  <2>4. \A d \in Configures : d # c => configures'[d] = configures[d] /\ ~Running(d)
    BY <1>0, <2>1, <2>2 DEF Alone, Running
  <2>5. b'.decoder = [b.decoder EXCEPT ![configures[c]] = Codec!None]
    BY <2>1 DEF Releases
  <2>6. CASE configures[c] = "video"
    <3>1. configures'[c] = "audio" /\ b'.decoder["video"] = Codec!None
      BY <1>0, <2>1, <2>5, <2>6, VideoIsKind
    <3>2. b'.stopped = b.stopped /\ b'.configured = b.configured /\ b'.pending = b.pending
      BY <2>1, <2>6 DEF Releases
    <3>3. \A k \in Codec!MediaKinds : b.decoder[k] = Codec!None => b'.decoder[k] = Codec!None
      BY <1>0, <2>5
    <3> QED  BY <2>1, <2>3, <2>4, <3>1, <3>2, <3>3 DEF Alone, AtRest, Running, Unwinding
  <2>7. CASE configures[c] = "audio"
    <3>1. configures'[c] = "returned" /\ b.decoder["video"] = Codec!None
      BY <1>0, <2>1, <2>7 DEF Alone
    <3>2. \A k \in Codec!MediaKinds : b'.decoder[k] = Codec!None
      BY <1>0, <2>5, <2>7, <3>1 DEF Codec!MediaKinds
    <3>3. b'.stopped /\ ~b'.configured /\ b'.pending = [x \in Codec!MediaKinds |-> 0]
      BY <2>1, <2>7 DEF Releases
    <3>4. b.closing = "no" => ~b.errored
      BY DEF Alone
    <3>5. AtRest'
      BY <2>1, <3>2, <3>3, <3>4 DEF AtRest
    <3> QED  BY <2>1, <2>3, <2>4, <3>1, <3>2, <3>3, <3>5, VideoIsKind
             DEF Alone, Running, Unwinding
  <2> QED  BY <2>2, <2>6, <2>7
<1>5. CASE Codec!Stop
  <2>1. Unmoved
    BY <1>5, StopEffect DEF StoppingDoes, Unmoved
  <2> QED  BY <2>1, UnmovedAlone
<1>6. CASE Codec!Close
  <2>1. /\ Releases(b.closing, b.closing = "audio") /\ UNCHANGED configures
        /\ IF b.closing = "audio"
           THEN b'.closing = "no" /\ ~b'.errored /\ ~b'.paused
           ELSE b'.closing = "audio" /\ b'.errored = b.errored /\ b'.paused = b.paused
    BY <1>6, CloseEffect
  <2>2. b.closing \in {"video", "audio"}
    BY <2>1 DEF Releases, Codec!MediaKinds
  <2>3. \A c \in Configures : configures[c] # "checking"
    BY <2>2 DEF Alone
  <2>5. b'.decoder = [b.decoder EXCEPT ![b.closing] = Codec!None]
    BY <2>1 DEF Releases
  <2>6. CASE b.closing = "video"
    <3>1. b'.decoder["video"] = Codec!None
      BY <1>0, <2>5, <2>6, VideoIsKind
    <3>2. b'.stopped = b.stopped /\ b'.configured = b.configured /\ b'.pending = b.pending
      BY <2>1, <2>6 DEF Releases
    <3>3. \A k \in Codec!MediaKinds : b.decoder[k] = Codec!None => b'.decoder[k] = Codec!None
      BY <1>0, <2>5
    <3> QED  BY <2>1, <2>3, <2>6, <3>1, <3>2, <3>3 DEF Alone, AtRest, Running, Unwinding
  <2>7. CASE b.closing = "audio"
    <3>1. b.decoder["video"] = Codec!None
      BY <2>7 DEF Alone
    <3>2. \A k \in Codec!MediaKinds : b'.decoder[k] = Codec!None
      BY <1>0, <2>5, <2>7, <3>1 DEF Codec!MediaKinds
    <3>3. b'.stopped /\ ~b'.configured /\ b'.pending = [x \in Codec!MediaKinds |-> 0]
      BY <2>1, <2>7 DEF Releases
    <3>4. AtRest'
      BY <2>1, <2>7, <3>2, <3>3 DEF AtRest
    <3> QED  BY <2>1, <2>3, <2>7, <3>2, <3>3, <3>4, VideoIsKind
             DEF Alone, Running, Unwinding
  <2> QED  BY <2>2, <2>6, <2>7
<1>7. ASSUME Skips \/ Queues \/ Waits PROVE Alone'
  <2>1. Unmoved
    BY <1>7 DEF Skips, Queues, Waits, KeepsAll, Unmoved
  <2> QED  BY <2>1, UnmovedAlone
<1>8. ASSUME Decodes PROVE Alone'
  <2>1. PICK r \in BackendRecords, x \in Chunks : KeepsAll(b, r) /\ DecodeDoes(r, x)
    BY <1>8 DEF Decodes
  <2>2. Unmoved
    BY <1>8, <2>1 DEF Decodes, KeepsAll, DecodeDoes, Unmoved
  <2> QED  BY <2>2, UnmovedAlone
<1>9. CASE Codec!PushVideo
  BY <1>7, <1>8, <1>9, PushVideoEffect
<1>10. CASE Codec!FrameStep
  BY <1>7, <1>8, <1>10, FrameStepEffect
<1>11. CASE Codec!PushAudio
  <2>1. Unmoved
    BY <1>11, PushAudioEffect DEF PushesAudio, Unmoved
  <2> QED  BY <2>1, UnmovedAlone
<1>12. CASE Codec!MarkVideoConfigChanged
  <2>1. Unmoved
    BY <1>12, MarkEffect DEF KeepsAll, Unmoved
  <2> QED  BY <2>1, UnmovedAlone
<1>13. CASE Codec!PauseDisplay
  <2>1. Unmoved
    BY <1>13, PauseEffect DEF Pauses, Unmoved
  <2> QED  BY <2>1, UnmovedAlone
<1>14. ASSUME NEW d \in Codec!Decoders, Codec!Output(d) PROVE Alone'
  <2>1. Unmoved
    BY <1>14, OutputEffect DEF Outputs, Unmoved
  <2> QED  BY <2>1, UnmovedAlone
<1>15. ASSUME NEW d \in Codec!Decoders, Codec!DecoderFails(d) PROVE Alone'
  <2>1. Unmoved
    BY <1>15, DecoderFailsEffect DEF Fails, HandlingDoes, Unmoved
  <2> QED  BY <2>1, UnmovedAlone
<1> QED  BY <1>1, <1>2, <1>3, <1>4, <1>5, <1>6, <1>9, <1>10, <1>11, <1>12, <1>13, <1>14, <1>15
         DEF Codec!Next

LEMMA TrackedNext ==
  ASSUME DTyped, DTyped', Codec!DecoderAssumption, QueueWaits, DKinds, DKinds', Alone, Tracked,
         Codec!Next
  PROVE  Tracked'
<1>0. /\ b.decoder \in [Codec!MediaKinds -> Codec!Decoders \cup {Codec!None}]
           /\ b.generation \in Nat
      /\ b'.decoder \in [Codec!MediaKinds -> Codec!Decoders \cup {Codec!None}]
           /\ b.pending \in [Codec!MediaKinds -> Int]
      /\ \A d \in Codec!Decoders : d[2] \in Codec!MediaKinds /\ dec[d].work \in Seq(Nat)
      /\ b.closing \in {"no", "video", "audio"} /\ b'.closing \in {"no", "video", "audio"}
  BY DEF DTyped, BackendRecords, Codec!Decoders, DecoderRecords
<1> DEFINE Open(s) == s \in {"configured", "unconfigured"}
<1>1. ASSUME \A d \in Codec!Decoders : IF Open(dec'[d].state) THEN d = b'.decoder[d[2]]
                                                        ELSE dec'[d].work = <<>>,
             ~b'.stopped => \A k \in Codec!MediaKinds : b'.decoder[k] # Codec!None =>
               /\ dec'[b'.decoder[k]].generation = b'.generation
               /\ ~b'.errored /\ ~threw' => b'.pending[k] = Len(dec'[b'.decoder[k]].work)
      PROVE  Tracked'
  BY <1>1 DEF Tracked, Codec!IsOpen
<1>2. /\ \A d \in Codec!Decoders : IF Open(dec[d].state)
           THEN d = b.decoder[d[2]] ELSE dec[d].work = <<>>
      /\ ~b.stopped => \A k \in Codec!MediaKinds : b.decoder[k] # Codec!None =>
               /\ dec[b.decoder[k]].generation = b.generation
               /\ ~b.errored /\ ~threw => b.pending[k] = Len(dec[b.decoder[k]].work)
  BY DEF Tracked, Codec!IsOpen
<1> HIDE DEF Open
\* The backend's side changes only as errors do.
<1>3. ASSUME UNCHANGED <<dec, threw>>, b'.decoder = b.decoder, b'.generation = b.generation,
             b'.stopped = b.stopped, ~b'.errored => ~b.errored /\ b'.pending = b.pending
      PROVE  Tracked'
  BY <1>1, <1>2, <1>3
<1>4. ASSUME NEW c \in Configures, Codec!Configure(c) \/ Codec!Unsupported(c) PROVE Tracked'
  BY <1>3, <1>4, ConfigureEffect
<1>5. ASSUME NEW c \in Configures, Codec!Created(c) PROVE Tracked'
  <2>1. PICK ks \in SUBSET Codec!MediaKinds : Creates(c, ks)
    BY <1>5, CreatedEffect
  <2>2. /\ \A k \in Codec!MediaKinds : b'.decoder[k] = IF k \in ks THEN <<c, k>> ELSE b.decoder[k]
        /\ \A d \in Codec!Decoders :
             IF d[1] = c /\ d[2] \in ks
             THEN /\ dec'[d].generation = b.generation + 1 /\ dec'[d].work = <<>>
                  /\ dec'[d].state \in {"configured", "unconfigured"}
             ELSE dec'[d] = dec[d]
        /\ b'.generation = b.generation + 1 /\ b'.pending = b.pending
    BY <2>1 DEF Creates
  <2>3. \A k \in Codec!MediaKinds : b.decoder[k] = Codec!None /\ b.pending[k] = 0
    BY <2>1 DEF Creates, Alone, AtRest
  <2>4. \A d \in Codec!Decoders : d = <<d[1], d[2]>>
    BY DEF Codec!Decoders
  <2>5. \A d \in Codec!Decoders : IF Open(dec'[d].state)
        THEN d = b'.decoder[d[2]] ELSE dec'[d].work = <<>>
    <3> SUFFICES ASSUME NEW d \in Codec!Decoders
                 PROVE  IF Open(dec'[d].state) THEN d = b'.decoder[d[2]] ELSE dec'[d].work = <<>>
      OBVIOUS
    <3>1. CASE d[1] = c /\ d[2] \in ks
      BY <1>0, <2>2, <2>4, <3>1
    <3>2. CASE ~(d[1] = c /\ d[2] \in ks)
      BY <1>0, <1>2, <2>2, <2>3, <3>2, NoneDiffers
    <3> QED  BY <3>1, <3>2
  <2>6. \A k \in Codec!MediaKinds : b'.decoder[k] # Codec!None =>
               /\ dec'[b'.decoder[k]].generation = b'.generation
               /\ b'.pending[k] = Len(dec'[b'.decoder[k]].work)
    <3> SUFFICES ASSUME NEW k \in Codec!MediaKinds, b'.decoder[k] # Codec!None
                 PROVE  /\ dec'[b'.decoder[k]].generation = b'.generation
                        /\ b'.pending[k] = Len(dec'[b'.decoder[k]].work)
      OBVIOUS
    <3>1. b'.decoder[k] = <<c, k>> /\ k \in ks
      BY <2>2, <2>3
    <3>2. <<c, k>> \in Codec!Decoders /\ <<c, k>>[1] = c /\ <<c, k>>[2] = k
      BY DEF Codec!Decoders
    <3>3. dec'[<<c, k>>].generation = b.generation + 1 /\ dec'[<<c, k>>].work = <<>>
      BY <2>2, <3>1, <3>2
    <3> QED  BY <2>2, <2>3, <3>1, <3>3
  <2> QED  BY <1>1, <2>5, <2>6
<1>6. ASSUME NEW k \in Codec!MediaKinds, NEW e \in BOOLEAN, Releases(k, e),
             ~b'.errored => ~b.errored \/ e
      PROVE  Tracked'
  <2>1. /\ CloseDoes(k) /\ b'.decoder = [b.decoder EXCEPT ![k] = Codec!None] /\ threw' = threw
        /\ ~e => /\ b'.stopped = b.stopped /\ b'.pending = b.pending
                 /\ b'.generation = b.generation
        /\ e => b'.stopped
    BY <1>6 DEF Releases
  <2>2. \A x \in Codec!MediaKinds : b'.decoder[x] = IF x = k THEN Codec!None ELSE b.decoder[x]
    BY <1>0, <2>1
  <2>3. \A d \in Codec!Decoders : IF Open(dec'[d].state)
        THEN d = b'.decoder[d[2]] ELSE dec'[d].work = <<>>
    <3> SUFFICES ASSUME NEW d \in Codec!Decoders
                 PROVE  IF Open(dec'[d].state) THEN d = b'.decoder[d[2]] ELSE dec'[d].work = <<>>
      OBVIOUS
    <3>1. CASE d = b.decoder[k]
      BY <2>1, <3>1 DEF CloseDoes, Open
    <3>2. CASE d # b.decoder[k]
      <4>1. dec'[d] = dec[d]
        BY <2>1, <3>2 DEF CloseDoes
      <4> QED  BY <1>0, <1>2, <2>2, <3>2, <4>1
    <3> QED  BY <3>1, <3>2
  <2>4. ~b'.stopped => \A x \in Codec!MediaKinds : b'.decoder[x] # Codec!None =>
               /\ dec'[b'.decoder[x]].generation = b'.generation
               /\ ~b'.errored /\ ~threw' => b'.pending[x] = Len(dec'[b'.decoder[x]].work)
    <3> SUFFICES ASSUME ~b'.stopped, NEW x \in Codec!MediaKinds, b'.decoder[x] # Codec!None
                 PROVE  /\ dec'[b'.decoder[x]].generation = b'.generation
                        /\ ~b'.errored /\ ~threw' => b'.pending[x] = Len(dec'[b'.decoder[x]].work)
      OBVIOUS
    <3>1. ~e /\ x # k /\ b'.decoder[x] = b.decoder[x] /\ ~b.stopped
      BY <2>1, <2>2
    <3>2. b.decoder[x] \in Codec!Decoders /\ b.decoder[x][2] = x
      BY <1>0, <3>1 DEF DKinds
    <3>3. b.decoder[x] # b.decoder[k]
      BY <3>1, <3>2 DEF DKinds
    <3>4. dec'[b.decoder[x]] = dec[b.decoder[x]]
      BY <2>1, <3>2, <3>3 DEF CloseDoes
    <3> QED  BY <1>2, <1>6, <2>1, <3>1, <3>4
  <2> QED  BY <1>1, <2>3, <2>4
<1>7. ASSUME NEW c \in Configures, Codec!Unwind(c) PROVE Tracked'
  <2>1. Releases(configures[c], configures[c] = "audio") /\ b'.errored = b.errored
    BY <1>7, UnwindEffect
  <2>2. configures[c] \in Codec!MediaKinds
    BY <2>1 DEF Releases
  <2> QED  BY <1>6, <2>1, <2>2
<1>8. CASE Codec!Stop
  BY <1>3, <1>8, StopEffect DEF StoppingDoes
<1>9. CASE Codec!Close
  <2>1. Releases(b.closing, b.closing = "audio")
    BY <1>9, CloseEffect
  <2>2. b.closing \in Codec!MediaKinds /\ (b.closing # "audio" => b'.errored = b.errored)
    BY <1>9, <2>1, CloseEffect DEF Releases
  <2> QED  BY <1>6, <2>1, <2>2
<1>10. ASSUME Skips \/ Queues \/ Waits PROVE Tracked'
  BY <1>3, <1>10 DEF Skips, Queues, Waits, KeepsAll
\* Only the decoder d of kind k changes, and its count with it.
<1>11. ASSUME NEW k \in Codec!MediaKinds, b.decoder[k] # Codec!None, ~b.stopped,
              b'.decoder = b.decoder, b'.generation = b.generation, b'.stopped = b.stopped,
              \A e \in Codec!Decoders : e # b.decoder[k] => dec'[e] = dec[e],
              dec'[b.decoder[k]].generation = dec[b.decoder[k]].generation,
              \/ Open(dec'[b.decoder[k]].state)
              \/ dec'[b.decoder[k]].work = <<>>,
              \A x \in Codec!MediaKinds : x # k /\ ~b'.errored => b'.pending[x] = b.pending[x],
              ~b'.errored /\ ~threw' =>
                ~b.errored /\ ~threw /\ b'.pending[k] = Len(dec'[b.decoder[k]].work)
      PROVE  Tracked'
  <2>1. b.decoder[k] \in Codec!Decoders /\ b.decoder[k][2] = k
    BY <1>0, <1>11 DEF DKinds
  <2>2. \A d \in Codec!Decoders : IF Open(dec'[d].state)
        THEN d = b'.decoder[d[2]] ELSE dec'[d].work = <<>>
    BY <1>2, <1>11, <2>1
  <2>3. \A x \in Codec!MediaKinds : b'.decoder[x] # Codec!None =>
               /\ dec'[b'.decoder[x]].generation = b'.generation
               /\ ~b'.errored /\ ~threw' => b'.pending[x] = Len(dec'[b'.decoder[x]].work)
    <3> SUFFICES ASSUME NEW x \in Codec!MediaKinds, b'.decoder[x] # Codec!None
                 PROVE  /\ dec'[b'.decoder[x]].generation = b'.generation
                        /\ ~b'.errored /\ ~threw' => b'.pending[x] = Len(dec'[b'.decoder[x]].work)
      OBVIOUS
    <3>1. CASE x = k
      BY <1>2, <1>11, <3>1
    <3>2. CASE x # k
      <4>1. b.decoder[x] \in Codec!Decoders /\ b.decoder[x] # b.decoder[k]
        BY <1>0, <1>11, <2>1, <3>2 DEF DKinds
      <4>2. dec'[b.decoder[x]] = dec[b.decoder[x]]
        BY <1>11, <4>1
      <4> QED  BY <1>2, <1>11, <3>2, <4>2
    <3> QED  BY <3>1, <3>2
  <2> QED  BY <1>1, <2>2, <2>3
<1>12. ASSUME Decodes PROVE Tracked'
  <2>1. PICK r \in BackendRecords, x \in Chunks : KeepsAll(b, r) /\ DecodeDoes(r, x)
    BY <1>12 DEF Decodes
  <2>2. ~b.stopped
    BY <1>12 DEF Decodes
  <2> DEFINE d == b.decoder["video"]
  <2>3. /\ b'.generation = b.generation /\ b'.stopped = b.stopped
        /\ b'.decoder = b.decoder /\ b'.errored = b.errored
        /\ b'.pending["audio"] = b.pending["audio"]
        /\ d = Codec!None => b'.pending = b.pending /\ dec' = dec /\ threw' = threw
        /\ \A e \in Codec!Decoders : e # d => dec'[e] = dec[e]
        /\ d # Codec!None =>
             /\ dec'[d].generation = dec[d].generation
             /\ \/ dec' = dec /\ threw' = TRUE
                \/ /\ dec'[d].work = <<x.n>> /\ b'.pending["video"] = 1
                   /\ dec'[d].state = "configured" /\ threw' = threw
                \/ /\ dec'[d].work = Append(dec[d].work, x.n)
                   /\ b'.pending["video"] = b.pending["video"] + 1
                   /\ dec'[d].state = "configured" /\ threw' = threw
    BY <2>1 DEF KeepsAll, DecodeDoes
  <2>4. CASE d = Codec!None
    BY <1>3, <2>3, <2>4
  <2>5. CASE d # Codec!None
    <3>1. d \in Codec!Decoders
      BY <1>0, <2>5, VideoIsKind
    <3>2. Open(dec'[d].state) \/ dec'[d].work = <<>>
      BY <1>2, <2>3, <2>5, <3>1 DEF Open
    <3>3. \A y \in Codec!MediaKinds : y # "video" => b'.pending[y] = b.pending[y]
      BY <2>3 DEF Codec!MediaKinds
    <3>4. ~b.errored /\ ~threw => b.pending["video"] = Len(dec[d].work)
      BY <1>2, <2>2, <2>5, VideoIsKind
    <3>5. Len(Append(dec[d].work, x.n)) = Len(dec[d].work) + 1 /\ Len(<<x.n>>) = 1
      BY <1>0, <3>1
    <3>6. ~b'.errored /\ ~threw' =>
            ~b.errored /\ ~threw /\ b'.pending["video"] = Len(dec'[d].work)
      <4> SUFFICES ASSUME ~b'.errored, ~threw'
                   PROVE  ~b.errored /\ ~threw /\ b'.pending["video"] = Len(dec'[d].work)
        OBVIOUS
      <4>1. ~b.errored /\ ~threw
        BY <2>3, <2>5
      <4>2. b.pending["video"] = Len(dec[d].work)
        BY <3>4, <4>1
      <4>3. CASE dec'[d].work = <<x.n>> /\ b'.pending["video"] = 1
        BY <3>5, <4>1, <4>3
      <4>4. CASE dec'[d].work = Append(dec[d].work, x.n)
                 /\ b'.pending["video"] = b.pending["video"] + 1
        BY <3>5, <4>1, <4>2, <4>4
      <4> QED  BY <2>3, <2>5, <4>3, <4>4
    <3> QED  BY <1>11, <2>2, <2>3, <2>5, <3>2, <3>3, <3>6, VideoIsKind
  <2> QED  BY <2>4, <2>5
<1>13. CASE Codec!PushVideo
  BY <1>10, <1>12, <1>13, PushVideoEffect
<1>14. CASE Codec!FrameStep
  BY <1>10, <1>12, <1>14, FrameStepEffect
<1>15. CASE Codec!PushAudio
  <2> DEFINE d == b.decoder["audio"]
  <2>1. /\ d # Codec!None /\ ~b.stopped
        /\ b'.generation = b.generation /\ b'.stopped = b.stopped
        /\ b'.decoder = b.decoder /\ b'.errored = b.errored
        /\ b'.pending["video"] = b.pending["video"]
        /\ \A e \in Codec!Decoders : e # d => dec'[e] = dec[e]
        /\ \/ b'.pending["audio"] = b.pending["audio"] /\ dec' = dec /\ threw' = threw
           \/ threw' = TRUE /\ dec' = dec
           \/ /\ dec'[d].state = "configured" /\ threw' = threw
              /\ dec'[d].work = Append(dec[d].work, pushed')
              /\ dec'[d].generation = dec[d].generation
              /\ b'.pending["audio"] = b.pending["audio"] + 1
    BY <1>15, PushAudioEffect DEF PushesAudio
  <2>2. d \in Codec!Decoders
    BY <1>0, <2>1, VideoIsKind
  <2>3. Open(dec'[d].state) \/ dec'[d].work = <<>>
    BY <1>2, <2>1, <2>2 DEF Open
  <2>4. \A y \in Codec!MediaKinds : y # "audio" => b'.pending[y] = b.pending[y]
    BY <2>1 DEF Codec!MediaKinds
  <2>5. ~b.errored /\ ~threw => b.pending["audio"] = Len(dec[d].work)
    BY <1>2, <2>1, VideoIsKind
  <2>6. Len(Append(dec[d].work, pushed')) = Len(dec[d].work) + 1
    BY <1>0, <2>2 DEF DTyped
  <2>7. ~b'.errored /\ ~threw' =>
          ~b.errored /\ ~threw /\ b'.pending["audio"] = Len(dec'[d].work)
    <3> SUFFICES ASSUME ~b'.errored, ~threw'
                 PROVE  ~b.errored /\ ~threw /\ b'.pending["audio"] = Len(dec'[d].work)
      OBVIOUS
    <3>1. ~b.errored /\ ~threw
      BY <2>1
    <3>2. b.pending["audio"] = Len(dec[d].work)
      BY <2>5, <3>1
    <3>3. CASE dec'[d].work = Append(dec[d].work, pushed')
               /\ b'.pending["audio"] = b.pending["audio"] + 1
      BY <2>6, <3>1, <3>2, <3>3
    <3>4. CASE b'.pending["audio"] = b.pending["audio"] /\ dec' = dec
      BY <3>1, <3>2, <3>4
    <3> QED  BY <2>1, <3>3, <3>4
  <2>8. dec'[d].generation = dec[d].generation
    BY <2>1
  <2> QED  BY <1>11, <2>1, <2>3, <2>4, <2>7, <2>8, VideoIsKind
<1>16. CASE Codec!MarkVideoConfigChanged
  BY <1>3, <1>16, MarkEffect DEF KeepsAll
<1>17. CASE Codec!PauseDisplay
  <2>1. /\ b'.generation = b.generation /\ b'.stopped = b.stopped
        /\ b'.decoder = b.decoder /\ b'.errored = b.errored /\ threw' = threw
        /\ \/ b'.pending = b.pending /\ dec' = dec
           \/ /\ b'.pending = [k \in Codec!MediaKinds |-> 0]
              /\ \A d \in Codec!Decoders :
                   IF \E k \in Codec!MediaKinds : b.decoder[k] = d
                   THEN dec'[d].state = "unconfigured" /\ dec'[d].work = <<>>
                        /\ dec'[d].generation = dec[d].generation
                   ELSE dec'[d] = dec[d]
    BY <1>17, PauseEffect DEF Pauses
  <2>2. CASE b'.pending = b.pending /\ dec' = dec
    BY <1>3, <2>1, <2>2
  <2>3. CASE /\ b'.pending = [k \in Codec!MediaKinds |-> 0]
             /\ \A d \in Codec!Decoders :
                   IF \E k \in Codec!MediaKinds : b.decoder[k] = d
                   THEN dec'[d].state = "unconfigured" /\ dec'[d].work = <<>>
                        /\ dec'[d].generation = dec[d].generation
                   ELSE dec'[d] = dec[d]
    <3>1. \A d \in Codec!Decoders : IF Open(dec'[d].state) THEN d = b'.decoder[d[2]]
                                                     ELSE dec'[d].work = <<>>
      <4> SUFFICES ASSUME NEW d \in Codec!Decoders
                   PROVE  IF Open(dec'[d].state) THEN d = b'.decoder[d[2]]
                                                 ELSE dec'[d].work = <<>>
        OBVIOUS
      <4>1. ASSUME NEW k \in Codec!MediaKinds, b.decoder[k] = d
            PROVE  d = b'.decoder[d[2]] /\ dec'[d].work = <<>>
        BY <2>1, <2>3, <4>1, NoneDiffers DEF DKinds
      <4>2. CASE ~(\E k \in Codec!MediaKinds : b.decoder[k] = d)
        BY <1>2, <2>1, <2>3, <4>2
      <4> QED  BY <4>1, <4>2
    <3>2. ~b'.stopped => \A k \in Codec!MediaKinds : b'.decoder[k] # Codec!None =>
               /\ dec'[b'.decoder[k]].generation = b'.generation
               /\ b'.pending[k] = Len(dec'[b'.decoder[k]].work)
      <4> SUFFICES ASSUME ~b'.stopped, NEW k \in Codec!MediaKinds, b'.decoder[k] # Codec!None
                   PROVE  /\ dec'[b'.decoder[k]].generation = b'.generation
                          /\ b'.pending[k] = Len(dec'[b'.decoder[k]].work)
        OBVIOUS
      <4> DEFINE d == b.decoder[k]
      <4>1. d \in Codec!Decoders /\ b'.decoder[k] = d /\ d # Codec!None
        BY <1>0, <2>1
      <4>2. dec'[d].work = <<>> /\ dec'[d].generation = dec[d].generation
        BY <2>3, <4>1
      <4>3. b'.pending[k] = 0
        BY <2>3
      <4> QED  BY <1>2, <2>1, <4>1, <4>2, <4>3
    <3> QED  BY <1>1, <3>1, <3>2
  <2> QED  BY <2>1, <2>2, <2>3
<1>18. ASSUME NEW d \in Codec!Decoders, Codec!Output(d) PROVE Tracked'
  <2> DEFINE k == d[2]
  <2>1. Outputs(d)
    BY <1>18, OutputEffect
  <2>2. /\ dec[d].work # <<>> /\ dec'[d].work = Tail(dec[d].work)
        /\ dec'[d].state = dec[d].state /\ dec'[d].generation = dec[d].generation
        /\ \A e \in Codec!Decoders : e # d => dec'[e] = dec[e]
        /\ b'.generation = b.generation /\ b'.stopped = b.stopped
        /\ b'.decoder = b.decoder /\ threw' = threw
    BY <2>1 DEF Outputs
  <2>3. Open(dec[d].state) /\ d = b.decoder[k] /\ k \in Codec!MediaKinds /\ d # Codec!None
    BY <1>0, <1>2, <2>2, NoneDiffers
  <2>4. CASE b.stopped
    <3>1. \A e \in Codec!Decoders : IF Open(dec'[e].state) THEN e = b'.decoder[e[2]]
                                                     ELSE dec'[e].work = <<>>
      BY <1>2, <2>2, <2>3
    <3> QED  BY <1>1, <2>2, <2>4, <3>1
  <2>5. CASE ~b.stopped
    <3>1. dec[d].generation = b.generation
      BY <1>2, <2>3, <2>5
    <3>2. ~b'.errored => ~b.errored /\ b'.pending = [b.pending EXCEPT ![k] = @ - 1]
      BY <2>1, <2>5, <3>1 DEF Outputs
    <3>3. \A x \in Codec!MediaKinds : x # k /\ ~b'.errored => b'.pending[x] = b.pending[x]
      BY <1>0, <3>2
    <3>4. ~b'.errored => b'.pending[k] = b.pending[k] - 1
      BY <1>0, <2>3, <3>2
    <3>5. Len(Tail(dec[d].work)) = Len(dec[d].work) - 1
      BY <1>0, <2>2
    <3>6. ~b'.errored /\ ~threw' => ~b.errored /\ ~threw /\ b'.pending[k] = Len(dec'[d].work)
      BY <1>2, <2>2, <2>3, <2>5, <3>2, <3>4, <3>5
    <3>7. Open(dec'[d].state)
      BY <2>2, <2>3
    <3> HIDE DEF k
    <3> QED  BY <1>11, <2>2, <2>3, <2>5, <3>3, <3>6, <3>7
  <2> QED  BY <2>4, <2>5
<1>19. ASSUME NEW d \in Codec!Decoders, Codec!DecoderFails(d) PROVE Tracked'
  <2> DEFINE k == d[2]
  <2>1. Fails(d)
    BY <1>19, DecoderFailsEffect
  <2>2. /\ Open(dec[d].state) /\ threw' = threw /\ ~Open(dec'[d].state)
        /\ dec'[d].work = <<>> /\ dec'[d].generation = dec[d].generation
        /\ \A e \in Codec!Decoders : e # d => dec'[e] = dec[e]
        /\ b'.generation = b.generation /\ b'.stopped = b.stopped
        /\ b'.decoder = b.decoder /\ (b.stopped \/ b'.errored)
    BY <2>1 DEF Fails, HandlingDoes, Codec!IsOpen, Open
  <2>3. d = b.decoder[k] /\ k \in Codec!MediaKinds /\ d # Codec!None
    BY <1>0, <1>2, <2>2, NoneDiffers
  <2>4. CASE b.stopped
    <3>1. \A e \in Codec!Decoders : IF Open(dec'[e].state) THEN e = b'.decoder[e[2]]
                                                     ELSE dec'[e].work = <<>>
      BY <1>2, <2>2, <2>3
    <3> QED  BY <1>1, <2>2, <2>4, <3>1
  <2>5. CASE ~b.stopped
    <3> HIDE DEF k
    <3> QED  BY <1>11, <2>2, <2>3, <2>5
  <2> QED  BY <2>4, <2>5
<1> QED  BY <1>4, <1>5, <1>7, <1>8, <1>9, <1>13, <1>14, <1>15, <1>16, <1>17, <1>18, <1>19
         DEF Codec!Next, Codec!Created

LEMMA InitHolds == Codec!DecoderAssumption /\ Codec!Init => DInv
<1> SUFFICES ASSUME Codec!DecoderAssumption, Codec!Init PROVE DInv
  OBVIOUS
<1>1. DTyped
  BY InitTyped
<1>2. DKinds /\ Generations
  BY DEF Codec!Init, DKinds, Generations
<1>3. InOrder(<<>>, <<>>, <<>>, 0)
  <2>1. Len(<<>>) = 0 /\ Len(Numbers(<<>>)) = 0
    BY DEF Numbers
  <2> QED  BY <2>1 DEF InOrder, Rising, Below, UpTo
<1>4. b.queue = <<>> /\ shown = <<>> /\ pushed = 0 /\ \A d \in Codec!Decoders : dec[d].work = <<>>
  BY DEF Codec!Init
<1>5. ChunksInOrder
  BY <1>3, <1>4 DEF ChunksInOrder
<1>6. QueueWaits
  BY DEF Codec!Init, QueueWaits, Codec!DecoderAssumption
<1>7. Alone /\ Tracked
  BY DEF Codec!Init, Alone, AtRest, Running, Unwinding, Tracked, Codec!IsOpen
<1> QED  BY <1>1, <1>2, <1>5, <1>6, <1>7 DEF DInv

LEMMA NextHolds == Codec!DecoderAssumption /\ DInv /\ [Codec!Next]_(Codec!vars) => DInv'
<1> SUFFICES ASSUME Codec!DecoderAssumption, DInv, [Codec!Next]_(Codec!vars) PROVE DInv'
  OBVIOUS
<1>1. CASE Codec!Next
  <2>1. DTyped'
    BY <1>1, NextTyped DEF DInv
  <2>2. DKinds' /\ Generations' /\ QueueWaits' /\ ChunksInOrder'
    BY <1>1, <2>1, GenerationsNext, QueueNext, ChunksNext DEF DInv
  <2>3. ASSUME ~overlap' PROVE Alone' /\ Tracked'
    <3>1. ~overlap
      BY <1>1, <2>3, OverlapStays DEF DInv
    <3> QED  BY <1>1, <2>1, <2>2, <2>3, <3>1, AloneNext, TrackedNext DEF DInv
  <2> QED  BY <2>1, <2>2, <2>3 DEF DInv
<1>2. CASE UNCHANGED Codec!vars
  BY <1>2 DEF Codec!vars, DInv, DTyped, DKinds, Generations, ChunksInOrder, QueueWaits, Alone,
              Tracked, AtRest, Running, Unwinding, Codec!IsOpen
<1> QED  BY <1>1, <1>2

LEMMA InvSafe == Codec!DecoderAssumption /\ DInv => Codec!DecoderSafe
<1> SUFFICES ASSUME Codec!DecoderAssumption, DInv PROVE Codec!DecoderSafe
  OBVIOUS
<1>1. Codec!TypeOK
  BY DEF DInv, DTyped, BackendRecords, DecoderRecords, QueueWaits, Codec!TypeOK
<1>2. Codec!PendingExact
  BY DEF DInv, Tracked, Codec!PendingExact, Codec!Usable
<1>3. Codec!FramesInOrder
  <2>1. shown \in Seq(Nat) /\ Rising(shown)
    BY DEF DInv, DTyped, ChunksInOrder, InOrder
  <2> QED  BY <2>1 DEF Rising, Codec!FramesInOrder
<1>4. Codec!StoppedReleases
  <2> SUFFICES ASSUME ~overlap, b.stopped
               PROVE  (\A d \in Codec!Decoders : ~Codec!IsOpen(d)) /\ b.queue = <<>>
                   /\ b.step = "none"
    BY DEF Codec!StoppedReleases
  <2>1. \A k \in Codec!MediaKinds : b.decoder[k] = Codec!None
    BY DEF DInv, Alone, AtRest
  <2>2. \A d \in Codec!Decoders : ~Codec!IsOpen(d)
    <3> SUFFICES ASSUME NEW d \in Codec!Decoders, Codec!IsOpen(d) PROVE FALSE
      OBVIOUS
    <3>1. d = b.decoder[d[2]] /\ d[2] \in Codec!MediaKinds
      BY DEF DInv, Tracked, Codec!Decoders
    <3> QED  BY <2>1, <3>1, NoneDiffers
  <2>3. ~b.paused
    BY DEF DInv, Alone, AtRest
  <2> QED  BY <2>2, <2>3 DEF DInv, QueueWaits
<1> QED  BY <1>1, <1>2, <1>3, <1>4 DEF Codec!DecoderSafe

\* Whatever the order of pushes, outputs, errors, frame steps, pauses and calls of
\* configure(): frames are shown in the order of their chunks; and unless calls
\* overlap, the counts of what is pending are exact (until decode() throws) and a
\* stopped backend holds no decoder and no chunk (webcodecs.ts:686).
THEOREM DecoderCorrect == Codec!Spec => []DecoderSafe
<1>1. Codec!Init => DInv
  BY InitHolds, DecoderAssumption
<1>2. DInv /\ [Codec!Next]_(Codec!vars) => DInv'
  BY NextHolds, DecoderAssumption
<1>3. DInv => DecoderSafe
  BY InvSafe, DecoderAssumption DEF DecoderSafe
<1> QED
  BY <1>1, <1>2, <1>3, PTL DEF Codec!Spec

-----------------------------------------------------------------------------
(* The native player *)

Numbered == Nat \X Nat
EndMarks == {<<e>> : e \in Native!Ends}
SourceRecords ==
  [state : {"Idle", "Running", "Finished"}, session : 0..MaxSessions, position : Nat]
TaskRecords ==
  [phase : {"none", "connecting", "receiving", "ending", "ended"}, session : Nat, sent : Nat,
   end : Native!Ends \cup {"none"}]

NTyped ==
  /\ player \in [state : Native!States, kind : {"memory", "network"}]
  /\ input \in SourceRecords /\ task \in TaskRecords
  /\ chan \in Seq(Numbered \cup EndMarks) /\ Len(chan) <= ChannelSize
  /\ heard \in Nat \X Nat /\ soak \in Native!States \cup {"rejected"}
  /\ unlogged \in BOOLEAN /\ calls \in Nat

\* The chunks of the current session that were decoded.
Decoded(s, h) == IF h[1] = s THEN h[2] ELSE 0

\* The task works for a source that runs, and what it sent and is not decoded is in
\* the channel.
Served(p, s, k, c, h) ==
  /\ k.phase # "none" => s.state = "Running" /\ k.session = s.session
  /\ s.state = "Running" => p.kind = "network"
  /\ s.state # "Running" => c = <<>>
  /\ k.phase \in {"connecting", "receiving"} => k.sent = Decoded(s.session, h) + Len(c)
  /\ k.phase = "ending" => k.end \in Native!Ends
  /\ \A i \in 1..Len(c) : \/ c[i] = <<s.session, Decoded(s.session, h) + i>>
                          \/ c[i] \in EndMarks

\* A memory source that can be read is where the decoder is.
InStep(p, s, h) ==
  /\ h[1] <= s.session
  /\ p.kind = "memory" /\ s.state # "Finished" => s.position = Decoded(s.session, h)

\* Nothing runs without a player.
Fresh(p, s, k, c) ==
  p.state = "none" => s = [state |-> "Idle", session |-> 0, position |-> 0] /\ k = Native!NoTask
      /\ c = <<>>

\* The log leads to where the player is, unless it misses something.
Logged(p, l, u) ==
  ~u => /\ p.state \in {"none", "Idle", "Preroll", "Playing", "Paused", "Destroyed"}
        /\ l = IF p.state = "none" THEN "Idle" ELSE p.state

NInv ==
  /\ NTyped /\ Served(player, input, task, chan, heard) /\ InStep(player, input, heard)
  /\ Fresh(player, input, task, chan) /\ (player.state = "none" => heard = <<0, 0>>)
  /\ Logged(player, soak, unlogged) /\ Native!IdleReleases

LEMMA NativeInit == Native!Init => NInv
<1> SUFFICES ASSUME Native!Init PROVE NInv
  OBVIOUS
<1>1. /\ player = [state |-> "none", kind |-> "memory"]
      /\ input = [state |-> "Idle", session |-> 0, position |-> 0]
      /\ task = Native!NoTask /\ chan = <<>> /\ heard = <<0, 0>>
      /\ soak = "Idle" /\ unlogged = FALSE /\ calls = 0
  BY DEF Native!Init, Native!NoTask
<1>2. NTyped
  <2>1. player \in [state : Native!States, kind : {"memory", "network"}]
    BY <1>1 DEF Native!States
  <2>2. input \in SourceRecords
    BY <1>1, NativeAssumption DEF SourceRecords, Native!NativeAssumption
  <2>3. task \in TaskRecords
    BY <1>1 DEF Native!NoTask, TaskRecords
  <2>4. chan \in Seq(Numbered \cup EndMarks) /\ Len(chan) <= ChannelSize
    BY <1>1, NativeAssumption DEF Native!NativeAssumption
  <2> QED
    BY <1>1, <2>1, <2>2, <2>3, <2>4 DEF NTyped, Native!States
<1> QED
  BY <1>1, <1>2
  DEF NInv, Served, InStep, Fresh, Logged, Decoded, Native!IdleReleases, Native!NoTask

\* What cancel() leaves.
LEMMA Cancelled ==
  ASSUME NInv, Native!Cancel, player'.kind = player.kind, player'.state # "none", heard' = heard
  PROVE  /\ input' \in SourceRecords /\ task' \in TaskRecords
         /\ chan' = <<>> /\ task'.phase = "none" /\ input'.state # "Running"
         /\ chan' \in Seq(Numbered \cup EndMarks) /\ Len(chan') <= ChannelSize
         /\ Served(player, input, task, chan, heard)' /\ InStep(player, input, heard)'
         /\ Fresh(player, input, task, chan)' /\ Native!IdleReleases'
<1>1. /\ task' = Native!NoTask /\ chan' = <<>>
      /\ input' = [input EXCEPT !.state = IF player.kind = "memory" THEN "Finished" ELSE "Idle",
                                !.position = 0]
  BY DEF Native!Cancel
<1>2. input \in SourceRecords
  BY DEF NInv, NTyped
<1>3. /\ input' \in SourceRecords /\ input'.session = input.session
      /\ input'.state # "Running" /\ (player.kind = "memory" => input'.state = "Finished")
  BY <1>1, <1>2 DEF SourceRecords
<1>4. task' \in TaskRecords /\ task'.phase = "none"
  BY <1>1 DEF Native!NoTask, TaskRecords
<1>5. chan' \in Seq(Numbered \cup EndMarks) /\ Len(chan') = 0 /\ Len(chan') <= ChannelSize
  BY <1>1, NativeAssumption DEF Native!NativeAssumption
<1>6. Served(player, input, task, chan, heard)'
  BY <1>1, <1>3, <1>4, <1>5 DEF Served
<1>7. InStep(player, input, heard)'
  BY <1>3 DEF NInv, InStep
<1> QED
  BY <1>1, <1>3, <1>4, <1>5, <1>6, <1>7 DEF Fresh, Native!IdleReleases

\* What start() leaves.
LEMMA Started ==
  ASSUME NInv, Native!Start, input.session < MaxSessions, heard' = heard,
         player'.kind = player.kind, player'.state \notin {"none", "Idle", "Destroyed"}
  PROVE  /\ input' \in SourceRecords /\ task' \in TaskRecords
         /\ chan' \in Seq(Numbered \cup EndMarks) /\ Len(chan') <= ChannelSize
         /\ Served(player, input, task, chan, heard)' /\ InStep(player, input, heard)'
         /\ Fresh(player, input, task, chan)' /\ Native!IdleReleases'
<1> DEFINE n == input.session + 1
<1>1. /\ input' = [state |-> IF player.kind = "memory" THEN "Idle" ELSE "Running",
                   session |-> n, position |-> 0]
      /\ chan' = <<>>
      /\ task' = IF player.kind = "memory" THEN Native!NoTask
                 ELSE [phase |-> "connecting", session |-> n, sent |-> 0, end |-> "none"]
  BY DEF Native!Start
<1>2. n \in 0..MaxSessions /\ n \in Nat /\ heard[1] < n /\ heard[1] \in Nat
  BY NativeAssumption DEF NInv, NTyped, SourceRecords, InStep, Native!NativeAssumption
<1> HIDE DEF n
<1>3. input' \in SourceRecords /\ task' \in TaskRecords
  BY <1>1, <1>2 DEF SourceRecords, TaskRecords, Native!NoTask
<1>4. chan' \in Seq(Numbered \cup EndMarks) /\ Len(chan') = 0 /\ Len(chan') <= ChannelSize
  BY <1>1, NativeAssumption DEF Native!NativeAssumption
<1>5. Decoded(n, heard) = 0 /\ input'.session = n /\ input'.position = 0
  BY <1>1, <1>2 DEF Decoded
<1>6. /\ player.kind \in {"memory", "network"}
      /\ player.kind = "memory" => task'.phase = "none" /\ input'.state = "Idle"
      /\ player.kind = "network"
           => /\ task'.phase = "connecting" /\ task'.session = n /\ task'.sent = 0
                                    /\ input'.state = "Running"
  BY <1>1 DEF NInv, NTyped, Native!NoTask
<1>7. Served(player, input, task, chan, heard)'
  BY <1>1, <1>4, <1>5, <1>6 DEF Served
<1>8. InStep(player, input, heard)'
  BY <1>2, <1>5, <1>6 DEF InStep
<1> QED
  BY <1>3, <1>4, <1>7, <1>8 DEF Fresh, Native!IdleReleases

\* The user's calls.
LEMMA UserStep == ASSUME NInv, Native!User PROVE NInv'
<1>0. /\ player \in [state : Native!States, kind : {"memory", "network"}]
      /\ soak \in Native!States \cup {"rejected"} /\ unlogged \in BOOLEAN /\ calls \in Nat
      /\ heard \in Nat \X Nat /\ Logged(player, soak, unlogged)
  BY DEF NInv, NTyped
<1>v. \A s, e : Native!Validate(s, e) \in Native!States \cup {"rejected"}
  BY DEF Native!Validate, Native!States
<1>1. CASE Native!Build
  <2>1. PICK kind \in {"memory", "network"}, autoplay \in BOOLEAN :
       /\ autoplay => kind = "memory"
       /\ player' = [state |-> IF autoplay THEN "Playing" ELSE "Idle", kind |-> kind]
       /\ IF autoplay
          THEN /\ input' = [state |-> "Idle", session |-> 1, position |-> 0]
               /\ soak' = Native!Validate(Native!Validate(Native!Validate(soak, "Loaded"), "Prerolled"), "Played")
          ELSE UNCHANGED <<input, soak>>
    BY <1>1 DEF Native!Build
  <2>2. /\ player.state = "none" /\ UNCHANGED <<task, chan, heard, unlogged, calls>>
        /\ task = Native!NoTask /\ chan = <<>> /\ heard = <<0, 0>>
        /\ input = [state |-> "Idle", session |-> 0, position |-> 0]
    BY <1>1 DEF Native!Build, NInv, Fresh
  <2>3. /\ player' \in [state : Native!States, kind : {"memory", "network"}]
        /\ player'.state = (IF autoplay THEN "Playing" ELSE "Idle") /\ player'.kind = kind
    BY <2>1 DEF Native!States
  <2>4. /\ input' \in SourceRecords /\ input'.state = "Idle" /\ input'.position = 0
        /\ input'.session = IF autoplay THEN 1 ELSE 0
    BY <2>1, <2>2, NativeAssumption DEF SourceRecords, Native!NativeAssumption
  <2>5. soak' = IF autoplay /\ ~unlogged THEN "Playing" ELSE soak'
    BY <1>0, <2>1, <2>2 DEF Logged, Native!Validate
  <2>6. soak' \in Native!States \cup {"rejected"}
    BY <1>0, <1>v, <2>1
  <2>7. Logged(player, soak, unlogged)'
    BY <1>0, <2>1, <2>2, <2>3, <2>5 DEF Logged
  <2>8. NTyped'
    BY <2>2, <2>3, <2>4, <2>6 DEF NInv, NTyped
  <2>9. Served(player, input, task, chan, heard)'
    BY <2>2, <2>3, <2>4 DEF Served, Native!NoTask
  <2>10. InStep(player, input, heard)'
    BY <2>2, <2>3, <2>4 DEF InStep, Decoded
  <2>11. Native!IdleReleases' /\ Fresh(player, input, task, chan)' /\ player'.state # "none"
    BY <2>2, <2>3, <2>4 DEF Native!IdleReleases, Fresh, Native!NoTask
  <2> QED
    BY <2>7, <2>8, <2>9, <2>10, <2>11 DEF NInv
<1>2. CASE Native!Load
  <2>1. /\ player.state \notin {"none", "Destroyed"} /\ calls' = calls + 1
        /\ input.session < MaxSessions /\ Native!Start
             /\ player' = [player EXCEPT !.state = "Preroll"]
        /\ unlogged' = (unlogged \/ player.state # "Idle") /\ UNCHANGED heard
        /\ soak' = IF player.state = "Preroll" THEN Native!Validate(soak, "Prerolled")
                   ELSE Native!Validate(Native!Validate(soak, "Loaded"), "Prerolled")
    BY <1>2 DEF Native!Load, Native!Call
  <2>2. /\ player' \in [state : Native!States, kind : {"memory", "network"}]
        /\ player'.state = "Preroll" /\ player'.kind = player.kind
    BY <1>0, <2>1 DEF Native!States
  <2>3. /\ input' \in SourceRecords /\ task' \in TaskRecords
        /\ chan' \in Seq(Numbered \cup EndMarks) /\ Len(chan') <= ChannelSize
        /\ Served(player, input, task, chan, heard)' /\ InStep(player, input, heard)'
        /\ Fresh(player, input, task, chan)' /\ Native!IdleReleases'
    BY <2>1, <2>2, Started
  <2>4. soak' \in Native!States \cup {"rejected"} /\ unlogged' \in BOOLEAN /\ calls' \in Nat
    BY <1>0, <1>v, <2>1
  <2>5. Logged(player, soak, unlogged)'
    BY <1>0, <2>1, <2>2 DEF Logged, Native!Validate
  <2> QED
    BY <1>0, <2>1, <2>2, <2>3, <2>4, <2>5 DEF NInv, NTyped
<1>3. ASSUME Native!Cancel, UNCHANGED <<heard, unlogged>>, calls' \in Nat,
             player.state # "none", NEW to \in Native!States \ {"none"},
             player' = [player EXCEPT !.state = to],
             soak' \in Native!States \cup {"rejected"}, Logged(player, soak, unlogged)'
      PROVE  NInv'
  <2>1. /\ player' \in [state : Native!States, kind : {"memory", "network"}]
        /\ player'.state = to /\ player'.kind = player.kind
    BY <1>0, <1>3
  <2>2. /\ input' \in SourceRecords /\ task' \in TaskRecords
        /\ chan' \in Seq(Numbered \cup EndMarks) /\ Len(chan') <= ChannelSize
        /\ Served(player, input, task, chan, heard)' /\ InStep(player, input, heard)'
        /\ Fresh(player, input, task, chan)' /\ Native!IdleReleases'
    BY <1>3, <2>1, Cancelled
  <2> QED
    BY <1>0, <1>3, <2>1, <2>2 DEF NInv, NTyped
<1>4. CASE Native!LoadRefused
  <2>1. /\ player.state \notin {"none", "Destroyed"} /\ calls' = calls + 1 /\ Native!Cancel
        /\ UNCHANGED <<player, heard, soak, unlogged>>
    BY <1>4 DEF Native!LoadRefused, Native!Call
  <2>2. player' = [player EXCEPT !.state = player.state]
        /\ player.state \in Native!States \ {"none"}
    BY <1>0, <2>1
  <2>3. calls' \in Nat /\ Logged(player, soak, unlogged)'
    BY <1>0, <2>1
  <2> QED
    BY <1>0, <1>3, <2>1, <2>2, <2>3
<1>5. CASE Native!Stop
  <2>1. /\ player.state \notin {"none", "Destroyed"} /\ calls' = calls + 1 /\ Native!Cancel
        /\ player' = [player EXCEPT !.state = "Idle"] /\ UNCHANGED <<heard, unlogged>>
        /\ soak' = IF "Idle" = player.state THEN soak ELSE Native!Validate(soak, "Stopped")
    BY <1>5 DEF Native!Stop, Native!Call, Native!Log
  <2>2. player'.state = "Idle" /\ "Idle" \in Native!States \ {"none"}
    BY <1>0, <2>1 DEF Native!States
  <2>3. Logged(player, soak, unlogged)'
    BY <1>0, <2>1, <2>2 DEF Logged, Native!Validate
  <2>4. soak' \in Native!States \cup {"rejected"} /\ calls' \in Nat
    BY <1>0, <1>v, <2>1
  <2> QED
    BY <1>3, <2>1, <2>2, <2>3, <2>4
<1>6. CASE Native!Destroy
  <2>1. /\ player.state \notin {"none", "Destroyed"} /\ Native!Cancel
        /\ player' = [player EXCEPT !.state = "Destroyed"] /\ UNCHANGED <<heard, unlogged, calls>>
        /\ soak' = IF "Destroyed" = player.state THEN soak ELSE Native!Validate(soak, "Destroyed")
    BY <1>6 DEF Native!Destroy, Native!Log
  <2>2. player'.state = "Destroyed" /\ "Destroyed" \in Native!States \ {"none"}
    BY <1>0, <2>1 DEF Native!States
  <2>3. Logged(player, soak, unlogged)'
    BY <1>0, <2>1, <2>2 DEF Logged, Native!Validate
  <2>4. soak' \in Native!States \cup {"rejected"} /\ calls' \in Nat
    BY <1>0, <1>v, <2>1
  <2> QED
    BY <1>3, <2>1, <2>2, <2>3, <2>4
<1>7. ASSUME NEW to \in {"Playing", "Paused"}, player' = [player EXCEPT !.state = to],
             player.state \notin {"none", "Idle", "Destroyed"}, calls' = calls + 1,
             UNCHANGED <<input, task, chan, heard, unlogged>>,
             soak' \in Native!States \cup {"rejected"}, Logged(player, soak, unlogged)'
      PROVE  NInv'
  <2>1. /\ player' \in [state : Native!States, kind : {"memory", "network"}]
        /\ player'.state = to /\ player'.kind = player.kind
    BY <1>0, <1>7 DEF Native!States
  <2>2. Served(player, input, task, chan, heard)' /\ InStep(player, input, heard)'
    BY <1>7, <2>1 DEF NInv, Served, InStep
  <2>3. NTyped'
    BY <1>0, <1>7, <2>1 DEF NInv, NTyped
  <2> QED
    BY <1>7, <2>1, <2>2, <2>3 DEF NInv, Fresh, Native!IdleReleases
<1>8. CASE Native!Play
  <2>1. /\ player.state \in {"Preroll", "Paused", "Rebuffering", "Playing"} /\ calls' = calls + 1
        /\ player' = [player EXCEPT !.state = "Playing"]
        /\ soak' = IF "Playing" = player.state THEN soak ELSE Native!Validate(soak, "Played")
        /\ UNCHANGED <<input, task, chan, heard, unlogged>>
    BY <1>8 DEF Native!Play, Native!Call, Native!Log
  <2>2. player'.state = "Playing"
    BY <1>0, <2>1
  <2>3. Logged(player, soak, unlogged)'
    BY <1>0, <2>1, <2>2 DEF Logged, Native!Validate
  <2>4. soak' \in Native!States \cup {"rejected"}
    BY <1>0, <1>v, <2>1
  <2> QED
    BY <1>7, <2>1, <2>3, <2>4
<1>9. CASE Native!Pause
  <2>1. /\ player.state \in {"Playing", "Paused"} /\ calls' = calls + 1
        /\ player' = [player EXCEPT !.state = "Paused"]
        /\ soak' = IF "Paused" = player.state THEN soak ELSE Native!Validate(soak, "Paused")
        /\ UNCHANGED <<input, task, chan, heard, unlogged>>
    BY <1>9 DEF Native!Pause, Native!Call, Native!Log
  <2>2. player'.state = "Paused"
    BY <1>0, <2>1
  <2>3. Logged(player, soak, unlogged)'
    BY <1>0, <2>1, <2>2 DEF Logged, Native!Validate
  <2>4. soak' \in Native!States \cup {"rejected"}
    BY <1>0, <1>v, <2>1
  <2> QED
    BY <1>7, <2>1, <2>3, <2>4
<1> QED
  BY <1>1, <1>2, <1>4, <1>5, <1>6, <1>8, <1>9 DEF Native!User

\* What is sent goes behind what was sent before.
LEMMA Sent ==
  ASSUME NInv, task.phase # "none", NEW c \in Numbered \cup EndMarks, Len(chan) < ChannelSize,
         chan' = Append(chan, c)
  PROVE  /\ chan' \in Seq(Numbered \cup EndMarks) /\ Len(chan') = Len(chan) + 1
         /\ Len(chan') <= ChannelSize /\ Len(chan) \in Nat
         /\ \A i \in 1..Len(chan') : chan'[i] = IF i = Len(chan) + 1 THEN c ELSE chan[i]
<1>1. chan \in Seq(Numbered \cup EndMarks)
  BY DEF NInv, NTyped
<1>2. Len(chan) \in Nat /\ Len(chan') = Len(chan) + 1 /\ chan' \in Seq(Numbered \cup EndMarks)
  BY <1>1
<1>3. \A i \in 1..Len(chan') : chan'[i] = IF i = Len(chan) + 1 THEN c ELSE chan[i]
  BY <1>1, <1>2
<1> QED
  BY <1>2, <1>3, NativeAssumption DEF Native!NativeAssumption

\* The network task.
LEMMA NetworkStep == ASSUME NInv, Native!Network PROVE NInv'
<1>1. /\ UNCHANGED <<player, input, heard, soak, unlogged, calls>> /\ task.phase # "none"
      /\ task \in TaskRecords
  BY DEF Native!Network, Native!Connected, Native!Ending, Native!SendData, Native!SendEnd,
         Native!TaskUnchanged, NInv, NTyped
<1>2. /\ input.state = "Running" /\ player.kind = "network" /\ task.session = input.session
      /\ player.state \notin {"none", "Idle", "Destroyed"}
  <2>1. player.state \notin {"Idle", "Destroyed"}
    BY <1>1 DEF NInv, Native!IdleReleases
  <2>2. player.state # "none"
    BY <1>1 DEF NInv, Fresh, Native!NoTask
  <2> QED
    BY <1>1, <2>1, <2>2 DEF NInv, Served
<1>3. SUFFICES /\ task' \in TaskRecords /\ chan' \in Seq(Numbered \cup EndMarks)
      /\ Len(chan') <= ChannelSize
               /\ Served(player, input, task, chan, heard)'
  BY <1>1, <1>2 DEF NInv, NTyped, InStep, Fresh, Native!IdleReleases
<1> DEFINE n == Decoded(input.session, heard)
<1>4. n' = n /\ n \in Nat
  BY <1>1 DEF Decoded, NInv, NTyped
<1>5. Served(player, input, task, chan, heard)
  BY DEF NInv
<1>6. CASE Native!Connected
  <2>1. /\ task.phase = "connecting" /\ task' = [task EXCEPT !.phase = "receiving"] /\ chan' = chan
    BY <1>6 DEF Native!Connected
  <2>2. /\ task' \in TaskRecords /\ task'.phase = "receiving" /\ task'.sent = task.sent
        /\ task'.session = task.session
    BY <1>1, <2>1 DEF TaskRecords
  <2> QED
    BY <1>1, <1>2, <1>5, <2>1, <2>2 DEF Served, NInv, NTyped
<1>7. CASE Native!Ending
  <2>1. PICK e \in Native!Ends : task' = [task EXCEPT !.phase = "ending", !.end = e]
    BY <1>7 DEF Native!Ending
  <2>2. /\ task' \in TaskRecords /\ task'.phase = "ending" /\ task'.end = e
        /\ task'.session = task.session /\ chan' = chan
    BY <1>1, <1>7, <2>1 DEF TaskRecords, Native!Ending
  <2> QED
    BY <1>1, <1>2, <1>5, <2>1, <2>2 DEF Served, NInv, NTyped
<1>8. CASE Native!SendData
  <2>1. /\ task.phase = "receiving" /\ Len(chan) < ChannelSize
        /\ task' = [task EXCEPT !.sent = @ + 1]
        /\ chan' = Append(chan, <<task.session, task.sent + 1>>)
    BY <1>8 DEF Native!SendData
  <2>2. /\ task' \in TaskRecords /\ task'.phase = "receiving" /\ task'.sent = task.sent + 1
        /\ task'.session = task.session /\ task.sent \in Nat /\ task.session \in Nat
    BY <1>1, <2>1 DEF TaskRecords
  <2>3. <<task.session, task.sent + 1>> \in Numbered \cup EndMarks
    BY <2>2 DEF Numbered
  <2>4. /\ chan' \in Seq(Numbered \cup EndMarks) /\ Len(chan') = Len(chan) + 1
        /\ Len(chan') <= ChannelSize /\ Len(chan) \in Nat
        /\ \A i \in 1..Len(chan') :
             chan'[i] = IF i = Len(chan) + 1 THEN <<task.session, task.sent + 1>> ELSE chan[i]
    BY <1>1, <2>1, <2>3, Sent
  <2>5. task.sent = n + Len(chan)
    BY <1>5, <2>1 DEF Served
  <2>6. task'.sent = n + Len(chan')
    BY <1>4, <2>2, <2>4, <2>5
  <2>7. ASSUME NEW i \in 1..Len(chan')
        PROVE  chan'[i] = <<input.session, n + i>> \/ chan'[i] \in EndMarks
    <3>1. CASE i = Len(chan) + 1
      <4>1. n + i = task.sent + 1
        BY <1>4, <2>4, <2>5, <3>1
      <4> QED
        BY <1>2, <2>4, <3>1, <4>1
    <3>2. CASE i # Len(chan) + 1
      <4>1. i \in 1..Len(chan) /\ chan'[i] = chan[i]
        BY <2>4, <3>2
      <4> QED
        BY <1>5, <4>1 DEF Served
    <3> QED
      BY <3>1, <3>2
  <2> QED
    BY <1>1, <1>2, <1>4, <2>2, <2>4, <2>6, <2>7 DEF Served
<1>9. CASE Native!SendEnd
  <2>1. /\ task.phase = "ending" /\ Len(chan) < ChannelSize
        /\ task' = [task EXCEPT !.phase = "ended"] /\ chan' = Append(chan, <<task.end>>)
    BY <1>9 DEF Native!SendEnd
  <2>2. /\ task' \in TaskRecords /\ task'.phase = "ended" /\ task'.session = task.session
    BY <1>1, <2>1 DEF TaskRecords
  <2>3. <<task.end>> \in EndMarks
    BY <1>5, <2>1 DEF Served, EndMarks
  <2>4. /\ chan' \in Seq(Numbered \cup EndMarks) /\ Len(chan') = Len(chan) + 1
        /\ Len(chan') <= ChannelSize /\ Len(chan) \in Nat
        /\ \A i \in 1..Len(chan') : chan'[i] = IF i = Len(chan) + 1 THEN <<task.end>> ELSE chan[i]
    BY <1>1, <2>1, <2>3, Sent
  <2>7. ASSUME NEW i \in 1..Len(chan')
        PROVE  chan'[i] = <<input.session, n + i>> \/ chan'[i] \in EndMarks
    <3>1. CASE i = Len(chan) + 1
      BY <2>3, <2>4, <3>1
    <3>2. CASE i # Len(chan) + 1
      <4>1. i \in 1..Len(chan) /\ chan'[i] = chan[i]
        BY <2>4, <3>2
      <4> QED
        BY <1>5, <4>1 DEF Served
    <3> QED
      BY <3>1, <3>2
  <2> QED
    BY <1>1, <1>2, <1>4, <2>2, <2>4, <2>7 DEF Served
<1> QED
  BY <1>6, <1>7, <1>8, <1>9 DEF Native!Network

\* What is read from a network source.
LEMMA ReadNetwork ==
  ASSUME NInv, player.kind = "network"
  PROVE  /\ input.state = "Running" \/ Native!Read \in {"fatal", "eof"}
         /\ Native!Read \in Native!Ends \cup {"data", "live"}
         /\ Native!Read = "data" =>
              /\ chan # <<>> /\ Native!NextChunk = chan[1]
              /\ chan[1] = <<input.session, Decoded(input.session, heard) + 1>>
<1>1. /\ chan \in Seq(Numbered \cup EndMarks) /\ Served(player, input, task, chan, heard)
      /\ input.state \in {"Idle", "Running", "Finished"}
  BY DEF NInv, NTyped, SourceRecords
<1>2. CASE chan # <<>>
  <2>1. Head(chan) = chan[1] /\ 1 \in 1..Len(chan)
    BY <1>1, <1>2
  <2>2. \/ chan[1] = <<input.session, Decoded(input.session, heard) + 1>> /\ Len(chan[1]) = 2
        \/ \E e \in Native!Ends : chan[1] = <<e>> /\ Len(chan[1]) = 1
    <3> DEFINE next == <<input.session, Decoded(input.session, heard) + 1>>
    <3>1. chan[1] = next \/ chan[1] \in EndMarks
      BY <1>1, <2>1 DEF Served
    <3>2. Len(next) = 2
      OBVIOUS
    <3> HIDE DEF next
    <3>3. CASE chan[1] \in EndMarks
      <4>1. PICK e \in Native!Ends : chan[1] = <<e>>
        BY <3>3, Zenon DEF EndMarks
      <4>2. Len(<<e>>) = 1
        OBVIOUS
      <4> QED
        BY <4>1, <4>2, Zenon
    <3> QED
      BY <3>1, <3>2, <3>3, Zenon DEF next
  <2>3. input.state = "Running"
    BY <1>1, <1>2 DEF Served
  <2>4. Native!Read = IF Len(chan[1]) = 1 THEN chan[1][1] ELSE "data"
    BY <1>2, <2>1, <2>3 DEF Native!Read
  <2>5. CASE Len(chan[1]) = 2
    BY <1>2, <2>1, <2>2, <2>3, <2>4, <2>5 DEF Native!NextChunk
  <2>6. CASE Len(chan[1]) = 1
    BY <2>2, <2>3, <2>4, <2>6 DEF Native!Ends
  <2> QED
    BY <2>2, <2>5, <2>6
<1>3. CASE chan = <<>>
  <2>1. input.state = "Idle" => Native!Read = "fatal"
    BY DEF Native!Read
  <2>4. input.state = "Finished" => Native!Read = "eof"
    BY DEF Native!Read
  <2>2. input.state = "Running" => Native!Read = IF task.phase # "ended" THEN "live" ELSE "fatal"
    BY <1>3 DEF Native!Read
  <2> QED
    BY <1>1, <1>3, <2>1, <2>2, <2>4 DEF Native!Ends
<1> QED
  BY <1>2, <1>3

\* What is read is the next chunk of the session.
LEMMA NextIs ==
  ASSUME NInv, Native!Read = "data"
  PROVE  /\ Native!NextChunk = <<input.session, Decoded(input.session, heard) + 1>>
         /\ player.kind = "memory" => input.state # "Finished"
<1>1. CASE player.kind = "network"
  BY <1>1, ReadNetwork
<1>2. CASE player.kind = "memory"
  BY <1>2 DEF Native!Read, Native!NextChunk, NInv, InStep
<1> QED
  BY <1>1, <1>2 DEF NInv, NTyped

LEMMA TickStep == ASSUME NInv, Native!Tick PROVE NInv'
<1> DEFINE what == Native!Read
<1>0. /\ player \in [state : Native!States, kind : {"memory", "network"}] /\ input \in SourceRecords
      /\ task \in TaskRecords /\ chan \in Seq(Numbered \cup EndMarks) /\ Len(chan) <= ChannelSize
      /\ heard \in Nat \X Nat /\ soak \in Native!States \cup {"rejected"}
      /\ unlogged \in BOOLEAN /\ calls \in Nat
      /\ Logged(player, soak, unlogged) /\ Served(player, input, task, chan, heard)
      /\ InStep(player, input, heard)
  BY DEF NInv, NTyped
<1>1. PICK to \in (CASE what = "eof" -> {"Idle"} [] what = "retryable" -> {"Rebuffering"}
                     [] what = "fatal" -> {"Rebuffering", "Failed"} [] OTHER -> {"Playing"}) :
        /\ player' = [player EXCEPT !.state = to]
        /\ unlogged' = (unlogged \/ to # "Playing")
  BY DEF Native!Tick
<1>2. /\ player.state = "Playing" /\ UNCHANGED <<soak, calls>>
      /\ heard' = IF what = "data" THEN Native!NextChunk ELSE heard
      /\ IF what = "eof" THEN Native!Cancel ELSE Native!AfterRead(what)
  BY DEF Native!Tick
<1>3. to \in {"Idle", "Rebuffering", "Failed", "Playing"} /\ (what # "eof" => to # "Idle")
  BY <1>1
<1>4. /\ player' \in [state : Native!States, kind : {"memory", "network"}]
      /\ player'.state = to /\ player'.kind = player.kind /\ unlogged' \in BOOLEAN
  BY <1>0, <1>1, <1>3 DEF Native!States
<1>5. Logged(player, soak, unlogged)'
  BY <1>0, <1>1, <1>2, <1>4 DEF Logged
<1>6. SUFFICES /\ input' \in SourceRecords /\ task' \in TaskRecords
               /\ chan' \in Seq(Numbered \cup EndMarks) /\ Len(chan') <= ChannelSize
               /\ Served(player, input, task, chan, heard)' /\ InStep(player, input, heard)'
               /\ heard' \in Nat \X Nat /\ Native!IdleReleases'
  BY <1>0, <1>2, <1>3, <1>4, <1>5 DEF NInv, NTyped, Fresh
<1>7. CASE what = "eof"
  BY <1>0, <1>2, <1>3, <1>4, <1>7, Cancelled
<1>a. /\ input.session \in 0..MaxSessions /\ input.session \in Nat /\ input.position \in Nat
      /\ heard[1] \in Nat /\ heard[2] \in Nat /\ Decoded(input.session, heard) \in Nat
      /\ input.state \in {"Idle", "Running", "Finished"}
  BY <1>0, NativeAssumption DEF SourceRecords, Decoded, Native!NativeAssumption
<1>8. CASE what = "data"
  <2>1. heard' = <<input.session, Decoded(input.session, heard) + 1>>
    BY <1>2, <1>8, NextIs
  <2>2. /\ input' = [input EXCEPT !.position = @ + 1]
        /\ chan' = (IF chan = <<>> THEN chan ELSE Tail(chan)) /\ task' = task
    BY <1>2, <1>8 DEF Native!AfterRead, Native!Ends
  <2>3. /\ input' \in SourceRecords /\ input'.session = input.session /\ input'.state = input.state
        /\ input'.position = input.position + 1
    BY <1>0, <1>a, <2>2 DEF SourceRecords
  <2>4. heard' \in Nat \X Nat /\ Decoded(input'.session, heard') = Decoded(input.session, heard) + 1
        /\ heard'[1] = input.session
    BY <1>a, <2>1, <2>3 DEF Decoded
  <2>5. CASE player.kind = "network"
    <3>1. chan # <<>> /\ chan' = Tail(chan)
      BY <1>8, <2>2, <2>5, ReadNetwork
    <3>2. /\ chan' \in Seq(Numbered \cup EndMarks) /\ Len(chan') = Len(chan) - 1
               /\ Len(chan) \in Nat
          /\ Len(chan) > 0 /\ \A i \in 1..Len(chan') : chan'[i] = chan[i + 1]
               /\ i + 1 \in 1..Len(chan)
      BY <1>0, <3>1
    <3>3. input.state = "Running"
      BY <1>8, <2>5, ReadNetwork
    <3>4. ASSUME NEW i \in 1..Len(chan')
          PROVE  \/ chan'[i] = <<input'.session, Decoded(input'.session, heard') + i>>
                 \/ chan'[i] \in EndMarks
      <4>1. Decoded(input.session, heard) + (i + 1) = Decoded(input'.session, heard') + i
        BY <1>a, <2>4
      <4> QED
        BY <1>0, <2>3, <3>2, <4>1 DEF Served
    <3>5. task.phase \in {"connecting", "receiving"} =>
            task.sent = Decoded(input'.session, heard') + Len(chan')
      BY <1>0, <1>a, <2>4, <3>2 DEF Served
    <3>6. Served(player, input, task, chan, heard)'
      BY <1>0, <1>4, <2>2, <2>3, <2>5, <3>3, <3>4, <3>5 DEF Served
    <3>7. InStep(player, input, heard)'
      BY <1>4, <1>a, <2>3, <2>4, <2>5 DEF InStep
    <3>8. Len(chan') <= ChannelSize
      BY <1>0, <3>2, NativeAssumption DEF Native!NativeAssumption
    <3> QED
      BY <1>0, <1>3, <1>4, <1>8, <2>2, <2>3, <2>4, <3>2, <3>6, <3>7, <3>8 DEF Native!IdleReleases
  <2>6. CASE player.kind = "memory"
    <3>1. input.state # "Finished" /\ input.state # "Running" /\ chan = <<>> /\ task.phase = "none"
      BY <1>0, <1>8, <2>6, NextIs DEF Served
    <3>2. chan' = <<>> /\ Len(chan') = 0
      BY <2>2, <3>1
    <3>3. Served(player, input, task, chan, heard)'
      BY <1>4, <2>2, <2>3, <2>6, <3>1, <3>2 DEF Served
    <3>4. InStep(player, input, heard)'
      BY <1>0, <1>4, <1>a, <2>3, <2>4, <3>1 DEF InStep
    <3> QED
      BY <1>0, <1>3, <1>4, <1>8, <2>2, <2>3, <2>4, <3>1, <3>2, <3>3, <3>4 DEF Native!IdleReleases
  <2> QED
    BY <1>0, <2>5, <2>6
<1>9. CASE what \notin {"eof", "data"}
  <2>1. player.kind = "network" /\ what \in {"live", "fatal", "retryable"}
    BY <1>0, <1>9, ReadNetwork DEF Native!Read, Native!Ends
  <2>2. /\ heard' = heard /\ chan' = (IF what = "live" \/ chan = <<>> THEN chan ELSE <<>>)
        /\ input' = (IF what # "live" /\ input.state = "Running" THEN [input EXCEPT !.state = "Finished"]
                     ELSE input)
        /\ task' = (IF what # "live" /\ input.state = "Running" THEN Native!NoTask ELSE task)
    BY <1>2, <1>9, <2>1 DEF Native!AfterRead, Native!Ends
  <2>3. /\ input' \in SourceRecords /\ input'.session = input.session
        /\ input'.position = input.position
        /\ input'.state = IF what # "live"
             /\ input.state = "Running" THEN "Finished" ELSE input.state
    BY <1>0, <2>2 DEF SourceRecords
  <2>4. CASE what = "live"
    BY <1>0, <1>3, <1>4, <1>9, <2>2, <2>4 DEF Served, InStep, Native!IdleReleases
  <2>5. CASE what # "live"
    <3>1. chan' = <<>> /\ Len(chan') = 0 /\ Len(chan') <= ChannelSize /\ input'.state # "Running"
      BY <2>2, <2>3, <2>5, NativeAssumption DEF Native!NativeAssumption
    <3>2. task' \in TaskRecords /\ task'.phase = "none"
      BY <1>0, <2>2, <2>5 DEF TaskRecords, Native!NoTask, Served
    <3>3. Served(player, input, task, chan, heard)' /\ InStep(player, input, heard)'
      BY <1>0, <1>4, <2>1, <2>2, <2>3, <3>1, <3>2 DEF Served, InStep
    <3> QED
      BY <1>0, <1>3, <1>4, <1>9, <2>2, <2>3, <3>1, <3>2, <3>3 DEF Native!IdleReleases
  <2> QED
    BY <2>4, <2>5
<1> QED
  BY <1>7, <1>8, <1>9

LEMMA NativeStays == NInv /\ UNCHANGED Native!vars => NInv'
BY DEF NInv, NTyped, Served, InStep, Fresh, Logged, Native!IdleReleases, Native!vars

LEMMA NativeNext == NInv /\ [Native!Next]_(Native!vars) => NInv'
BY UserStep, NetworkStep, TickStep, NativeStays DEF Native!Next

LEMMA NativeHolds == NInv => Native!TypeOK /\ Native!IdleReleases /\ Native!LogAccepted
<1> SUFFICES ASSUME NInv PROVE Native!TypeOK /\ Native!LogAccepted
  BY DEF NInv
<1>1. Native!TypeOK
  BY DEF NInv, NTyped, SourceRecords, TaskRecords, Native!TypeOK
<1>2. Native!LogAccepted
  BY DEF NInv, Logged, Native!LogAccepted, NTyped
<1> QED
  BY <1>1, <1>2

LEMMA ContiguousStep ==
  NInv /\ [Native!Next]_(Native!vars) =>
    [heard' # heard =>
       /\ heard'[1] = input.session
       /\ heard'[2] = IF heard[1] = input.session THEN heard[2] + 1 ELSE 1]_(Native!vars)
<1> SUFFICES ASSUME NInv, Native!Next, heard' # heard
             PROVE  /\ heard'[1] = input.session
                    /\ heard'[2] = IF heard[1] = input.session THEN heard[2] + 1 ELSE 1
  OBVIOUS
<1>1. ~Native!Network
  BY DEF Native!Network, Native!Connected, Native!Ending, Native!SendData, Native!SendEnd,
         Native!TaskUnchanged
<1>2. ~Native!User
  BY DEF Native!User, Native!Build, Native!Load, Native!LoadRefused, Native!Play, Native!Pause,
         Native!Stop, Native!Destroy
<1>3. Native!Read = "data" /\ heard' = Native!NextChunk
  BY <1>1, <1>2 DEF Native!Next, Native!Tick
<1> QED
  BY <1>3, NextIs DEF Decoded

LEMMA RebufferingStep ==
  NInv /\ [Native!Next]_(Native!vars) =>
    [player.state = "Rebuffering" /\ player'.state # "Rebuffering"
       => calls' # calls \/ player'.state = "Destroyed"]_(Native!vars)
<1> SUFFICES ASSUME NInv, Native!Next, player.state = "Rebuffering", player'.state # "Rebuffering"
             PROVE  calls' # calls \/ player'.state = "Destroyed"
  OBVIOUS
<1>1. ~Native!Network /\ ~Native!Tick
  BY DEF Native!Network, Native!Connected, Native!Ending, Native!SendData, Native!SendEnd,
         Native!TaskUnchanged, Native!Tick
<1>2. player \in [state : Native!States, kind : {"memory", "network"}] /\ calls \in Nat
  BY DEF NInv, NTyped
<1>3. CASE Native!Destroy
  BY <1>2, <1>3 DEF Native!Destroy
<1>4. CASE ~Native!Destroy
  <2>1. Native!Call
    BY <1>1, <1>4
    DEF Native!Next, Native!User, Native!Build, Native!Load, Native!LoadRefused, Native!Play,
        Native!Pause, Native!Stop
  <2> QED
    BY <1>2, <2>1 DEF Native!Call
<1> QED
  BY <1>3, <1>4

\* However the calls of the user, the ticks of the player and the network task
\* interleave, for any channel and any number of chunks and sessions: an idle player
\* holds no task and nothing queued, the log of the life cycle is legal, the decoder
\* gets each chunk of a session once and in order, and only the user ends rebuffering
\* (player.rs:238, lifecycle.rs:64).
THEOREM NativeCorrect == Native!Spec => NativePlays
<1>1. Native!Init => NInv
  BY NativeInit
<1>2. NInv /\ [Native!Next]_(Native!vars) => NInv'
  BY NativeNext
<1>3. NInv => Native!TypeOK /\ Native!IdleReleases /\ Native!LogAccepted
  BY NativeHolds
<1>4. NInv /\ [Native!Next]_(Native!vars) =>
        [heard' # heard =>
           /\ heard'[1] = input.session
           /\ heard'[2] = IF heard[1] = input.session THEN heard[2] + 1 ELSE 1]_(Native!vars)
  BY ContiguousStep
<1>5. NInv /\ [Native!Next]_(Native!vars) =>
        [player.state = "Rebuffering" /\ player'.state # "Rebuffering"
           => calls' # calls \/ player'.state = "Destroyed"]_(Native!vars)
  BY RebufferingStep
<1> QED
  BY <1>1, <1>2, <1>3, <1>4, <1>5, PTL
  DEF Native!Spec, NativePlays, Native!NativePlays, Native!Contiguous, Native!RebufferingStays

-----------------------------------------------------------------------------
(* The media clock and the A/V synchroniser *)

EpochRecords ==
  [seen : BOOLEAN, base : Int, ticks : Int, raw : Int, clock : Int, delta : Int]
ClockRecords ==
  [epochs : [Epochs -> EpochRecords], overall : Nat, state : {"Preroll", "CatchUp", "Ended"},
   jitter : Int, wraps : Nat, discontinuities : Nat]
SyncRecords ==
  [audioMs : Int, heard : BOOLEAN, audioClock : Int,
   decision : {"none", "Render", "Drop", "Hold"}, maxDrift : Nat]

TimeTyped ==
  /\ wrapBits \in {0, WrapBits} /\ samples \in 0..MaxSamples
  /\ times \in [Epochs -> Int]
  /\ clock \in ClockRecords
  /\ clock.wraps <= samples /\ clock.discontinuities <= samples
  /\ sync \in SyncRecords /\ (sync.maxDrift > 0 => sync.heard)
  /\ given \in [epoch : Epochs \cup {0}, time : Int]

\* What an epoch remembers of a source that is at time s.
Remembers(x, s) ==
  IF x.seen THEN x.ticks = s /\ x.raw = Time!Micros(s) /\ x.clock = x.base + x.raw ELSE s \in Starts

\* What was given last is the time of its epoch.
GivenLast == given.epoch # 0 => given.time = clock.epochs[given.epoch].clock /\ clock.epochs[given.epoch].seen

TimeInv ==
  /\ TimeTyped /\ \A e \in Epochs : Remembers(clock.epochs[e], times[e])
  /\ GivenLast

-----------------------------------------------------------------------------
(* Conversions *)

LEMMA Assumed ==
  /\ WrapBits \in Nat \ {0} /\ 2^WrapBits \in Nat \ {0}
  /\ Threshold \in Nat /\ TickNum \in Nat /\ TickDen \in Nat \ {0} /\ Ms \in Nat \ {0}
  /\ MaxDrift \in Int /\ Late \in Int
  /\ 0 \notin Epochs /\ MaxSamples \in Nat
  /\ Starts \subseteq Int /\ Steps \subseteq Int
  /\ \A start \in Starts, step \in Steps : start + step \in 0..(2^WrapBits - 1)
  /\ \A step \in Steps : 2 * step < 2^WrapBits /\ -2 * step < 2^WrapBits
BY TimelineAssumption DEF Time!TimelineAssumption

LEMMA DivMonotone ==
  ASSUME NEW m \in Int, NEW n \in Int, NEW d \in Nat \ {0}, m <= n
  PROVE  m \div d \in Int /\ n \div d \in Int /\ m \div d <= n \div d
<1> DEFINE u == m \div d
           v == n \div d
<1>1. /\ u \in Int /\ v \in Int
      /\ d * u <= m /\ m < d * u + d /\ d * v <= n /\ n < d * v + d
  OBVIOUS
<1> HIDE DEF u, v
<1>2. ASSUME u > v PROVE FALSE
  <2>1. u >= v + 1 /\ d * (v + 1) = d * v + d
    BY <1>1, <1>2
  <2>2. d * u >= d * (v + 1)
    BY <1>1, <2>1
  <2> QED
    BY <1>1, <2>1, <2>2
<1> QED
  BY <1>1, <1>2 DEF u, v

LEMMA QuotientMonotone ==
  ASSUME NEW m \in Int, NEW n \in Int, NEW d \in Nat \ {0}, m <= n
  PROVE  /\ Time!Quotient(m, d) \in Int /\ Time!Quotient(n, d) \in Int
         /\ Time!Quotient(m, d) <= Time!Quotient(n, d)
<1>1. CASE m >= 0
  BY <1>1, DivMonotone DEF Time!Quotient
<1>2. CASE n < 0
  <2>1. -n \in Int /\ -m \in Int /\ -n <= -m
    BY <1>2
  <2>2. (-n) \div d \in Int /\ (-m) \div d \in Int /\ (-n) \div d <= (-m) \div d
    BY <2>1, DivMonotone
  <2> QED
    BY <1>2, <2>2 DEF Time!Quotient
<1>3. CASE m < 0 /\ n >= 0
  <2>1. -m \in Int /\ 0 \div d = 0 /\ 0 <= -m /\ 0 <= n
    BY <1>3
  <2>2. n \div d \in Int /\ (-m) \div d \in Int /\ 0 <= n \div d /\ 0 <= (-m) \div d
    BY <2>1, DivMonotone
  <2> QED
    BY <1>3, <2>2 DEF Time!Quotient
<1> QED
  BY <1>1, <1>2, <1>3

LEMMA MicrosMonotone ==
  ASSUME NEW m \in Int, NEW n \in Int, m <= n
  PROVE  Time!Micros(m) \in Int /\ Time!Micros(n) \in Int /\ Time!Micros(m) <= Time!Micros(n)
<1>1. TickNum \in Nat /\ TickDen \in Nat \ {0}
  BY Assumed
<1>2. m * TickNum \in Int /\ n * TickNum \in Int /\ m * TickNum <= n * TickNum
  BY <1>1
<1> QED
  BY <1>1, <1>2, QuotientMonotone DEF Time!Micros

LEMMA MillisTyped == ASSUME NEW n \in Int PROVE Time!Millis(n) \in Int
<1>1. TickNum \in Nat /\ TickDen * Ms \in Nat \ {0}
  BY Assumed
<1>2. n * TickNum \in Int
  BY <1>1
<1> QED
  BY <1>1, <1>2, QuotientMonotone DEF Time!Millis

\* Around the time of the source, its counter stands for the time it comes to.
LEMMA UnwrapIs ==
  ASSUME wrapBits = WrapBits, NEW s \in Int, NEW step \in Steps
  PROVE  Time!Unwrap((s + step) % 2^wrapBits, s) = s + step
<1> DEFINE range == 2^wrapBits
           old == s % range
           new == (s + step) % range
           p == s \div range
           q == (s + step) \div range
           half == range \div 2
<1>1. range \in Nat \ {0} /\ step \in Int /\ 2 * step < range /\ -2 * step < range
  BY Assumed
<1>2. /\ old \in 0..(range - 1) /\ new \in 0..(range - 1) /\ p \in Int /\ q \in Int
      /\ s = range * p + old /\ s + step = range * q + new
  <2> HIDE DEF range
  <2> QED
    BY <1>1
<1>3. new % range = new
  <2>1. new \in Int /\ 0 <= new /\ new < range
    BY <1>1, <1>2
  <2> HIDE DEF range, new
  <2> QED
    BY <1>1, <2>1
<1>4. half \in Int /\ 2 * half <= range /\ range <= 2 * half + 1
  <2> HIDE DEF range
  <2> QED
    BY <1>1
<1>5. Time!Unwrap(new, s) = s - old + new + (IF new - old > half THEN -range ELSE
                                             IF new - old < -half THEN range ELSE 0)
  BY <1>3 DEF Time!Unwrap
<1> HIDE DEF range, old, new, p, q, half
<1>6. new - old = step - (range * q - range * p)
  BY <1>1, <1>2
<1>7. range * q - range * p \in {0, range, -range}
  <2>1. range * q - range * p = range * (q - p)
    BY <1>1, <1>2
  <2>2. CASE q - p >= 2
    <3>1. range * (q - p) >= range * 2
      BY <1>1, <1>2, <2>2
    <3> QED
      BY <1>1, <1>2, <1>6, <2>1, <3>1
  <2>3. CASE q - p <= -2
    <3>1. range * (q - p) <= range * (-2)
      BY <1>1, <1>2, <2>3
    <3> QED
      BY <1>1, <1>2, <1>6, <2>1, <3>1
  <2>4. CASE q - p \in {-1, 0, 1}
    BY <1>1, <2>1, <2>4
  <2> QED
    BY <1>1, <1>2, <2>2, <2>3, <2>4
<1>8. CASE range * q - range * p = 0
  <2>1. new - old = step /\ -half <= step /\ step <= half
    BY <1>1, <1>2, <1>4, <1>6, <1>8
  <2> QED
    BY <1>1, <1>2, <1>4, <1>5, <2>1 DEF new, range
<1>9. CASE range * q - range * p = range
  <2>1. new - old = step - range /\ step - range < -half
    BY <1>1, <1>2, <1>4, <1>6, <1>9
  <2>2. ~(new - old > half)
    BY <1>1, <1>2, <1>4, <2>1
  <2> QED
    BY <1>1, <1>2, <1>4, <1>5, <2>1, <2>2 DEF new, range
<1>10. CASE range * q - range * p = -range
  <2>1. new - old = step + range /\ step + range > half
    BY <1>1, <1>2, <1>4, <1>6, <1>10
  <2> QED
    BY <1>1, <1>2, <1>4, <1>5, <2>1 DEF new, range
<1> QED
  BY <1>7, <1>8, <1>9, <1>10
-----------------------------------------------------------------------------
(* What an update does *)

\* The epoch follows its source, the time it is given is at or behind every other, and
\* while it goes forward in front, as far forward as the source.
LEMMA UpdatedIs ==
  ASSUME TimeInv, NEW e \in Epochs, NEW step \in Steps
  PROVE  LET c == Time!Updated(clock, Time!Tick(e, step), e)
             x == clock.epochs[e]
             y == c.epochs[e]
             s == times[e] + step
         IN /\ c \in ClockRecords
            /\ \A f \in Epochs : f # e => c.epochs[f] = clock.epochs[f]
            /\ y.seen /\ y.ticks = s /\ y.raw = Time!Micros(s) /\ y.clock = y.base + y.raw
            /\ y.clock >= clock.overall /\ c.overall = y.clock
            /\ x.seen /\ x.clock = clock.overall /\ step > 0 => y.clock - x.clock = y.raw - x.raw
            /\ c.state = clock.state
            /\ c.wraps <= clock.wraps + 1 /\ c.discontinuities <= clock.discontinuities + 1
<1> DEFINE x == clock.epochs[e]
           s == times[e] + step
           tick == Time!Tick(e, step)
           ticks == IF x.seen /\ wrapBits > 0 THEN Time!Unwrap(tick, x.ticks) ELSE tick
           wrapped == ticks # tick
           raw == Time!Micros(ticks)
           jump == x.seen /\ x.raw - raw > Threshold
           base == IF jump \/ (~x.seen /\ clock.overall # 0) THEN clock.overall - raw + 1
                   ELSE IF x.seen THEN x.base ELSE 0
           inEpoch == IF base + raw < x.clock THEN x.clock - raw + 1 ELSE base
           final == IF inEpoch + raw < clock.overall THEN clock.overall - raw + 1 ELSE inEpoch
           delta == IF x.seen THEN raw - x.raw ELSE 0
           deviation == Time!Abs(delta - x.delta)
           y == [seen |-> TRUE, base |-> final, ticks |-> ticks, raw |-> raw, clock |-> final + raw,
                 delta |-> IF jump \/ wrapped THEN 0 ELSE delta]
           overall == IF final + raw > clock.overall THEN final + raw ELSE clock.overall
           jitter == IF x.delta # 0 /\ deviation > clock.jitter * Ms THEN deviation \div Ms
                     ELSE clock.jitter
           wraps == clock.wraps + (IF wrapped THEN 1 ELSE 0)
           jumps == clock.discontinuities + (IF jump THEN 1 ELSE 0)
           c == [clock EXCEPT !.epochs[e] = y, !.overall = overall, !.jitter = jitter,
                              !.wraps = wraps, !.discontinuities = jumps]
<1>1. Time!Updated(clock, tick, e) = c
  BY DEF Time!Updated
<1>2. /\ clock \in ClockRecords /\ x \in EpochRecords /\ times[e] \in Int /\ step \in Int
      /\ Threshold \in Nat /\ Ms \in Nat \ {0} /\ s \in Int
      /\ wrapBits \in {0, WrapBits} /\ WrapBits \in Nat \ {0}
      /\ Remembers(x, times[e])
  <2>1. clock \in ClockRecords /\ x \in EpochRecords /\ times[e] \in Int
    BY DEF TimeInv, TimeTyped, ClockRecords
  <2> QED
    BY <2>1, Assumed DEF TimeInv, TimeTyped
<1>3. /\ x.seen \in BOOLEAN /\ x.base \in Int /\ x.ticks \in Int /\ x.raw \in Int /\ x.clock \in Int
      /\ x.delta \in Int
  BY <1>2 DEF EpochRecords
<1>4. /\ clock.overall \in Nat /\ clock.jitter \in Int /\ clock.wraps \in Nat
      /\ clock.discontinuities \in Nat /\ clock.epochs \in [Epochs -> EpochRecords]
  BY <1>2 DEF ClockRecords
<1>5. ticks = s
  <2>1. CASE wrapBits = 0
    BY <1>2, <2>1 DEF Time!Tick
  <2>2. CASE wrapBits # 0 /\ x.seen
    <3>1. wrapBits = WrapBits /\ x.ticks = times[e] /\ wrapBits > 0
      BY <1>2, <2>2 DEF Remembers
    <3>2. Time!Unwrap((times[e] + step) % 2^wrapBits, times[e]) = s
      BY <1>2, <3>1, UnwrapIs
    <3> QED
      BY <2>2, <3>1, <3>2 DEF Time!Tick
  <2>3. CASE wrapBits # 0 /\ ~x.seen
    <3>1. times[e] \in Starts /\ wrapBits = WrapBits /\ wrapBits > 0
      BY <1>2, <2>3 DEF Remembers
    <3>2. s \in 0..(2^wrapBits - 1) /\ 2^wrapBits \in Nat \ {0}
      BY <3>1, Assumed
    <3>3. s % 2^wrapBits = s
      BY <3>2
    <3> QED
      BY <2>3, <3>1, <3>3 DEF Time!Tick
  <2> QED
    BY <1>3, <2>1, <2>2, <2>3
<1>6. raw \in Int /\ raw = Time!Micros(s)
  BY <1>2, <1>5, MicrosMonotone
<1>7. x.seen => x.raw = Time!Micros(times[e]) /\ x.clock = x.base + x.raw
  BY <1>2 DEF Remembers
<1>8. x.seen /\ step > 0 => x.raw <= raw
  BY <1>2, <1>6, <1>7, MicrosMonotone
<1> HIDE DEF ticks, raw, tick
<1>9. jump \in BOOLEAN /\ wrapped \in BOOLEAN
  OBVIOUS
<1>10. base \in Int /\ (x.seen /\ step > 0 => ~jump /\ base = x.base)
  BY <1>2, <1>3, <1>4, <1>6, <1>8
<1> HIDE DEF jump, base, wrapped
<1>11. inEpoch \in Int /\ (x.seen /\ step > 0 => inEpoch = x.base)
  BY <1>3, <1>6, <1>7, <1>8, <1>10
<1> HIDE DEF inEpoch
<1>12. /\ final \in Int /\ final + raw >= clock.overall
       /\ x.seen /\ step > 0 /\ x.clock = clock.overall => final = x.base
  BY <1>3, <1>4, <1>6, <1>7, <1>8, <1>11
<1>13. delta \in Int
  BY <1>3, <1>6
<1> HIDE DEF final, delta
<1>14. deviation \in Int
  BY <1>3, <1>13 DEF Time!Abs
<1> HIDE DEF deviation
<1>15. jitter \in Int
  BY <1>2, <1>4, <1>14
<1>16. overall = final + raw /\ overall \in Nat
  BY <1>4, <1>6, <1>12
<1>17. wraps \in Nat /\ jumps \in Nat /\ wraps <= clock.wraps + 1 /\ jumps <= clock.discontinuities + 1
  BY <1>4, <1>9
<1>18. y \in EpochRecords
  BY <1>2, <1>5, <1>6, <1>9, <1>12, <1>13 DEF EpochRecords
<1>19. /\ y.seen /\ y.ticks = ticks /\ y.raw = raw /\ y.clock = final + raw /\ y.base = final
  OBVIOUS
<1> HIDE DEF y, overall, jitter, wraps, jumps
<1>20. /\ c \in ClockRecords /\ c.epochs[e] = y
       /\ \A f \in Epochs : f # e => c.epochs[f] = clock.epochs[f]
       /\ c.overall = overall /\ c.state = clock.state /\ c.wraps = wraps /\ c.discontinuities = jumps
  BY <1>2, <1>4, <1>15, <1>16, <1>17, <1>18 DEF ClockRecords
<1> HIDE DEF c
<1>21. x.seen /\ x.clock = clock.overall /\ step > 0 => y.clock - x.clock = y.raw - x.raw
  BY <1>3, <1>6, <1>7, <1>12, <1>19
<1> HIDE DEF x, s
<1> QED
  BY <1>1, <1>5, <1>6, <1>12, <1>16, <1>17, <1>19, <1>20, <1>21 DEF tick, x, s
-----------------------------------------------------------------------------
(* The invariant *)

LEMMA TimeInit == Time!Init => TimeInv
<1> SUFFICES ASSUME Time!Init PROVE TimeInv
  OBVIOUS
<1>1. /\ wrapBits \in {0, WrapBits} /\ samples = 0 /\ times \in [Epochs -> Starts]
      /\ clock = [epochs |-> [e \in Epochs |-> Time!NoEpoch], overall |-> 0,
                  state |-> "Preroll", jitter |-> 0, wraps |-> 0, discontinuities |-> 0]
      /\ sync = [audioMs |-> 0, heard |-> FALSE, audioClock |-> 0, decision |-> "none", maxDrift |-> 0]
      /\ given = [epoch |-> 0, time |-> 0]
  BY DEF Time!Init
<1>2. Time!NoEpoch \in EpochRecords /\ ~Time!NoEpoch.seen
  BY DEF Time!NoEpoch, EpochRecords
<1>3. clock \in ClockRecords /\ \A e \in Epochs : clock.epochs[e] = Time!NoEpoch
  BY <1>1, <1>2 DEF ClockRecords
<1>4. sync \in SyncRecords /\ ~(sync.maxDrift > 0) /\ given \in [epoch : Epochs \cup {0}, time : Int]
  BY <1>1 DEF SyncRecords
<1>5. times \in [Epochs -> Int] /\ \A e \in Epochs : times[e] \in Starts
  BY <1>1, Assumed
<1>6. samples \in 0..MaxSamples /\ clock.wraps <= samples /\ clock.discontinuities <= samples
  BY <1>1, Assumed
<1>7. \A e \in Epochs : Remembers(clock.epochs[e], times[e])
  BY <1>2, <1>3, <1>5 DEF Remembers
<1> QED
  BY <1>1, <1>3, <1>4, <1>5, <1>6, <1>7 DEF TimeInv, TimeTyped, GivenLast

\* A sample, whatever state the synchroniser says the clock is in.
LEMMA SampleStep ==
  ASSUME TimeInv, NEW e \in Epochs, NEW step \in Steps, Time!Sample(e, step),
         NEW told \in {"Preroll", "CatchUp", "Ended"},
         clock' = [Time!Updated(clock, Time!Tick(e, step), e) EXCEPT !.state = told],
         sync' \in SyncRecords, sync'.maxDrift > 0 => sync'.heard
  PROVE  TimeInv'
<1> DEFINE c == Time!Updated(clock, Time!Tick(e, step), e)
<1>1. /\ c \in ClockRecords
      /\ \A f \in Epochs : f # e => c.epochs[f] = clock.epochs[f]
      /\ c.epochs[e].seen /\ c.epochs[e].ticks = times[e] + step
      /\ c.epochs[e].raw = Time!Micros(times[e] + step)
      /\ c.epochs[e].clock = c.epochs[e].base + c.epochs[e].raw
      /\ c.wraps <= clock.wraps + 1 /\ c.discontinuities <= clock.discontinuities + 1
  BY UpdatedIs
<1>2. /\ samples < MaxSamples /\ samples' = samples + 1
      /\ times' = [times EXCEPT ![e] = @ + step]
      /\ given' = [epoch |-> e, time |-> c.epochs[e].clock] /\ wrapBits' = wrapBits
  BY DEF Time!Sample
<1>3. /\ wrapBits \in {0, WrapBits} /\ samples \in 0..MaxSamples /\ times \in [Epochs -> Int]
      /\ clock.wraps <= samples /\ clock.discontinuities <= samples
      /\ clock.wraps \in Nat /\ clock.discontinuities \in Nat
      /\ step \in Int /\ MaxSamples \in Nat /\ 0 \notin Epochs
  BY Assumed DEF TimeInv, TimeTyped, ClockRecords
<1> HIDE DEF c
<1>4. /\ clock' \in ClockRecords /\ clock'.epochs = c.epochs
      /\ clock'.wraps = c.wraps /\ clock'.discontinuities = c.discontinuities
  <2>1. clock' = [c EXCEPT !.state = told]
    BY DEF c
  <2> QED
    BY <1>1, <2>1 DEF ClockRecords
<1>5. samples' \in 0..MaxSamples /\ clock'.wraps <= samples' /\ clock'.discontinuities <= samples'
  <2>1. c.wraps \in Nat /\ c.discontinuities \in Nat
    BY <1>1 DEF ClockRecords
  <2> QED
    BY <1>1, <1>2, <1>3, <1>4, <2>1
<1>6. /\ times' \in [Epochs -> Int] /\ times'[e] = times[e] + step
      /\ \A f \in Epochs : f # e => times'[f] = times[f]
  BY <1>2, <1>3
<1>7. c.epochs[e] \in EpochRecords /\ given' \in [epoch : Epochs \cup {0}, time : Int]
  <2>1. c.epochs[e] \in EpochRecords
    BY <1>1 DEF ClockRecords
  <2> QED
    BY <1>2, <2>1 DEF EpochRecords
<1>8. ASSUME NEW f \in Epochs PROVE Remembers(clock'.epochs[f], times'[f])
  <2>1. CASE f = e
    BY <1>1, <1>4, <1>6, <2>1 DEF Remembers
  <2>2. CASE f # e
    BY <1>1, <1>4, <1>6, <2>2 DEF Remembers, TimeInv
  <2> QED
    BY <2>1, <2>2
<1>9. GivenLast'
  <2>1. given'.epoch = e /\ given'.time = c.epochs[e].clock
    BY <1>2
  <2> QED
    BY <1>1, <1>4, <2>1 DEF GivenLast
<1> QED
  BY <1>2, <1>3, <1>4, <1>5, <1>6, <1>7, <1>8, <1>9 DEF TimeInv, TimeTyped

LEMMA TimeNext == TimeInv /\ [Time!Next]_(Time!vars) => TimeInv'
<1> SUFFICES ASSUME TimeInv, [Time!Next]_(Time!vars) PROVE TimeInv'
  OBVIOUS
<1>1. /\ clock \in ClockRecords /\ sync \in SyncRecords /\ (sync.maxDrift > 0 => sync.heard)
      /\ samples \in 0..MaxSamples /\ MaxSamples \in Nat
  BY Assumed DEF TimeInv, TimeTyped
<1>2. /\ sync.audioMs \in Int /\ sync.heard \in BOOLEAN /\ sync.audioClock \in Int
      /\ sync.decision \in {"none", "Render", "Drop", "Hold"} /\ sync.maxDrift \in Nat
      /\ clock.state \in {"Preroll", "CatchUp", "Ended"}
  BY <1>1 DEF SyncRecords, ClockRecords
<1>3. ASSUME NEW e \in Epochs, NEW step \in Steps
      PROVE  LET c == Time!Updated(clock, Time!Tick(e, step), e)
             IN c = [c EXCEPT !.state = clock.state] /\ c.epochs[e].clock \in Int
  <2> DEFINE c == Time!Updated(clock, Time!Tick(e, step), e)
  <2>1. c \in ClockRecords /\ c.state = clock.state
    BY UpdatedIs
  <2> HIDE DEF c
  <2>2. c = [c EXCEPT !.state = clock.state] /\ c.epochs[e] \in EpochRecords
    BY <2>1 DEF ClockRecords
  <2> QED
    BY <2>2 DEF c, EpochRecords
<1>4. ASSUME NEW e \in Epochs, NEW step \in Steps, Time!Update(e, step) PROVE TimeInv'
  BY <1>1, <1>2, <1>3, <1>4, SampleStep DEF Time!Update
<1>5. ASSUME NEW e \in Epochs, NEW step \in Steps, wrapBits = 0
      PROVE Time!Tick(e, step) \in Int
  BY <1>5, Assumed DEF Time!Tick, TimeInv, TimeTyped
<1>6. ASSUME NEW e \in Epochs, NEW step \in Steps, Time!FeedAudio(e, step) PROVE TimeInv'
  <2> DEFINE c == Time!Updated(clock, Time!Tick(e, step), e)
             m == Time!Millis(Time!Tick(e, step))
  <2>1. /\ wrapBits = 0 /\ Time!Sample(e, step) /\ clock' = c
        /\ sync' = [sync EXCEPT !.audioMs = m, !.heard = TRUE, !.audioClock = clock'.epochs[e].clock]
    BY <1>6 DEF Time!FeedAudio
  <2>2. m \in Int /\ clock'.epochs[e].clock \in Int
    BY <1>3, <1>5, <2>1, MillisTyped
  <2> HIDE DEF m
  <2>3. sync' \in SyncRecords /\ sync'.heard
    BY <1>1, <2>1, <2>2 DEF SyncRecords
  <2> QED
    BY <1>2, <1>3, <2>1, <2>3, SampleStep
<1>7. ASSUME NEW e \in Epochs, NEW step \in Steps, NEW key \in BOOLEAN, Time!FeedVideo(e, step, key)
      PROVE  TimeInv'
  <2> DEFINE drift == IF sync.heard THEN Time!Millis(Time!Tick(e, step)) - sync.audioMs ELSE 0
             most == IF Time!Abs(drift) > sync.maxDrift THEN Time!Abs(drift) ELSE sync.maxDrift
             ahead == drift > MaxDrift
             behind == drift < -Late
             told == IF sync.heard /\ (ahead \/ behind) THEN "CatchUp" ELSE clock.state
             decision == IF sync.heard /\ ahead THEN IF key THEN "Hold" ELSE "Drop"
                         ELSE IF sync.heard /\ behind /\ ~key THEN "Drop" ELSE "Render"
  <2>0. /\ wrapBits = 0 /\ Time!Sample(e, step)
        /\ clock' = [Time!Updated(clock, Time!Tick(e, step), e) EXCEPT
                       !.state = IF sync.heard /\ (ahead \/ behind) THEN "CatchUp" ELSE @]
        /\ sync' = [sync EXCEPT !.maxDrift = most, !.decision = decision]
    BY <1>7 DEF Time!FeedVideo
  <2>1. Time!Updated(clock, Time!Tick(e, step), e).state = clock.state
    BY UpdatedIs
  <2>2. clock' = [Time!Updated(clock, Time!Tick(e, step), e) EXCEPT !.state = told]
    BY <2>0, <2>1
  <2>3. drift \in Int /\ (drift # 0 => sync.heard)
    BY <1>2, <1>5, <2>0, MillisTyped
  <2> HIDE DEF drift
  <2>4. most \in Nat /\ (most > 0 => sync.heard)
    BY <1>1, <1>2, <2>3 DEF Time!Abs
  <2>5. decision \in {"none", "Render", "Drop", "Hold"} /\ told \in {"Preroll", "CatchUp", "Ended"}
    BY <1>2
  <2> HIDE DEF most, decision, told
  <2>6. sync' \in SyncRecords /\ sync'.maxDrift = most /\ sync'.heard = sync.heard
    BY <1>1, <2>0, <2>4, <2>5 DEF SyncRecords
  <2> QED
    BY <2>0, <2>2, <2>4, <2>5, <2>6, SampleStep
<1>8. CASE Time!MissingTimestamp
  <2>1. samples' \in 0..MaxSamples /\ samples' = samples + 1
    BY <1>1, <1>8 DEF Time!MissingTimestamp
  <2>2. clock.wraps \in Nat /\ clock.discontinuities \in Nat
    BY <1>1 DEF ClockRecords
  <2>3. clock.wraps <= samples' /\ clock.discontinuities <= samples'
    BY <1>1, <2>1, <2>2 DEF TimeInv, TimeTyped
  <2> QED
    BY <1>8, <2>1, <2>3 DEF Time!MissingTimestamp, TimeInv, TimeTyped, GivenLast
<1>9. CASE Time!SetEnded
  <2>1. /\ clock' \in ClockRecords /\ clock'.epochs = clock.epochs
        /\ clock'.wraps = clock.wraps /\ clock'.discontinuities = clock.discontinuities
    BY <1>1, <1>9 DEF Time!SetEnded, ClockRecords
  <2> QED
    BY <1>9, <2>1 DEF Time!SetEnded, TimeInv, TimeTyped, GivenLast
<1>10. CASE UNCHANGED Time!vars
  BY <1>10 DEF Time!vars, TimeInv, TimeTyped, GivenLast
<1> QED
  BY <1>4, <1>6, <1>7, <1>8, <1>9, <1>10 DEF Time!Next

-----------------------------------------------------------------------------
(* What follows *)

LEMMA TimeHolds == TimeInv => Time!TypeOK /\ Time!UnwrapFollows
<1> SUFFICES ASSUME TimeInv PROVE Time!TypeOK /\ Time!UnwrapFollows
  OBVIOUS
<1>1. clock \in ClockRecords /\ sync \in SyncRecords
  BY DEF TimeInv, TimeTyped
<1>2. /\ clock.overall \in Nat /\ clock.state \in {"Preroll", "CatchUp", "Ended"}
      /\ clock.wraps \in Nat /\ clock.discontinuities \in Nat
      /\ sync.decision \in {"none", "Render", "Drop", "Hold"} /\ sync.maxDrift \in Nat
  BY <1>1 DEF ClockRecords, SyncRecords
<1>3. clock.wraps \in 0..samples /\ clock.discontinuities \in 0..samples
  BY <1>2, Assumed DEF TimeInv, TimeTyped
<1>4. Time!TypeOK
  BY <1>2, <1>3 DEF Time!TypeOK, TimeInv, TimeTyped
<1>5. Time!UnwrapFollows
  BY DEF Time!UnwrapFollows, TimeInv, Remembers
<1> QED
  BY <1>4, <1>5

\* A sample moves the source of its epoch by a step, and gives the time of the update.
LEMMA Sampled ==
  ASSUME Time!Next, times' # times \/ given' # given
  PROVE  \E e \in Epochs, step \in Steps :
           /\ times' = [times EXCEPT ![e] = @ + step]
           /\ given'.epoch = e
           /\ given'.time = Time!Updated(clock, Time!Tick(e, step), e).epochs[e].clock
<1>1. ~Time!MissingTimestamp /\ ~Time!SetEnded
  BY DEF Time!MissingTimestamp, Time!SetEnded
<1>2. PICK e \in Epochs, step \in Steps :
        Time!Update(e, step) \/ Time!FeedAudio(e, step) \/ \E key \in BOOLEAN : Time!FeedVideo(e, step, key)
  BY <1>1 DEF Time!Next
<1>3. Time!Sample(e, step)
  BY <1>2 DEF Time!Update, Time!FeedAudio, Time!FeedVideo
<1> DEFINE reading == Time!Updated(clock, Time!Tick(e, step), e).epochs[e].clock
<1>4. times' = [times EXCEPT ![e] = @ + step] /\ given' = [epoch |-> e, time |-> reading]
  BY <1>3 DEF Time!Sample
<1> HIDE DEF reading
<1>5. given'.epoch = e /\ given'.time = reading
  BY <1>4
<1> QED
  BY <1>4, <1>5 DEF reading

LEMMA MonotonicStep ==
  TimeInv /\ [Time!Next]_(Time!vars) =>
    [given'.time >= clock.overall \/ given' = given]_(Time!vars)
<1> SUFFICES ASSUME TimeInv, Time!Next, given' # given
             PROVE  given'.time >= clock.overall
  BY DEF Time!vars
<1> QED
  BY Sampled, UpdatedIs

LEMMA SpeedStep ==
  TimeInv /\ [Time!Next]_(Time!vars) =>
    [\A e \in Epochs :
       /\ given.epoch = e /\ given'.epoch = e /\ samples' # samples
       /\ times'[e] > times[e]
       /\ clock.epochs[e].clock = clock.overall
       => given'.time - given.time = Time!Micros(times'[e]) - Time!Micros(times[e])]_(Time!vars)
<1> SUFFICES ASSUME TimeInv, Time!Next, NEW e \in Epochs, given.epoch = e, given'.epoch = e,
                    times'[e] > times[e], clock.epochs[e].clock = clock.overall
             PROVE  given'.time - given.time = Time!Micros(times'[e]) - Time!Micros(times[e])
  BY DEF Time!vars
<1> DEFINE x == clock.epochs[e]
<1>1. times \in [Epochs -> Int] /\ 0 \notin Epochs /\ Steps \subseteq Int
  BY Assumed DEF TimeInv, TimeTyped
<1>2. times' # times
  BY <1>1
<1>3. PICK step \in Steps :
        /\ times' = [times EXCEPT ![e] = @ + step]
        /\ given'.time = Time!Updated(clock, Time!Tick(e, step), e).epochs[e].clock
  BY <1>2, Sampled
<1>4. times'[e] = times[e] + step /\ step > 0
  BY <1>1, <1>3
<1>5. x.seen /\ given.time = x.clock /\ x.raw = Time!Micros(times[e])
  BY <1>1 DEF TimeInv, GivenLast, Remembers
<1>6. given'.time - x.clock = Time!Micros(times[e] + step) - x.raw
  BY <1>3, <1>4, <1>5, UpdatedIs
<1> QED
  BY <1>4, <1>5, <1>6

\* Whatever epochs alternate, counters wrap, and streams jump or begin again: unwrapped
\* ticks follow the source, no call returns a time before one returned earlier, and in
\* front the clock goes at the source's speed (clock.rs, sync.rs, time.rs:126).
THEOREM TimelineCorrect == Time!Spec => TimelineFollows
<1>1. Time!Init => TimeInv
  BY TimeInit
<1>2. TimeInv /\ [Time!Next]_(Time!vars) => TimeInv'
  BY TimeNext
<1>3. TimeInv => Time!TypeOK /\ Time!UnwrapFollows
  BY TimeHolds
<1>4. TimeInv /\ [Time!Next]_(Time!vars) =>
        [given'.time >= clock.overall \/ given' = given]_(Time!vars)
  BY MonotonicStep
<1>5. TimeInv /\ [Time!Next]_(Time!vars) =>
        [\A e \in Epochs :
           /\ given.epoch = e /\ given'.epoch = e /\ samples' # samples
           /\ times'[e] > times[e]
           /\ clock.epochs[e].clock = clock.overall
           => given'.time - given.time = Time!Micros(times'[e]) - Time!Micros(times[e])]_(Time!vars)
  BY SpeedStep
<1> QED
  BY <1>1, <1>2, <1>3, <1>4, <1>5, PTL
  DEF Time!Spec, TimelineFollows, Time!TimelineFollows, Time!ClockFollows, Time!Monotonic, Time!SpeedKept
=============================================================================
