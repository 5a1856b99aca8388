------------------------------- MODULE Broadcast -------------------------------
(***************************************************************************)
(* The broadcast engine and the pipeline it owns (crates/cheetah-media-    *)
(* engine, broadcast/engine.rs and broadcast/pipeline.rs).  Commands and   *)
(* ticks run to completion.  Capture source, processors, encoder and       *)
(* publisher are trait objects of the host: each of their calls may fail,  *)
(* a failed one leaves the device as it likes, and stop and disconnect     *)
(* end the capture and the connection (external contract).                 *)
(*                                                                         *)
(* Left out: the media clock and the allocation metric (diagnostics only). *)
(***************************************************************************)
EXTENDS Integers, Sequences, FiniteSets

CONSTANTS Bitrates,     \* target bitrates a host or a publisher may ask for
          MaxSequence   \* bound on the packet sequence, for model checking

States == {"Idle", "Ready", "Connecting", "Starting", "Broadcasting",
           "Stopping", "Stopped", "Failed", "Destroyed"}
Permissions == {"Unknown", "Prompt", "Granted", "Denied", "Restricted"}

VARIABLES
  state,       \* BroadcastEngine::state
  setup,       \* fixed at construction: what capture needs and the limits allow
  permission,  \* the platform's answer for the source's kind
  connected, started, sequence,   \* BroadcastPipeline
  network,     \* ResourceLedger count of Network handles
  capturing,   \* external: the capture device is running
  online,      \* external: the publisher holds a connection
  bitrate,     \* external: the encoder's target, 0 until one is set
  out          \* events of the last command

pipeline == <<connected, started, sequence, network, capturing, online, bitrate>>
vars == <<state, setup, permission, pipeline, out>>

Setups == [needsPermission : BOOLEAN, fits : BOOLEAN, maxNetwork : 0..1, maxTotal : 0..1]

\* ResourceLimits::check(): Network handles are all that a pipeline's ledger counts.
WithinLimits == network <= setup.maxTotal /\ network <= setup.maxNetwork

Changed(from, to) == <<"StateChanged", from, to>>
Transition(to) == IF state = to THEN <<>> ELSE <<Changed(state, to)>>

TypeOK ==
  /\ state \in States
  /\ setup \in Setups
  /\ permission \in Permissions
  /\ connected \in BOOLEAN /\ started \in BOOLEAN
  /\ capturing \in BOOLEAN /\ online \in BOOLEAN
  /\ sequence \in Nat /\ network \in Nat
  /\ bitrate \in Bitrates \cup {0}

\* BroadcastEngine::new, or with_pipeline.
Init ==
  /\ state \in {"Idle", "Ready"}
  /\ setup \in Setups
  /\ permission \in {"Unknown", "Prompt"}
  /\ connected = FALSE /\ started = FALSE /\ sequence = 0
  /\ network = 0
  /\ capturing = FALSE /\ online = FALSE
  /\ bitrate = 0
  /\ out = <<>>

-----------------------------------------------------------------------------
(* BroadcastPipeline *)

\* Mutants: the handle is released by nobody, or without looking.
StopPipelineLeaks ==
  /\ capturing' = FALSE /\ online' = FALSE
  /\ started' = FALSE /\ connected' = FALSE
  /\ UNCHANGED network
StopPipelineReleases ==
  /\ capturing' = FALSE /\ online' = FALSE
  /\ network' = network - 1
  /\ started' = FALSE /\ connected' = FALSE

\* BroadcastPipeline::stop.
StopPipeline ==
  /\ capturing' = FALSE /\ online' = FALSE
  /\ network' = IF connected /\ network > 0 THEN network - 1 ELSE network
  /\ started' = FALSE /\ connected' = FALSE

\* Mutant: every connect registers another handle.
ConnectPipelineAgain ==
  /\ online' = TRUE
  /\ network' = network + 1
  /\ connected' = TRUE
  /\ UNCHANGED <<capturing, started>>

\* BroadcastPipeline::connect, when the publisher accepts the url.
ConnectPipeline ==
  /\ online' = TRUE
  /\ network' = IF connected THEN network ELSE network + 1
  /\ connected' = TRUE
  /\ UNCHANGED <<capturing, started>>

\* Mutant: a failure changes the state and leaves the pipeline as it is.
FailRunning ==
  /\ state' = "Failed"
  /\ UNCHANGED <<connected, started, network, capturing, online>>

\* Every failure stops the pipeline before it changes the state.
Fail ==
  /\ StopPipeline
  /\ state' = "Failed"

-----------------------------------------------------------------------------
(* BroadcastEngine *)

Failure == Transition("Failed") \o <<<<"Error">>>>

ConnectEvents == Transition("Connecting") \o <<Changed("Connecting", "Ready")>>

Connect ==
  /\ state \in {"Ready", "Stopped"}
  /\ \/ /\ ConnectPipeline
        /\ state' = "Ready"
        /\ out' = ConnectEvents
     \/ /\ Fail
        /\ out' = Failure
  /\ UNCHANGED <<setup, permission, sequence, bitrate>>

\* The permission a start asks for; a granted one is not asked for again.
Asked == setup.needsPermission /\ permission # "Granted"

StartDenied ==
  /\ state = "Ready"
  /\ Asked
  /\ permission' \in {permission, "Denied", "Restricted", "Prompt"}
  /\ out' = <<>>       \* the error carries no events
  /\ UNCHANGED <<state, setup, pipeline>>

\* Limits, then BroadcastPipeline::start: connected, source, encoder, in that
\* order.  The source may be running already when the encoder refuses.
StartFailure ==
  /\ Fail
  /\ out' = (IF Asked THEN <<<<"PermissionChanged", "Granted">>>> ELSE <<>>) \o Failure

StartPipeline ==
  /\ setup.fits /\ WithinLimits
  /\ connected
  /\ capturing' = TRUE /\ started' = TRUE
  /\ state' = "Broadcasting"
  /\ out' = (IF Asked THEN <<<<"PermissionChanged", "Granted">>>> ELSE <<>>)
              \o <<Changed("Ready", "Starting"), Changed("Starting", "Broadcasting")>>
  /\ UNCHANGED <<connected, network, online>>

Start ==
  /\ state = "Ready"
  /\ permission' = IF Asked THEN "Granted" ELSE permission
  /\ StartPipeline \/ StartFailure
  /\ UNCHANGED <<setup, sequence, bitrate>>

Stop ==
  /\ state \in {"Broadcasting", "Starting", "Ready", "Failed"}
  /\ StopPipeline
  /\ state' = "Stopped"
  /\ out' = Transition("Stopped")
  /\ UNCHANGED <<setup, permission, sequence, bitrate>>

Destroy ==
  /\ state # "Destroyed"
  /\ StopPipeline
  /\ state' = "Destroyed"
  /\ out' = Transition("Destroyed")
  /\ UNCHANGED <<setup, permission, sequence, bitrate>>

\* set_bitrate and apply_feedback; a refusal is returned and changes nothing.
ApplyFeedback(bps) ==
  /\ state = "Broadcasting"
  /\ bitrate' = bps
  /\ out' = <<<<"BitrateChanged", bps>>>>
  /\ UNCHANGED <<state, setup, permission, connected, started, sequence,
                 network, capturing, online>>

RequestPermission ==
  /\ state # "Destroyed"
  /\ permission' \in {permission} \cup (Permissions \ {"Unknown"})
  /\ out' = IF permission' = permission THEN <<>> ELSE <<<<"PermissionChanged", permission'>>>>
  /\ UNCHANGED <<state, setup, pipeline>>

\* A command that is not valid now, or that the encoder refuses: an error, no event.
Invalid ==
  /\ out' = <<>>
  /\ UNCHANGED <<state, setup, permission, pipeline>>

\* Only the encoder hears of it.
RequestKeyframe == state = "Broadcasting" /\ Invalid

-----------------------------------------------------------------------------
(* BroadcastEngine::tick: one frame through the whole pipeline *)

\* No frame yet, or nothing started.
TickIdle == state = "Broadcasting" /\ Invalid

\* Poll, process, encode or publish failed: nothing was published.
TickFailed ==
  /\ state = "Broadcasting" /\ started
  /\ Fail /\ out' = Failure
  /\ UNCHANGED <<setup, permission, sequence, bitrate>>

\* Published, and the publisher's feedback, if any, reached the encoder.
TickPublished ==
  /\ state = "Broadcasting" /\ started
  /\ sequence < MaxSequence
  /\ sequence' = sequence + 1
  /\ \/ /\ out' = <<<<"PacketPublished", sequence>>>>
        /\ UNCHANGED bitrate
     \/ \E bps \in Bitrates :
          /\ bitrate' = bps
          /\ out' = <<<<"PacketPublished", sequence>>, <<"BitrateChanged", bps>>>>
  /\ UNCHANGED <<state, setup, permission, connected, started, network, capturing, online>>

\* Published, but the encoder refused the bitrate the publisher asked for: the
\* sequence number of the packet is not advanced and the packet not announced.
TickFeedbackRefused ==
  /\ state = "Broadcasting" /\ started
  /\ Fail /\ out' = Failure
  /\ UNCHANGED <<setup, permission, sequence, bitrate>>

Tick == TickIdle \/ TickFailed \/ TickPublished \/ TickFeedbackRefused

Next ==
  \/ Connect \/ StartDenied \/ Start \/ Stop \/ Destroy
  \/ \E bps \in Bitrates : ApplyFeedback(bps)
  \/ RequestPermission \/ RequestKeyframe \/ Invalid \/ Tick

Spec == Init /\ [][Next]_vars

-----------------------------------------------------------------------------
(* Properties *)

\* The ledger, the pipeline's flags and the devices agree: one Network handle
\* while the publisher is connected (repeated connects, failures and stops in any
\* state included), and the capture runs exactly while the pipeline is started.
HandlesTrackDevices ==
  /\ network = IF connected THEN 1 ELSE 0
  /\ online = connected
  /\ capturing = started

\* The pipeline runs exactly while the engine broadcasts, over a connection and
\* within the limits that were checked before it started.
RunsWhileBroadcasting ==
  /\ started <=> state = "Broadcasting"
  /\ started => connected /\ setup.fits /\ WithinLimits

\* Nothing is held once the engine has stopped, failed or been destroyed, by
\* whatever error path it got there.
ReleasedAtEnd ==
  state \in {"Idle", "Stopped", "Failed", "Destroyed"} => ~capturing /\ ~online /\ network = 0

\* The engine, its pipeline, the ledger and the devices agree.
DevicesAgree == HandlesTrackDevices /\ RunsWhileBroadcasting /\ ReleasedAtEnd
=============================================================================
