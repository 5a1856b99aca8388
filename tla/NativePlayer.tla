------------------------------ MODULE NativePlayer ------------------------------
(***************************************************************************)
(* The native player (native/player.rs, negotiator.rs, lifecycle.rs) with  *)
(* its byte source: MemoryByteSource (native/source.rs), or                *)
(* NativeByteSource (cheetah-media-native-transport), whose network task   *)
(* runs on threads of its own and sends through a bounded channel.         *)
(*                                                                         *)
(* Of the engine (PlayerEngine) it keeps the state that commands and       *)
(* network events lead to; whether a fatal error still has a retry budget  *)
(* is a choice.  Chunks are numbered within their session.                 *)
(***************************************************************************)
EXTENDS Integers, Sequences

CONSTANTS ChannelSize,                  \* 16 in the code
          MemoryChunks,                 \* chunks of a memory source
          MaxSessions, MaxChunks,       \* bounds, for model checking
          MaxCalls                      \* bound on load(), play(), pause() and stop()

\* What the proofs need of the channel and the bounds; build() may start a session.
NativeAssumption ==
  ChannelSize \in Nat \ {0} /\ MemoryChunks \in Nat /\ MaxSessions \in Nat \ {0}

VARIABLES
  player,   \* "none" until build(); the engine's state, the kind of its source
  source,   \* the byte source
  task,     \* the network task: phase, session, chunks sent, end to report
  chan,     \* its channel: chunks as <<session, number>>, ends as <<end>>
  heard,    \* ghost: session and number of the chunk decoded last
  soak,     \* ghost: where LifecycleSoak::validate() is in the log, or "rejected"
  unlogged, \* ghost: tick() or a load() over a session changed the engine's state
  calls

vars == <<player, source, task, chan, heard, soak, unlogged, calls>>

States == {"none", "Idle", "Loading", "Preroll", "Playing", "Paused", "Rebuffering", "Failed", "Destroyed"}
Ends == {"eof", "retryable", "fatal"}

Init ==
  /\ player = [state |-> "none", kind |-> "memory"]
  /\ source = [state |-> "Idle", session |-> 0, position |-> 0]
  /\ task = [phase |-> "none", session |-> 0, sent |-> 0, end |-> "none"]
  /\ chan = <<>> /\ heard = <<0, 0>>
  /\ soak = "Idle" /\ unlogged = FALSE /\ calls = 0

TypeOK ==
  /\ player.state \in States /\ player.kind \in {"memory", "network"}
  /\ source.state \in {"Idle", "Running", "Finished"} /\ source.session \in 0..MaxSessions
  /\ task.phase \in {"none", "connecting", "receiving", "ending", "ended"}
  /\ Len(chan) <= ChannelSize
  /\ soak \in States \cup {"rejected"}

-----------------------------------------------------------------------------
(* The life cycle log *)

\* LifecycleSoak::validate(), one event further.
Validate(s, e) ==
  CASE s = "Idle" /\ e = "Loaded" -> "Loading"
    [] s = "Loading" /\ e = "Prerolled" -> "Preroll"
    [] s \in {"Preroll", "Paused"} /\ e = "Played" -> "Playing"
    [] s \in {"Preroll", "Playing"} /\ e = "Paused" -> "Paused"
    [] s \in {"Loading", "Preroll", "Playing", "Paused"} /\ e = "Stopped" -> "Idle"
    [] s \in {"Idle", "Loading", "Preroll", "Playing", "Paused"} /\ e = "Destroyed" -> "Destroyed"
    [] OTHER -> "rejected"

\* A command is logged when it changed the state of the engine.
Log(to, e) == soak' = IF to = player.state THEN soak ELSE Validate(soak, e)

-----------------------------------------------------------------------------
(* The byte sources *)

NoTask == [phase |-> "none", session |-> 0, sent |-> 0, end |-> "none"]

\* Mutant: chunks of the task that was aborted can still be read.
CancelKeepsChannel ==
  /\ task' = NoTask
  /\ source' = [source EXCEPT !.state = IF player.kind = "memory" THEN "Finished" ELSE "Idle",
                              !.position = 0]
  /\ UNCHANGED chan

\* cancel() of either source; reset() aborts the task and drops the channel.
Cancel ==
  /\ task' = NoTask /\ chan' = <<>>
  /\ source' = [source EXCEPT !.state = IF player.kind = "memory" THEN "Finished" ELSE "Idle",
                              !.position = 0]

\* start() with an URL that works.
Start ==
  /\ source' = [state |-> IF player.kind = "memory" THEN "Idle" ELSE "Running",
                session |-> source.session + 1, position |-> 0]
  /\ chan' = <<>>
  /\ task' = IF player.kind = "memory" THEN NoTask
             ELSE [phase |-> "connecting", session |-> source.session + 1, sent |-> 0, end |-> "none"]

\* What read_or_push() returns.
Read ==
  IF player.kind = "memory"
  THEN IF source.state = "Finished" \/ source.position = MemoryChunks THEN "eof" ELSE "data"
  ELSE CASE source.state = "Idle" -> "fatal"        \* NotStarted
         [] source.state = "Finished" -> "eof"
         [] source.state = "Running" ->
              IF chan # <<>> THEN IF Len(Head(chan)) = 1 THEN Head(chan)[1] ELSE "data"
              ELSE IF task.phase # "ended" THEN "live"
              ELSE "fatal"                          \* disconnected

NextChunk == IF player.kind = "memory" THEN <<source.session, source.position + 1>> ELSE Head(chan)

\* How read_or_push() leaves the source.
AfterRead(what) ==
  /\ source' = CASE what = "data" -> [source EXCEPT !.position = @ + 1]
                 [] what = "eof" \/ (what \in Ends /\ source.state = "Running") ->
                      [source EXCEPT !.state = "Finished"]
                 [] OTHER -> source
  /\ chan' = IF what = "live" \/ chan = <<>> THEN chan ELSE IF what = "data" THEN Tail(chan) ELSE <<>>
  /\ task' = IF what \in Ends /\ source.state = "Running" THEN NoTask ELSE task

-----------------------------------------------------------------------------
(* The network task: tcp, http and ws differ in what ends it *)

TaskUnchanged == UNCHANGED <<player, source, heard, soak, unlogged, calls>>

Connected ==
  /\ task.phase = "connecting"
  /\ task' = [task EXCEPT !.phase = "receiving"]
  /\ UNCHANGED chan /\ TaskUnchanged

\* A connection that fails, a read that times out or fails, or the end of the body.
Ending ==
  /\ task.phase \in {"connecting", "receiving"}
  /\ \E e \in Ends : /\ task.phase = "connecting" => e # "eof"
                     /\ task' = [task EXCEPT !.phase = "ending", !.end = e]
  /\ UNCHANGED chan /\ TaskUnchanged

\* send() waits while the channel is full.
SendData ==
  /\ task.phase = "receiving" /\ task.sent < MaxChunks /\ Len(chan) < ChannelSize
  /\ task' = [task EXCEPT !.sent = @ + 1]
  /\ chan' = Append(chan, <<task.session, task.sent + 1>>)
  /\ TaskUnchanged

SendEnd ==
  /\ task.phase = "ending" /\ Len(chan) < ChannelSize
  /\ task' = [task EXCEPT !.phase = "ended"]
  /\ chan' = Append(chan, <<task.end>>)
  /\ TaskUnchanged

-----------------------------------------------------------------------------
(* The player *)

Call == player.state \notin {"none", "Destroyed"} /\ calls < MaxCalls /\ calls' = calls + 1

\* build(): there must be something to play, and a transport and a decoder for it;
\* with autoplay it is also loaded and started (memory: its start() cannot fail).
Build ==
  /\ player.state = "none"
  /\ \E kind \in {"memory", "network"}, autoplay \in BOOLEAN :
       /\ autoplay => kind = "memory"
       /\ player' = [state |-> IF autoplay THEN "Playing" ELSE "Idle", kind |-> kind]
       /\ IF autoplay
          THEN /\ source' = [state |-> "Idle", session |-> 1, position |-> 0]
               /\ soak' = Validate(Validate(Validate(soak, "Loaded"), "Prerolled"), "Played")
          ELSE UNCHANGED <<source, soak>>
  /\ UNCHANGED <<task, chan, heard, unlogged, calls>>

\* load(): over a session that goes on, the engine stops and loads in one command.
Load ==
  /\ Call /\ source.session < MaxSessions
  /\ Start
  /\ player' = [player EXCEPT !.state = "Preroll"]
  /\ soak' = IF player.state = "Preroll" THEN Validate(soak, "Prerolled")
             ELSE Validate(Validate(soak, "Loaded"), "Prerolled")
  /\ unlogged' = (unlogged \/ player.state # "Idle")
  /\ UNCHANGED heard

\* load() of an URL that start() refuses: the session before is cancelled by then.
LoadRefused ==
  /\ Call /\ player.kind = "network"
  /\ Cancel
  /\ UNCHANGED <<player, heard, soak, unlogged>>

Play ==
  /\ Call /\ player.state \in {"Preroll", "Paused", "Rebuffering", "Playing"}
  /\ Log("Playing", "Played")
  /\ player' = [player EXCEPT !.state = "Playing"]
  /\ UNCHANGED <<source, task, chan, heard, unlogged>>

Pause ==
  /\ Call /\ player.state \in {"Playing", "Paused"}
  /\ Log("Paused", "Paused")
  /\ player' = [player EXCEPT !.state = "Paused"]
  /\ UNCHANGED <<source, task, chan, heard, unlogged>>

Stop ==
  /\ Call
  /\ Log("Idle", "Stopped")
  /\ player' = [player EXCEPT !.state = "Idle"]
  /\ Cancel
  /\ UNCHANGED <<heard, unlogged>>

\* destroy(); dropping the source resets it.
Destroy ==
  /\ player.state \notin {"none", "Destroyed"}
  /\ Log("Destroyed", "Destroyed")
  /\ player' = [player EXCEPT !.state = "Destroyed"]
  /\ Cancel
  /\ UNCHANGED <<heard, unlogged, calls>>

\* tick(): the source is only read while playing; an error of the decoder or of the
\* output leaves everything else as it is.
Tick ==
  /\ player.state = "Playing"
  /\ IF Read = "eof" THEN Cancel ELSE AfterRead(Read)
  /\ heard' = IF Read = "data" THEN NextChunk ELSE heard
  /\ \E to \in (CASE Read = "eof" -> {"Idle"} [] Read = "retryable" -> {"Rebuffering"}
                  [] Read = "fatal" -> {"Rebuffering", "Failed"} [] OTHER -> {"Playing"}) :
       /\ player' = [player EXCEPT !.state = to]
       /\ unlogged' = (unlogged \/ to # "Playing")
  /\ UNCHANGED <<soak, calls>>

Network == Connected \/ Ending \/ SendData \/ SendEnd
User == Build \/ Load \/ LoadRefused \/ Play \/ Pause \/ Stop \/ Destroy

Next == Network \/ User \/ Tick

Spec == Init /\ [][Next]_vars

-----------------------------------------------------------------------------
(* Properties *)

\* The decoder gets the chunks of the current session, in order and without a gap,
\* whatever the network task of the session before had sent (lib.rs:142).
Contiguous ==
  [][heard' # heard =>
       /\ heard'[1] = source.session
       /\ heard'[2] = IF heard[1] = source.session THEN heard[2] + 1 ELSE 1]_vars

\* An idle player has no network task and nothing queued, however it became idle.
IdleReleases ==
  player.state \in {"Idle", "Destroyed"} =>
    task.phase = "none" /\ chan = <<>> /\ source.state # "Running"

\* The log that destroy() validates is a legal one, as long as the stream did not
\* end or fail on its own and was not loaded over (lifecycle.rs:64).
LogAccepted == ~unlogged => soak # "rejected"

\* Rebuffering, which a retryable error leads to, is ended by the user alone: tick()
\* does not read the source meanwhile, and nobody starts it again (player.rs:238).
RebufferingStays ==
  [][player.state = "Rebuffering" /\ player'.state # "Rebuffering" => calls' # calls \/ player'.state = "Destroyed"]_vars

\* An idle player holds nothing and its log is legal, and no step skips or repeats
\* a chunk, or ends rebuffering on its own.
NativePlays == [](TypeOK /\ IdleReleases /\ LogAccepted) /\ Contiguous /\ RebufferingStays
=============================================================================
