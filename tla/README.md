# Cheetah Media Engine: specifications

TLA+ models of the Cheetah media engine, the TLC runs that check them on small
instances and the TLAPS proofs that hold for every instance. The models follow
the code under `src/` (Rust crates in `src/crates`, TypeScript packages in
`src/packages`); `PROJECT.json` maps every definition to the lines it stands for.

1. [The system](#1-the-system): components, state, operations, interactions
2. [Modules at a glance](#2-modules-at-a-glance): modules, compositions, abstract specifications, what is left
3. [Modules](#3-modules): how each corresponds to the code
4. [Runs](#4-runs): what is checked, bounds, fairness
5. [Proofs](#5-proofs): what is proved, from what, along which argument
6. [Findings and observations](#6-findings-and-observations)
7. [What is not modelled](#7-what-is-not-modelled)

## 1. The system

One engine, written in Rust without I/O, is embedded in three hosts: a browser
(through WebAssembly in a worker, plus a main-thread path in TypeScript), a
native application (Qt, Android) and C programs. The parts, inner to outer:

| Part | State it keeps | Operations | Talks to |
|---|---|---|---|
| **Buffer pool** (`cheetah-media-types/buffer/pool.rs`) | two atomic totals, a free list behind a spin lock, statistics | `acquire`, `PoolToken::drop` on any thread | demuxers, decoders |
| **Player engine** (`cheetah-media-engine`: `state.rs`, `recovery.rs`, `resource.rs`) | player state, session epoch, track/config flags, the state before rebuffering, recovery log, handle ledger | `apply(Load, Play, Pause, Stop, Destroy, Network, Backend)`, `tick` | hosts send commands and late backend callbacks; events go back |
| **Scheduler** (`scheduler.rs`) | a queue per stage with priorities, drop counts, watermark flags | `push`, `pop`, `poll_watermarks` | events to the caller |
| **Broadcast engine** (`broadcast/engine.rs`, `broadcast/pipeline.rs`) | engine state, permission, pipeline flags, ledger | configure, permission, connect, start, stop, fail, tick, destroy | capture source, processors, encoder, publisher (trait objects that may fail) |
| **HLS client** (`cheetah-hls-client`) | playlists, epoch, in-flight requests, next segment/part, retry counts | `start`, `handle_event` | the host performs its requests |
| **Native player** (`native/`) | engine, byte source, decoder, sinks, life cycle log | load, play, pause, stop, tick, destroy | player engine, native transport |
| **Demuxers, ISO BMFF, bitstream** (`cheetah-container-*`, `cheetah-media-bitstream`) | bytes not yet parsed, tracks, timestamps | push bytes, poll events, flush, reset | pool, hosts |
| **Timeline** (`cheetah-media-timeline`) | media clock, GOP cache, audio/video offset | anchor, pause, rate, push, drop | player engine, hosts |
| **Memory arena and bindings** (`cheetah-media-abi`, `-web-bindings`, `-c-bindings`) | slots with generations | request, write, commit, read, release | JavaScript and C by handle |
| **Worker runtime** (`packages/runtime`: `runtime.ts`, `worker.ts`) | instance, epoch, sequence, pending commands / wasm engine | load, play, seek, stop, destroy as envelopes | worker by messages, both ways |
| **Stream transports** (`transport.ts`, `webtransport.ts`, `webrtc.ts`) | connection, timers, retries, bytes read, stop flags | `start`, `stop`; callbacks chunk, error, end | network; playback session |
| **MSE backend** (`mse.ts`) | append queue, clean-up flag, seeks, live-control timer | configure, push, seek, pause display, stop | the browser's SourceBuffer and video element, by events |
| **Playback session** (`playback-session.ts`) | where `start()` is, stop flag, wanted playback, listeners | start, play, pause, stop; transport and video callbacks | transport, demuxer, MSE backend; events to the player |
| **WebCodecs backend, fallback controller, planner** | decoder generation and queue; tried candidates and current backend | configure, push, stop; `configureNext`, `reportFailure` | each other, through awaited calls |
| **Audio ring** (`audio/ring.ts`, `audio/worklet.ts`) | samples and three indices in shared memory | write, reset / `process()` | main thread and audio thread, without locks |
| **Web player** (`packages/web/src/player.ts`) | player state, current session, runtime, timers | load, play, pause, stop, destroy; session and worker events | session, runtime, application |
| **Components** (`packages/components`) | DOM elements | attributes, events | web player |

Behaviours that are hard, and where they are met:

- **True concurrency** without locks: the pool's atomics, the audio ring.
- **Interleaving at every `await`**: web player, playback session, transports,
  MSE backend. A callback of something that was replaced or stopped arrives later.
- **Late and reordered messages**: engine callbacks carry the epoch of a session
  or none; worker replies carry instance, epoch and sequence.
- **Partial failure**: devices of a broadcast fail at any call; the pool's second
  reservation fails after its first; MSE appends fail and are retried.
- **Timeouts and retries**: transports, recovery policy, MSE quota handling, HLS.
- **Limits**: pool, scheduler, append queue, ring, `maxBytes`, retry budgets.

What makes each part correct is stated in the properties of section 4. Each
hazard in `PROJECT.json` names the line where it bites and the properties that
would catch it, or says why there is none yet.

## 2. Modules at a glance

One module per component; a composition extends its parts so that a callback of
one is a step of the other. `MC*` modules give small instances and run the parts
of one area side by side: a behaviour is of one part, and the others stay as they
were created.

| Area (run) | Modules | Composition / abstract specification | Status |
|---|---|---|---|
| services (`services`) | `BufferPool`, `Scheduler`, `Broadcast`, `HlsClient` | the pool and the scheduler implement `BoundedPool` (no counters) and `PriorityLanes` (no VecDeque); engine and the pipeline it owns; client, host and server | checked; all safety properties proved but the types of the last two |
| playback (`playback`) | `PlayerEngine`, `NativePlayer`, `Timeline`, `WorkerRuntime`, `WebCodecsBackend` | engine, recovery and ledger are one module, as `Engine` owns them; the player with its network task; the runtime with its worker | checked; proved: all safety properties |
| backends (`backends`) | `AudioRing`, `MseBackend`, `FallbackController`, `Planner` | writer and worklet; backend and SourceBuffer; controller over abstract backends | checked; proved: all safety properties |
| web (`web`) | `PlaybackSession`, `WebPlayer` | the player composes its sessions | checked; proved: all safety properties |
| ingest (`ingest`) | `Transports`, `TsSync`, `DemuxArena`, `GopCache` | each transport implements `StreamInput`, which the session relies on | checked; proved but the search for TS packets |
| containers (`containers`) | `TsDemuxer`, `TsFrames`, `FlvDemuxer`, `AnnexbUnits`, `AnnexbDemuxer`, `MpegPsDemuxer`, `HlsPlaylist`, `FlvRecorder`, `FragmentedMp4`, `Mp4Recorder` | the muxer composed with the demuxer that reads what it wrote; the reference of every demuxer is what its source sent | checked |

What is left, in the order of its worth: the downloader, the recorders and the intercom of the
TypeScript packages, and the codec pack with its frame queue. No theorem is stated about the
containers (section 5 says why). Modules are written for proofs: limits are CONSTANTS, there
is one action per operation, invariants are conjunctions of named parts, and no module
declares a RECURSIVE operator.

## 3. Modules

Conventions: an action is a handler from its entry to its return or next
`await`, with every call it makes; a ghost variable is marked as such where it is
declared; definitions whose comment says *Mutant* are deliberate faults that the
properties must detect and no specification uses. An optional value is a sequence
of at most one element.

### Services

**`BufferPool`** (`pool.rs`). Any thread may call `acquire` and drop the buffer,
so each atomic access is an action and the section under the spin lock is one.
`pc[c]` says where buffer lifetime `c` is: reserve the count, check, reserve the
bytes, check (and undo either), take a chunk from the free list or allocate,
publish the statistics, hold, and the four steps of `PoolToken::drop`. Counters
are modulo `UsizeMod`. `BoundedPool` is what callers rely on: loans within a
count and a byte limit.

**`Scheduler`** (`scheduler.rs`). `items` are the VecDeques in arrival order,
`LeastUrgent` and `MostUrgent` are the `min_by_key` searches. `PriorityLanes` has
no such order: one FIFO lane per priority, a shared capacity, and displacement of
the stalest item of the least urgent lane.

**`Broadcast`** (`broadcast/engine.rs`, `pipeline.rs`, `capture.rs`). Commands and
ticks of the engine with the pipeline calls they make. The devices are external:
every call may succeed or fail, and a failing one leaves the device as it likes. The
ledger is the count of Network handles.

**`HlsClient`** (`client.rs`). `client` has the fields of the struct; an event is an
action with all it calls. A playlist is abstracted to the numbers of its first and
last segment, and the segments and parts are pieces numbered in the order in which
`schedule_downloads()` walks them, so that `next_segment_index` and
`next_part_index` are one number. `net` holds the requests the host has not
answered: it answers in any order, and also those that were cancelled. `begin`,
`got` and `late` are ghosts: where playback began, what arrived since, and whether
parts came out of order.

### Playback

**`PlayerEngine`** (`state.rs`, `recovery.rs`, `resource.rs`). One action per
command of `Engine::apply` and per kind of network and backend event. A backend
callback comes with any epoch up to the current one, which is how late callbacks
enter. `Retry` follows the escalation chain of `decide_action` over budgets and
windows; `log` is a ghost that never forgets, against which the pruned `history`
is compared. `ledger` counts the handles the host registered. `out` holds the
events of the last command.

**`NativePlayer`** (`native/player.rs`, `source.rs`, `lifecycle.rs`,
`cheetah-media-native-transport`). The commands and `tick()` over a source in
memory or over the network task, which runs on threads of its own and sends
through a bounded channel: `task` and `chan` move between any two calls. Of the
engine only the state is kept; whether an error still has a budget is a choice.
`soak` follows the life cycle log that `destroy()` validates.

**`Timeline`** (`clock.rs`, `sync.rs`, `time.rs`). Unwrapping of counters with
`wrapBits` bits, the clock over epochs that alternate, rates and anchors, and the
audio/video decision. `times` is the true time of each source, `given` what the last
call returned.

**`WorkerRuntime`** (`runtime.ts`, `worker.ts`, `messages.ts`). Two FIFO channels of
envelopes with instance, epoch and sequence; every promise of the caller is a
pending entry with a time-out. The worker awaits its wasm module in the middle of a
load (`waiting`).

**`WebCodecsBackend`** (`webcodecs.ts`). Decoders are numbered as they are created,
so that an output of one that was reset or replaced is told from the current one's.
`configure()` is split at its awaits; a chunk that is buffered for frame steps, the
pending counts and the waiting step are the fields of the code.

### Backends

**`AudioRing`** (`ring.ts`, `worklet.ts`). Every `Atomics` access and every frame
copied is a step of the main thread (`main`) or of the audio thread (`worklet`),
whose locals are the fields of those records. A frame is its number. `heard` is
the ghost sequence of frames played. A reset is three stores, as in the code.

**`MseBackend`** (`mse.ts`). `mse` has the backend's fields, `sb` the browser's
SourceBuffer: an operation in progress, the events queued when it ends, and
`updating`, which is cleared before those events are delivered. The window between
the two (`Gap`) is where handlers meet a buffer that is neither busy nor done.

**`FallbackController`** (`fallback.ts`). A call is a record of where it awaits the
`configure()` or `stop()` of an external backend; three calls overlap in any way.
`tried` and `triedCandidates` are the code's sets, which epochs and plans clear in
the middle of a call.

**`Planner`** (`planner.rs` of `cheetah-media-pipeline-core`). `plan()` in one step,
over every request of two tracks and every snapshot of what was probed.

### Web

**`PlaybackSession`, `WebPlayer`** (`playback-session.ts`, `player.ts`). A session
record says where `start()` is (`at`), what the MSE backend holds (`mse`), what
the input does (`flow`) and the flags of the code. A stream can be aborted at any time, an
HLS request only until its headers are here: from then on (`body`) the loop waits for the
body, after `stop()` too (`draining`). `emitted` holds what a step
hands to `onEvent`; `WebPlayer` applies it to its state in the same step
(`Heard`), as the callback does. `load[i]`, `stops` and `destroy` say which
`await` each call of the player has reached. `overlap` is a ghost: a call was made
while another had not settled; several guarantees hold only without overlap, and
the runs separate the two cases.

### Ingest

**`Transports`**
(`transport.ts`, `transport-common.ts`, `webtransport.ts`, `webrtc.ts`). The four
classes share one record `t`: what the caller knows (`phase`), the connection, the
timer, retries, chunks against `maxBytes`, readers at work and where `run()` is. A
chunk callback may call `stop()` inside the step. `Transports` picks one as
`createTransport` does. A read of a response body that is fulfilled is a step of its own
(`ready`): its loop goes on in a later microtask, and does not look whether `stop()` came
between. `StreamInput` is the contract a playback session relies on: chunks, at most one
error, exactly one end, and once stopped no chunk but the one that was `ready`. What no
timeout bounds and no `stop()` settles, WebRTC's offer and descriptions and the `close()` of
a WebTransport session, may wait for ever (`Hanging`).

**`TsSync`** (`demuxer.rs` of `cheetah-container-mpegts`). How packets are found in
bytes: buffer, read position, search and its limit, shrinking. A byte is its place in
the input, of which packets, stumps of packets and noise are made.

**`DemuxArena`** (`arena.rs`, `demux/demux_arena.rs`, `demux/mod.rs`). Slots, the free
stack and generations as in the code, with a small largest generation; the demuxer
that stores its events and releases those before; the application that releases its
handles early, late or twice.

**`GopCache`** (`gop.rs`). Groups as sequences of packets, limits on bytes, frames and
duration, with `push`, `finalize`, `random_access`, `discard` and generations. A total over
the groups is counted unit by unit, as the cardinality of a set, which can be reasoned about
where a fold cannot.

### Containers

The wire is a sequence of *cells*, the largest pieces the code never looks at the
middle of; connections cut it anywhere. Each module has its own source (an encoder,
a multiplexer, a server: external), and its properties compare what comes out with
what the source sent.

**`TsDemuxer`, `TsFrames`** (`demuxer.rs`, `section.rs`, `pes.rs`, `packet.rs`;
`h264.rs`, `h265.rs`, `aac.rs`, `mp3.rs`; `time.rs`). `TsDemuxer` has sections and PES
packets over a network that loses, repeats and damages packets; `TsFrames` has what
becomes of a whole PES packet: access units, frames, parameter sets, configurations
and unwrapped times.

**`FlvDemuxer`, `FlvRecorder`** (`cheetah-container-flv`, its muxer and recorder). The
demuxer in its three modes, with the guess whether PreviousTagSize fields are there, tags
that give no event, short and long, the 32-bit counter and restarts; the recorder with its heap, the muxer's header and a failing writer.

**`AnnexbUnits`, `AnnexbDemuxer`** (`cheetah-container-annexb`). Start codes and
emulation prevention byte by byte, parameter sets and access units.

**`MpegPsDemuxer`** (`cheetah-container-mpegps`). Packs, headers, bounded and
unbounded PES packets, video units across packets with the time of their first byte,
audio frames. Shares `AnnexbUnits`.

**`HlsPlaylist`** (`parser.rs`, `variant.rs`). `parse()` as a fold over lines, the
resolution of URLs token by token, the choice of a variant; the server publishes a
window, whole or with a skip.

**`FragmentedMp4`** (`muxer.rs`, `demuxer.rs`, `fragment.rs`, `moov.rs` of ISO BMFF;
`transmux_fmp4.rs`). The muxer under both transmuxers, cutting segments at key frames and by
their number of samples; composed with the demuxer, which gets the segments with lost and
repeated boxes. A box is a record whose offsets are computed as in the code. Packets count
in `Clock` ticks; the init segment gives each track its `Timescale`, and times are compared
in seconds.

**`Mp4Recorder`** (`recorder.rs`). The sample tables as they are written, from samples with
a DTS and a PTS of their own, and a reader that undoes them.

The six `*Proofs` modules hold the theorems. `WebPlayerProofs` extends its component, and the
others the MC module of their area, whose constants have no values there, so that a theorem
states the very property that the run checks.

## 4. Runs

Six runs pass; each is one area of section 2. Six are expected to fail (section 6).

| Run | Shows |
|---|---|
| `services` | `CountersExact`: no path of acquire/drop loses or repeats an update; `ChunksFit`; the lock-free pool implements `BoundedPool`; the queues implement `PriorityLanes`, count every loss and signal pressure (`SchedulerKeeps`); `DevicesAgree`: ledger, flags and devices of a broadcast on every error path; `SegmentsOnce`: no piece of a stream requested twice at a time or again, no segment passed over; `DownloadsGoOn`: every segment arrives, and a live playlist behind a master is loaded again and again |
| `playback` | `SessionCoherent`: preroll only with track and configuration of this session, playback as the user last asked through rebuffering; `BudgetRespected` although `tick` prunes; `EventsTellState`: events lead from state to state without a gap and name every leak; `NativePlays`: chunks of this session in order, an idle player holds nothing; `TimelineFollows`: ticks follow the source through wraps, the clock never goes back; `RuntimeSafe`: answers and events belong to their call and stream; `DecoderSafe`: pending counts exact, frames in order, decoders closed |
| `backends` | `RingSafe`, `EventuallyHeard`: frames in order, unplayed frames intact, every frame heard; `MseSafe`: order of appends, the queue never waits without an event to move it, nothing held once stopped, live control restarts; `FallbackSafe`: one backend at a time, none tried again; `PartsSettle`: segments leave the queue and calls of the controller return; `PlansSafe`: plans decode their tracks |
| `web` | `SessionsTracked`, `StoppedQuiet`: stopped sessions hold nothing and are quiet, the current one is live; `LeakFree`: without overlapping calls no session is left behind and a destroyed player stays so; `LoadsSettle` after `destroy()`, unless the body of an HLS response never comes |
| `ingest` | each transport implements `StreamInput`; `InputsEnd`: `stop()` releases everything and ends the stream, and a silent peer is not waited for, unless a transport hangs in one of the awaits that nothing bounds; `SyncSafe`: packets are found again after noise, exactly up to the push size that the search allows; `ArenaSafe`: a handle reads what was stored under it or is refused; `GopSafe`: groups within limits and decodable |
| `containers` | what the sources sent comes out whole, in order and at its time: `TsSafe` (tables and PES packets, and the frames in them), `FlvSafe`, `UnitsSafe` (Annex-B and MPEG-PS); `PlaylistSafe`: a playlist that is read says what the server published; `RecordersSafe`: an FLV file holds what was recorded, an MP4 file the payload, flags, DTS and composition offset of every sample; `Fmp4Safe`: no packet is lost but by an error or at the end, and video is in time |

**Bounds.** Every bound is a CONSTANT named as one, and each was chosen so that
the case it could hide happens:

- pool: three overlapping lifetimes for two slots and three bytes, sizes from 1 to
  above `MaxObjectSize`, one free chunk: all refusals and undo paths race.
  `UsizeMod` is large enough that counters do not wrap.
  Queues of capacity 3, 0 and 2 with 5 items of 3 priorities displace repeatedly.
- engine: two sessions (late callbacks of the first in the second), one attempt
  per budget and a clock that passes every window, so budgets are exhausted,
  pruned and available again. `ReconnectSource` keeps the largest window, as in
  `default_player`.
- native player: a channel of two for three chunks of each of two sessions: the task
  blocks, is cancelled while it sends, and ends before it is read.
- timeline: counters of three bits or none, two epochs, steps of -2, 1 and 3 over four
  samples: wraps in both directions. Steps are less than half of the range, as
  unwrapping needs.
- runtime: two loads, two stops, five calls, two pending commands: every crossing of
  a stop, a failure and a load with one in flight. WebCodecs: two configurations, a
  queue of one, one step, one error.
- broadcast: two bitrates, three packets; repeated sessions come from the cyclic
  state graph, not from a bound. HLS: a recorded playlist of three segments and a
  live one of one that grows to three in a window of two; segments of one part, two
  of which may be loaded by parts; one retry, one seek, four requests at a time.
- ring: 3 slots written with batches of 1 and 3 frames, 5 in all: indices wrap while
  blocks of 2 are played. MSE: an append queue of two, one retry, three segments, two
  seeks. Controller: three candidates over two backends, three calls, one epoch.
- web: two loads, one HLS and one stream session, one stop, one destroy: every
  pair of overlapping calls. A third load would only repeat a pair.
- transports: three chunks, two retries, three concurrent readers; one of each and no
  retry in `webrtc_end`.
- sync: packets of three bytes, a search of six, pushes of one and seven, which is one
  more than the search: five items, one of them noise longer than the search, a
  stump, or a packet that holds a second sync byte. One more byte in a push
  breaks the property.
- arena: generations up to 5, so that slots are exhausted and retired; one reset.
  GOP cache: two sizes and three times against limits that one, two or three packets
  exceed.
- containers: three to five tags, units or packets; counters modulo 4 to 16 that wrap
  in the second item; buffers a little larger than the largest item. Items are
  enumerated so that each error path of the parsers has one. In the segments one track
  begins before the other or never comes, and one has packets with durations and the
  other without; the clock and the sample rate differ.

**Deadlock** is not what these runs look for: in every passing run something may
really stop, as a stream or a file ends, callers need not call again and a destroyed player
or engine does nothing more. What must go on is stated as liveness.

**Fairness** is assumed only of what the host's scheduling guarantees: the audio
thread calls `process()` and a started call of the main thread runs to its end
(`AudioRing`); timers fire, promise continuations run, and aborted inputs are
rejected, but bodies of HLS responses need not come (`WebPlayer`, needed after `destroy()`
only); SourceBuffer operations
end and their events are delivered (`MseBackend`); a backend's `configure()` and
`stop()` settle (`FallbackController`); timers fire, aborted fetches are rejected, what was settled continues, and a WebSocket
that is closed tells so (`Transports`, where nothing is assumed of WebRTC's offer and
descriptions nor of closing a WebTransport session); the host answers the playlist requests and the
segment requests of the HLS client, whatever the answer, and keeps ticking it
(`HlsClient`). For WebTransport one assumption is on the peer: it does not open
streams for ever. Nothing is assumed of users or decoders, nor that a request or an
update succeeds.

## 5. Proofs

Assumptions are the modules' named ASSUMEs (limits are natural numbers; a source's steps are
less than half of its counter's range) and, where stated, a hypothesis in the theorem. Each
theorem holds for every value of the constants, the bounds of section 4 included. An
invariant was checked by TLC on a small instance before it was proved.

- **`BoundedProofs`**: `TypeCorrect`; `PoolSafe` (counters exact, grants within both limits)
  and `PoolRefines` (implements `BoundedPool`) for any number of clients, under `NoWrap`:
  the atomics are wide enough for all reservations at once. The limits alone are not
  inductive, because a grant is only a later stage of a reservation that passed its check.
  `IInv` adds that each counter equals the number of clients, or bytes of clients, at the
  stages between its increment and its decrement (`CountersMatch`) and that the clients past
  a check are within the limit (`AdmittedWithinLimits`). Bytes are a set of units per
  client, so that sums are cardinalities. `BuffersFit` (`ChunksFit`) needs no such
  assumption: a chunk changes only in the hands of its owner. `SchedulerCorrect`
  (`SchedulerKeeps`), for any stages, priorities and capacities. The lane of a priority is
  the set of its numbers in ascending order (`Ascending`), each at the place that its rank
  among them gives, so no induction over the queue is needed. Items lie in the order in
  which they were pushed (`Row`), which appending and removing by index keep: the first item
  of a priority is the head of its lane, the newest the end, and the lanes hold as many
  items as the queue (`WaitingCount`, by a bijection between places in the queue and places
  in the lanes), so there is room in one if there is in the other.
- **`PlaybackProofs`**, engine: `TypeCorrect`; `SessionSafe` (`SessionCoherent`, that is
  `PrerollReady`, `SessionFresh` and `PlaybackFollowsUser`) by an invariant that ties the
  state remembered for rebuffering to the flags and to the user's last wish; `BudgetSafe`:
  pruning with the largest window keeps every attempt within any window, so the pruned
  history decides as the complete log would. `EventsComplete` (`EventsTellState`): a
  relation "these events lead from one state to another" is closed under concatenation, so a
  command is as good as the calls it is composed of.
- **`StreamingProofs`**: `BroadcastSafe` (`DevicesAgree`); its three parts together are
  inductive, over a lemma on what stopping the pipeline does from any state.
  `SegmentsCorrect` (`SegmentsOnce`): where a reload would resume must be related to where
  the client is. Between handlers (`Settled`) everything wanted before the position is under
  way or before the point of resumption, the point of resumption is at or before the
  position, and everything under way is before it. A handler first leaves something weaker
  (`Unsettled`): after the last part of a segment the point of resumption may be one past
  the position, and after a reload the position may be before pieces that are under way
  already. `schedule_downloads()` always makes that `Settled` again. That a reload only
  moves forward needs that a playlist that has ended is not loaded again (`NetOK`: one
  playlist under way at a time, none after the end). All of it fails when a part comes late,
  as the observation in section 6 says.
- **`BackendProofs`**: `RingCorrect` (`RingSafe`), for any capacity, block and batches. All
  indices are measured as distances behind the writer, which add up along the ring although
  the indices wrap: the published write index, the one the worklet loaded, the worklet's
  position and the read index follow each other (`Ordered`), every slot from the read index
  on holds the frame that was put there last (`Holds`), and what was heard ends just before
  the position (`HeardUpTo`). Only until the first reset: after one frames are lost, as they
  must be, or come back (`audio_ring_reset`). `MseCorrect` (`MseSafe`), for any limits. The
  last event that the buffer has queued is an `updateend`, and there is one to come while a
  clean-up is on (`Steady`), so a queue never waits in vain; while no call has crossed, the
  buffer has one operation or the events of one, never both (`Alone`), so that an
  `updateend` is the head's, and the head is in the buffer if and only if an append is in
  flight (`HeadSent`, `Unsent`). `FallbackCorrect` (`FallbackSafe`), for any plan and any
  number of calls. While calls do not overlap, the one that is under way stops the current
  backend or configures the only one there is (`Under`), and between calls the current one
  is alive (`Resting`). What failed has been tried, so a candidate that is found has no
  backend that failed; a call that waits for the previous backend to stop keeps that, as
  only its own `configure()` can fail by then. `PlansCorrect` (`PlansSafe`), for any number
  of tracks and any capabilities. The path of a kind is decided by its last track, so it
  decodes that one if it is the only one of its kind; the fallback always scores one less,
  so it comes last; and every term of the score grows with the capabilities.
- **`WebPlayerProofs`**: `SessionsReleased` (`SessionsTracked`) for any number of loads.
  Strengthening: a session that was not started is as it was created, which keeps callbacks
  away from it. `StoppedIsQuiet` (`StoppedQuiet`, on steps) follows: what a stopped session
  has released, no callback finds. `NothingLeft` (`LeakFree`): as long as calls do not
  overlap (`Calm`), one load at most is under way, none together with a stop or a destroy,
  and none holds a session while it tears down or awaits its bootstrap. `PlayerCorrect` is
  the type invariant; its point is the bound on what a step announces.
- **`IngestProofs`**: `TransportsRefine`. A step is either one of `StreamInput` or a
  stutter; that needs what `TInv` says of each transport, for example that a stopped fetch
  is aborting and not timed out, so that its late rejection is not retried, and that only
  the loop over a response body ever holds a chunk.
  `TransportsTyped` (`TypeOK`): the counters stay within their limits. `ArenaCorrect`
  (`ArenaSafe`). That a handle reads what was stored under it follows only with the
  generations: none is given twice, so a handle names one region for good (`Named`). That
  three slots are enough needs that whatever is occupied is one of the last events (`Few`),
  and for each of those that the application was given it (`Given`), so that only its own
  release can have taken it away. `GopCorrect` (`GopSafe`), for any limits and packets. What
  a decoder can decode is said of the packets of one group; what keeps it true is how the
  groups lie: in a row (`InRow`), each a key frame and the packets fed after it (`Whole`),
  and the open one, if there is one, reaching to the packet fed last, so that the next
  packet continues it and a gap can only come before a key frame. Trimming and taking leave
  a subsequence of the groups, and a total over fewer terms is not larger (`TotalThinned`).
- **`PlaybackProofs`**, the other parts: `RuntimeCorrect` (`RuntimeSafe`), for any number of loads, calls and
  stops. Every envelope on its way to the worker or back belongs to an epoch that is over,
  or to a call that is still pending; as the sequence numbers of all of them differ, an
  answer can only settle its own call. `DecoderCorrect` (`DecoderSafe`), for any queue
  limit. The chunks rise through the queue, the decoder of the current generation and the
  frames shown, and a decoder of an earlier generation shows nothing. That pending counts
  are exact and that every decoder is held by the backend is invariant only while no two
  calls overlap, and is carried as such. `NativeCorrect` (`NativePlays`, on states and
  steps), for any channel and any number of chunks and sessions. What is in the channel
  continues what was decoded, up to the task's count of what it sent, across pause, seek and
  reconnection; the log of the life cycle is where the player is, except in the states that
  the player enters without logging.
- **`PlaybackProofs`**, timeline: `TimelineCorrect` (`TimelineFollows`, on states and steps), for any
  width of the counters, time base and thresholds, and any epochs. An epoch that was seen
  remembers its source's own time, not only the remainder that the counter shows: a step of
  less than half of the range is recovered from two remainders. The time of the clock is at
  or behind every epoch's own, and conversions to microseconds keep the order. The
  assumption says of `2^WrapBits` that it is a positive number, since the provers know
  nothing of powers.

Out of the prover's reach and only model-checked:

- liveness (fairness and ENABLED): `EventuallyHeard`, `PartsSettle`, `InputsEnd`,
  `LoadsSettle`, `DownloadsGoOn`;
- induction over data, which is what a fold or a recursive definition computes for every
  input: the properties of `containers` and `SyncSafe`, whose references are folds over the
  source's items;
- `TypesOK`, the types of the broadcast engine and the HLS client: the numbers that requests get are bounded for model
  checking only (`MaxRequests`). The types that the proof of `SegmentsCorrect` needs are
  part of its invariant.

Every other safety and action property of the runs is a theorem.

## 6. Findings and observations

Six runs are expected to fail; each shows the code doing something else than a
comment or document says.

- `audio_ring_reset`: a `reset()` between the worklet's loads and its final store is
  undone, and dropped samples are played (`worklet.ts:60`; `ring.ts:38`).
- `web_leak`: a second `load()` while the first awaits its bootstrap leaves a
  running session that nobody refers to (`player.ts:916`; acceptance checklist,
  line 38).
- `mse_taken`: an `updateend` that belongs to no queued append takes a segment
  that was never appended (`mse.ts:920`).
- `hls_reload`: a client that is given the URL of a media playlist requests its
  reloads as a media playlist's and takes the answers for a master's, so the first
  reload stays under way for good and the live stream stops (`client.rs:186`, `454`;
  `client.rs:60`: "Drive the live reload clock forward.").
- `fmp4_flush`: `finish()` of the transmuxers cuts every track behind its last key frame as
  any flush does, and what follows it is in no segment (`muxer.rs:88`; `transmux_fmp4.rs:94`
  of FLV: "flush remaining samples into segments", line 96 of MPEG-TS).
- `webrtc_end`: `stop()` while `createOffer()`, `setLocalDescription()` or
  `setRemoteDescription()` is awaited closes the connection, which leaves that promise
  pending for ever: the caller never hears the end (`webrtc.ts:169`; `webrtc.ts:413`: "to
  guarantee onEnd is emitted").

Seen while modelling. The models behave this way, or their sources avoid the case
where the note says so; the properties are stated for what the code does promise.

**Playback**
- Engine: a fatal or network failure after Stop makes the idle engine Rebuffering
  (`state.rs:618`; `state.rs:22`: "no load is active"). Budgets are counted per error
  code, so alternating codes multiply them (`recovery.rs:299`);
  `BackendEvent::Stopped` and ledger releases carry no epoch.
- Native player: `validate()` rejects life cycles that legal calls produce; after a
  retryable error only the user ends the rebuffering, and the next read gives Eof.
- Timeline: `wraps` counts every sample after the first wrap (`clock.rs:75`); a PTS
  that steps backward moves the base forward; CatchUp is never left; the `until` of
  Hold is already reached.
- Worker runtime: a stop that reaches the worker while a load awaits its module lets
  the load continue under the stop's epoch; a second `stop()` rejects.
- WebCodecs: after `pauseDisplay(false)` the decoder is never configured again, so
  `decode()` throws; the buffered window is not contiguous after a drop and a later
  step; `stop()` or a second `configure()` during `configure()` leaves decoders open.

**Services and backends**
- Pool: a refused acquire's transient reservation can refuse another caller.
- Scheduler: `pop` polls no watermark; LowWatermark waits for a push or poll.
- Broadcast: a start that is denied changes the permission and drops the event that says so
  (`engine.rs:311`; `engine.rs:93`: "Permission state changed."); a packet number is used twice when the encoder refuses a bitrate
  (`pipeline.rs:177`).
- HLS client: parts that arrive out of order make a reload resume behind the last
  one, so that a segment is skipped (five requests and two parts are enough), or
  take the position back and load a segment again; the failures of a live
  playlist add up until the client stops (`client.rs:295`); the answer of a
  cancelled request schedules one more download.
- MSE: a `pushSegment` in the gap between the end of an update and its `updateend`
  appends the head twice; a test double that fires `updateend` synchronously hides
  the gap. The generation check in `processQueue` never fails.
- Fallback controller: `stop()` or a second call during `configure()` leaves a backend
  configured that nobody refers to (`fallback.ts:252`).
- Planner: two tracks of one kind share one path, and the last decides; the fallback
  takes the codec pack if any track of the kind has it; "software_fallback" keeps
  WebCodecs where there is no pack; maxima are compared only when both sides are set.
  Nothing in the workspace calls `plan()`.

**Web and transports**
- Web player: a fatal error while playback is wanted can be followed by
  `playing`; a stream that ends early leaves `preroll` after `load()`; a late
  rejection of one load tears down the session of the next; `stop()` that
  overlaps `destroy()` ends in `idle`; a `load()` of HLS waits for the body of a response
  that never comes, behind `stop()` and `destroy()` too, as the abort listener and the timer
  are removed with the headers (`playback-session.ts:720`); a worker error after the 3 s bootstrap
  marks a playing player failed.
- Transports: a chunk that a read of a response body held at `stop()` is delivered after it
  (`transport.ts:138`; the sessions drop it by their generation); `close()` of a WebTransport
  session is awaited without a timeout; an HTTP error status leaves the body unread until `stop()`; a
  WebSocket `stop()` from inside a chunk callback arms the idle timer again; a
  failing blob ends the stream but leaves the socket open until `stop()`; opening a
  WebSocket resets its retries, so a peer that accepts and drops is retried without
  bound; an open data channel has no idle timeout; the accept timeout of
  WebTransport ends a live stream that uses one long stream, even while data flows.

**Ingest**
- TS sync: a push of more than 1505 bytes after noise, or pushes that are not drained,
  lose good packets that were not searched; the last position of what arrived is
  accepted unverified, and packets that follow one another are not verified; the
  transmuxer latches LostSync, so 1505 bytes of noise end the stream.
- Demux arena: after `reset()` the same slot and generation are handed out again; the
  bindings carry no instance that would tell them apart.
- GOP cache: `random_access()` prefers finalized groups to a newer open one
  (`gop.rs:139`; its comment says "newest GOP at or before").

**Containers**
- TS sections and PES: an unsupported stream type aborts the rest of the PMT
  (`demuxer.rs:290`); sections have neither CRC nor continuity check; a loss of
  exactly 16 packets is not noticed; the last unbounded PES is never flushed.
- TS frames: a lost or damaged packet, a discontinuity or a PES without PTS forgets
  `last_time`, so after the first wrap of 2^33 times jump back; parameter sets and SEI of a
  second unit without delimiter attach to the previous one; all units of a PES share
  its time, and a later one's parameter sets replace the earlier ones before the earlier
  picture leaves; an H.265 configuration is told with the SPS alone; an AAC frame cut
  between PES is lost, and a PES that starts inside a frame is dropped whole; a change of
  format is told with the next PES only; MP3 gets no Track event (`demuxer.rs:36`), and a
  false sync makes the payload one packet; video without start codes is an error that
  is not latched.
- FLV demuxer: the File mode of `demuxer.rs:24` never works (`demuxer.rs:173`, `244`), only
  the header comes out of it; where a stream has no size fields, a tag without event whose
  consumption empties the consumed part of the buffer ends a drain early, with complete tags
  behind it (`demuxer.rs:186`, `503`; `demuxer.rs:131`: "`None` if more data is required");
  a restart just after a wrap, or in the upper half of the counter, is not recognised.
- FLV recorder: `patch_header_flags` writes byte 4 of whatever leads the buffer
  (`muxer.rs:193`); a packet with a negative DTS makes `stop()` and `finish()` lose the rest
  of the heap; a failed write loses the chunk; the heap is not stable for equal DTS;
  data tracks are written nowhere.
- Fragmented MP4: a key frame ends a
  segment instead of starting one; a configuration change does not flush, so samples of
  the old one follow the new init segment; FLV audio has milliseconds in a `sample_rate`
  timescale (TS audio 90 kHz ticks), so only video is in time, and the packets of both
  demuxers have no duration, so that all samples of a segment have the time of its first; an error in `configure_track` or `convert_packet` ends a drain and is not latched.
- Its demuxer: only the last trun of a traf is kept; a traf after the first has a wrong
  base without default-base-is-moof; mfhd numbers are not compared, so an mdat may be
  read with the table of an older moof; errors inside moof and moov are not drained and
  repeat until the limit of 64 MB.
- MP4 recorder: audio whose packets are never key gets an empty stss; `configure()` in
  mid-recording describes all samples by the last configuration; the first DTS and
  gaps are lost.
- Annex-B: the skip of four bytes at an emulation misses a start code, or leaves a zero,
  after a unit that ends in 00 00 03; NalTooLarge is neither latched nor drained; an
  overflow loses complete units too; a push after Eof is ignored in silence;
  sequence and ticks start again after `reset()` with the same epoch.
- MPEG-PS: an unbounded PES that ends in a zero byte loses it; an error inside
  `process_payload` leaves the PES undrained; after the end code and Eof later data still
  gives packets; the partial bounded PES at the end is lost; a PES without PTS makes the
  audio that follows timeless; a start code split over packets gives its unit the later
  packet's time; damaged audio drops the rest of the payload.
- HLS playlists: parts after the last URI, the live edge, are dropped; the fallback picks
  the highest affordable variant (`variant.rs:53`: "lowest bandwidth variant"), limits
  use the peak and the order uses the average bandwidth; keys and maps before a SKIP are
  lost, and a MEDIA-SEQUENCE after it would undo it; a second STREAM-INF overwrites a
  pending one; a URI with "://" in its query is taken as absolute, "//host/..." as a path,
  and a base without slash is glued; implicit byte-range offsets are left to the host.

## 7. What is not modelled

`PROJECT.json` lists every component with its status and reason. In short:

- state machines left for later, in the order of section 2: downloader, TypeScript
  recorders, intercom and capture, codec pack and its frame queue, the TypeScript TS
  transmuxers, the web components' memory budget;
- pure data layouts (boxes, tags, fields of parameter sets), image and sample
  arithmetic, drawing, DOM elements: no state whose interleaving matters;
- generated declarations, bindings that forward, traits, placeholders, fixtures, demos,
  scripts and documents.

Inside modelled components the note of each names what is left out: statistics,
payloads, delays and logging everywhere; AMF data and the fields of codec headers in the
containers; the non-shared `LocalAudioRingBuffer`; the interval of HLS reloads and
blocking reloads; and in the web player recording, snapshot, download, intercom and
composite recording.

Liveness under fairness, and what a fold computes for every input, are checked by
TLC on the instances of section 4 and have no proof.
