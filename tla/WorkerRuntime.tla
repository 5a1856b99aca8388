------------------------------ MODULE WorkerRuntime ------------------------------
(***************************************************************************)
(* The engine in a web worker: createRuntime() on the main thread          *)
(* (runtime.ts), the worker (worker.ts), and the envelopes between them    *)
(* (messages.ts), one FIFO channel each way.                               *)
(*                                                                         *)
(* An envelope carries instance, epoch and sequence; here also, as ghosts, *)
(* the number of the call it belongs to (0 for events) and the stream that *)
(* an event is about.  A stream is the instance of its load.  Promise      *)
(* continuations run before the next envelope is handled, so that a load   *)
(* whose wasm module is initialised completes in the step that receives it.*)
(***************************************************************************)
EXTENDS Integers, Sequences, FiniteSets, SequencesExt

CONSTANTS MaxPending,                     \* maxPendingCommands
          MaxLoads, MaxStops, MaxCalls,   \* bounds, for model checking
          MaxFailures                     \* bound on failing imports and worker errors

\* What the proofs need of the limit and the bounds.
RuntimeAssumption ==
  MaxPending \in Nat /\ MaxLoads \in Nat /\ MaxStops \in Nat

VARIABLES
  main,      \* the fields of the runtime
  worker,    \* the globals of worker.ts
  up, down,  \* envelopes to the worker, and to the main thread
  failures,
  late       \* ghost: a stop reached the worker while a load awaited its module

vars == <<main, worker, up, down, failures, late>>

Commands == {"bootstrap", "load", "stop", "seek"}   \* "seek": all that withEngineReply handles
Controls == {"play"}                                \* or "pause"

Init ==
  /\ main = [instance |-> 0, epoch |-> 0, sequence |-> 0, calls |-> 0, stops |-> 0,
             pending |-> {}, alive |-> TRUE, created |-> FALSE,
             halted |-> TRUE, quiet |-> FALSE]
  /\ worker = [epoch |-> 0, wasm |-> "none", url |-> FALSE, waiting |-> <<>>, engine |-> 0]
  /\ up = <<>> /\ down = <<>> /\ failures = 0 /\ late = FALSE

TypeOK ==
  /\ main.instance \in 0..MaxLoads /\ main.epoch \in 0..(MaxLoads + MaxStops)
  /\ Cardinality(main.pending) <= MaxPending
  /\ worker.wasm \in {"none", "loading", "ready"} /\ worker.engine \in 0..MaxLoads
  /\ worker.wasm # "loading" => worker.waiting = <<>>
  /\ \A i \in DOMAIN up : up[i].type \in Commands \cup Controls

-----------------------------------------------------------------------------
(* The main thread (runtime.ts) *)

Envelope(m, type, call) ==
  [instance |-> m.instance, epoch |-> m.epoch, sequence |-> m.sequence,
   type |-> type, call |-> call]

\* post(): m with the command pending, unless there are too many.
Posted(m, type) ==
  [m EXCEPT !.sequence = @ + 1, !.calls = @ + 1, !.created = TRUE,
            !.pending = @ \cup {[sequence |-> m.sequence + 1, type |-> type, call |-> m.calls + 1]}]

Post(m, type) ==
  IF Cardinality(m.pending) >= MaxPending THEN main' = m /\ UNCHANGED up
  ELSE /\ main' = Posted(m, type)
       /\ up' = Append(up, Envelope(main', type, main'.calls))

CanCall == main.alive /\ main.calls < MaxCalls

\* load(): what is pending is rejected; the load itself is posted when the
\* bootstrap has been answered.
Load ==
  /\ CanCall /\ main.instance < MaxLoads
  /\ Post([main EXCEPT !.instance = @ + 1, !.epoch = @ + 1, !.sequence = 0,
                       !.pending = {}, !.halted = FALSE, !.quiet = FALSE], "bootstrap")
  /\ UNCHANGED <<worker, down, failures, late>>

Request ==
  /\ CanCall /\ Post(main, "seek")
  /\ UNCHANGED <<worker, down, failures, late>>

\* sendControl(): play and pause are not answered.
SendControl ==
  /\ CanCall
  /\ main' = [main EXCEPT !.sequence = @ + 1, !.calls = @ + 1, !.created = TRUE]
  /\ up' = Append(up, Envelope(main', "play", main'.calls))
  /\ UNCHANGED <<worker, down, failures, late>>

\* Mutants: the old epoch goes on, or sequence numbers start again.
StopKeepsEpoch ==
  /\ CanCall /\ main.stops < MaxStops
  /\ LET m == [main EXCEPT !.stops = @ + 1, !.pending = {}, !.halted = TRUE]
     IN IF main.created THEN Post(m, "stop") ELSE main' = m /\ UNCHANGED up
  /\ UNCHANGED <<worker, down, failures, late>>

StopRestarts ==
  /\ CanCall /\ main.stops < MaxStops
  /\ LET m == [main EXCEPT !.epoch = @ + 1, !.stops = @ + 1, !.sequence = 0,
                           !.pending = {}, !.halted = TRUE]
     IN IF main.created THEN Post(m, "stop") ELSE main' = m /\ UNCHANGED up
  /\ UNCHANGED <<worker, down, failures, late>>

Stop ==
  /\ CanCall /\ main.stops < MaxStops
  /\ LET m == [main EXCEPT !.epoch = @ + 1, !.stops = @ + 1, !.pending = {}, !.halted = TRUE]
     IN IF main.created THEN Post(m, "stop") ELSE main' = m /\ UNCHANGED up
  /\ UNCHANGED <<worker, down, failures, late>>

\* destroy() terminates the worker.
Destroy ==
  /\ main.alive
  /\ main' = [main EXCEPT !.alive = FALSE, !.pending = {}, !.halted = TRUE]
  /\ up' = <<>> /\ down' = <<>>
  /\ worker' = [worker EXCEPT !.wasm = "none", !.waiting = <<>>, !.engine = 0]
  /\ UNCHANGED <<failures, late>>

TimesOut ==
  /\ \E p \in main.pending : main' = [main EXCEPT !.pending = @ \ {p}]
  /\ UNCHANGED <<worker, up, down, failures, late>>

\* onerror and onmessageerror: rejectAll().
WorkerError ==
  /\ main.alive /\ main.created /\ failures < MaxFailures
  /\ main' = [main EXCEPT !.pending = {}]
  /\ failures' = failures + 1
  /\ UNCHANGED <<worker, up, down, late>>

Current(e) == e.instance = main.instance /\ e.epoch = main.epoch
Matching(e) == {p \in main.pending : p.sequence = e.sequence}

\* handleMessage(): an event, an error, or the answer to a command.  load() goes on
\* when its bootstrap is answered, stop() returns.
HandleMessage ==
  /\ down # <<>> /\ down' = Tail(down)
  /\ LET e == Head(down)
         rest == [main EXCEPT !.pending = @ \ Matching(e)]
     IN IF ~Current(e) \/ e.type = "event" \/ Matching(e) = {}
        THEN UNCHANGED <<main, up>>
        ELSE IF e.type = "error" THEN main' = rest /\ UNCHANGED up
        ELSE IF e.type = "bootstrap" THEN Post(rest, "load")
        ELSE main' = [rest EXCEPT !.quiet = @ \/ e.type = "stop"] /\ UNCHANGED up
  /\ UNCHANGED <<worker, failures, late>>

-----------------------------------------------------------------------------
(* The worker (worker.ts) *)

Event(w, e, what) ==
  [instance |-> e.instance, epoch |-> w.epoch, sequence |-> 0,
   type |-> "event", call |-> 0, event |-> what, stream |-> w.engine]

\* sendError(): in the worker's epoch, which need not be the command's.
Error(w, e) == [e EXCEPT !.epoch = w.epoch, !.type = "error"]

\* The continuation of initWasm() in a load.
LoadEngine(w, e) == [w EXCEPT !.engine = e.instance]
Loaded(w, e) == <<Event(LoadEngine(w, e), e, "loaded"), e>>

Say(es) == down' = down \o es

HandleBootstrap(e) ==
  /\ e.type = "bootstrap"
  /\ worker' = [worker EXCEPT !.url = TRUE]
  /\ Say(<<e>>)
  /\ UNCHANGED late

HandleLoad(e) ==
  /\ e.type = "load"
  /\ LET w == [worker EXCEPT !.epoch = e.epoch]
     IN IF w.wasm = "ready" THEN worker' = LoadEngine(w, e) /\ Say(Loaded(w, e))
        ELSE IF ~w.url THEN worker' = w /\ Say(<<Error(w, e)>>)
        ELSE /\ worker' = [w EXCEPT !.wasm = "loading", !.waiting = Append(@, e)]
             /\ UNCHANGED down
  /\ UNCHANGED late

\* withEngine() and withEngineReply().
HandleControl(e) ==
  /\ e.type = "play"
  /\ Say(IF worker.engine = 0 THEN <<Error(worker, e)>> ELSE <<Event(worker, e, "playing")>>)
  /\ UNCHANGED <<worker, late>>

HandleRequest(e) ==
  /\ e.type = "seek"
  /\ Say(IF worker.engine = 0 THEN <<Error(worker, e)>> ELSE <<Event(worker, e, "seeking"), e>>)
  /\ UNCHANGED <<worker, late>>

\* Mutant: the engine is stopped and kept.
HandleStopKeeps(e) ==
  /\ e.type = "stop"
  /\ LET w == [worker EXCEPT !.epoch = e.epoch]
     IN /\ worker' = w
        /\ Say(IF w.engine = 0 THEN <<Error(w, e)>> ELSE <<Event(w, e, "stopped"), e>>)
  /\ late' = (late \/ worker.waiting # <<>>)

HandleStop(e) ==
  /\ e.type = "stop"
  /\ LET w == [worker EXCEPT !.epoch = e.epoch]
     IN /\ worker' = [w EXCEPT !.engine = 0]
        /\ Say(IF w.engine = 0 THEN <<Error(w, e)>> ELSE <<Event(w, e, "stopped"), e>>)
  /\ late' = (late \/ worker.waiting # <<>>)

\* onmessage: what belongs to an earlier epoch is ignored, but for loads.
OnMessage ==
  /\ main.alive /\ up # <<>> /\ up' = Tail(up)
  /\ LET e == Head(up)
     IN IF e.epoch < worker.epoch /\ e.type # "load"
        THEN UNCHANGED <<worker, down, late>>
        ELSE \/ HandleBootstrap(e) \/ HandleLoad(e) \/ HandleControl(e)
             \/ HandleRequest(e) \/ HandleStop(e)
  /\ UNCHANGED <<main, failures>>

\* All loads that wait for the module go on, in order; or all fail.
WasmReady ==
  /\ worker.wasm = "loading"
  /\ worker' = [worker EXCEPT !.wasm = "ready", !.waiting = <<>>,
                              !.engine = Last(worker.waiting).instance]
  /\ Say([n \in 1..(2 * Len(worker.waiting)) |->
             Loaded(worker, worker.waiting[(n + 1) \div 2])[2 - (n % 2)]])
  /\ UNCHANGED <<main, up, failures, late>>

WasmFails ==
  /\ worker.wasm = "loading" /\ failures < MaxFailures
  /\ worker' = [worker EXCEPT !.wasm = "none", !.waiting = <<>>]
  /\ Say([i \in DOMAIN worker.waiting |-> Error(worker, worker.waiting[i])])
  /\ failures' = failures + 1
  /\ UNCHANGED <<main, up, late>>

Next ==
  \/ Load \/ Request \/ SendControl \/ Stop \/ Destroy
  \/ TimesOut \/ WorkerError \/ HandleMessage
  \/ OnMessage \/ WasmReady \/ WasmFails

Spec == Init /\ [][Next]_vars

-----------------------------------------------------------------------------
(* Properties *)

\* A command is only settled by its own answer: errors carry the worker's epoch
\* instead of the command's, sequences start again with every load, and calls that
\* were rejected or timed out may still be answered (runtime.ts:71).
AnswersMatch ==
  down # <<>> =>
    LET e == Head(down)
    IN Current(e) /\ e.type # "event" => \A p \in Matching(e) : p.call = e.call

\* What the application is told of, apart from the stop itself, is the stream it
\* loaded last, and one that it has not stopped.  (Unless a stop reaches the
\* worker while a load awaits its module, worker.ts:185: the load then goes on in
\* the epoch of the stop.)
EventsCurrent ==
  down # <<>> /\ ~late =>
    LET e == Head(down)
    IN Current(e) /\ e.type = "event" /\ e.event # "stopped"
         => e.stream = main.instance /\ ~main.halted

\* When stop() has returned, the worker has no engine until the next load(), and
\* none is about to be created.
StopReleases == main.quiet /\ ~late => worker.engine = 0 /\ worker.waiting = <<>>

\* The promises above together.
RuntimeSafe == TypeOK /\ AnswersMatch /\ EventsCurrent /\ StopReleases
=============================================================================
