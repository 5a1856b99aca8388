------------------------------ MODULE MseBackend -------------------------------
(***************************************************************************)
(* The Media Source backend (packages/runtime, mse.ts): the append queue,  *)
(* buffer clean-up after a quota error or by the live control timer, seek, *)
(* display pause and stop, around the browser's SourceBuffer.              *)
(*                                                                         *)
(* The SourceBuffer is external.  When an append or a removal ends, it     *)
(* clears `updating` and queues the updateend event: handlers of other     *)
(* events may run between the two.  abort() ends an append at once, with   *)
(* the events abort and updateend, and throws during a removal.            *)
(*                                                                         *)
(* A segment is its number.  The queue's generations are left out: seek()  *)
(* and stop() empty the queue whenever they start a new one, so that       *)
(* processQueue never finds an old segment.  Left out too: the playback    *)
(* rate, frame stepping and the metrics.  A backend is configured once, as *)
(* PlaybackSession does.                                                   *)
(***************************************************************************)
EXTENDS Naturals, SequencesExt

CONSTANTS MaxAppendQueue, MaxQuotaRetries,   \* options of the backend
          MaxSegments, MaxSeeks,             \* bounds, for model checking
          MaxEvents   \* bound: events queued when another operation ends

MseAssumption ==
  /\ MaxAppendQueue \in Nat \ {0} /\ MaxQuotaRetries \in Nat
  /\ MaxSegments \in Nat /\ MaxSeeks \in Nat /\ MaxEvents \in Nat \ {0}

VARIABLES
  mse,      \* the backend's fields
  sb,       \* external: the SourceBuffer's operation, queued events, content
  next,     \* ghost: the next segment to push
  sent,     \* ghost: the segments given to appendBuffer, and were they in order
  lost,     \* ghost: segments taken off the queue without an append
  crossed   \* ghost: something ran that upsets the queue, see Crosses

vars == <<mse, sb, next, sent, lost, crossed>>

Segments == 1..MaxSegments
QuietBuffer == [op |-> "none", events |-> <<>>, held |-> 0]

TypeOK ==
  /\ mse \in [phase : {"new", "opening", "ready", "stopped", "failed"},
              url : BOOLEAN, timer : BOOLEAN, cleanup : BOOLEAN,
              queue : SeqOf(Segments, MaxAppendQueue), retries : 0..MaxQuotaRetries,
              display : {"on", "kept", "cut"}, seeks : 0..MaxSeeks, sought : 0..MaxSeeks]
  /\ sb.op \in {"none", "append", "remove"}
  /\ \A k \in 1..Len(sb.events) : sb.events[k] \in {"updateend", "abort", "error"}
  /\ sb.held \in Nat
  /\ next \in 1..(MaxSegments + 1)
  /\ sent \in [segments : SUBSET Segments, ordered : BOOLEAN]
  /\ lost \subseteq Segments /\ crossed \in BOOLEAN

Init ==
  /\ mse = [phase |-> "new", url |-> FALSE, timer |-> FALSE, cleanup |-> FALSE,
            queue |-> <<>>, retries |-> 0, display |-> "on", seeks |-> 0, sought |-> 0]
  /\ sb = QuietBuffer
  /\ next = 1 /\ sent = [segments |-> {}, ordered |-> TRUE] /\ lost = {} /\ crossed = FALSE

Ready == mse.phase = "ready"
Updating == sb.op # "none"

\* The operation has ended and its updateend is still to come.
Gap == ~Updating /\ sb.events # <<>>

-----------------------------------------------------------------------------
(* stop() and handleError() *)

\* stop() runs to its end without an await.  The buffer's listeners are gone,
\* so its events are not heard any more.
Closed(m) ==
  [m EXCEPT !.phase = "stopped", !.url = FALSE, !.timer = FALSE, !.queue = <<>>,
            !.retries = 0, !.cleanup = FALSE, !.display = "on"]

\* handleError() reports the error and stops the backend.
Shutdown(m) ==
  /\ mse' = Closed(m)
  /\ sb' = QuietBuffer
  /\ UNCHANGED sent

-----------------------------------------------------------------------------
(* processQueue(), at the end of a handler that leaves the fields m and the *)
(* buffer s *)

StartCleanup(m, s) ==
  /\ mse' = [m EXCEPT !.cleanup = TRUE]
  /\ sb' = [s EXCEPT !.op = "remove"]
  /\ UNCHANGED sent

Sent(n) == [segments |-> sent.segments \cup {n},
            ordered |-> sent.ordered /\ \A k \in sent.segments : k < n]

\* performAppend(): accepted; out of quota with something to remove; or an
\* error, which includes a quota that cannot be helped.
PerformAppend(m, s) ==
  \/ /\ mse' = m
     /\ sb' = [s EXCEPT !.op = "append"]
     /\ sent' = Sent(Head(m.queue))
  \/ /\ m.retries < MaxQuotaRetries /\ s.held > 0
     /\ StartCleanup([m EXCEPT !.retries = @ + 1], s)
  \/ Shutdown(m)

\* Mutant: an update in progress is not waited for.
ProcessQueueEager(m, s) ==
  IF m.cleanup \/ m.queue = <<>>
  THEN mse' = m /\ sb' = s /\ UNCHANGED sent
  ELSE PerformAppend(m, s)

ProcessQueue(m, s) ==
  IF s.op # "none" \/ m.cleanup \/ m.queue = <<>>
  THEN mse' = m /\ sb' = s /\ UNCHANGED sent
  ELSE PerformAppend(m, s)

-----------------------------------------------------------------------------
(* configure() *)

Configure ==
  /\ mse.phase = "new"
  /\ mse' = [mse EXCEPT !.phase = "opening", !.url = TRUE]
  /\ UNCHANGED <<sb, next, sent, lost, crossed>>

SourceOpen ==
  /\ mse.phase = "opening"
  /\ mse' = [mse EXCEPT !.phase = "ready", !.timer = TRUE]
  /\ UNCHANGED <<sb, next, sent, lost, crossed>>

\* The source does not open within 5 s, or addSourceBuffer throws: stop().
ConfigureFails ==
  /\ mse.phase = "opening"
  /\ mse' = [Closed(mse) EXCEPT !.phase = "failed"]
  /\ UNCHANGED <<sb, next, sent, lost, crossed>>

-----------------------------------------------------------------------------
(* pushSegment(), seek(), pauseDisplay(), stop() *)

\* Calls that make an updateend meet a queue it does not belong to: an append
\* or a clean-up in the gap; what cancels an append, or removes without
\* cleanup, and leaves an updateend that takes the next head.
Crosses == Updating \/ sb.events # <<>>

PushSegment ==
  /\ Ready /\ next <= MaxSegments
  /\ next' = next + 1
  /\ IF mse.display = "cut" \/ Len(mse.queue) >= MaxAppendQueue
     THEN UNCHANGED <<mse, sb, sent, crossed>>
     ELSE /\ ProcessQueue([mse EXCEPT !.queue = Append(@, next)], sb)
          /\ crossed' = (crossed \/ (Gap /\ ~mse.cleanup))
  /\ UNCHANGED lost

\* abort() an append, then remove() everything; the removal does not set
\* cleanup.  Both are skipped when abort() throws.
AbortAndRemove(s) ==
  LET aborted == IF s.op = "append"
                 THEN [s EXCEPT !.op = "none", !.events = @ \o <<"abort", "updateend">>]
                 ELSE s
  IN IF aborted.op = "remove" \/ s.held = 0 THEN aborted
     ELSE [aborted EXCEPT !.op = "remove"]

\* Up to the promise that waits for the element's seeked event.
Seek ==
  /\ Ready /\ mse.sought < MaxSeeks
  /\ mse' = [mse EXCEPT !.timer = FALSE, !.queue = <<>>, !.seeks = @ + 1, !.sought = @ + 1]
  /\ sb' = AbortAndRemove(sb)
  /\ crossed' = (crossed \/ Crosses \/ sb'.op = "remove")
  /\ UNCHANGED <<next, sent, lost>>

\* Mutant: the timer is restarted whether or not the backend was stopped.
SeekEndsAlways ==
  /\ mse.seeks > 0
  /\ \E left \in {0, mse.seeks - 1} :
       mse' = [mse EXCEPT !.seeks = left, !.timer = TRUE]
  /\ UNCHANGED <<sb, next, sent, lost, crossed>>

\* Mutant: the timer is not restarted by a seek that timed out.
SeekEndsTimeout ==
  /\ mse.seeks > 0
  /\ \E left \in {0, mse.seeks - 1} :
       mse' = [mse EXCEPT !.seeks = left, !.timer = @ \/ (Ready /\ left = 0 /\ mse.seeks > 1)]
  /\ UNCHANGED <<sb, next, sent, lost, crossed>>

\* seeked or error is fired, for every waiting seek(), or one of them has
\* waited 5 s.  The live control timer runs again unless stopped.
SeekEnds ==
  /\ mse.seeks > 0
  /\ \E left \in {0, mse.seeks - 1} :
       mse' = [mse EXCEPT !.seeks = left, !.timer = @ \/ Ready]
  /\ UNCHANGED <<sb, next, sent, lost, crossed>>

PauseDisplay(keepConnection) ==
  /\ Ready
  /\ mse' = [mse EXCEPT !.display = IF keepConnection THEN "kept" ELSE "cut",
                        !.queue = IF keepConnection THEN @ ELSE <<>>,
                        !.timer = TRUE]
  /\ crossed' = (crossed \/ (~keepConnection /\ Crosses))
  /\ UNCHANGED <<sb, next, sent, lost>>

Stop ==
  /\ mse.phase \in {"opening", "ready"}
  /\ Shutdown(mse)
  /\ UNCHANGED <<next, lost, crossed>>

\* The video element or the media source reports an error.
MediaError ==
  /\ mse.phase \in {"opening", "ready"}
  /\ Shutdown(mse)
  /\ UNCHANGED <<next, lost, crossed>>

\* The live control timer finds buffer too far behind or ahead.
AdjustPlayback ==
  /\ Ready /\ mse.timer
  /\ ~mse.cleanup /\ ~Updating /\ sb.held > 0
  /\ StartCleanup(mse, sb)
  /\ crossed' = (crossed \/ Gap)
  /\ UNCHANGED <<next, lost>>

-----------------------------------------------------------------------------
(* The SourceBuffer (external) and the handlers of its events *)

AppendEnds ==
  /\ sb.op = "append" /\ Len(sb.events) < MaxEvents
  /\ sb' = [op |-> "none", events |-> Append(sb.events, "updateend"), held |-> sb.held + 1]
  /\ UNCHANGED <<mse, next, sent, lost, crossed>>

AppendFails ==
  /\ sb.op = "append" /\ Len(sb.events) < MaxEvents
  /\ sb' = [sb EXCEPT !.op = "none", !.events = @ \o <<"error", "updateend">>]
  /\ UNCHANGED <<mse, next, sent, lost, crossed>>

RemoveEnds ==
  /\ sb.op = "remove" /\ Len(sb.events) < MaxEvents
  /\ \E left \in 0..(sb.held - 1) :
       sb' = [op |-> "none", events |-> Append(sb.events, "updateend"), held |-> left]
  /\ UNCHANGED <<mse, next, sent, lost, crossed>>

Popped == [sb EXCEPT !.events = Tail(@)]

\* Mutant: after a clean-up the queue is left alone.
OnUpdateEndIdle ==
  /\ sb.events # <<>> /\ Head(sb.events) = "updateend"
  /\ IF mse.cleanup
     THEN /\ mse' = [mse EXCEPT !.cleanup = FALSE]
          /\ sb' = Popped
          /\ UNCHANGED <<sent, lost>>
     ELSE IF mse.queue = <<>>
     THEN ProcessQueue(mse, Popped) /\ UNCHANGED lost
     ELSE /\ ProcessQueue([mse EXCEPT !.queue = Tail(@), !.retries = 0], Popped)
          /\ lost' = lost \cup ({Head(mse.queue)} \ sent.segments)
  /\ UNCHANGED <<next, crossed>>

\* onSourceBufferUpdateEnd: a clean-up ended, or the head is taken for done.
OnUpdateEnd ==
  /\ sb.events # <<>> /\ Head(sb.events) = "updateend"
  /\ IF mse.cleanup
     THEN ProcessQueue([mse EXCEPT !.cleanup = FALSE], Popped) /\ UNCHANGED lost
     ELSE IF mse.queue = <<>>
     THEN ProcessQueue(mse, Popped) /\ UNCHANGED lost
     ELSE /\ ProcessQueue([mse EXCEPT !.queue = Tail(@), !.retries = 0], Popped)
          /\ lost' = lost \cup ({Head(mse.queue)} \ sent.segments)
  /\ UNCHANGED <<next, crossed>>

OnAbort ==
  /\ sb.events # <<>> /\ Head(sb.events) = "abort"
  /\ ProcessQueue(mse, Popped)
  /\ UNCHANGED <<next, lost, crossed>>

\* A browser's error event carries no error, so it is never taken for quota.
OnError ==
  /\ sb.events # <<>> /\ Head(sb.events) = "error"
  /\ Shutdown(mse)
  /\ UNCHANGED <<next, lost, crossed>>

-----------------------------------------------------------------------------
Next ==
  \/ Configure \/ SourceOpen \/ ConfigureFails
  \/ PushSegment \/ Seek \/ SeekEnds \/ Stop
  \/ \E keepConnection \in BOOLEAN : PauseDisplay(keepConnection)
  \/ MediaError \/ AdjustPlayback
  \/ AppendEnds \/ AppendFails \/ RemoveEnds
  \/ OnUpdateEnd \/ OnAbort \/ OnError

\* The browser finishes its operations and fires its events.
Fairness ==
  /\ WF_vars(AppendEnds) /\ WF_vars(RemoveEnds)
  /\ WF_vars(OnUpdateEnd \/ OnAbort \/ OnError)

Spec == Init /\ [][Next]_vars /\ Fairness

-----------------------------------------------------------------------------
(* Properties *)

\* A queued segment leaves the queue once it was appended: mse.ts:919 takes an
\* updateend outside of a clean-up for the end of the head's append.
TakenWhenAppended == lost = {}

\* Unless a call crosses an update (see Crosses), every segment is appended at
\* most once, in order, and none is skipped on the queue (mse.ts:912).
AppendedInOrder ==
  ~crossed => lost = {} /\ sent.ordered

\* Segments on the queue are waiting for an event that will move them: nothing
\* needs a further pushSegment() to start the queue again (mse.ts:804).
QueueMoves == mse.queue # <<>> => Updating \/ sb.events # <<>>

\* A stopped backend holds no object URL, no timer and no segments, whatever
\* was pending: a configure(), a seek() or an update (mse.ts:479).
StoppedHoldsNothing ==
  mse.phase \in {"stopped", "failed"} => ~mse.url /\ ~mse.timer /\ mse.queue = <<>>

\* Live control runs whenever no seek is pending, however seeks overlapped with
\* each other and with a display pause (mse.ts:577).
LiveControlRuns == Ready /\ mse.seeks = 0 => mse.timer

\* Every queued segment leaves the queue: quota clean-ups and retries end.
SegmentsLeave ==
  \A n \in Segments : Contains(mse.queue, n) ~> ~Contains(mse.queue, n)

\* The promises above that hold in every state.
MseSafe == TypeOK /\ AppendedInOrder /\ QueueMoves /\ StoppedHoldsNothing /\ LiveControlRuns
=============================================================================
