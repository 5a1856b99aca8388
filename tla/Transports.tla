------------------------------- MODULE Transports -------------------------------
(***************************************************************************)
(* The four transports of packages/runtime/src and the state they share.   *)
(* `out` names the callbacks a step makes, in order.  A callback may call  *)
(* stop(); it does not throw.  Bytes count as chunks against maxBytes.     *)
(* Behind one interface (createTransport) each keeps the promises of       *)
(* StreamInput.  Left out: a second start(), which the sessions never      *)
(* make, and stop() before start().                                        *)
(*                                                                         *)
(* FetchTransport (transport.ts): one response body, with a connect and an *)
(* idle timeout and retries before the first chunk.                        *)
(*                                                                         *)
(* WebSocketTransport: binary messages of a socket that is opened again,   *)
(* after a delay, when it closes abnormally.  Text messages, which only    *)
(* re-arm the idle timeout, are left out.                                  *)
(*                                                                         *)
(* WebTransportTransport (webtransport.ts): run() accepts unidirectional   *)
(* streams, each read by a loop of its own, or reads datagrams.  Every     *)
(* await is raced against the timeout: it settles.                         *)
(*                                                                         *)
(* WebRtcTransport (webrtc.ts): run() makes an offer, posts it, sets the   *)
(* answer, waits for the channel to open and then for it to close, while   *)
(* the channel's callbacks deliver or fail.                                *)
(***************************************************************************)
EXTENDS Naturals, Sequences

CONSTANTS MaxChunks,   \* maxBytes, in chunks
          MaxRetries,  \* the configured retries
          MaxReading   \* streams or blobs read at a time, for model checking

ASSUME TransportAssumption == MaxChunks \in Nat /\ MaxRetries \in Nat /\ MaxReading \in Nat

VARIABLES
  kind,  \* which transport this is
  t,     \* its fields
  out    \* the callbacks made in the last step

vars == <<kind, t, out>>

Kinds == {"fetch", "websocket", "webtransport", "webrtc"}

\* timer: the idle, connect or open timeout is armed.  reading: WebTransport
\* streams or blobs being read.  opened: WebRTC's promise of an open channel.
\* ready: what a fulfilled read of a response body holds for the loop that awaits it.
Created ==
  [phase |-> "new", stopped |-> FALSE, at |-> "start", conn |-> "none", timer |-> FALSE,
   timedOut |-> FALSE, delivered |-> 0, retries |-> 0, reading |-> 0, opened |-> "pending",
   ready |-> "none"]

TransportRecord ==
  [phase : {"new", "open", "ended"}, stopped : BOOLEAN,
   at : {"start", "connected", "waiting", "ready", "accepting", "datagrams", "draining",
         "offering", "signaling", "answering", "opening", "streaming", "closing", "left"},
   conn : {"none", "opening", "open", "aborting", "closing", "closed"},
   timer : BOOLEAN, timedOut : BOOLEAN, delivered : 0..MaxChunks, retries : 0..MaxRetries,
   reading : 0..MaxReading, opened : {"pending", "resolved", "rejected"},
   ready : {"none", "chunk", "end"}]

Failed == <<"error", "end">>
Done == <<"end">>

Become(r, events) == t' = r /\ out' = events /\ UNCHANGED kind

\* finish(): the caller is told once.
Finish(r, events) ==
  Become([r EXCEPT !.phase = "ended"], IF r.phase = "ended" THEN <<>> ELSE events)

\* start() with an invalid configuration or URL, or without the browser API.
StartRefused == t.phase = "new" /\ Finish(t, Failed)

Exhausted == t.delivered = MaxChunks
OneMore(r) == [r EXCEPT !.delivered = @ + 1]

-----------------------------------------------------------------------------
(* FetchTransport *)

FetchStart ==
  /\ t.phase = "new"
  /\ Become([t EXCEPT !.phase = "open", !.conn = "opening", !.timer = TRUE], <<>>)

FetchAnswers ==
  /\ t.conn = "opening"
  /\ Become([t EXCEPT !.conn = "open", !.timer = TRUE], <<>>)

\* Any status but 200 and 206: the body is neither read nor cancelled.
FetchRefuses ==
  /\ t.conn = "opening"
  /\ Finish([t EXCEPT !.conn = "open", !.timer = FALSE], Failed)

\* A response without a body ends the stream.
FetchEmpty ==
  /\ t.conn = "opening"
  /\ Finish([t EXCEPT !.conn = "closed", !.timer = FALSE], Done)

\* The body has a chunk or its end for reader.read(), whose await goes on in a
\* later microtask; what fails or fires a timer is a task, and comes before or after.
FetchReads ==
  /\ t.conn = "open" /\ t.phase = "open" /\ t.ready = "none"
  /\ \E x \in {"chunk", "end"} : Become([t EXCEPT !.ready = x], <<>>)

\* stop(): a rejection is on its way while run() waits for the network.
FetchStopped(r) ==
  [r EXCEPT !.stopped = TRUE, !.timedOut = FALSE,
            !.conn = IF r.phase = "ended" THEN "closed"
                     ELSE IF @ \in {"opening", "open"} THEN "aborting" ELSE @]

\* The loop does not look whether it was stopped while it waited.
FetchChunk ==
  /\ t.ready = "chunk"
  /\ LET r == [t EXCEPT !.ready = "none"]
     IN IF Exhausted
        THEN Finish([r EXCEPT !.conn = "closed", !.timer = FALSE], Failed)
        ELSE \E stops \in BOOLEAN :
               LET heard == [OneMore(r) EXCEPT !.timer = TRUE]
               IN Become(IF stops THEN FetchStopped(heard) ELSE heard, <<"chunk">>)

FetchEnds ==
  /\ t.ready = "end"
  /\ Finish([t EXCEPT !.conn = "closed", !.timer = FALSE, !.ready = "none"], Done)

\* Mutant: one retry more than configured.
FetchGivesUpLate == t.delivered > 0 \/ t.retries > MaxRetries

FetchGivesUp == t.delivered > 0 \/ t.retries >= MaxRetries

\* The catch arm, for a failure that is not a cancellation.
FetchRetries ==
  IF FetchGivesUp
  THEN Finish([t EXCEPT !.conn = "closed", !.timer = FALSE], Failed)
  ELSE Become([t EXCEPT !.conn = "opening", !.timer = TRUE, !.timedOut = FALSE,
                        !.retries = @ + 1], <<>>)

FetchFails ==
  t.conn \in {"opening", "open"} /\ t.phase = "open" /\ t.ready = "none" /\ FetchRetries

FetchTimer ==
  /\ t.timer /\ t.conn \in {"opening", "open"} /\ t.ready = "none"
  /\ Become([t EXCEPT !.timer = FALSE, !.timedOut = TRUE, !.conn = "aborting"], <<>>)

\* The await that abort() rejected: the one it interrupted, or the next one.
FetchRejected ==
  /\ t.conn = "aborting" /\ t.ready = "none"
  /\ IF t.timedOut THEN FetchRetries
     ELSE Finish([t EXCEPT !.conn = "closed", !.timer = FALSE], Failed)

FetchNext ==
  \/ StartRefused \/ FetchStart \/ FetchAnswers \/ FetchRefuses \/ FetchEmpty
  \/ FetchReads \/ FetchChunk \/ FetchEnds \/ FetchFails \/ FetchTimer \/ FetchRejected

\* Timers fire, an aborted fetch is rejected, and what was settled goes on.
FetchFairness ==
  /\ WF_vars(kind = "fetch" /\ FetchTimer)
  /\ WF_vars(kind = "fetch" /\ FetchRejected)
  /\ WF_vars(kind = "fetch" /\ (FetchChunk \/ FetchEnds))

-----------------------------------------------------------------------------
(* WebSocketTransport *)

\* finish() also clears both timers.
WsFinish(r, events) == Finish([r EXCEPT !.timer = FALSE, !.at = "connected"], events)

\* Mutant: no timeout while the socket opens.
WsConnectUntimed(r) == Become([r EXCEPT !.phase = "open", !.conn = "opening", !.at = "connected"], <<>>)

WsConnect(r) ==
  Become([r EXCEPT !.phase = "open", !.conn = "opening", !.at = "connected", !.timer = TRUE], <<>>)

WsStart == t.phase = "new" /\ WsConnect(t)

\* The reconnect delay is over; the constructor may throw.
WsReconnects ==
  /\ t.at = "waiting"
  /\ WsConnect(t) \/ WsFinish(t, Failed)

WsOpens ==
  /\ t.conn = "opening"
  /\ Become([t EXCEPT !.conn = "open", !.retries = 0, !.timer = TRUE], <<>>)

\* stop() ends the stream at once.
WsStopped(r) ==
  [r EXCEPT !.stopped = TRUE, !.phase = "ended", !.timer = FALSE, !.at = "connected",
            !.conn = IF @ \in {"opening", "open"} THEN "closing" ELSE @]

\* deliver(): the idle timer is armed after the callback, which may have stopped.
\* current: the message came over the connection there is.
WsDeliver(r, current) ==
  IF Exhausted
  THEN WsFinish([r EXCEPT !.conn = IF current /\ @ = "open" THEN "closing" ELSE @], Failed)
  ELSE \/ Become([OneMore(r) EXCEPT !.timer = TRUE], <<"chunk">>)
       \/ Become([WsStopped(OneMore(r)) EXCEPT !.timer = TRUE], <<"chunk">> \o Failed)

WsMessage == t.conn = "open" /\ t.phase # "ended" /\ WsDeliver(t, TRUE)

\* A blob is read asynchronously, maybe after its connection is gone.
WsBlob ==
  /\ t.conn = "open" /\ t.phase # "ended" /\ t.reading < MaxReading
  /\ Become([t EXCEPT !.reading = @ + 1, !.timer = TRUE], <<>>)

WsBlobRead ==
  /\ t.reading > 0
  /\ LET r == [t EXCEPT !.reading = @ - 1]
     IN IF t.phase = "ended" THEN Become(r, <<>>)
        ELSE \E current \in BOOLEAN : WsDeliver(r, current)

\* The rejection ends the stream, but not the socket, while that is the one
\* the blob came from.
WsBlobFails ==
  /\ t.reading > 0
  /\ LET r == [t EXCEPT !.reading = @ - 1]
     IN Become(r, <<>>) \/ (t.conn \in {"open", "closing"} /\ WsFinish(r, Failed))

WsCloses ==
  /\ t.conn \in {"opening", "open", "closing"}
  /\ LET r == [t EXCEPT !.conn = "closed", !.timer = FALSE]
     IN IF t.phase = "ended" THEN Become(r, <<>>)
        ELSE \/ t.conn = "open" /\ WsFinish(r, Done)
             \/ t.retries < MaxRetries /\ Become([r EXCEPT !.retries = @ + 1, !.at = "waiting"], <<>>)
             \/ t.retries >= MaxRetries /\ WsFinish(r, Failed)

WsTimer ==
  /\ t.timer
  /\ WsFinish([t EXCEPT !.conn = IF @ \in {"opening", "open"} THEN "closing" ELSE @], Failed)

WsNext ==
  \/ StartRefused \/ WsStart \/ WsReconnects \/ WsOpens \/ WsMessage
  \/ WsBlob \/ WsBlobRead \/ WsBlobFails \/ WsCloses \/ WsTimer

\* Timers fire, blobs are read, and a socket that is closed tells so.
WsFairness ==
  /\ WF_vars(kind = "websocket" /\ WsTimer)
  /\ WF_vars(kind = "websocket" /\ (WsBlobRead \/ WsBlobFails))
  /\ WF_vars(kind = "websocket" /\ t.conn = "closing" /\ WsCloses)

-----------------------------------------------------------------------------
(* WebTransportTransport *)

WtStart ==
  /\ t.phase = "new"
  /\ Become([t EXCEPT !.phase = "open", !.conn = "opening", !.at = "ready"], <<>>)

\* stop(): the session is closed, reads settle by themselves.
WtStopped(r) == [r EXCEPT !.stopped = TRUE, !.conn = IF @ = "none" THEN @ ELSE "closed"]

WtReady ==
  /\ t.at = "ready"
  /\ \E loop \in {"accepting", "datagrams"} :
       Become([t EXCEPT !.conn = IF @ = "opening" THEN "open" ELSE @,
                        !.at = IF t.stopped THEN "draining" ELSE loop], <<>>)

WtAccept ==
  /\ t.at = "accepting" /\ ~t.stopped /\ t.reading < MaxReading
  /\ Become([t EXCEPT !.reading = @ + 1], <<>>)

\* The loop breaks: no more streams or datagrams, or stopped.
WtLeave ==
  /\ t.at \in {"accepting", "datagrams"}
  /\ Become([t EXCEPT !.at = "draining"], <<>>)

\* What run() awaits is rejected or times out.
WtAwaitFails ==
  /\ t.at \in {"ready", "accepting", "datagrams"}
  /\ Finish([WtStopped(t) EXCEPT !.at = "left"], Failed)

\* Mutant: a stream's reader does not look at `stopped` after its await.
WtChunkUnchecked ==
  /\ t.reading > 0 \/ t.at = "datagrams"
  /\ IF Exhausted
     THEN Finish(WtStopped(t), Failed)
     ELSE \E stops \in BOOLEAN :
            Become(IF stops THEN WtStopped(OneMore(t)) ELSE OneMore(t), <<"chunk">>)

WtChunk ==
  /\ t.reading > 0 \/ t.at = "datagrams"
  /\ ~t.stopped
  /\ IF Exhausted
     THEN Finish(WtStopped(t), Failed)
     ELSE \E stops \in BOOLEAN :
            Become(IF stops THEN WtStopped(OneMore(t)) ELSE OneMore(t), <<"chunk">>)

WtStreamDone ==
  /\ t.reading > 0
  /\ Become([t EXCEPT !.reading = @ - 1], <<>>)

\* A stream's read is rejected or times out; after stop() nobody is told.
WtStreamFails ==
  /\ t.reading > 0
  /\ LET r == [t EXCEPT !.reading = @ - 1]
     IN IF t.stopped THEN Become(r, <<>>) ELSE Finish(WtStopped(r), Failed)

\* run() has read everything that was accepted and closes the session, unless
\* that was done.
WtDrained ==
  /\ t.at = "draining" /\ t.reading = 0
  /\ IF t.conn = "closed" THEN Finish([t EXCEPT !.at = "left"], Done)
     ELSE Become([t EXCEPT !.at = "closing", !.conn = "closed"], <<>>)

\* close() settles; nothing bounds how long that takes.
WtClosed ==
  /\ t.at = "closing"
  /\ \E e \in {Done, Failed} :
       Finish([t EXCEPT !.at = "left", !.stopped = @ \/ e = Failed], e)

WtNext ==
  \/ StartRefused \/ WtStart \/ WtReady \/ WtAccept \/ WtLeave \/ WtAwaitFails
  \/ WtChunk \/ WtStreamDone \/ WtStreamFails \/ WtDrained \/ WtClosed

\* Reads and accepts settle or time out; the peer does not open streams for ever.
WtFairness ==
  /\ WF_vars(kind = "webtransport" /\ WtAwaitFails)
  /\ WF_vars(kind = "webtransport" /\ (WtStreamDone \/ WtStreamFails))
  /\ WF_vars(kind = "webtransport" /\ WtDrained)

-----------------------------------------------------------------------------
(* WebRtcTransport *)

RtcStart ==
  /\ t.phase = "new"
  /\ Become([t EXCEPT !.phase = "open", !.conn = "opening", !.at = "offering",
                      !.timer = TRUE], <<>>)

\* The peer connection is closed and the waiters are settled.
RtcReleased(r) ==
  [r EXCEPT !.conn = "closed", !.timer = FALSE,
            !.opened = IF @ = "pending" THEN "resolved" ELSE @]

\* Mutant: stop() trusts the browser to fire onclose.
RtcStoppedWaiting(r) == [r EXCEPT !.stopped = TRUE, !.conn = "closed"]

\* stop(): the browser may not fire onclose, so the waiters are settled here.
RtcStopped(r) ==
  [RtcReleased(r) EXCEPT !.stopped = TRUE,
                         !.at = IF @ = "streaming" THEN "closing" ELSE @]

RtcOffered ==
  /\ t.at = "offering" /\ ~t.stopped
  /\ Become([t EXCEPT !.at = "signaling"], <<>>)

RtcSignaled ==
  /\ t.at = "signaling"
  /\ Become([t EXCEPT !.at = "answering"], <<>>)

RtcAnswered ==
  /\ t.at = "answering" /\ t.conn # "closed"
  /\ Become([t EXCEPT !.at = "opening"], <<>>)

RtcChannelOpens ==
  /\ t.at \in {"answering", "opening"} /\ t.conn = "opening" /\ t.opened = "pending"
  /\ Become([t EXCEPT !.opened = "resolved", !.timer = FALSE, !.conn = "open"], <<>>)

\* The channel closes or the connection fails before it is open, or the open
\* timeout closes the connection.
RtcOpenFails ==
  /\ t.opened = "pending" /\ t.phase # "new"
  /\ \E conn \in {t.conn, "closed"} :
       Become([t EXCEPT !.opened = "rejected", !.timer = FALSE, !.conn = conn], <<>>)

RtcContinues ==
  /\ t.at = "opening" /\ t.opened = "resolved" /\ ~t.stopped
  /\ Become([t EXCEPT !.at = "streaming"], <<>>)

\* An await of run() is rejected, or run() finds itself stopped.
RtcThrows ==
  /\ \/ t.at \in {"offering", "signaling", "answering"}
     \/ t.at = "opening" /\ (t.opened = "rejected" \/ (t.opened = "resolved" /\ t.stopped))
  /\ Finish([RtcReleased(t) EXCEPT !.at = "left"], Failed)

\* A message, or a blob that was read: both are dropped once stopped.
RtcChunk ==
  /\ t.conn = "open" /\ ~t.stopped
  /\ IF Exhausted
     THEN Finish(RtcStopped(t), Failed)
     ELSE \E stops \in BOOLEAN :
            Become(IF stops THEN RtcStopped(OneMore(t)) ELSE OneMore(t), <<"chunk">>)

RtcChannelError ==
  /\ t.conn \in {"opening", "open"} /\ ~t.stopped /\ t.phase # "ended"
  /\ Finish(RtcStopped(t), Failed)

\* The channel or the connection closes, or the connection fails.
RtcCloses ==
  /\ t.at = "streaming"
  /\ \E e \in {Done, Failed} : Finish([RtcReleased(t) EXCEPT !.at = "left"], e)

\* run() goes on after stop() settled its wait.
RtcClosed ==
  /\ t.at = "closing"
  /\ Finish([t EXCEPT !.at = "left"], Done)

RtcNext ==
  \/ StartRefused \/ RtcStart \/ RtcOffered \/ RtcSignaled \/ RtcAnswered
  \/ RtcChannelOpens \/ RtcOpenFails \/ RtcContinues \/ RtcThrows
  \/ RtcChunk \/ RtcChannelError \/ RtcCloses \/ RtcClosed

\* The post of the offer and the open channel have a timeout, and stop() settles
\* the wait for the channel.  Making the offer and setting the descriptions have
\* neither.
RtcFairness ==
  /\ WF_vars(kind = "webrtc" /\ RtcOpenFails)
  /\ WF_vars(kind = "webrtc" /\ t.at \in {"signaling", "opening"} /\ (RtcSignaled \/ RtcThrows))
  /\ WF_vars(kind = "webrtc" /\ RtcContinues)
  /\ WF_vars(kind = "webrtc" /\ RtcClosed)

-----------------------------------------------------------------------------
(* createTransport *)

TypeOK ==
  /\ kind \in Kinds
  /\ t \in TransportRecord
  /\ out \in {<<>>, <<"chunk">>, <<"chunk">> \o Failed, Done, Failed}

Init == kind \in Kinds /\ t = Created /\ out = <<>>

Stopped ==
  CASE kind = "fetch" -> FetchStopped(t)
    [] kind = "websocket" -> WsStopped(t)
    [] kind = "webtransport" -> WtStopped(t)
    [] kind = "webrtc" -> RtcStopped(t)

\* stop(); only the WebSocket transport tells the caller at once.
Stop ==
  /\ t.phase # "new"
  /\ Become(Stopped, IF kind = "websocket" /\ t.phase # "ended" THEN Failed ELSE <<>>)

Next ==
  \/ kind = "fetch" /\ FetchNext
  \/ kind = "websocket" /\ WsNext
  \/ kind = "webtransport" /\ WtNext
  \/ kind = "webrtc" /\ RtcNext
  \/ Stop

Fairness == FetchFairness /\ WsFairness /\ WtFairness /\ RtcFairness

Spec == Init /\ [][Next]_vars /\ Fairness

-----------------------------------------------------------------------------
(* Properties *)

\* Every transport, with its own stop flags, retries, timers and concurrent
\* readers, tells its caller what StreamInput allows and nothing else.  Only the
\* loop over a response body can hand over a chunk after stop(): the one a read
\* held already (transport.ts:138).
Input == INSTANCE StreamInput WITH
  phase <- t.phase, stopped <- t.stopped, ready <- t.ready = "chunk"
ImplementsStreamInput == Input!Spec

\* run() awaits what has no timeout and what stop() does not settle: the offer
\* and the descriptions of WebRTC, and close() of a WebTransport session.
Hanging ==
  \/ kind = "webrtc" /\ t.at \in {"offering", "answering"}
  \/ kind = "webtransport" /\ t.at = "closing"

\* Whatever stop() interrupts, the connection, the timers and the readers go away
\* and the caller is told that the stream ended, unless run() hangs for ever.
LetGo == t.conn \in {"none", "closed"} /\ ~t.timer /\ t.reading = 0
StopReleases == t.stopped ~> (LetGo /\ (t.phase = "ended" \/ []Hanging))

\* A silent peer is not waited for forever: some timeout is armed at every other
\* await.  Two more exceptions: a WebSocket whose peer keeps accepting and dropping
\* the connection, as opening it resets the retries, and an open data channel,
\* which has no timeout.
SilenceEnds ==
  t.phase = "open" ~>
    \/ t.phase = "ended"
    \/ kind = "websocket" /\ t.at = "waiting"
    \/ kind = "webrtc" /\ t.at = "streaming"
    \/ []Hanging

\* No input outlives its stop(), nor the silence of its peer.
InputsEnd == StopReleases /\ SilenceEnds

=============================================================================
