----------------------------- MODULE IngestProofs -----------------------------
(***************************************************************************)
(* Proofs about what takes in a stream, as MCIngest instantiates it, for   *)
(* every value of the constants.                                           *)
(*                                                                         *)
(* The transports: each of the four keeps the promises of StreamInput.     *)
(* The arena: that a handle reads what was stored under it is not          *)
(* inductive.  It needs that generations are never used twice              *)
(* (Generations), so that a handle names one region for good (Named), and  *)
(* that what the last events point to is what is occupied (Given, Few).    *)
(* The GOP cache: that a decoder can decode what it gets needs that the    *)
(* groups lie in a row (InRow), each a key frame and what was fed after it *)
(* (Whole), and that the open one reaches to the packet fed last.          *)
(***************************************************************************)
EXTENDS MCIngest, FiniteSetTheorems, SequenceTheorems, WellFoundedInduction, TLAPS

-----------------------------------------------------------------------------
(* The transports *)

\* Why no chunk is told after the end, nor after stop() but the one that was read,
\* for each transport.
\* Fetch: a stop leaves what a read holds and the rejection of what run() awaits.
\* WebSocket: a stop is the end, and only an open stream is opened again.
\* WebTransport: the end is a stop, or everything accepted has been read.
\* WebRTC: the end is a stop, or the connection is closed.
TInv ==
  /\ kind \in Kinds
  /\ t \in TransportRecord
  /\ t.phase = "new" => t = Created
  /\ kind = "fetch" /\ t.phase = "open" => /\ t.conn \in {"opening", "open", "aborting"}
                                           /\ t.stopped => t.conn = "aborting" /\ ~t.timedOut
  /\ kind = "fetch" /\ t.ready # "none" => t.phase = "open" /\ t.conn \in {"open", "aborting"}
  /\ kind = "websocket" => /\ t.stopped => t.phase = "ended"
                           /\ t.at = "waiting" => t.phase = "open"
  /\ kind = "webtransport" /\ t.phase = "ended" =>
       t.stopped \/ (t.at \in {"left", "start"} /\ t.reading = 0)
  /\ kind = "webtransport" /\ t.at = "closing" => t.reading = 0
  /\ kind = "webrtc" /\ (t.phase = "ended" \/ t.at = "closing") =>
       t.stopped \/ t.conn \in {"closed", "none"}

\* Only the loop over a response body waits in a read that is fulfilled.
NoReads == kind # "fetch" => t.ready = "none"

\* Once it is stopped, a transport reads nothing more.
ReadsStop == t.stopped /\ t'.ready = "chunk" => t.ready = "chunk"

\* What a step makes the caller hear, in terms of the transport's fields.
Heard ==
  /\ t.stopped => t'.stopped
  /\ \/ out' = <<>> /\ (t'.phase = t.phase \/ (t.phase = "new" /\ t'.phase = "open"))
     \/ /\ out' = <<"chunk">> /\ t.phase = "open" /\ t'.phase = "open"
        /\ ~t.stopped \/ (t.ready = "chunk" /\ t'.ready = "none")
     \/ out' \in {Done, Failed} /\ t.phase # "ended" /\ t'.phase = "ended"
     \/ /\ out' = <<"chunk">> \o Failed /\ t.phase = "open" /\ ~t.stopped
        /\ t'.phase = "ended" /\ t'.stopped

LEMMA HeardAllowed ==
  ASSUME TInv', Heard, ReadsStop
  PROVE  Input!Next
BY DEF Heard, ReadsStop, TInv, TransportRecord, Done, Failed, Input!Next, Input!MayHear,
       Input!Quiet, Input!Chunk, Input!End, Input!ChunkThenEnd, Input!Endings

USE TransportAssumption

\* One chunk more fits below the size limit, one retry or reader more below theirs.
LEMMA Counts ==
  ASSUME NEW r \in TransportRecord
  PROVE  /\ r.delivered # MaxChunks => OneMore(r) \in TransportRecord
         /\ r.retries < MaxRetries => r.retries + 1 \in 0..MaxRetries
         /\ r.reading < MaxReading => r.reading + 1 \in 0..MaxReading
         /\ r.reading > 0 => r.reading - 1 \in 0..MaxReading
         /\ 0 \in 0..MaxRetries
<1>1. /\ r.delivered \in 0..MaxChunks /\ r.retries \in 0..MaxRetries
      /\ r.reading \in 0..MaxReading
  BY DEF TransportRecord
<1>2. r.delivered # MaxChunks => r.delivered + 1 \in 0..MaxChunks
  BY <1>1
<1>3. r.delivered # MaxChunks => OneMore(r) \in TransportRecord
  BY <1>2 DEF OneMore, TransportRecord
<1> QED
  BY <1>1, <1>3

\* The failure of an attempt keeps the types.
LEMMA FetchRetriesTyped ==
  ASSUME t \in TransportRecord, FetchRetries
  PROVE  t' \in TransportRecord
<1>1. CASE FetchGivesUp
  BY <1>1, ZenonT(30) DEF FetchRetries, Finish, Become, TransportRecord
<1>2. CASE ~FetchGivesUp
  <2>1. t.retries + 1 \in 0..MaxRetries
    BY <1>2, Counts DEF FetchGivesUp, TransportRecord
  <2> QED
    BY <1>2, <2>1, ZenonT(60) DEF FetchRetries, Become, TransportRecord
<1> QED
  BY <1>1, <1>2

\* FetchTransport keeps TInv, and its caller hears what is allowed.
LEMMA FetchMoves ==
  ASSUME TInv, kind = "fetch", FetchNext
  PROVE  TInv' /\ Heard /\ ReadsStop
<1> USE DEF Become, Finish
<1>0. kind' = kind
  BY DEF FetchNext, StartRefused, FetchStart, FetchAnswers, FetchRefuses, FetchEmpty, FetchReads, FetchChunk, FetchEnds, FetchFails, FetchTimer, FetchRejected, FetchRetries
<1>1. CASE StartRefused
  <2>1. t' \in TransportRecord
    BY <1>1 DEF TInv, TransportRecord, Created, StartRefused
  <2>2. Heard /\ ReadsStop
    BY <1>1 DEF TInv, TransportRecord, Heard, ReadsStop, Created, StartRefused
  <2> QED
    BY <1>1, <1>0, <2>1, <2>2 DEF TInv, TransportRecord, Created, StartRefused
<1>2. CASE FetchStart
  <2>1. t' \in TransportRecord
    BY <1>2 DEF TInv, TransportRecord, Created, FetchStart
  <2>2. Heard /\ ReadsStop
    BY <1>2 DEF TInv, TransportRecord, Heard, ReadsStop, Created, FetchStart
  <2> QED
    BY <1>2, <1>0, <2>1, <2>2 DEF TInv, TransportRecord, Created, FetchStart
<1>3. CASE FetchAnswers
  <2>1. t' \in TransportRecord
    BY <1>3 DEF TInv, TransportRecord, Created, FetchAnswers
  <2>2. Heard /\ ReadsStop
    BY <1>3 DEF TInv, TransportRecord, Heard, ReadsStop, Created, FetchAnswers
  <2> QED
    BY <1>3, <1>0, <2>1, <2>2 DEF TInv, TransportRecord, Created, FetchAnswers
<1>4. CASE FetchRefuses
  <2>1. t' \in TransportRecord
    BY <1>4 DEF TInv, TransportRecord, Created, FetchRefuses
  <2>2. Heard /\ ReadsStop
    BY <1>4 DEF TInv, TransportRecord, Heard, ReadsStop, Created, FetchRefuses
  <2> QED
    BY <1>4, <1>0, <2>1, <2>2 DEF TInv, TransportRecord, Created, FetchRefuses
<1>5. CASE FetchEmpty
  <2>1. t' \in TransportRecord
    BY <1>5 DEF TInv, TransportRecord, Created, FetchEmpty
  <2>2. Heard /\ ReadsStop
    BY <1>5 DEF TInv, TransportRecord, Heard, ReadsStop, Created, FetchEmpty
  <2> QED
    BY <1>5, <1>0, <2>1, <2>2 DEF TInv, TransportRecord, Created, FetchEmpty
<1>6. CASE FetchChunk
  <2> DEFINE r == [t EXCEPT !.ready = "none"]
             heard == [OneMore(r) EXCEPT !.timer = TRUE]
  <2>1. /\ r \in TransportRecord /\ r.delivered = t.delivered /\ r.phase = "open"
        /\ r.conn \in {"open", "aborting"} /\ r.stopped = t.stopped /\ r.ready = "none"
        /\ r.timedOut = t.timedOut /\ t.phase = "open" /\ t.ready = "chunk"
        /\ r.stopped => r.conn = "aborting" /\ ~r.timedOut
    BY <1>6 DEF FetchChunk, TInv, TransportRecord
  <2>2. CASE Exhausted
    <3>1. t' = [[r EXCEPT !.conn = "closed", !.timer = FALSE] EXCEPT !.phase = "ended"]
          /\ out' = Failed
      BY <1>6, <2>1, <2>2 DEF FetchChunk
    <3> HIDE DEF r
    <3>2. t' \in TransportRecord /\ t'.phase = "ended" /\ t'.stopped = t.stopped
          /\ t'.ready = "none"
      BY <2>1, <3>1 DEF TransportRecord
    <3> QED
      BY <1>0, <2>1, <3>1, <3>2 DEF TInv, Heard, ReadsStop
  <2>3. CASE ~Exhausted
    <3>1. (t' = heard \/ t' = FetchStopped(heard)) /\ out' = <<"chunk">>
      BY <1>6, <2>3 DEF FetchChunk
    <3>2. OneMore(r) \in TransportRecord /\ OneMore(r) = [r EXCEPT !.delivered = @ + 1]
      BY <2>1, <2>3, Counts DEF Exhausted, OneMore
    <3> HIDE DEF r
    <3>3. /\ heard \in TransportRecord /\ heard.phase = "open" /\ heard.ready = "none"
          /\ heard.conn \in {"open", "aborting"} /\ heard.stopped = t.stopped
          /\ heard.stopped => heard.conn = "aborting" /\ ~heard.timedOut
      BY <2>1, <3>2 DEF TransportRecord
    <3> HIDE DEF heard
    <3>4. /\ t' \in TransportRecord /\ t'.phase = "open" /\ t'.ready = "none"
          /\ t'.conn \in {"open", "aborting"} /\ (t.stopped => t'.stopped)
          /\ t'.stopped => t'.conn = "aborting" /\ ~t'.timedOut
      BY <3>1, <3>3 DEF FetchStopped, TransportRecord
    <3>5. Heard /\ ReadsStop
      BY <2>1, <3>1, <3>4 DEF Heard, ReadsStop
    <3> QED
      BY <1>0, <3>4, <3>5 DEF TInv
  <2> QED
    BY <2>2, <2>3
<1>7. CASE FetchReads
  <2>1. t' \in TransportRecord
    BY <1>7 DEF TInv, TransportRecord, Created, FetchReads
  <2>2. Heard /\ ReadsStop
    BY <1>7 DEF TInv, TransportRecord, Heard, ReadsStop, Created, FetchReads
  <2> QED
    BY <1>7, <1>0, <2>1, <2>2 DEF TInv, TransportRecord, Created, FetchReads
<1>8. CASE FetchEnds
  <2>1. t' \in TransportRecord
    BY <1>8 DEF TInv, TransportRecord, Created, FetchEnds
  <2>2. Heard /\ ReadsStop
    BY <1>8 DEF TInv, TransportRecord, Heard, ReadsStop, Created, FetchEnds
  <2> QED
    BY <1>8, <1>0, <2>1, <2>2 DEF TInv, TransportRecord, Created, FetchEnds
<1>9. CASE FetchFails
  <2>1. t' \in TransportRecord
    BY <1>9, FetchRetriesTyped DEF TInv, FetchFails
  <2>2. Heard /\ ReadsStop
    BY <1>9 DEF TInv, TransportRecord, Heard, ReadsStop, Created, FetchFails, FetchRetries, FetchGivesUp
  <2> QED
    BY <1>9, <1>0, <2>1, <2>2 DEF TInv, TransportRecord, Created, FetchFails, FetchRetries, FetchGivesUp
<1>10. CASE FetchTimer
  <2>1. t' \in TransportRecord
    BY <1>10 DEF TInv, TransportRecord, Created, FetchTimer
  <2>2. Heard /\ ReadsStop
    BY <1>10 DEF TInv, TransportRecord, Heard, ReadsStop, Created, FetchTimer
  <2> QED
    BY <1>10, <1>0, <2>1, <2>2 DEF TInv, TransportRecord, Created, FetchTimer
<1>11. CASE FetchRejected
  <2>1. t' \in TransportRecord
    <3>1. CASE t.timedOut
      BY <1>11, <3>1, FetchRetriesTyped DEF TInv, FetchRejected
    <3>2. CASE ~t.timedOut
      BY <1>11, <3>2 DEF FetchRejected, TInv, TransportRecord
    <3> QED
      BY <3>1, <3>2
  <2>2. Heard /\ ReadsStop
    BY <1>11 DEF TInv, TransportRecord, Heard, ReadsStop, Created, FetchRejected, FetchRetries, FetchGivesUp
  <2>3. t.phase # "new"
    BY <1>11 DEF TInv, Created, FetchRejected
  <2>4. /\ t'.phase # "new"
        /\ t'.phase = "open" => t'.conn = "opening" /\ ~t'.stopped
        /\ t'.ready = "none"
    <3>1. CASE t.timedOut
      BY <1>11, <2>3, <3>1 DEF TInv, TransportRecord, FetchRejected, FetchRetries, FetchGivesUp
    <3>2. CASE ~t.timedOut
      BY <1>11, <2>3, <3>2 DEF TInv, TransportRecord, FetchRejected
    <3> QED
      BY <3>1, <3>2
  <2> QED
    BY <1>0, <2>1, <2>2, <2>4 DEF TInv
<1> QED
  BY <1>1, <1>2, <1>3, <1>4, <1>5, <1>6, <1>7, <1>8, <1>9, <1>10, <1>11 DEF FetchNext

\* What deliver() does with a binary message or a blob that was read.
LEMMA WsDeliverMoves ==
  ASSUME TInv, kind = "websocket", t.phase = "open", ~t.stopped,
         NEW r \in TransportRecord, r.phase = "open", ~r.stopped,
         r.delivered = t.delivered, NEW own \in BOOLEAN, WsDeliver(r, own)
  PROVE  TInv' /\ Heard
<1> USE DEF Become, Finish, WsFinish
<1>0. kind' = kind
  BY DEF WsDeliver
<1>1. CASE Exhausted
  <2>1. t' \in TransportRecord
    BY <1>1, ZenonT(60) DEF WsDeliver, TransportRecord
  <2>2. Heard
    BY <1>1 DEF WsDeliver, TransportRecord, Heard
  <2> QED
    BY <1>0, <1>1, <2>1, <2>2, ZenonT(60) DEF WsDeliver, TInv, TransportRecord
<1>2. CASE ~Exhausted
  <2> DEFINE more == OneMore(r)
  <2>1. more \in TransportRecord /\ more.phase = "open" /\ ~more.stopped
    BY <1>2, Counts DEF Exhausted, OneMore, TransportRecord
  <2> HIDE DEF more
  <2>2. CASE t' = [more EXCEPT !.timer = TRUE] /\ out' = <<"chunk">>
    <3>1. t' \in TransportRecord /\ t'.phase = "open" /\ ~t'.stopped
      BY <2>1, <2>2 DEF TransportRecord
    <3>2. Heard
      BY <2>2, <3>1 DEF Heard
    <3> QED
      BY <1>0, <3>1, <3>2 DEF TInv
  <2>3. CASE t' = [WsStopped(more) EXCEPT !.timer = TRUE] /\ out' = <<"chunk">> \o Failed
    <3>1. t' \in TransportRecord /\ t'.phase = "ended" /\ t'.stopped /\ t'.at = "connected"
      BY <2>1, <2>3, ZenonT(60) DEF WsStopped, TransportRecord
    <3>2. Heard
      BY <2>3, <3>1 DEF Heard
    <3> QED
      BY <1>0, <3>1, <3>2 DEF TInv
  <2> QED
    BY <1>2, <2>2, <2>3 DEF WsDeliver, more
<1> QED
  BY <1>1, <1>2

\* WebSocketTransport keeps TInv, and its caller hears what is allowed.
LEMMA WsMoves ==
  ASSUME TInv, kind = "websocket", WsNext
  PROVE  TInv' /\ Heard
<1> USE DEF Become, Finish
<1>0. kind' = kind
  BY DEF WsNext, StartRefused, WsStart, WsReconnects, WsOpens, WsMessage, WsBlob, WsBlobRead, WsBlobFails, WsCloses, WsTimer, WsFinish, WsConnect, WsDeliver
<1>1. CASE StartRefused
  <2>1. t' \in TransportRecord
    BY <1>1 DEF TInv, TransportRecord, Created, StartRefused
  <2>2. Heard
    BY <1>1 DEF TInv, TransportRecord, Heard, Created, StartRefused
  <2> QED
    BY <1>1, <1>0, <2>1, <2>2 DEF TInv, TransportRecord, Created, StartRefused
<1>2. CASE WsStart
  <2>1. t' \in TransportRecord
    BY <1>2 DEF TInv, TransportRecord, Created, WsStart, WsConnect
  <2>2. Heard
    BY <1>2 DEF TInv, TransportRecord, Heard, Created, WsStart, WsConnect
  <2> QED
    BY <1>2, <1>0, <2>1, <2>2 DEF TInv, TransportRecord, Created, WsStart, WsConnect
<1>3. CASE WsReconnects
  <2>1. t.phase = "open" /\ ~t.stopped /\ t \in TransportRecord
    BY <1>3 DEF TInv, WsReconnects
  <2>2. CASE WsConnect(t)
    <3>1. t' \in TransportRecord /\ t'.phase = "open" /\ ~t'.stopped /\ out' = <<>>
      BY <2>1, <2>2 DEF WsConnect, TransportRecord
    <3>2. Heard
      BY <2>1, <3>1 DEF Heard
    <3> QED
      BY <1>0, <3>1, <3>2 DEF TInv
  <2>3. CASE WsFinish(t, Failed)
    <3>1. t' \in TransportRecord /\ t'.phase = "ended" /\ ~t'.stopped /\ t'.at = "connected"
      BY <2>1, <2>3 DEF WsFinish, TransportRecord
    <3>2. Heard
      BY <2>1, <2>3, <3>1 DEF WsFinish, Heard
    <3> QED
      BY <1>0, <3>1, <3>2 DEF TInv
  <2> QED
    BY <1>3, <2>2, <2>3 DEF WsReconnects
<1>4. CASE WsOpens
  <2>1. t' \in TransportRecord
    BY <1>4, Counts DEF TInv, TransportRecord, WsOpens
  <2>2. Heard
    BY <1>4 DEF TInv, TransportRecord, Heard, Created, WsOpens
  <2> QED
    BY <1>4, <1>0, <2>1, <2>2 DEF TInv, TransportRecord, Created, WsOpens
<1>5. CASE WsMessage
  <2>1. t \in TransportRecord /\ t.phase = "open" /\ ~t.stopped
    BY <1>5 DEF TInv, TransportRecord, Created, WsMessage
  <2> QED
    BY <1>5, <2>1, WsDeliverMoves DEF WsMessage
<1>6. CASE WsBlob
  <2>1. t' \in TransportRecord
    BY <1>6, Counts DEF TInv, TransportRecord, WsBlob
  <2>2. Heard
    BY <1>6 DEF TInv, TransportRecord, Heard, Created, WsBlob
  <2> QED
    BY <1>6, <1>0, <2>1, <2>2 DEF TInv, TransportRecord, Created, WsBlob
<1>7. CASE WsBlobRead
  <2> DEFINE r == [t EXCEPT !.reading = @ - 1]
  <2>1. r \in TransportRecord /\ r.phase = t.phase /\ r.stopped = t.stopped
        /\ r.delivered = t.delivered /\ r.at = t.at
    BY <1>7, Counts DEF TInv, TransportRecord, WsBlobRead
  <2>2. t.phase # "new"
    BY <1>7 DEF TInv, Created, WsBlobRead
  <2>3. CASE t.phase = "ended"
    <3>1. t' = r /\ out' = <<>>
      BY <1>7, <2>3 DEF WsBlobRead
    <3> QED
      BY <1>0, <2>1, <2>3, <3>1 DEF TInv, Heard
  <2>4. CASE t.phase = "open"
    <3>1. ~t.stopped /\ \E own \in BOOLEAN : WsDeliver(r, own)
      BY <1>7, <2>4 DEF TInv, WsBlobRead
    <3> QED
      BY <2>1, <2>4, <3>1, WsDeliverMoves
  <2> QED
    BY <2>2, <2>3, <2>4 DEF TInv, TransportRecord
<1>8. CASE WsBlobFails
  <2> DEFINE r == [t EXCEPT !.reading = @ - 1]
  <2>1. r \in TransportRecord /\ r.phase = t.phase /\ r.stopped = t.stopped /\ r.at = t.at
    BY <1>8, Counts DEF TInv, TransportRecord, WsBlobFails
  <2>2. t.phase # "new"
    BY <1>8 DEF TInv, Created, WsBlobFails
  <2>3. CASE t' = r /\ out' = <<>>
    BY <1>0, <2>1, <2>2, <2>3 DEF TInv, Heard
  <2>4. CASE WsFinish(r, Failed)
    <3>1. t' \in TransportRecord /\ t'.phase = "ended" /\ t'.stopped = t.stopped
          /\ t'.at = "connected"
      BY <2>1, <2>4 DEF WsFinish, TransportRecord
    <3>2. Heard
      BY <2>1, <2>4, <3>1 DEF WsFinish, Heard
    <3> QED
      BY <1>0, <3>1, <3>2 DEF TInv
  <2> QED
    BY <1>8, <2>3, <2>4 DEF WsBlobFails
<1>9. CASE WsCloses
  <2> DEFINE r == [t EXCEPT !.conn = "closed", !.timer = FALSE]
  <2>1. r \in TransportRecord /\ r.phase = t.phase /\ r.stopped = t.stopped
        /\ r.at = t.at /\ r.retries = t.retries
    BY DEF TInv, TransportRecord
  <2>2. t.phase # "new"
    BY <1>9 DEF TInv, Created, WsCloses
  <2>3. CASE t.phase = "ended"
    <3>1. t' = r /\ out' = <<>>
      BY <1>9, <2>3 DEF WsCloses
    <3> QED
      BY <1>0, <2>1, <2>3, <3>1 DEF TInv, Heard
  <2>4. CASE t.phase = "open"
    <3>1. ASSUME NEW e \in {Done, Failed}, WsFinish(r, e) PROVE TInv' /\ Heard
      <4>1. t' \in TransportRecord /\ t'.phase = "ended" /\ t'.stopped = t.stopped
            /\ t'.at = "connected"
        BY <2>1, <3>1 DEF WsFinish, TransportRecord
      <4>2. Heard
        BY <2>1, <2>4, <3>1, <4>1 DEF WsFinish, Heard
      <4> QED
        BY <1>0, <4>1, <4>2 DEF TInv
    <3>2. ASSUME t.retries < MaxRetries,
                 t' = [r EXCEPT !.retries = @ + 1, !.at = "waiting"], out' = <<>>
          PROVE  TInv' /\ Heard
      <4>1. t' \in TransportRecord /\ t'.phase = "open" /\ t'.stopped = t.stopped
        BY <2>1, <2>4, <3>2, Counts, ZenonT(60) DEF TransportRecord
      <4>2. Heard
        BY <2>4, <3>2, <4>1 DEF Heard
      <4> QED
        BY <1>0, <2>4, <4>1, <4>2 DEF TInv
    <3> QED
      BY <1>9, <2>4, <3>1, <3>2 DEF WsCloses
  <2> QED
    BY <2>2, <2>3, <2>4 DEF TInv, TransportRecord
<1>10. CASE WsTimer
  <2>1. t' \in TransportRecord
    BY <1>10 DEF TInv, TransportRecord, Created, WsTimer, WsFinish
  <2>2. Heard
    BY <1>10 DEF TInv, TransportRecord, Heard, Created, WsTimer, WsFinish
  <2> QED
    BY <1>10, <1>0, <2>1, <2>2 DEF TInv, TransportRecord, Created, WsTimer, WsFinish
<1> QED
  BY <1>1, <1>2, <1>3, <1>4, <1>5, <1>6, <1>7, <1>8, <1>9, <1>10 DEF WsNext

\* WebTransportTransport keeps TInv, and its caller hears what is allowed.
LEMMA WtMoves ==
  ASSUME TInv, kind = "webtransport", WtNext
  PROVE  TInv' /\ Heard
<1> USE DEF Become, Finish
<1>0. kind' = kind
  BY DEF WtNext, StartRefused, WtStart, WtReady, WtAccept, WtLeave, WtAwaitFails, WtChunk, WtStreamDone, WtStreamFails, WtDrained, WtClosed
<1>1. CASE StartRefused
  <2>1. t' \in TransportRecord
    BY <1>1 DEF TInv, TransportRecord, Created, StartRefused
  <2>2. Heard
    BY <1>1 DEF TInv, TransportRecord, Heard, Created, StartRefused
  <2> QED
    BY <1>1, <1>0, <2>1, <2>2 DEF TInv, TransportRecord, Created, StartRefused
<1>2. CASE WtStart
  <2>1. t' \in TransportRecord
    BY <1>2 DEF TInv, TransportRecord, Created, WtStart
  <2>2. Heard
    BY <1>2 DEF TInv, TransportRecord, Heard, Created, WtStart
  <2> QED
    BY <1>2, <1>0, <2>1, <2>2 DEF TInv, TransportRecord, Created, WtStart
<1>3. CASE WtReady
  <2>1. t' \in TransportRecord
    BY <1>3, ZenonT(60) DEF TInv, TransportRecord, Created, WtReady
  <2>2. Heard
    BY <1>3 DEF TInv, TransportRecord, Heard, Created, WtReady
  <2> QED
    BY <1>3, <1>0, <2>1, <2>2 DEF TInv, TransportRecord, Created, WtReady
<1>4. CASE WtAccept
  <2>1. t' \in TransportRecord
    BY <1>4 DEF TInv, TransportRecord, Created, WtAccept
  <2>2. Heard
    BY <1>4 DEF TInv, TransportRecord, Heard, Created, WtAccept
  <2> QED
    BY <1>4, <1>0, <2>1, <2>2 DEF TInv, TransportRecord, Created, WtAccept
<1>5. CASE WtLeave
  <2>1. t' \in TransportRecord
    BY <1>5 DEF TInv, TransportRecord, Created, WtLeave
  <2>2. Heard
    BY <1>5 DEF TInv, TransportRecord, Heard, Created, WtLeave
  <2> QED
    BY <1>5, <1>0, <2>1, <2>2 DEF TInv, TransportRecord, Created, WtLeave
<1>6. CASE WtAwaitFails
  <2>1. t' \in TransportRecord
    BY <1>6 DEF TInv, TransportRecord, Created, WtAwaitFails, WtStopped
  <2>2. Heard
    BY <1>6 DEF TInv, TransportRecord, Heard, Created, WtAwaitFails, WtStopped
  <2> QED
    BY <1>6, <1>0, <2>1, <2>2 DEF TInv, TransportRecord, Created, WtAwaitFails, WtStopped
<1>7. CASE WtChunk
  <2>1. t \in TransportRecord /\ t.phase = "open" /\ ~t.stopped /\ t.at # "closing"
    BY <1>7 DEF TInv, TransportRecord, Created, WtChunk
  <2>2. CASE Exhausted
    <3>1. t' \in TransportRecord /\ t'.phase = "ended" /\ t'.stopped /\ out' = Failed
          /\ t'.at = t.at
      BY <1>7, <2>1, <2>2 DEF WtChunk, WtStopped, TransportRecord
    <3>2. Heard
      BY <2>1, <3>1 DEF Heard
    <3> QED
      BY <1>0, <2>1, <3>1, <3>2 DEF TInv
  <2>3. CASE ~Exhausted
    <3> DEFINE more == OneMore(t)
    <3>1. more \in TransportRecord /\ more.phase = "open" /\ ~more.stopped /\ more.at = t.at
          /\ more.conn = t.conn
      BY <2>1, <2>3, Counts DEF Exhausted, OneMore, TransportRecord
    <3>2. (t' = more \/ t' = WtStopped(more)) /\ out' = <<"chunk">>
      BY <1>7, <2>3 DEF WtChunk
    <3> HIDE DEF more
    <3>3. t' \in TransportRecord /\ t'.phase = "open" /\ t'.at = t.at /\ (t'.stopped \/ t' = more)
      BY <3>1, <3>2 DEF WtStopped, TransportRecord
    <3>4. Heard
      BY <2>1, <3>2, <3>3 DEF Heard
    <3> QED
      BY <1>0, <2>1, <3>1, <3>3, <3>4 DEF TInv
  <2> QED
    BY <2>2, <2>3
<1>8. CASE WtStreamDone
  <2>1. t' \in TransportRecord
    BY <1>8 DEF TInv, TransportRecord, Created, WtStreamDone
  <2>2. Heard
    BY <1>8 DEF TInv, TransportRecord, Heard, Created, WtStreamDone
  <2> QED
    BY <1>8, <1>0, <2>1, <2>2 DEF TInv, TransportRecord, Created, WtStreamDone
<1>9. CASE WtStreamFails
  <2> DEFINE r == [t EXCEPT !.reading = @ - 1]
  <2>1. r \in TransportRecord /\ r.phase = t.phase /\ r.stopped = t.stopped
        /\ r.at # "closing"
    BY <1>9, Counts DEF TInv, TransportRecord, WtStreamFails
  <2>2. t.phase # "new"
    BY <1>9 DEF TInv, Created, WtStreamFails
  <2>3. CASE t.stopped
    <3>1. t' = r /\ out' = <<>>
      BY <1>9, <2>3 DEF WtStreamFails
    <3> QED
      BY <1>0, <2>1, <2>2, <2>3, <3>1 DEF TInv, Heard
  <2>4. CASE ~t.stopped
    <3>1. Finish(WtStopped(r), Failed)
      BY <1>9, <2>4 DEF WtStreamFails
    <3>2. t' \in TransportRecord /\ t'.phase = "ended" /\ t'.stopped /\ t'.at # "closing"
      BY <2>1, <3>1 DEF WtStopped, TransportRecord
    <3>3. Heard
      BY <2>1, <3>1, <3>2 DEF WtStopped, TransportRecord, Heard
    <3> QED
      BY <1>0, <3>2, <3>3 DEF TInv
  <2> QED
    BY <2>3, <2>4
<1>10. CASE WtDrained
  <2>1. t.phase # "new" /\ t.phase \in {"open", "ended"} /\ t \in TransportRecord /\ t.reading = 0
    BY <1>10 DEF WtDrained, TInv, TransportRecord, Created
  <2>2. CASE t.conn = "closed"
    <3>1. t' = [[t EXCEPT !.at = "left"] EXCEPT !.phase = "ended"]
          /\ out' = (IF t.phase = "ended" THEN <<>> ELSE Done)
      BY <1>10, <2>1, <2>2 DEF WtDrained
    <3>2. t' \in TransportRecord /\ t'.phase = "ended" /\ t'.at = "left" /\ t'.reading = 0
          /\ t'.stopped = t.stopped
      BY <2>1, <3>1 DEF TransportRecord
    <3>3. Heard
      BY <2>1, <3>1, <3>2 DEF Heard
    <3> QED
      BY <1>0, <3>2, <3>3 DEF TInv
  <2>3. CASE t.conn # "closed"
    <3>1. t' = [t EXCEPT !.at = "closing", !.conn = "closed"] /\ out' = <<>>
      BY <1>10, <2>3 DEF WtDrained
    <3>2. t' \in TransportRecord /\ t'.phase = t.phase /\ t'.stopped = t.stopped
          /\ t'.reading = 0
      BY <2>1, <3>1 DEF TransportRecord
    <3>3. t.phase = "ended" => t.stopped
      BY <1>10 DEF WtDrained, TInv
    <3>4. Heard
      BY <3>1, <3>2 DEF Heard
    <3> QED
      BY <1>0, <2>1, <3>2, <3>3, <3>4 DEF TInv
  <2> QED
    BY <2>2, <2>3
<1>11. CASE WtClosed
  <2>1. PICK e \in {Done, Failed} :
          Finish([t EXCEPT !.at = "left", !.stopped = @ \/ e = Failed], e)
    BY <1>11 DEF WtClosed
  <2> DEFINE failed == e = Failed
  <2>2. t.phase # "new" /\ t \in TransportRecord /\ t.reading = 0
    BY <1>11 DEF WtClosed, TInv, TransportRecord, Created
  <2>3. /\ t' = [[t EXCEPT !.at = "left", !.stopped = @ \/ failed] EXCEPT !.phase = "ended"]
        /\ out' = (IF t.phase = "ended" THEN <<>> ELSE e)
    BY <2>1, <2>2, ZenonT(60) DEF TransportRecord
  <2>4. failed \in BOOLEAN
    OBVIOUS
  <2> HIDE DEF failed
  <2>5. t' \in TransportRecord /\ t'.phase = "ended" /\ t'.at = "left" /\ t'.reading = 0
        /\ (t.stopped => t'.stopped)
    BY <2>2, <2>3, <2>4 DEF TransportRecord
  <2>6. Heard
    BY <2>2, <2>3, <2>5 DEF Heard, TransportRecord
  <2> QED
    BY <1>0, <2>5, <2>6 DEF TInv
<1> QED
  BY <1>1, <1>2, <1>3, <1>4, <1>5, <1>6, <1>7, <1>8, <1>9, <1>10, <1>11 DEF WtNext

\* WebRtcTransport keeps TInv, and its caller hears what is allowed.
LEMMA RtcMoves ==
  ASSUME TInv, kind = "webrtc", RtcNext
  PROVE  TInv' /\ Heard
<1> USE DEF Become, Finish
<1>0. kind' = kind
  BY DEF RtcNext, StartRefused, RtcStart, RtcOffered, RtcSignaled, RtcAnswered, RtcChannelOpens, RtcOpenFails, RtcContinues, RtcThrows, RtcChunk, RtcChannelError, RtcCloses, RtcClosed
<1>1. CASE StartRefused
  <2>1. t' \in TransportRecord
    BY <1>1 DEF TInv, TransportRecord, Created, StartRefused
  <2>2. Heard
    BY <1>1 DEF TInv, TransportRecord, Heard, Created, StartRefused
  <2> QED
    BY <1>1, <1>0, <2>1, <2>2 DEF TInv, TransportRecord, Created, StartRefused
<1>2. CASE RtcStart
  <2>1. t' \in TransportRecord
    BY <1>2 DEF TInv, TransportRecord, Created, RtcStart
  <2>2. Heard
    BY <1>2 DEF TInv, TransportRecord, Heard, Created, RtcStart
  <2> QED
    BY <1>2, <1>0, <2>1, <2>2 DEF TInv, TransportRecord, Created, RtcStart
<1>3. CASE RtcOffered
  <2>1. t' \in TransportRecord
    BY <1>3 DEF TInv, TransportRecord, Created, RtcOffered
  <2>2. Heard
    BY <1>3 DEF TInv, TransportRecord, Heard, Created, RtcOffered
  <2> QED
    BY <1>3, <1>0, <2>1, <2>2 DEF TInv, TransportRecord, Created, RtcOffered
<1>4. CASE RtcSignaled
  <2>1. t' \in TransportRecord
    BY <1>4 DEF TInv, TransportRecord, Created, RtcSignaled
  <2>2. Heard
    BY <1>4 DEF TInv, TransportRecord, Heard, Created, RtcSignaled
  <2> QED
    BY <1>4, <1>0, <2>1, <2>2 DEF TInv, TransportRecord, Created, RtcSignaled
<1>5. CASE RtcAnswered
  <2>1. t' \in TransportRecord
    BY <1>5 DEF TInv, TransportRecord, Created, RtcAnswered
  <2>2. Heard
    BY <1>5 DEF TInv, TransportRecord, Heard, Created, RtcAnswered
  <2> QED
    BY <1>5, <1>0, <2>1, <2>2 DEF TInv, TransportRecord, Created, RtcAnswered
<1>6. CASE RtcChannelOpens
  <2>1. t' \in TransportRecord
    BY <1>6 DEF TInv, TransportRecord, Created, RtcChannelOpens
  <2>2. Heard
    BY <1>6 DEF TInv, TransportRecord, Heard, Created, RtcChannelOpens
  <2> QED
    BY <1>6, <1>0, <2>1, <2>2 DEF TInv, TransportRecord, Created, RtcChannelOpens
<1>7. CASE RtcOpenFails
  <2>1. t' \in TransportRecord
    BY <1>7 DEF TInv, TransportRecord, Created, RtcOpenFails
  <2>2. Heard
    BY <1>7 DEF TInv, TransportRecord, Heard, Created, RtcOpenFails
  <2> QED
    BY <1>7, <1>0, <2>1, <2>2 DEF TInv, TransportRecord, Created, RtcOpenFails
<1>8. CASE RtcContinues
  <2>1. t' \in TransportRecord
    BY <1>8 DEF TInv, TransportRecord, Created, RtcContinues
  <2>2. Heard
    BY <1>8 DEF TInv, TransportRecord, Heard, Created, RtcContinues
  <2> QED
    BY <1>8, <1>0, <2>1, <2>2 DEF TInv, TransportRecord, Created, RtcContinues
<1>9. CASE RtcThrows
  <2>1. t' \in TransportRecord
    BY <1>9 DEF TInv, TransportRecord, Created, RtcThrows, RtcReleased
  <2>2. Heard
    BY <1>9 DEF TInv, TransportRecord, Heard, Created, RtcThrows, RtcReleased
  <2> QED
    BY <1>9, <1>0, <2>1, <2>2 DEF TInv, TransportRecord, Created, RtcThrows, RtcReleased
<1>10. CASE RtcChunk
  <2>1. t \in TransportRecord /\ t.phase = "open" /\ ~t.stopped
    BY <1>10 DEF TInv, TransportRecord, Created, RtcChunk
  <2>2. CASE Exhausted
    <3>1. t' \in TransportRecord /\ t'.phase = "ended" /\ t'.stopped /\ out' = Failed
      BY <1>10, <2>1, <2>2, ZenonT(60) DEF RtcChunk, RtcStopped, RtcReleased, TransportRecord
    <3>2. Heard
      BY <2>1, <3>1 DEF Heard
    <3> QED
      BY <1>0, <3>1, <3>2 DEF TInv
  <2>3. CASE ~Exhausted
    <3> DEFINE more == OneMore(t)
    <3>1. more \in TransportRecord /\ more.phase = "open" /\ ~more.stopped /\ more.at = t.at
          /\ more.conn = t.conn
      BY <2>1, <2>3, Counts DEF Exhausted, OneMore, TransportRecord
    <3>2. (t' = more \/ t' = RtcStopped(more)) /\ out' = <<"chunk">>
      BY <1>10, <2>3 DEF RtcChunk
    <3> HIDE DEF more
    <3>3. t' \in TransportRecord /\ t'.phase = "open" /\ (t'.stopped \/ t' = more)
      BY <3>1, <3>2 DEF RtcStopped, RtcReleased, TransportRecord
    <3>4. Heard
      BY <2>1, <3>2, <3>3 DEF Heard
    <3> QED
      BY <1>0, <2>1, <3>1, <3>3, <3>4 DEF TInv
  <2> QED
    BY <2>2, <2>3
<1>11. CASE RtcChannelError
  <2>1. t' \in TransportRecord
    BY <1>11 DEF TInv, TransportRecord, Created, RtcChannelError, RtcStopped, RtcReleased
  <2>2. Heard
    BY <1>11 DEF TInv, TransportRecord, Heard, Created, RtcChannelError, RtcStopped, RtcReleased
  <2> QED
    BY <1>11, <1>0, <2>1, <2>2 DEF TInv, TransportRecord, Created, RtcChannelError, RtcStopped, RtcReleased
<1>12. CASE RtcCloses
  <2>1. t' \in TransportRecord
    BY <1>12, ZenonT(60) DEF TInv, TransportRecord, Created, RtcCloses, RtcReleased
  <2>2. Heard
    BY <1>12 DEF TInv, TransportRecord, Heard, Created, RtcCloses, RtcReleased
  <2> QED
    BY <1>12, <1>0, <2>1, <2>2 DEF TInv, TransportRecord, Created, RtcCloses, RtcReleased
<1>13. CASE RtcClosed
  <2>1. t' \in TransportRecord
    BY <1>13 DEF TInv, TransportRecord, Created, RtcClosed
  <2>2. Heard
    BY <1>13 DEF TInv, TransportRecord, Heard, Created, RtcClosed
  <2> QED
    BY <1>13, <1>0, <2>1, <2>2 DEF TInv, TransportRecord, Created, RtcClosed
<1> QED
  BY <1>1, <1>2, <1>3, <1>4, <1>5, <1>6, <1>7, <1>8, <1>9, <1>10, <1>11, <1>12, <1>13 DEF RtcNext

\* stop() keeps TInv, and tells a WebSocket's caller at once that it ended.
LEMMA StopMoves ==
  ASSUME TInv, Stop
  PROVE  TInv' /\ Heard /\ (kind = "fetch" => ReadsStop)
<1>1. kind' = kind /\ t.phase # "new" /\ t.phase \in {"open", "ended"} /\ t' = Stopped
      /\ t \in TransportRecord
  BY DEF Stop, Become, TInv, TransportRecord
<1>2. CASE kind = "fetch"
  <2>1. t' \in TransportRecord /\ t'.phase = t.phase /\ t'.ready = t.ready
    BY <1>1, <1>2, ZenonT(60) DEF Stopped, FetchStopped, TransportRecord
  <2>2. Heard
    BY <1>1, <1>2, <2>1 DEF Stop, Become, Stopped, FetchStopped, Heard, TransportRecord
  <2>3. t'.phase = "open" => t'.conn = "aborting" /\ ~t'.timedOut
    <3>1. t' = FetchStopped(t)
      BY <1>1, <1>2 DEF Stopped
    <3>2. t.phase = "open" => t.conn \in {"opening", "open", "aborting"}
      BY <1>2 DEF TInv
    <3> QED
      BY <1>1, <2>1, <3>1, <3>2 DEF FetchStopped, TransportRecord
  <2> QED
    BY <1>1, <1>2, <2>1, <2>2, <2>3 DEF TInv, ReadsStop
<1>3. CASE kind = "websocket"
  <2>1. t' \in TransportRecord /\ t'.phase = "ended" /\ t'.stopped /\ t'.at = "connected"
    BY <1>1, <1>3 DEF Stopped, WsStopped, TransportRecord
  <2>2. Heard
    BY <1>1, <1>3, <2>1 DEF Stop, Become, Heard
  <2> QED
    BY <1>1, <1>3, <2>1, <2>2 DEF TInv
<1>4. CASE kind = "webtransport"
  <2>1. t' \in TransportRecord /\ t'.phase = t.phase /\ t'.stopped /\ t'.at = t.at
        /\ t'.reading = t.reading
    BY <1>1, <1>4 DEF Stopped, WtStopped, TransportRecord
  <2>2. Heard
    BY <1>1, <1>4, <2>1 DEF Stop, Become, Heard
  <2> QED
    BY <1>1, <1>4, <2>1, <2>2 DEF TInv
<1>5. CASE kind = "webrtc"
  <2>1. t' \in TransportRecord /\ t'.phase = t.phase /\ t'.stopped
    BY <1>1, <1>5, ZenonT(60) DEF Stopped, RtcStopped, RtcReleased, TransportRecord
  <2>2. Heard
    BY <1>1, <1>5, <2>1 DEF Stop, Become, Heard
  <2> QED
    BY <1>1, <1>5, <2>1, <2>2 DEF TInv
<1> QED
  BY <1>2, <1>3, <1>4, <1>5 DEF TInv, Kinds

\* The other three transports never wait in a fulfilled read.
LEMMA NoReadsMoves ==
  ASSUME TInv, NoReads, Next
  PROVE  NoReads' /\ (kind # "fetch" => ReadsStop)
<1> USE DEF Become, Finish, NoReads, ReadsStop
<1>1. CASE kind = "fetch"
  BY <1>1, FetchMoves DEF TInv, Next, Stop, FetchNext, StartRefused, FetchStart, FetchAnswers,
     FetchRefuses, FetchEmpty, FetchReads, FetchChunk, FetchEnds, FetchFails, FetchTimer,
     FetchRejected, FetchRetries
<1>2. CASE kind = "websocket" /\ WsNext
  BY <1>2 DEF TInv, TransportRecord, WsNext, StartRefused, WsStart, WsReconnects, WsOpens,
     WsMessage, WsBlob, WsBlobRead, WsBlobFails, WsCloses, WsTimer, WsFinish, WsConnect,
     WsDeliver, WsStopped, OneMore
<1>3. CASE kind = "webtransport" /\ WtNext
  BY <1>3 DEF TInv, TransportRecord, WtNext, StartRefused, WtStart, WtReady, WtAccept,
     WtLeave, WtAwaitFails, WtChunk, WtStreamDone, WtStreamFails, WtDrained, WtClosed,
     WtStopped, OneMore
<1>4. CASE kind = "webrtc" /\ RtcNext
  BY <1>4 DEF TInv, TransportRecord, RtcNext, StartRefused, RtcStart, RtcOffered, RtcSignaled,
     RtcAnswered, RtcChannelOpens, RtcOpenFails, RtcContinues, RtcThrows, RtcChunk,
     RtcChannelError, RtcCloses, RtcClosed, RtcStopped, RtcReleased, OneMore
<1>5. CASE kind # "fetch" /\ Stop
  BY <1>5 DEF TInv, Kinds, TransportRecord, Stop, Stopped, WsStopped, WtStopped, RtcStopped,
     RtcReleased
<1> QED
  BY <1>1, <1>2, <1>3, <1>4, <1>5 DEF Next, TInv, Kinds

LEMMA TInvInit == Init => TInv /\ NoReads /\ Input!Init
BY Counts DEF Init, TInv, NoReads, TransportRecord, Created, Kinds, Input!Init

LEMMA MovesTyped == TInv /\ NoReads /\ Next => TInv' /\ NoReads' /\ Heard /\ ReadsStop
BY FetchMoves, WsMoves, WtMoves, RtcMoves, StopMoves, NoReadsMoves DEF Next

LEMMA TInvStep ==
  TInv /\ NoReads /\ [Next]_vars => TInv' /\ NoReads' /\ [Input!Next]_(Input!vars)
<1> SUFFICES ASSUME TInv, NoReads, [Next]_vars
             PROVE  TInv' /\ NoReads' /\ [Input!Next]_(Input!vars)
  OBVIOUS
<1>1. CASE Next
  BY <1>1, MovesTyped, HeardAllowed
<1>2. CASE UNCHANGED vars
  BY <1>2 DEF vars, TInv, NoReads, Input!vars
<1> QED
  BY <1>1, <1>2

\* Whichever transport is chosen, its caller hears chunks until it stops or the
\* stream ends (and after a stop at most the chunk that had been read), then one end, with at most one error before it, for any size
\* limit, number of retries and number of concurrent readers (the interface of
\* transport-common.ts:189 that playback-session.ts:474 relies on).
THEOREM TransportsRefine == Spec => ImplementsStreamInput
BY TInvInit, TInvStep, PTL DEF Spec, ImplementsStreamInput, Input!Spec

\* What the caller hears in one step.
LEMMA HeardTyped ==
  ASSUME Heard
  PROVE  out' \in {<<>>, <<"chunk">>, <<"chunk">> \o Failed, Done, Failed}
BY DEF Heard, Done, Failed

\* The counters of every transport stay within its limits, whatever is retried,
\* read at a time or delivered, and no callback but these is made: the size
\* limit, the retries and the readers are never exceeded (transport.ts:209).
THEOREM TransportsTyped == Spec => []TypeOK
<1>1. Init => TypeOK
  BY TInvInit DEF TInv, TypeOK, Init
<1>2. TypeOK /\ TInv /\ NoReads /\ [Next]_vars => TypeOK'
  <2> SUFFICES ASSUME TypeOK, TInv, NoReads, [Next]_vars PROVE TypeOK'
    OBVIOUS
  <2>1. CASE Next
    BY <2>1, MovesTyped, HeardTyped DEF TInv, TypeOK, Done, Failed
  <2>2. CASE UNCHANGED vars
    BY <2>2 DEF vars, TypeOK, Done, Failed
  <2> QED
    BY <2>1, <2>2
<1> QED
  BY <1>1, <1>2, TInvInit, TInvStep, PTL DEF Spec

-----------------------------------------------------------------------------
(* The arena of the demuxed units *)

Region == [used : BOOLEAN, generation : 1..LastGeneration, content : Nat]

\* The handle of what is in slot s.
At(s) == [slot |-> s, generation |-> slots[s].generation]

\* What the variables range over, with the shape of what the application holds.
Shape ==
  /\ slots \in Seq(Region) /\ freeSlots \in Seq(1..Len(slots))
  /\ nextGeneration \in 1..LastGeneration
  /\ last \in [Arena!Kinds -> Arena!Handles] /\ errored \in BOOLEAN
  /\ stored \in 0..MaxStores /\ instance \in 0..MaxResets
  /\ Len(slots) <= stored
  /\ \A g \in held : g.h \in Arena!Handles /\ g.h.slot > 0 /\ g.instance \in 0..instance

\* The free stack of some slots.
Exact(ss, fs) ==
  /\ \A a, b \in DOMAIN fs : fs[a] = fs[b] => a = b
  /\ \A s \in DOMAIN ss : ~ss[s].used <=> \E i \in DOMAIN fs : fs[i] = s

\* No generation of this arena is used twice.
Generations ==
  /\ \A s \in DOMAIN slots : slots[s].generation < nextGeneration
  /\ \A k \in Arena!Kinds : last[k].generation < nextGeneration
  /\ \A g \in held : g.instance = instance => g.h.generation < nextGeneration

\* A handle of this arena names one region for good.
Named ==
  \A g \in held, s \in DOMAIN slots :
    g.instance = instance /\ g.h = At(s) => slots[s].content = g.content

\* The last events: the application was given their handles, which differ, and
\* whatever is not occupied any more the application has released.
Given ==
  \A k \in Arena!Kinds : last[k] # Arena!NoHandle =>
    \E g \in held : /\ g.h = last[k] /\ g.instance = instance
                    /\ (\E s \in DOMAIN slots : last[k] = At(s) /\ slots[s].used)
                         \/ g.content \in dropped
Different == \A j, k \in Arena!Kinds : last[j] = last[k] /\ last[k] # Arena!NoHandle => j = k

\* Only they are occupied.
Few ==
  /\ \A s \in DOMAIN slots : slots[s].used => \E k \in Arena!Kinds : last[k] = At(s)
  /\ Len(slots) <= 3

IInv == Shape /\ Exact(slots, freeSlots) /\ Generations /\ Named /\ Given /\ Different /\ Few

-----------------------------------------------------------------------------
\* The arena of a demuxer needs a region for each kind of event.
LEMMA ThreeKinds == IsFiniteSet(Arena!Kinds) /\ Cardinality(Arena!Kinds) = 3
<1>1. Cardinality({"config"}) = 1 /\ IsFiniteSet({"config"})
  BY FS_Singleton
<1>2. Cardinality({"config", "data"}) = 2 /\ IsFiniteSet({"config", "data"})
  <2>1. {"config", "data"} = {"config"} \cup {"data"} /\ "data" \notin {"config"}
    OBVIOUS
  <2> QED BY <1>1, <2>1, FS_AddElement
<1>3. Arena!Kinds = {"config", "data"} \cup {"metadata"} /\ "metadata" \notin {"config", "data"}
  BY DEF Arena!Kinds
<1> QED BY <1>2, <1>3, FS_AddElement

\* What Shape says of the two sequences, for the solvers.
LEMMA ShapeFacts ==
  ASSUME Shape
  PROVE  /\ DOMAIN slots = 1..Len(slots) /\ Len(slots) \in Nat
         /\ \A s \in DOMAIN slots : slots[s] \in Region
         /\ DOMAIN freeSlots = 1..Len(freeSlots) /\ Len(freeSlots) \in Nat
         /\ \A i \in DOMAIN freeSlots : freeSlots[i] \in DOMAIN slots
BY DEF Shape

\* validate() accepts the handle of what is in an occupied slot, and nothing else.
LEMMA Valid ==
  ASSUME Shape, NEW h \in Arena!Handles
  PROVE  Arena!Validate(h) = "ok" <=> \E s \in DOMAIN slots : h = At(s) /\ slots[s].used
<1>1. \A s \in DOMAIN slots : h = At(s) <=> h.slot = s /\ h.generation = slots[s].generation
  BY DEF Arena!Handles, At
<1> QED BY <1>1 DEF Arena!Validate

\* The invariant is strong enough.
LEMMA Enough == IInv => Arena!ArenaSafe
<1> SUFFICES ASSUME IInv PROVE Arena!ArenaSafe
  OBVIOUS
<1>0. Shape /\ Exact(slots, freeSlots) /\ Named /\ Given /\ Few
  BY DEF IInv
<1>1. Arena!TypeOK
  BY <1>0, ShapeFacts DEF Shape, Arena!TypeOK, Region
<1>2. Arena!FreeExact
  <2>1. Arena!IsInjective(freeSlots)
    BY <1>0 DEF Exact, Arena!IsInjective
  <2> QED BY <1>0, <2>1, ShapeFacts DEF Exact, Arena!FreeExact
<1>3. Arena!NoAliasing
  <2> SUFFICES ASSUME NEW g \in held, g.instance = instance, Arena!Validate(g.h) = "ok"
               PROVE  slots[g.h.slot].content = g.content
    BY DEF Arena!NoAliasing
  <2>1. PICK s \in DOMAIN slots : g.h = At(s)
    BY <1>0, Valid DEF Shape
  <2> QED BY <1>0, <2>1 DEF Named, At
<1>4. Arena!LastEventsReadable
  <2>1. ASSUME NEW s \in DOMAIN slots, slots[s].used PROVE \E k \in Arena!Kinds : last[k].slot = s
    <3>1. PICK k \in Arena!Kinds : last[k] = At(s)
      BY <1>0, <2>1 DEF Few
    <3> QED BY <3>1 DEF At
  <2>2. ASSUME NEW k \in Arena!Kinds, last[k] # Arena!NoHandle
        PROVE  Arena!Validate(last[k]) = "ok" \/ \E g \in held : g.h = last[k]
            /\ g.content \in dropped
    <3>1. last[k] \in Arena!Handles
      BY <1>0 DEF Shape
    <3> QED BY <1>0, <2>2, <3>1, Valid DEF Given
  <2>3. Arena!Cardinality(Arena!Kinds) = 3
    BY ThreeKinds DEF Arena!Cardinality, Cardinality
  <2> QED BY <1>0, <2>1, <2>2, <2>3 DEF Arena!LastEventsReadable, Few
<1> QED BY <1>1, <1>2, <1>3, <1>4 DEF Arena!ArenaSafe

-----------------------------------------------------------------------------
\* What is left when h has been released.
After(ss, fs, h) ==
  /\ ss \in Seq(Region) /\ Len(ss) = Len(slots) /\ fs \in Seq(1..Len(slots))
  /\ \A s \in 1..Len(slots) : /\ ss[s].generation = slots[s].generation
                              /\ ss[s].content = slots[s].content
                              /\ ss[s].used <=> slots[s].used /\ h # At(s)
  /\ Exact(ss, fs)

\* release() frees the region of its handle, if that is still there, and nothing else.
LEMMA Released ==
  ASSUME Shape, Exact(slots, freeSlots), NEW h \in Arena!Handles
  PROVE  After(Arena!Release(slots, freeSlots, h)[1], Arena!Release(slots, freeSlots, h)[2], h)
<1>0. /\ DOMAIN slots = 1..Len(slots) /\ Len(slots) \in Nat
      /\ \A s \in DOMAIN slots : slots[s] \in Region
      /\ DOMAIN freeSlots = 1..Len(freeSlots) /\ Len(freeSlots) \in Nat
      /\ \A i \in DOMAIN freeSlots : freeSlots[i] \in DOMAIN slots
      /\ slots \in Seq(Region) /\ freeSlots \in Seq(1..Len(slots))
  BY ShapeFacts DEF Shape
<1>1. CASE h = Arena!NoHandle \/ Arena!Validate(h) # "ok"
  <2>1. \A s \in DOMAIN slots : slots[s].used => h # At(s)
    BY <1>0, <1>1, Valid DEF Arena!NoHandle, At
  <2>2. Arena!Release(slots, freeSlots, h)[1] = slots
        /\ Arena!Release(slots, freeSlots, h)[2] = freeSlots
    BY <1>1 DEF Arena!Release
  <2> QED BY <1>0, <2>1, <2>2 DEF After
<1>2. CASE h # Arena!NoHandle /\ Arena!Validate(h) = "ok"
  <2>1. PICK n \in DOMAIN slots : h = At(n) /\ slots[n].used
    BY <1>2, Valid
  <2>2. h.slot = n /\ \A s \in DOMAIN slots : h = At(s) <=> s = n
    BY <2>1 DEF At
  <2> DEFINE ss == [slots EXCEPT ![n].used = FALSE]
             fs == Append(freeSlots, n)
  <2>3. Arena!Release(slots, freeSlots, h)[1] = ss /\ Arena!Release(slots, freeSlots, h)[2] = fs
    BY <1>2, <2>2 DEF Arena!Release
  <2>4. /\ ss \in Seq(Region) /\ Len(ss) = Len(slots) /\ DOMAIN ss = DOMAIN slots
        /\ \A s \in DOMAIN slots : ss[s] = IF s = n
             THEN [slots[s] EXCEPT !.used = FALSE] ELSE slots[s]
    <3> DEFINE e == [slots[n] EXCEPT !.used = FALSE]
    <3>1. e \in Region
      BY <1>0 DEF Region
    <3>2. ss = [slots EXCEPT ![n] = e]
      OBVIOUS
    <3>3. /\ ss \in Seq(Region) /\ Len(ss) = Len(slots)
          /\ \A s \in 1..Len(slots) : ss[s] = IF s = n THEN e ELSE slots[s]
      <4> HIDE DEF ss, e
      <4> QED BY <1>0, <3>1, <3>2, ExceptSeq
    <3>4. DOMAIN ss = DOMAIN slots
      BY <1>0
    <3> QED BY <1>0, <3>3, <3>4
  <2>5. \A s \in DOMAIN slots : /\ ss[s].generation = slots[s].generation
                                /\ ss[s].content = slots[s].content
                                /\ ss[s].used <=> slots[s].used /\ s # n
    BY <1>0, <2>4 DEF Region
  <2>6. /\ fs \in Seq(1..Len(slots)) /\ DOMAIN fs = 1..(Len(freeSlots) + 1)
        /\ \A i \in DOMAIN freeSlots : fs[i] = freeSlots[i]
        /\ fs[Len(freeSlots) + 1] = n
    BY <1>0
  <2>7. \A i \in DOMAIN freeSlots : freeSlots[i] # n
    BY <2>1 DEF Exact
  <2> HIDE DEF ss, fs
  <2>8. \A a, b \in DOMAIN fs : fs[a] = fs[b] => a = b
    BY <1>0, <2>6, <2>7, SMTT(30) DEF Exact
  <2>9. ASSUME NEW s \in DOMAIN ss PROVE ~ss[s].used <=> \E i \in DOMAIN fs : fs[i] = s
    <3>1. CASE s = n
      <4>1. Len(freeSlots) + 1 \in DOMAIN fs
        BY <1>0, <2>6
      <4> QED BY <2>4, <2>5, <2>6, <3>1, <4>1
    <3>2. CASE s # n
      <4>1. ~ss[s].used <=> \E i \in DOMAIN freeSlots : freeSlots[i] = s
        BY <2>4, <2>5, <3>2 DEF Exact
      <4>2. (\E i \in DOMAIN freeSlots : freeSlots[i] = s) <=> \E i \in DOMAIN fs : fs[i] = s
        <5>1. ASSUME NEW i \in DOMAIN fs, fs[i] = s PROVE i \in DOMAIN freeSlots /\ freeSlots[i] = s
          BY <1>0, <2>6, <3>2, <5>1
        <5>2. ASSUME NEW i \in DOMAIN freeSlots, freeSlots[i] = s PROVE i \in DOMAIN fs /\ fs[i] = s
          BY <1>0, <2>6, <5>2
        <5> QED BY <5>1, <5>2
      <4> QED BY <4>1, <4>2
    <3> QED BY <3>1, <3>2
  <2>10. Exact(ss, fs)
    BY <2>8, <2>9 DEF Exact
  <2> QED BY <1>0, <2>2, <2>3, <2>4, <2>5, <2>6, <2>10 DEF After
<1> QED BY <1>1, <1>2

\* An event without a region, or an error.
LEMMA EmptyStep ==
  ASSUME Arena!ArenaAssumption, IInv, NEW ss, NEW fs, NEW k \in Arena!Kinds, After(ss, fs, last[k]),
         slots' = ss, freeSlots' = fs, last' = [last EXCEPT ![k] = Arena!NoHandle],
             errored' \in BOOLEAN,
         UNCHANGED <<nextGeneration, stored, held, instance, dropped>>
  PROVE  IInv'
<1>0. Shape /\ Exact(slots, freeSlots) /\ Generations /\ Named /\ Given /\ Different /\ Few
  BY DEF IInv
<1>1. /\ DOMAIN slots = 1..Len(slots) /\ Len(slots) \in Nat
      /\ Len(slots') = Len(slots) /\ DOMAIN slots' = DOMAIN slots
      /\ \A s \in DOMAIN slots : /\ slots'[s].generation = slots[s].generation
                                 /\ slots'[s].content = slots[s].content
                                 /\ slots'[s].used <=> slots[s].used /\ last[k] # At(s)
  BY <1>0, ShapeFacts DEF After
<1>2. \A s \in DOMAIN slots : At(s)' = At(s)
  BY <1>1 DEF At
<1>3. /\ \A j \in Arena!Kinds : last'[j] = IF j = k THEN Arena!NoHandle ELSE last[j]
      /\ Arena!NoHandle \in Arena!Handles /\ last' \in [Arena!Kinds -> Arena!Handles]
  <2>1. Arena!NoHandle \in Arena!Handles
    BY DEF Arena!NoHandle, Arena!Handles, Arena!ArenaAssumption
  <2>2. last \in [Arena!Kinds -> Arena!Handles]
    BY <1>0 DEF Shape
  <2> QED BY <2>1, <2>2, Zenon
<1>4. Shape'
  BY <1>0, <1>1, <1>3 DEF Shape, After
<1>5. Exact(slots, freeSlots)'
  BY DEF After
<1>6. Generations'
  <2>1. \A j \in Arena!Kinds : last'[j].generation < nextGeneration
    <3>1. Arena!NoHandle.generation < nextGeneration
      BY <1>0 DEF Arena!NoHandle, Shape
    <3> QED BY <1>0, <1>3, <3>1 DEF Generations
  <2> QED BY <1>0, <1>1, <2>1 DEF Generations
<1>7. Named'
  BY <1>0, <1>1, <1>2 DEF Named
<1>8. Given'
  <2> SUFFICES ASSUME NEW j \in Arena!Kinds, last'[j] # Arena!NoHandle
               PROVE  \E g \in held : /\ g.h = last'[j] /\ g.instance = instance
                                      /\ (\E s \in DOMAIN slots : last'[j] = At(s) /\ slots'[s].used) \/ g.content \in dropped
    BY <1>1, <1>2 DEF Given
  <2>1. j # k /\ last'[j] = last[j]
    BY <1>3
  <2>2. last[j] # last[k]
    BY <1>0, <2>1 DEF Different
  <2>3. PICK g \in held : /\ g.h = last[j] /\ g.instance = instance
                          /\ (\E s \in DOMAIN slots : last[j] = At(s) /\ slots[s].used)
                               \/ g.content \in dropped
    BY <1>0, <2>1 DEF Given
  <2>4. ASSUME NEW s \in DOMAIN slots, last[j] = At(s), slots[s].used PROVE slots'[s].used
    BY <1>1, <2>2, <2>4
  <2> QED BY <2>1, <2>3, <2>4, Zenon
<1>9. Different'
  BY <1>0, <1>3 DEF Different
<1>10. Few'
  BY <1>0, <1>1, <1>2, <1>3 DEF Few
<1> QED BY <1>4, <1>5, <1>6, <1>7, <1>8, <1>9, <1>10 DEF IInv

\* The application releases a region that it was given.
LEMMA ReleaseStep ==
  ASSUME IInv, NEW g \in held, Arena!ReleaseRegion(g)
  PROVE  IInv'
<1>0. Shape /\ Exact(slots, freeSlots) /\ Generations /\ Named /\ Given /\ Different /\ Few
  BY DEF IInv
<1>1. g.h \in Arena!Handles
  BY <1>0 DEF Shape
<1>2. After(slots', freeSlots', g.h)
  BY <1>0, <1>1, Released DEF Arena!ReleaseRegion
<1>3. /\ last' = last /\ held' = held /\ instance' = instance /\ nextGeneration' = nextGeneration
      /\ errored' = errored /\ stored' = stored
  BY DEF Arena!ReleaseRegion
<1>4. /\ DOMAIN slots = 1..Len(slots) /\ Len(slots) \in Nat
      /\ Len(slots') = Len(slots) /\ DOMAIN slots' = DOMAIN slots
      /\ \A s \in DOMAIN slots : /\ slots'[s].generation = slots[s].generation
                                 /\ slots'[s].content = slots[s].content
                                 /\ slots'[s].used <=> slots[s].used /\ g.h # At(s)
  BY <1>0, <1>2, ShapeFacts DEF After
<1>5. \A s \in DOMAIN slots : At(s)' = At(s)
  BY <1>4 DEF At
<1>6. Shape'
  BY <1>0, <1>2, <1>3, <1>4 DEF Shape, After
<1>7. Exact(slots, freeSlots)'
  BY <1>2 DEF After
<1>8. Generations'
  BY <1>0, <1>3, <1>4 DEF Generations
<1>9. Named'
  BY <1>0, <1>3, <1>4, <1>5 DEF Named
<1>10. Given'
  <2> SUFFICES ASSUME NEW j \in Arena!Kinds, last[j] # Arena!NoHandle
               PROVE  \E x \in held : /\ x.h = last[j] /\ x.instance = instance
                                      /\ (\E s \in DOMAIN slots : last[j] = At(s) /\ slots'[s].used) \/ x.content \in dropped'
    BY <1>3, <1>4, <1>5 DEF Given
  <2>1. PICK x \in held : /\ x.h = last[j] /\ x.instance = instance
                          /\ (\E s \in DOMAIN slots : last[j] = At(s) /\ slots[s].used)
                               \/ x.content \in dropped
    BY <1>0 DEF Given
  <2>2. CASE x.content \in dropped
    <3>1. dropped \subseteq dropped'
      BY DEF Arena!ReleaseRegion
    <3> QED BY <2>1, <2>2, <3>1, Zenon
  <2>3. ASSUME NEW s \in DOMAIN slots, last[j] = At(s), slots[s].used
        PROVE  slots'[s].used \/ x.content \in dropped'
    <3>1. CASE g.h # At(s)
      BY <1>4, <2>3, <3>1
    <3>2. CASE g.h = At(s)
      <4>1. Arena!Validate(g.h) = "ok" /\ g.h.slot = s
        BY <1>0, <1>1, <2>3, <3>2, Valid DEF At
      <4>2. slots[s].content = x.content
        BY <1>0, <2>1, <2>3, Zenon DEF Named
      <4>3. dropped' = dropped \cup {slots[g.h.slot].content}
        BY <4>1 DEF Arena!ReleaseRegion
      <4> QED BY <4>1, <4>2, <4>3
    <3> QED BY <3>1, <3>2
  <2> QED BY <2>1, <2>2, <2>3
<1>11. Different'
  BY <1>0, <1>3 DEF Different
<1>12. Few'
  BY <1>0, <1>3, <1>4, <1>5 DEF Few
<1> QED BY <1>6, <1>7, <1>8, <1>9, <1>10, <1>11, <1>12 DEF IInv

\* What store() makes of the slots and of the free stack.
LEMMA Stored ==
  ASSUME Arena!ArenaAssumption, Shape, NEW ss, NEW fs, NEW h, After(ss, fs, h), Arena!Store(ss, fs),
         nextGeneration # LastGeneration, stored < MaxStores, NEW n, n = Arena!NextSlot(ss, fs)
  PROVE  /\ slots' \in Seq(Region) /\ freeSlots' \in Seq(1..Len(slots'))
         /\ Exact(slots, freeSlots)'
         /\ \/ Len(slots') = Len(slots) /\ n \in DOMAIN slots /\ ~ss[n].used
            \/ Len(slots') = Len(slots) + 1 /\ n = Len(slots) + 1
                 /\ \A s \in DOMAIN slots : ss[s].used
         /\ \A s \in DOMAIN slots' :
              slots'[s] = IF s = n THEN [used |-> TRUE, generation |-> nextGeneration,
                                         content |-> stored + 1]
                                   ELSE ss[s]
<1> DEFINE region == [used |-> TRUE, generation |-> nextGeneration, content |-> stored + 1]
<1>0. /\ DOMAIN slots = 1..Len(slots) /\ Len(slots) \in Nat
      /\ ss \in Seq(Region) /\ Len(ss) = Len(slots) /\ DOMAIN ss = DOMAIN slots
      /\ fs \in Seq(1..Len(slots)) /\ DOMAIN fs = 1..Len(fs) /\ Len(fs) \in Nat
      /\ \A i \in DOMAIN fs : fs[i] \in DOMAIN slots
      /\ Exact(ss, fs)
  BY ShapeFacts DEF After
<1>1. region \in Region /\ region.used
  BY DEF Shape, Region, Arena!ArenaAssumption
<1>2. CASE fs = <<>>
  <2>1. slots' = Append(ss, region) /\ freeSlots' = fs /\ n = Len(slots) + 1
    BY <1>0, <1>2 DEF Arena!Store, Arena!NextSlot
  <2>2. /\ slots' \in Seq(Region) /\ Len(slots') = Len(slots) + 1
        /\ \A s \in DOMAIN slots : slots'[s] = ss[s]
        /\ slots'[n] = region
    <3> HIDE DEF region
    <3> QED BY <1>0, <1>1, <2>1, AppendProperties
  <2>3. DOMAIN slots' = 1..(Len(slots) + 1)
    BY <2>2
  <2>4. \A s \in DOMAIN slots : ss[s].used
    BY <1>0, <1>2 DEF Exact
  <2>5. \A s \in DOMAIN slots' : slots'[s] = IF s = n THEN region ELSE ss[s]
    BY <1>0, <2>1, <2>2, <2>3
  <2>6. \A s \in DOMAIN slots' : slots'[s].used
    <3> HIDE DEF region
    <3> QED BY <1>0, <1>1, <2>1, <2>3, <2>4, <2>5
  <2>7. Exact(slots, freeSlots)'
    BY <1>2, <2>1, <2>6 DEF Exact
  <2>8. freeSlots' \in Seq(1..Len(slots'))
    BY <1>2, <2>1
  <2> QED BY <2>1, <2>2, <2>4, <2>5, <2>7, <2>8
<1>3. CASE fs # <<>>
  <2>0. Len(fs) > 0 /\ Len(fs) \in DOMAIN fs
    BY <1>0, <1>3
  <2>1. slots' = [ss EXCEPT ![n] = region] /\ n = fs[Len(fs)]
        /\ freeSlots' = SubSeq(fs, 1, Len(fs) - 1)
    BY <1>3 DEF Arena!Store, Arena!NextSlot, Arena!Last, Arena!Front
  <2>2. n \in DOMAIN slots
    BY <1>0, <2>0, <2>1
  <2>3. ~ss[n].used
    BY <1>0, <2>0, <2>1, <2>2 DEF Exact
  <2>4. /\ slots' \in Seq(Region) /\ Len(slots') = Len(slots)
        /\ \A s \in DOMAIN slots : slots'[s] = IF s = n THEN region ELSE ss[s]
    <3> HIDE DEF region
    <3> QED BY <1>0, <1>1, <2>1, <2>2, ExceptSeq
  <2>5. DOMAIN slots' = DOMAIN slots
    BY <1>0, <2>4
  <2>6. /\ freeSlots' \in Seq(1..Len(slots)) /\ DOMAIN freeSlots' = 1..(Len(fs) - 1)
        /\ \A i \in 1..(Len(fs) - 1) : freeSlots'[i] = fs[i]
    BY <1>0, <2>0, <2>1
  <2>a. ASSUME NEW i \in DOMAIN freeSlots' PROVE i \in DOMAIN fs /\ freeSlots'[i] = fs[i]
    <3>1. i \in Int /\ 1 <= i /\ i <= Len(fs) - 1
      BY <1>0, <2>6
    <3> QED BY <1>0, <2>6, <3>1
  <2>7. \A a, b \in DOMAIN freeSlots' : freeSlots'[a] = freeSlots'[b] => a = b
    BY <1>0, <2>a DEF Exact
  <2>8. ASSUME NEW s \in DOMAIN slots'
        PROVE ~slots'[s].used <=> \E i \in DOMAIN freeSlots' : freeSlots'[i] = s
    <3>1. CASE s = n
      <4>1. \A i \in DOMAIN freeSlots' : freeSlots'[i] # n
        BY <1>0, <2>0, <2>1, <2>6, SMTT(30) DEF Exact
      <4> HIDE DEF region
      <4> QED BY <1>1, <2>4, <2>5, <3>1, <4>1
    <3>2. CASE s # n
      <4>1. ~slots'[s].used <=> \E i \in DOMAIN fs : fs[i] = s
        BY <1>0, <2>4, <2>5, <3>2 DEF Exact
      <4>2. ASSUME NEW i \in DOMAIN fs, fs[i] = s PROVE i \in DOMAIN freeSlots' /\ freeSlots'[i] = s
        BY <1>0, <2>0, <2>1, <2>6, <3>2, <4>2
      <4>3. ASSUME NEW i \in DOMAIN freeSlots', freeSlots'[i] = s PROVE i \in DOMAIN fs /\ fs[i] = s
        BY <2>a, <4>3
      <4> QED BY <4>1, <4>2, <4>3
    <3> QED BY <3>1, <3>2
  <2> QED BY <2>2, <2>3, <2>4, <2>5, <2>6, <2>7, <2>8 DEF Exact
<1> QED BY <1>2, <1>3

\* The arena grows only while the other two kinds occupy all of it.
LEMMA RoomForOne ==
  ASSUME Shape, Few, NEW k \in Arena!Kinds, \A s \in DOMAIN slots : slots[s].used /\ last[k] # At(s)
  PROVE  Len(slots) <= 2
<1> SUFFICES ASSUME Len(slots) > 2 PROVE FALSE
  BY ShapeFacts
<1>1. 1 \in DOMAIN slots /\ 2 \in DOMAIN slots /\ 3 \in DOMAIN slots
  BY ShapeFacts
<1>2. PICK a \in Arena!Kinds : last[a] = At(1)
  BY <1>1 DEF Few
<1>3. PICK b \in Arena!Kinds : last[b] = At(2)
  BY <1>1 DEF Few
<1>4. PICK c \in Arena!Kinds : last[c] = At(3)
  BY <1>1 DEF Few
<1>5. At(1) # At(2) /\ At(1) # At(3) /\ At(2) # At(3)
  BY DEF At
<1>6. a # k /\ b # k /\ c # k /\ a # b /\ a # c /\ b # c
  BY <1>1, <1>2, <1>3, <1>4, <1>5
<1> QED BY <1>6 DEF Arena!Kinds

\* An event that is stored.
LEMMA StoreStep ==
  ASSUME Arena!ArenaAssumption, IInv, NEW ss, NEW fs, NEW k \in Arena!Kinds,
         After(ss, fs, last[k]), Arena!Store(ss, fs),
         nextGeneration # LastGeneration, stored < MaxStores,
         NEW n, n = Arena!NextSlot(ss, fs),
         NEW h, h = [slot |-> n, generation |-> nextGeneration],
         last' = [last EXCEPT ![k] = h],
         held' = held \cup {[h |-> h, content |-> stored + 1, instance |-> instance]},
         UNCHANGED <<errored, instance, dropped>>
  PROVE  IInv'
<1> DEFINE region == [used |-> TRUE, generation |-> nextGeneration, content |-> stored + 1]
           new == [h |-> h, content |-> stored + 1, instance |-> instance]
<1>0. Shape /\ Exact(slots, freeSlots) /\ Generations /\ Named /\ Given /\ Different /\ Few
  BY DEF IInv
<1>1. /\ DOMAIN slots = 1..Len(slots) /\ Len(slots) \in Nat
      /\ \A s \in DOMAIN slots : /\ ss[s].generation = slots[s].generation
                                 /\ ss[s].content = slots[s].content
                                 /\ ss[s].used <=> slots[s].used /\ last[k] # At(s)
      /\ nextGeneration' = nextGeneration + 1 /\ stored' = stored + 1
      /\ nextGeneration \in Nat /\ nextGeneration > 0 /\ stored \in Nat
  <2>1. /\ nextGeneration' = nextGeneration + 1 /\ stored' = stored + 1
        /\ nextGeneration \in 1..LastGeneration /\ stored \in 0..MaxStores
    BY <1>0 DEF Arena!Store, Shape
  <2>2. /\ nextGeneration \in Nat /\ nextGeneration > 0 /\ stored \in Nat
    BY <2>1 DEF Arena!ArenaAssumption
  <2>3. DOMAIN slots = 1..Len(slots) /\ Len(slots) \in Nat
    BY <1>0, ShapeFacts
  <2> QED
    BY <2>1, <2>2, <2>3 DEF After
<1>2. /\ slots' \in Seq(Region) /\ freeSlots' \in Seq(1..Len(slots'))
      /\ Exact(slots, freeSlots)'
      /\ \/ Len(slots') = Len(slots) /\ n \in DOMAIN slots /\ ~ss[n].used
         \/ Len(slots') = Len(slots) + 1 /\ n = Len(slots) + 1 /\ \A s \in DOMAIN slots : ss[s].used
      /\ \A s \in DOMAIN slots' : slots'[s] = IF s = n THEN region ELSE ss[s]
  BY <1>0, Stored
<1>3. DOMAIN slots' = 1..Len(slots') /\ Len(slots') \in Nat
  BY <1>2
<1>4. /\ n \in DOMAIN slots' /\ n > 0 /\ n <= Len(slots')
      /\ \A s \in DOMAIN slots' : s # n => s \in DOMAIN slots
      /\ \A s \in DOMAIN slots : s \in DOMAIN slots'
  <2>1. CASE Len(slots') = Len(slots) /\ n \in DOMAIN slots
    BY <1>1, <1>3, <2>1
  <2>2. CASE Len(slots') = Len(slots) + 1 /\ n = Len(slots) + 1
    BY <1>1, <1>3, <2>2
  <2> QED BY <1>2, <2>1, <2>2
<1>5. Len(slots') <= 3 /\ Len(slots') <= stored'
  <2>1. CASE Len(slots') = Len(slots)
    BY <1>0, <1>1, <2>1 DEF Few, Shape
  <2>2. CASE Len(slots') = Len(slots) + 1 /\ \A s \in DOMAIN slots : ss[s].used
    <3>1. Len(slots) <= 2
      BY <1>0, <1>1, <2>2, RoomForOne
    <3> QED BY <1>0, <1>1, <2>2, <3>1 DEF Shape
  <2> QED BY <1>2, <2>1, <2>2
<1>6. h \in Arena!Handles /\ h.slot = n /\ h.generation = nextGeneration /\ h # Arena!NoHandle
  BY <1>0, <1>1, <1>3, <1>4, <1>5 DEF Arena!Handles, Arena!NoHandle, Shape, Arena!ArenaAssumption
<1>7. /\ \A j \in Arena!Kinds : last'[j] = IF j = k THEN h ELSE last[j]
      /\ last' \in [Arena!Kinds -> Arena!Handles]
  <2>1. last \in [Arena!Kinds -> Arena!Handles]
    BY <1>0 DEF Shape
  <2> QED BY <1>6, <2>1, Zenon
<1>8. /\ slots'[n] = region /\ At(n)' = h
      /\ \A s \in DOMAIN slots' : s # n => slots'[s] = ss[s] /\ At(s)' = At(s)
  BY <1>1, <1>2, <1>4 DEF At
<1>9. \A s \in DOMAIN slots : slots[s].used /\ last[k] # At(s) => s # n
  BY <1>1, <1>2
<1>10. Shape'
  <2>1. new.h = h /\ new.instance = instance
    OBVIOUS
  <2>2. \A g \in held' : g.h \in Arena!Handles /\ g.h.slot > 0 /\ g.instance \in 0..instance
    <3> HIDE DEF new
    <3>1. held' = held \cup {new}
      BY DEF new
    <3> QED BY <1>0, <1>4, <1>6, <2>1, <3>1 DEF Shape, Arena!ArenaAssumption
  <2>3. nextGeneration' \in 1..LastGeneration /\ stored' \in 0..MaxStores
    BY <1>0, <1>1 DEF Shape, Arena!ArenaAssumption
  <2> QED BY <1>0, <1>2, <1>5, <1>7, <2>2, <2>3 DEF Shape
<1>11. new \in held' /\ held \subseteq held' /\ \A g \in held' : g = new \/ g \in held
  OBVIOUS
<1>12. new.h = h /\ new.content = stored + 1 /\ new.instance = instance
  OBVIOUS
<1> HIDE DEF new
<1>13. Generations'
  <2>1. \A s \in DOMAIN slots' : slots'[s].generation < nextGeneration'
    BY <1>0, <1>1, <1>4, <1>8, ShapeFacts DEF Generations, Region
  <2>2. \A j \in Arena!Kinds : last'[j].generation < nextGeneration'
    BY <1>0, <1>1, <1>6, <1>7 DEF Generations, Shape, Arena!Handles
  <2>3. \A g \in held' : g.instance = instance => g.h.generation < nextGeneration'
    BY <1>0, <1>1, <1>6, <1>11, <1>12 DEF Generations, Shape, Arena!Handles
  <2> QED BY <2>1, <2>2, <2>3 DEF Generations
<1>14. Named'
  <2> SUFFICES ASSUME NEW g \in held', NEW s \in DOMAIN slots', g.instance = instance, g.h = At(s)'
               PROVE  slots'[s].content = g.content
    BY DEF Named
  <2>1. CASE s = n /\ g = new
    BY <1>8, <1>12, <2>1
  <2>2. CASE s = n /\ g # new
    <3>1. g.h.generation = nextGeneration /\ g \in held
      BY <1>6, <1>8, <1>11, <2>2
    <3> QED BY <1>0, <1>1, <3>1 DEF Generations
  <2>3. CASE s # n
    <3>1. g # new
      <4>1. At(s)'.slot = s
        BY DEF At
      <4> QED BY <1>6, <1>12, <2>3, <4>1
    <3>2. g \in held /\ s \in DOMAIN slots /\ g.h = At(s) /\ slots'[s].content = slots[s].content
      BY <1>1, <1>4, <1>8, <1>11, <2>3, <3>1
    <3> QED BY <1>0, <3>2 DEF Named
  <2> QED BY <2>1, <2>2, <2>3
<1>15. Given'
  <2> SUFFICES ASSUME NEW j \in Arena!Kinds, last'[j] # Arena!NoHandle
               PROVE  \E g \in held' :
                        /\ g.h = last'[j] /\ g.instance = instance
                        /\ (\E s \in DOMAIN slots' : last'[j] = At(s)' /\ slots'[s].used)
                             \/ g.content \in dropped
    BY DEF Given
  <2>1. CASE j = k
    <3>1. slots'[n].used
      BY <1>8
    <3> QED BY <1>4, <1>7, <1>8, <1>11, <1>12, <2>1, <3>1
  <2>2. CASE j # k
    <3>1. last'[j] = last[j] /\ last[j] # last[k]
      BY <1>0, <1>7, <2>2 DEF Different
    <3>2. PICK g \in held :
            /\ g.h = last[j] /\ g.instance = instance
            /\ (\E s \in DOMAIN slots : last[j] = At(s) /\ slots[s].used) \/ g.content \in dropped
      BY <1>0, <3>1 DEF Given
    <3>3. ASSUME NEW s \in DOMAIN slots, last[j] = At(s), slots[s].used
          PROVE  s \in DOMAIN slots' /\ last[j] = At(s)' /\ slots'[s].used
      <4>1. s # n /\ ss[s].used
        BY <1>1, <1>9, <3>1, <3>3
      <4> QED BY <1>4, <1>8, <3>3, <4>1
    <3> QED BY <1>11, <3>1, <3>2, <3>3
  <2> QED BY <2>1, <2>2
<1>16. Different'
  <2>1. \A j \in Arena!Kinds : last[j] # h
    BY <1>0, <1>1, <1>6 DEF Generations
  <2> QED BY <1>0, <1>7, <2>1 DEF Different
<1>17. Few'
  <2>1. ASSUME NEW s \in DOMAIN slots', slots'[s].used
        PROVE \E j \in Arena!Kinds : last'[j] = At(s)'
    <3>1. CASE s = n
      BY <1>7, <1>8, <3>1
    <3>2. CASE s # n
      <4>1. s \in DOMAIN slots /\ ss[s].used /\ At(s)' = At(s)
        BY <1>4, <1>8, <2>1, <3>2
      <4>2. slots[s].used /\ last[k] # At(s)
        BY <1>1, <4>1
      <4>3. PICK j \in Arena!Kinds : last[j] = At(s)
        BY <1>0, <4>1, <4>2 DEF Few
      <4> QED BY <1>7, <4>1, <4>2, <4>3
    <3> QED BY <3>1, <3>2
  <2> QED BY <1>5, <2>1 DEF Few
<1> QED BY <1>2, <1>10, <1>13, <1>14, <1>15, <1>16, <1>17 DEF IInv

-----------------------------------------------------------------------------
\* A new demuxer.
LEMMA Initially == ASSUME Arena!ArenaAssumption, Arena!Init PROVE IInv
<1>1. Arena!NoHandle \in Arena!Handles /\ Arena!NoHandle.generation = 0
  BY DEF Arena!NoHandle, Arena!Handles, Arena!ArenaAssumption
<1>2. last = [k \in Arena!Kinds |-> Arena!NoHandle]
      /\ \A k \in Arena!Kinds : last[k] = Arena!NoHandle
  BY DEF Arena!Init
<1>3. held = {} /\ nextGeneration = 1 /\ instance = 0 /\ stored = 0 /\ errored = FALSE
  BY DEF Arena!Init
<1>7. slots = <<>> /\ freeSlots = <<>>
  BY DEF Arena!Init
<1>4. Shape
  <2>1. slots \in Seq(Region) /\ Len(slots) = 0 /\ freeSlots \in Seq(1..Len(slots))
    BY <1>7
  <2>2. last \in [Arena!Kinds -> Arena!Handles]
    BY <1>1, <1>2
  <2>3. nextGeneration \in 1..LastGeneration /\ instance \in 0..MaxResets
        /\ stored \in 0..MaxStores /\ Len(slots) <= stored
    BY <1>3, <2>1 DEF Arena!ArenaAssumption
  <2>5. errored \in BOOLEAN
    BY <1>3
  <2>4. \A g \in held : g.h \in Arena!Handles /\ g.h.slot > 0 /\ g.instance \in 0..instance
    BY <1>3
  <2> QED BY <2>1, <2>2, <2>3, <2>4, <2>5 DEF Shape
<1>5. Exact(slots, freeSlots) /\ Named /\ Few
  BY <1>3, <1>7 DEF Exact, Named, Few
<1>6. Generations /\ Given /\ Different
  BY <1>1, <1>2, <1>3, <1>7 DEF Generations, Given, Different
<1> QED BY <1>4, <1>5, <1>6 DEF IInv

\* Every step keeps the invariant.
LEMMA NextStep == ASSUME Arena!ArenaAssumption, IInv, [Arena!Next]_(Arena!vars) PROVE IInv'
<1>0. Shape /\ Exact(slots, freeSlots) /\ Generations
  BY DEF IInv
<1>1. ASSUME NEW k \in Arena!Kinds, NEW empty \in BOOLEAN, Arena!NextEvent(k, empty) PROVE IInv'
  <2> DEFINE ss == Arena!Release(slots, freeSlots, last[k])[1]
             fs == Arena!Release(slots, freeSlots, last[k])[2]
             n == Arena!NextSlot(ss, fs)
             h == [slot |-> n, generation |-> nextGeneration]
  <2>1. After(ss, fs, last[k])
    BY <1>0, Released DEF Shape
  <2>2. CASE empty \/ nextGeneration = LastGeneration
    <3>1. /\ slots' = ss /\ freeSlots' = fs /\ last' = [last EXCEPT ![k] = Arena!NoHandle]
          /\ UNCHANGED <<nextGeneration, stored, held, instance, dropped>>
          /\ errored' = errored \/ errored' = TRUE
      BY <1>1, <2>2 DEF Arena!NextEvent
    <3>2. errored' \in BOOLEAN
      BY <1>0, <3>1 DEF Shape
    <3> HIDE DEF ss, fs
    <3> QED BY <2>1, <3>1, <3>2, EmptyStep
  <2>3. CASE ~(empty \/ nextGeneration = LastGeneration)
    <3>1. /\ stored < MaxStores /\ Arena!Store(ss, fs) /\ last' = [last EXCEPT ![k] = h]
          /\ held' = held \cup {[h |-> h, content |-> stored + 1, instance |-> instance]}
          /\ UNCHANGED <<errored, instance, dropped>>
      BY <1>1, <2>3 DEF Arena!NextEvent
    <3> HIDE DEF ss, fs, n, h
    <3>2. n = Arena!NextSlot(ss, fs) /\ h = [slot |-> n, generation |-> nextGeneration]
      BY DEF n, h
    <3> QED BY <2>1, <2>3, <3>1, <3>2, StoreStep
  <2> QED BY <2>2, <2>3
<1>2. CASE Arena!InnerError
  <2>1. errored' \in BOOLEAN
        /\ UNCHANGED <<slots, freeSlots, nextGeneration, instance, last, stored, held, dropped>>
    BY <1>2 DEF Arena!InnerError
  <2>2. Shape'
    BY <1>0, <2>1 DEF Shape
  <2> QED BY <2>1, <2>2
          DEF IInv, Exact, Generations, Named, Given, Different, Few, At
<1>3. CASE Arena!Reset
  <2>1. /\ slots' = <<>> /\ freeSlots' = <<>> /\ nextGeneration' = 1
        /\ last' = [k \in Arena!Kinds |-> Arena!NoHandle] /\ errored' = FALSE
        /\ instance < MaxResets /\ instance' = instance + 1
        /\ UNCHANGED <<stored, held, dropped>>
    BY <1>3 DEF Arena!Reset
  <2>2. Arena!NoHandle \in Arena!Handles /\ Arena!NoHandle.generation = 0
        /\ \A k \in Arena!Kinds : last'[k] = Arena!NoHandle
    BY <2>1 DEF Arena!NoHandle, Arena!Handles, Arena!ArenaAssumption
  <2>3. \A g \in held : g.instance # instance'
    BY <1>0, <2>1 DEF Shape, Arena!ArenaAssumption
  <2>4. Shape'
    <3>1. \A g \in held' : g.h \in Arena!Handles /\ g.h.slot > 0 /\ g.instance \in 0..instance'
      BY <1>0, <2>1 DEF Shape, Arena!ArenaAssumption
    <3>2. slots' \in Seq(Region) /\ Len(slots') = 0 /\ freeSlots' \in Seq(1..Len(slots'))
      BY <2>1
    <3>3. last' \in [Arena!Kinds -> Arena!Handles]
      BY <2>1, <2>2
    <3>4. nextGeneration' \in 1..LastGeneration /\ instance' \in 0..MaxResets
          /\ stored' \in 0..MaxStores /\ Len(slots') <= stored'
      BY <1>0, <2>1, <3>2 DEF Shape, Arena!ArenaAssumption
    <3> QED BY <2>1, <3>1, <3>2, <3>3, <3>4 DEF Shape
  <2>5. Exact(slots, freeSlots)' /\ Few'
    BY <2>1 DEF Exact, Few
  <2>6. Generations' /\ Given' /\ Different' /\ Named'
    BY <2>1, <2>2, <2>3 DEF Generations, Given, Different, Named
  <2> QED BY <2>4, <2>5, <2>6 DEF IInv
<1>4. ASSUME NEW g \in held, Arena!ReleaseRegion(g) PROVE IInv'
  BY <1>4, ReleaseStep
<1>5. CASE UNCHANGED Arena!vars
  BY <1>5 DEF Arena!vars, IInv, Shape, Exact, Generations, Named, Given, Different, Few, At
<1> QED BY <1>1, <1>2, <1>3, <1>4, <1>5 DEF Arena!Next

\* The arena of a demuxer never lets the application read anything but what it was
\* given, frees each slot once, and does not grow with the stream (arena.rs,
\* demux/mod.rs:115).
THEOREM ArenaCorrect == Arena!Spec => []ArenaSafe
<1>1. Arena!Init => IInv
  BY Initially, ArenaAssumption
<1>2. IInv /\ [Arena!Next]_(Arena!vars) => IInv'
  BY NextStep, ArenaAssumption
<1>3. IInv => ArenaSafe
  BY Enough, ArenaAssumption DEF ArenaSafe
<1> QED
  BY <1>1, <1>2, <1>3, PTL DEF Arena!Spec

-----------------------------------------------------------------------------
(* The GOP cache *)

HIDE TransportAssumption

GopRecords ==
  [generation : 0..MaxGeneration, start : Int, end : Int, packets : Seq(Nat), bytes : Nat,
   duration : Nat]
FedPackets == [key : BOOLEAN, time : Int, size : Nat]

\* The last packet of a group whose packets follow each other.
Newest(gop) == gop.packets[1] + Len(gop.packets) - 1

\* A group of the packets f: a key frame and what was fed after it.
Whole(gop, f) ==
  /\ Len(gop.packets) >= 1 /\ gop.packets[1] \in 1..Len(f) /\ f[gop.packets[1]].key
  /\ Newest(gop) <= Len(f)
  /\ \A k \in 2..Len(gop.packets) :
       gop.packets[k] = gop.packets[1] + k - 1 /\ ~f[gop.packets[k]].key

\* Groups of one generation, each after the one before.
InRow(q, f, g) ==
  /\ q \in Seq(GopRecords)
  /\ \A i \in 1..Len(q) : Whole(q[i], f) /\ q[i].generation = g
  /\ \A i \in 1..Len(q), j \in 1..Len(q) : i < j => Newest(q[i]) < q[j].packets[1]

GInv ==
  /\ gops \in Seq(GopRecords) /\ current \in Seq(GopRecords) /\ Len(current) <= 1
  /\ taken \in Seq(GopRecords) /\ \A i \in 1..Len(taken) : Whole(taken[i], fed)
  /\ generation \in 0..MaxGeneration /\ fed \in Seq(FedPackets) /\ Len(fed) <= MaxPackets
  /\ InRow(gops \o current, fed, generation) /\ Gop!Fits(gops \o current)
  /\ current # <<>> => Newest(current[1]) = Len(fed)

(* Sums *)

LEMMA GopAssumed ==
  /\ MaxBytes \in Nat /\ MaxFrames \in Nat /\ MaxDuration \in Nat
  /\ Sizes \subseteq Nat /\ Times \subseteq Int
  /\ MaxPackets \in Nat /\ MaxGeneration \in Nat
BY GopAssumption DEF Gop!GopAssumption

LEMMA SameCardinality == \A S : Gop!Cardinality(S) = Cardinality(S)
BY DEF Gop!Cardinality, Cardinality

LEMMA UnitsFinite ==
  ASSUME NEW n \in Nat, NEW f \in [1..n -> Nat]
  PROVE  IsFiniteSet(Gop!Units(f))
<1> DEFINE rows == {{i} \X (1..f[i]) : i \in 1..n}
           m == [i \in 1..n |-> {i} \X (1..f[i])]
<1>1. IsFiniteSet(1..n)
  BY FS_Interval
<1>2. m \in Surjection(1..n, rows)
  BY DEF Surjection
<1>3. IsFiniteSet(rows)
  <2> HIDE DEF m, rows
  <2> QED
    BY <1>1, <1>2, FS_Surjection
<1>4. ASSUME NEW i \in 1..n PROVE IsFiniteSet({i} \X (1..f[i]))
  <2>1. IsFiniteSet({i})
    BY FS_Singleton
  <2>2. 1 \in Int /\ f[i] \in Int
    OBVIOUS
  <2>3. IsFiniteSet(1..f[i])
    BY <2>2, FS_Interval
  <2> QED
    BY <2>1, <2>3, FS_Product
<1>5. \A T \in rows : IsFiniteSet(T)
  BY <1>4
<1>6. IsFiniteSet(UNION rows)
  <2> HIDE DEF rows
  <2> QED
    BY <1>3, <1>5, FS_UNION
<1>7. DOMAIN f = 1..n
  OBVIOUS
<1> QED
  BY <1>6, <1>7 DEF Gop!Units

LEMMA UnitIs ==
  ASSUME NEW n \in Nat, NEW f \in [1..n -> Nat], NEW u
  PROVE  u \in Gop!Units(f) <=> \E i \in 1..n : \E b \in 1..f[i] : u = <<i, b>>
<1>1. DOMAIN f = 1..n
  OBVIOUS
<1> QED
  BY <1>1 DEF Gop!Units

\* Of the n terms of f, the k terms of g are those that m names.
Chosen(g, k, f, n, m) ==
  /\ m \in [1..k -> 1..n] /\ \A i \in 1..k, j \in 1..k : m[i] = m[j] => i = j
  /\ \A j \in 1..k : g[j] = f[m[j]]

\* With fewer terms a sum is not larger.
LEMMA TotalThinned ==
  ASSUME NEW n \in Nat, NEW k \in Nat, NEW f \in [1..n -> Nat], NEW g \in [1..k -> Nat],
         NEW m, Chosen(g, k, f, n, m)
  PROVE  Gop!Total(g) <= Gop!Total(f) /\ Gop!Total(g) \in Nat /\ Gop!Total(f) \in Nat
<1>0. /\ m \in [1..k -> 1..n] /\ \A i \in 1..k, j \in 1..k : m[i] = m[j] => i = j
      /\ \A j \in 1..k : g[j] = f[m[j]]
  BY DEF Chosen
<1> DEFINE h == [u \in Gop!Units(g) |-> <<m[u[1]], u[2]>>]
<1>1. IsFiniteSet(Gop!Units(f)) /\ IsFiniteSet(Gop!Units(g))
  BY UnitsFinite
<1>2. ASSUME NEW u \in Gop!Units(g) PROVE h[u] \in Gop!Units(f)
  <2>1. PICK i \in 1..k : \E b \in 1..g[i] : u = <<i, b>>
    BY UnitIs
  <2>2. PICK b \in 1..g[i] : u = <<i, b>>
    BY <2>1
  <2>3. h[u] = <<m[i], b>> /\ b \in 1..f[m[i]] /\ m[i] \in 1..n
    BY <1>0, <2>2
  <2> QED
    BY <2>3, UnitIs
<1>3. ASSUME NEW u \in Gop!Units(g), NEW v \in Gop!Units(g), h[u] = h[v] PROVE u = v
  <2>1. PICK i \in 1..k, b \in Nat : u = <<i, b>>
    BY UnitIs
  <2>2. PICK j \in 1..k, c \in Nat : v = <<j, c>>
    BY UnitIs
  <2>3. h[u] = <<m[i], b>> /\ h[v] = <<m[j], c>>
    BY <2>1, <2>2
  <2>4. m[i] = m[j] /\ b = c
    BY <1>3, <2>3
  <2> QED
    BY <1>0, <2>1, <2>2, <2>4
<1>4. h \in Injection(Gop!Units(g), Gop!Units(f))
  <2>1. h \in [Gop!Units(g) -> Gop!Units(f)]
    BY <1>2
  <2> HIDE DEF h
  <2> QED
    BY <1>3, <2>1 DEF Injection, IsInjective
<1> HIDE DEF h
<1>5. Cardinality(Gop!Units(g)) <= Cardinality(Gop!Units(f))
  BY <1>1, <1>4, FS_Injection
<1> QED
  BY <1>1, <1>5, FS_CardinalityType, SameCardinality DEF Gop!Total

LEMMA NothingFits == Gop!Fits(<<>>)
<1> DEFINE none == [i \in DOMAIN <<>> |-> 0]
<1>1. /\ [i \in DOMAIN <<>> |-> <<>>[i].bytes] = none
      /\ [i \in DOMAIN <<>> |-> Len(<<>>[i].packets)] = none
      /\ [i \in DOMAIN <<>> |-> <<>>[i].duration] = none
  BY DOMAIN <<>> = {}
<1>2. Gop!Units(none) = {}
  BY DOMAIN none = {} DEF Gop!Units
<1>3. Gop!Total(none) = 0
  BY <1>2, FS_EmptySet, SameCardinality DEF Gop!Total
<1> HIDE DEF none
<1> QED
  BY <1>1, <1>3, GopAssumed DEF Gop!Fits, Gop!Bytes, Gop!Frames, Gop!Duration

\* What is left of groups within the limits is within them, and in order.
LEMMA Thinned ==
  ASSUME NEW q \in Seq(GopRecords), NEW p \in Seq(GopRecords),
         NEW m \in [1..Len(p) -> 1..Len(q)],
         \A i, j \in 1..Len(p) : i < j => m[i] < m[j],
         \A j \in 1..Len(p) : p[j] = q[m[j]],
         NEW f, NEW g
  PROVE  (InRow(q, f, g) => InRow(p, f, g)) /\ (Gop!Fits(q) => Gop!Fits(p))
<1>1. Len(p) \in Nat /\ Len(q) \in Nat /\ DOMAIN p = 1..Len(p) /\ DOMAIN q = 1..Len(q)
  OBVIOUS
<1>2. ASSUME NEW i \in 1..Len(p), NEW j \in 1..Len(p), m[i] = m[j] PROVE i = j
  <2>1. i \in Nat /\ j \in Nat /\ m[i] \in Nat /\ m[j] \in Nat
    BY <1>1
  <2>2. ~(i < j) /\ ~(j < i)
    BY <1>2, <2>1
  <2> QED
    BY <2>1, <2>2
<1>3. ASSUME InRow(q, f, g) PROVE InRow(p, f, g)
  <2>1. ASSUME NEW i \in 1..Len(p) PROVE Whole(p[i], f) /\ p[i].generation = g
    BY <1>3, m[i] \in 1..Len(q), p[i] = q[m[i]] DEF InRow
  <2>2. ASSUME NEW i \in 1..Len(p), NEW j \in 1..Len(p), i < j
        PROVE  Newest(p[i]) < p[j].packets[1]
    <3>1. m[i] \in 1..Len(q) /\ m[j] \in 1..Len(q) /\ m[i] < m[j]
      BY <2>2
    <3> QED
      BY <1>3, <3>1, p[i] = q[m[i]], p[j] = q[m[j]] DEF InRow
  <2> QED
    BY <2>1, <2>2 DEF InRow
<1>4. ASSUME NEW F \in [1..Len(q) -> Nat], NEW G \in [1..Len(p) -> Nat],
             \A j \in 1..Len(p) : G[j] = F[m[j]]
      PROVE  Gop!Total(G) <= Gop!Total(F) /\ Gop!Total(G) \in Nat /\ Gop!Total(F) \in Nat
  <2>1. Chosen(G, Len(p), F, Len(q), m)
    BY <1>2, <1>4 DEF Chosen
  <2> QED
    BY <1>1, <2>1, TotalThinned
<1>5. /\ \A i \in 1..Len(q) : q[i] \in GopRecords
      /\ \A i \in 1..Len(p) : p[i] \in GopRecords
  OBVIOUS
<1>6. \A x \in GopRecords : x.bytes \in Nat /\ Len(x.packets) \in Nat /\ x.duration \in Nat
  BY DEF GopRecords
<1>7. Gop!Bytes(p) <= Gop!Bytes(q) /\ Gop!Bytes(p) \in Nat /\ Gop!Bytes(q) \in Nat
  <2> DEFINE F == [i \in 1..Len(q) |-> q[i].bytes]
             G == [i \in 1..Len(p) |-> p[i].bytes]
  <2>1. F \in [1..Len(q) -> Nat] /\ G \in [1..Len(p) -> Nat] /\ \A j \in 1..Len(p) : G[j] = F[m[j]]
    BY <1>5, <1>6
  <2>2. Gop!Bytes(q) = Gop!Total(F) /\ Gop!Bytes(p) = Gop!Total(G)
    BY <1>1 DEF Gop!Bytes
  <2> HIDE DEF F, G
  <2> QED
    BY <1>4, <2>1, <2>2
<1>8. Gop!Frames(p) <= Gop!Frames(q) /\ Gop!Frames(p) \in Nat /\ Gop!Frames(q) \in Nat
  <2> DEFINE F == [i \in 1..Len(q) |-> Len(q[i].packets)]
             G == [i \in 1..Len(p) |-> Len(p[i].packets)]
  <2>1. F \in [1..Len(q) -> Nat] /\ G \in [1..Len(p) -> Nat] /\ \A j \in 1..Len(p) : G[j] = F[m[j]]
    BY <1>5, <1>6
  <2>2. Gop!Frames(q) = Gop!Total(F) /\ Gop!Frames(p) = Gop!Total(G)
    BY <1>1 DEF Gop!Frames
  <2> HIDE DEF F, G
  <2> QED
    BY <1>4, <2>1, <2>2
<1>9. Gop!Duration(p) <= Gop!Duration(q) /\ Gop!Duration(p) \in Nat /\ Gop!Duration(q) \in Nat
  <2> DEFINE F == [i \in 1..Len(q) |-> q[i].duration]
             G == [i \in 1..Len(p) |-> p[i].duration]
  <2>1. F \in [1..Len(q) -> Nat] /\ G \in [1..Len(p) -> Nat] /\ \A j \in 1..Len(p) : G[j] = F[m[j]]
    BY <1>5, <1>6
  <2>2. Gop!Duration(q) = Gop!Total(F) /\ Gop!Duration(p) = Gop!Total(G)
    BY <1>1 DEF Gop!Duration
  <2> HIDE DEF F, G
  <2> QED
    BY <1>4, <2>1, <2>2
<1>10. Gop!Fits(q) => Gop!Fits(p)
  BY <1>7, <1>8, <1>9, GopAssumed DEF Gop!Fits
<1> QED
  BY <1>3, <1>10

-----------------------------------------------------------------------------
(* Trimming *)

LEMMA LeastIsIn ==
  ASSUME NEW S \in SUBSET Nat, S # {}
  PROVE  Gop!Min(S) \in S
<1>1. PICK x \in S : \A y \in S : <<y, x>> \notin OpToRel(<, Nat)
  BY NatLessThanWellFounded, WFMin
<1>2. ASSUME NEW y \in S PROVE x <= y
  <2>1. x \in Nat /\ y \in Nat
    OBVIOUS
  <2>2. ~(y < x)
    BY <1>1, <2>1 DEF OpToRel
  <2> QED
    BY <2>1, <2>2
<1> QED
  BY <1>2 DEF Gop!Min

\* The groups from k on, and one more.
LEMMA KeptRow ==
  ASSUME NEW f, NEW g, NEW q, InRow(q, f, g), NEW k \in 0..Len(q),
         NEW gop \in GopRecords, Whole(gop, f), gop.generation = g,
         \A i \in 1..Len(q) : Newest(q[i]) < gop.packets[1]
  PROVE  LET p == SubSeq(q, k + 1, Len(q))
         IN p \in Seq(GopRecords) /\ InRow(Append(p, gop), f, g)
<1> DEFINE p == SubSeq(q, k + 1, Len(q))
           m == [j \in 1..Len(p) |-> k + j]
<1>1. q \in Seq(GopRecords) /\ Len(q) \in Nat /\ k \in Nat /\ k <= Len(q)
  BY DEF InRow
<1>2. /\ p \in Seq(GopRecords) /\ Len(p) = Len(q) - k /\ Len(p) \in Nat
      /\ \A j \in 1..Len(p) : p[j] = q[k + j]
  BY <1>1
<1> HIDE DEF p
<1>3. /\ m \in [1..Len(p) -> 1..Len(q)]
      /\ \A i, j \in 1..Len(p) : i < j => m[i] < m[j]
      /\ \A j \in 1..Len(p) : p[j] = q[m[j]]
  BY <1>1, <1>2
<1> HIDE DEF m
<1>4. InRow(p, f, g)
  BY <1>1, <1>2, <1>3, Thinned
<1> DEFINE r == Append(p, gop)
<1>5. /\ r \in Seq(GopRecords) /\ Len(r) = Len(p) + 1
      /\ \A i \in 1..Len(p) : r[i] = p[i]
      /\ r[Len(p) + 1] = gop
  BY <1>2
<1> HIDE DEF r
<1>6. ASSUME NEW i \in 1..Len(r) PROVE Whole(r[i], f) /\ r[i].generation = g
  <2>1. CASE i = Len(p) + 1
    BY <1>5, <2>1
  <2>2. CASE i # Len(p) + 1
    <3>1. i \in 1..Len(p) /\ r[i] = p[i]
      BY <1>2, <1>5, <2>2
    <3> QED
      BY <1>4, <3>1 DEF InRow
  <2> QED
    BY <2>1, <2>2
<1>7. ASSUME NEW i \in 1..Len(r), NEW j \in 1..Len(r), i < j
      PROVE  Newest(r[i]) < r[j].packets[1]
  <2>1. i \in 1..Len(p) /\ r[i] = p[i]
    BY <1>2, <1>5, <1>7
  <2>2. CASE j = Len(p) + 1
    <3>1. p[i] = q[m[i]] /\ m[i] \in 1..Len(q)
      BY <1>3, <2>1
    <3> QED
      BY <1>5, <2>1, <2>2, <3>1
  <2>3. CASE j # Len(p) + 1
    <3>1. j \in 1..Len(p)
      BY <1>2, <1>5, <2>3
    <3>2. r[j] = p[j]
      BY <1>5, <3>1
    <3> QED
      BY <1>4, <1>7, <2>1, <3>1, <3>2 DEF InRow
  <2> QED
    BY <2>2, <2>3
<1> QED
  BY <1>2, <1>5, <1>6, <1>7 DEF p, r, InRow

LEMMA TrimKeeps ==
  ASSUME NEW f, NEW g, NEW q, InRow(q, f, g),
         NEW gop \in GopRecords, Whole(gop, f), gop.generation = g,
         \A i \in 1..Len(q) : Newest(q[i]) < gop.packets[1],
         Gop!Trim(q, gop)
  PROVE  /\ gops' \in Seq(GopRecords) /\ current' \in Seq(GopRecords) /\ Len(current') <= 1
         /\ InRow(gops' \o current', f, g) /\ Gop!Fits(gops' \o current')
         /\ current' # <<>> => current' = <<gop>>
<1> DEFINE kept(k) == SubSeq(q, k + 1, Len(q))
           fitting == {k \in 0..Len(q) : Gop!Fits(Append(kept(k), gop))}
<1>1. CASE fitting = {}
  <2>1. gops' = <<>> /\ current' = <<>>
    BY <1>1 DEF Gop!Trim
  <2>2. <<>> \o <<>> = <<>> /\ <<>> \in Seq(GopRecords) /\ Len(<<>>) = 0
    OBVIOUS
  <2> QED
    BY <2>1, <2>2, NothingFits DEF InRow
<1>2. CASE fitting # {}
  <2> DEFINE k == Gop!Min(fitting)
  <2>1. gops' = kept(k) /\ current' = <<gop>>
    BY <1>2 DEF Gop!Trim
  <2>2. fitting \in SUBSET Nat
    OBVIOUS
  <2>3. k \in 0..Len(q) /\ Gop!Fits(Append(kept(k), gop))
    <3>1. k \in fitting
      <4> HIDE DEF fitting
      <4> QED
        BY <1>2, <2>2, LeastIsIn
    <3> QED
      BY <3>1
  <2> HIDE DEF k, fitting
  <2>4. kept(k) \in Seq(GopRecords) /\ InRow(Append(kept(k), gop), f, g)
    BY <2>3, KeptRow
  <2> HIDE DEF kept
  <2>5. kept(k) \o <<gop>> = Append(kept(k), gop)
    BY <2>4
  <2>6. <<gop>> \in Seq(GopRecords) /\ Len(<<gop>>) = 1
    OBVIOUS
  <2>7. gops' \o current' = Append(kept(k), gop)
    BY <2>1, <2>5
  <2>8. gops' \in Seq(GopRecords) /\ current' \in Seq(GopRecords) /\ Len(current') <= 1
    BY <2>1, <2>4, <2>6
  <2> QED
    BY <2>1, <2>3, <2>4, <2>7, <2>8
<1> QED
  BY <1>1, <1>2

-----------------------------------------------------------------------------
(* The invariant *)

LEMMA GopInit == Gop!Init => GInv
<1> SUFFICES ASSUME Gop!Init PROVE GInv
  OBVIOUS
<1>1. gops = <<>> /\ current = <<>> /\ generation = 0 /\ fed = <<>> /\ taken = <<>>
  BY DEF Gop!Init
<1>2. /\ <<>> \in Seq(GopRecords) /\ <<>> \in Seq(FedPackets) /\ Len(<<>>) = 0
      /\ <<>> \o <<>> = <<>>
  OBVIOUS
<1>3. 0 \in 0..MaxGeneration /\ 0 <= MaxPackets
  BY GopAssumed
<1>4. InRow(<<>>, fed, 0)
  BY <1>2 DEF InRow
<1> QED
  BY <1>1, <1>2, <1>3, <1>4, NothingFits DEF GInv

\* Another packet changes nothing for the groups there are.
LEMMA RowGrows ==
  ASSUME NEW f \in Seq(FedPackets), NEW p \in FedPackets, NEW g
  PROVE  /\ \A x \in GopRecords : Whole(x, f) => Whole(x, Append(f, p))
         /\ \A q : InRow(q, f, g) => InRow(q, Append(f, p), g)
<1> DEFINE h == Append(f, p)
<1>1. /\ Len(f) \in Nat /\ Len(h) = Len(f) + 1 /\ \A i \in 1..Len(f) : h[i] = f[i]
  OBVIOUS
<1> HIDE DEF h
<1>2. ASSUME NEW x \in GopRecords, Whole(x, f) PROVE Whole(x, h)
  <2>1. x.packets \in Seq(Nat) /\ Len(x.packets) \in Nat
    BY DEF GopRecords
  <2>2. /\ Len(x.packets) >= 1 /\ x.packets[1] \in 1..Len(f) /\ f[x.packets[1]].key
        /\ Newest(x) <= Len(f) /\ x.packets[1] \in Nat
    BY <1>2, <2>1 DEF Whole
  <2>3. Newest(x) \in Nat
    <3> DEFINE a == x.packets[1]
               c == Len(x.packets)
    <3>1. a \in Nat /\ c \in Nat /\ c >= 1
      BY <2>1, <2>2
    <3>2. Newest(x) = a + c - 1
      BY DEF Newest
    <3> HIDE DEF a, c
    <3> QED
      BY <3>1, <3>2
  <2>4. ASSUME NEW k \in 2..Len(x.packets)
        PROVE  x.packets[k] = x.packets[1] + k - 1 /\ ~h[x.packets[k]].key
    <3>1. x.packets[k] = x.packets[1] + k - 1 /\ ~f[x.packets[k]].key
      BY <1>2 DEF Whole
    <3>2. x.packets[k] <= Newest(x) /\ x.packets[k] \in Nat /\ x.packets[k] >= 1
      <4>1. k \in Nat /\ 2 <= k /\ k <= Len(x.packets)
        BY <2>1
      <4>2. x.packets[1] \in Nat /\ x.packets[1] >= 1
        BY <1>1, <2>2
      <4>4. Newest(x) = x.packets[1] + Len(x.packets) - 1
        BY DEF Newest
      <4>5. x.packets[k] = x.packets[1] + k - 1
        BY <3>1
      <4> DEFINE a == x.packets[1]
                 c == Len(x.packets)
      <4>6. a \in Nat /\ a >= 1 /\ c \in Nat /\ k \in Nat /\ 2 <= k /\ k <= c
        BY <2>1, <4>1, <4>2
      <4>7. Newest(x) = a + c - 1 /\ x.packets[k] = a + k - 1
        BY <4>4, <4>5
      <4> HIDE DEF a, c
      <4> QED
        BY <4>6, <4>7
    <3>3. Newest(x) \in Nat
      BY <2>3
    <3>4. x.packets[k] \in 1..Len(f)
      BY <1>1, <2>2, <3>2, <3>3
    <3> QED
      BY <1>1, <3>1, <3>4
  <2>5. Newest(x) <= Len(h) /\ x.packets[1] \in 1..Len(h)
    BY <1>1, <2>2, <2>3
  <2>6. h[x.packets[1]].key
    BY <1>1, <2>2
  <2> QED
    BY <2>2, <2>4, <2>5, <2>6 DEF Whole
<1>3. ASSUME NEW q, InRow(q, f, g) PROVE InRow(q, h, g)
  <2>1. q \in Seq(GopRecords)
    BY <1>3 DEF InRow
  <2>2. \A i \in 1..Len(q) : q[i] \in GopRecords
    BY <2>1
  <2> QED
    BY <1>2, <1>3, <2>1, <2>2 DEF InRow
<1> QED
  BY <1>2, <1>3 DEF h

\* Leaving out the current group.
LEMMA FinalizedRow ==
  ASSUME NEW q \in Seq(GopRecords), NEW c \in Seq(GopRecords), NEW f, NEW g
  PROVE  (InRow(q \o c, f, g) => InRow(q, f, g)) /\ (Gop!Fits(q \o c) => Gop!Fits(q))
<1> DEFINE m == [j \in 1..Len(q) |-> j]
           r == q \o c
<1>1. /\ r \in Seq(GopRecords) /\ Len(r) = Len(q) + Len(c) /\ Len(q) \in Nat /\ Len(c) \in Nat
      /\ \A j \in 1..Len(q) : r[j] = q[j]
  OBVIOUS
<1> HIDE DEF r
<1>2. /\ m \in [1..Len(q) -> 1..Len(r)]
      /\ \A i, j \in 1..Len(q) : i < j => m[i] < m[j]
      /\ \A j \in 1..Len(q) : q[j] = r[m[j]]
  BY <1>1
<1> HIDE DEF m
<1>3. (InRow(r, f, g) => InRow(q, f, g)) /\ (Gop!Fits(r) => Gop!Fits(q))
  BY <1>1, <1>2, Thinned
<1> QED
  BY <1>3 DEF r

LEMMA NewGopIs ==
  ASSUME NEW f \in Seq(FedPackets), NEW p \in FedPackets, NEW g \in 0..MaxGeneration,
         NEW n, n = Len(f), n \in Nat \ {0}, f[n] = p, p.key
  PROVE  LET gop == Gop!NewGop(n, p, g)
         IN /\ gop \in GopRecords /\ Whole(gop, f) /\ gop.generation = g
            /\ gop.packets[1] = n /\ Newest(gop) = n
<1> DEFINE gop == Gop!NewGop(n, p, g)
<1>1. p.time \in Int /\ p.size \in Nat
  BY DEF FedPackets
<1>2. <<n>> \in Seq(Nat) /\ Len(<<n>>) = 1 /\ <<n>>[1] = n
  OBVIOUS
<1>3. gop \in GopRecords /\ gop.generation = g /\ gop.packets = <<n>>
  BY <1>1, <1>2 DEF Gop!NewGop, GopRecords
<1> HIDE DEF gop
<1>4. Newest(gop) = n
  BY <1>2, <1>3 DEF Newest
<1>5. Whole(gop, f)
  BY <1>2, <1>3, <1>4 DEF Whole
<1> QED
  BY <1>2, <1>3, <1>4, <1>5 DEF gop

LEMMA PushIs ==
  ASSUME NEW f \in Seq(FedPackets), NEW p \in FedPackets, NEW x \in GopRecords, Whole(x, f),
         NEW n, n = Len(f), n \in Nat \ {0}, f[n] = p, ~p.key, Newest(x) = n - 1
  PROVE  LET gop == Gop!Push(x, n, p)
         IN /\ gop \in GopRecords /\ Whole(gop, f) /\ gop.generation = x.generation
            /\ gop.packets[1] = x.packets[1] /\ Newest(gop) = n
<1> DEFINE gop == Gop!Push(x, n, p)
           start == IF x.start = Gop!Unknown THEN p.time ELSE x.start
           end == IF p.time > x.end THEN p.time ELSE x.end
           duration == IF p.time # Gop!Unknown /\ p.time - start > x.duration THEN p.time - start
                       ELSE x.duration
           ps == Append(x.packets, n)
<1>1. p.time \in Int /\ p.size \in Nat
  BY DEF FedPackets
<1>2. /\ x.start \in Int /\ x.end \in Int /\ x.packets \in Seq(Nat) /\ x.bytes \in Nat
      /\ x.duration \in Nat
  BY DEF GopRecords
<1>3. gop = [x EXCEPT !.packets = ps, !.bytes = x.bytes + p.size, !.start = start, !.end = end,
                      !.duration = duration]
  BY DEF Gop!Push
<1>4. start \in Int /\ end \in Int
  BY <1>1, <1>2
<1>5. duration \in Nat
  <2> HIDE DEF start
  <2> QED
    BY <1>1, <1>2, <1>4
<1>6. /\ ps \in Seq(Nat) /\ Len(ps) = Len(x.packets) + 1 /\ Len(x.packets) \in Nat
      /\ ps[Len(x.packets) + 1] = n /\ \A k \in 1..Len(x.packets) : ps[k] = x.packets[k]
  BY <1>2
<1>7. x.bytes + p.size \in Nat
  BY <1>1, <1>2
<1> HIDE DEF start, end, duration, ps
<1>8. gop \in GopRecords /\ gop.generation = x.generation /\ gop.packets = ps
  BY <1>3, <1>4, <1>5, <1>6, <1>7 DEF GopRecords
<1> HIDE DEF gop
<1>9. /\ Len(x.packets) >= 1 /\ x.packets[1] \in 1..Len(f) /\ f[x.packets[1]].key
      /\ \A k \in 2..Len(x.packets) : x.packets[k] = x.packets[1] + k - 1 /\ ~f[x.packets[k]].key
  BY DEF Whole
<1>10. ps[1] = x.packets[1] /\ x.packets[1] \in Nat
  BY <1>6, <1>9
<1>11. n = x.packets[1] + Len(x.packets)
  <2>1. Newest(x) = n - 1 /\ n \in Nat
    OBVIOUS
  <2>2. x.packets[1] + Len(x.packets) - 1 = n - 1
    BY <2>1 DEF Newest
  <2>3. \A a, b, c \in Nat : a + b - 1 = c - 1 => c = a + b
    OBVIOUS
  <2>4. Len(x.packets) \in Nat /\ x.packets[1] \in Nat /\ n \in Nat
    BY <1>6, <1>10
  <2> QED
    BY <2>2, <2>3, <2>4
<1>12. Newest(gop) = n
  BY <1>6, <1>8, <1>10, <1>11 DEF Newest
<1>13. ASSUME NEW k \in 2..Len(ps) PROVE ps[k] = ps[1] + k - 1 /\ ~f[ps[k]].key
  <2>1. CASE k = Len(x.packets) + 1
    <3>1. ps[k] = n
      BY <1>6, <2>1
    <3>2. \A a, b \in Nat : a + b = a + (b + 1) - 1
      OBVIOUS
    <3>3. n = ps[1] + k - 1
      BY <1>6, <1>10, <1>11, <2>1, <3>2, Zenon
    <3>4. ~f[n].key
      OBVIOUS
    <3> QED
      BY <3>1, <3>3, <3>4, Zenon
  <2>2. CASE k # Len(x.packets) + 1
    <3>0. \A a \in Nat, b \in Int : b \in 2..(a + 1) /\ b # a + 1 => b \in 2..a /\ b \in 1..a
      OBVIOUS
    <3>1. k \in 2..Len(x.packets) /\ k \in 1..Len(x.packets)
      BY <1>6, <2>2, <3>0
    <3> QED
      BY <1>6, <1>9, <1>10, <3>1
  <2> QED
    BY <2>1, <2>2
<1>14. Whole(gop, f)
  <2>1. Len(ps) >= 1 /\ n <= Len(f)
    BY <1>6
  <2>2. ps[1] \in 1..Len(f) /\ f[ps[1]].key
    BY <1>9, <1>10
  <2>3. /\ Len(gop.packets) >= 1 /\ gop.packets[1] \in 1..Len(f) /\ f[gop.packets[1]].key
        /\ Newest(gop) <= Len(f)
    BY <1>8, <1>12, <2>1, <2>2, Zenon
  <2>4. \A k \in 2..Len(gop.packets) :
          gop.packets[k] = gop.packets[1] + k - 1 /\ ~f[gop.packets[k]].key
    BY <1>8, <1>13, Zenon
  <2> QED
    BY <2>3, <2>4, Zenon DEF Whole
<1> QED
  BY <1>8, <1>10, <1>12, <1>14 DEF gop

-----------------------------------------------------------------------------
(* Feeding *)

LEMMA OneOnly ==
  ASSUME NEW c \in Seq(GopRecords), Len(c) <= 1, c # <<>>
  PROVE  Len(c) = 1 /\ c[1] \in GopRecords
<1>1. Len(c) \in Nat /\ Len(c) # 0
  BY EmptySeq
<1>2. Len(c) = 1
  BY <1>1
<1>3. 1 \in 1..Len(c)
  BY <1>2
<1>4. \A i \in 1..Len(c) : c[i] \in GopRecords
  OBVIOUS
<1> QED
  BY <1>2, <1>3, <1>4

LEMMA Joined ==
  ASSUME NEW a \in Seq(GopRecords), NEW z \in Seq(GopRecords), NEW s, s = a \o z
  PROVE  /\ s \in Seq(GopRecords) /\ Len(s) = Len(a) + Len(z) /\ DOMAIN s = 1..Len(s)
         /\ Len(a) \in Nat /\ Len(z) \in Nat /\ Len(s) \in Nat
         /\ \A i \in 1..Len(a) : s[i] = a[i]
         /\ \A i \in 1..Len(z) : s[Len(a) + i] = z[i]
OBVIOUS

\* What is cached and goes on, when a packet of generation g comes.
LEMMA GoesOn ==
  ASSUME GInv, NEW p \in FedPackets, NEW g \in 0..MaxGeneration,
         NEW gs, gs = IF g = generation THEN gops ELSE <<>>,
         NEW now, now = IF g = generation THEN current ELSE <<>>
  PROVE  /\ gs \in Seq(GopRecords) /\ now \in Seq(GopRecords) /\ Len(now) <= 1
         /\ InRow(gs \o now, fed, g) /\ InRow(gs \o now, Append(fed, p), g)
         /\ Gop!Fits(gs \o now)
         /\ now # <<>> => Newest(now[1]) = Len(fed)
<1>1. fed \in Seq(FedPackets)
  BY DEF GInv
<1>2. CASE g = generation
  <2>1. gs = gops /\ now = current
    BY <1>2
  <2>2. /\ gops \in Seq(GopRecords) /\ current \in Seq(GopRecords) /\ Len(current) <= 1
        /\ InRow(gops \o current, fed, g) /\ Gop!Fits(gops \o current)
        /\ current # <<>> => Newest(current[1]) = Len(fed)
    BY <1>2 DEF GInv
  <2> DEFINE r == gops \o current
             f == Append(fed, p)
  <2> HIDE DEF r, f
  <2>3. InRow(r, fed, g) => InRow(r, f, g)
    BY <1>1, RowGrows DEF f
  <2>4. InRow(r, fed, g) /\ Gop!Fits(r)
    BY <2>2 DEF r
  <2>5. InRow(gs \o now, fed, g) /\ InRow(gs \o now, f, g) /\ Gop!Fits(gs \o now)
    BY <2>1, <2>3, <2>4 DEF r
  <2>6. gs \in Seq(GopRecords) /\ now \in Seq(GopRecords) /\ Len(now) <= 1
    BY <2>1, <2>2
  <2>7. now # <<>> => Newest(now[1]) = Len(fed)
    BY <2>1, <2>2
  <2>8. InRow(gs \o now, Append(fed, p), g)
    BY <2>5, Zenon DEF f
  <2> QED
    BY <2>5, <2>6, <2>7, <2>8, Zenon
<1>3. CASE g # generation
  <2>1. /\ gs = <<>> /\ now = <<>> /\ <<>> \o <<>> = <<>> /\ <<>> \in Seq(GopRecords)
        /\ Len(<<>>) <= 1
    BY <1>3
  <2>2. \A f : InRow(<<>>, f, g)
    BY <2>1 DEF InRow
  <2>3. gs \o now = <<>>
    BY <2>1
  <2>4. InRow(gs \o now, fed, g) /\ InRow(gs \o now, Append(fed, p), g) /\ Gop!Fits(gs \o now)
    BY <2>2, <2>3, NothingFits, Zenon
  <2>5. gs \in Seq(GopRecords) /\ now \in Seq(GopRecords) /\ Len(now) <= 1
    BY <2>1
  <2> QED
    BY <2>1, <2>4, <2>5, Zenon
<1> QED
  BY <1>2, <1>3

\* Groups of the packets f are over when a packet comes after f.
LEMMA OverBefore ==
  ASSUME NEW f \in Seq(FedPackets), NEW q, NEW g, InRow(q, f, g)
  PROVE  \A i \in 1..Len(q) : Newest(q[i]) < Len(f) + 1
<1> SUFFICES ASSUME NEW i \in 1..Len(q) PROVE Newest(q[i]) < Len(f) + 1
  OBVIOUS
<1>1. q \in Seq(GopRecords) /\ Whole(q[i], f)
  BY DEF InRow
<1>2. q[i] \in GopRecords
  BY <1>1
<1>3. q[i].packets \in Seq(Nat)
  BY <1>2 DEF GopRecords
<1>4. Len(q[i].packets) \in Nat /\ Len(f) \in Nat
  BY <1>3
<1>5. q[i].packets[1] \in 1..Len(f) /\ Newest(q[i]) <= Len(f)
  BY <1>1 DEF Whole
<1>6. Newest(q[i]) \in Int
  BY <1>4, <1>5 DEF Newest
<1> QED
  BY <1>4, <1>5, <1>6

LEMMA FeedStep ==
  ASSUME GInv, NEW p \in FedPackets, NEW g \in 0..MaxGeneration, Gop!Feed(p, g)
  PROVE  GInv'
<1> DEFINE gs == IF g = generation THEN gops ELSE <<>>
           now == IF g = generation THEN current ELSE <<>>
           f == Append(fed, p)
           n == Len(f)
<1>1. /\ fed \in Seq(FedPackets) /\ Len(fed) \in Nat /\ Len(fed) < MaxPackets /\ fed' = f
      /\ generation' = g /\ taken' = taken /\ MaxPackets \in Nat
  BY GopAssumed DEF GInv, Gop!Feed
<1>2. IF now = <<>> /\ ~p.key THEN gops' = gs /\ current' = now
      ELSE IF p.key THEN Gop!Trim(gs \o now, Gop!NewGop(n, p, g))
      ELSE Gop!Trim(gs, Gop!Push(now[1], n, p))
  BY <1>1 DEF Gop!Feed
<1>3. /\ gs \in Seq(GopRecords) /\ now \in Seq(GopRecords) /\ Len(now) <= 1
      /\ InRow(gs \o now, fed, g) /\ InRow(gs \o now, f, g)
      /\ Gop!Fits(gs \o now)
      /\ now # <<>> => Newest(now[1]) = Len(fed)
  BY GoesOn
<1>4. /\ f \in Seq(FedPackets) /\ n = Len(fed) + 1 /\ n \in Nat \ {0} /\ f[n] = p
  BY <1>1
<1> HIDE DEF gs, now, f
<1>5. \A i \in 1..Len(gs \o now) : Newest((gs \o now)[i]) < n
  BY <1>1, <1>3, <1>4, OverBefore
<1>6. taken' \in Seq(GopRecords) /\ \A i \in 1..Len(taken') : Whole(taken'[i], f)
  <2>1. taken \in Seq(GopRecords) /\ \A i \in 1..Len(taken) : Whole(taken[i], fed)
    BY DEF GInv
  <2>2. \A i \in 1..Len(taken) : taken[i] \in GopRecords
    BY <2>1
  <2> QED
    BY <1>1, <2>1, <2>2, RowGrows DEF f
<1>7. /\ gops' \in Seq(GopRecords) /\ current' \in Seq(GopRecords) /\ Len(current') <= 1
      /\ InRow(gops' \o current', f, g) /\ Gop!Fits(gops' \o current')
      /\ current' # <<>> => Newest(current'[1]) = n
  <2>1. CASE now = <<>> /\ ~p.key
    <3>1. gops' = gs /\ current' = now
      BY <1>2, <2>1
    <3> QED
      BY <1>3, <2>1, <3>1
  <2>2. CASE p.key
    <3> DEFINE gop == Gop!NewGop(n, p, g)
    <3>1. Gop!Trim(gs \o now, gop)
      BY <1>2, <2>2
    <3>2. /\ gop \in GopRecords /\ Whole(gop, f) /\ gop.generation = g
          /\ gop.packets[1] = n /\ Newest(gop) = n
      BY <1>4, <2>2, NewGopIs
    <3> HIDE DEF gop
    <3>3. /\ gops' \in Seq(GopRecords) /\ current' \in Seq(GopRecords) /\ Len(current') <= 1
          /\ InRow(gops' \o current', f, g) /\ Gop!Fits(gops' \o current')
          /\ current' # <<>> => current' = <<gop>>
      BY <1>3, <1>5, <3>1, <3>2, TrimKeeps
    <3> QED
      BY <3>2, <3>3
  <2>3. CASE now # <<>> /\ ~p.key
    <3> DEFINE gop == Gop!Push(now[1], n, p)
               r == gs \o now
    <3>1. Gop!Trim(gs, gop)
      BY <1>2, <2>3
    <3>2. /\ Len(gs) \in Nat /\ Len(now) = 1 /\ now[1] \in GopRecords
          /\ Len(r) = Len(gs) + 1 /\ r[Len(gs) + 1] = now[1]
          /\ \A i \in 1..Len(gs) : r[i] = gs[i]
      <4>1. gs \in Seq(GopRecords) /\ now \in Seq(GopRecords) /\ Len(now) <= 1 /\ now # <<>>
        BY <1>3, <2>3
      <4>2. Len(now) = 1 /\ now[1] \in GopRecords
        BY <4>1, OneOnly
      <4>3. r = gs \o now
        OBVIOUS
      <4> HIDE DEF r
      <4>4. /\ Len(r) = Len(gs) + Len(now) /\ Len(gs) \in Nat
            /\ \A i \in 1..Len(gs) : r[i] = gs[i]
            /\ \A i \in 1..Len(now) : r[Len(gs) + i] = now[i]
        BY <4>1, <4>3, Joined
      <4>5. r[Len(gs) + 1] = now[1]
        BY <4>2, <4>4
      <4> QED
        BY <4>2, <4>4, <4>5
    <3> HIDE DEF r
    <3>3. InRow(r, f, g)
      BY <1>3 DEF r
    <3>4. Whole(now[1], f) /\ now[1].generation = g
      BY <3>2, <3>3 DEF InRow
    <3>5. Newest(now[1]) = n - 1
      BY <1>1, <1>3, <1>4, <2>3
    <3>6. /\ gop \in GopRecords /\ Whole(gop, f) /\ gop.generation = g
          /\ gop.packets[1] = now[1].packets[1] /\ Newest(gop) = n
      BY <1>4, <2>3, <3>2, <3>4, <3>5, PushIs
    <3> HIDE DEF gop
    <3>7. InRow(gs, f, g)
      BY <1>3, FinalizedRow
    <3>8. \A i \in 1..Len(gs) : Newest(gs[i]) < gop.packets[1]
      <4> SUFFICES ASSUME NEW i \in 1..Len(gs) PROVE Newest(gs[i]) < gop.packets[1]
        OBVIOUS
      <4>1. /\ i \in 1..Len(r) /\ Len(gs) + 1 \in 1..Len(r) /\ i < Len(gs) + 1
            /\ r[i] = gs[i] /\ r[Len(gs) + 1] = now[1]
        BY <3>2
      <4>2. Newest(r[i]) < r[Len(gs) + 1].packets[1]
        BY <3>3, <4>1 DEF InRow
      <4> QED
        BY <3>6, <4>1, <4>2
    <3>9. /\ gops' \in Seq(GopRecords) /\ current' \in Seq(GopRecords) /\ Len(current') <= 1
          /\ InRow(gops' \o current', f, g) /\ Gop!Fits(gops' \o current')
          /\ current' # <<>> => current' = <<gop>>
      BY <3>1, <3>6, <3>7, <3>8, TrimKeeps
    <3> QED
      BY <3>6, <3>9
  <2> QED
    BY <2>1, <2>2, <2>3
<1>8. Len(fed') <= MaxPackets /\ fed' \in Seq(FedPackets) /\ Len(fed') = n
  BY <1>1, <1>4
<1> QED
  BY <1>1, <1>6, <1>7, <1>8 DEF GInv

-----------------------------------------------------------------------------
(* Taking a group for a decoder *)

LEMMA GreatestIsIn ==
  ASSUME NEW n \in Nat, NEW S \in SUBSET (1..n), S # {}
  PROVE  Gop!Max(S) \in S
<1> DEFINE R == OpToRel(<, Nat)
           T == {n - x : x \in S}
<1>1. T # {} /\ T \subseteq Nat
  <2>1. \A x \in S : n - x \in Nat
    <3> SUFFICES ASSUME NEW x \in S PROVE n - x \in Nat
      OBVIOUS
    <3>1. x \in 1..n
      OBVIOUS
    <3> QED
      BY <3>1
  <2> QED
    BY <2>1
<1>2. IsWellFoundedOn(R, Nat)
  BY NatLessThanWellFounded
<1>3. PICK m \in T : \A k \in T : ~(<<k, m>> \in R)
  <2> HIDE DEF T, R
  <2> QED
    BY <1>1, <1>2, WFMin
<1>4. PICK x \in S : m = n - x
  BY <1>3
<1>5. ASSUME NEW y \in S PROVE x >= y
  <2>1. n - y \in T /\ ~(<<n - y, n - x>> \in R)
    BY <1>3, <1>4
  <2>2. n - y \in Nat /\ n - x \in Nat
    BY <1>1, <1>4, <2>1
  <2>3. ~(n - y < n - x)
    BY <2>1, <2>2 DEF OpToRel
  <2> QED
    BY <2>3
<1> QED
  BY <1>5 DEF Gop!Max

\* Without one of the finalized groups, the others stay in order and within the limits.
LEMMA OneTaken ==
  ASSUME NEW q \in Seq(GopRecords), NEW c \in Seq(GopRecords), NEW i \in 1..Len(q),
         NEW f, NEW g
  PROVE  LET p == Gop!RemoveAt(q, i)
         IN /\ p \in Seq(GopRecords)
            /\ InRow(q \o c, f, g) => InRow(p \o c, f, g)
            /\ Gop!Fits(q \o c) => Gop!Fits(p \o c)
<1> DEFINE p == Gop!RemoveAt(q, i)
           a == SubSeq(q, 1, i - 1)
           z == SubSeq(q, i + 1, Len(q))
           r == q \o c
           s == p \o c
           m == [j \in 1..Len(s) |-> IF j < i THEN j ELSE j + 1]
<1>1. Len(q) \in Nat /\ i \in Nat /\ 1 <= i /\ i <= Len(q) /\ Len(c) \in Nat
  OBVIOUS
<1>2. /\ a \in Seq(GopRecords) /\ Len(a) = i - 1 /\ \A j \in 1..(i - 1) : a[j] = q[j]
  BY <1>1
<1>3. /\ z \in Seq(GopRecords) /\ Len(z) = Len(q) - i
      /\ \A j \in 1..(Len(q) - i) : z[j] = q[i + j]
  BY <1>1
<1>4. p = a \o z
  BY DEF Gop!RemoveAt
<1> HIDE DEF a, z, p
<1>5. /\ p \in Seq(GopRecords) /\ Len(p) = Len(q) - 1
      /\ \A j \in 1..(i - 1) : p[j] = q[j]
      /\ \A j \in i..(Len(q) - 1) : p[j] = q[j + 1]
  <2>0. a \in Seq(GopRecords) /\ z \in Seq(GopRecords) /\ p = a \o z
    BY <1>2, <1>3, <1>4
  <2>1. p \in Seq(GopRecords) /\ Len(p) = Len(a) + Len(z)
    BY <2>0, Joined
  <2>2. /\ \A j \in 1..Len(a) : p[j] = a[j]
        /\ \A j \in 1..Len(z) : p[Len(a) + j] = z[j]
    BY <2>0, Joined
  <2>3. ASSUME NEW j \in 1..(i - 1) PROVE p[j] = q[j]
    BY <1>2, <2>2
  <2>4. ASSUME NEW j \in i..(Len(q) - 1) PROVE p[j] = q[j + 1]
    <3> DEFINE k == j - i + 1
    <3>1. k \in 1..Len(z) /\ Len(a) + k = j /\ i + k = j + 1
      BY <1>1, <1>2, <1>3
    <3>2. p[Len(a) + k] = z[k] /\ z[k] = q[i + k]
      BY <1>3, <2>2, <3>1
    <3> QED
      BY <3>1, <3>2
  <2>5. Len(p) = Len(q) - 1
    BY <1>1, <1>2, <1>3, <2>1
  <2> QED
    BY <2>1, <2>3, <2>4, <2>5
<1>6. /\ r \in Seq(GopRecords) /\ Len(r) = Len(q) + Len(c)
      /\ \A j \in 1..Len(q) : r[j] = q[j]
      /\ \A j \in 1..Len(c) : r[Len(q) + j] = c[j]
  OBVIOUS
<1>7. /\ s \in Seq(GopRecords) /\ Len(s) = Len(p) + Len(c)
      /\ \A j \in 1..Len(p) : s[j] = p[j]
      /\ \A j \in 1..Len(c) : s[Len(p) + j] = c[j]
  <2>1. s = p \o c /\ p \in Seq(GopRecords) /\ c \in Seq(GopRecords)
    BY <1>5
  <2> HIDE DEF s
  <2> QED
    BY <2>1, Joined
<1> HIDE DEF r, s
<1>8. /\ m \in [1..Len(s) -> 1..Len(r)]
      /\ \A j, k \in 1..Len(s) : j < k => m[j] < m[k]
  BY <1>1, <1>5, <1>6, <1>7
<1>9. ASSUME NEW j \in 1..Len(s) PROVE s[j] = r[m[j]]
  <2>0. j \in Nat /\ 1 <= j /\ j <= Len(q) - 1 + Len(c) /\ Len(p) = Len(q) - 1
    BY <1>1, <1>5, <1>7
  <2>1. CASE j < i
    <3>1. m[j] = j /\ j \in 1..(i - 1) /\ j \in 1..Len(p) /\ j \in 1..Len(q)
      BY <1>1, <2>0, <2>1
    <3> QED
      BY <1>5, <1>6, <1>7, <3>1
  <2>2. CASE i <= j /\ j <= Len(q) - 1
    <3>1. m[j] = j + 1 /\ j \in i..(Len(q) - 1) /\ j \in 1..Len(p) /\ j + 1 \in 1..Len(q)
      BY <1>1, <2>0, <2>2
    <3> QED
      BY <1>5, <1>6, <1>7, <3>1
  <2>3. CASE j >= Len(q)
    <3> DEFINE k == j - Len(p)
    <3>1. m[j] = j + 1 /\ k \in 1..Len(c) /\ j = Len(p) + k /\ j + 1 = Len(q) + k
      BY <1>1, <2>0, <2>3
    <3>2. s[Len(p) + k] = c[k] /\ r[Len(q) + k] = c[k]
      BY <1>6, <1>7, <3>1
    <3> QED
      BY <3>1, <3>2
  <2> QED
    BY <1>1, <2>0, <2>1, <2>2, <2>3
<1> HIDE DEF m
<1>10. (InRow(r, f, g) => InRow(s, f, g)) /\ (Gop!Fits(r) => Gop!Fits(s))
  BY <1>6, <1>7, <1>8, <1>9, Thinned
<1> QED
  BY <1>5, <1>10 DEF p, r, s

LEMMA TakeStep ==
  ASSUME GInv, NEW time, Gop!TakeRandomAccess(time)
  PROVE  GInv'
<1> DEFINE I == {i \in 1..Len(gops) : Gop!AtOrBefore(gops[i], time)}
           i == IF I # {} THEN Gop!Max(I) ELSE 0
           r == gops \o current
<1>1. Gop!SelectLastInSeq(gops, LAMBDA gop : Gop!AtOrBefore(gop, time)) = i
  BY DEF Gop!SelectLastInSeq
<1>2. i = 0 \/ i \in 1..Len(gops)
  <2>1. Len(gops) \in Nat /\ I \in SUBSET (1..Len(gops))
    BY DEF GInv
  <2> HIDE DEF I
  <2>2. I # {} => Gop!Max(I) \in I
    BY <2>1, GreatestIsIn
  <2> QED
    BY <2>1, <2>2
<1>3. Gop!RandomAccess(time) =
        IF i # 0 THEN <<gops[i]>>
        ELSE IF current # <<>> /\ Gop!AtOrBefore(current[1], time) THEN current ELSE <<>>
  BY <1>1 DEF Gop!RandomAccess
<1>4. /\ taken' = Gop!RandomAccess(time) /\ taken' # <<>>
      /\ IF i # 0 THEN gops' = Gop!RemoveAt(gops, i) /\ current' = current
         ELSE current' = <<>> /\ gops' = gops
      /\ generation' = generation /\ fed' = fed
  BY <1>1 DEF Gop!TakeRandomAccess
<1> HIDE DEF i, I
<1>5. /\ gops \in Seq(GopRecords) /\ current \in Seq(GopRecords) /\ Len(current) <= 1
      /\ generation \in 0..MaxGeneration /\ fed \in Seq(FedPackets) /\ Len(fed) <= MaxPackets
      /\ InRow(r, fed, generation) /\ Gop!Fits(r)
      /\ current # <<>> => Newest(current[1]) = Len(fed)
  BY DEF GInv
<1>6. /\ Len(gops) \in Nat /\ Len(current) \in Nat /\ Len(r) = Len(gops) + Len(current)
      /\ \A j \in 1..Len(gops) : r[j] = gops[j] /\ gops[j] \in GopRecords
      /\ \A j \in 1..Len(current) : r[Len(gops) + j] = current[j]
  BY <1>5
<1> HIDE DEF r
<1>7. CASE i # 0
  <2>1. i \in 1..Len(gops) /\ taken' = <<gops[i]>>
    BY <1>2, <1>3, <1>4, <1>7
  <2>2. /\ gops' \in Seq(GopRecords) /\ InRow(gops' \o current, fed, generation)
        /\ Gop!Fits(gops' \o current)
    BY <1>4, <1>5, <1>7, <2>1, OneTaken DEF r
  <2>3. Whole(gops[i], fed) /\ gops[i] \in GopRecords
    <3>1. i \in 1..Len(r) /\ r[i] = gops[i]
      BY <1>6, <2>1
    <3> QED
      BY <1>5, <1>6, <2>1, <3>1 DEF InRow
  <2>4. taken' \in Seq(GopRecords) /\ \A j \in 1..Len(taken') : Whole(taken'[j], fed)
    BY <2>1, <2>3
  <2> QED
    BY <1>4, <1>5, <1>7, <2>2, <2>4 DEF GInv
<1>8. CASE i = 0
  <2>1. taken' = current /\ current' = <<>> /\ gops' = gops
    BY <1>3, <1>4, <1>8
  <2>2. gops \o <<>> = gops /\ <<>> \in Seq(GopRecords) /\ Len(<<>>) = 0
    BY <1>5
  <2>3. InRow(gops, fed, generation) /\ Gop!Fits(gops)
    BY <1>5, FinalizedRow DEF r
  <2>4. ASSUME NEW j \in 1..Len(current) PROVE Whole(current[j], fed)
    <3>1. Len(gops) + j \in 1..Len(r) /\ r[Len(gops) + j] = current[j]
      BY <1>6
    <3> QED
      BY <1>5, <3>1 DEF InRow
  <2> QED
    BY <1>4, <1>5, <2>1, <2>2, <2>3, <2>4 DEF GInv
<1> QED
  BY <1>7, <1>8

LEMMA GopNext == GInv /\ [Gop!Next]_(Gop!vars) => GInv'
<1> SUFFICES ASSUME GInv, [Gop!Next]_(Gop!vars) PROVE GInv'
  OBVIOUS
<1>1. ASSUME NEW key \in BOOLEAN, NEW time \in Times \cup {Gop!Unknown}, NEW size \in Sizes,
             NEW g \in generation..MaxGeneration,
             Gop!Feed([key |-> key, time |-> time, size |-> size], g)
      PROVE  GInv'
  <2>1. time \in Int /\ size \in Nat
    BY GopAssumed DEF Gop!Unknown
  <2>2. [key |-> key, time |-> time, size |-> size] \in FedPackets
    BY <2>1 DEF FedPackets
  <2>3. generation \in 0..MaxGeneration
    BY DEF GInv
  <2>4. g \in 0..MaxGeneration
    BY <2>3, GopAssumed
  <2> QED
    BY <1>1, <2>2, <2>4, FeedStep
<1>2. ASSUME NEW time \in Times, Gop!TakeRandomAccess(time) PROVE GInv'
  BY <1>2, TakeStep
<1>3. CASE UNCHANGED Gop!vars
  <2>1. /\ gops' = gops /\ current' = current /\ generation' = generation /\ fed' = fed
        /\ taken' = taken
    BY <1>3 DEF Gop!vars
  <2> QED
    BY <2>1 DEF GInv
<1> QED
  BY <1>1, <1>2, <1>3 DEF Gop!Next

LEMMA GopHolds == GInv => GopSafe
<1> SUFFICES ASSUME GInv PROVE GopSafe
  OBVIOUS
<1> DEFINE r == gops \o current
           s == r \o taken
<1>1. /\ gops \in Seq(GopRecords) /\ current \in Seq(GopRecords) /\ Len(current) <= 1
      /\ taken \in Seq(GopRecords) /\ \A i \in 1..Len(taken) : Whole(taken[i], fed)
      /\ generation \in 0..MaxGeneration /\ Len(fed) <= MaxPackets
      /\ InRow(r, fed, generation) /\ Gop!Fits(r)
  BY DEF GInv
<1>2. /\ r \in Seq(GopRecords) /\ Len(r) = Len(gops) + Len(current) /\ Len(gops) \in Nat
      /\ Len(current) \in Nat /\ Len(taken) \in Nat
      /\ \A i \in 1..Len(gops) : r[i] = gops[i]
  BY <1>1
<1>3. Gop!Cached = r
  BY DEF Gop!Cached
<1> HIDE DEF r
<1>4. /\ s \in Seq(GopRecords) /\ Len(s) = Len(r) + Len(taken) /\ DOMAIN s = 1..Len(s)
      /\ \A i \in 1..Len(r) : s[i] = r[i]
      /\ \A i \in 1..Len(taken) : s[Len(r) + i] = taken[i]
      /\ DOMAIN r = 1..Len(r) /\ DOMAIN gops = 1..Len(gops) /\ Len(r) \in Nat
  <2>1. DOMAIN r = 1..Len(r) /\ DOMAIN gops = 1..Len(gops) /\ Len(r) \in Nat
    BY <1>1, <1>2
  <2>2. s = r \o taken /\ r \in Seq(GopRecords) /\ taken \in Seq(GopRecords)
    BY <1>1, <1>2
  <2> HIDE DEF s
  <2>3. /\ s \in Seq(GopRecords) /\ Len(s) = Len(r) + Len(taken) /\ DOMAIN s = 1..Len(s)
        /\ \A i \in 1..Len(r) : s[i] = r[i]
        /\ \A i \in 1..Len(taken) : s[Len(r) + i] = taken[i]
    BY <2>2, Joined
  <2> QED
    BY <2>1, <2>3
<1> HIDE DEF s
<1>5. \A i \in 1..Len(r) : Whole(r[i], fed) /\ r[i].generation = generation
  BY <1>1 DEF InRow
<1>6. Gop!TypeOK
  <2>1. ASSUME NEW i \in DOMAIN gops
        PROVE  gops[i].packets # <<>> /\ gops[i].generation \in 0..MaxGeneration
    <3>1. i \in 1..Len(r) /\ r[i] = gops[i]
      BY <1>2, <1>4
    <3>2. Whole(gops[i], fed) /\ gops[i].generation = generation
      BY <1>5, <3>1
    <3>3. Len(gops[i].packets) >= 1
      BY <3>2 DEF Whole
    <3>4. Len(<<>>) = 0
      OBVIOUS
    <3>5. gops[i].packets # <<>>
      BY <3>3, <3>4
    <3> QED
      BY <1>1, <3>2, <3>5
  <2> QED
    BY <1>1, <2>1 DEF Gop!TypeOK
<1>7. Gop!WithinLimits
  BY <1>1, <1>3 DEF Gop!WithinLimits
<1>8. Gop!Decodable
  <2>1. ASSUME NEW i \in 1..Len(s) PROVE Whole(s[i], fed)
    <3>1. CASE i \in 1..Len(r)
      BY <1>4, <1>5, <3>1
    <3>2. CASE i \notin 1..Len(r)
      <4> DEFINE j == i - Len(r)
      <4>1. j \in 1..Len(taken) /\ i = Len(r) + j
        BY <1>2, <1>4, <3>2
      <4> QED
        BY <1>1, <1>4, <4>1
    <3> QED
      BY <3>1, <3>2
  <2>2. Gop!Cached \o taken = s
    BY <1>3 DEF s
  <2>3. ASSUME NEW i \in DOMAIN s
        PROVE  /\ fed[s[i].packets[1]].key
               /\ \A k \in 2..Len(s[i].packets) :
                    s[i].packets[k] = s[i].packets[1] + k - 1 /\ ~fed[s[i].packets[k]].key
    <3>1. Whole(s[i], fed)
      BY <1>4, <2>1
    <3> QED
      BY <3>1 DEF Whole
  <2> QED
    BY <2>2, <2>3 DEF Gop!Decodable
<1>9. Gop!CurrentAndOrdered
  <2>1. ASSUME NEW i \in 1..Len(r), NEW j \in 1..Len(r), i < j
        PROVE  Gop!Last(r[i].packets) < Head(r[j].packets)
    <3>1. Newest(r[i]) < r[j].packets[1]
      BY <1>1, <2>1 DEF InRow
    <3>2. r[i] \in GopRecords /\ r[j] \in GopRecords
      BY <1>2, <1>4
    <3>3. r[i].packets \in Seq(Nat) /\ r[j].packets \in Seq(Nat)
      BY <3>2 DEF GopRecords
    <3>4. Whole(r[i], fed) /\ Whole(r[j], fed)
      BY <1>5
    <3>5. Gop!Last(r[i].packets) = r[i].packets[Len(r[i].packets)]
      BY DEF Gop!Last
    <3>6. r[i].packets[Len(r[i].packets)] = Newest(r[i])
      <4> DEFINE k == Len(r[i].packets)
      <4>1. k \in Nat /\ k >= 1 /\ r[i].packets[1] \in Nat
        BY <3>3, <3>4 DEF Whole
      <4>2. Newest(r[i]) = r[i].packets[1] + k - 1
        BY DEF Newest
      <4>3. k \in 2..k => r[i].packets[k] = r[i].packets[1] + k - 1
        BY <3>4 DEF Whole
      <4> HIDE DEF k
      <4>4. CASE k = 1
        <5>1. Newest(r[i]) = r[i].packets[1]
          BY <4>1, <4>2, <4>4
        <5>2. r[i].packets[k] = r[i].packets[1]
          BY <4>4
        <5> QED
          BY <5>1, <5>2 DEF k
      <4>5. CASE k # 1
        <5>1. k \in 2..k
          BY <4>1, <4>5
        <5>2. r[i].packets[k] = Newest(r[i])
          BY <4>2, <4>3, <5>1
        <5> QED
          BY <5>2 DEF k
      <4> QED
        BY <4>4, <4>5 DEF k
    <3>7. Head(r[j].packets) = r[j].packets[1]
      <4>1. r[j].packets # <<>>
        <5>1. Len(r[j].packets) >= 1 /\ Len(<<>>) = 0
          BY <3>4 DEF Whole
        <5> QED
          BY <5>1
      <4> QED
        BY <3>3, <4>1
    <3> QED
      BY <3>1, <3>5, <3>6, <3>7
  <2> QED
    BY <1>3, <1>4, <1>5, <2>1 DEF Gop!CurrentAndOrdered
<1> QED
  BY <1>6, <1>7, <1>8, <1>9 DEF GopSafe, Gop!GopSafe

\* Whatever is fed, trimmed, taken or discarded: the cached groups stay within the
\* limits, in order and of the generation in effect, and each of them, and the group
\* handed to a decoder last, is a key frame with every packet fed since (gop.rs).
THEOREM GopCorrect == Gop!Spec => []GopSafe
<1>1. Gop!Init => GInv
  BY GopInit
<1>2. GInv /\ [Gop!Next]_(Gop!vars) => GInv'
  BY GopNext
<1>3. GInv => GopSafe
  BY GopHolds
<1> QED
  BY <1>1, <1>2, <1>3, PTL DEF Gop!Spec

===============================================================================
