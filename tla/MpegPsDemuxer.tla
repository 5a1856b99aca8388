----------------------------- MODULE MpegPsDemuxer -----------------------------
(***************************************************************************)
(* The incremental demuxer of MPEG-2 program streams                       *)
(* (cheetah-container-mpegps: demuxer.rs, video.rs, audio.rs, pack.rs,     *)
(* pes.rs, scan.rs), fed by a multiplexer that cuts a video and an audio   *)
(* stream into packets anywhere, and a connection that cuts those (both    *)
(* external).                                                              *)
(*                                                                         *)
(* Every header field is one byte here: a pack is 0 0 1 Pack stuffing, a   *)
(* packet 0 0 1 code length time, and a frame of audio begins with Sync    *)
(* and its length.                                                         *)
(***************************************************************************)
EXTENDS AnnexbUnits, FiniteSets

CONSTANTS Video,       \* NAL units, with the zero bytes before their 00 00 01
          Audio,       \* lengths of the frames
          Lengths,     \* of payloads
          Untimed,     \* those of the packets without a time
          Cuts,        \* bytes that arrive at once, at most
          Duration,    \* ticks of an audio frame
          MaxPacket,   \* max_packet_size_bytes
          MaxBuffer,   \* max_buffer_bytes
          MaxExtras    \* bound, for model checking, on what carries no media

VARIABLES
  d,        \* MpegPsDemuxer, with its VideoEsAssembler and AudioAssembler
  source,   \* the multiplexer: bytes of each stream sent, packets sent, end written
  wire,     \* bytes that did not arrive yet
  times,    \* ghost: the time of the packet that carried each byte, for either stream
  out       \* events that came out, and whether the last next_event() found nothing or failed

vars == <<d, source, wire, times, out>>

Codes == [end |-> 60, pack |-> 61, system |-> 62, private |-> 63, audio |-> 64, video |-> 65]
IsBoundary(b) == b >= 60   \* 0xb9 in the code
Sync == 55
None == -1

Coded(i) == [j \in 1..Video[i].zeros |-> 0] \o <<0, 0, 1>> \o Video[i].nal
VideoBytes == FlattenSeq([i \in DOMAIN Video |-> Coded(i)])
AudioBytes == FlattenSeq([i \in DOMAIN Audio |-> <<Sync, Audio[i]>> \o [j \in 1..Audio[i] - 2 |-> 50]])
Bytes(kind) == IF kind = "video" THEN VideoBytes ELSE AudioBytes
Kinds == {"video", "audio"}

Fresh ==
  [buffer |-> <<>>, events |-> <<>>, ended |-> FALSE, eof |-> FALSE, error |-> FALSE,
   es |-> <<>>, chunks |-> <<>>, base |-> 0, videoSeq |-> 0, sets |-> Empty, config |-> Empty,
   left |-> <<>>, leftTime |-> None, audioTrack |-> FALSE, audioSeq |-> 0]

Init ==
  /\ d = Fresh
  /\ source = [sent |-> [k \in Kinds |-> 0], extras |-> 0, closed |-> FALSE]
  /\ wire = <<>>
  /\ times = [k \in Kinds |-> <<>>]
  /\ out = [events |-> <<>>, at |-> "waiting"]

-----------------------------------------------------------------------------
(* video.rs *)

Emit(x, event) == [x EXCEPT !.events = Append(@, event)]

\* emit_nal()
EmitNal(x, nal, time) ==
  IF nal = <<>> THEN x
  ELSE IF IsNal(nal, SetTypes) THEN Consume(x, nal)
  ELSE Emit([x EXCEPT !.videoSeq = @ + 1],
            [what |-> "video", nal |-> nal, time |-> time, key |-> IsNal(nal, {"idr"}),
             sequence |-> x.videoSeq])

\* media_time_for_es_offset(): of the last chunk that begins no later.
TimeAt(x, offset) ==
  LET before == {i \in DOMAIN x.chunks : x.chunks[i].offset <= offset}
  IN IF before = {} THEN None ELSE x.chunks[CHOOSE i \in before : \A j \in before : j <= i].time

\* prune_chunks(): nothing goes when every chunk begins later.
Pruned(x) ==
  LET kept == {i \in DOMAIN x.chunks : x.chunks[i].offset > x.base}
  IN [x EXCEPT !.chunks = SubSeq(@, IF kept = DOMAIN @ THEN 1 ELSE Len(@) - Cardinality(kept), Len(@))]

Dropped(x, n) == Pruned([x EXCEPT !.base = @ + n, !.es = SubSeq(@, n + 1, Len(@))])

\* Mutant: the time is that of where the unit's packet was when it was cut off.
SliceLate(x, header, next) ==
  Dropped(EmitNal(x, SubSeq(x.es, header, next - 1), TimeAt(x, x.base + next - 1)), next - 1)

\* One unit, from header to the next start code; offsets count from zero.
Slice(x, header, next) ==
  Dropped(EmitNal(x, SubSeq(x.es, header, next - 1), TimeAt(x, x.base + header - 1)), next - 1)

\* A turn of slice_es(); x.done when it stops.
SliceTurn(x, start, header, next) ==
  IF Len(x.es) < 4 THEN [x EXCEPT !.done = TRUE]
  ELSE IF start > Len(x.es) THEN [Dropped(x, Len(x.es) - 2) EXCEPT !.done = TRUE]
  ELSE IF start > 1 THEN Dropped(x, start - 1)
  ELSE IF header > Len(x.es) \/ next > Len(x.es) THEN [x EXCEPT !.done = TRUE]
  ELSE Slice(x, header, next)

\* slice_es(), without max_nal_size_bytes and max_buffer_bytes
SliceEs(x) ==
  LET Turn(y) == SliceTurn(y, Find(y.es, 1), Header(y.es), Find(y.es, Header(y.es)))
  IN FoldLeft(LAMBDA y, i : IF y.done THEN y ELSE Turn(y),
              [x EXCEPT !.done = FALSE], [i \in 1..Len(x.es) + 2 |-> i])

\* VideoEsAssembler::process_payload()
VideoPayload(x, payload, time) ==
  SliceEs(IF payload = <<>> THEN x
          ELSE [x EXCEPT !.es = @ \o payload,
                         !.chunks = Append(@, [offset |-> x.base + Len(x.es), time |-> time])])

\* flush(): the unit that nothing follows.
FlushVideo(x) ==
  LET y == SliceEs(x)
      header == Header(y.es)
      last == IF Len(y.es) >= 4 THEN SubSeq(y.es, header, Len(y.es)) ELSE <<>>
  IN [EmitNal(y, last, TimeAt(y, y.base + header - 1)) EXCEPT !.es = <<>>, !.chunks = <<>>, !.base = 0]

-----------------------------------------------------------------------------
(* audio.rs *)

Later(time) == IF time = None THEN None ELSE time + Duration

\* Mutant: the time of a frame that began in the packet before is not kept.
FrameNow(a, time) ==
  Emit(IF a.x.audioTrack THEN a.x ELSE Emit([a.x EXCEPT !.audioTrack = TRUE], [what |-> "audioTrack"]),
       [what |-> "audio", frame |-> SubSeq(a.data, 1, a.data[2]),
        time |-> time, sequence |-> a.x.audioSeq])

\* A frame comes out, behind the track if it is the first.
Frame(a, time) ==
  Emit(IF a.x.audioTrack THEN a.x ELSE Emit([a.x EXCEPT !.audioTrack = TRUE], [what |-> "audioTrack"]),
       [what |-> "audio", frame |-> SubSeq(a.data, 1, a.data[2]),
        time |-> a.time, sequence |-> a.x.audioSeq])

\* The turns of process_payload(): a.old bytes of a.data were there before the payload.
AudioTurn(a, payloadTime) ==
  LET now == IF a.old <= 0 /\ ~a.switched THEN [a EXCEPT !.time = payloadTime, !.switched = TRUE] ELSE a
      n == now.data[2]
  IN IF Len(now.data) < 2 \/ (now.data[1] = Sync /\ n > Len(now.data))
     THEN [now EXCEPT !.done = TRUE]
     ELSE IF now.data[1] # Sync THEN [now EXCEPT !.data = <<>>, !.done = TRUE]
     ELSE [now EXCEPT !.x = [Frame(now, payloadTime) EXCEPT !.audioSeq = @ + 1],
                      !.data = SubSeq(@, n + 1, Len(@)), !.old = @ - n, !.time = Later(@)]

\* AudioAssembler::process_payload(): a partial frame is kept, with its time.
AudioPayload(x, payload, time) ==
  LET fresh == x.left = <<>>
      data == x.left \o payload
      begin == [x |-> [x EXCEPT !.left = <<>>, !.leftTime = None], data |-> data, old |-> Len(x.left),
                time |-> IF fresh THEN time ELSE x.leftTime, switched |-> fresh, done |-> FALSE]
      a == FoldLeft(LAMBDA b, i : IF b.done \/ b.data = <<>> THEN b ELSE AudioTurn(b, time),
                    begin, data)
  IN IF a.data = <<>> THEN a.x ELSE [a.x EXCEPT !.left = a.data, !.leftTime = a.time]

-----------------------------------------------------------------------------
(* demuxer.rs *)

\* find_ps_boundary(), from byte `from` on; Len(s) + 1 for none.
IsPsBoundary(s, i) ==
  \/ At(s, i, <<0, 0, 0, 1>>) /\ i + 4 <= Len(s) /\ IsBoundary(s[i + 4])
  \/ At(s, i, <<0, 0, 1>>) /\ i + 3 <= Len(s) /\ IsBoundary(s[i + 3])
PsBoundary(s, from) ==
  FoldLeft(LAMBDA i, j : IF i # j \/ IsPsBoundary(s, i) THEN i ELSE i + 1,
           from, [k \in 1..Len(s) |-> k])

More(x) == [x EXCEPT !.progress = FALSE]
Drained(x, n) == [x EXCEPT !.buffer = SubSeq(@, n + 1, Len(@))]

\* What a whole packet of n bytes holds.
Payload(x, n) ==
  LET code == x.buffer[4]
      payload == SubSeq(x.buffer, 7, n)
      time == x.buffer[6]
  IN IF code = Codes.private
     THEN IF n > 5 THEN Emit(x, [what |-> "private", payload |-> SubSeq(x.buffer, 6, n)]) ELSE x
     ELSE IF n < 6 THEN x
     ELSE IF code = Codes.video THEN VideoPayload(x, payload, time)
     ELSE AudioPayload(x, payload, time)

\* Mutant: a packet without a length ends where the data does.
ProcessPesEarly(x, boundary) ==
  LET length == x.buffer[5]
      n == IF length > 0 THEN 5 + length ELSE boundary - 1
  IN IF length > 0 /\ n > MaxPacket THEN [x EXCEPT !.fault = TRUE]
     ELSE IF n > Len(x.buffer) THEN More(x)
     ELSE Drained(Payload(x, n), n)

\* process_pes(): a packet without a length ends before a boundary, or with the stream.
ProcessPes(x, boundary) ==
  LET length == x.buffer[5]
      n == IF length > 0 THEN 5 + length ELSE boundary - 1
  IN IF length > 0 /\ n > MaxPacket THEN [x EXCEPT !.fault = TRUE]
     ELSE IF n > Len(x.buffer) \/ (length = 0 /\ boundary > Len(x.buffer) /\ ~x.ended) THEN More(x)
     ELSE Drained(Payload(x, n), n)

\* skip_system_packet()
SkipSystem(x) ==
  LET n == 5 + x.buffer[5]
  IN IF n > MaxPacket THEN [x EXCEPT !.fault = TRUE]
     ELSE IF n > Len(x.buffer) THEN More(x) ELSE Drained(x, n)

\* find_start_code() of scan.rs
StartAt(s) == LET at == {i \in DOMAIN s : At(s, i, <<0, 0, 1>>)}
              IN IF at = {} THEN 0 ELSE CHOOSE i \in at : \A j \in at : i <= j

\* process_one()
ProcessOne(x, start) ==
  LET code == x.buffer[4]
  IN IF start = 0
     THEN More(Drained(x, IF Len(x.buffer) > 2 THEN Len(x.buffer) - 2 ELSE 0))
     ELSE IF start > 1 THEN Drained(x, start - 1)
     ELSE IF Len(x.buffer) < 4 THEN More(x)
     ELSE IF code = Codes.end THEN [Drained(x, 4) EXCEPT !.ended = TRUE]
     ELSE IF code \notin {Codes[k] : k \in DOMAIN Codes} THEN Drained(x, 4)
     ELSE IF Len(x.buffer) < 5 THEN More(x)
     ELSE IF code = Codes.pack
     THEN IF 5 + x.buffer[5] > Len(x.buffer) THEN More(x) ELSE Drained(x, 5 + x.buffer[5])
     ELSE IF code = Codes.system THEN SkipSystem(x)
     ELSE ProcessPes(x, PsBoundary(x.buffer, 6))

\* The loop of next_event(): until there is an event, a fault or no progress.
Process(x) ==
  FoldLeft(LAMBDA y, i : IF y.fault \/ ~y.progress \/ y.events # <<>> THEN y
                         ELSE ProcessOne(y, StartAt(y.buffer)),
           x, [i \in 1..Len(x.buffer) + 1 |-> i])

\* The end of the stream, once the assembler was flushed and has nothing more.
Ending(x) ==
  IF x.fault \/ x.events # <<>> \/ ~x.ended \/ x.eof THEN x
  ELSE LET y == FlushVideo(x)
       IN IF y.events # <<>> THEN y ELSE Emit([y EXCEPT !.eof = TRUE], [what |-> "eof"])

Scratch(x) == [fault |-> FALSE, progress |-> TRUE, done |-> FALSE] @@ x
Kept(x) == [f \in DOMAIN Fresh |-> x[f]]

\* next_event(), which its user does not call again after an error
NextEvent ==
  /\ out.at = "draining"
  /\ \E x \in {IF d.events # <<>> \/ d.error THEN Scratch(d) ELSE Ending(Process(Scratch(d)))} :
       IF x.events = <<>>
       THEN /\ d' = Kept(x)
            /\ out' = [out EXCEPT !.at = IF x.fault \/ x.error THEN "failed" ELSE "waiting"]
       ELSE /\ d' = Kept([x EXCEPT !.events = Tail(@)])
            /\ out' = [out EXCEPT !.events = Append(@, Head(x.events))]
  /\ UNCHANGED <<source, wire, times>>

\* push() of what arrives
Push(cut) ==
  LET n == IF cut < Len(wire) THEN cut ELSE Len(wire) IN
  /\ wire # <<>> /\ out.at = "waiting"
  /\ d' = IF Len(d.buffer) + n > MaxBuffer THEN [d EXCEPT !.error = TRUE]
          ELSE [d EXCEPT !.buffer = @ \o SubSeq(wire, 1, n)]
  /\ wire' = SubSeq(wire, n + 1, Len(wire))
  /\ out' = [out EXCEPT !.at = "draining"]
  /\ UNCHANGED <<source, times>>

End ==
  /\ source.closed /\ wire = <<>> /\ out.at = "waiting" /\ ~d.ended
  /\ d' = [d EXCEPT !.ended = TRUE]
  /\ out' = [out EXCEPT !.at = "draining"]
  /\ UNCHANGED <<source, wire, times>>

-----------------------------------------------------------------------------
(* The multiplexer *)

Write(bytes) == ~source.closed /\ wire = <<>> /\ wire' = bytes

\* The next bytes of a stream in a packet, with a time or without one.  Only a packet of
\* video may leave out its length, and only if no zero byte is its last: before a start
\* code it would be taken for a part of that.
SendMedia(kind, length, bounded) ==
  LET from == source.sent[kind]
      to == IF from + length < Len(Bytes(kind)) THEN from + length ELSE Len(Bytes(kind))
      time == IF length \in Untimed THEN None ELSE 70 + 10 * from
  IN /\ from < Len(Bytes(kind)) /\ (~bounded => kind = "video" /\ Bytes(kind)[to] # 0)
     /\ Write(<<0, 0, 1, Codes[kind], IF bounded THEN 1 + to - from ELSE 0, time>>
                \o SubSeq(Bytes(kind), from + 1, to))
     /\ source' = [source EXCEPT !.sent[kind] = to]
     /\ times' = [times EXCEPT ![kind] = @ \o [i \in 1..to - from |-> time]]
     /\ UNCHANGED <<d, out>>

\* A pack header, a system header, private data, or a code that nobody knows.
SendExtra(code) ==
  /\ source.extras < MaxExtras
  /\ Write(<<0, 0, 1, code, 1, 50>>)
  /\ source' = [source EXCEPT !.extras = @ + 1]
  /\ UNCHANGED <<d, times, out>>

\* The program end code, or no more data without one, behind whole streams.
Close(code) ==
  /\ \A k \in Kinds : source.sent[k] \in {0, Len(Bytes(k))}
  /\ Write(IF code THEN <<0, 0, 1, Codes.end>> ELSE <<>>)
  /\ source' = [source EXCEPT !.closed = TRUE]
  /\ UNCHANGED <<d, times, out>>

\* reset(), for another stream.
Reset ==
  /\ source' = [sent |-> [k \in Kinds |-> 0], extras |-> 0, closed |-> FALSE]
  /\ d' = Fresh /\ wire' = <<>> /\ times' = [k \in Kinds |-> <<>>]
  /\ out' = [events |-> <<>>, at |-> "waiting"]

Next ==
  \/ \E k \in Kinds, n \in Lengths, bounded \in BOOLEAN : SendMedia(k, n, bounded)
  \/ \E code \in {Codes.pack, Codes.system, Codes.private, 90} : SendExtra(code)
  \/ \E code \in BOOLEAN : Close(code)
  \/ \E cut \in Cuts : Push(cut)
  \/ NextEvent \/ End \/ Reset

Spec == Init /\ [][Next]_vars

-----------------------------------------------------------------------------
(* What it promises *)

Of(what) == SelectSeq(out.events, LAMBDA e : e.what = what)

\* Where the header of NAL unit i is in the stream, and where audio frame i begins.
HeaderAt(i) == Len(FlattenSeq([j \in 1..i - 1 |-> Coded(j)])) + Video[i].zeros + 4
FrameAt(i) == FoldLeft(+, 1, SubSeq(Audio, 1, i - 1))
Units == SelectSeq([i \in DOMAIN Video |-> i], LAMBDA i : ~IsNal(Video[i].nal, SetTypes))

\* Every unit of video comes out whole and in order, with the time of the packet that
\* its header came in.
VideoWhole ==
  LET video == Of("video") IN
  /\ Len(video) <= Len(Units)
  /\ \A i \in DOMAIN video :
       /\ Trimmed(video[i].nal) = Video[Units[i]].nal
       /\ video[i].time = times["video"][HeaderAt(Units[i])]
       /\ video[i].sequence = i - 1

\* Every audio frame comes out whole and in order.  The first that begins in a packet
\* has its time, and each other one there is a frame later.
AudioWhole ==
  LET audio == Of("audio")
      Same(i, j) == \A k \in FrameAt(j)..FrameAt(i) : times["audio"][k] = times["audio"][FrameAt(i)]
  IN /\ Len(audio) <= Len(Audio)
     /\ \A i \in DOMAIN audio :
          LET first == CHOOSE j \in 1..i : Same(i, j) /\ \A k \in 1..i : Same(i, k) => j <= k
              time == times["audio"][FrameAt(i)]
          IN /\ audio[i].frame = SubSeq(AudioBytes, FrameAt(i), FrameAt(i) + Audio[i] - 1)
             /\ audio[i].time = IF time = None THEN None ELSE time + (i - first) * Duration
             /\ audio[i].sequence = i - 1

\* The end comes once and last, after everything that was sent.
EndIsLast ==
  \A i \in DOMAIN out.events :
    out.events[i].what = "eof" =>
      /\ i = Len(out.events)
      /\ source.sent["video"] = Len(VideoBytes) => Len(Of("video")) = Len(Units)
      /\ source.sent["audio"] = Len(AudioBytes) => Len(Of("audio")) = Len(Audio)
EndTold == d.ended /\ out.at = "waiting" => d.eof

PsSafe == VideoWhole /\ AudioWhole /\ EndIsLast /\ EndTold
=============================================================================
