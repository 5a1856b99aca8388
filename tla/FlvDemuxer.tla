------------------------------- MODULE FlvDemuxer -------------------------------
(***************************************************************************)
(* The incremental FLV demuxer (cheetah-container-flv: demuxer.rs,         *)
(* header.rs, audio.rs, video.rs), drained as the transmuxer does it,      *)
(* against a source that writes tags with or without PreviousTagSize       *)
(* fields and a connection that cuts them anywhere (both external).        *)
(*                                                                         *)
(* The wire is a sequence of cells, the largest pieces that the code never *)
(* looks at the middle of: the file header, a size field (4 bytes), the    *)
(* first 4 and the other 7 bytes of a tag header, and the body's.          *)
(***************************************************************************)
EXTENDS Integers, Sequences

CONSTANTS Modes,       \* of FlvMode: "Auto", "Stream", "File"
          TagKinds,    \* of AllKinds
          BodyLens,    \* cells of a body; with one there is no payload
          Steps,       \* of the source's time between tags
          Start,       \* and its first time
          Mod,         \* 2^32 in the code: timestamps are modulo Mod
          Threshold,   \* RESET_THRESHOLD
          ShrinkAt,    \* 4096 in the code: consumed cells that are kept
          MaxBuffer,   \* MAX_BUFFER
          MaxTags, MaxRestarts   \* bounds, for model checking

VARIABLES
  mode,     \* FlvMode, and whether the source writes size fields
  d,        \* FlvDemuxer
  source,   \* the tags written and their time; what a reader should know by now
  coming,   \* cells written that did not arrive yet
  due,      \* ghost: the events that should still come out
  out,      \* the last event that came out, and the one that was due
  at        \* the consumer: in next_event(), failed, or waiting, maybe too early

vars == <<mode, d, source, coming, due, out, at>>

AllKinds == {"g711", "aacConfig", "aac", "videoConfig", "video", "videoOther", "script"}
NoEvent == [what |-> "none", n |-> 0, time |-> 0, epoch |-> 0]
Event(what, n) == [NoEvent EXCEPT !.what = what, !.n = n]
Packet(n, time, epoch) == [what |-> "packet", n |-> n, time |-> time, epoch |-> epoch]

Init ==
  /\ mode \in {m \in [parse : Modes, sizes : BOOLEAN] :
                 m.parse # "Auto" => m.sizes = (m.parse = "File")}
  /\ d = [buffer |-> <<>>, read |-> 0, header |-> FALSE, prev |-> 0, sizeDue |-> FALSE,
          pending |-> <<>>, codec |-> "Aac", format |-> FALSE, last |-> -1, epoch |-> 0,
          error |-> FALSE]
  /\ source = [n |-> 0, time |-> Start, restarts |-> 0, codec |-> "Aac", format |-> FALSE,
               last |-> -1, epoch |-> 0]
  /\ coming = <<[k |-> "flv", v |-> 0]>> \o (IF mode.sizes THEN <<[k |-> "size", v |-> 0]>> ELSE <<>>)
  /\ due = <<Event("header", 0)>>
  /\ out = [event |-> NoEvent, expected |-> NoEvent]
  /\ at = "waiting"

TypeOK ==
  /\ d.read \in 0..Len(d.buffer) /\ d.header \in BOOLEAN /\ Len(d.pending) <= 1
  /\ at \in {"waiting", "early", "draining", "failed"}
  /\ source.n \in 0..MaxTags

-----------------------------------------------------------------------------
(* The demuxer *)

Available(x) == Len(x.buffer) - x.read
Cell(x, i) == x.buffer[x.read + i]
Skip(x, k) == [x EXCEPT !.read = @ + k]

\* shrink()
Shrunk(x) ==
  IF x.read > ShrinkAt /\ 2 * x.read > Len(x.buffer)
  THEN [x EXCEPT !.buffer = SubSeq(@, x.read + 1, Len(@)), !.read = 0]
  ELSE x

\* Mutant: a size field that has not arrived is not waited for.
SizeGivenUp(x) ==
  IF mode.parse # "Stream" /\ Available(x) > 0 /\ Cell(x, 1).k = "size" /\ Cell(x, 1).v = x.prev
  THEN Skip(x, 1) ELSE x

\* try_consume_previous_tag_size(), except that File mode asks for more data first.
TrySize(x) ==
  IF mode.parse = "Stream" THEN x
  ELSE IF Available(x) = 0 THEN [x EXCEPT !.sizeDue = TRUE]
  ELSE IF /\ Cell(x, 1).k = "size" /\ Cell(x, 1).v = x.prev
          /\ Available(x) > 1 => Cell(x, 2).k = "type"
  THEN Skip(x, 1)
  ELSE x

\* Mutant: a timestamp that wraps begins a new epoch.
UnwrapRaw(x, raw) ==
  IF x.last >= 0 /\ raw < x.last - Threshold
  THEN [x EXCEPT !.last = raw, !.epoch = @ + 1]
  ELSE [x EXCEPT !.last = raw]

\* unwrapped_timestamp_ms(): the nearest time that has this counter, unless that is
\* far behind.
Unwrapped(x, raw) ==
  LET low == x.last % Mod
      delta == raw - low
      near == x.last + delta
                + (IF delta > Mod \div 2 THEN -Mod ELSE IF delta < -(Mod \div 2) THEN Mod ELSE 0)
  IN IF x.last < 0 THEN [x EXCEPT !.last = raw]
     ELSE IF near < x.last - Threshold THEN [x EXCEPT !.last = raw, !.epoch = @ + 1]
     ELSE [x EXCEPT !.last = near]

Done(x, event) == [x |-> x, event |-> event]

\* AudioTagHeader and audio_format_from_header(): the codec a tag names, and whether
\* its payload tells the format; AAC tells it in a tag of its own.
CodecOf(tag) == IF tag.kind = "g711" THEN "G711" ELSE "Aac"
TellsFormat(tag) == tag.kind = "g711" /\ tag.len > 1

\* process_audio_tag(): a track is announced before its first packet.
ProcessAudio(x, tag) ==
  LET changed == x.codec # CodecOf(tag) \/ (TellsFormat(tag) /\ ~x.format)
      y == [x EXCEPT !.codec = CodecOf(tag), !.format = @ \/ TellsFormat(tag)]
      z == Unwrapped(y, tag.raw)
      packet == Packet(tag.n, z.last, z.epoch)
  IN IF tag.kind = "aacConfig" THEN Done([y EXCEPT !.format = TRUE], Event("track", tag.n))
     ELSE IF tag.len = 1 THEN Done(y, IF changed THEN Event("track", tag.n) ELSE NoEvent)
     ELSE IF changed THEN Done([z EXCEPT !.pending = <<packet>>], Event("track", tag.n))
     ELSE Done(z, packet)

\* process_video_tag(): a tag without payload gives no event, and one of another type
\* (the end of the sequence, or unknown) neither, however long it is.
ProcessVideo(x, tag) ==
  LET z == Unwrapped(x, tag.raw)
  IN IF tag.kind = "videoConfig" THEN Done(x, Event("track", tag.n))
     ELSE IF tag.kind = "videoOther" \/ tag.len = 1 THEN Done(x, NoEvent)
     ELSE Done(z, Packet(tag.n, z.last, z.epoch))

\* process_tag() of a tag that arrived entirely.
ProcessTag(x) ==
  LET tag == Cell(x, 1).tag
      y == Shrunk([Skip(x, 2 + tag.len) EXCEPT !.prev = 2 + tag.len])
  IN IF tag.kind \in {"g711", "aacConfig", "aac"} THEN ProcessAudio(y, tag)
     ELSE IF tag.kind = "script" THEN Done(y, Event("script", tag.n))
     ELSE ProcessVideo(y, tag)

Back(x, what) == [x |-> x, back |-> what, event |-> NoEvent]
Give(x, event) == [x |-> x, back |-> "event", event |-> event]

\* A tag, and the size field behind it if it is there.  A tag without event whose end
\* is where it began (shrink() moved it to 0) passes for one that did not arrive.
ParseTag(x) ==
  IF Available(x) = 0 \/ Available(x) < (IF Cell(x, 1).k = "type" THEN 2 ELSE 3) THEN Back(x, "none")
  ELSE IF Cell(x, 1).k # "type" THEN Back(x, "malformed")
  ELSE IF Available(x) < 2 + Cell(x, 1).tag.len THEN Back(x, "none")
  ELSE LET p == ProcessTag(x)
       IN IF p.event = NoEvent /\ p.x.read = x.read THEN Back(p.x, "early")
          ELSE IF mode.parse = "File" /\ Available(p.x) = 0 THEN Back(p.x, "more")
          ELSE IF p.event = NoEvent THEN Back(TrySize(p.x), "loop")
          ELSE Give(TrySize(p.x), p.event)

\* parse_header()
ParseHeader(x) ==
  IF Available(x) = 0 THEN Back(x, "none")
  ELSE Give(Shrunk([Skip(x, 1) EXCEPT !.header = TRUE]), Event("header", 0))

\* consume_optional_previous_tag_size() finds the size field in front of the first tag.
FirstSize(x) == mode.parse # "Stream" /\ Available(x) > 0 /\ Cell(x, 1) = [k |-> "size", v |-> 0]

\* One turn of the loop of next_event().
Turn(x) ==
  IF x.error THEN Back(x, "limit")
  ELSE IF x.pending # <<>> THEN Give([x EXCEPT !.pending = Tail(@)], Head(x.pending))
  ELSE IF ~x.header THEN ParseHeader(x)
  ELSE IF x.sizeDue
  THEN IF Available(x) = 0 THEN Back(x, IF mode.parse = "File" THEN "more" ELSE "none")
       ELSE Back([TrySize(x) EXCEPT !.sizeDue = FALSE], "loop")
  ELSE IF x.prev = 0 /\ FirstSize(x) THEN Back(Skip(x, 1), "loop")
  ELSE IF x.prev = 0 /\ mode.parse = "File"
  THEN Back(x, IF Available(x) = 0 THEN "more" ELSE "malformed")
  ELSE ParseTag(x)

-----------------------------------------------------------------------------
(* The source, the connection and the consumer *)

Cells(tag) ==
  <<[k |-> "type", tag |-> tag], [k |-> "rest", tag |-> tag]>>
    \o [i \in 1..tag.len |-> [k |-> "body", tag |-> tag]]
    \o (IF mode.sizes THEN <<[k |-> "size", v |-> 2 + tag.len]>> ELSE <<>>)

\* What a tag means, whatever the wire: events with the source's own time.  A packet
\* that is far behind the last one is of a new epoch.
Means(s, tag) ==
  LET audio == tag.kind \in {"g711", "aac", "aacConfig"}
      news == audio /\ (s.codec # CodecOf(tag) \/ (TellsFormat(tag) /\ ~s.format))
      isPacket == tag.kind \in {"g711", "aac", "video"} /\ tag.len > 1
      epoch == IF isPacket /\ s.time < s.last - Threshold THEN s.epoch + 1 ELSE s.epoch
      time == IF s.last < 0 THEN s.time % Mod ELSE s.time      \* counted from the first packet
  IN [s |-> [s EXCEPT !.time = time, !.codec = IF audio THEN CodecOf(tag) ELSE @,
                      !.format = @ \/ tag.kind = "aacConfig" \/ TellsFormat(tag),
                      !.last = IF isPacket THEN time ELSE @, !.epoch = epoch],
      events |-> (IF news \/ tag.kind \in {"aacConfig", "videoConfig"} THEN <<Event("track", tag.n)>> ELSE <<>>)
                   \o (IF tag.kind = "script" THEN <<Event("script", tag.n)>> ELSE <<>>)
                   \o (IF isPacket THEN <<Packet(tag.n, time, epoch)>> ELSE <<>>)]

WriteTag(kind, len, s) ==
  LET tag == [n |-> s.n, kind |-> kind, len |-> len, raw |-> s.time % Mod]
      m == Means(s, tag)
  IN /\ source.n < MaxTags /\ s.time >= 0
     /\ source' = m.s
     /\ due' = due \o m.events
     /\ coming' = coming \o Cells(tag)
     /\ UNCHANGED <<mode, d, out, at>>

\* Packets are closer together than half the counter.
Write ==
  \E kind \in TagKinds, len \in BodyLens, step \in Steps :
    /\ source.last >= 0 => source.time + step - source.last < Mod \div 2
    /\ WriteTag(kind, len, [source EXCEPT !.n = @ + 1, !.time = @ + step])

\* The source starts again at 0, where the counter allows to tell that from a wrap (in
\* its upper half) and from a small step back (just behind a wrap).
Restart ==
  /\ source.restarts < MaxRestarts
  /\ source.last % Mod <= Mod \div 2
  /\ source.last >= Mod => source.last % Mod > Threshold
  /\ WriteTag("video", 2, [source EXCEPT !.n = @ + 1, !.time = 0, !.restarts = @ + 1])

\* push(), which the transmuxer follows with a drain.
Push ==
  /\ at \in {"waiting", "early"}
  /\ \E k \in 1..Len(coming) :
       /\ coming' = SubSeq(coming, k + 1, Len(coming))
       /\ d' = IF Len(d.buffer) + k > MaxBuffer THEN [d EXCEPT !.error = TRUE]
               ELSE [d EXCEPT !.buffer = @ \o SubSeq(coming, 1, k)]
  /\ at' = "draining"
  /\ UNCHANGED <<mode, source, due, out>>

\* next_event() and drain_demux(): an error ends it, need of data does not.
NextEvent ==
  LET r == Turn(d)
  IN /\ at = "draining"
     /\ d' = r.x
     /\ at' = CASE r.back \in {"none", "more"} -> "waiting"
                [] r.back = "early" -> "early"
                [] r.back \in {"malformed", "limit"} -> "failed"
                [] OTHER -> "draining"
     /\ IF r.back = "event"
        THEN /\ out' = [event |-> r.event, expected |-> IF due = <<>> THEN NoEvent ELSE Head(due)]
             /\ due' = IF due = <<>> THEN due ELSE Tail(due)
        ELSE UNCHANGED <<out, due>>
     /\ UNCHANGED <<mode, source, coming>>

Next == Write \/ Restart \/ Push \/ NextEvent

Spec == Init /\ [][Next]_vars

-----------------------------------------------------------------------------
(* Properties *)

\* Wherever the stream is cut, what comes out is what was written: in order, a track
\* before its first packet, and packets at the source's time although the counter
\* wraps, in a new epoch only where the source started again.
EventsRight == out.event = out.expected

\* When the demuxer asks for more there is nothing more in what it has: no event of a
\* tag that arrived is withheld or lost, a trailing size field missing or not.  It asks
\* too early where streams have no size fields, behind a tag without event that emptied
\* the consumed part of the buffer; the tags behind it come with the next push.
NothingWithheld ==
  /\ at = "waiting" /\ coming = <<>> => due = <<>>
  /\ at = "early" => ~mode.sizes /\ d.read = 0

\* Streams with and without size fields can be read; only the limit ends the stream.
\* File mode alone gets no further than the header: the field in front of the first tag
\* is looked for again behind itself.
OnlyLimitFails ==
  /\ at = "failed" => d.error \/ mode.parse = "File"
  /\ mode.parse = "File" => out.event \in {NoEvent, Event("header", 0)}

FlvSafe == TypeOK /\ EventsRight /\ NothingWithheld /\ OnlyLimitFails
=============================================================================
