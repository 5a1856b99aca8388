-------------------------------- MODULE TsFrames --------------------------------
(***************************************************************************)
(* What the MPEG-TS demuxer (cheetah-container-mpegts, demuxer.rs) makes   *)
(* of the PES packets that TsDemuxer assembles: access units, audio        *)
(* frames, decoder configurations and times.  The encoder and the          *)
(* multiplexer are external.                                               *)
(*                                                                         *)
(* A PES packet of video is a sequence of NAL units, one of audio a        *)
(* sequence of frames, of which the first and the last may be cut.  Times  *)
(* are carried modulo Mod.  An optional value is a sequence of at most one *)
(* element.                                                                *)
(***************************************************************************)
EXTENDS Integers, Sequences, FiniteSets, SequencesExt

CONSTANTS Codecs,     \* of the track: "h264", "h265", "aac", "mp3", "g711", "data"
          Video,      \* the kinds of NAL unit that a PES packet of video may hold, in order
          Audio,      \* the same of audio
          Start,      \* time of the first PES packet; Start + Offset < Mod, since pts and
                      \* dts of the first are not compared with each other
          Step,       \* between those of video
          Offset,     \* of the presentation of a reordered picture
          Duration,   \* of a frame of audio
          Mod,        \* 2^33 in the code
          MaxPes      \* bound on the PES packets, for model checking

VARIABLES
  source,  \* the encoder: what it sent, its clock, and the last parameter sets
  track,   \* TrackState
  out      \* the last PES packet, and the events it gave

vars == <<source, track, out>>

IsVideo(codec) == codec \in {"h264", "h265"}
SetKinds == {"vps", "sps", "pps"}
NoTime == [pts |-> <<>>, dts |-> <<>>]

Init ==
  /\ \E codec \in Codecs :
       source = [codec |-> codec, pes |-> 0, sent |-> 0, frames |-> 0, format |-> 1, open |-> FALSE,
                 sets |-> [k \in SetKinds |-> 0], intact |-> FALSE, untimed |-> FALSE]
  /\ track = [time |-> NoTime, sets |-> [k \in SetKinds |-> <<>>], parsed |-> 0, config |-> <<>>]
  /\ out = [units |-> <<>>, time |-> NoTime, clock |-> Start, before |-> source,
            config |-> <<>>, events |-> <<>>]

TypeOK ==
  /\ source.pes \in 0..MaxPes /\ source.codec \in Codecs
  /\ \A k \in SetKinds : source.sets[k] \in 0..source.sent
  /\ Len(track.time.pts) <= 1 /\ Len(track.time.dts) <= 1 /\ Len(track.config) <= 1

-----------------------------------------------------------------------------
(* Times *)

\* Mutant: a wrap is looked for, a step back over one is not.
UnwrappedForward(value, previous) ==
  LET delta == (value % Mod) - (previous % Mod)
  IN previous + delta + (IF delta < 0 THEN Mod ELSE 0)

\* Timestamp::unwrapped_around(): the time nearest to previous that is value modulo Mod.
Unwrapped(value, previous) ==
  LET delta == (value % Mod) - (previous % Mod)
  IN previous + delta
       + (IF delta > Mod \div 2 THEN 0 - Mod ELSE IF delta < 0 - (Mod \div 2) THEN Mod ELSE 0)

Or(a, b) == IF a # <<>> THEN a ELSE b
Around(value, ref) ==
  IF value = <<>> \/ ref = <<>> THEN value ELSE <<Unwrapped(value[1], ref[1])>>

\* MediaTime::unwrapped_33bit()
Unwrapped33(time, previous) ==
  [pts |-> Around(time.pts, previous.pts), dts |-> Around(time.dts, Or(previous.dts, previous.pts))]

\* MediaTime::checked_add()
Later(time, ticks) ==
  [pts |-> [i \in DOMAIN time.pts |-> time.pts[i] + ticks],
   dts |-> [i \in DOMAIN time.dts |-> time.dts[i] + ticks]]

-----------------------------------------------------------------------------
(* Video *)

\* emit_packet()
Packet(units, time, key) == [type |-> "packet", units |-> units, time |-> time, key |-> key]
TrackEvent(config) == [type |-> "track", config |-> config]

\* split_annexb(): without a start code nothing is found, and a unit of which only
\* the start code is there is left out.
SplitAnnexb(units) == SelectSeq(units, LAMBDA u : u.kind # "cut")
NoStartCode(units) == units # <<>> /\ \A i \in DOMAIN units : units[i].kind = "junk"

IsSlice(u) == u.kind \in {"idr", "slice", "rest"}
IsFirst(u) == u.kind # "rest"   \* first_mb_in_slice = 0, first_slice_segment_in_pic_flag

\* Mutant: only access unit delimiters begin a group.
GroupedByAud(nals) ==
  LET Add(g, u) == IF u.kind = "aud" /\ g # <<>> THEN Append(g, <<u>>)
                   ELSE IF g = <<>> THEN <<<<u>>>>
                   ELSE Append(Front(g), Append(Last(g), u))
  IN FoldLeft(Add, <<>>, nals)

\* group_h264_nals() and group_h265_nals()
Grouped(nals) ==
  LET Add(g, u) ==
        IF u.kind = "aud" \/ (IsSlice(u) /\ g.vcl /\ IsFirst(u))
        THEN [done |-> IF g.now = <<>> THEN g.done ELSE Append(g.done, g.now), now |-> <<u>>, vcl |-> IsSlice(u)]
        ELSE [g EXCEPT !.now = Append(@, u), !.vcl = @ \/ IsSlice(u)]
      all == FoldLeft(Add, [done |-> <<>>, now |-> <<>>, vcl |-> FALSE], nals)
  IN IF all.now = <<>> THEN all.done ELSE Append(all.done, all.now)

Numbers(nals, kinds) == LET of == SelectSeq(nals, LAMBDA u : u.kind \in kinds)
                        IN [i \in DOMAIN of |-> of[i].n]

\* A set that the parser refuses is a set nevertheless.
Kinds(k) == IF k = "sps" THEN {"sps", "badSps"} ELSE {k}

\* Mutant: what this PES packet does not hold is forgotten.
UpdatedSetsAll(sets, nals) == [k \in SetKinds |-> Numbers(nals, Kinds(k))]

\* emit_h264() and emit_h265(): the lists that this PES packet has units for.
UpdatedSets(sets, nals) ==
  [k \in SetKinds |->
     LET of == Numbers(nals, Kinds(k))
     IN IF of = <<>> THEN sets[k] ELSE of]

\* h264_sps: the last that Sps::parse() accepted.  (Only of H.264.)
Parsed(parsed, nals) == LET of == Numbers(nals, {"sps"}) IN IF of = <<>> THEN parsed ELSE Last(of)

\* update_h264_config(): none without a PPS, or an SPS that parses.
H264Config(sets, parsed) ==
  IF parsed = 0 \/ sets["sps"] = <<>> \/ sets["pps"] = <<>> THEN <<>>
  ELSE <<[sets |-> [sets EXCEPT !["vps"] = <<>>], format |-> parsed]>>

\* update_h265_config(): an SPS is enough.
H265Config(sets) ==
  IF sets["sps"] = <<>> THEN <<>> ELSE <<[sets |-> sets, format |-> sets["sps"][1]]>>

Told(config, old) == IF config = <<>> \/ config = old THEN <<>> ELSE <<TrackEvent(config)>>

EmitVideo(t, nals, codec) ==
  LET sets == UpdatedSets(t.sets, nals)
      parsed == Parsed(t.parsed, nals)
      config == IF codec = "h264" THEN H264Config(sets, parsed) ELSE H265Config(sets)
      groups == Grouped(nals)
  IN IF nals = <<>> THEN [track |-> t, events |-> <<>>]
     ELSE [track |-> [t EXCEPT !.sets = sets, !.parsed = parsed, !.config = Or(config, @)],
           events |-> Told(config, t.config)
                      \o [i \in DOMAIN groups |->
                            Packet(groups[i], t.time, \E j \in DOMAIN groups[i] : groups[i][j].kind = "idr")]]

-----------------------------------------------------------------------------
(* Audio *)

\* The frames up to the first unit that is not one.
Leading(units) ==
  SelectInSeq(Append(units, [kind |-> "end"]), LAMBDA u : u.kind # "frame") - 1

\* emit_aac(): AdtsHeader::parse() of each, and the description of the first.
AacFrames(units) == SubSeq(units, 1, Leading(units))

\* split_mp3(): scans for a sync word, and fails on one that begins no frame.
Mp3Frames(units) ==
  LET from == SelectInSeq(units, LAMBDA u : u.kind # "tail")
      rest == IF from = 0 THEN <<>> ELSE SubSeq(units, from, Len(units))
  IN IF \E i \in 1..(Leading(rest) + 1) : i \in DOMAIN rest /\ rest[i].kind = "falseSync" THEN <<>>
     ELSE SubSeq(rest, 1, Leading(rest))

\* Mutant: the frames of a PES packet share its time.
TimedTogether(t, frames) ==
  [track |-> t, events |-> [i \in DOMAIN frames |-> Packet(<<frames[i]>>, t.time, FALSE)]]

\* Each after the one before; TrackState::last_time is where the next would be.
Timed(t, frames) ==
  [track |-> [t EXCEPT !.time = Later(@, Len(frames) * Duration)],
   events |-> [i \in DOMAIN frames |-> Packet(<<frames[i]>>, Later(t.time, (i - 1) * Duration), FALSE)]]

EmitAac(t, frames) ==
  IF frames = <<>> THEN [track |-> t, events |-> <<>>]
  ELSE LET config == <<[format |-> frames[1].format]>>
           timed == Timed([t EXCEPT !.config = config], frames)
       IN [timed EXCEPT !.events = Told(config, t.config) \o @]

\* emit_mp3(): the format is noted and nobody is told; what has no frame leaves whole.
EmitMp3(t, units, frames) ==
  IF frames = <<>> THEN [track |-> t, events |-> <<Packet(units, t.time, FALSE)>>]
  ELSE Timed([t EXCEPT !.config = <<[format |-> frames[1].format]>>], frames)

\* handle_pes_output()
HandlePes(t, codec, units) ==
  CASE IsVideo(codec) /\ NoStartCode(units) -> [track |-> t, events |-> <<[type |-> "error"]>>]
    [] IsVideo(codec) /\ ~NoStartCode(units) -> EmitVideo(t, SplitAnnexb(units), codec)
    [] codec = "aac" -> EmitAac(t, AacFrames(units))
    [] codec = "mp3" -> EmitMp3(t, units, Mp3Frames(units))
    [] codec = "data" -> [track |-> t, events |-> <<[type |-> "metadata", units |-> units, time |-> t.time]>>]
    [] OTHER -> [track |-> t, events |-> <<Packet(units, t.time, FALSE)>>]

-----------------------------------------------------------------------------
(* The encoder and the multiplexer *)

\* Units are numbered, those of a picture share a picture, frames begin one by one.
Begins(kind) == kind \in {"frame", "newFormat", "head"}
Unit(kinds, i) ==
  [kind |-> IF kinds[i] = "newFormat" THEN "frame" ELSE kinds[i],
   n |-> source.sent + i,
   picture |-> Cardinality({j \in 1..i : kinds[j] \in {"idr", "slice"}}),
   frame |-> source.frames + Cardinality({j \in 1..i : Begins(kinds[j])}),
   format |-> source.format + Cardinality({j \in 1..i : kinds[j] = "newFormat"})]

\* The time of a PES packet is that of the first picture or frame that begins in it.
Clock ==
  Start + (IF source.codec \in {"aac", "mp3"} THEN source.frames * Duration ELSE source.pes * Step)
Carried(stamp) ==
  CASE stamp = "none" -> NoTime
    [] stamp = "pts" -> [pts |-> <<Clock % Mod>>, dts |-> <<>>]
    [] stamp = "both" -> [pts |-> <<(Clock + Offset) % Mod>>, dts |-> <<Clock % Mod>>]

LastOf(units, kinds, old) == LET of == Numbers(units, kinds) IN IF of = <<>> THEN old ELSE Last(of)

Pes(kinds, stamp) ==
  LET units == [i \in DOMAIN kinds |-> Unit(kinds, i)]
      time == Unwrapped33(Carried(stamp), track.time)
      result == HandlePes([track EXCEPT !.time = time], source.codec, units)
  IN /\ source.pes < MaxPes
     /\ track' = result.track
     /\ out' = [units |-> units, time |-> Carried(stamp), clock |-> Clock, before |-> source,
                config |-> track.config, events |-> result.events]
     /\ source' = [source EXCEPT
          !.pes = @ + 1, !.sent = @ + Len(units),
          !.frames = @ + Cardinality({i \in DOMAIN kinds : Begins(kinds[i])}),
          !.format = IF units = <<>> THEN @ ELSE Last(units).format,
          !.open = kinds # <<>> /\ Last(kinds) = "head",
          !.sets = [k \in SetKinds |-> LastOf(units, Kinds(k), @[k])],
          !.intact = @ \/ \E i \in DOMAIN kinds : kinds[i] = "sps",
          !.untimed = @ \/ stamp = "none"]

VideoPes ==
  IsVideo(source.codec) /\ \E kinds \in Video, stamp \in {"none", "pts", "both"} : Pes(kinds, stamp)
\* A frame that was cut goes on in the next PES packet.
AudioPes ==
  /\ ~IsVideo(source.codec)
  /\ \E kinds \in Audio, stamp \in {"none", "pts"} :
       /\ source.open = (kinds # <<>> /\ kinds[1] \in {"tail", "falseSync"})
       /\ (\A i \in DOMAIN kinds : ~Begins(kinds[i])) => stamp = "none"
       /\ Pes(kinds, stamp)

\* process_elementary() on a damaged or lost packet or a discontinuity: the next time
\* is taken as it comes.
Discontinuity ==
  /\ ~source.untimed /\ source.pes > 0
  /\ track' = [track EXCEPT !.time = NoTime]
  /\ source' = [source EXCEPT !.untimed = TRUE]
  /\ UNCHANGED out

Next == VideoPes \/ AudioPes \/ Discontinuity
Spec == Init /\ [][Next]_vars

-----------------------------------------------------------------------------
(* Properties *)

Packets == SelectSeq(out.events, LAMBDA e : e.type = "packet")
Came == FlattenSeq([i \in DOMAIN Packets |-> Packets[i].units])
Pictures(units) == {units[i].picture : i \in {j \in DOMAIN units : IsSlice(units[j])}}

\* No NAL unit of a PES packet is lost, repeated or moved, no packet holds slices of
\* two pictures, no picture is in two packets, and the packet of a key picture says so.
PicturesWhole ==
  IsVideo(out.before.codec) =>
    /\ ~NoStartCode(out.units) => Came = SplitAnnexb(out.units)
    /\ \A i \in DOMAIN Packets :
         /\ Cardinality(Pictures(Packets[i].units)) <= 1
         /\ Packets[i].key = (\E j \in DOMAIN Packets[i].units : Packets[i].units[j].kind = "idr")
    /\ \A i, j \in DOMAIN Packets :
         i # j => Pictures(Packets[i].units) \cap Pictures(Packets[j].units) = {}

\* The configuration a consumer knows when event i comes.
Known(i) ==
  LET told == {j \in 1..(i - 1) : out.events[j].type = "track"}
  IN IF told = {} THEN out.config ELSE out.events[CHOOSE j \in told : \A k \in told : k <= j].config

\* The parameter set of a kind that a slice refers to: the last one sent before it.
InForce(kind, n) ==
  LastOf(SelectSeq(out.units, LAMBDA u : u.n < n), Kinds(kind), out.before.sets[kind])

\* When a picture comes out, the consumer knows the parameter sets it refers to, if
\* they were sent, once one SPS was one that the parser accepts, unless sets that follow
\* it in its PES packet took their place.
SetsKnown ==
  IsVideo(out.before.codec) =>
    \A i \in DOMAIN out.events :
      out.events[i].type = "packet" =>
        \A j \in DOMAIN out.events[i].units :
          LET u == out.events[i].units[j]
              kinds == IF out.before.codec = "h264" THEN {"sps", "pps"} ELSE SetKinds
              intact == out.before.intact \/ \E x \in DOMAIN out.units : out.units[x].kind = "sps"
          IN IsSlice(u) /\ intact /\ (\A k \in kinds : InForce(k, u.n) # 0)
             => /\ Known(i) # <<>>
                /\ \A k \in kinds :
                     \/ \E x \in DOMAIN Known(i)[1].sets[k] : Known(i)[1].sets[k][x] = InForce(k, u.n)
                     \/ \E x \in DOMAIN out.units : out.units[x].n > u.n /\ out.units[x].kind \in Kinds(k)

\* A packet of AAC is one whole frame, and so is one of MP3 unless no frame was found;
\* frames come in order; all of them come from a PES packet that cuts none; and the
\* format of the first AAC frame is known when it comes.
FramesWhole ==
  out.before.codec \in {"aac", "mp3"} =>
    /\ \A i \in DOMAIN Packets :
         \/ Len(Packets[i].units) = 1 /\ Packets[i].units[1].kind = "frame"
         \/ out.before.codec = "mp3" /\ Packets[i].units = out.units
    /\ \A i, j \in DOMAIN Came : i < j => Came[i].n < Came[j].n
    /\ (\A i \in DOMAIN out.units : out.units[i].kind = "frame") => Came = out.units
    /\ out.before.codec = "aac" =>
         \A i \in DOMAIN out.events :
           out.events[i].type = "packet" /\ (\A j \in 1..(i - 1) : out.events[j].type # "packet")
           => Known(i) = <<[format |-> out.events[i].units[1].format]>>

\* Whatever the wrap of its counter, a packet has the time its picture or frame was
\* given, as long as every PES packet had one and no packet was lost; and it never has another one modulo Mod.
TimesTrue ==
  \A i \in DOMAIN Packets :
    LET time == Packets[i].time
        frame == out.before.codec \in {"aac", "mp3"} /\ Packets[i].units # out.units
        clock == IF frame THEN Start + (Packets[i].units[1].frame - 1) * Duration ELSE out.clock
        shown == IF out.time.dts = <<>> THEN clock ELSE clock + Offset
    IN /\ (time.pts = <<>>) = (out.time.pts = <<>>)
       /\ (time.dts = <<>>) = (out.time.dts = <<>>)
       /\ time.pts # <<>> =>
            IF out.before.untimed THEN time.pts[1] % Mod = shown % Mod ELSE time.pts[1] = shown
       /\ time.dts # <<>> =>
            IF out.before.untimed THEN time.dts[1] % Mod = clock % Mod ELSE time.dts[1] = clock

TsFramesSafe == TypeOK /\ PicturesWhole /\ SetsKnown /\ FramesWhole /\ TimesTrue
=============================================================================
