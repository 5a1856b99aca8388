----------------------------- MODULE FragmentedMp4 -----------------------------
(***************************************************************************)
(* What turns FLV and MPEG-TS into fragmented MP4 for MSE: the muxer       *)
(* (cheetah-container-isobmff: muxer.rs) under the two transmuxers         *)
(* (transmux_fmp4.rs of cheetah-container-flv and -mpegts), fed with what  *)
(* a demuxer gives (external, see FlvDemuxer and TsDemuxer).               *)
(*                                                                         *)
(* Behind it, the demuxer of fragmented MP4 (demuxer.rs, fragment.rs,      *)
(* moov.rs) reads what the muxer wrote, through a loader that may lose a   *)
(* box or give a segment twice (external).                                 *)
(*                                                                         *)
(* A configuration of a track is a version; the bytes of boxes are data,   *)
(* except for the offsets and sizes that say where a sample is.            *)
(***************************************************************************)
EXTENDS Integers, Sequences, FiniteSets, FiniteSetsExt, SequencesExt

CONSTANTS Tracks,        \* track ids, numbers
          Video,         \* the tracks that have key frames
          Versions,      \* of configurations
          Clock,         \* ticks in a second of what the packets' times count in
          Rate,          \* the sample rate of audio
          MaxSamples,    \* max_samples_per_segment
          FirstTimes,    \* DTS of the first packet of a track; may be negative
          MaxPackets, MaxConfigs,  \* bounds, for model checking
          BackLimit,     \* 10_000_000 ticks in the code
          MaxFaults      \* bound on the loader's faults

VARIABLES
  configs,     \* of the transmuxer and of the muxer; NoConfig before the first
  buffers,     \* samples per track that are in no segment yet
  written,     \* the configs of the last init segment, or none
  sequence,
  since,       \* samples_since_flush
  segments,    \* pending: segments that were not polled
  status,      \* "running", "finished", "failed"
  pushed,      \* ghost: the packets that were accepted
  cut,         \* ghost: the packets that are or were in a segment
  times,       \* external: the next DTS of each track, and whether its packets come with
               \* their duration, which those of FlvDemuxer and TsDemuxer do not
  configured   \* external: configurations so far

vars == <<configs, buffers, written, sequence, since, segments, status, pushed, cut, times, configured>>

NoConfig == 0
NoInit == <<>>
NoTrack == [version |-> NoConfig, timescale |-> 0]

Init ==
  /\ configs = [t \in Tracks |-> NoConfig]
  /\ buffers = [t \in Tracks |-> <<>>]
  /\ written = NoInit /\ sequence = 1 /\ since = 0 /\ segments = <<>>
  /\ status = "running"
  /\ pushed = <<>> /\ cut = {} /\ configured = 0
  /\ times \in [Tracks -> [next : FirstTimes, timed : BOOLEAN]]

TypeOK ==
  /\ \A t \in Tracks : configs[t] \in Versions \cup {NoConfig}
  /\ status \in {"running", "finished", "failed"}
  /\ since \in 0..MaxSamples /\ Len(pushed) <= MaxPackets /\ configured \in 0..MaxConfigs
  /\ cut \subseteq DOMAIN pushed

-----------------------------------------------------------------------------
(* FragmentedMp4Muxer *)

\* Where flush_segment() cuts a buffer: behind its last key frame.
LastKey(buffer) == SelectLastInSeq(buffer, LAMBDA p : p.key)

CutPoint(buffer) == IF LastKey(buffer) = 0 THEN Len(buffer) ELSE LastKey(buffer)

Taken(bs) == [t \in Tracks |-> SubSeq(bs[t], 1, CutPoint(bs[t]))]

\* Mutant: what is behind the cut is not kept.
NothingKept(bs) == [t \in Tracks |-> <<>>]

Kept(bs) == [t \in Tracks |-> SubSeq(bs[t], CutPoint(bs[t]) + 1, Len(bs[t]))]

TotalSize(packets) == FoldLeft(LAMBDA n, p : n + p.size, 0, packets)

\* write_mdat(): payloads track by track.
Payload(p) == [i \in 1..p.size |-> <<p.n, i>>]
Mdat(taken, tracks) ==
  FlattenSeq([i \in DOMAIN tracks |-> FlattenSeq([k \in DOMAIN taken[tracks[i]] |-> Payload(taken[tracks[i]][k])])])

\* Mutant: the samples of every track are said to begin where those of the first do.
FragmentsAtStart(taken, tracks) ==
  [i \in DOMAIN tracks |->
     [track |-> tracks[i], base |-> taken[tracks[i]][1].dts, offset |-> 0,
      samples |-> [k \in DOMAIN taken[tracks[i]] |->
                     LET p == taken[tracks[i]][k] IN [size |-> p.size, duration |-> p.duration, key |-> p.key]]]]

\* write_moof(): a traf per track, with the offset of its first sample in the mdat.  Its
\* time (tfdt) and the durations are the ticks of the packets, whatever the timescale.
Fragments(taken, tracks) ==
  [i \in DOMAIN tracks |->
     [track |-> tracks[i], base |-> taken[tracks[i]][1].dts,
      offset |-> FoldLeft(LAMBDA n, t : n + TotalSize(taken[t]), 0, SubSeq(tracks, 1, i - 1)),
      samples |-> [k \in DOMAIN taken[tracks[i]] |->
                     LET p == taken[tracks[i]][k] IN [size |-> p.size, duration |-> p.duration, key |-> p.key]]]]

\* Mutant: the timescale of video is not that of the packets.
TimescaleOther(t) == Rate

\* track_info_to_config(): the ticks in a second of a track (mdhd), which is the clock of
\* the packets for video and the sample rate for audio.
Timescale(t) == IF t \in Video THEN Clock ELSE Rate

\* write_ftyp() and write_moov(): a trak and a trex for every configured track.
InitSegment == <<[t \in Tracks |-> [version |-> configs[t], timescale |-> Timescale(t)]]>>

\* hash_config(): the init segment is written again when a configuration changed.
ConfigChanged == written # InitSegment

\* flush_segment() and flush_mux(): what is cut off makes a segment, behind an init
\* segment if a configuration changed.  A negative time fails, and what was cut off
\* is lost.
Flush(bs, ended) ==
  LET tracks == SetToSortSeq({t \in Tracks : bs[t] # <<>>}, <)
      taken == Taken(bs)
      segment == [sequence |-> sequence, init |-> IF ConfigChanged THEN InitSegment ELSE NoInit,
                  fragments |-> Fragments(taken, tracks), mdat |-> Mdat(taken, tracks)]
  IN IF tracks = <<>>
     THEN /\ buffers' = bs /\ status' = ended
          /\ UNCHANGED <<written, sequence, segments, cut>>
     ELSE /\ buffers' = Kept(bs) /\ written' = InitSegment
          /\ IF \E i \in DOMAIN tracks : taken[tracks[i]][1].dts < 0
             THEN status' = "failed" /\ UNCHANGED <<sequence, segments, cut>>
             ELSE /\ status' = ended /\ sequence' = sequence + 1
                  /\ segments' = Append(segments, segment)
                  /\ cut' = cut \cup UNION {{taken[t][k].n : k \in DOMAIN taken[t]} : t \in Tracks}

-----------------------------------------------------------------------------
(* The transmuxers *)

\* configure_track(): nothing that is buffered is flushed first.
Configure(t, v) ==
  /\ status = "running" /\ configured < MaxConfigs /\ configured' = configured + 1
  /\ configs' = [configs EXCEPT ![t] = v]
  /\ UNCHANGED <<buffers, written, sequence, since, segments, status, pushed, cut, times>>

\* A packet as a sample, its payload converted.  Packets are 1 apart; one without a
\* duration is written with 0.
Sample(n, t, key) ==
  [n |-> n, track |-> t, dts |-> times[t].next, duration |-> IF times[t].timed THEN 1 ELSE 0,
   key |-> key, size |-> 1 + (n % 2), config |-> configs[t]]

\* push_packet(): before the track is configured a packet is skipped.
Push(t, key) ==
  LET p == Sample(Len(pushed) + 1, t, key)
      bs == [buffers EXCEPT ![t] = Append(@, p)]
      full == (key /\ since + 1 > 1) \/ since + 1 >= MaxSamples
  IN /\ status = "running" /\ Len(pushed) < MaxPackets
     /\ times[t].next < MaxPackets /\ times' = [times EXCEPT ![t].next = @ + 1]
     /\ UNCHANGED <<configs, configured>>
     /\ IF configs[t] = NoConfig
        THEN UNCHANGED <<buffers, written, sequence, since, segments, status, pushed, cut>>
        ELSE /\ pushed' = Append(pushed, p)
             /\ IF full THEN Flush(bs, "running") /\ since' = 0
                ELSE /\ buffers' = bs /\ since' = since + 1
                     /\ UNCHANGED <<written, sequence, segments, status, cut>>

\* finish()
Finish ==
  /\ status = "running"
  /\ Flush(buffers, "finished") /\ since' = 0
  /\ UNCHANGED <<configs, pushed, times, configured>>

\* poll()
Poll ==
  /\ segments # <<>> /\ segments' = Tail(segments)
  /\ UNCHANGED <<configs, buffers, written, sequence, since, status, pushed, cut, times, configured>>

Input ==
  \/ \E t \in Tracks : configs[t] + 1 \in Versions /\ Configure(t, configs[t] + 1)
  \/ \E t \in Tracks, key \in BOOLEAN : (key => t \in Video) /\ Push(t, key)
  \/ Finish

Next == Input \/ Poll

Spec == Init /\ [][Next]_vars

-----------------------------------------------------------------------------
(* Properties *)

Buffered == UNION {{buffers[t][k].n : k \in DOMAIN buffers[t]} : t \in Tracks}

\* Every packet is in a segment or waits for one, never both, unless an error took
\* it; and those of a track are cut in their order.
SamplesOnce ==
  /\ cut \cap Buffered = {}
  /\ status # "failed" => cut \cup Buffered = DOMAIN pushed
  /\ \A m \in cut, n \in Buffered : pushed[m].track = pushed[n].track => m < n

\* finish() flushes the remaining samples into segments (transmux_fmp4.rs:94).  It does
\* not: what follows a key frame in the last segment is never cut off.
NothingLeftBehind == status = "finished" => Buffered = {}

Mp4Safe == TypeOK /\ SamplesOnce

-----------------------------------------------------------------------------
(* The demuxer behind the muxer.  The wire is a sequence of boxes.  A moov, a *)
(* moof and the header of an mdat take one byte each: only distances matter.  *)
(* A box that did not arrive entirely is as if it had not arrived, so boxes   *)
(* arrive whole.                                                              *)

VARIABLES
  wire,    \* boxes that arrived and were not consumed
  demux,   \* IsobmffDemuxer
  got,     \* packets that came out
  faults,  \* ghost: of the loader
  torn     \* ghost: an mdat was lost, and after it a moof

demuxVars == <<wire, demux, got, faults, torn>>
allVars == <<vars, demuxVars>>

DemuxInit ==
  /\ Init
  /\ wire = <<>> /\ got = <<>> /\ faults = 0 /\ torn = "no"
  /\ demux = [consumed |-> 0, events |-> <<>>, fragments |-> <<>>,
              tracks |-> [t \in Tracks |-> NoTrack], epoch |-> 0, seen |-> FALSE,
              last |-> [t \in Tracks |-> <<>>], errors |-> 0]

-----------------------------------------------------------------------------
(* The loader *)

Boxes(segment) ==
  (IF segment.init = NoInit THEN <<>> ELSE <<[k |-> "moov", configs |-> segment.init[1]]>>)
    \o <<[k |-> "moof", fragments |-> segment.fragments], [k |-> "mdat", payload |-> segment.mdat]>>

\* A segment arrives, without a lost box; or twice.
Load(lost, again) ==
  LET boxes == Boxes(Head(segments))
      kept == SetToSortSeq(DOMAIN boxes \ lost, <)
      once == [i \in DOMAIN kept |-> boxes[kept[i]]]
      loses(k) == \E i \in lost : boxes[i].k = k
  IN /\ segments # <<>> /\ wire = <<>> /\ demux.events = <<>>
     /\ lost \subseteq DOMAIN boxes
     /\ faults' = faults + Cardinality(lost) + (IF again THEN 1 ELSE 0) /\ faults' <= MaxFaults
     /\ Poll
     /\ wire' = IF again THEN once \o once ELSE once
     /\ torn' = IF torn = "mdat" /\ loses("moof") THEN "yes"
                ELSE IF loses("mdat") THEN "mdat" ELSE torn
     /\ UNCHANGED <<demux, got>>

-----------------------------------------------------------------------------
(* The demuxer *)

\* The sizes in the headers of boxes
Size(box) == IF box.k = "mdat" THEN 1 + Len(box.payload) ELSE 1

\* parse_moov(): the tracks it has replace those of the same numbers.
ParsedTracks(tracks, box) ==
  [t \in Tracks |-> IF box.configs[t].version = NoConfig THEN tracks[t] ELSE box.configs[t]]

\* Mutant: a new init segment does not begin a new epoch.
ApplyMoovQuietly(x, box) ==
  [x EXCEPT !.seen = TRUE, !.last = [t \in Tracks |-> <<>>],
            !.tracks = ParsedTracks(@, box),
            !.events = @ \o <<[k |-> "tracks"]>>]

\* apply_moov(): tracks that are not in it stay.
ApplyMoov(x, box) ==
  [x EXCEPT !.seen = TRUE, !.epoch = IF x.seen THEN @ + 1 ELSE @,
            !.last = IF x.seen THEN [t \in Tracks |-> <<>>] ELSE @,
            !.tracks = ParsedTracks(@, box),
            !.events = @ \o <<[k |-> "tracks"]>>]

\* parse_trun(): the samples of a fragment, and where in the stream each is.
Trun(f, start) ==
  LET before(k) == FoldLeft(LAMBDA n, s : n + s.size, 0, SubSeq(f.samples, 1, k - 1))
  IN [k \in DOMAIN f.samples |-> f.samples[k] @@ [at |-> start + f.offset + before(k)]]

\* parse_moof(): offsets are from the moof, and the payload is behind it and a header.
ParseMoof(x, box) ==
  [x EXCEPT !.fragments =
     [i \in DOMAIN box.fragments |->
        LET f == box.fragments[i]
        IN [track |-> f.track, base |-> f.base, samples |-> Trun(f, x.consumed + 2)]]]

Elapsed(f, k) == FoldLeft(LAMBDA n, s : n + s.duration, 0, SubSeq(f.samples, 1, k - 1))

\* emit_packets(): the samples of a fragment, unless one is not in the mdat.
Inside(f, payload, start) ==
  \A k \in DOMAIN f.samples :
    f.samples[k].at >= start /\ f.samples[k].at + f.samples[k].size <= start + Len(payload)
Packets(x, f, payload, start) ==
  [k \in DOMAIN f.samples |->
     LET s == f.samples[k]
     IN [k |-> "packet", track |-> f.track, dts |-> f.base + Elapsed(f, k), key |-> s.key,
         payload |-> SubSeq(payload, s.at - start + 1, s.at - start + s.size),
         timescale |-> x.tracks[f.track].timescale, epoch |-> x.epoch,
         config |-> x.tracks[f.track].version]]

\* One fragment of emit_mdat_packets(), with the epoch it is in.
EmitFragment(x, f, payload, start) ==
  LET last == x.last[f.track]
      back == last # <<>> /\ (\/ f.base + Elapsed(f, Len(f.samples) + 1) < last[1]
                             \/ f.base < (IF last[1] > BackLimit THEN last[1] - BackLimit ELSE 0))
      y == IF back THEN [x EXCEPT !.epoch = @ + 1, !.events = Append(@, [k |-> "discontinuity"])] ELSE x
      packets == Packets(y, f, payload, start)
  IN IF x.failed \/ x.tracks[f.track] = NoTrack THEN x
     ELSE IF ~Inside(f, payload, start) THEN [y EXCEPT !.failed = TRUE]
     ELSE [y EXCEPT !.last[f.track] = <<packets[Len(packets)].dts>>, !.events = @ \o packets]

\* emit_mdat_packets(): an error leaves the mdat, but its fragments are gone.
EmitMdat(x, box) ==
  LET run == FoldLeft(LAMBDA y, f : EmitFragment(y, f, box.payload, x.consumed + 1),
                      x @@ [failed |-> FALSE], x.fragments)
  IN [f \in DOMAIN x |-> IF f = "fragments" THEN <<>> ELSE IF f = "errors" /\ run.failed THEN x.errors + 1 ELSE run[f]]

\* next_event(): a queued event, or the next box.
NextEvent ==
  LET box == Head(wire)
      x == CASE box.k = "moov" -> ApplyMoov(demux, box)
             [] box.k = "moof" -> ParseMoof(demux, box)
             [] box.k = "mdat" -> EmitMdat(demux, box)
      consumed == x.errors = demux.errors
  IN /\ UNCHANGED <<vars, faults, torn>>
     /\ IF demux.events # <<>>
        THEN /\ demux' = [demux EXCEPT !.events = Tail(@)]
             /\ got' = IF Head(demux.events).k = "packet" THEN Append(got, Head(demux.events)) ELSE got
             /\ UNCHANGED wire
        ELSE /\ wire # <<>> /\ UNCHANGED got
             /\ wire' = IF consumed THEN Tail(wire) ELSE wire
             /\ demux' = IF consumed THEN [x EXCEPT !.consumed = @ + Size(box)] ELSE x

DemuxNext ==
  \/ Input /\ segments = <<>> /\ wire = <<>> /\ demux.events = <<>> /\ UNCHANGED demuxVars
  \/ \E lost \in {{}, {1}, {2}, {3}} : Load(lost, FALSE)
  \/ Load({}, TRUE)
  \/ NextEvent

DemuxSpec == DemuxInit /\ [][DemuxNext]_allVars

-----------------------------------------------------------------------------
(* Properties *)

Number(packet) == packet.payload[1][1]

\* The time in seconds that a packet is played at is the one it went in with; all of a
\* segment are played at the time of its first where packets have no duration.
InTime(g, p) ==
  IF times[p.track].timed THEN g.dts * Clock = p.dts * g.timescale
  ELSE \E m \in 1..p.n : /\ pushed[m].track = p.track
                         /\ g.dts * Clock = pushed[m].dts * g.timescale

\* A packet that comes out is one that went in, entire and with its flags, unless its
\* mdat belongs to another moof (torn: the numbers of fragments are not compared, and
\* only a sample that lies outside is refused).  Video is in time; audio is not, as its
\* ticks are written under the sample rate (transmux_fmp4.rs:273).
PacketsIntact ==
  torn # "yes" =>
    \A i \in DOMAIN got :
      LET p == pushed[Number(got[i])]
      IN /\ got[i].payload = Payload(p) /\ got[i].track = p.track /\ got[i].key = p.key
         /\ p.track \in Video => InTime(got[i], p)

\* Through a loader without fault every packet that was cut comes out once, those of a
\* track in order, and behind a configuration that is not older than it.
RoundTrip ==
  faults = 0 =>
    /\ \A i, j \in DOMAIN got :
         i < j /\ got[i].track = got[j].track => Number(got[i]) < Number(got[j])
    /\ segments = <<>> /\ wire = <<>> /\ demux.events = <<>> =>
         {Number(got[i]) : i \in DOMAIN got} = cut
    /\ \A i \in DOMAIN got : got[i].config >= pushed[Number(got[i])].config
    /\ demux.errors = 0

\* Within an epoch a track does not go back further than the limit, whatever is lost or
\* repeated.
EpochsTell ==
  \A i, j \in DOMAIN got :
    /\ i < j /\ got[i].track = got[j].track /\ got[i].epoch = got[j].epoch
    /\ \A k \in i + 1..j - 1 : got[k].track # got[i].track
    => got[j].dts >= got[i].dts - BackLimit

DemuxSafe == PacketsIntact /\ RoundTrip /\ EpochsTell
=============================================================================
