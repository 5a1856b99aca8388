------------------------------ MODULE MCContainers ------------------------------
(***************************************************************************)
(* Small instances of what reads and writes containers, in one run: the    *)
(* demuxers of MPEG-TS, FLV, Annex-B and MPEG-PS, the parser of HLS        *)
(* playlists, the FLV recorder, the fragmented MP4 muxer with the demuxer  *)
(* that reads what it wrote, and the MP4 recorder.  A behaviour is of one  *)
(* of them, and the others stay as they were created.                      *)
(***************************************************************************)
EXTENDS Integers, Sequences

VARIABLES
  part,
  mux, psi, es, emitted, spoiltPackets, run, spoilt,
  flvMode, flv, flvSource, coming, due, flvOut, consumer,
  annexb, annexbWire, units, resets, annexbOut, drained, closed,
  ps, psSource, psWire, carried, psOut,
  encoder, track, frames,
  page, server,
  known, muxer, output, flvFile, state, accepted, gone, failures, late,
  configs, buffers, written, sequence, since, segments, status, pushed, cut, times, configured,
  wire, demux, got, faults, torn,
  config, samples, mp4File, stale

tsVars == <<mux, psi, es, emitted, spoiltPackets, run, spoilt>>
flvVars == <<flvMode, flv, flvSource, coming, due, flvOut, consumer>>
annexbVars == <<annexb, annexbWire, units, resets, annexbOut, drained, closed>>
psVars == <<ps, psSource, psWire, carried, psOut>>
framesVars == <<encoder, track, frames>>
playlistVars == <<page, server>>
flvRecorderVars == <<known, muxer, output, flvFile, state, accepted, gone, failures, late>>
fmp4Vars == <<configs, buffers, written, sequence, since, segments, status, pushed, cut, times,
              configured, wire, demux, got, faults, torn>>
mp4RecorderVars == <<config, samples, mp4File, stale>>

\* Sections of a version that is replaced, of an unsupported stream, and of one piece.
Ts == INSTANCE TsDemuxer WITH
  out <- emitted, faults <- spoiltPackets,
  SectionLen <- <<2, 1, 2>>,
  SectionStreams <- <<<<"a">>, <<"es", "unsupported", "b">>, <<"es", "b">>>>,
  UnitLens <- {1, 3}, CcMod <- 4, MaxPes <- 2, MaxPids <- 2, MaxUnits <- 4, MaxFaults <- 3

\* Pictures and sets in one packet, times that are reordered about a wrap.
Frames == INSTANCE TsFrames WITH
  source <- encoder, out <- frames,
  Codecs <- {"h264", "h265", "aac", "mp3", "g711", "data"},
  Video <- {<<"aud", "sps", "pps", "idr">>, <<"aud", "sps", "idr", "rest", "pps", "slice">>,
            <<"vps", "badSps", "idr", "cut">>, <<"pps", "slice", "rest", "aud", "slice">>,
            <<"vps", "slice", "slice">>, <<"junk">>, <<>>},
  Audio <- {<<"frame", "frame">>, <<"newFormat", "frame">>, <<"frame", "newFormat", "head">>,
            <<"tail", "frame", "head">>, <<"tail">>, <<"falseSync", "frame">>, <<"head">>},
  Start <- 11, Step <- 2, Offset <- 3, Duration <- 2, Mod <- 16, MaxPes <- 3

\* A counter that wraps in the second tag, and steps back; tags that are dropped.
Flv == INSTANCE FlvDemuxer WITH
  mode <- flvMode, d <- flv, source <- flvSource, out <- flvOut, at <- consumer,
  Modes <- {"Auto", "Stream", "File"}, TagKinds <- {"g711", "aac", "video", "videoOther"}, BodyLens <- {1, 2},
  Steps <- {0 - 1, 3}, Start <- 3, Mod <- 8, Threshold <- 2, ShrinkAt <- 3, MaxBuffer <- 12,
  MaxTags <- 3, MaxRestarts <- 1

\* Parameter sets that change, payloads that need emulation prevention, long start codes.
Unit(type, payload, number, zeros) ==
  [type |-> type, payload |-> payload, number |-> number, zeros |-> zeros]
Annexb == INSTANCE AnnexbDemuxer WITH
  d <- annexb, wire <- annexbWire, out <- annexbOut,
  Codec <- "h264",
  Units <- {Unit("slice", <<0, 0, 1>>, 0, 1), Unit("idr", <<>>, 0, 0), Unit("sei", <<0, 0, 0>>, 5, 2),
            Unit("sps", <<>>, 0, 2), Unit("pps", <<0, 0, 1>>, 0, 0), Unit("pps", <<>>, 0, 1)},
  More <- 4, Stop <- 9, Cuts <- {3, 20}, MaxNal <- 10, MaxBuffer <- 22, MaxUnits <- 4, MaxResets <- 1

\* Averages below the peak, variants that nothing or everything says of themselves.
Variant(bandwidth, average, codecs, height) ==
  [bandwidth |-> bandwidth, average |-> average, codecs |-> codecs, height |-> height]
Limits(max, min, height, codecs) == [max |-> max, min |-> min, height |-> height, codecs |-> codecs]
Plain == <<"http", "://", "h">>
Alike == <<Variant(2, <<>>, {"avc1"}, <<4>>), Variant(2, <<>>, {"avc1"}, <<3>>)>>
Unlimited == Limits(<<>>, <<>>, <<>>, {})

\* A key that begins and changes, a map that changes, and parts.
Playlist == INSTANCE HlsPlaylist WITH
  Bases <- {Plain, Append(Plain, "/"), Plain \o <<"/", "a", "/", "m", "?", "x", "/", "y">>},
  Forms <- {"file", "path", "url"},
  Variants <- {<<Variant(3, <<2>>, {"avc1"}, <<2>>), Variant(5, <<3>>, {"avc1", "mp4a"}, <<3>>),
                 Variant(1, <<>>, {"hvc1"}, <<>>), Variant(5, <<>>, {}, <<1>>)>>, Alike},
  Capabilities <- {Unlimited, Limits(<<2>>, <<>>, <<>>, {}), Limits(<<4>>, <<>>, <<2>>, {"avc1"}),
                   Limits(<<2>>, <<>>, <<1>>, {"avc1"}), Limits(<<1>>, <<2>>, <<>>, {"avc1"}),
                   Limits(<<4>>, <<>>, <<>>, {"mp4a"}), Limits(<<>>, <<>>, <<>>, {"vp9"})},
  KeyOf <- <<0, 1, 1, 2>>, MapOf <- <<1, 1, 2, 2>>, PartsOf <- <<0, 2, 1, 0>>,
  Marks <- <<<<>>, <<"DISCONTINUITY", "BYTERANGE">>, <<"GAP">>, <<"DATE">>>>,
  MaxListed <- 2, Window <- 3

Ps == INSTANCE MpegPsDemuxer WITH
  d <- ps, source <- psSource, wire <- psWire, times <- carried, out <- psOut,
  Codec <- "h264",
  Video <- <<[zeros |-> 1, nal |-> <<21, 9>>], [zeros |-> 0, nal |-> <<20, 9>>]>>,
  Audio <- <<3, 2, 3>>, Lengths <- {3, 5, 9}, Untimed <- {3}, Cuts <- {4, 30}, Duration <- 2,
  MaxPacket <- 11, MaxBuffer <- 25, MaxExtras <- 1

FlvRecorder == INSTANCE FlvRecorder WITH
  file <- flvFile, pushed <- accepted,
  Tracks <- {"audio", "video"}, Depth <- 2, FlushAt <- 3, Times <- {0 - 1, 1, 2},
  MaxPackets <- 4, MaxFailures <- 1

Fmp4 == INSTANCE FragmentedMp4 WITH
  Tracks <- {1, 2}, Video <- {2}, Versions <- {1, 2}, Clock <- 2, Rate <- 3, MaxSamples <- 3,
  FirstTimes <- {0 - 1, 0, 4}, MaxPackets <- 4, MaxConfigs <- 3, BackLimit <- 1, MaxFaults <- 2

Mp4 == INSTANCE Mp4Recorder WITH
  file <- mp4File,
  Ids <- {1, 2}, Times <- {0, 1, 3}, Durations <- {0 - 1, 1, 2}, Offsets <- {0 - 1, 0}, Wide <- 10, MaxSamples <- 3

MCInit ==
  /\ part \in {"ts", "frames", "playlist", "flv", "annexb", "ps", "flvRecorder", "fmp4", "mp4Recorder"}
  /\ Ts!Init /\ Annexb!Init /\ Ps!Init /\ FlvRecorder!Init /\ Mp4!Init
  /\ Flv!Init /\ (part # "flv" => flvMode.parse = "Stream")
  /\ Frames!Init /\ (part # "frames" => encoder.codec = "data")
  \* Either every playlist's URL or every choice, elsewhere one of each.
  /\ Playlist!Init
  /\ (page.base = Plain /\ page.form = "file") \/ (page.variants = Alike /\ page.caps = Unlimited)
  /\ part # "playlist" => page.base = Plain /\ page.form = "file" /\ page.variants = Alike
                          /\ page.caps = Unlimited
  \* Video begins at zero, and has no durations where no audio comes with it (4).
  /\ Fmp4!DemuxInit /\ times[2].next = 0 /\ ~times[1].timed
  /\ times[2].timed <=> times[1].next # 4
  /\ part # "fmp4" => times[1].next = 4

TsStep == /\ part = "ts" /\ Ts!Next
          /\ UNCHANGED <<part, framesVars, playlistVars, flvVars, annexbVars, psVars,
                         flvRecorderVars, fmp4Vars, mp4RecorderVars>>
FramesStep == /\ part = "frames" /\ Frames!Next
              /\ UNCHANGED <<part, tsVars, playlistVars, flvVars, annexbVars, psVars,
                             flvRecorderVars, fmp4Vars, mp4RecorderVars>>
PlaylistStep == /\ part = "playlist" /\ Playlist!Next
                /\ UNCHANGED <<part, tsVars, framesVars, flvVars, annexbVars, psVars,
                               flvRecorderVars, fmp4Vars, mp4RecorderVars>>
FlvStep == /\ part = "flv" /\ Flv!Next
           /\ UNCHANGED <<part, tsVars, framesVars, playlistVars, annexbVars, psVars,
                          flvRecorderVars, fmp4Vars, mp4RecorderVars>>
AnnexbStep == /\ part = "annexb" /\ Annexb!Next
              /\ UNCHANGED <<part, tsVars, framesVars, playlistVars, flvVars, psVars,
                             flvRecorderVars, fmp4Vars, mp4RecorderVars>>
PsStep == /\ part = "ps" /\ Ps!Next
          /\ UNCHANGED <<part, tsVars, framesVars, playlistVars, flvVars, annexbVars,
                         flvRecorderVars, fmp4Vars, mp4RecorderVars>>
FlvRecorderStep == /\ part = "flvRecorder" /\ FlvRecorder!Next
                   /\ UNCHANGED <<part, tsVars, framesVars, playlistVars, flvVars, annexbVars,
                                  psVars, fmp4Vars, mp4RecorderVars>>
Fmp4Step == /\ part = "fmp4" /\ Fmp4!DemuxNext
            /\ UNCHANGED <<part, tsVars, framesVars, playlistVars, flvVars, annexbVars, psVars,
                           flvRecorderVars, mp4RecorderVars>>
Mp4RecorderStep == /\ part = "mp4Recorder" /\ Mp4!Next
                   /\ UNCHANGED <<part, tsVars, framesVars, playlistVars, flvVars, annexbVars,
                                  psVars, flvRecorderVars, fmp4Vars>>

MCNext == \/ TsStep \/ FramesStep \/ PlaylistStep \/ FlvStep \/ AnnexbStep \/ PsStep
          \/ FlvRecorderStep \/ Fmp4Step \/ Mp4RecorderStep

MCSpec ==
  MCInit /\ [][MCNext]_<<part, tsVars, framesVars, playlistVars, flvVars, annexbVars, psVars,
                         flvRecorderVars, fmp4Vars, mp4RecorderVars>>

\* What the source sent comes out, whole and in order, whatever the connection does:
\* tables and PES packets of MPEG-TS, and the frames in them.
TsSafe ==
  /\ part = "ts" => Ts!TsSafe
  /\ part = "frames" => Frames!TsFramesSafe

\* A playlist says of each segment what its lines said.
PlaylistSafe == part = "playlist" => Playlist!PlaylistSafe

\* The events of an FLV stream are those that were written, in time.
FlvSafe == part = "flv" => Flv!FlvSafe

\* NAL units, and the frames of a program stream, come out as they were.
UnitsSafe ==
  /\ part = "annexb" => Annexb!AnnexbSafe
  /\ part = "ps" => Ps!PsSafe

\* A file holds what was recorded.
RecordersSafe ==
  /\ part = "flvRecorder" => FlvRecorder!RecorderSafe
  /\ part = "mp4Recorder" => Mp4!Mp4RecorderSafe

\* A player of the segments gets what was muxed.
Fmp4Safe == part = "fmp4" => Fmp4!Mp4Safe /\ Fmp4!DemuxSafe
=============================================================================
