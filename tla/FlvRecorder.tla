------------------------------ MODULE FlvRecorder ------------------------------
(***************************************************************************)
(* The FLV muxer (muxer.rs) under the recorder (recorder.rs): packets are  *)
(* put in order in a queue of bounded depth, written as tags into a buffer *)
(* that goes to a writer in chunks.  The writer (external) may fail.       *)
(*                                                                         *)
(* A cell of the output is the header, or one tag with its size field.     *)
(* The bytes of a tag are data, and so are tracks without a config.        *)
(***************************************************************************)
EXTENDS Integers, Sequences, FiniteSets, SequencesExt

CONSTANTS Tracks,       \* "audio", "video"
          Depth,        \* max_queue_depth
          FlushAt,      \* flush_threshold, in cells
          Times,        \* DTS of packets; negative ones cannot be written
          MaxPackets, MaxFailures   \* bounds, for model checking

VARIABLES
  known,      \* the recorder's tracks
  muxer,      \* FlvMuxer: tracks, configs emitted, header_written, and the queue
  output,     \* its bytes that were not taken yet
  file,       \* what the writer took
  state,      \* of the recorder: "open", "stopped", "failed" to stop, or "cancelled"
  pushed,     \* ghost: packets accepted so far
  gone,       \* ghost: packets that an error took
  failures,   \* of the writer
  late        \* ghost: a track came after the header had gone to the writer

vars == <<known, muxer, output, file, state, pushed, gone, failures, late>>

Init ==
  /\ known = {} /\ output = <<>> /\ file = <<>> /\ state = "open"
  /\ muxer = [tracks |-> {}, configured |-> {}, header |-> FALSE, queue |-> {}]
  /\ pushed = 0 /\ gone = {} /\ failures = 0 /\ late = FALSE

TypeOK ==
  /\ known \subseteq Tracks /\ muxer.tracks \subseteq Tracks /\ muxer.configured \subseteq muxer.tracks
  /\ Cardinality(muxer.queue) <= Depth + 1 /\ pushed \in 0..MaxPackets
  /\ state \in {"open", "stopped", "failed", "cancelled"} /\ failures \in 0..MaxFailures

-----------------------------------------------------------------------------
(* FlvMuxer.  A state of it is [m |-> muxer, out |-> output]. *)

Header(m) == [k |-> "header", tracks |-> m.tracks, spoilt |-> FALSE]
Config(t) == [k |-> "config", track |-> t, spoilt |-> FALSE]

\* Mutant: the flags of a header that was written stay as they were.
EnsureUnpatched(x, t) == [x EXCEPT !.m.tracks = @ \cup {t}]

\* ensure_track() with patch_header_flags(): the flags are set in the header, or in
\* whatever is first in the buffer by now.
EnsureTrack(x, t) ==
  LET m == [x.m EXCEPT !.tracks = @ \cup {t}]
  IN IF t \in x.m.tracks \/ ~m.header \/ x.out = <<>> THEN [x EXCEPT !.m = m]
     ELSE [m |-> m,
           out |-> <<IF Head(x.out).k = "header" THEN Header(m)
                   ELSE [Head(x.out) EXCEPT !.spoilt = TRUE]>> \o Tail(x.out)]

WriteHeader(x) ==
  IF x.m.header THEN x
  ELSE [m |-> [x.m EXCEPT !.header = TRUE], out |-> Append(x.out, Header(x.m))]

\* write_config_for_track()
WriteConfig(x, t) ==
  IF t \in x.m.configured THEN x
  ELSE [m |-> [x.m EXCEPT !.configured = @ \cup {t}], out |-> Append(x.out, Config(t))]

\* Mutant: packets are written in the order they came.
FirstCome(queue) == {p \in queue : \A q \in queue : p.n <= q.n}

\* The heap gives one of the packets with the least DTS.
Oldest(queue) == {p \in queue : \A q \in queue : p.dts <= q.dts}

\* write_packet(): a packet that cannot be written has left the queue all the same.
WritePacket(x, p) ==
  LET m == [x.m EXCEPT !.queue = @ \ {p}]
  IN IF p.dts < 0 THEN [m |-> m, out |-> x.out]
     ELSE [m |-> m, out |-> Append(x.out, [k |-> "packet", n |-> p.n, track |-> p.track,
                                           dts |-> p.dts, after |-> pushed', spoilt |-> FALSE])]

\* finish(): everything in the queue in order, up to a packet that cannot be written.
\* (Those come first.)
InOrder(queue) == {s \in SetToSeqs(queue) : \A i, j \in DOMAIN s : i < j => s[i].dts <= s[j].dts}
Finished(x, order) ==
  LET ready == FoldLeft(LAMBDA y, t : IF t \in y.m.tracks THEN WriteConfig(y, t) ELSE y,
                       WriteHeader(x), <<"audio", "video">>)
  IN FoldLeft(WritePacket, ready, order)

-----------------------------------------------------------------------------
(* FlvRecorder *)

Muxer(x) == muxer' = x.m /\ output' = x.out
Now == [m |-> muxer, out |-> output]

\* write_chunk() of the writer, which may fail: what was taken is lost then.
WriteChunk(chunk) ==
  \/ chunk = <<>> /\ UNCHANGED <<file, failures, gone>>
  \/ chunk # <<>> /\ file' = file \o chunk /\ UNCHANGED <<failures, gone>>
  \/ /\ chunk # <<>> /\ failures < MaxFailures /\ failures' = failures + 1
     /\ gone' = gone \cup {chunk[i].n : i \in {j \in DOMAIN chunk : chunk[j].k = "packet"}}
     /\ UNCHANGED file

AddTrack(t) ==
  /\ state = "open" /\ t \notin known
  /\ known' = known \cup {t}
  /\ Muxer(EnsureTrack(Now, t))
  /\ late' = (late \/ (muxer.header /\ (output = <<>> \/ Head(output).k # "header")))
  /\ UNCHANGED <<file, state, pushed, gone, failures>>

\* The part of push_packet() before the queue is looked at.
Queued(t, dts) ==
  LET x == WriteConfig(WriteHeader(EnsureTrack(Now, t)), t)
  IN [x EXCEPT !.m.queue = @ \cup {[n |-> pushed + 1, track |-> t, dts |-> dts]}]

\* push_packet(): at most one packet leaves, since at most one came.  What cannot be
\* written is reported, and then nothing is flushed.
Push(t, dts) ==
  /\ state = "open" /\ t \in known /\ pushed < MaxPackets
  /\ pushed' = pushed + 1
  /\ LET x == Queued(t, dts)
         flushed(y) == IF Len(y.out) >= FlushAt
                       THEN WriteChunk(y.out) /\ muxer' = y.m /\ output' = <<>>
                       ELSE Muxer(y) /\ UNCHANGED <<file, failures, gone>>
     IN \/ Cardinality(x.m.queue) <= Depth /\ flushed(x)
        \/ /\ Cardinality(x.m.queue) > Depth
           /\ \E p \in Oldest(x.m.queue) :
                IF p.dts < 0
                THEN Muxer(WritePacket(x, p)) /\ gone' = gone \cup {p.n} /\ UNCHANGED <<file, failures>>
                ELSE flushed(WritePacket(x, p))
  /\ UNCHANGED <<known, state, late>>

Flush ==
  /\ state = "open" /\ output # <<>>
  /\ WriteChunk(output) /\ output' = <<>>
  /\ UNCHANGED <<known, muxer, state, pushed, late>>

\* stop(): flush, finish and write the rest; the first error ends it.
Stop ==
  /\ state = "open" /\ UNCHANGED <<known, pushed, late>>
  /\ \/ \* The flush fails.
        /\ output # <<>> /\ failures < MaxFailures /\ failures' = failures + 1
        /\ state' = "failed" /\ output' = <<>>
        /\ UNCHANGED <<muxer, file, gone>>
     \/ \* A packet cannot be written: the queue is lost.
        /\ \E p \in muxer.queue : p.dts < 0
        /\ file' = file \o output /\ output' = <<>>
        /\ state' = "failed" /\ UNCHANGED <<muxer, failures, gone>>
     \/ /\ \A p \in muxer.queue : p.dts >= 0
        /\ \E order \in InOrder(muxer.queue) :
             LET x == Finished([Now EXCEPT !.out = <<>>], order)
             IN \/ /\ file' = file \o output \o x.out
                   /\ muxer' = x.m /\ state' = "stopped" /\ UNCHANGED <<failures, gone>>
                \/ /\ x.out # <<>> /\ failures < MaxFailures /\ failures' = failures + 1
                   /\ file' = file \o output
                   /\ muxer' = x.m /\ state' = "failed" /\ UNCHANGED gone
        /\ output' = <<>>

\* cancel() gives back the output and how many packets were queued, which stay.
Cancel ==
  /\ state = "open" /\ state' = "cancelled"
  /\ UNCHANGED <<known, muxer, output, file, pushed, gone, failures, late>>

Next ==
  \/ \E t \in Tracks : AddTrack(t) \/ \E dts \in Times : Push(t, dts)
  \/ Flush \/ Stop \/ Cancel

Spec == Init /\ [][Next]_vars

-----------------------------------------------------------------------------
(* Properties *)

Written == file \o output
Count(cells, n) == Cardinality({i \in DOMAIN cells : cells[i].k = "packet" /\ cells[i].n = n})

\* Every accepted packet is in the file, in the output or in the queue, once, unless
\* an error was reported that took it; and after a stop without error all are in the
\* file.
NothingLost ==
  /\ state # "failed" =>
       \A n \in 1..pushed :
         Count(Written, n) + Cardinality({p \in muxer.queue : p.n = n})
           = (IF n \in gone THEN 0 ELSE 1)
  /\ state = "stopped" => \A n \in 1..pushed : n \in gone \/ Count(file, n) = 1

\* What was written can be read: the header comes first and names every track, no
\* tag is spoilt, and the config of a track precedes its packets.  (Unless the writer
\* failed, or a track came too late for the header: then its flags are written
\* into a tag, muxer.rs:193.)
Readable ==
  failures = 0 /\ ~late =>
    \A i \in DOMAIN Written :
      /\ (i = 1) = (Written[i].k = "header")
      /\ ~Written[i].spoilt
      /\ Written[i].k \in {"packet", "config"} => Written[i].track \in Written[1].tracks
      /\ Written[i].k = "packet" =>
           \E j \in 1..(i - 1) : Written[j].k = "config" /\ Written[j].track = Written[i].track

\* Tags are in the order of their DTS, except for packets that came when the queue
\* had already let a later one go.
Ordered ==
  \A i, j \in DOMAIN Written :
    i < j /\ Written[i].k = "packet" /\ Written[j].k = "packet" =>
      Written[i].dts <= Written[j].dts \/ Written[j].n > Written[i].after

RecorderSafe == TypeOK /\ NothingLost /\ Readable /\ Ordered
=============================================================================
