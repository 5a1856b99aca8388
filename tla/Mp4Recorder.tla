------------------------------ MODULE Mp4Recorder ------------------------------
(***************************************************************************)
(* The recorder of a progressive MP4 file (cheetah-container-isobmff:      *)
(* recorder.rs): samples of one track are kept until finish(), which       *)
(* writes tables that a player (external) must be able to undo.            *)
(*                                                                         *)
(* A size is counted in cells: a box header, a table entry and each piece  *)
(* of a payload take one, what needs 64 bits takes two.                    *)
(***************************************************************************)
EXTENDS Integers, Sequences, SequencesExt

CONSTANTS Ids,        \* of tracks
          Times,      \* DTS of packets; 0 also stands for none
          Durations,  \* of packets; NoDuration if it does not say
          Offsets,    \* PTS - DTS
          Wide,       \* the largest number that 32 bits hold, in the code
          MaxSamples  \* bound, for model checking

VARIABLES
  config,   \* <<>> or the track
  samples,
  file,     \* what finish() returned last; NoFile before, or after an error
  stale     \* ghost: something was pushed or configured since

vars == <<config, samples, file, stale>>

NoDuration == -1
NoFile == [moov |-> <<>>]

Init == config = <<>> /\ samples = <<>> /\ file = NoFile /\ stale = TRUE

TypeOK ==
  /\ config \in {<<>>} \cup {<<t>> : t \in Ids}
  /\ Len(samples) <= MaxSamples /\ stale \in BOOLEAN

-----------------------------------------------------------------------------
(* The tables *)

\* Mutant: a value that was seen before is counted there.
MergedRuns(values) ==
  FoldLeft(LAMBDA runs, v :
             IF \E i \in DOMAIN runs : runs[i].value = v
             THEN LET i == CHOOSE j \in DOMAIN runs : runs[j].value = v
                  IN [runs EXCEPT ![i].count = @ + 1]
             ELSE Append(runs, [count |-> 1, value |-> v]),
           <<>>, values)

\* run_length_encode_u64() and _i64()
Runs(values) ==
  FoldLeft(LAMBDA runs, v :
             IF runs # <<>> /\ runs[Len(runs)].value = v
             THEN [runs EXCEPT ![Len(runs)].count = @ + 1]
             ELSE Append(runs, [count |-> 1, value |-> v]),
           <<>>, values)

\* Mutant: with a key frame anywhere no sync table is written.
SyncUnlessNone(s) ==
  IF \E k \in DOMAIN s : s[k].key THEN <<>>
  ELSE << SelectSeq([k \in DOMAIN s |-> k], LAMBDA k : s[k].key) >>

\* The sync table, if not every sample is a key frame.
Sync(s) ==
  IF \A k \in DOMAIN s : s[k].key THEN <<>>
  ELSE << SelectSeq([k \in DOMAIN s |-> k], LAMBDA k : s[k].key) >>

\* write_stbl(), but for the offset of the chunk.
Tables(s) ==
  [stts |-> Runs([k \in DOMAIN s |-> s[k].duration]),
   ctts |-> IF \A k \in DOMAIN s : s[k].pts = s[k].dts THEN <<>>
            ELSE << Runs([k \in DOMAIN s |-> s[k].pts - s[k].dts]) >>,
   stsz |-> [k \in DOMAIN s |-> Len(s[k].payload)],
   stss |-> Sync(s)]

\* write_moov_body(): its size, with the offset in 32 or in 64 bits.
MoovSize(t, co64) ==
  Len(t.stts) + (IF t.ctts = <<>> THEN 0 ELSE 1 + Len(t.ctts[1])) + Len(t.stsz)
    + (IF t.stss = <<>> THEN 0 ELSE 1 + Len(t.stss[1])) + (IF co64 THEN 2 ELSE 1)

\* build_moov_and_patch(): behind ftyp, moov and the header of mdat.
ChunkOffset(t, header, co64) == 1 + (1 + MoovSize(t, co64)) + header

\* Mutant: the offset is that of the shorter moov.
OffsetNarrow(t, header) == ChunkOffset(t, header, FALSE)

\* finish(): if the offset does not fit the moov is built again, and is longer.
OffsetWritten(t, header) ==
  LET narrow == ChunkOffset(t, header, FALSE)
  IN IF narrow <= Wide THEN narrow ELSE ChunkOffset(t, header, TRUE)

File(s) ==
  LET t == Tables(s)
      payload == FlattenSeq([k \in DOMAIN s |-> s[k].payload])
      header == IF Len(payload) + 1 > Wide THEN 2 ELSE 1
      co64 == ChunkOffset(t, header, FALSE) > Wide
  IN [moov |-> <<t>>, config |-> config, chunk |-> OffsetWritten(t, header),
      bytes |-> [i \in 1 .. 1 + (1 + MoovSize(t, co64)) + header |-> <<0, 0>>] \o payload]

-----------------------------------------------------------------------------
(* Mp4Muxer *)

Configure(t) ==
  /\ config' = <<t>> /\ stale' = TRUE /\ UNCHANGED <<samples, file>>

\* push_packet(): a packet of another track is refused.
Push(t, dts, duration, offset, key) ==
  LET n == Len(samples) + 1
  IN /\ n <= MaxSamples /\ config = <<t>>
     /\ samples' = Append(samples, [dts |-> dts, pts |-> dts + offset, key |-> key,
                                    duration |-> IF duration = NoDuration THEN 0 ELSE duration,
                                    payload |-> [i \in 1 .. (3 * n) % 7 |-> <<n, i>>]])
     /\ stale' = TRUE /\ UNCHANGED <<config, file>>

Finish ==
  /\ file' = IF config = <<>> \/ samples = <<>> THEN NoFile ELSE File(samples)
  /\ stale' = FALSE /\ UNCHANGED <<config, samples>>

Next ==
  \/ \E t \in Ids : Configure(t)
  \/ \E t \in Ids, dts \in Times, duration \in Durations, offset \in Offsets, key \in BOOLEAN :
       Push(t, dts, duration, offset, key)
  \/ Finish

Spec == Init /\ [][Next]_vars

-----------------------------------------------------------------------------
(* The player *)

Expand(runs) == FlattenSeq([i \in DOMAIN runs |-> [j \in 1..runs[i].count |-> runs[i].value]])
Sum(values) == FoldLeft(LAMBDA a, b : a + b, 0, values)

\* What a player reads of the sample k.
Read(f, k) ==
  LET t == f.moov[1]
      at == f.chunk + Sum(SubSeq(t.stsz, 1, k - 1))
  IN [time |-> Sum(SubSeq(Expand(t.stts), 1, k - 1)),
      offset |-> IF t.ctts = <<>> THEN 0 ELSE Expand(t.ctts[1])[k],
      key |-> t.stss = <<>> \/ \E i \in DOMAIN t.stss[1] : t.stss[1][i] = k,
      payload |-> SubSeq(f.bytes, at + 1, at + t.stsz[k])]

\* The durations say how far apart the first k samples were.
Continuous(k) == \A i \in 1..k - 1 : samples[i + 1].dts = samples[i].dts + samples[i].duration

\* A file holds every sample: a player reads its payload wherever the widths of the
\* offsets and of the mdat's header fall, its flags, how long after its DTS it is
\* shown, and its DTS since that of the first unless there was a gap before it.
FileReadable ==
  ~stale /\ file # NoFile =>
    /\ Len(file.moov[1].stsz) = Len(samples)
    /\ \A k \in DOMAIN samples :
         LET s == samples[k]
             r == Read(file, k)
         IN /\ r.offset = s.pts - s.dts /\ r.key = s.key /\ r.payload = s.payload
            /\ Continuous(k) => r.time = s.dts - samples[1].dts

Mp4RecorderSafe == TypeOK /\ FileReadable
=============================================================================
