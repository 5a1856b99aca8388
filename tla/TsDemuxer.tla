-------------------------------- MODULE TsDemuxer --------------------------------
(***************************************************************************)
(* The MPEG-TS demuxer (cheetah-container-mpegts: demuxer.rs, section.rs,  *)
(* pes.rs, packet.rs) against a multiplexer and a network that loses,      *)
(* repeats and damages packets (external).                                 *)
(*                                                                         *)
(* Two PIDs: PSI carries sections, cut into pieces that packets carry one  *)
(* or two of; ES carries PES packets ("units"), one piece to a packet, of  *)
(* a stated length or not.  How packets are found in the bytes is in       *)
(* TsSync, what becomes of a unit's payload in TsFrames.                   *)
(***************************************************************************)
EXTENDS Integers, Sequences, FiniteSets, SequencesExt

CONSTANTS SectionLen,      \* pieces of each section of the PSI stream
          SectionStreams,  \* what each lists: supported streams, or "unsupported"
          UnitLens,        \* lengths of PES packets, in pieces
          CcMod,           \* 16 in the code: continuity counters are modulo CcMod
          MaxPes,          \* MAX_PES_SIZE
          MaxPids,         \* MAX_PIDS
          MaxUnits,        \* bound on the units sent, for model checking
          MaxFaults        \* bound on the packets that the network spoils

VARIABLES
  mux,     \* the multiplexer: what it sent of both streams, and the counter
  psi,     \* the section assembler, and the tracks registered
  es,      \* TrackState of the elementary stream
  out,     \* the sections and units that came out of the last packet
  faults,
  run,     \* ghost: packets lost since the last one that arrived
  spoilt   \* ghost: whether PSI was spoilt, or a loss fits the counter

vars == <<mux, psi, es, out, faults, run, spoilt>>

Sections == DOMAIN SectionLen
NoCc == CcMod
NoUnit == [n |-> 0, len |-> 1, bounded |-> FALSE]

Init ==
  /\ mux = [section |-> 1, piece |-> 0, unit |-> NoUnit, sent |-> 1, cc |-> 0]
  /\ psi = [buffer |-> <<>>, tracks |-> <<>>]
  /\ es = [cc |-> NoCc, seen |-> FALSE, raw |-> <<>>]
  /\ out = [sections |-> <<>>, units |-> <<>>, error |-> FALSE]
  /\ faults = 0 /\ run = 0
  /\ spoilt = [psi |-> FALSE, es |-> FALSE]

TypeOK ==
  /\ mux.section \in 1..(Len(SectionLen) + 1) /\ mux.cc \in 0..(CcMod - 1)
  /\ es.cc \in 0..CcMod /\ Len(es.raw) <= MaxPes
  /\ Len(psi.tracks) <= MaxPids /\ faults \in 0..MaxFaults

-----------------------------------------------------------------------------
(* Sections *)

\* SectionAssembler::append(): at most one section leaves, the first in the buffer.
AppendPieces(buffer, pieces) ==
  LET b == buffer \o pieces
      len == SectionLen[b[1][1]]
  IN IF b = <<>> \/ pieces = <<>> \/ Len(b) < len THEN [buffer |-> b, done |-> <<>>]
     ELSE [buffer |-> SubSeq(b, len + 1, Len(b)), done |-> <<SubSeq(b, 1, len)>>]

\* SectionAssembler::feed(): what precedes the pointer ends the section in progress,
\* and what follows it begins a new one.
FeedSection(buffer, p) ==
  IF p.start
  THEN LET before == AppendPieces(buffer, IF buffer = <<>> THEN <<>> ELSE SubSeq(p.pieces, 1, p.pointer))
           after == AppendPieces(<<>>, SubSeq(p.pieces, p.pointer + 1, Len(p.pieces)))
       IN [buffer |-> after.buffer, done |-> before.done \o after.done]
  ELSE IF buffer = <<>> THEN [buffer |-> buffer, done |-> <<>>]
  ELSE AppendPieces(buffer, p.pieces)

\* process_pmt() and register_stream(): the streams of sections ss, in order, up to
\* one that is not supported, or one too many.
Listed(ss) == FlattenSeq([i \in DOMAIN ss |-> SectionStreams[ss[i][1][1]]])
Register(tracks, listed) ==
  FoldLeft(LAMBDA r, x :
            IF r.error \/ (x # "unsupported" /\ \E i \in DOMAIN r.tracks : r.tracks[i] = x) THEN r
            ELSE IF x = "unsupported" \/ Len(r.tracks) >= MaxPids THEN [r EXCEPT !.error = TRUE]
            ELSE [r EXCEPT !.tracks = Append(@, x)],
          [tracks |-> tracks, error |-> FALSE], listed)

ProcessPsi(p) ==
  LET fed == FeedSection(psi.buffer, p)
      r == Register(psi.tracks, Listed(fed.done))
  IN /\ psi' = [buffer |-> fed.buffer, tracks |-> r.tracks]
     /\ out' = [sections |-> fed.done, units |-> <<>>, error |-> r.error]
     /\ UNCHANGED es

-----------------------------------------------------------------------------
(* PES *)

\* flush_into(): a unit without a length ends where the next one begins.
Flushed(raw) == IF raw = <<>> THEN <<>> ELSE <<raw>>

\* PesAssembler::feed(), with try_complete_into().
FeedPes(raw, x) ==
  LET complete(r) == r[1].unit.bounded /\ Len(r) >= r[1].unit.len
      more == Append(raw, x)
  IN IF x.i = 1
     THEN IF complete(<<x>>) THEN [raw |-> <<>>, units |-> Flushed(raw) \o <<<<x>>>>, error |-> FALSE]
          ELSE [raw |-> <<x>>, units |-> Flushed(raw), error |-> FALSE]
     ELSE IF raw = <<>> THEN [raw |-> raw, units |-> <<>>, error |-> FALSE]
     ELSE IF Len(more) > MaxPes THEN [raw |-> <<>>, units |-> <<>>, error |-> TRUE]
     ELSE IF complete(more) THEN [raw |-> <<>>, units |-> <<more>>, error |-> FALSE]
     ELSE [raw |-> more, units |-> <<>>, error |-> FALSE]

Nothing == [sections |-> <<>>, units |-> <<>>, error |-> FALSE]

\* Mutant: a loss does not discard what was collected.
ProcessElementaryJoins(x, damaged) ==
  IF "es" \notin Range(psi.tracks) THEN out' = Nothing /\ UNCHANGED <<psi, es>>
  ELSE IF damaged \/ x.cc = es.cc THEN out' = Nothing /\ UNCHANGED <<psi, es>>
  ELSE LET fed == FeedPes(es.raw, x)
       IN /\ es' = [cc |-> x.cc, seen |-> TRUE, raw |-> fed.raw]
          /\ out' = [sections |-> <<>>, units |-> fed.units, error |-> fed.error]
          /\ UNCHANGED psi

\* process_elementary() of a packet, which may be flagged as damaged.
ProcessElementary(x, damaged) ==
  IF "es" \notin Range(psi.tracks) THEN out' = Nothing /\ UNCHANGED <<psi, es>>
  ELSE IF damaged
  THEN /\ es' = [cc |-> x.cc, seen |-> FALSE, raw |-> <<>>]
       /\ out' = Nothing /\ UNCHANGED psi
  ELSE IF x.cc = es.cc THEN out' = Nothing /\ UNCHANGED <<psi, es>>     \* a repetition
  ELSE LET lost == es.cc # NoCc /\ x.cc # (es.cc + 1) % CcMod
           raw == IF lost THEN <<>> ELSE es.raw
           seen == x.i = 1 \/ (es.seen /\ ~lost)
           fed == IF seen THEN FeedPes(raw, x) ELSE [raw |-> raw, units |-> <<>>, error |-> FALSE]
       IN /\ es' = [cc |-> x.cc, seen |-> seen, raw |-> fed.raw]
          /\ out' = [sections |-> <<>>, units |-> fed.units, error |-> fed.error]
          /\ UNCHANGED psi

-----------------------------------------------------------------------------
(* The multiplexer and the network (external) *)

\* The pieces of the next packet: one, or two of which the second may start a section.
Piece(s, i) == <<s, i>>
After(s, i) == IF i < SectionLen[s] THEN <<s, i + 1>> ELSE <<s + 1, 1>>
PsiPackets ==
  LET first == IF mux.section \in Sections THEN After(mux.section, mux.piece) ELSE <<mux.section, 1>>
      second == After(first[1], first[2])
  IN IF first[1] \notin Sections THEN {}
     ELSE {[pieces |-> ps, start |-> \E i \in DOMAIN ps : ps[i][2] = 1,
            pointer |-> IF ps[1][2] = 1 THEN 0 ELSE 1] :
             ps \in {<<first>>} \cup (IF second[1] \in Sections THEN {<<first, second>>} ELSE {})}

\* The network: it may repeat a packet at once, or lose it.
Spoil == faults < MaxFaults /\ faults' = faults + 1

SendPsi ==
  \E p \in PsiPackets :
    /\ mux' = [mux EXCEPT !.section = Last(p.pieces)[1], !.piece = Last(p.pieces)[2]]
    /\ \/ ProcessPsi(p) /\ UNCHANGED <<faults, spoilt>>
       \/ /\ Spoil /\ spoilt' = [spoilt EXCEPT !.psi = TRUE]
          /\ out' = Nothing /\ UNCHANGED <<psi, es>>
    /\ UNCHANGED run

RepeatPsi ==
  /\ Spoil /\ spoilt' = [spoilt EXCEPT !.psi = TRUE]
  /\ \E ps \in {<<Piece(mux.section, mux.piece)>>} :
       /\ mux.section \in Sections /\ mux.piece > 1
       /\ ProcessPsi([pieces |-> ps, start |-> FALSE, pointer |-> 0])
  /\ UNCHANGED <<mux, run>>

\* A piece of the unit in progress, or the first one of the next.
NextPieces ==
  IF mux.sent < mux.unit.len THEN {[unit |-> mux.unit, i |-> mux.sent + 1, cc |-> mux.cc]}
  ELSE IF mux.unit.n = MaxUnits THEN {}
  ELSE {[unit |-> [n |-> mux.unit.n + 1, len |-> l, bounded |-> b], i |-> 1, cc |-> mux.cc] :
          l \in UnitLens, b \in BOOLEAN}

SendEs ==
  \E x \in NextPieces :
    /\ mux' = [mux EXCEPT !.unit = x.unit, !.sent = x.i, !.cc = (@ + 1) % CcMod]
    /\ \/ /\ ProcessElementary(x, FALSE)
          /\ run' = 0
          /\ spoilt' = [spoilt EXCEPT !.es = @ \/ run >= CcMod - 1]
          /\ UNCHANGED faults
       \/ /\ Spoil /\ ProcessElementary(x, TRUE)
          /\ run' = 0 /\ UNCHANGED spoilt
       \/ /\ Spoil /\ out' = Nothing
          /\ run' = run + 1 /\ UNCHANGED <<psi, es, spoilt>>

RepeatEs ==
  /\ Spoil /\ mux.unit.n > 0 /\ run = 0
  /\ ProcessElementary([unit |-> mux.unit, i |-> mux.sent, cc |-> (mux.cc + CcMod - 1) % CcMod], FALSE)
  /\ UNCHANGED <<mux, run, spoilt>>

Next == SendPsi \/ RepeatPsi \/ SendEs \/ RepeatEs

Spec == Init /\ [][Next]_vars

-----------------------------------------------------------------------------
(* Properties *)

\* Every unit that comes out is one that was sent, whole: losses, damage and repeated
\* packets never join parts of two.  (Unless a run of losses fits the counter, or is
\* one short of it and then looks like a repetition: demuxer.rs:345.)
UnitsWhole ==
  ~spoilt.es =>
    \A k \in DOMAIN out.units :
      LET u == out.units[k]
      IN Len(u) = u[1].unit.len /\ \A i \in DOMAIN u : u[i].unit = u[1].unit /\ u[i].i = i

\* Every section that comes out is one that was sent.  (Sections are neither checked
\* for continuity nor for their CRC: unless a PSI packet was lost or repeated,
\* section.rs:76, section.rs:134.)
SectionsWhole ==
  ~spoilt.psi =>
    \A k \in DOMAIN out.sections :
      LET s == out.sections[k]
      IN \A i \in DOMAIN s : s[i] = Piece(s[1][1], i)

\* A stream is registered once, in the order of the tables, whatever comes again.
TracksDistinct == IsInjective(psi.tracks) /\ "unsupported" \notin Range(psi.tracks)

TsSafe == TypeOK /\ UnitsWhole /\ SectionsWhole /\ TracksDistinct
=============================================================================
