------------------------------ MODULE AnnexbUnits ------------------------------
(***************************************************************************)
(* Where NAL units begin in a byte stream, and the parameter sets a track  *)
(* is told (cheetah-container-annexb: find_start_code of demuxer.rs,       *)
(* param_sets.rs), for the demuxers that find them in one.                 *)
(*                                                                         *)
(* A byte is a number; the headers of NAL units, one byte here, are the    *)
(* numbers of NalTypes.  Only 0, 1 and 3 matter to the framing.            *)
(***************************************************************************)
EXTENDS Integers, SequencesExt

CONSTANT Codec   \* "h264" or "h265"

NalTypes == [slice |-> 20, idr |-> 21, sei |-> 22, vps |-> 30, sps |-> 31, pps |-> 32]
SetTypes == {t \in {"vps", "sps", "pps"} : Codec = "h265" \/ t # "vps"}
Empty == [t \in SetTypes |-> <<>>]

OnlyZeros(s, i) == \A j \in i..Len(s) : s[j] = 0

\* The first i from `from` on with a start code of 3 or 4 bytes, past the four bytes of
\* every emulation prevention; Len(s) + 1 for none.
At(s, i, code) == i + Len(code) - 1 <= Len(s) /\ SubSeq(s, i, i + Len(code) - 1) = code
Guarded(s, i) == At(s, i, <<0, 0, 3>>) /\ i + 3 <= Len(s) /\ s[i + 3] <= 3
Starts(s, i) == At(s, i, <<0, 0, 1>>) \/ At(s, i, <<0, 0, 0, 1>>)
Find(s, from) ==
  FoldLeft(LAMBDA i, j : IF i # j \/ Starts(s, i) THEN i ELSE i + (IF Guarded(s, i) THEN 4 ELSE 1),
           from, [k \in 1..Len(s) |-> k])

\* find_start_code(), at the beginning: where the header after it is.
Header(s) ==
  LET i == Find(s, 1) IN IF At(s, i, <<0, 0, 1>>) THEN i + 3 ELSE i + 4

IsNal(nal, types) == nal[1] \in {NalTypes[t] : t \in types}
IsComplete(sets) == sets["sps"] # <<>> /\ sets["pps"] # <<>>

\* Mutant: only the first decoder configuration is told.
ConsumeOnce(x, nal) ==
  LET t == CHOOSE u \in SetTypes : NalTypes[u] = nal[1]
      sets == [x.sets EXCEPT ![t] = nal]
  IN IF ~IsComplete(sets) \/ x.config # Empty THEN [x EXCEPT !.sets = sets]
     ELSE [x EXCEPT !.sets = sets, !.config = sets, !.events = Append(@, [what |-> "track", config |-> sets])]

\* consume() and what follows it: the track is told again when its configuration changed.
Consume(x, nal) ==
  LET t == CHOOSE u \in SetTypes : NalTypes[u] = nal[1]
      sets == [x.sets EXCEPT ![t] = nal]
  IN IF ~IsComplete(sets) \/ sets = x.config THEN [x EXCEPT !.sets = sets]
     ELSE [x EXCEPT !.sets = sets, !.config = sets,
                    !.events = Append(@, [what |-> "track", config |-> sets])]

-----------------------------------------------------------------------------
(* For properties of the demuxers *)

\* A unit keeps zero bytes that stood before the next start code.
Trimmed(nal) ==
  SubSeq(nal, 1, CHOOSE k \in 0..Len(nal) : /\ OnlyZeros(nal, k + 1)
                                            /\ k > 0 => nal[k] # 0)
=============================================================================
