----------------------------- MODULE AnnexbDemuxer -----------------------------
(***************************************************************************)
(* The incremental Annex-B demuxer of H.264 and H.265                      *)
(* (cheetah-container-annexb: demuxer.rs, param_sets.rs) and what it uses  *)
(* of cheetah-media-bitstream (rbsp.rs, sei.rs), fed by an encoder that    *)
(* writes NAL units behind start codes of three or more bytes and a        *)
(* connection that cuts them anywhere (both external).                     *)
(***************************************************************************)
EXTENDS AnnexbUnits

CONSTANTS Units,       \* what the encoder sends: a type, bytes before the stop bit, a number,
                       \* and zero bytes before its 00 00 01
          More,        \* 0xff in the code: the number goes on in the next byte
          Stop,        \* 0x80: the trailing bits
          Cuts,        \* bytes that arrive at once, at most
          MaxNal,      \* max_nal_size_bytes
          MaxBuffer,   \* max_buffer_bytes
          MaxUnits, MaxResets   \* bounds, for model checking

VARIABLES
  d,        \* AnnexBDemuxer
  wire,     \* bytes of the unit being sent that did not arrive yet
  units,    \* ghost: the units sent that should come out, as the encoder had them
  resets,
  out,      \* events that came out
  drained,  \* the last next_event() found nothing more
  closed    \* the source sends nothing more

vars == <<d, wire, units, resets, out, drained, closed>>

Fresh == [buffer |-> <<>>, events |-> <<>>, sequence |-> 0, sets |-> Empty, config |-> Empty,
          ended |-> FALSE, eof |-> FALSE, error |-> "none"]

Init ==
  /\ d = Fresh
  /\ wire = <<>> /\ units = <<>> /\ resets = 0 /\ out = <<>> /\ drained = FALSE /\ closed = FALSE

-----------------------------------------------------------------------------
(* rbsp.rs and sei.rs *)

\* unescape_rbsp(): the 3 of 0 0 3 x goes where x is at most 3.
Unescaped(s) ==
  FoldLeft(LAMBDA acc, i :
             IF i <= acc.done THEN acc
             ELSE IF i + 2 <= Len(s) /\ SubSeq(s, i, i + 2) = <<0, 0, 3>>
             THEN [done |-> i + 2,
                   s |-> acc.s \o IF i + 3 <= Len(s) /\ s[i + 3] <= 3
                                  THEN <<0, 0>> ELSE <<0, 0, 3>>]
             ELSE [done |-> i, s |-> Append(acc.s, s[i])],
           [done |-> 0, s |-> <<>>], [i \in DOMAIN s |-> i]).s

\* A number from byte i on, and where the next one is: More adds up, another byte ends it.
Number(s, i) ==
  LET ends == {j \in i..Len(s) : s[j] # More}
  IN IF ends = {} THEN [ok |-> FALSE]
     ELSE LET e == CHOOSE j \in ends : \A k \in ends : j <= k
          IN [ok |-> TRUE, v |-> (e - i) * More + s[e], next |-> e + 1]

\* parse_sei(), without its limits: <<>> for a message that cannot be read.
Messages(s) ==
  LET step[i \in 1..Len(s) + 1] ==
        IF i > Len(s) \/ (s[i] = Stop /\ OnlyZeros(s, i + 1)) THEN [ok |-> TRUE, m |-> <<>>]
        ELSE LET type == Number(s, i)
                 size == IF type.ok THEN Number(s, type.next) ELSE type
             IN IF ~size.ok THEN [ok |-> FALSE]
                ELSE IF size.next + size.v - 1 > Len(s)
                THEN IF OnlyZeros(s, size.next)
                     THEN [ok |-> TRUE, m |-> <<<<type.v, SubSeq(s, size.next, Len(s))>>>>]
                     ELSE [ok |-> FALSE]
                ELSE LET rest == step[size.next + size.v]
                         message == <<type.v, SubSeq(s, size.next, size.next + size.v - 1)>>
                     IN IF rest.ok THEN [ok |-> TRUE, m |-> <<message>> \o rest.m] ELSE rest
  IN IF step[1].ok THEN step[1].m ELSE <<>>

-----------------------------------------------------------------------------
(* demuxer.rs *)

NewPacket(x, nal) ==
  [x EXCEPT !.sequence = @ + 1,
            !.events = Append(@, [what |-> "packet", key |-> IsNal(nal, {"idr"}),
                                  nal |-> nal, sequence |-> x.sequence])]

\* handle_nal()
HandleNal(x, nal) ==
  IF nal = <<>> THEN x
  ELSE IF IsNal(nal, {"sei"})
  THEN LET items == Messages(Unescaped(Tail(nal)))
       IN IF items = <<>> THEN x
          ELSE [x EXCEPT !.events = Append(@, [what |-> "metadata", items |-> items])]
  ELSE IF IsNal(nal, SetTypes) THEN Consume(x, nal)
  ELSE NewPacket(x, nal)

\* A unit from header to where the next start code is.
Take(x, header, next) ==
  HandleNal([x EXCEPT !.buffer = SubSeq(@, next, Len(@))], SubSeq(x.buffer, header, next - 1))

\* Mutant: a unit is over where the data is.
UnitCut(x, header, next) ==
  IF header > Len(x.buffer) THEN [x EXCEPT !.error = "more"] ELSE Take(x, header, next)

\* "more" is the Ok(false) of process_one().
Unit(x, header, next) ==
  IF header > Len(x.buffer) \/ next > Len(x.buffer) THEN [x EXCEPT !.error = "more"]
  ELSE IF next - header > MaxNal THEN [x EXCEPT !.error = "large"]
  ELSE Take(x, header, next)

\* process_one()
ProcessOne(x) == Unit(x, Header(x.buffer), Find(x.buffer, Header(x.buffer)))

\* process_one() again, until it stops or `enough` does.
Process(x, Enough(_)) ==
  FoldLeft(LAMBDA y, i : IF y.error # "none" \/ Enough(y) THEN y ELSE ProcessOne(y),
           x, [i \in 1..Len(x.buffer) + 1 |-> i])

Ending(x) == [x EXCEPT !.buffer = <<>>, !.eof = TRUE]
Eof(x) == [x EXCEPT !.events = Append(@, [what |-> "eof"])]

\* The last unit, which nothing follows, if it has begun.
Flush(x, nal) ==
  IF nal = <<>> THEN Eof(Ending(x))
  ELSE IF Len(nal) > MaxNal THEN [x EXCEPT !.error = "large"]
  ELSE Eof(HandleNal(Ending(x), nal))

\* process_eof()
ProcessEof(x) ==
  LET y == Process(x, LAMBDA z : FALSE)
  IN IF x.eof THEN x
     ELSE IF y.error = "large" THEN y
     ELSE Flush([y EXCEPT !.error = "none"], SubSeq(y.buffer, Header(y.buffer), Len(y.buffer)))

\* What next_event() turns to before it looks at the queue.
Turned(x) ==
  IF x.events # <<>> \/ x.error # "none" THEN x
  ELSE IF x.ended THEN ProcessEof(x)
  ELSE Process(x, LAMBDA y : y.events # <<>>)

\* A queued event, also before an error; an error that is not latched is forgotten.
Told(x, failed) ==
  /\ IF failed \/ x.events = <<>>
     THEN out' = out /\ d' = [x EXCEPT !.error = d.error]
     ELSE out' = Append(out, Head(x.events)) /\ d' = [x EXCEPT !.events = Tail(@), !.error = d.error]
  /\ drained' = (~failed /\ x.events = <<>>)

NextEvent ==
  /\ \E x \in {Turned(d)} : Told(x, x.error \in {"large", "full"} /\ d.events = <<>>)
  /\ UNCHANGED <<wire, units, resets, closed>>

\* push() of what arrives
Push(cut) ==
  LET n == IF cut < Len(wire) THEN cut ELSE Len(wire) IN
  /\ wire # <<>>
  /\ d' = IF d.error # "none" THEN d
          ELSE IF Len(d.buffer) + n > MaxBuffer THEN [d EXCEPT !.error = "full"]
          ELSE [d EXCEPT !.buffer = @ \o SubSeq(wire, 1, n)]
  /\ wire' = SubSeq(wire, n + 1, Len(wire))
  /\ drained' = FALSE
  /\ UNCHANGED <<units, resets, out, closed>>

End ==
  /\ closed /\ wire = <<>> /\ ~d.ended
  /\ d' = [d EXCEPT !.ended = TRUE]
  /\ drained' = FALSE
  /\ UNCHANGED <<wire, units, resets, out, closed>>

-----------------------------------------------------------------------------
(* The encoder and the application *)

\* A 3 before every byte that would read as a start code.
Escaped(s) ==
  FoldLeft(LAMBDA acc, b : acc \o IF b <= 3 /\ Len(acc) >= 2 /\ SubSeq(acc, Len(acc) - 1, Len(acc)) = <<0, 0>>
                                  THEN <<3, b>> ELSE <<b>>, <<>>, s)

Numbered(n) == [i \in 1..n \div More |-> More] \o <<n % More>>

Coded(unit) ==
  <<NalTypes[unit.type]>> \o
  Escaped(IF unit.type = "sei"
          THEN Numbered(unit.number) \o Numbered(Len(unit.payload)) \o unit.payload \o <<Stop>>
          ELSE unit.payload \o <<Stop>>)

Send(unit) ==
  /\ ~closed /\ wire = <<>> /\ Len(units) + resets < MaxUnits
  /\ wire' = [i \in 1..unit.zeros |-> 0] \o <<0, 0, 1>> \o Coded(unit)
  /\ units' = Append(units, unit)
  /\ UNCHANGED <<d, resets, out, drained, closed>>

Close ==
  /\ ~closed /\ wire = <<>> /\ closed' = TRUE
  /\ UNCHANGED <<d, wire, units, resets, out, drained>>

\* reset(): the unit being sent comes out if its start code is yet to come.
Reset ==
  /\ resets < MaxResets
  /\ resets' = resets + 1
  /\ d' = Fresh /\ out' = <<>> /\ drained' = FALSE
  /\ units' = IF wire # <<>> /\ Len(wire) >= Len(Coded(Last(units))) + 3
              THEN <<Last(units)>> ELSE <<>>
  /\ UNCHANGED <<wire, closed>>

Next ==
  \/ \E unit \in Units : Send(unit)
  \/ \E cut \in Cuts : Push(cut)
  \/ NextEvent \/ End \/ Close \/ Reset

Spec == Init /\ [][Next]_vars

-----------------------------------------------------------------------------
(* What it promises *)

TypeOK ==
  /\ d.error \in {"none", "full"} /\ d.eof \in BOOLEAN /\ d.ended \in BOOLEAN
  /\ Len(d.buffer) <= MaxBuffer
  /\ Len(units) <= MaxUnits /\ resets <= MaxResets

Events(what) == SelectSeq(out, LAMBDA e : e.what \in what)
Shown == SelectSeq(units, LAMBDA u : u.type \notin SetTypes)

\* Every unit comes out whole, once and in order, as it was written, wherever the
\* connection cut it and whatever was reset before; packets count up from zero.
UnitsWhole ==
  LET shown == Events({"packet", "metadata"})
      packets == Events({"packet"})
  IN /\ Len(shown) <= Len(Shown)
     /\ \A i \in DOMAIN shown :
          LET e == shown[i]
              u == Shown[i]
          IN IF u.type = "sei"
             THEN e.what = "metadata" /\ e.items = <<<<u.number, u.payload>>>>
             ELSE /\ e.what = "packet" /\ Trimmed(e.nal) = Coded(u)
                  /\ e.key = (u.type = "idr")
     /\ \A i \in DOMAIN packets : packets[i].sequence = i - 1

\* A decoder was told the parameter sets a packet is coded with, before the packet.
SetsBefore(n) ==
  LET last == CHOOSE i \in DOMAIN units :
                /\ units[i].type \notin SetTypes
                /\ Len(SelectSeq(SubSeq(units, 1, i), LAMBDA u : u.type \notin SetTypes)) = n
  IN FoldLeft(LAMBDA sets, u : IF u.type \in SetTypes THEN [sets EXCEPT ![u.type] = Coded(u)] ELSE sets,
              Empty, SubSeq(units, 1, last))
SetsTold ==
  \A i \in DOMAIN out :
    out[i].what = "packet" =>
      LET before == SubSeq(out, 1, i)
          tracks == SelectSeq(before, LAMBDA e : e.what = "track")
          sets == SetsBefore(Len(SelectSeq(before, LAMBDA e : e.what \in {"packet", "metadata"})))
      IN IF IsComplete(sets)
         THEN tracks # <<>> /\ [t \in SetTypes |-> Trimmed(Last(tracks).config[t])] = sets
         ELSE tracks = <<>>

\* Without an error, a unit behind which another began is not held back, and the end
\* of the stream comes last and once, after everything.
NothingHeld ==
  LET shown == Events({"packet", "metadata"})
      more == wire # <<>> \/ units = <<>>
  IN drained =>
       /\ ~more => Len(shown) >= Len(Shown) - (IF Last(units).type \in SetTypes THEN 0 ELSE 1)
       /\ d.eof => Len(shown) = Len(Shown) /\ out # <<>> /\ Last(out).what = "eof"
EofOnce == \A i \in DOMAIN out : out[i].what = "eof" => i = Len(out)

AnnexbSafe == TypeOK /\ UnitsWhole /\ SetsTold /\ NothingHeld /\ EofOnce
=============================================================================
