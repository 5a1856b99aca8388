---------------------------------- MODULE TsSync ----------------------------------
(***************************************************************************)
(* How the MPEG-TS demuxer finds packets (cheetah-container-mpegts,        *)
(* demuxer.rs, packet.rs): the buffer, the search for the first byte of a  *)
(* packet, and the limits of both.  What packets carry is in TsDemuxer.    *)
(*                                                                         *)
(* A byte is its place in the input, and Input says which of them equal    *)
(* the sync byte.  The caller goes on after an error of the search, as the *)
(* error is not kept (the transmuxer, which keeps it, ends there).         *)
(***************************************************************************)
EXTENDS Integers, Sequences, SequencesExt, FiniteSetsExt

CONSTANTS PacketLen,   \* 188 in the code
          MaxScan,     \* MAX_SYNC_SCAN, 8 packets in the code
          MaxBuffer,   \* MAX_BUFFER
          ShrinkAt,    \* 4096 in the code: consumed bytes that are kept
          Items,       \* what the input is made of
          MaxItems,    \* bounds, for model checking: items,
          MaxFaults,   \* those of them that are not packets,
          Chunks       \* and the bytes of a push

VARIABLES
  items,   \* the input: packets, and what a network made of some
  at,      \* the bytes of it that were pushed
  d,       \* TsDemuxer
  taken,   \* where the packets began that came out
  asked,   \* what the last next_event() returned: a packet, nothing, an error
  unread,  \* ghost: bytes pushed since it returned nothing
  rushed   \* ghost: whether more than Unhurried of them were

vars == <<items, at, d, taken, asked, unread, rushed>>

\* An item is a packet (of PacketLen bytes, of which those in sync equal the sync byte)
\* or what is left of one, or noise.
Whole(x) == x.len = PacketLen /\ 1 \in x.sync
Quiet(x) == x.sync \subseteq {1}
Faulty(s) == {i \in DOMAIN s : ~Whole(s[i])}
LengthOf(s) == FoldLeft(LAMBDA sum, x : sum + x.len, 0, s)
StartOf(s, n) == LengthOf(SubSeq(s, 1, n - 1)) + 1
IsSync(p) ==
  \E n \in DOMAIN items : p - StartOf(items, n) + 1 \in items[n].sync

Init ==
  /\ items \in {s \in [1..MaxItems -> Items] : Cardinality(Faulty(s)) <= MaxFaults}
  /\ at = 0
  /\ d = [buffer |-> <<>>, read |-> 0, error |-> FALSE]
  /\ taken = <<>> /\ asked = "nothing"
  /\ unread = 0 /\ rushed = FALSE

TypeOK ==
  /\ at \in 0..LengthOf(items) /\ d.read \in 0..Len(d.buffer) /\ Len(d.buffer) <= MaxBuffer
  /\ asked \in {"packet", "nothing", "error"}

-----------------------------------------------------------------------------
(* The demuxer *)

\* What a caller may push between two drained states without losing packets.
Unhurried == MaxScan + 1

\* push()
Push ==
  \E c \in Chunks :
    /\ at + c <= LengthOf(items)
    /\ at' = at + c
    /\ d' = IF d.error THEN d
            ELSE IF Len(d.buffer) + c > MaxBuffer THEN [d EXCEPT !.error = TRUE]
            ELSE [d EXCEPT !.buffer = @ \o [i \in 1..c |-> at + i]]
    /\ unread' = unread + c
    /\ rushed' = (rushed \/ unread + c > Unhurried)
    /\ UNCHANGED <<items, taken, asked>>

\* Whether a packet may begin with byte i (from 0) of the buffer: the byte after it, if
\* it is there, must be one that another begins with.
Plausible(i) ==
  /\ IsSync(d.buffer[i + 1])
  /\ i + PacketLen >= Len(d.buffer) \/ IsSync(d.buffer[i + PacketLen + 1])

\* Mutant: the last place where a packet would fit is not looked at.
FoundShort ==
  LET end == Min({d.read + MaxScan, Len(d.buffer)})
  IN {i \in (d.read + 1)..(end - PacketLen - 1) : Plausible(i)}

\* Where resync() may go on: within MaxScan bytes.
Found ==
  LET end == Min({d.read + MaxScan, Len(d.buffer)})
  IN {i \in (d.read + 1)..(end - PacketLen) : Plausible(i)}

\* Mutant: the buffer is emptied.
ResyncFailsEmpty ==
  IF Len(d.buffer) - d.read > MaxScan
  THEN d' = [d EXCEPT !.buffer = <<>>, !.read = 0] /\ asked' = "error"
  ELSE UNCHANGED d /\ asked' = "nothing"

\* resync() finds nothing: the last MaxScan bytes are kept.
ResyncFails ==
  IF Len(d.buffer) - d.read > MaxScan
  THEN /\ d' = [d EXCEPT !.buffer = SubSeq(@, Len(@) - MaxScan + 1, Len(@)), !.read = 0]
       /\ asked' = "error"
  ELSE UNCHANGED d /\ asked' = "nothing"

\* A packet is taken at byte i of the buffer; shrink().
Take(i) ==
  LET read == i + PacketLen
  IN /\ d' = IF read > ShrinkAt
             THEN [d EXCEPT !.buffer = SubSeq(@, read + 1, Len(@)), !.read = 0]
             ELSE [d EXCEPT !.read = read]
     /\ taken' = Append(taken, d.buffer[i + 1])
     /\ asked' = "packet"

\* next_event(), with parse_packet() and resync(), up to the next packet.
NextEvent ==
  /\ IF d.error
     THEN asked' = "error" /\ UNCHANGED <<d, taken>>
     ELSE IF d.read + PacketLen > Len(d.buffer)
     THEN asked' = "nothing" /\ UNCHANGED <<d, taken>>
     ELSE IF IsSync(d.buffer[d.read + 1])
     THEN Take(d.read)
     ELSE IF Found # {}
     THEN Take(Min(Found))
     ELSE ResyncFails /\ UNCHANGED <<taken>>
  /\ unread' = IF asked' = "nothing" THEN 0 ELSE unread
  /\ UNCHANGED <<items, at, rushed>>

Next == Push \/ NextEvent

Spec == Init /\ [][Next]_vars

-----------------------------------------------------------------------------
(* Properties *)

\* Nothing more will come out of what was pushed.
Drained == asked = "nothing" /\ unread = 0 /\ ~d.error

\* No byte is read as part of two packets, and what is left in the buffer is the end of
\* what was pushed: draining and shrinking lose no place.
ReadOnce ==
  /\ \A k \in 1..(Len(taken) - 1) : taken[k + 1] >= taken[k] + PacketLen
  /\ ~d.error => d.buffer = [i \in DOMAIN d.buffer |-> at - Len(d.buffer) + i]

\* A stream without faults comes out packet by packet, however it was cut into chunks
\* and whatever its packets hold.
PristineStays ==
  Faulty(items) = {} /\ ~d.error =>
    /\ taken = [k \in DOMAIN taken |-> StartOf(items, k)]
    /\ Drained => at - PacketLen * Len(taken) < PacketLen

\* A packet comes out if its neighbours are packets too, the sync byte at the beginning
\* of the one before being the only one in it.  (Unless the caller pushes more than
\* Unhurried bytes before it drains: the search then drops what it has not looked at,
\* demuxer.rs:224.)
Intact(n) == n < 1 \/ (n \in DOMAIN items /\ Whole(items[n]))
Resynchronised ==
  Drained /\ ~rushed =>
    \A n \in DOMAIN items :
      /\ Intact(n - 1) /\ Intact(n) /\ Intact(n + 1) /\ (n = 1 \/ Quiet(items[n - 1]))
      /\ at >= StartOf(items, n + 2) - 1
      => StartOf(items, n) \in Range(taken)

TsSyncSafe == TypeOK /\ ReadOnce /\ PristineStays /\ Resynchronised
=============================================================================
