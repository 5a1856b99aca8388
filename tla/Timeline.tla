-------------------------------- MODULE Timeline --------------------------------
(***************************************************************************)
(* The media clock (clock.rs) and the A/V synchroniser over it (sync.rs),  *)
(* with the conversions of time.rs.                                        *)
(*                                                                         *)
(* A source is external: it has a time of its own in each epoch, which it  *)
(* sends as a counter of wrapBits bits.  i64 microseconds do not overflow  *)
(* here; audio and video of one epoch share the counter, as in the code.   *)
(***************************************************************************)
EXTENDS Integers

CONSTANTS WrapBits,              \* 33 in MPEG-TS; AvSync's clock does not unwrap
          Threshold,             \* discontinuity_threshold_us
          TickNum, TickDen,      \* microseconds per tick of the source
          Ms,                    \* microseconds per millisecond
          MaxDrift, Late,        \* max_drift_ms, late_threshold_ms
          Epochs, Starts, Steps, \* of the source
          MaxSamples             \* bound, for model checking

\* The provers know nothing of powers, so the range of the counter is said to be a
\* number.  The source's first time fits the counter, and its steps are less than half
\* of the range, as unwrapping needs.
TimelineAssumption ==
  /\ WrapBits \in 1..62 /\ 2^WrapBits \in Nat \ {0}
  /\ Threshold \in Nat /\ TickNum \in Nat /\ TickDen \in Nat \ {0} /\ Ms \in Nat \ {0}
  /\ MaxDrift \in Int /\ Late \in Int
  /\ 0 \notin Epochs /\ MaxSamples \in Nat
  /\ Starts \subseteq Int /\ Steps \subseteq Int
  /\ \A start \in Starts, step \in Steps : start + step \in 0..(2^WrapBits - 1)
  /\ \A step \in Steps : 2 * step < 2^WrapBits /\ -2 * step < 2^WrapBits

VARIABLES
  wrapBits,   \* 0 for a clock that does not unwrap
  clock,      \* MediaClock
  sync,       \* AvSync
  source,     \* the source's time per epoch
  samples,
  given       \* what the last call returned: a time, and the epoch of the sample

vars == <<wrapBits, clock, sync, source, samples, given>>

NoEpoch == [seen |-> FALSE, base |-> 0, ticks |-> 0, raw |-> 0, clock |-> 0, delta |-> 0]

Init ==
  /\ wrapBits \in {0, WrapBits}
  /\ clock = [epochs |-> [e \in Epochs |-> NoEpoch], overall |-> 0,
              state |-> "Preroll", jitter |-> 0, wraps |-> 0, discontinuities |-> 0]
  /\ sync = [audioMs |-> 0, heard |-> FALSE, audioClock |-> 0, decision |-> "none", maxDrift |-> 0]
  /\ source \in [Epochs -> Starts]
  /\ samples = 0
  /\ given = [epoch |-> 0, time |-> 0]

TypeOK ==
  /\ wrapBits \in {0, WrapBits} /\ samples \in 0..MaxSamples
  /\ clock.state \in {"Preroll", "CatchUp", "Ended"}
  /\ clock.overall >= 0 /\ clock.wraps \in 0..samples /\ clock.discontinuities \in 0..samples
  /\ sync.decision \in {"none", "Render", "Drop", "Hold"}
  /\ sync.maxDrift >= 0 /\ (sync.maxDrift > 0 => sync.heard)

-----------------------------------------------------------------------------
(* time.rs *)

\* Division that truncates toward zero.
Quotient(n, d) == IF n >= 0 THEN n \div d ELSE -((-n) \div d)

\* TimeBase::rescale_i64() from ticks to microseconds, and to milliseconds.
Micros(ticks) == Quotient(ticks * TickNum, TickDen)
Millis(ticks) == Quotient(ticks * TickNum, TickDen * Ms)

Abs(n) == IF n < 0 THEN -n ELSE n

\* Mutant: the wrap forward is not recognised.
UnwrapBackOnly(new, previous) ==
  LET range == 2^wrapBits
      delta == (new % range) - (previous % range)
  IN previous - (previous % range) + (new % range) + (IF delta > range \div 2 THEN -range ELSE 0)

\* Timestamp::unwrapped_around()
Unwrap(new, previous) ==
  LET range == 2^wrapBits
      delta == (new % range) - (previous % range)
  IN previous - (previous % range) + (new % range)
       + (IF delta > range \div 2 THEN -range ELSE IF delta < -(range \div 2) THEN range ELSE 0)

-----------------------------------------------------------------------------
(* MediaClock *)

\* Mutant: the clock is only kept in order within its epoch.
UpdatedEpoch(c, tick, e) ==
  LET x == c.epochs[e]
      ticks == IF x.seen /\ wrapBits > 0 THEN Unwrap(tick, x.ticks) ELSE tick
      raw == Micros(ticks)
      jump == x.seen /\ x.raw - raw > Threshold
      base == IF x.seen /\ ~jump THEN x.base ELSE IF jump THEN x.clock - raw + 1 ELSE 0
      inEpoch == IF base + raw < x.clock THEN x.clock - raw + 1 ELSE base
  IN [c EXCEPT !.epochs[e] = [seen |-> TRUE, base |-> inEpoch, ticks |-> ticks, raw |-> raw,
                              clock |-> inEpoch + raw, delta |-> 0],
               !.overall = IF inEpoch + raw > @ THEN inEpoch + raw ELSE @]

\* MediaClock::update(): a first sample, a jump back beyond the threshold, and any
\* step back continue one microsecond behind what was given before.
Updated(c, tick, e) ==
  LET x == c.epochs[e]
      ticks == IF x.seen /\ wrapBits > 0 THEN Unwrap(tick, x.ticks) ELSE tick
      wrapped == ticks # tick
      raw == Micros(ticks)
      after(time) == time - raw + 1
      jump == x.seen /\ x.raw - raw > Threshold
      base == IF jump \/ (~x.seen /\ c.overall # 0) THEN after(c.overall)
              ELSE IF x.seen THEN x.base ELSE 0
      inEpoch == IF base + raw < x.clock THEN after(x.clock) ELSE base
      final == IF inEpoch + raw < c.overall THEN after(c.overall) ELSE inEpoch
      delta == IF x.seen THEN raw - x.raw ELSE 0
      deviation == Abs(delta - x.delta)
  IN [c EXCEPT !.epochs[e] = [seen |-> TRUE, base |-> final, ticks |-> ticks, raw |-> raw,
                              clock |-> final + raw,
                              delta |-> IF jump \/ wrapped THEN 0 ELSE delta],
               !.overall = IF final + raw > @ THEN final + raw ELSE @,
               !.jitter = IF x.delta # 0 /\ deviation > @ * Ms THEN deviation \div Ms ELSE @,
               !.wraps = @ + (IF wrapped THEN 1 ELSE 0),
               !.discontinuities = @ + (IF jump THEN 1 ELSE 0)]

\* The next sample of epoch e, as the source counts.
Tick(e, step) ==
  IF wrapBits > 0 THEN (source[e] + step) % 2^wrapBits ELSE source[e] + step

Sample(e, step) ==
  /\ samples < MaxSamples /\ samples' = samples + 1
  /\ source' = [source EXCEPT ![e] = @ + step]
  /\ given' = [epoch |-> e, time |-> Updated(clock, Tick(e, step), e).epochs[e].clock]
  /\ UNCHANGED wrapBits

Update(e, step) ==
  /\ Sample(e, step)
  /\ clock' = Updated(clock, Tick(e, step), e)
  /\ UNCHANGED sync

\* A sample without PTS and DTS is refused.
MissingTimestamp ==
  /\ samples < MaxSamples /\ samples' = samples + 1
  /\ UNCHANGED <<wrapBits, clock, sync, source, given>>

-----------------------------------------------------------------------------
(* AvSync *)

FeedAudio(e, step) ==
  /\ wrapBits = 0 /\ Sample(e, step)
  /\ clock' = Updated(clock, Tick(e, step), e)
  /\ sync' = [sync EXCEPT !.audioMs = Millis(Tick(e, step)), !.heard = TRUE,
                          !.audioClock = clock'.epochs[e].clock]

\* feed_video(): what is too far from the audio is dropped, or held, unless it is a
\* key frame that is late.
FeedVideo(e, step, key) ==
  /\ wrapBits = 0 /\ Sample(e, step)
  /\ LET drift == IF sync.heard THEN Millis(Tick(e, step)) - sync.audioMs ELSE 0
         ahead == drift > MaxDrift
         late == drift < -Late
     IN /\ clock' = [Updated(clock, Tick(e, step), e) EXCEPT
                       !.state = IF sync.heard /\ (ahead \/ late) THEN "CatchUp" ELSE @]
        /\ sync' = [sync EXCEPT
             !.maxDrift = IF Abs(drift) > @ THEN Abs(drift) ELSE @,
             !.decision = IF sync.heard /\ ahead THEN IF key THEN "Hold" ELSE "Drop"
                          ELSE IF sync.heard /\ late /\ ~key THEN "Drop" ELSE "Render"]

SetEnded ==
  /\ clock' = [clock EXCEPT !.state = "Ended"]
  /\ UNCHANGED <<wrapBits, sync, source, samples, given>>

Next ==
  \/ \E e \in Epochs, step \in Steps :
       Update(e, step) \/ FeedAudio(e, step) \/ \E key \in BOOLEAN : FeedVideo(e, step, key)
  \/ MissingTimestamp \/ SetEnded

Spec == Init /\ [][Next]_vars

-----------------------------------------------------------------------------
(* Properties *)

\* Unwrapped ticks follow the source through any number of wraps, in both
\* directions, while its steps are less than half the range of the counter.
UnwrapFollows ==
  wrapBits > 0 => \A e \in Epochs : clock.epochs[e].seen => clock.epochs[e].ticks = source[e]

\* The clock never goes back: whatever epochs alternate, counters wrap or streams
\* begin again, a call returns no time before one that was returned earlier.
Monotonic == [][given'.time >= clock.overall \/ given' = given]_vars

\* While one epoch goes forward, the clock goes at the source's speed.
SpeedKept ==
  [][\A e \in Epochs :
       /\ given.epoch = e /\ given'.epoch = e /\ samples' # samples
       /\ source'[e] > source[e]
       /\ clock.epochs[e].clock = clock.overall
       => given'.time - given.time = Micros(source'[e]) - Micros(source[e])]_vars

\* The clock follows the source, and time does not run backwards.
ClockFollows == Monotonic /\ SpeedKept

\* Ticks follow the source through wraps, and the clock through everything.
TimelineFollows == [](TypeOK /\ UnwrapFollows) /\ ClockFollows
=============================================================================
