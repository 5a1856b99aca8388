--------------------------- MODULE StreamingProofs ---------------------------
(***************************************************************************)
(* Proofs about the broadcast engine, for any bitrates and any number of   *)
(* packets, and about the HLS client, for any segments, parts and limits.  *)
(***************************************************************************)
EXTENDS MCServices, WellFoundedInduction, TLAPS

-----------------------------------------------------------------------------
(* The broadcast engine *)

\* What stopping, failing and connecting do to the pipeline.
LEMMA StopReleases ==
  ASSUME Engine!HandlesTrackDevices, Engine!StopPipeline
  PROVE  ~capturing' /\ ~online' /\ ~started' /\ ~connected' /\ network' = 0
BY DEF Engine!HandlesTrackDevices, Engine!StopPipeline

Safe == Engine!HandlesTrackDevices /\ Engine!RunsWhileBroadcasting /\ Engine!ReleasedAtEnd

\* A pipeline that has been stopped is safe in every state that does not run.
LEMMA StoppedSafe ==
  ASSUME Engine!HandlesTrackDevices, Engine!StopPipeline, state' # "Broadcasting"
  PROVE  Safe'
<1>1. capturing' = FALSE /\ online' = FALSE /\ started' = FALSE /\ connected' = FALSE /\ network' = 0
  BY StopReleases DEF Engine!StopPipeline
<1> QED
  BY <1>1
     DEF Safe, Engine!HandlesTrackDevices, Engine!RunsWhileBroadcasting, Engine!ReleasedAtEnd,
         Engine!WithinLimits

LEMMA SafeStep == Safe /\ [Engine!Next]_(Engine!vars) => Safe'
<1> SUFFICES ASSUME Safe, [Engine!Next]_(Engine!vars) PROVE Safe'
  OBVIOUS
<1>a. Engine!HandlesTrackDevices /\ Engine!RunsWhileBroadcasting /\ Engine!ReleasedAtEnd
  BY DEF Safe
<1>1. ASSUME Engine!Fail PROVE Safe'
  BY <1>1, <1>a, StoppedSafe DEF Engine!Fail
<1>2. ASSUME UNCHANGED <<state, setup, connected, started, network, capturing, online>> PROVE Safe'
  BY <1>2, <1>a
     DEF Safe, Engine!HandlesTrackDevices, Engine!RunsWhileBroadcasting, Engine!ReleasedAtEnd,
         Engine!WithinLimits
<1>3. CASE Engine!Connect
  <2>1. CASE Engine!ConnectPipeline /\ state' = "Ready"
    <3>1. setup' = setup /\ capturing' = capturing /\ started' = started
          /\ online' = TRUE /\ connected' = TRUE /\ state' = "Ready"
      BY <1>3, <2>1 DEF Engine!Connect, Engine!ConnectPipeline
    <3>2. network' = 1
      BY <2>1, <1>a DEF Engine!ConnectPipeline, Engine!HandlesTrackDevices
    <3>4. ~started
      BY <1>3, <1>a DEF Engine!Connect, Engine!RunsWhileBroadcasting
    <3> QED
      BY <3>1, <3>2, <3>4, <1>a
         DEF Safe, Engine!HandlesTrackDevices, Engine!RunsWhileBroadcasting,
             Engine!ReleasedAtEnd, Engine!WithinLimits
  <2> QED
    BY <1>1, <1>3, <2>1 DEF Engine!Connect
<1>4. CASE Engine!Start
  <2>1. CASE Engine!StartPipeline
    <3>1. setup' = setup
      BY <1>4 DEF Engine!Start
    <3> QED
      BY <2>1, <3>1, <1>a
         DEF Engine!StartPipeline, Safe, Engine!HandlesTrackDevices,
             Engine!RunsWhileBroadcasting, Engine!ReleasedAtEnd, Engine!WithinLimits
  <2>2. CASE Engine!StartFailure
    BY <2>2, <1>1 DEF Engine!StartFailure
  <2> QED
    BY <1>4, <2>1, <2>2 DEF Engine!Start
<1>5. CASE Engine!Stop
  BY <1>5, <1>a, StoppedSafe DEF Engine!Stop
<1>6. CASE Engine!Destroy
  BY <1>6, <1>a, StoppedSafe DEF Engine!Destroy
<1>7. CASE Engine!StartDenied \/ Engine!RequestPermission \/ Engine!RequestKeyframe \/ Engine!Invalid \/ Engine!TickIdle
  BY <1>2, <1>7
     DEF Engine!StartDenied, Engine!RequestPermission, Engine!RequestKeyframe, Engine!Invalid,
         Engine!TickIdle, Engine!pipeline
<1>8. ASSUME NEW bps \in Bitrates, Engine!ApplyFeedback(bps) PROVE Safe'
  BY <1>2, <1>8 DEF Engine!ApplyFeedback
<1>9. CASE Engine!TickFailed \/ Engine!TickFeedbackRefused
  BY <1>1, <1>9 DEF Engine!TickFailed, Engine!TickFeedbackRefused
<1>10. CASE Engine!TickPublished
  BY <1>2, <1>10 DEF Engine!TickPublished
<1>11. CASE UNCHANGED Engine!vars
  BY <1>2, <1>11 DEF Engine!vars, Engine!pipeline
<1> QED
  BY <1>3, <1>4, <1>5, <1>6, <1>7, <1>8, <1>9, <1>10, <1>11 DEF Engine!Next, Engine!Tick

\* On every path, errors in the middle of a start or a tick included: the ledger
\* agrees with the devices, the capture runs only while the engine broadcasts
\* within its limits, and nothing is held after a stop, a failure or the end.
THEOREM BroadcastSafe == Engine!Spec => []DevicesAgree
<1>1. Engine!Init => Safe
  BY DEF Engine!Init, Safe, Engine!HandlesTrackDevices, Engine!RunsWhileBroadcasting,
         Engine!ReleasedAtEnd, Engine!WithinLimits
<1>2. Safe => DevicesAgree
  BY DEF Safe, DevicesAgree, Engine!DevicesAgree
<1> QED
  BY <1>1, <1>2, SafeStep, PTL DEF Engine!Spec

-----------------------------------------------------------------------------
(* Pieces and segments *)

LEMMA WholeFacts ==
  /\ Hls!Whole(0) = 0
  /\ \A n \in Nat : Hls!Whole(n) \in Nat /\ Hls!First(n + 1) = Hls!Whole(n) + 1 /\ Hls!Whole(n + 1) = Hls!Whole(n) + Parts + 1
BY HlsAssumption DEF Hls!HlsAssumption, Hls!Whole, Hls!First

LEMMA FirstFacts ==
  ASSUME NEW n \in Nat, n >= 1
  PROVE  Hls!First(n) \in Nat /\ Hls!First(n) >= 1 /\ Hls!First(n) = Hls!Whole(n - 1) + 1
<1>1. n - 1 \in Nat
  OBVIOUS
<1>2. Hls!Whole(n - 1) \in Nat
  BY <1>1, WholeFacts
<1> QED
  BY <1>2 DEF Hls!First

LEMMA WholeRises ==
  ASSUME NEW m \in Nat, NEW n \in Nat, m < n
  PROVE  Hls!Whole(m) < Hls!First(n) /\ Hls!First(n) <= Hls!Whole(n) /\ Hls!Whole(m) < Hls!Whole(n)
<1>1. PICK d \in Nat : n = m + 1 + d
  <2>1. n - m - 1 \in Nat /\ n = m + 1 + (n - m - 1)
    OBVIOUS
  <2> QED
    BY <2>1
<1>2. n * (Parts + 1) = m * (Parts + 1) + (Parts + 1) + d * (Parts + 1)
  BY <1>1, HlsAssumption DEF Hls!HlsAssumption
<1>3. (n - 1) * (Parts + 1) = m * (Parts + 1) + d * (Parts + 1)
  BY <1>1, HlsAssumption DEF Hls!HlsAssumption
<1>4. d * (Parts + 1) \in Nat /\ m * (Parts + 1) \in Nat
  BY HlsAssumption DEF Hls!HlsAssumption
<1> QED
  BY <1>2, <1>3, <1>4, HlsAssumption DEF Hls!HlsAssumption, Hls!Whole, Hls!First

LEMMA WholeGrows ==
  ASSUME NEW m \in Nat, NEW n \in Nat, m <= n
  PROVE  Hls!Whole(m) \in Nat /\ Hls!Whole(n) \in Nat /\ Hls!Whole(m) <= Hls!Whole(n)
<1>1. Hls!Whole(m) \in Nat /\ Hls!Whole(n) \in Nat
  BY WholeFacts
<1>2. m < n => Hls!Whole(m) < Hls!Whole(n)
  BY WholeRises
<1> QED
  BY <1>1, <1>2

LEMMA WholePositive ==
  ASSUME NEW n \in Nat, n >= 1
  PROVE  Hls!Whole(n) \in Nat \ {0}
<1>1. Hls!Whole(0) < Hls!Whole(n) /\ Hls!Whole(n) \in Nat /\ Hls!Whole(0) = 0
  BY WholeRises, WholeFacts
<1> QED
  BY <1>1

\* A piece is of one segment.
LEMMA SegmentFacts ==
  ASSUME NEW p \in Nat, p >= 1
  PROVE  /\ Hls!SegmentOf(p) \in Nat /\ Hls!SegmentOf(p) >= 1
         /\ Hls!First(Hls!SegmentOf(p)) <= p /\ p <= Hls!Whole(Hls!SegmentOf(p))
<1> DEFINE k == Parts + 1
           n == (p + Parts) \div k
<1>1. k \in Nat /\ k >= 1 /\ Parts = k - 1
  BY HlsAssumption DEF Hls!HlsAssumption
<1>2. n \in Int /\ (p + Parts) = k * n + ((p + Parts) % k) /\ (p + Parts) % k \in 0..(k - 1)
  BY <1>1, HlsAssumption DEF Hls!HlsAssumption
<1>3. n >= 1
  <2>1. SUFFICES ASSUME n <= 0 PROVE FALSE
    BY <1>2
  <2>2. k * n <= 0
    BY <1>1, <1>2, <2>1
  <2> QED
    BY <1>1, <1>2, <2>2
<1>4. n * k = k * n /\ (n - 1) * k = k * n - k
  BY <1>1, <1>2
<1> QED
  BY <1>1, <1>2, <1>3, <1>4 DEF Hls!SegmentOf, Hls!First, Hls!Whole

LEMMA SegmentUnique ==
  ASSUME NEW p \in Nat, NEW n \in Nat, n >= 1, Hls!First(n) <= p, p <= Hls!Whole(n)
  PROVE  Hls!SegmentOf(p) = n
<1>1. p >= 1 /\ Hls!Whole(n) \in Nat /\ Hls!First(n) \in Nat
  <2>1. Hls!First(n) \in Nat /\ Hls!First(n) >= 1 /\ Hls!Whole(n) \in Nat
    BY FirstFacts, WholeFacts
  <2> QED
    BY <2>1
<1>2. /\ Hls!SegmentOf(p) \in Nat /\ Hls!SegmentOf(p) >= 1
      /\ Hls!First(Hls!SegmentOf(p)) <= p /\ p <= Hls!Whole(Hls!SegmentOf(p))
  BY <1>1, SegmentFacts
<1>3. ~ Hls!SegmentOf(p) < n
  <2> SUFFICES ASSUME Hls!SegmentOf(p) < n PROVE FALSE
    OBVIOUS
  <2>1. Hls!Whole(Hls!SegmentOf(p)) < Hls!First(n) /\ Hls!Whole(Hls!SegmentOf(p)) \in Nat
    BY <1>2, WholeRises, WholeFacts
  <2> QED
    BY <1>1, <1>2, <2>1
<1>4. ~ n < Hls!SegmentOf(p)
  <2> SUFFICES ASSUME n < Hls!SegmentOf(p) PROVE FALSE
    OBVIOUS
  <2>1. Hls!Whole(n) < Hls!First(Hls!SegmentOf(p)) /\ Hls!First(Hls!SegmentOf(p)) \in Nat
    BY <1>2, WholeRises, FirstFacts
  <2> QED
    BY <1>1, <1>2, <2>1
<1> QED
  BY <1>2, <1>3, <1>4

\* The last piece of a segment is the segment itself.
LEMMA WholeOfSegment ==
  ASSUME NEW n \in Nat, n >= 1
  PROVE  Hls!SegmentOf(Hls!Whole(n)) = n /\ Hls!IsWhole(Hls!Whole(n))
<1>1. Hls!Whole(n) \in Nat /\ Hls!First(n) <= Hls!Whole(n)
  BY WholeFacts, WholeRises, n - 1 \in Nat, n - 1 < n
<1>2. Hls!SegmentOf(Hls!Whole(n)) = n
  BY <1>1, SegmentUnique
<1>3. Hls!IsWhole(Hls!Whole(n))
  <2> DEFINE k == Parts + 1
             d == (n * k) \div k
  <2>1. k \in Nat /\ k >= 1
    BY HlsAssumption DEF Hls!HlsAssumption
  <2>2. d \in Int /\ n * k \in Nat /\ n * k = k * d + ((n * k) % k) /\ (n * k) % k \in 0..(k - 1)
    BY <2>1
  <2>3. d = n
    <3>1. ~ d < n
      <4> SUFFICES ASSUME d < n PROVE FALSE
        OBVIOUS
      <4>1. k * d + k <= n * k
        BY <2>1, <2>2
      <4> QED
        BY <2>1, <2>2, <4>1
    <3>2. ~ n < d
      <4> SUFFICES ASSUME n < d PROVE FALSE
        OBVIOUS
      <4>1. n * k + k <= k * d
        BY <2>1, <2>2
      <4> QED
        BY <2>1, <2>2, <4>1
    <3> QED
      BY <2>2, <3>1, <3>2
  <2>4. k * n = n * k
    BY <2>1
  <2>5. (n * k) % k = 0
    BY <2>2, <2>3, <2>4
  <2> QED
    BY <2>5 DEF Hls!IsWhole, Hls!Whole
<1> QED
  BY <1>2, <1>3

LEMMA WholeOfPiece ==
  ASSUME NEW p \in Nat, p >= 1, Hls!IsWhole(p)
  PROVE  p = Hls!Whole(Hls!SegmentOf(p))
<1> DEFINE k == Parts + 1
           n == p \div k
<1>1. k \in Nat /\ k >= 1
  BY HlsAssumption DEF Hls!HlsAssumption
<1>2. n \in Int /\ p = k * n + (p % k) /\ p % k = 0
  BY <1>1 DEF Hls!IsWhole
<1> HIDE DEF n
<1>3. n >= 1
  <2>1. SUFFICES ASSUME n <= 0 PROVE FALSE
    BY <1>2
  <2>2. k * n <= 0
    <3>1. PICK e \in Nat : n = 0 - e
      <4>1. 0 - n \in Nat /\ n = 0 - (0 - n)
        BY <1>2, <2>1
      <4> QED
        BY <4>1
    <3>2. k * n = 0 - k * e /\ k * e \in Nat
      BY <1>1, <3>1
    <3> QED
      BY <3>2
  <2>3. p = k * n
    BY <1>1, <1>2
  <2> QED
    BY <2>2, <2>3
<1>4. p = n * k
  BY <1>1, <1>2
<1>5. Hls!SegmentOf(Hls!Whole(n)) = n /\ Hls!Whole(n) = p
  BY <1>2, <1>3, <1>4, WholeOfSegment DEF Hls!Whole
<1> QED
  BY <1>5

LEMMA FirstRises ==
  ASSUME NEW n \in Nat, NEW o \in Nat, 1 <= n, n <= o
  PROVE  Hls!First(n) \in Nat /\ Hls!First(n) <= Hls!First(o)
<1>1. Hls!First(n) \in Nat /\ Hls!First(o) \in Nat
  BY FirstFacts
<1>2. CASE n = o
  BY <1>1, <1>2
<1>3. CASE n < o
  <2>1. Hls!Whole(n) < Hls!First(o) /\ Hls!First(n) <= Hls!Whole(n) /\ Hls!Whole(n) \in Nat
    BY <1>3, WholeFacts, WholeRises, n - 1 \in Nat, n - 1 < n
  <2> QED
    BY <1>1, <2>1
<1> QED
  BY <1>2, <1>3

\* What follows a part, or the end of its segment: resume_position().
After(p) == p + IF Hls!IsWhole(p + 1) THEN 2 ELSE 1

LEMMA AfterFacts ==
  ASSUME NEW p \in Nat, p # 0, ~Hls!IsWhole(p)
  PROVE  /\ Hls!SegmentOf(p) \in Nat /\ Hls!SegmentOf(p) >= 1
         /\ Hls!First(Hls!SegmentOf(p)) <= p /\ p + 1 <= Hls!Whole(Hls!SegmentOf(p))
         /\ After(p) \in Nat /\ p < After(p) /\ After(p) <= Hls!Whole(Hls!SegmentOf(p)) + 1
<1> DEFINE n == Hls!SegmentOf(p)
<1>1. n \in Nat /\ n >= 1 /\ Hls!First(n) <= p /\ p <= Hls!Whole(n) /\ Hls!Whole(n) \in Nat
  BY SegmentFacts, WholeFacts
<1>2. p # Hls!Whole(n)
  BY <1>1, WholeOfSegment
<1> HIDE DEF n
<1>3. p + 1 <= Hls!Whole(n)
  BY <1>1, <1>2
<1>4. CASE Hls!IsWhole(p + 1)
  BY <1>1, <1>3, <1>4 DEF After, n
<1>5. CASE ~Hls!IsWhole(p + 1)
  BY <1>1, <1>3, <1>5 DEF After, n
<1> QED
  BY <1>4, <1>5

LEMMA MaxOfTwo ==
  ASSUME NEW a \in Int, NEW b \in Int
  PROVE  Hls!Max({a, b}) \in {a, b} /\ a <= Hls!Max({a, b}) /\ b <= Hls!Max({a, b})
<1>1. \E x \in {a, b} : \A y \in {a, b} : x >= y
  OBVIOUS
<1> QED
  BY <1>1 DEF Hls!Max

LEMMA MinOfNaturals ==
  ASSUME NEW S, S \subseteq Nat, S # {}
  PROVE  Hls!Min(S) \in S /\ \A x \in S : Hls!Min(S) <= x
<1> DEFINE R == OpToRel(<, Nat)
<1>1. PICK x \in S : \A y \in S : ~(<<y, x>> \in R)
  <2>1. IsWellFoundedOn(R, Nat)
    BY NatLessThanWellFounded
  <2> HIDE DEF R
  <2> QED
    BY <2>1, WFMin
<1>2. ASSUME NEW y \in S PROVE x <= y
  <2>1. ~(y < x)
    BY <1>1 DEF OpToRel
  <2> QED
    BY <2>1
<1> QED
  BY <1>2 DEF Hls!Min

-----------------------------------------------------------------------------
(* The inductive invariant, of the client's fields c                       *)

\* What schedule_downloads() asks for.
Wanted(p) == Hls!IsWhole(p) \/ p \in Independent

Resume(c) == Hls!ResumePosition(c, c.media)

IsClient(c) ==
  c \in [phase : {c.phase}, known : {c.known}, media : {c.media}, next : {c.next},
         lastSegment : {c.lastSegment}, lastPart : {c.lastPart}, inflight : {c.inflight},
         retries : {c.retries}]

OneCopy(c) == \A r, s \in c.inflight : r.item = s.item => r = s

IsPlaylist(m) ==
  m.first \in Nat /\ m.last \in Nat /\ m.first >= 1 /\ m.first <= m.last

Typed(c) ==
  /\ IsClient(c) /\ IsPlaylist(c.media)
  /\ c.next \in Nat /\ c.next >= 1 /\ c.next <= Hls!First(c.media.last + 1)
  /\ c.lastSegment \in Nat /\ c.lastSegment <= c.media.last /\ c.lastPart \in Nat
  /\ c.lastPart # 0 => ~Hls!IsWhole(c.lastPart) /\ Hls!SegmentOf(c.lastPart) <= c.media.last
  /\ \A x \in Hls!Loading(c) : x \in Int /\ x <= Hls!Whole(c.media.last)

\* Of the segments from b on, of which g were loaded.
Passed(c, g, b) ==
  /\ \A p \in Nat : Wanted(p) /\ Hls!First(c.media.first) <= p /\ Hls!First(b) <= p /\ p < c.next
       => p \in Hls!Loading(c) \/ p < Resume(c)
  /\ \A n \in Nat : b <= n /\ c.media.first <= n /\ Hls!Whole(n) < c.next
       => n \in g \/ Hls!Whole(n) \in Hls!Loading(c)
  /\ \A n \in g : Hls!Whole(n) \notin Hls!Loading(c) /\ (n <= c.lastSegment \/ n < c.media.first)
  /\ Hls!Whole(c.lastSegment) < c.next /\ Hls!First(c.media.first) <= c.next
  /\ c.lastPart # 0 => c.lastSegment < Hls!SegmentOf(c.lastPart)

\* Between two handlers, and before a handler schedules.
Settled(c, g, b) ==
  /\ Passed(c, g, b)
  /\ Resume(c) <= c.next
  /\ \A x \in Hls!Loading(c) : x < c.next

Unsettled(c, g, b) ==
  /\ Passed(c, g, b)
  /\ \/ Resume(c) <= c.next
     \/ /\ Resume(c) = c.next + 1 /\ Hls!IsWhole(c.next)
        /\ c.next \notin Hls!Loading(c) /\ c.next <= Hls!Whole(c.media.last)
  /\ \A x \in Hls!Loading(c), p \in Nat : Wanted(p) /\ c.next <= p /\ p < x => p \in Hls!Loading(c)

-----------------------------------------------------------------------------
(* Requests *)

\* All but what is asked for and from where.
SameBut(c, d) ==
  /\ IsClient(d) /\ d.phase = c.phase /\ d.known = c.known /\ d.media = c.media
  /\ d.lastSegment = c.lastSegment /\ d.lastPart = c.lastPart

LEMMA RequestFacts ==
  ASSUME NEW c, IsClient(c), NEW item
  PROVE  /\ SameBut(c, Hls!Request(c, item)) /\ Hls!Request(c, item).next = c.next
         /\ Hls!Request(c, item).inflight = c.inflight \cup {[epoch |-> Hls!Fresh, item |-> item]}
         /\ Hls!Loading(Hls!Request(c, item)) = Hls!Loading(c) \cup {item}
         /\ OneCopy(c) /\ item \notin Hls!Loading(c) => OneCopy(Hls!Request(c, item))
<1>1. /\ SameBut(c, Hls!Request(c, item)) /\ Hls!Request(c, item).next = c.next
      /\ Hls!Request(c, item).inflight = c.inflight \cup {[epoch |-> Hls!Fresh, item |-> item]}
  BY DEF IsClient, SameBut, Hls!Request
<1>2. [epoch |-> Hls!Fresh, item |-> item].item = item
  OBVIOUS
<1> QED
  BY <1>1, <1>2 DEF Hls!Loading, OneCopy

LEMMA BumpFacts ==
  ASSUME NEW c, IsClient(c)
  PROVE  /\ SameBut(c, Hls!BumpEpoch(c)) /\ Hls!BumpEpoch(c).next = c.next
         /\ Hls!BumpEpoch(c).inflight = {} /\ Hls!Loading(Hls!BumpEpoch(c)) = {}
BY DEF IsClient, SameBut, Hls!BumpEpoch, Hls!Loading

LEMMA RemoveFacts ==
  ASSUME NEW c, IsClient(c), NEW item
  PROVE  /\ SameBut(c, Hls!RemovePlaylist(c, item)) /\ Hls!RemovePlaylist(c, item).next = c.next
         /\ Hls!RemovePlaylist(c, item).inflight \subseteq c.inflight
         /\ \A x \in Nat \ {0} : x \in Hls!Loading(Hls!RemovePlaylist(c, item)) <=> x \in Hls!Loading(c)
BY DEF IsClient, SameBut, Hls!RemovePlaylist, Hls!Loading, Hls!Master, Hls!Media

LEMMA StoppedFacts ==
  ASSUME NEW c, IsClient(c)
  PROVE  /\ IsClient(Hls!Stopped(c)) /\ Hls!Stopped(c).phase = "stopped" /\ Hls!Stopped(c).inflight = {}
         /\ Hls!Loading(Hls!Stopped(c)) = {} /\ Hls!Stopped(c).known = c.known /\ Hls!Stopped(c).media = c.media
         /\ Hls!Stopped(c).next = c.next /\ Hls!Stopped(c).lastSegment = c.lastSegment
         /\ Hls!Stopped(c).lastPart = c.lastPart
BY DEF IsClient, Hls!Stopped, Hls!Loading

\* A change of requests for playlists leaves the position as it was.
LEMMA SettledByPieces ==
  ASSUME NEW c, NEW d, NEW g, NEW b, Typed(c), SameBut(c, d), d.next = c.next,
         \A x \in Hls!Loading(d) : x \in Int, \A x \in Nat \ {0} : x \in Hls!Loading(d) <=> x \in Hls!Loading(c),
         g \subseteq Nat \ {0}, b \in Nat \ {0}, Settled(c, g, b)
  PROVE  Settled(d, g, b)
<1>1. Resume(d) = Resume(c)
  BY DEF Resume, Hls!ResumePosition, SameBut
<1>2. c.media.first \in Nat /\ c.media.first >= 1 /\ Hls!First(c.media.first) \in Nat /\ Hls!First(c.media.first) >= 1
  BY FirstFacts DEF Typed, IsPlaylist
<1>3. \A n \in Nat : n >= 1 => Hls!Whole(n) \in Nat \ {0}
  BY WholePositive
<1>4. ASSUME NEW p \in Nat, Wanted(p), Hls!First(d.media.first) <= p, Hls!First(b) <= p, p < d.next
      PROVE  p \in Hls!Loading(d) \/ p < Resume(d)
  <2>1. p \in Nat \ {0}
    BY <1>2, <1>4 DEF SameBut
  <2> QED
    BY <1>1, <1>4, <2>1 DEF Settled, Passed, SameBut
<1>5. ASSUME NEW n \in Nat, b <= n, d.media.first <= n, Hls!Whole(n) < d.next
      PROVE  n \in g \/ Hls!Whole(n) \in Hls!Loading(d)
  <2>1. Hls!Whole(n) \in Nat \ {0}
    BY <1>3, <1>5
  <2> QED
    BY <1>5, <2>1 DEF Settled, Passed, SameBut
<1>6. \A n \in g : Hls!Whole(n) \notin Hls!Loading(d) /\ (n <= d.lastSegment \/ n < d.media.first)
  BY <1>3 DEF Settled, Passed, SameBut
<1>7. Passed(d, g, b)
  BY <1>4, <1>5, <1>6 DEF Settled, Passed, SameBut
<1>8. \A x \in Hls!Loading(d) : x < d.next
  <2> SUFFICES ASSUME NEW x \in Hls!Loading(d) PROVE x < c.next
    OBVIOUS
  <2>1. x \in Nat \ {0} \/ (x \in Int /\ x <= 0)
    OBVIOUS
  <2> QED
    BY <2>1 DEF Settled, Typed
<1> QED
  BY <1>1, <1>7, <1>8 DEF Settled

-----------------------------------------------------------------------------
(* schedule_downloads() *)

LEMMA ScheduleFacts ==
  ASSUME NEW c, Typed(c), OneCopy(c)
  PROVE  LET d == Hls!ScheduleDownloads(c) IN
         /\ SameBut(c, d) /\ OneCopy(d)
         /\ \/ /\ d.inflight = c.inflight /\ d.next = Hls!First(c.media.last + 1)
               /\ \A p \in Nat : Wanted(p) /\ c.next <= p /\ p <= Hls!Whole(c.media.last) => p \in Hls!Loading(c)
            \/ \E w \in Nat :
                 /\ c.next <= w /\ w <= Hls!Whole(c.media.last) /\ Wanted(w) /\ w \notin Hls!Loading(c)
                 /\ d.inflight = c.inflight \cup {[epoch |-> Hls!Fresh, item |-> w]}
                 /\ Hls!Loading(d) = Hls!Loading(c) \cup {w} /\ d.next = w + 1
                 /\ \A p \in Nat : Wanted(p) /\ c.next <= p /\ p < w => p \in Hls!Loading(c)
<1> DEFINE wanted == {p \in c.next..Hls!Whole(c.media.last) :
                        (Hls!IsWhole(p) \/ p \in Independent) /\ p \notin Hls!Loading(c)}
           w == Hls!Min(wanted)
           e == [c EXCEPT !.next = w + 1]
           d == Hls!ScheduleDownloads(c)
<1>1. c.next \in Nat /\ Hls!Whole(c.media.last) \in Nat /\ c.media.last \in Nat
  BY WholeFacts DEF Typed, IsPlaylist
<1>2. wanted \subseteq Nat
  BY <1>1
<1>3. d = IF wanted = {} THEN [c EXCEPT !.next = Hls!First(c.media.last + 1)] ELSE Hls!Request(e, w)
  BY DEF Hls!ScheduleDownloads
<1>4. CASE wanted = {}
  <2>1. d = [c EXCEPT !.next = Hls!First(c.media.last + 1)]
    BY <1>3, <1>4
  <2>2. SameBut(c, d) /\ d.next = Hls!First(c.media.last + 1) /\ d.inflight = c.inflight
    BY <2>1 DEF Typed, IsClient, SameBut
  <2>3. ASSUME NEW p \in Nat, Wanted(p), c.next <= p, p <= Hls!Whole(c.media.last) PROVE p \in Hls!Loading(c)
    BY <1>1, <1>4, <2>3 DEF Wanted
  <2> QED
    BY <2>2, <2>3 DEF OneCopy
<1>5. CASE wanted # {}
  <2>1. w \in wanted /\ \A p \in wanted : w <= p
    BY <1>2, <1>5, MinOfNaturals
  <2>2. w \in Nat /\ c.next <= w /\ w <= Hls!Whole(c.media.last) /\ Wanted(w) /\ w \notin Hls!Loading(c)
    BY <1>1, <2>1 DEF Wanted
  <2>3. ASSUME NEW p \in Nat, Wanted(p), c.next <= p, p < w PROVE p \in Hls!Loading(c)
    <3>1. p \notin wanted
      BY <2>1, <2>2, <2>3
    <3> QED
      BY <1>1, <2>2, <2>3, <3>1 DEF Wanted
  <2>4. d = Hls!Request(e, w)
    BY <1>3, <1>5
  <2> HIDE DEF wanted, w, d
  <2>5. /\ SameBut(c, e) /\ e.next = w + 1 /\ e.inflight = c.inflight
    BY DEF Typed, IsClient, SameBut
  <2>6. Hls!Loading(e) = Hls!Loading(c) /\ OneCopy(e) /\ IsClient(e)
    BY <2>5 DEF Hls!Loading, OneCopy, SameBut
  <2> HIDE DEF e
  <2>7. /\ SameBut(e, d) /\ d.next = w + 1 /\ Hls!Loading(d) = Hls!Loading(c) \cup {w} /\ OneCopy(d)
        /\ d.inflight = c.inflight \cup {[epoch |-> Hls!Fresh, item |-> w]}
    BY <2>2, <2>4, <2>5, <2>6, RequestFacts
  <2>8. SameBut(c, d)
    BY <2>5, <2>7 DEF SameBut
  <2> QED
    BY <2>2, <2>3, <2>7, <2>8 DEF d
<1> QED
  BY <1>4, <1>5

\* Where a reload resumes behind segments, not behind a part.
Floor(c, m) == IF c.lastSegment # 0 THEN Hls!Max({m.first, c.lastSegment + 1}) ELSE m.first

LEMMA FloorFacts ==
  ASSUME NEW c, Typed(c), NEW m, IsPlaylist(m)
  PROVE  /\ Floor(c, m) \in Nat /\ m.first <= Floor(c, m) /\ c.lastSegment < Floor(c, m)
         /\ Floor(c, m) \in {m.first, c.lastSegment + 1}
<1>1. c.lastSegment \in Nat /\ m.first \in Nat /\ m.first >= 1 /\ c.lastSegment + 1 \in Nat
  BY DEF Typed, IsPlaylist
<1>2. CASE c.lastSegment = 0
  BY <1>1, <1>2 DEF Floor
<1>3. CASE c.lastSegment # 0
  <2>1. m.first \in Int /\ c.lastSegment + 1 \in Int
    BY <1>1
  <2>2. /\ Floor(c, m) \in {m.first, c.lastSegment + 1} /\ m.first <= Floor(c, m)
        /\ c.lastSegment + 1 <= Floor(c, m)
    BY <1>3, <2>1, MaxOfTwo DEF Floor
  <2> QED
    BY <1>1, <2>2
<1> QED
  BY <1>2, <1>3

OnPart(c, m) == c.lastPart # 0 /\ Hls!SegmentOf(c.lastPart) \in m.first..m.last

LEMMA ResumeCases ==
  ASSUME NEW c, NEW m
  PROVE  Hls!ResumePosition(c, m) = IF OnPart(c, m) THEN After(c.lastPart) ELSE Hls!First(Floor(c, m))
BY DEF Hls!ResumePosition, OnPart, After, Floor

LEMMA ResumeFacts ==
  ASSUME NEW c, Typed(c), NEW m, IsPlaylist(m), c.lastSegment <= m.last
  PROVE  Hls!ResumePosition(c, m) \in Nat /\ Hls!ResumePosition(c, m) <= Hls!First(m.last + 1)
         /\ Hls!First(m.first) <= Hls!ResumePosition(c, m)
<1>1. c.lastPart \in Nat /\ c.lastSegment \in Nat /\ m.first \in Nat /\ m.last \in Nat
      /\ m.first >= 1 /\ m.first <= m.last
  BY DEF Typed, IsPlaylist
<1>2. Hls!First(m.first) \in Nat /\ Hls!First(m.last + 1) \in Nat
  BY <1>1, FirstFacts, m.last + 1 \in Nat, m.last + 1 >= 1
<1>3. CASE OnPart(c, m)
  <2> DEFINE n == Hls!SegmentOf(c.lastPart)
  <2>1. /\ n \in Nat /\ n >= 1 /\ Hls!First(n) <= c.lastPart
        /\ After(c.lastPart) \in Nat /\ c.lastPart < After(c.lastPart)
        /\ After(c.lastPart) <= Hls!Whole(n) + 1
    BY <1>1, <1>3, AfterFacts DEF OnPart, Typed
  <2>2. m.first <= n /\ n <= m.last
    BY <1>1, <1>3, <2>1 DEF OnPart
  <2> HIDE DEF n
  <2>3. Hls!First(m.first) <= Hls!First(n) /\ Hls!First(n) \in Nat
    BY <1>1, <2>1, <2>2, FirstRises
  <2>4. Hls!First(n + 1) <= Hls!First(m.last + 1) /\ Hls!First(n + 1) = Hls!Whole(n) + 1 /\ Hls!Whole(n) \in Nat
    <3>1. n + 1 \in Nat /\ m.last + 1 \in Nat /\ 1 <= n + 1 /\ n + 1 <= m.last + 1
      BY <1>1, <2>1, <2>2
    <3> QED
      BY <2>1, <3>1, FirstRises, WholeFacts
  <2> QED
    BY <1>1, <1>2, <1>3, <2>1, <2>3, <2>4, ResumeCases
<1>4. CASE ~OnPart(c, m)
  <2>1. Floor(c, m) \in Nat /\ m.first <= Floor(c, m) /\ Floor(c, m) <= m.last + 1
    BY <1>1, FloorFacts
  <2>2. 1 <= Floor(c, m) /\ m.last + 1 \in Nat
    BY <1>1, <2>1
  <2>3. /\ Hls!First(Floor(c, m)) \in Nat /\ Hls!First(Floor(c, m)) <= Hls!First(m.last + 1)
        /\ Hls!First(m.first) <= Hls!First(Floor(c, m))
    BY <1>1, <2>1, <2>2, FirstRises
  <2> QED
    BY <1>4, <2>3, ResumeCases
<1> QED
  BY <1>3, <1>4

\* A handler that has asked for everything wanted before v.
LEMMA ScheduledSettles ==
  ASSUME NEW c, NEW d, NEW g, NEW b, NEW v \in Nat, Typed(c), SameBut(c, d), d.next = v, c.next <= v,
         \A p \in Nat : Wanted(p) /\ c.next <= p /\ p < v => p \in Hls!Loading(d),
         Hls!Loading(c) \subseteq Hls!Loading(d),
         \A x \in Hls!Loading(d) \ Hls!Loading(c) : x \in Nat /\ c.next <= x /\ x < v,
         \A x \in Hls!Loading(c) : x < v, Resume(c) <= v,
         g \subseteq Nat \ {0}, b \in Nat \ {0}, Passed(c, g, b)
  PROVE  Settled(d, g, b)
<1>1. /\ Resume(d) = Resume(c) /\ d.media = c.media
      /\ d.lastSegment = c.lastSegment /\ d.lastPart = c.lastPart
  BY DEF Resume, Hls!ResumePosition, SameBut
<1>2. /\ c.media.first \in Nat /\ c.media.first >= 1 /\ Hls!First(c.media.first) \in Nat
      /\ c.next \in Nat /\ c.lastSegment \in Nat
      /\ \A n \in Nat : Hls!Whole(n) \in Nat
  BY FirstFacts, WholeFacts DEF Typed, IsPlaylist
<1>3. ASSUME NEW p \in Nat, Wanted(p), Hls!First(c.media.first) <= p, Hls!First(b) <= p, p < v
      PROVE  p \in Hls!Loading(d) \/ p < Resume(c)
  <2>1. CASE p < c.next
    BY <1>3, <2>1 DEF Passed
  <2>2. CASE c.next <= p
    BY <1>3, <2>2
  <2> QED
    BY <1>2, <2>1, <2>2
<1>4. ASSUME NEW n \in Nat, b <= n, c.media.first <= n, Hls!Whole(n) < v
      PROVE  n \in g \/ Hls!Whole(n) \in Hls!Loading(d)
  <2>1. Wanted(Hls!Whole(n)) /\ Hls!Whole(n) \in Nat
    BY <1>2, <1>4, WholeOfSegment DEF Wanted
  <2>2. CASE Hls!Whole(n) < c.next
    BY <1>4, <2>2 DEF Passed
  <2>3. CASE c.next <= Hls!Whole(n)
    BY <1>4, <2>1, <2>3
  <2> QED
    BY <1>2, <2>1, <2>2, <2>3
<1>5. ASSUME NEW n \in g PROVE Hls!Whole(n) \notin Hls!Loading(d) /\ (n <= c.lastSegment \/ n < c.media.first)
  <2>1. /\ n \in Nat /\ Hls!Whole(n) \in Nat /\ Hls!Whole(n) \notin Hls!Loading(c)
        /\ n <= c.lastSegment \/ n < c.media.first
    BY <1>2 DEF Passed
  <2>2. Hls!Whole(n) < c.next
    <3>1. CASE n = c.lastSegment
      BY <3>1 DEF Passed
    <3>2. CASE n < c.lastSegment
      <4>1. Hls!Whole(n) < Hls!Whole(c.lastSegment) /\ Hls!Whole(c.lastSegment) \in Nat
        BY <1>2, <2>1, <3>2, WholeRises
      <4> QED
        BY <1>2, <2>1, <4>1 DEF Passed
    <3>3. CASE n < c.media.first
      <4>1. Hls!Whole(n) < Hls!First(c.media.first)
        BY <1>2, <2>1, <3>3, WholeRises
      <4> QED
        BY <1>2, <2>1, <4>1 DEF Passed
    <3> QED
      BY <1>2, <2>1, <3>1, <3>2, <3>3
  <2> QED
    BY <1>2, <2>1, <2>2
<1>6. Hls!Whole(c.lastSegment) < v /\ Hls!First(c.media.first) <= v
  <2>1. Hls!Whole(c.lastSegment) < c.next /\ Hls!First(c.media.first) <= c.next /\ Hls!Whole(c.lastSegment) \in Nat
    BY <1>2 DEF Passed
  <2> QED
    BY <1>2, <2>1
<1>7. Passed(d, g, b)
  BY <1>1, <1>3, <1>4, <1>5, <1>6 DEF Passed
<1>8. \A x \in Hls!Loading(d) : x < v
  OBVIOUS
<1> QED
  BY <1>1, <1>7, <1>8 DEF Settled

LEMMA ScheduleSettles ==
  ASSUME NEW c, Typed(c), OneCopy(c)
  PROVE  LET d == Hls!ScheduleDownloads(c) IN
         /\ SameBut(c, d) /\ OneCopy(d) /\ Typed(d)
         /\ \A x \in Hls!Loading(d) \ Hls!Loading(c) : x \in Nat \ {0}
         /\ \A r \in d.inflight \ c.inflight : r.item \in Nat \ {0}
         /\ c.inflight \subseteq d.inflight
         /\ \A g, b : g \subseteq Nat \ {0} /\ b \in Nat \ {0} /\ Unsettled(c, g, b) => Settled(d, g, b)
<1> DEFINE d == Hls!ScheduleDownloads(c)
           l == c.media.last
<1>1. /\ SameBut(c, d) /\ OneCopy(d)
      /\ \/ /\ d.inflight = c.inflight /\ d.next = Hls!First(l + 1)
            /\ \A p \in Nat : Wanted(p) /\ c.next <= p /\ p <= Hls!Whole(l) => p \in Hls!Loading(c)
         \/ \E w \in Nat :
              /\ c.next <= w /\ w <= Hls!Whole(l) /\ Wanted(w) /\ w \notin Hls!Loading(c)
              /\ d.inflight = c.inflight \cup {[epoch |-> Hls!Fresh, item |-> w]}
              /\ Hls!Loading(d) = Hls!Loading(c) \cup {w} /\ d.next = w + 1
              /\ \A p \in Nat : Wanted(p) /\ c.next <= p /\ p < w => p \in Hls!Loading(c)
  BY ScheduleFacts
<1> HIDE DEF d
<1>2. l \in Nat /\ Hls!Whole(l) \in Nat /\ Hls!First(l + 1) = Hls!Whole(l) + 1 /\ c.next \in Nat /\ c.next >= 1
  BY WholeFacts DEF Typed, IsPlaylist
<1>3. Resume(d) = Resume(c) /\ d.media = c.media /\ d.lastSegment = c.lastSegment /\ d.lastPart = c.lastPart
  BY <1>1 DEF Resume, Hls!ResumePosition, SameBut
<1>4. CASE d.inflight = c.inflight /\ d.next = Hls!First(l + 1)
           /\ \A p \in Nat : Wanted(p) /\ c.next <= p /\ p <= Hls!Whole(l) => p \in Hls!Loading(c)
  <2>1. Hls!Loading(d) = Hls!Loading(c)
    BY <1>4 DEF Hls!Loading
  <2>2. Typed(d)
    BY <1>1, <1>2, <1>3, <1>4, <2>1 DEF Typed, SameBut
  <2>3. ASSUME NEW g, NEW b, g \subseteq Nat \ {0}, b \in Nat \ {0}, Unsettled(c, g, b)
        PROVE  Settled(d, g, b)
    <3>1. Resume(c) \in Nat /\ c.next <= d.next /\ d.next = Hls!Whole(l) + 1
      BY <1>2, <1>4, ResumeFacts DEF Typed, Resume
    <3>2. Resume(c) <= d.next
      BY <1>2, <3>1, <2>3 DEF Unsettled
    <3>3. \A x \in Hls!Loading(c) : x < d.next
      BY <1>2, <3>1 DEF Typed
    <3>4. \A p \in Nat : Wanted(p) /\ c.next <= p /\ p < d.next => p \in Hls!Loading(d)
      BY <1>2, <1>4, <2>1, <3>1
    <3>5. d.next \in Nat /\ Passed(c, g, b)
      BY <1>2, <2>3, <3>1 DEF Unsettled
    <3> QED
      BY <1>1, <2>1, <2>3, <3>1, <3>2, <3>3, <3>4, <3>5, ScheduledSettles
  <2> QED
    BY <1>1, <1>4, <2>1, <2>2, <2>3 DEF d
<1>5. ASSUME NEW w \in Nat, c.next <= w, w <= Hls!Whole(l), Wanted(w), w \notin Hls!Loading(c),
             d.inflight = c.inflight \cup {[epoch |-> Hls!Fresh, item |-> w]},
             Hls!Loading(d) = Hls!Loading(c) \cup {w}, d.next = w + 1,
             \A p \in Nat : Wanted(p) /\ c.next <= p /\ p < w => p \in Hls!Loading(c)
      PROVE  /\ Typed(d) /\ \A x \in Hls!Loading(d) \ Hls!Loading(c) : x \in Nat \ {0}
             /\ \A r \in d.inflight \ c.inflight : r.item \in Nat \ {0}
             /\ c.inflight \subseteq d.inflight
             /\ \A g, b : g \subseteq Nat \ {0} /\ b \in Nat \ {0} /\ Unsettled(c, g, b) => Settled(d, g, b)
  <2>1. Typed(d)
    BY <1>1, <1>2, <1>3, <1>5 DEF Typed, SameBut
  <2>2. w \in Nat \ {0} /\ [epoch |-> Hls!Fresh, item |-> w].item = w
    BY <1>2, <1>5
  <2>3. ASSUME NEW g, NEW b, g \subseteq Nat \ {0}, b \in Nat \ {0}, Unsettled(c, g, b)
        PROVE  Settled(d, g, b)
    <3>1. Resume(c) \in Nat /\ w + 1 \in Nat /\ c.next <= w + 1
      BY <1>2, <1>5, ResumeFacts DEF Typed, Resume
    <3>2. Resume(c) <= w + 1
      <4>1. CASE Resume(c) <= c.next
        BY <1>2, <3>1, <4>1
      <4>2. CASE Resume(c) = c.next + 1
        BY <1>2, <1>5, <4>2
      <4> QED
        BY <2>3, <4>1, <4>2 DEF Unsettled
    <3>3. ASSUME NEW x \in Hls!Loading(c) PROVE x < w + 1
      <4>1. x \in Int /\ ~ w < x
        BY <1>5, <2>3 DEF Typed, Unsettled
      <4> QED
        BY <4>1
    <3>4. ASSUME NEW p \in Nat, Wanted(p), c.next <= p, p < w + 1 PROVE p \in Hls!Loading(d)
      <4>1. p < w \/ p = w
        BY <3>4
      <4> QED
        BY <1>5, <3>4, <4>1
    <3>5. Passed(c, g, b)
      BY <2>3 DEF Unsettled
    <3> QED
      <4>1. /\ d.next \in Nat /\ c.next <= d.next /\ Resume(c) <= d.next
            /\ Hls!Loading(c) \subseteq Hls!Loading(d)
        BY <1>5, <3>1, <3>2
      <4>2. \A x \in Hls!Loading(d) \ Hls!Loading(c) : x \in Nat /\ c.next <= x /\ x < d.next
        BY <1>5
      <4>3. /\ \A x \in Hls!Loading(c) : x < d.next
            /\ \A p \in Nat : Wanted(p) /\ c.next <= p /\ p < d.next => p \in Hls!Loading(d)
        BY <1>5, <3>3, <3>4
      <4> QED
        BY <1>1, <2>3, <3>5, <4>1, <4>2, <4>3, ScheduledSettles
  <2> QED
    BY <1>5, <2>1, <2>2, <2>3
<1> QED
  BY <1>1, <1>4, <1>5 DEF d

-----------------------------------------------------------------------------
(* Where playback starts, and where a reload resumes *)

LEMMA StartUnsettled ==
  ASSUME NEW c, Typed(c), Hls!Loading(c) = {}, c.lastSegment = 0, c.lastPart = 0,
         NEW b \in Nat, c.media.first <= b, c.next = Hls!First(b)
  PROVE  Unsettled(c, {}, b)
<1>1. c.media.first \in Nat /\ c.media.first >= 1 /\ b >= 1
  BY DEF Typed, IsPlaylist
<1>2. Hls!First(b) \in Nat /\ Hls!First(b) >= 1 /\ Hls!First(c.media.first) \in Nat /\ Hls!First(c.media.first) <= Hls!First(b)
  BY <1>1, FirstFacts, FirstRises
<1>3. Resume(c) = Hls!First(c.media.first)
  BY DEF Resume, Hls!ResumePosition
<1>4. \A n \in Nat : b <= n => ~(Hls!Whole(n) < Hls!First(b))
  <2> SUFFICES ASSUME NEW n \in Nat, b <= n PROVE Hls!First(b) <= Hls!Whole(n) /\ Hls!Whole(n) \in Nat
    BY <1>2
  <2>1. Hls!First(b) <= Hls!First(n) /\ Hls!First(n) \in Nat
    BY <1>1, FirstRises, FirstFacts
  <2>2. Hls!First(n) <= Hls!Whole(n) /\ Hls!Whole(n) \in Nat
    BY <1>1, WholeRises, WholeFacts, n - 1 \in Nat, n - 1 < n
  <2> QED
    BY <1>2, <2>1, <2>2
<1>5. Hls!Whole(c.lastSegment) < c.next
  BY <1>2, WholeFacts
<1>6. Passed(c, {}, b)
  BY <1>2, <1>4, <1>5 DEF Passed
<1> QED
  BY <1>2, <1>3, <1>6 DEF Unsettled

\* A playlist that is loaded again has moved forward, and so has the position.
LEMMA ResumeRises ==
  ASSUME NEW c, Typed(c), NEW m, IsPlaylist(m), c.media.first <= m.first, c.media.last <= m.last
  PROVE  /\ Resume(c) <= Hls!ResumePosition(c, m)
         /\ OnPart(c, m) => Hls!ResumePosition(c, m) = Resume(c)
<1>1. /\ c.lastPart \in Nat /\ c.lastSegment \in Nat /\ m.first \in Nat /\ m.last \in Nat
      /\ c.media.first \in Nat /\ c.media.last \in Nat /\ c.media.first >= 1 /\ m.first >= 1
      /\ IsPlaylist(c.media)
  BY DEF Typed, IsPlaylist
<1>2. Resume(c) \in Nat /\ Hls!ResumePosition(c, m) \in Nat
  BY <1>1, ResumeFacts DEF Resume, Typed
<1>3. OnPart(c, m) => OnPart(c, c.media)
  <2> SUFFICES ASSUME OnPart(c, m) PROVE OnPart(c, c.media)
    OBVIOUS
  <2>1. Hls!SegmentOf(c.lastPart) \in Nat /\ Hls!SegmentOf(c.lastPart) <= c.media.last
    BY <1>1, AfterFacts DEF OnPart, Typed
  <2> QED
    BY <1>1, <2>1 DEF OnPart
<1>4. CASE OnPart(c, m)
  BY <1>2, <1>3, <1>4, ResumeCases DEF Resume
<1>5. CASE ~OnPart(c, m) /\ OnPart(c, c.media)
  <2> DEFINE n == Hls!SegmentOf(c.lastPart)
  <2>1. /\ n \in Nat /\ n >= 1 /\ After(c.lastPart) \in Nat /\ After(c.lastPart) <= Hls!Whole(n) + 1
        /\ n <= c.media.last
    BY <1>1, <1>5, AfterFacts DEF OnPart, Typed
  <2>2. n < m.first
    BY <1>1, <1>5, <2>1 DEF OnPart
  <2> HIDE DEF n
  <2>3. Floor(c, m) \in Nat /\ n < Floor(c, m)
    BY <1>1, <2>1, <2>2, FloorFacts
  <2>4. Hls!Whole(n) < Hls!First(Floor(c, m)) /\ Hls!Whole(n) \in Nat /\ Hls!First(Floor(c, m)) \in Nat
    BY <1>2, <1>5, <2>1, <2>3, WholeRises, WholeFacts, ResumeCases
  <2>5. After(c.lastPart) <= Hls!First(Floor(c, m))
    BY <2>1, <2>4
  <2> QED
    BY <1>5, <2>5, ResumeCases DEF Resume
<1>6. CASE ~OnPart(c, m) /\ ~OnPart(c, c.media)
  <2>1. /\ Floor(c, c.media) \in Nat /\ Floor(c, m) \in Nat /\ 1 <= Floor(c, c.media)
        /\ Floor(c, c.media) <= Floor(c, m)
    BY <1>1, FloorFacts
  <2> QED
    BY <1>6, <2>1, FirstRises, ResumeCases DEF Resume
<1> QED
  BY <1>4, <1>5, <1>6

LEMMA ReloadUnsettled ==
  ASSUME NEW c, NEW d, NEW g, NEW b, Typed(c), Typed(d), Settled(c, g, b),
         b \in Nat \ {0}, b <= c.media.first, g \subseteq Nat \ {0},
         c.media.first <= d.media.first, c.media.last <= d.media.last,
         d.next = Hls!ResumePosition(c, d.media), d.lastSegment = c.lastSegment, d.lastPart = c.lastPart,
         \A x \in Nat \ {0} : x \in Hls!Loading(d) <=> x \in Hls!Loading(c)
  PROVE  Unsettled(d, g, b)
<1> DEFINE m == d.media
<1>1. /\ c.lastPart \in Nat /\ c.lastSegment \in Nat /\ m.first \in Nat /\ m.last \in Nat
      /\ c.media.first \in Nat /\ c.media.last \in Nat /\ c.media.first >= 1 /\ m.first >= 1
      /\ IsPlaylist(m) /\ IsPlaylist(c.media) /\ c.next \in Nat /\ d.next \in Nat
      /\ c.lastSegment <= m.last
  BY DEF Typed, IsPlaylist
<1>2. Resume(d) = d.next
  BY DEF Resume, Hls!ResumePosition
<1>3. /\ Resume(c) \in Nat /\ Resume(c) <= d.next /\ Hls!First(m.first) <= d.next
      /\ Hls!First(c.media.first) <= Resume(c) /\ (OnPart(c, m) => d.next = Resume(c))
  BY <1>1, ResumeFacts, ResumeRises DEF Resume, Typed
<1>4. \A n \in Nat : Hls!Whole(n) \in Nat /\ (n >= 1 => Hls!Whole(n) \in Nat \ {0})
  BY WholeFacts, WholePositive
<1>5. Hls!Whole(c.lastSegment) < d.next
  <2>1. CASE OnPart(c, m)
    <3> DEFINE n == Hls!SegmentOf(c.lastPart)
    <3>1. /\ n \in Nat /\ n >= 1 /\ Hls!First(n) <= c.lastPart
          /\ After(c.lastPart) \in Nat /\ c.lastPart < After(c.lastPart)
      BY <1>1, <2>1, AfterFacts DEF OnPart, Typed
    <3>2. c.lastSegment < n
      BY <2>1 DEF Settled, Passed, OnPart
    <3> HIDE DEF n
    <3>3. Hls!Whole(c.lastSegment) < Hls!First(n) /\ Hls!First(n) \in Nat
      BY <1>1, <3>1, <3>2, WholeRises, FirstFacts
    <3>4. d.next = After(c.lastPart)
      BY <2>1, ResumeCases
    <3> QED
      BY <1>1, <1>4, <3>1, <3>3, <3>4
  <2>2. CASE ~OnPart(c, m)
    <3>1. Floor(c, m) \in Nat /\ c.lastSegment < Floor(c, m) /\ d.next = Hls!First(Floor(c, m))
      BY <1>1, <2>2, FloorFacts, ResumeCases
    <3> QED
      BY <1>1, <3>1, WholeRises
  <2> QED
    BY <2>1, <2>2
<1>6. ASSUME NEW n \in Nat, b <= n, m.first <= n, Hls!Whole(n) < d.next
      PROVE  n \in g \/ Hls!Whole(n) \in Hls!Loading(d)
  <2>1. CASE Hls!Whole(n) < c.next
    <3>1. n \in g \/ Hls!Whole(n) \in Hls!Loading(c)
      BY <1>1, <1>6, <2>1 DEF Settled, Passed
    <3> QED
      BY <1>4, <1>6, <3>1
  <2>2. CASE c.next <= Hls!Whole(n)
    <3>1. ~OnPart(c, m)
      BY <1>1, <1>3, <1>4, <1>6, <2>2 DEF Settled
    <3>2. /\ Floor(c, m) \in Nat /\ d.next = Hls!First(Floor(c, m)) /\ m.first <= Floor(c, m)
          /\ Floor(c, m) \in {m.first, c.lastSegment + 1}
      BY <1>1, <3>1, FloorFacts, ResumeCases
    <3>3. n < Floor(c, m)
      <4> SUFFICES ASSUME Floor(c, m) <= n PROVE FALSE
        BY <3>2
      <4>1. Hls!First(Floor(c, m)) <= Hls!First(n) /\ Hls!First(n) \in Nat
        BY <1>1, <3>2, FirstRises, FirstFacts
      <4>2. Hls!First(n) <= Hls!Whole(n)
        BY <1>1, <1>6, WholeRises, n - 1 \in Nat, n - 1 < n
      <4> QED
        BY <1>1, <1>4, <1>6, <3>2, <4>1, <4>2
    <3>4. n <= c.lastSegment
      BY <1>1, <1>6, <3>2, <3>3
    <3>5. Hls!Whole(n) <= Hls!Whole(c.lastSegment)
      <4>1. CASE n = c.lastSegment
        BY <1>4, <4>1
      <4>2. CASE n < c.lastSegment
        <5>1. Hls!Whole(n) < Hls!Whole(c.lastSegment) /\ Hls!Whole(n) \in Nat /\ Hls!Whole(c.lastSegment) \in Nat
          BY <1>1, <1>4, <4>2, WholeRises
        <5> QED
          BY <5>1
      <4> QED
        BY <1>1, <3>4, <4>1, <4>2
    <3> QED
      BY <1>1, <1>4, <2>2, <3>5 DEF Settled, Passed
  <2> QED
    BY <1>1, <1>4, <2>1, <2>2
<1>7. \A n \in g : Hls!Whole(n) \notin Hls!Loading(d) /\ (n <= d.lastSegment \/ n < m.first)
  BY <1>1, <1>4 DEF Settled, Passed
<1>8. d.lastPart # 0 => d.lastSegment < Hls!SegmentOf(d.lastPart)
  BY DEF Settled, Passed
<1>9. \A p \in Nat : p < d.next => p < Resume(d)
  BY <1>2
<1>10. Passed(d, g, b)
  BY <1>1, <1>3, <1>5, <1>6, <1>7, <1>8, <1>9 DEF Passed
<1>11. ASSUME NEW x \in Hls!Loading(d), NEW p \in Nat, Wanted(p), d.next <= p, p < x PROVE p \in Hls!Loading(d)
  <2>1. Hls!First(c.media.first) \in Nat /\ Hls!First(c.media.first) >= 1 /\ Hls!First(b) \in Nat
        /\ Hls!First(b) <= Hls!First(c.media.first)
    BY <1>1, FirstFacts, FirstRises
  <2>2. x \in Nat \ {0} /\ p \in Nat \ {0} /\ x \in Hls!Loading(c)
    <3>1. x \in Int
      BY DEF Typed
    <3>2. p >= 1
      BY <1>1, <1>3, <1>11, <2>1
    <3> QED
      BY <1>11, <3>1, <3>2
  <2>3. p < c.next /\ Hls!First(c.media.first) <= p /\ Hls!First(b) <= p /\ ~(p < Resume(c))
    BY <1>1, <1>3, <1>11, <2>1, <2>2 DEF Settled
  <2>4. p \in Hls!Loading(c)
    BY <1>11, <2>3 DEF Settled, Passed
  <2> QED
    BY <2>2, <2>4
<1> QED
  BY <1>1, <1>2, <1>10, <1>11 DEF Unsettled

-----------------------------------------------------------------------------
(* on_resource_loaded() *)

LEMMA SegmentsBelow ==
  ASSUME NEW p \in Nat \ {0}, NEW n \in Nat, p <= Hls!Whole(n)
  PROVE  Hls!SegmentOf(p) \in Nat /\ Hls!SegmentOf(p) >= 1 /\ Hls!SegmentOf(p) <= n
<1>1. Hls!SegmentOf(p) \in Nat /\ Hls!SegmentOf(p) >= 1 /\ Hls!First(Hls!SegmentOf(p)) <= p
  BY SegmentFacts
<1>2. ~ n < Hls!SegmentOf(p)
  <2> SUFFICES ASSUME n < Hls!SegmentOf(p) PROVE FALSE
    OBVIOUS
  <2>1. Hls!Whole(n) < Hls!First(Hls!SegmentOf(p)) /\ Hls!Whole(n) \in Nat /\ Hls!First(Hls!SegmentOf(p)) \in Nat
    BY <1>1, WholeRises, WholeFacts, FirstFacts
  <2> QED
    BY <1>1, <2>1
<1> QED
  BY <1>1, <1>2

\* Loading(c) without the piece x, and the segments h that were loaded with it.
LEMMA LoadedUnsettled ==
  ASSUME NEW c, NEW d, NEW g, NEW h, NEW b, Typed(c), Settled(c, g, b),
         b \in Nat \ {0}, g \subseteq Nat \ {0}, h \subseteq Nat \ {0}, g \subseteq h,
         NEW x \in Nat \ {0}, x \in Hls!Loading(c), Hls!Loading(d) = Hls!Loading(c) \ {x},
         d.media = c.media, d.next = c.next, d.lastSegment \in Nat, c.lastSegment <= d.lastSegment,
         Resume(d) \in Nat, Resume(c) <= Resume(d), Hls!Whole(d.lastSegment) < d.next,
         d.lastPart # 0 => d.lastSegment < Hls!SegmentOf(d.lastPart),
         x < Resume(d) \/ x < Hls!First(c.media.first),
         \A n \in h \ g : x = Hls!Whole(n) /\ (n <= d.lastSegment \/ n < c.media.first),
         Hls!IsWhole(x) => Hls!SegmentOf(x) \in h,
         \/ Resume(d) <= d.next
         \/ Resume(d) = d.next + 1 /\ Hls!IsWhole(d.next) /\ d.next <= Hls!Whole(c.media.last)
  PROVE  Unsettled(d, h, b)
<1>1. /\ c.next \in Nat /\ Resume(c) \in Nat /\ IsPlaylist(c.media) /\ c.lastSegment \in Nat
      /\ c.media.first \in Nat /\ c.media.first >= 1
      /\ Hls!First(c.media.first) \in Nat /\ Hls!First(c.media.first) >= 1
  <2>1. IsPlaylist(c.media) /\ c.lastSegment <= c.media.last
    BY DEF Typed
  <2> QED
    BY <2>1, ResumeFacts, FirstFacts DEF Typed, IsPlaylist, Resume
<1>2. ASSUME NEW p \in Nat, Wanted(p), Hls!First(c.media.first) <= p, Hls!First(b) <= p, p < c.next
      PROVE  p \in Hls!Loading(d) \/ p < Resume(d)
  <2>1. p \in Hls!Loading(c) \/ p < Resume(c)
    BY <1>2 DEF Settled, Passed
  <2>2. p = x => p < Resume(d)
    BY <1>1, <1>2
  <2> QED
    BY <1>1, <2>1, <2>2
<1>3. ASSUME NEW n \in Nat, b <= n, c.media.first <= n, Hls!Whole(n) < c.next
      PROVE  n \in h \/ Hls!Whole(n) \in Hls!Loading(d)
  <2>1. n \in g \/ Hls!Whole(n) \in Hls!Loading(c)
    BY <1>3 DEF Settled, Passed
  <2>2. Hls!Whole(n) = x => n \in h
    BY <1>3, WholeOfSegment
  <2> QED
    BY <2>1, <2>2
<1>4. ASSUME NEW n \in h PROVE Hls!Whole(n) \notin Hls!Loading(d) /\ (n <= d.lastSegment \/ n < c.media.first)
  <2>1. CASE n \in g
    <3>1. n \in Nat /\ Hls!Whole(n) \notin Hls!Loading(c) /\ (n <= c.lastSegment \/ n < c.media.first)
      BY <2>1 DEF Settled, Passed
    <3> QED
      BY <1>1, <3>1
  <2>2. CASE n \in h \ g
    BY <2>2
  <2> QED
    BY <2>1, <2>2
<1>5. Passed(d, h, b)
  BY <1>2, <1>3, <1>4 DEF Settled, Passed
<1>6. \A y \in Hls!Loading(d) : y \in Int /\ y < d.next
  BY DEF Settled, Typed
<1>7. d.next \notin Hls!Loading(d)
  BY <1>1, <1>6
<1>8. \A y \in Hls!Loading(d), p \in Nat : ~(d.next <= p /\ p < y)
  BY <1>1, <1>6
<1> QED
  BY <1>5, <1>7, <1>8 DEF Unsettled

\* The segment of the answer is in the playlist.
Heard(c, r) == Hls!SegmentOf(r.item) \in c.media.first..c.media.last

\* What Done makes of c, with n the segment of the answer.
IsDone(c, r, d, n) ==
  /\ IsClient(d) /\ d.phase = c.phase /\ d.known = c.known /\ d.media = c.media
  /\ d.inflight = c.inflight \ {r} /\ Hls!Loading(d) = Hls!Loading(c) \ {r.item} /\ OneCopy(d)
  /\ ~Heard(c, r) => d.next = c.next /\ d.lastSegment = c.lastSegment /\ d.lastPart = c.lastPart
  /\ Heard(c, r) /\ Hls!IsWhole(r.item) =>
       /\ d.lastSegment = Hls!Max({c.lastSegment, n}) /\ d.lastPart = 0
       /\ d.next = IF Hls!SegmentOf(c.next) = n THEN Hls!First(n + 1) ELSE c.next
  /\ Heard(c, r) /\ ~Hls!IsWhole(r.item) =>
       /\ d.lastSegment = c.lastSegment /\ d.lastPart = r.item
       /\ d.next = IF Hls!SegmentOf(c.next) = n /\ r.item >= c.next THEN r.item + 1 ELSE c.next

LEMMA DoneFacts ==
  ASSUME NEW c, Typed(c), OneCopy(c), NEW r \in c.inflight, r.item \in Nat \ {0},
         NEW d, d = Hls!Done(c, r), NEW n, n = Hls!SegmentOf(r.item)
  PROVE  IsDone(c, r, d, n)
<1> DEFINE e == [c EXCEPT !.inflight = @ \ {r}, !.retries[r.item] = 0]
<1>1. SameBut(c, e) /\ e.next = c.next /\ e.inflight = c.inflight \ {r}
  BY DEF Typed, IsClient, SameBut
<1>2. Hls!Loading(e) = Hls!Loading(c) \ {r.item}
  BY <1>1 DEF Hls!Loading, OneCopy
<1>3. d = IF Hls!IsWhole(r.item) THEN Hls!SegmentDone(e, n) ELSE Hls!PartDone(e, r.item)
  BY DEF Hls!Done
<1> HIDE DEF e
<1>4. CASE ~Heard(c, r)
  <2>1. d = e
    BY <1>1, <1>3, <1>4 DEF Hls!SegmentDone, Hls!PartDone, SameBut, Heard
  <2> QED
    BY <1>1, <1>2, <1>4, <2>1 DEF SameBut, OneCopy, IsDone
<1>5. CASE Heard(c, r) /\ Hls!IsWhole(r.item)
  <2>1. d = [e EXCEPT !.lastSegment = Hls!Max({@, n}), !.lastPart = 0,
                      !.next = IF Hls!SegmentOf(@) = n THEN Hls!First(n + 1) ELSE @]
    BY <1>1, <1>3, <1>5 DEF Hls!SegmentDone, SameBut, Heard
  <2>2. /\ IsClient(d) /\ d.phase = c.phase /\ d.known = c.known /\ d.media = c.media
        /\ d.inflight = e.inflight /\ d.lastSegment = Hls!Max({c.lastSegment, n}) /\ d.lastPart = 0
        /\ d.next = IF Hls!SegmentOf(c.next) = n THEN Hls!First(n + 1) ELSE c.next
    BY <1>1, <2>1 DEF SameBut, IsClient
  <2>3. Hls!Loading(d) = Hls!Loading(e) /\ OneCopy(d)
    BY <1>1, <2>2 DEF Hls!Loading, OneCopy
  <2> QED
    BY <1>1, <1>2, <1>5, <2>2, <2>3 DEF IsDone
<1>6. CASE Heard(c, r) /\ ~Hls!IsWhole(r.item)
  <2>1. d = [e EXCEPT !.lastPart = r.item,
                      !.next = IF Hls!SegmentOf(@) = n /\ r.item >= @ THEN r.item + 1 ELSE @]
    BY <1>1, <1>3, <1>6 DEF Hls!PartDone, SameBut, Heard
  <2>2. /\ IsClient(d) /\ d.phase = c.phase /\ d.known = c.known /\ d.media = c.media
        /\ d.inflight = e.inflight /\ d.lastSegment = c.lastSegment /\ d.lastPart = r.item
        /\ d.next = IF Hls!SegmentOf(c.next) = n /\ r.item >= c.next THEN r.item + 1 ELSE c.next
    BY <1>1, <2>1 DEF SameBut, IsClient
  <2>3. Hls!Loading(d) = Hls!Loading(e) /\ OneCopy(d)
    BY <1>1, <2>2 DEF Hls!Loading, OneCopy
  <2> QED
    BY <1>1, <1>2, <1>6, <2>2, <2>3 DEF IsDone
<1> QED
  BY <1>4, <1>5, <1>6

\* The answer's segment n, and the numbers that it is compared with.
LEMMA AnswerFacts ==
  ASSUME NEW c, Typed(c), NEW r \in c.inflight, r.item \in Nat \ {0}, NEW n, n = Hls!SegmentOf(r.item)
  PROVE  /\ c.media.last \in Nat /\ c.media.first \in Nat /\ c.media.first >= 1
         /\ Hls!Whole(c.media.last) \in Nat /\ Hls!First(c.media.last + 1) = Hls!Whole(c.media.last) + 1
         /\ c.lastSegment \in Nat /\ c.next \in Nat /\ c.next >= 1 /\ r.item \in Hls!Loading(c)
         /\ n \in Nat /\ n >= 1 /\ n <= c.media.last /\ Hls!First(n) <= r.item /\ r.item <= Hls!Whole(n)
         /\ Hls!First(n) \in Nat /\ Hls!Whole(n) \in Nat /\ Hls!First(n + 1) = Hls!Whole(n) + 1
         /\ Hls!Whole(n) <= Hls!Whole(c.media.last)
<1>1. /\ c.media.last \in Nat /\ Hls!Whole(c.media.last) \in Nat /\ r.item <= Hls!Whole(c.media.last)
      /\ Hls!First(c.media.last + 1) = Hls!Whole(c.media.last) + 1 /\ c.lastSegment \in Nat /\ c.next \in Nat
      /\ c.media.first \in Nat /\ c.media.first >= 1 /\ c.next >= 1 /\ r.item \in Hls!Loading(c)
  BY WholeFacts DEF Typed, IsPlaylist, Hls!Loading
<1>2. n \in Nat /\ n >= 1 /\ n <= c.media.last /\ Hls!First(n) <= r.item /\ r.item <= Hls!Whole(n)
  BY <1>1, SegmentsBelow, SegmentFacts
<1>3. Hls!First(n) \in Nat /\ Hls!Whole(n) \in Nat /\ Hls!First(n + 1) = Hls!Whole(n) + 1
  BY <1>2, FirstFacts, WholeFacts
<1>4. Hls!Whole(n) <= Hls!Whole(c.media.last)
  BY <1>1, <1>2, WholeGrows
<1> QED
  BY <1>1, <1>2, <1>3, <1>4

LEMMA DoneTyped ==
  ASSUME NEW c, Typed(c), OneCopy(c), NEW r \in c.inflight, r.item \in Nat \ {0},
         NEW d, d = Hls!Done(c, r)
  PROVE  Typed(d)
<1>1. PICK n : n = Hls!SegmentOf(r.item)
  OBVIOUS
<1>2. IsDone(c, r, d, n)
  BY <1>1, DoneFacts
<1>3. /\ c.media.last \in Nat /\ Hls!Whole(c.media.last) \in Nat /\ r.item <= Hls!Whole(c.media.last)
      /\ Hls!First(c.media.last + 1) = Hls!Whole(c.media.last) + 1 /\ c.lastSegment \in Nat /\ c.next \in Nat
      /\ n \in Nat /\ n >= 1 /\ n <= c.media.last /\ Hls!Whole(n) \in Nat /\ Hls!First(n + 1) = Hls!Whole(n) + 1
      /\ Hls!Whole(n) <= Hls!Whole(c.media.last)
  BY <1>1, AnswerFacts DEF Typed
<1>4. d.next \in Nat /\ d.next >= 1 /\ d.next <= Hls!First(c.media.last + 1)
  <2>1. c.next >= 1 /\ c.next <= Hls!First(c.media.last + 1)
    BY DEF Typed
  <2>2. /\ r.item + 1 \in Nat /\ r.item + 1 >= 1 /\ r.item + 1 <= Hls!First(c.media.last + 1)
        /\ Hls!First(n + 1) \in Nat /\ Hls!First(n + 1) >= 1 /\ Hls!First(n + 1) <= Hls!First(c.media.last + 1)
    BY <1>3
  <2>3. d.next \in {c.next, r.item + 1, Hls!First(n + 1)}
    BY <1>2 DEF IsDone
  <2> QED
    BY <1>3, <2>1, <2>2, <2>3
<1>5. d.lastSegment \in Nat /\ d.lastSegment <= c.media.last
  <2>1. Hls!Max({c.lastSegment, n}) \in {c.lastSegment, n}
    <3>1. c.lastSegment \in Int /\ n \in Int
      BY <1>3
    <3> QED
      BY <3>1, MaxOfTwo
  <2>2. d.lastSegment \in {c.lastSegment, n}
    BY <1>2, <2>1 DEF IsDone
  <2> QED
    BY <1>2, <1>3, <2>2 DEF Typed, IsDone
<1>6. d.lastPart \in Nat /\ (d.lastPart # 0 => ~Hls!IsWhole(d.lastPart) /\ Hls!SegmentOf(d.lastPart) <= c.media.last)
  <2>1. \/ d.lastPart = c.lastPart
        \/ d.lastPart = 0
        \/ d.lastPart = r.item /\ ~Hls!IsWhole(r.item)
    BY <1>2 DEF IsDone
  <2> QED
    BY <1>1, <1>3, <2>1 DEF Typed
<1> QED
  BY <1>2, <1>4, <1>5, <1>6 DEF Typed, IsDone

\* What was heard lies behind the position already.
LEMMA DonePosition ==
  ASSUME NEW c, Typed(c), OneCopy(c), NEW r \in c.inflight, r.item \in Nat \ {0}, r.item < c.next,
         NEW d, d = Hls!Done(c, r)
  PROVE  d.next = c.next
<1>1. PICK n : n = Hls!SegmentOf(r.item)
  OBVIOUS
<1>2. /\ c.next \in Nat /\ n \in Nat /\ n >= 1 /\ Hls!Whole(n) \in Nat /\ c.next >= 1
      /\ r.item <= Hls!Whole(n)
  BY <1>1, AnswerFacts
<1>3. Hls!IsWhole(r.item) => Hls!SegmentOf(c.next) # n
  <2> SUFFICES ASSUME Hls!IsWhole(r.item), Hls!SegmentOf(c.next) = n PROVE FALSE
    OBVIOUS
  <2>1. r.item = Hls!Whole(n) /\ c.next <= Hls!Whole(n)
    BY <1>1, <1>2, WholeOfPiece, SegmentFacts
  <2> QED
    BY <1>2, <2>1
<1>4. ~ r.item >= c.next
  BY <1>2
<1>5. IsDone(c, r, d, n)
  BY <1>1, DoneFacts
<1> QED
  BY <1>3, <1>4, <1>5 DEF IsDone

\* No part came after one behind it, or after its segment or one behind it.
InOrder(c, r) ==
  ~(c.lastPart > r.item \/ (~Hls!IsWhole(r.item) /\ c.lastSegment >= Hls!SegmentOf(r.item)))

LEMMA UnheardUnsettled ==
  ASSUME NEW c, Typed(c), OneCopy(c), NEW r \in c.inflight, r.item \in Nat \ {0},
         NEW d, d = Hls!Done(c, r), NEW g, NEW b, b \in Nat \ {0}, g \subseteq Nat \ {0},
         Settled(c, g, b), ~Heard(c, r), NEW h, h = IF Hls!IsWhole(r.item) THEN g \cup {Hls!SegmentOf(r.item)} ELSE g
  PROVE  Unsettled(d, h, b)
<1>1. PICK n : n = Hls!SegmentOf(r.item)
  OBVIOUS
<1>2. /\ c.media.first \in Nat /\ c.media.first >= 1 /\ c.lastSegment \in Nat
      /\ r.item \in Hls!Loading(c) /\ n \in Nat /\ n >= 1 /\ n <= c.media.last
      /\ r.item <= Hls!Whole(n) /\ Hls!Whole(n) \in Nat /\ c.media.last \in Nat
  BY <1>1, AnswerFacts
<1>3. /\ d.media = c.media /\ Hls!Loading(d) = Hls!Loading(c) \ {r.item}
      /\ d.next = c.next /\ d.lastSegment = c.lastSegment /\ d.lastPart = c.lastPart
  <2>1. IsDone(c, r, d, n)
    BY <1>1, DoneFacts
  <2> QED
    BY <2>1 DEF IsDone
<1>4. Resume(d) = Resume(c) /\ Resume(c) \in Nat
  BY <1>3, ResumeFacts DEF Resume, Hls!ResumePosition, Typed
<1>5. n < c.media.first
  BY <1>1, <1>2 DEF Heard
<1>6. r.item < Hls!First(c.media.first)
  <2>1. Hls!Whole(n) < Hls!First(c.media.first) /\ Hls!First(c.media.first) \in Nat
    BY <1>2, <1>5, WholeRises, FirstFacts
  <2> QED
    BY <1>2, <2>1
<1>7. h \subseteq Nat \ {0} /\ g \subseteq h /\ (Hls!IsWhole(r.item) => Hls!SegmentOf(r.item) \in h)
  <2>1. n \in Nat \ {0}
    BY <1>2
  <2>2. CASE Hls!IsWhole(r.item)
    BY <1>1, <2>1, <2>2
  <2>3. CASE ~Hls!IsWhole(r.item)
    BY <2>3
  <2> QED
    BY <2>2, <2>3
<1>8. \A k \in h \ g : r.item = Hls!Whole(k) /\ (k <= d.lastSegment \/ k < c.media.first)
  BY <1>1, <1>5, WholeOfPiece
<1>9. /\ c.lastSegment <= d.lastSegment /\ Resume(c) <= Resume(d)
  BY <1>2, <1>3, <1>4
<1>10. /\ Hls!Whole(d.lastSegment) < d.next /\ Resume(d) <= d.next
       /\ d.lastPart # 0 => d.lastSegment < Hls!SegmentOf(d.lastPart)
  BY <1>3, <1>4 DEF Settled, Passed
<1> QED
  BY <1>2, <1>3, <1>4, <1>6, <1>7, <1>8, <1>9, <1>10, LoadedUnsettled

LEMMA WholeUnsettled ==
  ASSUME NEW c, Typed(c), OneCopy(c), NEW r \in c.inflight, r.item \in Nat \ {0},
         NEW d, d = Hls!Done(c, r), NEW g, NEW b, b \in Nat \ {0}, g \subseteq Nat \ {0},
         Settled(c, g, b), Heard(c, r), InOrder(c, r), Hls!IsWhole(r.item),
         NEW h, h = g \cup {Hls!SegmentOf(r.item)}
  PROVE  Unsettled(d, h, b)
<1>1. PICK n : n = Hls!SegmentOf(r.item)
  OBVIOUS
<1>2. /\ c.media.first \in Nat /\ c.media.first >= 1 /\ c.lastSegment \in Nat
      /\ r.item \in Hls!Loading(c) /\ n \in Nat /\ n >= 1 /\ n <= c.media.last
      /\ Hls!Whole(n) \in Nat /\ c.media.last \in Nat /\ c.next \in Nat
      /\ Hls!First(n + 1) = Hls!Whole(n) + 1
  BY <1>1, AnswerFacts
<1>3. r.item = Hls!Whole(n) /\ r.item < c.next
  BY <1>1, <1>2, WholeOfPiece DEF Settled
<1>4. /\ d.media = c.media /\ Hls!Loading(d) = Hls!Loading(c) \ {r.item} /\ d.next = c.next
      /\ d.lastSegment = Hls!Max({c.lastSegment, n}) /\ d.lastPart = 0
  <2>1. IsDone(c, r, d, n)
    BY <1>1, DoneFacts
  <2>2. d.next = c.next
    BY <1>3, DonePosition
  <2> QED
    BY <2>1, <2>2 DEF IsDone
<1>5. Typed(d) /\ IsPlaylist(c.media)
  BY DoneTyped DEF Typed
<1>6. /\ d.lastSegment \in {c.lastSegment, n} /\ c.lastSegment <= d.lastSegment /\ n <= d.lastSegment
      /\ d.lastSegment \in Nat
  <2>1. c.lastSegment \in Int /\ n \in Int
    BY <1>2
  <2>2. /\ Hls!Max({c.lastSegment, n}) \in {c.lastSegment, n} /\ c.lastSegment <= Hls!Max({c.lastSegment, n})
        /\ n <= Hls!Max({c.lastSegment, n})
    BY <2>1, MaxOfTwo
  <2> QED
    BY <1>2, <1>4, <2>2
<1> DEFINE f == Floor(d, c.media)
<1>7. /\ f \in Nat /\ c.media.first <= f /\ d.lastSegment < f /\ f \in {c.media.first, d.lastSegment + 1}
  BY <1>5, FloorFacts
<1>8. Resume(d) = Hls!First(f)
  BY <1>4, ResumeCases DEF Resume, OnPart
<1> HIDE DEF f
<1>9. Hls!First(f) \in Nat /\ Hls!First(n + 1) <= Hls!First(f)
  <2>1. 1 <= n + 1 /\ n + 1 \in Nat /\ n + 1 <= f
    BY <1>2, <1>6, <1>7
  <2> QED
    BY <1>7, <2>1, FirstRises, FirstFacts
<1>10. Resume(c) <= Hls!First(f)
  <2>1. CASE OnPart(c, c.media)
    <3> DEFINE k == Hls!SegmentOf(c.lastPart)
    <3>1. /\ k \in Nat /\ k >= 1 /\ Hls!First(k) <= c.lastPart /\ c.lastPart \in Nat
          /\ After(c.lastPart) \in Nat /\ After(c.lastPart) <= Hls!Whole(k) + 1
      BY <2>1, AfterFacts DEF OnPart, Typed
    <3> HIDE DEF k
    <3>2. ~ c.lastPart > r.item
      BY DEF InOrder
    <3>3. ~ n < k
      <4> SUFFICES ASSUME n < k PROVE FALSE
        OBVIOUS
      <4>1. Hls!Whole(n) < Hls!First(k) /\ Hls!First(k) \in Nat
        BY <1>2, <3>1, <1>2, WholeRises, FirstFacts
      <4> QED
        BY <1>2, <1>3, <3>1, <3>2, <4>1
    <3>4. Hls!Whole(k) <= Hls!Whole(n) /\ Hls!Whole(k) \in Nat
      BY <1>2, <3>1, <3>3, WholeGrows
    <3>5. After(c.lastPart) <= Hls!First(n + 1)
      BY <1>2, <3>1, <3>4
    <3> QED
      BY <1>2, <1>9, <2>1, <3>1, <3>5, ResumeCases DEF Resume
  <2>2. CASE ~OnPart(c, c.media)
    <3>1. /\ Floor(c, c.media) \in Nat /\ c.media.first <= Floor(c, c.media)
          /\ Floor(c, c.media) \in {c.media.first, c.lastSegment + 1}
      BY <1>5, FloorFacts
    <3>2. Floor(c, c.media) <= f /\ 1 <= Floor(c, c.media)
      BY <1>2, <1>6, <1>7, <3>1
    <3> QED
      BY <1>7, <2>2, <3>1, <3>2, FirstRises, ResumeCases DEF Resume
  <2> QED
    BY <2>1, <2>2
<1>11. Hls!Whole(d.lastSegment) < d.next /\ Hls!First(f) <= d.next
  <2>1. Hls!Whole(d.lastSegment) < c.next /\ Hls!First(c.media.first) <= c.next
    BY <1>3, <1>6 DEF Settled, Passed
  <2>2. Hls!First(d.lastSegment + 1) = Hls!Whole(d.lastSegment) + 1 /\ Hls!Whole(d.lastSegment) \in Nat
    BY <1>6, WholeFacts
  <2> QED
    BY <1>2, <1>4, <1>7, <2>1, <2>2
<1>12. h \subseteq Nat \ {0} /\ g \subseteq h /\ Hls!SegmentOf(r.item) \in h
  <2>1. n \in Nat \ {0}
    BY <1>2
  <2> QED
    BY <1>1, <2>1
<1>13. \A k \in h \ g : r.item = Hls!Whole(k) /\ (k <= d.lastSegment \/ k < c.media.first)
  BY <1>1, <1>3, <1>6
<1>14. r.item < Resume(d)
  BY <1>2, <1>3, <1>8, <1>9
<1>15. /\ Resume(d) \in Nat /\ Resume(c) <= Resume(d) /\ Resume(d) <= d.next
       /\ d.lastPart # 0 => d.lastSegment < Hls!SegmentOf(d.lastPart)
  BY <1>4, <1>8, <1>9, <1>10, <1>11
<1> QED
  BY <1>2, <1>4, <1>6, <1>11, <1>12, <1>13, <1>14, <1>15, LoadedUnsettled

LEMMA PartUnsettled ==
  ASSUME NEW c, Typed(c), OneCopy(c), NEW r \in c.inflight, r.item \in Nat \ {0},
         NEW d, d = Hls!Done(c, r), NEW g, NEW b, b \in Nat \ {0}, g \subseteq Nat \ {0},
         Settled(c, g, b), Heard(c, r), InOrder(c, r), ~Hls!IsWhole(r.item)
  PROVE  Unsettled(d, g, b)
<1>1. PICK n : n = Hls!SegmentOf(r.item)
  OBVIOUS
<1>2. PICK x : x = r.item
  OBVIOUS
<1>3. /\ c.media.first \in Nat /\ c.media.first >= 1 /\ c.lastSegment \in Nat
      /\ x \in Hls!Loading(c) /\ n \in Nat /\ n >= 1 /\ n <= c.media.last /\ x \in Nat
      /\ Hls!Whole(n) \in Nat /\ c.media.last \in Nat /\ c.next \in Nat
      /\ Hls!First(n) \in Nat /\ Hls!First(n) <= x /\ Hls!Whole(n) <= Hls!Whole(c.media.last)
      /\ Hls!Whole(c.media.last) \in Nat
  BY <1>1, <1>2, AnswerFacts
<1>4. x < c.next
  BY <1>2, <1>3 DEF Settled
<1>5. /\ d.media = c.media /\ Hls!Loading(d) = Hls!Loading(c) \ {x} /\ d.next = c.next
      /\ d.lastSegment = c.lastSegment /\ d.lastPart = x
  <2>1. IsDone(c, r, d, n)
    BY <1>1, DoneFacts
  <2>2. d.next = c.next
    BY <1>2, <1>4, DonePosition
  <2> QED
    BY <1>2, <2>1, <2>2 DEF IsDone
<1>6. n \in c.media.first..c.media.last /\ c.media.first <= n
  BY <1>1, <1>3 DEF Heard
<1>7. c.lastSegment < n /\ ~ c.lastPart > x
  BY <1>1, <1>2, <1>3 DEF InOrder
<1>8. /\ After(x) \in Nat /\ x < After(x) /\ x + 1 <= Hls!Whole(n)
  BY <1>1, <1>2, <1>3, AfterFacts
<1>9. Resume(d) = After(x)
  BY <1>1, <1>2, <1>3, <1>5, <1>6, ResumeCases DEF Resume, OnPart
<1>10. Resume(c) <= After(x)
  <2>1. CASE OnPart(c, c.media)
    <3>1. c.lastPart \in Nat /\ c.lastPart # 0 /\ ~Hls!IsWhole(c.lastPart)
      BY <2>1 DEF OnPart, Typed
    <3>2. Resume(c) = After(c.lastPart)
      BY <2>1, ResumeCases DEF Resume
    <3>3. CASE c.lastPart = x
      BY <1>8, <3>2, <3>3
    <3>4. CASE c.lastPart < x /\ Hls!IsWhole(c.lastPart + 1)
      <4>1. c.lastPart + 1 # x
        BY <1>2, <3>4
      <4>2. After(c.lastPart) = c.lastPart + 2
        BY <3>4 DEF After
      <4> QED
        BY <1>3, <1>8, <3>1, <3>2, <3>4, <4>1, <4>2
    <3>5. CASE c.lastPart < x /\ ~Hls!IsWhole(c.lastPart + 1)
      <4>1. After(c.lastPart) = c.lastPart + 1
        BY <3>5 DEF After
      <4> QED
        BY <1>3, <1>8, <3>1, <3>2, <3>5, <4>1
    <3> QED
      BY <1>3, <1>7, <3>1, <3>3, <3>4, <3>5
  <2>2. CASE ~OnPart(c, c.media)
    <3>1. /\ Floor(c, c.media) \in Nat /\ c.media.first <= Floor(c, c.media)
          /\ Floor(c, c.media) \in {c.media.first, c.lastSegment + 1}
      BY FloorFacts DEF Typed
    <3>2. Floor(c, c.media) <= n /\ 1 <= Floor(c, c.media)
      BY <1>3, <1>6, <1>7, <3>1
    <3>3. Hls!First(Floor(c, c.media)) <= Hls!First(n) /\ Hls!First(Floor(c, c.media)) \in Nat
      BY <1>3, <3>1, <3>2, FirstRises
    <3>4. Resume(c) = Hls!First(Floor(c, c.media))
      BY <2>2, ResumeCases DEF Resume
    <3> QED
      BY <1>3, <1>8, <3>3, <3>4
  <2> QED
    BY <2>1, <2>2
<1>11. \/ After(x) <= c.next
       \/ After(x) = c.next + 1 /\ Hls!IsWhole(c.next) /\ c.next <= Hls!Whole(c.media.last)
  <2>1. CASE Hls!IsWhole(x + 1)
    <3>1. After(x) = x + 2
      BY <2>1 DEF After
    <3>2. CASE c.next = x + 1
      BY <1>3, <1>8, <2>1, <3>1, <3>2
    <3>3. CASE c.next # x + 1
      BY <1>3, <1>4, <3>1, <3>3
    <3> QED
      BY <3>2, <3>3
  <2>2. CASE ~Hls!IsWhole(x + 1)
    <3>1. After(x) = x + 1
      BY <2>2 DEF After
    <3> QED
      BY <1>3, <1>4, <3>1
  <2> QED
    BY <2>1, <2>2
<1>12. Hls!Whole(d.lastSegment) < d.next /\ (d.lastPart # 0 => d.lastSegment < Hls!SegmentOf(d.lastPart))
  BY <1>1, <1>2, <1>5, <1>7 DEF Settled, Passed
<1>13. x \in Nat \ {0} /\ ~Hls!IsWhole(x)
  BY <1>2
<1>14. d.lastSegment \in Nat /\ c.lastSegment <= d.lastSegment
  BY <1>3, <1>5
<1>15. /\ Resume(d) \in Nat /\ Resume(c) <= Resume(d) /\ x < Resume(d)
       /\ \/ Resume(d) <= d.next
          \/ Resume(d) = d.next + 1 /\ Hls!IsWhole(d.next) /\ d.next <= Hls!Whole(c.media.last)
  BY <1>5, <1>8, <1>9, <1>10, <1>11
<1>16. \A k \in g \ g : x = Hls!Whole(k) /\ (k <= d.lastSegment \/ k < c.media.first)
  OBVIOUS
<1> QED
  BY <1>3, <1>5, <1>12, <1>13, <1>14, <1>15, <1>16, LoadedUnsettled

-----------------------------------------------------------------------------
(* The inductive invariant                                                 *)

Playlist(r) == r.item \in {Hls!Media, Hls!Master}

IsServer(m) == IsPlaylist(m) /\ m = [first |-> m.first, last |-> m.last, ended |-> m.ended]

\* One playlist is under way at a time, and none once the client has one that has ended.
NetOK(c, n, g) ==
  /\ c.phase \in {"new", "running", "stopped"}
  /\ c.phase = "new" => n = {} /\ c.inflight = {} /\ ~c.known
  /\ c.phase = "stopped" => n = {} /\ c.inflight = {}
  /\ ~c.known => g = {} /\ \A r \in n \cup c.inflight : Playlist(r)
  /\ \A r, s \in n : Playlist(r) /\ Playlist(s) => r = s
  /\ c.known => \A r \in n : Playlist(r) => r.item = Hls!Media /\ ~c.media.ended /\ Hls!Media \in Hls!Loading(c)

\* The playlist c.media was once the server's playlist m; l is late.
ClientOK(c, m, g, b, l) ==
  /\ Typed(c) /\ OneCopy(c)
  /\ IsServer(m) /\ c.media.first <= m.first /\ c.media.last <= m.last
  /\ b \in Nat \ {0} /\ g \subseteq Nat \ {0}
  /\ c.known /\ ~c.media.ended => b <= c.media.first
  /\ c.phase = "running" /\ c.known /\ ~l => Settled(c, g, b)

HInv == NetOK(client, net, got) /\ ClientOK(client, server, got, begin, late)

LEMMA PieceFacts ==
  /\ \A r : r.item \in Hls!Pieces => r.item \in Nat \ {0} /\ ~Playlist(r)
  /\ \A r : r.item \in Nat \ {0} => ~Playlist(r)
<1>1. Hls!Media \notin Nat \ {0} /\ Hls!Master \notin Nat \ {0}
  BY DEF Hls!Media, Hls!Master
<1>2. MaxSegments * (Parts + 1) \in Int
  BY HlsAssumption DEF Hls!HlsAssumption
<1>3. Hls!Pieces \subseteq Nat \ {0}
  BY <1>2 DEF Hls!Pieces
<1> QED
  BY <1>1, <1>3 DEF Playlist

\* Only pieces are asked for; the playlists under way, if any, are as they were.
LEMMA PiecesAsked ==
  ASSUME NEW c, NEW n, NEW g, NetOK(c, n, g), NEW d, d.phase = "running", d.known,
         NEW done, NEW n2, n2 \subseteq (n \ done) \cup (d.inflight \ c.inflight),
         \A q \in d.inflight \ c.inflight : q.item \in Nat \ {0},
         \/ \A q \in n \ done : ~Playlist(q)
         \/ c.known /\ d.media = c.media /\ (Hls!Media \in Hls!Loading(c) => Hls!Media \in Hls!Loading(d)),
         NEW h
  PROVE  NetOK(d, n2, h)
<1>1. \A q \in n2 : Playlist(q) => q \in n \ done
  BY PieceFacts
<1> QED
  BY <1>1 DEF NetOK

LEMMA StoppedOK ==
  ASSUME NEW c, NEW n, NEW g, NetOK(c, n, g), NEW m, NEW b, NEW l, ClientOK(c, m, g, b, l)
  PROVE  NetOK(Hls!Stopped(c), {}, g) /\ ClientOK(Hls!Stopped(c), m, g, b, l)
<1> DEFINE d == Hls!Stopped(c)
<1>1. /\ IsClient(d) /\ d.phase = "stopped" /\ d.inflight = {} /\ Hls!Loading(d) = {} /\ d.known = c.known
      /\ d.media = c.media /\ d.next = c.next /\ d.lastSegment = c.lastSegment /\ d.lastPart = c.lastPart
  BY StoppedFacts DEF ClientOK, Typed
<1> HIDE DEF d
<1>2. Typed(d) /\ OneCopy(d)
  BY <1>1 DEF ClientOK, Typed, OneCopy
<1>3. NetOK(d, {}, g)
  BY <1>1 DEF NetOK
<1>4. ClientOK(d, m, g, b, l)
  BY <1>1, <1>2 DEF ClientOK
<1> QED
  BY <1>3, <1>4 DEF d

\* A client that goes on hears the answers to done and sends what it asks for.
LEMMA GoesOn ==
  ASSUME NEW d, NEW done, Hls!Become(d, done), d.phase = "running"
  PROVE  client' = d /\ net' = (net \ done) \cup (d.inflight \ client.inflight)
BY DEF Hls!Become

LEMMA StopStep ==
  ASSUME HInv, NEW done, Hls!Become(Hls!Stopped(client), done), UNCHANGED <<server, begin, got, late>>
  PROVE  HInv'
<1>1. client' = Hls!Stopped(client) /\ net' = {}
  BY StoppedFacts DEF HInv, ClientOK, Typed, Hls!Become
<1> QED
  BY <1>1, StoppedOK DEF HInv

LEMMA StartStep ==
  ASSUME HInv, Hls!Start
  PROVE  HInv'
<1> DEFINE c == [client EXCEPT !.phase = "running"]
           d == Hls!Request(c, Hls!Master)
<1>1. /\ IsClient(client) /\ client.phase = "new" /\ client.inflight = {} /\ net = {} /\ ~client.known
      /\ got = {}
  BY DEF HInv, ClientOK, NetOK, Typed, Hls!Start
<1>2. /\ IsClient(c) /\ c.phase = "running" /\ c.known = client.known /\ c.media = client.media
      /\ c.next = client.next /\ c.lastSegment = client.lastSegment /\ c.lastPart = client.lastPart
      /\ c.inflight = {}
  BY <1>1 DEF IsClient
<1>3. Hls!Become(d, {}) /\ UNCHANGED <<server, begin, got, late>>
  BY DEF Hls!Start
<1> HIDE DEF c
<1>4. /\ SameBut(c, d) /\ d.next = c.next /\ d.inflight = c.inflight \cup {[epoch |-> Hls!Fresh, item |-> Hls!Master]}
      /\ Hls!Loading(d) = Hls!Loading(c) \cup {Hls!Master}
  BY <1>2, RequestFacts
<1> HIDE DEF d
<1>5. Hls!Loading(d) = {Hls!Master} /\ d.inflight = {[epoch |-> Hls!Fresh, item |-> Hls!Master]}
  BY <1>2, <1>4 DEF Hls!Loading
<1>6. d.phase = "running" /\ client' = d /\ net' = d.inflight
  BY <1>1, <1>2, <1>3, <1>4, GoesOn DEF SameBut
<1>7. Typed(d)
  <2>1. Hls!Master \in Int /\ Hls!Master <= Hls!Whole(client.media.last)
    BY WholeFacts DEF HInv, ClientOK, Typed, IsPlaylist, Hls!Master
  <2>2. /\ IsClient(d) /\ d.media = client.media /\ d.next = client.next
        /\ d.lastSegment = client.lastSegment /\ d.lastPart = client.lastPart
    BY <1>2, <1>4 DEF SameBut
  <2>3. Typed(client)
    BY DEF HInv, ClientOK
  <2> QED
    BY <1>5, <2>1, <2>2, <2>3 DEF Typed
<1>8. OneCopy(d) /\ \A r \in d.inflight : r.item = Hls!Master
  BY <1>5 DEF OneCopy
<1>9. ~d.known /\ d.media = client.media
  BY <1>1, <1>2, <1>4 DEF SameBut
<1>10. NetOK(d, d.inflight, {})
  <2>1. \A r, s \in d.inflight : r = s
    BY <1>5
  <2> QED
    BY <1>6, <1>8, <1>9, <2>1 DEF NetOK, Playlist
<1>11. ClientOK(d, server, {}, begin, late)
  BY <1>1, <1>7, <1>8, <1>9 DEF HInv, ClientOK
<1> QED
  BY <1>1, <1>3, <1>6, <1>10, <1>11 DEF HInv

\* The request r for a playlist is answered, so no other is under way.
LEMMA LastPlaylist ==
  ASSUME NEW c, NEW n, NEW g, NetOK(c, n, g), NEW r \in n, Playlist(r)
  PROVE  \A q \in n \ {r} : ~Playlist(q)
BY DEF NetOK

LEMMA MasterLoadedStep ==
  ASSUME HInv, Hls!Running, NEW r \in net, Hls!MasterLoaded(r), UNCHANGED server
  PROVE  HInv'
<1> DEFINE c == Hls!BumpEpoch(Hls!RemovePlaylist(client, Hls!Master))
           d == Hls!Request(c, Hls!Media)
<1>1. /\ r.item = Hls!Master /\ Playlist(r) /\ Hls!Become(d, {r}) /\ UNCHANGED <<begin, got, late>>
  BY DEF Hls!MasterLoaded, Playlist
<1>2. NetOK(client, net, got) /\ Typed(client) /\ IsClient(client)
  BY DEF HInv, ClientOK, Typed
<1>3. ~client.known /\ got = {} /\ \A q \in net : Playlist(q)
  BY <1>1, <1>2 DEF NetOK, Playlist, Hls!Media, Hls!Master
<1>4. net \ {r} = {}
  BY <1>1, <1>2, <1>3, LastPlaylist
<1>5. SameBut(client, Hls!RemovePlaylist(client, Hls!Master)) /\ Hls!RemovePlaylist(client, Hls!Master).next = client.next
  BY <1>2, RemoveFacts
<1>6. SameBut(client, c) /\ c.next = client.next /\ c.inflight = {} /\ Hls!Loading(c) = {}
  BY <1>5, BumpFacts DEF SameBut
<1> HIDE DEF c
<1>7. /\ SameBut(c, d) /\ d.next = c.next /\ d.inflight = c.inflight \cup {[epoch |-> Hls!Fresh, item |-> Hls!Media]}
      /\ Hls!Loading(d) = Hls!Loading(c) \cup {Hls!Media}
  BY <1>6, RequestFacts DEF SameBut
<1> HIDE DEF d
<1>8. /\ SameBut(client, d) /\ d.next = client.next /\ d.inflight = {[epoch |-> Hls!Fresh, item |-> Hls!Media]}
      /\ Hls!Loading(d) = {Hls!Media}
  BY <1>6, <1>7 DEF SameBut
<1>9. d.phase = "running" /\ ~d.known /\ client' = d /\ net' \subseteq d.inflight
  BY <1>1, <1>3, <1>4, <1>8, GoesOn DEF SameBut, Hls!Running
<1>10. Typed(d) /\ OneCopy(d)
  <2>1. Hls!Media \in Int /\ Hls!Media <= Hls!Whole(client.media.last)
    BY <1>2, WholeFacts DEF Typed, IsPlaylist, Hls!Media
  <2> QED
    BY <1>2, <1>8, <2>1 DEF Typed, OneCopy, SameBut
<1>11. NetOK(d, net', {})
  <2>1. \A q \in d.inflight : q.item = Hls!Media
    BY <1>8
  <2>2. \A q, s \in d.inflight : q = s
    BY <1>8
  <2> QED
    BY <1>9, <2>1, <2>2 DEF NetOK, Playlist
<1>12. ClientOK(d, server, {}, begin, late)
  BY <1>3, <1>8, <1>9, <1>10 DEF HInv, ClientOK, SameBut
<1> QED
  BY <1>1, <1>3, <1>9, <1>11, <1>12 DEF HInv

LEMMA MediaFirstLoadedStep ==
  ASSUME HInv, Hls!Running, NEW r \in net, Hls!MediaFirstLoaded(r), UNCHANGED server
  PROVE  HInv'
<1> DEFINE a == Hls!RemovePlaylist(client, r.item)
           c == [a EXCEPT !.known = TRUE, !.media = server, !.next = Hls!First(server.first),
                          !.lastSegment = 0, !.lastPart = 0]
           e == Hls!BumpEpoch(c)
           d == Hls!ScheduleDownloads(e)
<1>1. /\ Playlist(r) /\ Hls!Become(d, {r}) /\ begin' = server.first /\ got' = {} /\ late' = FALSE
  BY DEF Hls!MediaFirstLoaded, Playlist
<1>2. /\ NetOK(client, net, got) /\ Typed(client) /\ IsClient(client) /\ IsServer(server)
      /\ client.phase = "running"
  BY DEF HInv, ClientOK, Typed, Hls!Running
<1>3. \A q \in net \ {r} : ~Playlist(q)
  BY <1>1, <1>2, LastPlaylist
<1>4. IsClient(a) /\ a.phase = "running"
  BY <1>2, RemoveFacts DEF SameBut
<1> HIDE DEF a
<1>5. /\ IsClient(c) /\ c.phase = "running" /\ c.known /\ c.media = server
      /\ c.next = Hls!First(server.first) /\ c.lastSegment = 0 /\ c.lastPart = 0
  BY <1>4 DEF IsClient
<1> HIDE DEF c
<1>6. /\ IsClient(e) /\ e.phase = "running" /\ e.known /\ e.media = server
      /\ e.next = Hls!First(server.first) /\ e.lastSegment = 0 /\ e.lastPart = 0
      /\ e.inflight = {} /\ Hls!Loading(e) = {}
  BY <1>5, BumpFacts DEF SameBut
<1> HIDE DEF e
<1>7. /\ server.first \in Nat \ {0} /\ Hls!First(server.first) \in Nat /\ Hls!First(server.first) >= 1
      /\ Hls!First(server.first) <= Hls!First(server.last + 1) /\ server.last \in Nat /\ server.first <= server.last
      /\ IsPlaylist(server)
  <2>1. /\ server.first \in Nat /\ server.first >= 1 /\ server.last \in Nat /\ server.first <= server.last
        /\ IsPlaylist(server)
    BY <1>2 DEF IsServer, IsPlaylist
  <2>2. server.last + 1 \in Nat /\ server.first <= server.last + 1
    BY <2>1
  <2> QED
    BY <2>1, <2>2, FirstFacts, FirstRises
<1>8. Typed(e) /\ OneCopy(e)
  BY <1>6, <1>7 DEF Typed, OneCopy
<1>9. Unsettled(e, {}, server.first)
  BY <1>6, <1>7, <1>8, StartUnsettled
<1>10. /\ SameBut(e, d) /\ OneCopy(d) /\ Typed(d) /\ Settled(d, {}, server.first)
       /\ \A q \in d.inflight \ {} : q.item \in Nat \ {0}
  BY <1>6, <1>7, <1>8, <1>9, ScheduleSettles
<1> HIDE DEF d
<1>11. d.phase = "running" /\ d.known /\ d.media = server
  BY <1>6, <1>10 DEF SameBut
<1>12. client' = d /\ net' = (net \ {r}) \cup (d.inflight \ client.inflight)
  BY <1>1, <1>11, GoesOn
<1>13. NetOK(d, net', {})
  BY <1>2, <1>3, <1>10, <1>11, <1>12, PiecesAsked
<1>14. ClientOK(d, server, {}, server.first, FALSE)
  BY <1>2, <1>7, <1>10, <1>11 DEF ClientOK
<1> QED
  BY <1>1, <1>12, <1>13, <1>14 DEF HInv

LEMMA MediaReloadedStep ==
  ASSUME HInv, Hls!Running, NEW r \in net, Hls!MediaReloaded(r), UNCHANGED server
  PROVE  HInv'
<1> DEFINE a == Hls!RemovePlaylist(client, r.item)
           p == Hls!ResumePosition(client, server)
           c == [a EXCEPT !.media = server, !.next = p]
           d == Hls!ScheduleDownloads(c)
<1>1. Playlist(r) /\ client.known /\ Hls!Become(d, {r}) /\ UNCHANGED <<begin, got, late>>
  BY DEF Hls!MediaReloaded, Playlist
<1>2. /\ NetOK(client, net, got) /\ Typed(client) /\ IsClient(client) /\ IsServer(server)
      /\ IsPlaylist(server) /\ client.phase = "running" /\ OneCopy(client)
      /\ client.media.first <= server.first /\ client.media.last <= server.last
  BY DEF HInv, ClientOK, Typed, Hls!Running, IsServer
<1>3. (\A q \in net \ {r} : ~Playlist(q)) /\ ~client.media.ended
  BY <1>1, <1>2, LastPlaylist DEF NetOK
<1>4. /\ begin <= client.media.first /\ begin \in Nat \ {0} /\ got \subseteq Nat \ {0}
      /\ ~late => Settled(client, got, begin)
  BY <1>1, <1>2, <1>3 DEF HInv, ClientOK
<1>5. /\ SameBut(client, a) /\ a.inflight \subseteq client.inflight
      /\ \A x \in Nat \ {0} : x \in Hls!Loading(a) <=> x \in Hls!Loading(client)
  BY <1>2, RemoveFacts
<1> HIDE DEF a
<1>6. /\ IsClient(c) /\ c.phase = "running" /\ c.known /\ c.media = server /\ c.next = p
      /\ c.lastSegment = client.lastSegment /\ c.lastPart = client.lastPart
      /\ c.inflight = a.inflight
  BY <1>1, <1>2, <1>5 DEF IsClient, SameBut
<1>7. Hls!Loading(c) = Hls!Loading(a) /\ Hls!Loading(c) \subseteq Hls!Loading(client)
  BY <1>5, <1>6 DEF Hls!Loading
<1> HIDE DEF c
<1>8. client.lastSegment \in Nat /\ client.lastSegment <= server.last
  BY <1>2 DEF Typed, IsPlaylist
<1>9. p \in Nat /\ p <= Hls!First(server.last + 1) /\ p >= 1
  <2>1. p \in Nat /\ p <= Hls!First(server.last + 1) /\ Hls!First(server.first) <= p
    BY <1>2, <1>8, ResumeFacts
  <2>2. Hls!First(server.first) \in Nat /\ Hls!First(server.first) >= 1
    BY <1>2, FirstFacts DEF IsPlaylist
  <2> QED
    BY <2>1, <2>2
<1> HIDE DEF p
<1>10. Typed(c) /\ OneCopy(c)
  <2>1. ASSUME NEW x \in Hls!Loading(c) PROVE x \in Int /\ x <= Hls!Whole(server.last)
    <3>1. x \in Int /\ x <= Hls!Whole(client.media.last)
      BY <1>2, <1>7 DEF Typed
    <3>2. /\ Hls!Whole(client.media.last) <= Hls!Whole(server.last) /\ Hls!Whole(client.media.last) \in Nat
          /\ Hls!Whole(server.last) \in Nat
      BY <1>2, WholeGrows DEF Typed, IsPlaylist
    <3> QED
      BY <3>1, <3>2
  <2>2. client.lastPart # 0 => Hls!SegmentOf(client.lastPart) <= server.last
    <3>1. client.lastPart # 0 => Hls!SegmentOf(client.lastPart) \in Nat
      BY <1>2, AfterFacts DEF Typed
    <3> QED
      BY <1>2, <3>1 DEF Typed, IsPlaylist
  <2>3. OneCopy(c)
    BY <1>2, <1>5, <1>6 DEF OneCopy
  <2> QED
    BY <1>2, <1>6, <1>8, <1>9, <2>1, <2>2, <2>3 DEF Typed
<1>11. ~late => Unsettled(c, got, begin)
  BY <1>2, <1>4, <1>5, <1>6, <1>7, <1>10, ReloadUnsettled DEF p
<1>12. /\ SameBut(c, d) /\ OneCopy(d) /\ Typed(d) /\ (~late => Settled(d, got, begin))
       /\ \A q \in d.inflight \ c.inflight : q.item \in Nat \ {0}
  BY <1>4, <1>10, <1>11, ScheduleSettles
<1> HIDE DEF d
<1>13. d.phase = "running" /\ d.known /\ d.media = server
  BY <1>6, <1>12 DEF SameBut
<1>14. client' = d /\ net' = (net \ {r}) \cup (d.inflight \ client.inflight)
  BY <1>1, <1>13, GoesOn
<1>15. NetOK(d, net', got)
  <2>1. \A q \in d.inflight \ client.inflight : q.item \in Nat \ {0}
    BY <1>5, <1>6, <1>12
  <2> QED
    BY <1>2, <1>3, <1>13, <1>14, <2>1, PiecesAsked
<1>16. ClientOK(d, server, got, begin, late)
  <2>1. begin <= server.first
    BY <1>2, <1>4 DEF Typed, IsPlaylist
  <2> QED
    BY <1>2, <1>4, <1>12, <1>13, <2>1 DEF ClientOK, IsPlaylist
<1> QED
  BY <1>1, <1>14, <1>15, <1>16 DEF HInv

\* What the client c schedules, once it is unsettled, with the playlists under way kept.
LEMMA ScheduledStep ==
  ASSUME HInv, Hls!Running, client.known, NEW c, Typed(c), OneCopy(c), c.phase = "running", c.known,
         c.media = client.media, c.inflight \subseteq client.inflight,
         Hls!Media \in Hls!Loading(client) => Hls!Media \in Hls!Loading(c),
         NEW done, Hls!Become(Hls!ScheduleDownloads(c), done),
         got' \subseteq Nat \ {0}, ~late' => Unsettled(c, got', begin), UNCHANGED <<server, begin>>
  PROVE  HInv'
<1> DEFINE d == Hls!ScheduleDownloads(c)
<1>1. /\ NetOK(client, net, got) /\ IsServer(server) /\ begin \in Nat \ {0}
      /\ client.media.first <= server.first /\ client.media.last <= server.last
      /\ ~client.media.ended => begin <= client.media.first
  BY DEF HInv, ClientOK
<1>2. /\ SameBut(c, d) /\ OneCopy(d) /\ Typed(d) /\ (~late' => Settled(d, got', begin))
      /\ c.inflight \subseteq d.inflight
      /\ \A q \in d.inflight \ c.inflight : q.item \in Nat \ {0}
  BY <1>1, ScheduleSettles
<1>3. Hls!Become(d, done)
  OBVIOUS
<1> HIDE DEF d
<1>4. d.phase = "running" /\ d.known /\ d.media = client.media
  BY <1>2 DEF SameBut
<1>5. client' = d /\ net' = (net \ done) \cup (d.inflight \ client.inflight)
  BY <1>3, <1>4, GoesOn
<1>6. NetOK(d, net', got')
  <2>1. ASSUME NEW q \in d.inflight \ client.inflight PROVE q.item \in Nat \ {0}
    <3>1. CASE q \in c.inflight
      BY <3>1
    <3>2. CASE q \notin c.inflight
      BY <1>2, <3>2
    <3> QED
      BY <3>1, <3>2
  <2>2. client.known /\ d.media = client.media /\ (Hls!Media \in Hls!Loading(client) => Hls!Media \in Hls!Loading(d))
    BY <1>2, <1>4 DEF Hls!Loading
  <2>3. net' \subseteq (net \ done) \cup (d.inflight \ client.inflight)
    BY <1>5
  <2>4. NetOK(client, net, got) /\ d.phase = "running" /\ d.known
    BY <1>1, <1>4
  <2>5. \A q \in d.inflight \ client.inflight : q.item \in Nat \ {0}
    BY <2>1
  <2> QED
    BY ONLY <2>2, <2>3, <2>4, <2>5, PiecesAsked
<1>7. ClientOK(d, server, got', begin, late')
  BY <1>1, <1>2, <1>4 DEF ClientOK
<1> QED
  BY <1>5, <1>6, <1>7 DEF HInv

\* A settled client may schedule at any time.
LEMMA SettledUnsettled ==
  ASSUME NEW c, Typed(c), NEW g, NEW b, Settled(c, g, b)
  PROVE  Unsettled(c, g, b)
<1>1. \A x \in Hls!Loading(c), p \in Nat : ~(c.next <= p /\ p < x)
  <2> SUFFICES ASSUME NEW x \in Hls!Loading(c), NEW p \in Nat, c.next <= p, p < x PROVE FALSE
    OBVIOUS
  <2>1. x \in Int /\ c.next \in Nat /\ x < c.next
    BY DEF Typed, Settled
  <2> QED
    BY <2>1
<1> QED
  BY <1>1 DEF Settled, Unsettled

LEMMA ResourceLoadedStep ==
  ASSUME HInv, Hls!Running, NEW r \in net, Hls!ResourceLoaded(r), UNCHANGED server
  PROVE  HInv'
<1>1. /\ NetOK(client, net, got) /\ Typed(client) /\ OneCopy(client) /\ begin \in Nat \ {0}
      /\ got \subseteq Nat \ {0} /\ client.phase = "running"
  BY DEF HInv, ClientOK, Hls!Running
<1>2. r.item \in Nat \ {0} /\ ~Playlist(r) /\ UNCHANGED begin
  BY PieceFacts DEF Hls!ResourceLoaded
<1>3. client.known
  BY <1>1, <1>2 DEF NetOK
<1>4. ~late => Settled(client, got, begin)
  BY <1>1, <1>3 DEF HInv, ClientOK
<1>5. CASE r \notin client.inflight
  <2>1. Hls!Become(Hls!ScheduleDownloads(client), {r}) /\ UNCHANGED <<got, late>>
    BY <1>5 DEF Hls!ResourceLoaded
  <2>2. ~late' => Unsettled(client, got', begin)
    BY <1>1, <1>4, <2>1, SettledUnsettled
  <2> QED
    BY <1>1, <1>2, <1>3, <2>1, <2>2, ScheduledStep
<1>6. CASE r \in client.inflight
  <2>1. PICK d : d = Hls!Done(client, r)
    OBVIOUS
  <2>2. PICK n : n = Hls!SegmentOf(r.item)
    OBVIOUS
  <2>3. Hls!Become(Hls!ScheduleDownloads(d), {r}) /\ Hls!Remember(r)
    BY <1>6, <2>1 DEF Hls!ResourceLoaded
  <2>4. Typed(d)
    BY <1>1, <1>2, <1>6, <2>1, DoneTyped
  <2>5. IsDone(client, r, d, n)
    BY <1>1, <1>2, <1>6, <2>1, <2>2, DoneFacts
  <2>6. /\ d.phase = "running" /\ d.known /\ d.media = client.media /\ OneCopy(d)
        /\ d.inflight \subseteq client.inflight /\ Hls!Loading(d) = Hls!Loading(client) \ {r.item}
    BY <1>1, <1>3, <2>5 DEF IsDone
  <2>7. Hls!Media \in Hls!Loading(client) => Hls!Media \in Hls!Loading(d)
    BY <1>2, <2>6 DEF Hls!Media
  <2>8. /\ got' = IF Hls!IsWhole(r.item) THEN got \cup {Hls!SegmentOf(r.item)} ELSE got
        /\ ~late' => ~late /\ InOrder(client, r)
    BY <2>3 DEF Hls!Remember, InOrder
  <2>9. got' \subseteq Nat \ {0}
    <3>1. Hls!SegmentOf(r.item) \in Nat \ {0}
      BY <1>2, SegmentFacts
    <3> QED
      BY <1>1, <2>8, <3>1
  <2>10. ASSUME ~late' PROVE Unsettled(d, got', begin)
    <3>1. Settled(client, got, begin) /\ InOrder(client, r)
      BY <1>4, <2>8, <2>10
    <3>2. CASE ~Heard(client, r)
      BY <1>1, <1>2, <1>6, <2>1, <2>8, <3>1, <3>2, UnheardUnsettled
    <3>3. CASE Heard(client, r) /\ Hls!IsWhole(r.item)
      <4>1. got' = got \cup {Hls!SegmentOf(r.item)}
        BY <2>8, <3>3
      <4> QED
        BY <1>1, <1>2, <1>6, <2>1, <3>1, <3>3, <4>1, WholeUnsettled
    <3>4. CASE Heard(client, r) /\ ~Hls!IsWhole(r.item)
      <4>1. got' = got
        BY <2>8, <3>4
      <4> QED
        BY <1>1, <1>2, <1>6, <2>1, <3>1, <3>4, <4>1, PartUnsettled
    <3> QED
      BY <3>2, <3>3, <3>4
  <2> QED
    BY <1>2, <1>3, <2>3, <2>4, <2>6, <2>7, <2>9, <2>10, ScheduledStep
<1> QED
  BY <1>5, <1>6

\* The client hears an answer that it does not wait for any more.
LEMMA Unheard ==
  ASSUME HInv, Hls!Running, NEW r \in net, Hls!Become(client, {r}), UNCHANGED <<server, begin, got, late>>
  PROVE  HInv'
<1>1. client' = client /\ net' = net \ {r}
  BY DEF Hls!Become, Hls!Running
<1>2. NetOK(client, net \ {r}, got)
  BY DEF HInv, NetOK
<1> QED
  BY <1>1, <1>2 DEF HInv

\* Another request for the same item, or the first one for a playlist.
LEMMA AskedStep ==
  ASSUME HInv, Hls!Running, NEW c, SameBut(client, c), c.next = client.next, OneCopy(c),
         c.inflight \subseteq client.inflight, NEW i, i \notin Hls!Loading(c),
         i \in Hls!Loading(client) \/ i = Hls!Media, Hls!Loading(client) = Hls!Loading(c) \cup (Hls!Loading(client) \cap {i}),
         NEW done, \A q \in net \ done : Playlist(q) => i \notin {Hls!Media, Hls!Master},
         client.known => i # Hls!Master,
         client.known /\ i = Hls!Media => ~client.media.ended,
         ~client.known => i \in {Hls!Media, Hls!Master},
         Hls!Become(Hls!Request(c, i), done), UNCHANGED <<server, begin, got, late>>
  PROVE  HInv'
<1> DEFINE d == Hls!Request(c, i)
           new == [epoch |-> Hls!Fresh, item |-> i]
<1>1. /\ NetOK(client, net, got) /\ Typed(client) /\ client.phase = "running"
      /\ ClientOK(client, server, got, begin, late)
  BY DEF HInv, ClientOK, Hls!Running
<1>2. /\ SameBut(c, d) /\ d.next = c.next /\ d.inflight = c.inflight \cup {new}
      /\ Hls!Loading(d) = Hls!Loading(c) \cup {i} /\ OneCopy(d)
  BY RequestFacts DEF SameBut
<1>3. Hls!Become(d, done)
  OBVIOUS
<1> HIDE DEF d
<1>4. /\ SameBut(client, d) /\ d.next = client.next /\ d.phase = "running"
  BY <1>1, <1>2 DEF SameBut
<1>5. client' = d /\ net' \subseteq (net \ done) \cup {new} /\ new.item = i
  BY <1>2, <1>3, <1>4, GoesOn
<1> HIDE DEF new
<1>6. Hls!Loading(client) \subseteq Hls!Loading(d) /\ Hls!Loading(d) \subseteq Hls!Loading(client) \cup {Hls!Media}
  BY <1>2
<1>7. Typed(d)
  <2>1. Hls!Media \in Int /\ Hls!Media <= Hls!Whole(client.media.last)
    BY <1>1, WholeFacts DEF Typed, IsPlaylist, Hls!Media
  <2> QED
    BY <1>1, <1>4, <1>6, <2>1 DEF Typed, SameBut
<1>8. NetOK(d, net', got)
  <2>1. \A q \in net' : q = new \/ q \in net \ done
    BY <1>5
  <2>2. d.phase = "running" /\ d.known = client.known /\ d.media = client.media
    BY <1>4 DEF SameBut
  <2>3. ASSUME ~d.known PROVE got = {} /\ \A q \in net' \cup d.inflight : Playlist(q)
    BY <1>1, <1>2, <1>5, <2>1, <2>2, <2>3 DEF NetOK, Playlist
  <2>4. ASSUME NEW q \in net', NEW s \in net', Playlist(q), Playlist(s) PROVE q = s
    BY <1>1, <1>5, <2>1, <2>4 DEF NetOK, Playlist
  <2>5. ASSUME d.known, NEW q \in net', Playlist(q)
        PROVE  q.item = Hls!Media /\ ~d.media.ended /\ Hls!Media \in Hls!Loading(d)
    <3>1. CASE q = new
      BY <1>2, <1>5, <2>2, <2>5, <3>1 DEF Playlist
    <3>2. CASE q \in net \ done
      BY <1>1, <1>6, <2>2, <2>5, <3>2 DEF NetOK
    <3> QED
      BY <2>1, <3>1, <3>2
  <2> QED
    BY <2>2, <2>3, <2>4, <2>5 DEF NetOK
<1>9. ASSUME d.known, ~late PROVE Settled(d, got, begin)
  <2>1. Settled(client, got, begin) /\ got \subseteq Nat \ {0} /\ begin \in Nat \ {0}
    BY <1>1, <1>4, <1>9 DEF ClientOK, SameBut
  <2>2. \A x \in Hls!Loading(d) : x \in Int
    BY <1>7 DEF Typed
  <2>3. \A x \in Nat \ {0} : x \in Hls!Loading(d) <=> x \in Hls!Loading(client)
    BY <1>6 DEF Hls!Media
  <2> QED
    BY <1>1, <1>4, <2>1, <2>2, <2>3, SettledByPieces
<1>10. ClientOK(d, server, got, begin, late)
  BY <1>1, <1>2, <1>4, <1>7, <1>9 DEF ClientOK, SameBut
<1> QED
  BY <1>5, <1>8, <1>10 DEF HInv

LEMMA RequestFailedStep ==
  ASSUME HInv, Hls!Running, NEW r \in net, Hls!RequestFailed(r), UNCHANGED server
  PROVE  HInv'
<1>1. UNCHANGED <<server, begin, got, late>>
  BY DEF Hls!RequestFailed
<1>2. CASE r \notin client.inflight
  BY <1>1, <1>2, Unheard DEF Hls!RequestFailed
<1>3. CASE r \in client.inflight /\ client.retries[Hls!Counter(r.item)] >= MaxRetries
  <2>1. Hls!Become(Hls!Stopped(client), {r})
    BY <1>3 DEF Hls!RequestFailed
  <2> QED
    BY <1>1, <2>1, StopStep
<1>4. CASE r \in client.inflight /\ ~(client.retries[Hls!Counter(r.item)] >= MaxRetries)
  <2> DEFINE c == [client EXCEPT !.inflight = @ \ {r}, !.retries[Hls!Counter(r.item)] = @ + 1]
  <2>1. Hls!Become(Hls!Request(c, r.item), {r})
    BY <1>4 DEF Hls!RequestFailed
  <2>2. IsClient(client) /\ OneCopy(client) /\ NetOK(client, net, got) /\ client.phase = "running"
    BY DEF HInv, ClientOK, Typed, Hls!Running
  <2>3. SameBut(client, c) /\ c.next = client.next /\ c.inflight = client.inflight \ {r}
    BY <2>2 DEF IsClient, SameBut
  <2> HIDE DEF c
  <2>4. r.item \in Hls!Loading(client) /\ Hls!Loading(c) = Hls!Loading(client) \ {r.item} /\ OneCopy(c)
    BY <1>4, <2>2, <2>3 DEF Hls!Loading, OneCopy
  <2>5. \A q \in net \ {r} : Playlist(q) => r.item \notin {Hls!Media, Hls!Master}
    BY <2>2 DEF NetOK, Playlist
  <2>6. /\ client.known /\ Playlist(r) => r.item = Hls!Media /\ ~client.media.ended
        /\ ~client.known => r.item \in {Hls!Media, Hls!Master}
    BY <2>2 DEF NetOK, Playlist
  <2>7. Hls!Loading(client) = Hls!Loading(c) \cup (Hls!Loading(client) \cap {r.item}) /\ r.item \notin Hls!Loading(c)
    BY <2>4
  <2>8. /\ client.known => r.item # Hls!Master
        /\ client.known /\ r.item = Hls!Media => ~client.media.ended
    BY <2>6 DEF Playlist, Hls!Media, Hls!Master
  <2> QED
    BY <1>1, <2>1, <2>3, <2>4, <2>5, <2>6, <2>7, <2>8, AskedStep
<1> QED
  BY <1>2, <1>3, <1>4

LEMMA ReloadStep ==
  ASSUME HInv, Hls!Reload
  PROVE  HInv'
<1>1. /\ Hls!Running /\ client.known /\ ~client.media.ended /\ Hls!Media \notin Hls!Loading(client)
      /\ Hls!Become(Hls!Request(client, Hls!Media), {}) /\ UNCHANGED <<server, begin, got, late>>
  BY DEF Hls!Reload
<1>2. SameBut(client, client) /\ OneCopy(client) /\ NetOK(client, net, got)
  BY DEF HInv, ClientOK, Typed, SameBut
<1>3. \A q \in net \ {} : Playlist(q) => Hls!Media \notin {Hls!Media, Hls!Master}
  BY <1>1, <1>2 DEF NetOK
<1>4. Hls!Media # Hls!Master
  BY DEF Hls!Media, Hls!Master
<1>5. Hls!Loading(client) = Hls!Loading(client) \cup (Hls!Loading(client) \cap {Hls!Media})
  OBVIOUS
<1> QED
  BY <1>1, <1>2, <1>3, <1>4, <1>5, AskedStep

LEMMA SeekStep ==
  ASSUME HInv, NEW n \in Hls!Segments, Hls!Seek(n)
  PROVE  HInv'
<1> DEFINE a == Hls!BumpEpoch(client)
           c == [a EXCEPT !.next = Hls!First(n), !.lastSegment = 0, !.lastPart = 0]
           d == Hls!ScheduleDownloads(c)
<1>1. /\ Hls!Running /\ client.known /\ client.media.ended /\ n \in client.media.first..client.media.last
      /\ Hls!Become(d, {}) /\ begin' = n /\ got' = {} /\ late' = FALSE /\ UNCHANGED server
  BY DEF Hls!Seek
<1>2. /\ NetOK(client, net, got) /\ Typed(client) /\ IsClient(client) /\ client.phase = "running"
      /\ IsServer(server) /\ client.media.first <= server.first /\ client.media.last <= server.last
  BY <1>1 DEF HInv, ClientOK, Typed, Hls!Running
<1>3. SameBut(client, a) /\ a.inflight = {} /\ Hls!Loading(a) = {}
  BY <1>2, BumpFacts
<1> HIDE DEF a
<1>4. /\ IsClient(c) /\ c.phase = "running" /\ c.known /\ c.media = client.media
      /\ c.next = Hls!First(n) /\ c.lastSegment = 0 /\ c.lastPart = 0 /\ c.inflight = {}
  BY <1>1, <1>2, <1>3 DEF IsClient, SameBut
<1> HIDE DEF c
<1>5. /\ n \in Nat \ {0} /\ client.media.first <= n /\ client.media.last \in Nat
      /\ Hls!First(n) \in Nat /\ Hls!First(n) >= 1 /\ Hls!First(n) <= Hls!First(client.media.last + 1)
  <2>1. /\ client.media.first \in Nat /\ client.media.first >= 1 /\ client.media.last \in Nat
    BY <1>2 DEF Typed, IsPlaylist
  <2>2. n \in Nat /\ n >= 1 /\ client.media.first <= n /\ n <= client.media.last + 1
        /\ client.media.last + 1 \in Nat
    BY <1>1, <2>1
  <2> QED
    BY <2>1, <2>2, FirstFacts, FirstRises
<1>6. Typed(c) /\ OneCopy(c) /\ Hls!Loading(c) = {}
  BY <1>2, <1>4, <1>5 DEF Typed, OneCopy, Hls!Loading
<1>7. Unsettled(c, {}, n)
  BY <1>4, <1>5, <1>6, StartUnsettled
<1>8. /\ SameBut(c, d) /\ OneCopy(d) /\ Typed(d) /\ Settled(d, {}, n)
      /\ \A q \in d.inflight \ {} : q.item \in Nat \ {0}
  BY <1>4, <1>5, <1>6, <1>7, ScheduleSettles
<1> HIDE DEF d
<1>9. d.phase = "running" /\ d.known /\ d.media = client.media
  BY <1>4, <1>8 DEF SameBut
<1>10. client' = d /\ net' = (net \ {}) \cup (d.inflight \ client.inflight)
  BY <1>1, <1>9, GoesOn
<1>11. \A q \in net \ {} : ~Playlist(q)
  BY <1>1, <1>2 DEF NetOK
<1>12. NetOK(d, net', {})
  BY <1>2, <1>8, <1>9, <1>10, <1>11, PiecesAsked
<1>13. ClientOK(d, server, {}, n, FALSE)
  BY <1>1, <1>2, <1>5, <1>8, <1>9 DEF ClientOK
<1> QED
  BY <1>1, <1>10, <1>12, <1>13 DEF HInv

\* The server's playlist moves forward.
LEMMA ServerStep ==
  ASSUME HInv, IsServer(server'), server.first <= server'.first, server.last <= server'.last,
         UNCHANGED <<client, net, begin, got, late>>
  PROVE  HInv'
<1>1. client.media.first <= server'.first /\ client.media.last <= server'.last
  BY DEF HInv, ClientOK, Typed, IsServer, IsPlaylist
<1> QED
  BY <1>1 DEF HInv, ClientOK

LEMMA PublishStep ==
  ASSUME HInv, Hls!Publish
  PROVE  HInv'
<1> DEFINE first == Hls!Max({server.first, server.last + 2 - Window})
<1>1. /\ server = [first |-> server.first, last |-> server.last, ended |-> server.ended]
      /\ server.first \in Nat /\ server.last \in Nat /\ server.first >= 1 /\ server.first <= server.last
  BY DEF HInv, ClientOK, IsServer, IsPlaylist
<1>2. /\ server' = [server EXCEPT !.last = @ + 1, !.first = first]
      /\ UNCHANGED <<client, net, begin, got, late>>
  BY DEF Hls!Publish
<1>3. first \in Nat /\ server.first <= first /\ first <= server.last + 1
  <2>1. server.first \in Int /\ server.last + 2 - Window \in Int /\ server.last + 2 - Window <= server.last + 1
    BY <1>1, HlsAssumption DEF Hls!HlsAssumption
  <2>2. first \in {server.first, server.last + 2 - Window} /\ server.first <= first
    BY <2>1, MaxOfTwo
  <2> HIDE DEF first
  <2> QED
    BY <1>1, <2>1, <2>2
<1> HIDE DEF first
<1>4. server'.first = first /\ server'.last = server.last + 1
      /\ server' = [first |-> server'.first, last |-> server'.last, ended |-> server'.ended]
  BY <1>1, <1>2
<1>5. IsServer(server')
  BY <1>1, <1>3, <1>4 DEF IsServer, IsPlaylist
<1> QED
  BY <1>1, <1>2, <1>3, <1>4, <1>5, ServerStep

LEMMA FinishStep ==
  ASSUME HInv, Hls!Finish
  PROVE  HInv'
<1>1. /\ server = [first |-> server.first, last |-> server.last, ended |-> server.ended]
      /\ server.first \in Nat /\ server.last \in Nat /\ server.first >= 1 /\ server.first <= server.last
  BY DEF HInv, ClientOK, IsServer, IsPlaylist
<1>2. server' = [server EXCEPT !.ended = TRUE] /\ UNCHANGED <<client, net, begin, got, late>>
  BY DEF Hls!Finish
<1>3. /\ server'.first = server.first /\ server'.last = server.last
      /\ server' = [first |-> server'.first, last |-> server'.last, ended |-> server'.ended]
  BY <1>1, <1>2
<1>4. IsServer(server')
  BY <1>1, <1>3 DEF IsServer, IsPlaylist
<1> QED
  BY <1>1, <1>2, <1>3, <1>4, ServerStep

-----------------------------------------------------------------------------
(* The theorem                                                             *)

LEMMA HInvInit == Hls!Init => HInv
<1> SUFFICES ASSUME Hls!Init PROVE HInv
  OBVIOUS
<1>1. /\ server.first \in Nat /\ server.last \in Nat /\ server.first >= 1 /\ server.first <= server.last
      /\ server = [first |-> server.first, last |-> server.last, ended |-> server.ended]
  BY HlsAssumption DEF Hls!HlsAssumption, Hls!Init
<1>2. IsServer(server) /\ IsPlaylist(server)
  BY <1>1 DEF IsServer, IsPlaylist
<1>3. /\ client.phase = "new" /\ ~client.known /\ client.media = server /\ client.next = 1
      /\ client.lastSegment = 0 /\ client.lastPart = 0 /\ client.inflight = {} /\ IsClient(client)
      /\ net = {} /\ begin = 1 /\ got = {}
  BY DEF Hls!Init, IsClient
<1>4. 1 <= Hls!First(server.last + 1)
  BY <1>1, WholeFacts
<1>5. Typed(client) /\ OneCopy(client)
  BY <1>1, <1>2, <1>3, <1>4 DEF Typed, OneCopy, Hls!Loading
<1>6. NetOK(client, net, got)
  BY <1>3 DEF NetOK
<1>7. ClientOK(client, server, got, begin, late)
  BY <1>1, <1>2, <1>3, <1>5 DEF ClientOK
<1> QED
  BY <1>6, <1>7 DEF HInv

LEMMA HInvNext == HInv /\ [Hls!Next]_(Hls!vars) => HInv'
<1> SUFFICES ASSUME HInv, [Hls!Next]_(Hls!vars) PROVE HInv'
  OBVIOUS
<1>1. CASE Hls!Start
  BY <1>1, StartStep
<1>2. CASE Hls!Reload
  BY <1>2, ReloadStep
<1>3. CASE Hls!Stop
  BY <1>3, StopStep DEF Hls!Stop
<1>4. CASE \E n \in Hls!Segments : Hls!Seek(n)
  BY <1>4, SeekStep
<1>5. ASSUME NEW r \in net, Hls!Answered(r) PROVE HInv'
  <2>1. Hls!Running /\ UNCHANGED server
    BY <1>5 DEF Hls!Answered
  <2>2. CASE Hls!RequestRefused(r)
    <3>1. CASE r \in client.inflight
      BY <2>1, <2>2, <3>1, StopStep DEF Hls!RequestRefused
    <3>2. CASE r \notin client.inflight
      BY <2>1, <2>2, <3>2, Unheard DEF Hls!RequestRefused
    <3> QED
      BY <3>1, <3>2
  <2>3. CASE Hls!RequestFailed(r)
    BY <2>1, <2>3, RequestFailedStep
  <2>4. CASE Hls!ResourceLoaded(r)
    BY <2>1, <2>4, ResourceLoadedStep
  <2>5. CASE Hls!PlaylistRefused(r)
    BY <2>1, <2>5, StopStep DEF Hls!PlaylistRefused
  <2>6. CASE Hls!MasterLoaded(r)
    BY <2>1, <2>6, MasterLoadedStep
  <2>7. CASE Hls!MediaFirstLoaded(r)
    BY <2>1, <2>7, MediaFirstLoadedStep
  <2>8. CASE Hls!MediaReloaded(r)
    BY <2>1, <2>8, MediaReloadedStep
  <2> QED
    BY <1>5, <2>2, <2>3, <2>4, <2>5, <2>6, <2>7, <2>8 DEF Hls!Answered
<1>6. ASSUME NEW r \in net, Hls!Dropped(r) PROVE HInv'
  <2>1. net' = net \ {r} /\ UNCHANGED <<client, server, begin, got, late>>
    BY <1>6 DEF Hls!Dropped
  <2>2. NetOK(client, net \ {r}, got)
    BY DEF HInv, NetOK
  <2> QED
    BY <2>1, <2>2 DEF HInv
<1>7. CASE Hls!Publish
  BY <1>7, PublishStep
<1>8. CASE Hls!Finish
  BY <1>8, FinishStep
<1>9. CASE UNCHANGED Hls!vars
  BY <1>9 DEF Hls!vars, HInv
<1> QED
  BY <1>1, <1>2, <1>3, <1>4, <1>5, <1>6, <1>7, <1>8, <1>9 DEF Hls!Next

LEMMA HInvImplies == HInv => SegmentsOnce
<1> SUFFICES ASSUME HInv PROVE SegmentsOnce
  OBVIOUS
<1>1. Hls!OneCopyInFlight
  BY DEF HInv, ClientOK, OneCopy, Hls!OneCopyInFlight
<1>2. ASSUME Hls!Running, client.known, ~late PROVE Passed(client, got, begin)
  BY <1>2 DEF HInv, ClientOK, Hls!Running, Settled
<1>3. Hls!NoSegmentLost
  <2> SUFFICES ASSUME Hls!Running, client.known, ~late, NEW n \in begin..client.media.last,
                      n >= client.media.first, Hls!Whole(n) < client.next
               PROVE  n \in got \/ Hls!Whole(n) \in Hls!Loading(client)
    BY DEF Hls!NoSegmentLost
  <2>1. begin \in Nat /\ client.media.last \in Nat /\ client.media.first \in Nat
    BY DEF HInv, ClientOK, Typed, IsPlaylist
  <2>2. n \in Nat /\ begin <= n /\ client.media.first <= n
    BY <2>1
  <2> QED
    BY <1>2, <2>2 DEF Passed
<1>4. Hls!DownloadedOnce
  <2> SUFFICES ASSUME ~late, NEW n \in got PROVE Hls!Whole(n) \notin Hls!Loading(client)
    BY DEF Hls!DownloadedOnce
  <2>1. CASE Hls!Running /\ client.known
    BY <1>2, <2>1 DEF Passed
  <2>2. CASE ~client.known
    BY <2>2 DEF HInv, NetOK
  <2>3. CASE ~Hls!Running
    BY <2>3 DEF HInv, NetOK, Hls!Running, Hls!Loading
  <2> QED
    BY <2>1, <2>2, <2>3
<1> QED
  BY <1>1, <1>3, <1>4 DEF SegmentsOnce, Hls!SegmentsOnce

\* Whatever the order of answers, failures, retries, reloads and a seek, for any
\* parts, window and number of segments: nothing is requested twice at a time, no
\* segment is passed over unless parts come late, and none is loaded again
\* (client.rs:400, 555).
THEOREM SegmentsCorrect == Hls!Spec => []SegmentsOnce
<1>1. Hls!Init => HInv
  BY HInvInit
<1>2. HInv /\ [Hls!Next]_(Hls!vars) => HInv'
  BY HInvNext
<1>3. HInv => SegmentsOnce
  BY HInvImplies
<1> QED
  BY <1>1, <1>2, <1>3, PTL DEF Hls!Spec
===============================================================================
