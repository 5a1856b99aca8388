------------------------------- MODULE HlsClient -------------------------------
(***************************************************************************)
(* The HLS client (crates/cheetah-hls-client, client.rs): it asks for      *)
(* playlists, segments and parts, and is told what became of each request. *)
(* The network (external) answers requests in any order.  It is told which *)
(* are cancelled, but an answer may be on its way.                         *)
(*                                                                         *)
(* A segment is its media sequence number, and segments follow each other  *)
(* without gaps.  The pieces of the stream are numbered in the order in    *)
(* which schedule_downloads() walks them: the parts of a segment, then the *)
(* segment itself; a position (next_segment_index, next_part_index) is the *)
(* number of the next piece.  Pieces have URIs of their own (playlists     *)
(* whose segments are byte ranges of one file are left out), and there is  *)
(* one variant.  An epoch is only ever compared with those of requests     *)
(* under way: it is a number that none of them has.                        *)
(*                                                                         *)
(* Left out: the reload interval (a tick that comes too early does         *)
(* nothing), blocking reloads and the contents of answers.                 *)
(***************************************************************************)
EXTENDS Integers, FiniteSetsExt

CONSTANTS Parts,         \* parts of a segment
          Independent,   \* pieces that are independent parts without a gap
          MaxRetries,    \* HlsConfig::max_retry_count
          Window,        \* segments in a live playlist
          MaxSegments, MaxSeeks, MaxRequests   \* bounds, for model checking

HlsAssumption ==
  /\ Parts \in Nat /\ MaxRetries \in Nat /\ Window \in Nat \ {0}
  /\ MaxSegments \in Nat \ {0} /\ MaxSeeks \in Nat /\ MaxRequests \in Nat \ {0}

VARIABLES
  direct,    \* fixed: the URL given to the client is a media playlist
  client,    \* the fields of HlsClient
  net,       \* external: requests the network has not answered
  server,    \* external: the media playlist
  begin,     \* ghost: the segment playback started from, or was sought to
  got,       \* ghost: segments loaded since
  late,      \* ghost: a part, or a segment, was loaded after a part behind it, or a
             \* part after its segment or one behind it
  seeks

vars == <<direct, client, net, server, begin, got, late, seeks>>

Segments == 1..MaxSegments
Pieces == 1..(MaxSegments * (Parts + 1))
Whole(n) == n * (Parts + 1)
First(n) == Whole(n - 1) + 1
SegmentOf(p) == (p + Parts) \div (Parts + 1)
IsWhole(p) == p % (Parts + 1) = 0

\* What can be asked for.
Media == 0
Master == -1
Items == Pieces \cup {Media, Master}
Requests == [epoch : 1..MaxRequests, item : Items]
Playlists == {p \in [first : Segments, last : Segments, ended : BOOLEAN] : p.first <= p.last}

TypeOK ==
  /\ direct \in BOOLEAN
  /\ client.phase \in {"new", "running", "stopped"} /\ client.known \in BOOLEAN
  /\ client.media \in Playlists
  /\ client.next \in 1..(Whole(MaxSegments) + 1)
  /\ client.lastSegment \in 0..MaxSegments /\ client.lastPart \in Pieces \cup {0}
  /\ client.inflight \subseteq Requests
  /\ client.retries \in [Items -> 0..MaxRetries]
  /\ net \subseteq Requests /\ server \in Playlists
  /\ begin \in Segments /\ got \subseteq Segments /\ late \in BOOLEAN /\ seeks \in 0..MaxSeeks

NoRetries == [i \in Items |-> 0]

\* HlsClient::new.
Init ==
  /\ direct \in BOOLEAN
  /\ server \in {[first |-> 1, last |-> MaxSegments, ended |-> TRUE],
                 [first |-> 1, last |-> 1, ended |-> FALSE]}
  /\ client = [phase |-> "new", known |-> FALSE, media |-> server, next |-> 1,
               lastSegment |-> 0, lastPart |-> 0, inflight |-> {}, retries |-> NoRetries]
  /\ net = {} /\ begin = 1 /\ got = {} /\ late = FALSE /\ seeks = 0

Running == client.phase = "running"
Loading(c) == {r.item : r \in c.inflight}

-----------------------------------------------------------------------------
(* Requests *)

Fresh == CHOOSE e \in 1..MaxRequests :
  /\ \A r \in net \cup client.inflight : r.epoch # e
  /\ \A d \in 1..(e - 1) : \E r \in net \cup client.inflight : r.epoch = d

Request(c, item) ==
  [c EXCEPT !.inflight = @ \cup {[epoch |-> Fresh, item |-> item]}]

\* bump_epoch(): everything under way is cancelled.
BumpEpoch(c) == [c EXCEPT !.inflight = {}, !.retries = NoRetries]

\* Mutant: what is loading already is asked for again.
ScheduleDownloadsAgain(c) ==
  LET wanted == {p \in c.next..Whole(c.media.last) : IsWhole(p) \/ p \in Independent}
  IN IF wanted = {} THEN [c EXCEPT !.next = First(c.media.last + 1)]
     ELSE Request([c EXCEPT !.next = Min(wanted) + 1], Min(wanted))

\* schedule_downloads(): the next piece that is wanted and not under way.
ScheduleDownloads(c) ==
  LET wanted == {p \in c.next..Whole(c.media.last) :
                   (IsWhole(p) \/ p \in Independent) /\ p \notin Loading(c)}
  IN IF wanted = {} THEN [c EXCEPT !.next = First(c.media.last + 1)]
     ELSE Request([c EXCEPT !.next = Min(wanted) + 1], Min(wanted))

\* The client becomes c, having heard the answers to done; what it asks for
\* now goes to the network.  A stopped client hears nothing.
Become(c, done) ==
  /\ client' = c
  /\ net' = IF c.phase = "stopped" THEN {}
            ELSE (net \ done) \cup (c.inflight \ client.inflight)
  /\ UNCHANGED direct

\* Stop, or stop_with_error().
Stopped(c) == [c EXCEPT !.phase = "stopped", !.inflight = {}]

\* Requests that are not answers to others leave room for one more.
Room == Cardinality(net \cup client.inflight) < MaxRequests - 1

Start ==
  /\ client.phase = "new"
  /\ Become(Request([client EXCEPT !.phase = "running"], Master), {})
  /\ UNCHANGED <<server, begin, got, late, seeks>>

-----------------------------------------------------------------------------
(* PlaylistLoaded *)

\* Mutant: the flag is_master is not compared.
RemovePlaylistAny(c, item) ==
  [c EXCEPT !.inflight = {r \in @ : r.item # Master}]

\* remove_inflight_playlist(): the request that this answers, by URL and
\* is_master, where the URL that was given to the client counts as a master's.
RemovePlaylist(c, item) ==
  LET isMaster == item = Master \/ direct
  IN [c EXCEPT !.inflight = {r \in @ : r.item # IF isMaster THEN Master ELSE Media}]

MasterLoaded(r) ==
  /\ r.item = Master /\ ~direct
  /\ Become(Request(BumpEpoch(RemovePlaylist(client, Master)), Media), {r})
  /\ UNCHANGED <<begin, got, late>>

\* resume_position(): behind the last part, or the last segment.
ResumePosition(c, media) ==
  IF c.lastPart # 0 /\ SegmentOf(c.lastPart) \in media.first..media.last
  THEN c.lastPart + IF IsWhole(c.lastPart + 1) THEN 2 ELSE 1
  ELSE IF c.lastSegment # 0
  THEN First(Max({media.first, c.lastSegment + 1}))
  ELSE First(media.first)

MediaFirstLoaded(r) ==
  /\ r.item = Media \/ (direct /\ r.item = Master)
  /\ ~client.known
  /\ LET c == [RemovePlaylist(client, r.item) EXCEPT
                 !.known = TRUE, !.media = server, !.next = First(server.first),
                 !.lastSegment = 0, !.lastPart = 0]
     IN Become(ScheduleDownloads(BumpEpoch(c)), {r})
  /\ begin' = server.first /\ got' = {} /\ late' = FALSE

MediaReloaded(r) ==
  /\ r.item = Media \/ (direct /\ r.item = Master)
  /\ client.known
  /\ LET c == [RemovePlaylist(client, r.item) EXCEPT
                 !.media = server, !.next = ResumePosition(client, server)]
     IN Become(ScheduleDownloads(c), {r})
  /\ UNCHANGED <<begin, got, late>>

\* Not a playlist, or none of its variants will do.
PlaylistRefused(r) ==
  /\ r.item \in {Master, Media}
  /\ Become(Stopped(client), {r})
  /\ UNCHANGED <<begin, got, late>>

-----------------------------------------------------------------------------
(* ResourceLoaded and RequestFailed *)

\* Mutant: the last segment is the one that came last.
SegmentDoneAnyOrder(c, n) ==
  IF n \notin c.media.first..c.media.last THEN c
  ELSE [c EXCEPT !.lastSegment = n, !.lastPart = 0,
                 !.next = IF SegmentOf(@) = n THEN First(n + 1) ELSE @]

SegmentDone(c, n) ==
  IF n \notin c.media.first..c.media.last THEN c
  ELSE [c EXCEPT !.lastSegment = Max({@, n}), !.lastPart = 0,
                 !.next = IF SegmentOf(@) = n THEN First(n + 1) ELSE @]

PartDone(c, p) ==
  IF SegmentOf(p) \notin c.media.first..c.media.last THEN c
  ELSE [c EXCEPT !.lastPart = p,
                 !.next = IF SegmentOf(@) = SegmentOf(p) /\ p >= @ THEN p + 1 ELSE @]

Done(c, r) ==
  LET rest == [c EXCEPT !.inflight = @ \ {r}, !.retries[r.item] = 0]
  IN IF IsWhole(r.item) THEN SegmentDone(rest, SegmentOf(r.item)) ELSE PartDone(rest, r.item)

\* The ghosts, when r is loaded.
Remember(r) ==
  /\ got' = IF IsWhole(r.item) THEN got \cup {SegmentOf(r.item)} ELSE got
  /\ late' = (late \/ client.lastPart > r.item
                  \/ (~IsWhole(r.item) /\ client.lastSegment >= SegmentOf(r.item)))

\* Mutant: nothing is scheduled after a part.
ResourceLoadedIdle(r) ==
  /\ r.item \in Pieces
  /\ IF r \in client.inflight
     THEN /\ Become(IF IsWhole(r.item) THEN ScheduleDownloads(Done(client, r))
                    ELSE Done(client, r), {r})
          /\ Remember(r)
     ELSE Become(ScheduleDownloads(client), {r}) /\ UNCHANGED <<got, late>>
  /\ UNCHANGED begin

\* on_resource_loaded(): also the answer to a cancelled request schedules.
ResourceLoaded(r) ==
  /\ r.item \in Pieces
  /\ IF r \in client.inflight
     THEN Become(ScheduleDownloads(Done(client, r)), {r}) /\ Remember(r)
     ELSE Become(ScheduleDownloads(client), {r}) /\ UNCHANGED <<got, late>>
  /\ UNCHANGED begin

\* Retries are counted per URI; the one URL of a direct playlist is Media's.
Counter(item) == IF direct /\ item = Master THEN Media ELSE item

\* Mutant: a failed request is not repeated.
RequestFailedForgotten(r) ==
  /\ IF r \notin client.inflight THEN Become(client, {r})
     ELSE Become([client EXCEPT !.inflight = @ \ {r}], {r})
  /\ UNCHANGED <<begin, got, late>>

\* on_request_failed(), for a failure that may be retried.
RequestFailed(r) ==
  /\ IF r \notin client.inflight THEN Become(client, {r})
     ELSE IF client.retries[Counter(r.item)] >= MaxRetries THEN Become(Stopped(client), {r})
     ELSE LET c == [client EXCEPT !.inflight = @ \ {r}, !.retries[Counter(r.item)] = @ + 1]
          IN Become(Request(c, r.item), {r})
  /\ UNCHANGED <<begin, got, late>>

RequestRefused(r) ==
  /\ Become(IF r \in client.inflight THEN Stopped(client) ELSE client, {r})
  /\ UNCHANGED <<begin, got, late>>

-----------------------------------------------------------------------------
(* Tick, Seek and Stop *)

\* A tick that is due, unless a reload is under way.
Reload ==
  /\ Running /\ client.known /\ ~client.media.ended
  /\ Media \notin Loading(client) /\ Room
  /\ Become(Request(client, Media), {})
  /\ UNCHANGED <<server, begin, got, late, seeks>>

Seek(n) ==
  /\ Running /\ client.known /\ client.media.ended
  /\ n \in client.media.first..client.media.last
  /\ seeks < MaxSeeks /\ Room
  /\ LET c == [BumpEpoch(client) EXCEPT !.next = First(n), !.lastSegment = 0, !.lastPart = 0]
     IN Become(ScheduleDownloads(c), {})
  /\ begin' = n /\ got' = {} /\ late' = FALSE /\ seeks' = seeks + 1
  /\ UNCHANGED server

\* Stop; or a seek out of range, in a live playlist or before there is one.
Stop ==
  /\ Running
  /\ Become(Stopped(client), {})
  /\ UNCHANGED <<server, begin, got, late, seeks>>

-----------------------------------------------------------------------------
(* The network and the server (external) *)

Answered(r) ==
  /\ Running
  /\ \/ RequestRefused(r) \/ RequestFailed(r) \/ ResourceLoaded(r)
     \/ PlaylistRefused(r) \/ MasterLoaded(r) \/ MediaFirstLoaded(r) \/ MediaReloaded(r)
  /\ UNCHANGED <<server, seeks>>

\* A cancelled request is dropped without an answer.
Dropped(r) ==
  /\ r \notin client.inflight
  /\ net' = net \ {r}
  /\ UNCHANGED <<direct, client, server, begin, got, late, seeks>>

\* A live stream goes on, or ends.
Publish ==
  /\ client.phase # "stopped" /\ ~server.ended /\ server.last < MaxSegments
  /\ server' = [server EXCEPT !.last = @ + 1, !.first = Max({@, server.last + 2 - Window})]
  /\ UNCHANGED <<direct, client, net, begin, got, late, seeks>>

Finish ==
  /\ client.phase # "stopped" /\ ~server.ended
  /\ server' = [server EXCEPT !.ended = TRUE]
  /\ UNCHANGED <<direct, client, net, begin, got, late, seeks>>

Next ==
  \/ Start \/ Reload \/ Stop
  \/ \E n \in Segments : Seek(n)
  \/ \E r \in net : Answered(r) \/ Dropped(r)
  \/ Publish \/ Finish

\* The network answers, be it that one request is overtaken by others; and ticks
\* go on.
Fairness ==
  /\ WF_vars(\E r \in net : r.item \in Pieces /\ (Dropped(r) \/ Answered(r)))
  /\ WF_vars(\E r \in net : r.item \notin Pieces /\ (Dropped(r) \/ Answered(r)))
  /\ WF_vars(Reload)

Spec == Init /\ [][Next]_vars /\ Fairness

-----------------------------------------------------------------------------
(* Properties *)

\* No piece and no playlist is requested twice at the same time (client.rs:450).
OneCopyInFlight ==
  \A r, s \in client.inflight : r.item = s.item => r = s

\* Whatever the order of answers, failures, reloads and a seek: a segment of the
\* playlist that the position has passed since playback started, or was sought, is
\* loaded or under way (client.rs:555).  That is so unless parts come out of order:
\* a reload then resumes behind the last part of a segment, and the segment itself
\* is skipped.
NoSegmentLost ==
  Running /\ client.known /\ ~late =>
    \A n \in begin..client.media.last :
      n >= client.media.first /\ Whole(n) < client.next
        => n \in got \/ Whole(n) \in Loading(client)

\* Segments may be loaded in any order: a reload does not make the client request
\* one again that was loaded.  That is so unless parts come out of order, which
\* takes the position back behind segments under way (client.rs:255, 266).
DownloadedOnce ==
  ~late => \A n \in got : Whole(n) \notin Loading(client)

\* Nothing is requested twice at the same time, no segment is passed over, and none
\* that was loaded is loaded again (client.rs:400).
SegmentsOnce == OneCopyInFlight /\ NoSegmentLost /\ DownloadedOnce

\* Every segment of the playlist is loaded in the end, unless the client stops, is
\* sought behind it, it leaves the playlist first, or parts come out of order.
SegmentsArrive ==
  \A n \in Segments :
    (Running /\ client.known /\ n \in begin..client.media.last /\ n >= client.media.first)
      ~> (n \in got \/ ~Running \/ n < begin \/ n < client.media.first \/ late)

\* client.rs:60 "Drive the live reload clock forward.": while ticks come, a live
\* playlist is loaded again and again.
LiveReloads ==
  (Running /\ client.known /\ ~client.media.ended) ~> (~Running \/ \E r \in net : r.item = Media)

\* The same for a client that was given a master playlist.
ReloadsGoOn ==
  (Running /\ client.known /\ ~client.media.ended /\ ~direct)
    ~> (~Running \/ \E r \in net : r.item = Media)
=============================================================================
