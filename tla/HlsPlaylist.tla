------------------------------ MODULE HlsPlaylist ------------------------------
(***************************************************************************)
(* What the HLS client reads: playlists (cheetah-hls-client, parser.rs and *)
(* model.rs) and the choice of a variant (variant.rs), of a live stream    *)
(* that an origin server (external) describes anew as its window slides.   *)
(*                                                                         *)
(* A playlist is a sequence of lines, a line a tag with a value that may   *)
(* be malformed, or a URI.  A URI is a sequence of tokens.  An optional    *)
(* value is a sequence of at most one element.                             *)
(***************************************************************************)
EXTENDS Integers, Sequences, FiniteSets, SequencesExt

CONSTANTS Bases,        \* URLs the playlist may come from
          Forms,        \* how the server writes URIs: "file", "path", "url"
          Variants,     \* master playlists: sequences of variants
          Capabilities, \* VariantCapabilities
          KeyOf, MapOf, \* of each segment of the stream
          Marks,        \* for each segment, the tags that are its alone
          PartsOf,      \* and its number of parts
          MaxListed,    \* MAX_SEGMENTS
          Window        \* segments that the server lists, at most

VARIABLES
  page,    \* the URL of the playlist, the variant chosen, and what was answered
  server   \* the segments listed, those left out, the parts of the next one

vars == <<page, server>>

Failed == <<>>
Segments == DOMAIN KeyOf

-----------------------------------------------------------------------------
(* URLs: resolve_url() *)

Cut(url, tokens) ==   \* what precedes the first of the tokens
  LET at == SelectInSeq(url, LAMBDA x : x \in tokens)
  IN IF at = 0 THEN url ELSE SubSeq(url, 1, at - 1)

\* A path from the root: scheme and authority of the base.
FromRoot(base, uri) ==
  LET scheme == SelectInSeq(base, LAMBDA x : x = "://")
  IN IF scheme = 0 THEN uri
     ELSE SubSeq(base, 1, scheme) \o Cut(SubSeq(base, scheme + 1, Len(base)), {"/", "?", "#"}) \o uri

\* Mutant: the query of the base may hold the last slash.
FromLastSlash(base, uri) ==
  LET slash == SelectLastInSeq(base, LAMBDA x : x \in {"/", "://"})
  IN IF slash = 0 THEN base \o uri
     ELSE IF base[slash] = "://" THEN base \o <<"/">> \o uri
     ELSE SubSeq(base, 1, slash) \o uri

\* A path from the directory of the base; the last slash may be that of "://".
FromDirectory(base, uri) ==
  LET path == Cut(base, {"?", "#"})
      slash == SelectLastInSeq(path, LAMBDA x : x \in {"/", "://"})
  IN IF slash = 0 THEN path \o uri
     ELSE IF path[slash] = "://" THEN path \o <<"/">> \o uri
     ELSE SubSeq(path, 1, slash) \o uri

ResolveUrl(base, uri) ==
  IF "://" \in Range(uri) THEN uri
  ELSE IF uri[1] = "/" THEN FromRoot(base, uri)
  ELSE FromDirectory(base, uri)

-----------------------------------------------------------------------------
(* parse_media() *)

\* Tags with a value, and the fields that it becomes; of the playlist, and of the
\* segment that the next URI ends.
PlaylistField ==
  [TARGETDURATION |-> "target", SEQUENCE |-> "sequence", SERVERCONTROL |-> "control",
   PARTINF |-> "partTarget", HINT |-> "hint", ENDLIST |-> "ended", SKIP |-> "skip"]
SegmentField ==
  [EXTINF |-> "duration", DISCONTINUITY |-> "discontinuity", BYTERANGE |-> "range",
   MAP |-> "map", KEY |-> "key", DATE |-> "date"]
Resolved(line, base) ==
  IF line.tag \in {"MAP", "HINT", "PART", "URI"} THEN ResolveUrl(base, line.value) ELSE line.value

NewSegment ==
  [duration |-> <<>>, discontinuity |-> <<>>, range |-> <<>>, map |-> <<>>, key |-> <<>>,
   date |-> <<>>, gaps |-> 0, parts |-> <<>>, uri |-> <<>>, sequence |-> 0]
NewPlaylist ==
  [target |-> <<>>, sequence |-> <<0>>, control |-> <<>>, partTarget |-> <<>>, hint |-> <<>>,
   ended |-> <<>>, skip |-> <<>>, segments |-> <<>>]

\* Mutant: a key holds for one segment.
EndSegmentKeyless(p, uri) ==
  [p EXCEPT !.list.segments = Append(@, [p.segment EXCEPT !.uri = uri, !.sequence = p.next]),
            !.segment = [NewSegment EXCEPT !.map = p.segment.map],
            !.next = @ + 1,
            !.failed = Len(p.list.segments) >= MaxListed]

\* A URI ends a segment; map and key stay for the next one.
EndSegment(p, uri) ==
  [p EXCEPT !.list.segments = Append(@, [p.segment EXCEPT !.uri = uri, !.sequence = p.next]),
            !.segment = [NewSegment EXCEPT !.map = p.segment.map, !.key = p.segment.key],
            !.next = @ + 1,
            !.failed = Len(p.list.segments) >= MaxListed]

\* One line; x is its value, with URIs resolved.  The rest of a playlist that failed
\* is not read, and tags that are not known are passed over.
ParseLine(p, line, x) ==
  CASE p.failed \/ ~line.ok -> [p EXCEPT !.failed = TRUE]
    [] ~p.failed /\ line.ok /\ line.tag \in DOMAIN PlaylistField ->
         [p EXCEPT !.list[PlaylistField[line.tag]] = <<x>>,
                   !.next = IF line.tag = "SEQUENCE" THEN x ELSE IF line.tag = "SKIP" THEN @ + x ELSE @]
    [] ~p.failed /\ line.ok /\ line.tag \in DOMAIN SegmentField ->
         [p EXCEPT !.segment[SegmentField[line.tag]] = <<x>>]
    [] ~p.failed /\ line.ok /\ line.tag = "GAP" -> [p EXCEPT !.segment.gaps = @ + 1]
    [] ~p.failed /\ line.ok /\ line.tag = "PART" -> [p EXCEPT !.segment.parts = Append(@, x)]
    [] ~p.failed /\ line.ok /\ line.tag = "URI" -> EndSegment(p, x)
    [] OTHER -> p

\* parse(): a playlist is a master's if it has a variant, and cannot be both.
IsMaster(lines) == \E i \in DOMAIN lines : lines[i].tag = "STREAMINF"
IsMedia(lines) == \E i \in DOMAIN lines : lines[i].tag \in {"EXTINF", "TARGETDURATION"}

ParseMedia(lines, base) ==
  LET p == FoldLeft(LAMBDA acc, line : ParseLine(acc, line, Resolved(line, base)),
                    [list |-> NewPlaylist, segment |-> NewSegment, next |-> 0, failed |-> FALSE], lines)
  IN IF p.failed \/ IsMaster(lines) \/ (p.list.target = <<>> /\ p.list.segments # <<>>) THEN Failed
     ELSE <<p.list>>

\* parse_master(): a variant is whole when its URI comes.
ParseMaster(lines, base) ==
  LET Parse(p, line) ==
        IF line.tag = "STREAMINF" THEN [p EXCEPT !.pending = <<line.value>>, !.failed = @ \/ ~line.ok]
        ELSE IF line.tag = "URI" /\ p.pending # <<>>
        THEN [p EXCEPT !.pending = <<>>,
                       !.variants = Append(@, [variant |-> p.pending[1], uri |-> ResolveUrl(base, line.value)])]
        ELSE p
      all == FoldLeft(Parse, [pending |-> <<>>, variants |-> <<>>, failed |-> FALSE], lines)
  IN IF all.failed \/ IsMedia(lines) \/ all.variants = <<>> THEN Failed ELSE <<all.variants>>

-----------------------------------------------------------------------------
(* select_initial_variant() *)

CodecCompatible(v, caps) == caps.codecs = {} \/ (v.codecs # {} /\ caps.codecs \subseteq v.codecs)
Under(value, max) == max = <<>> \/ value <= max[1]
WithinLimits(v, caps) ==
  /\ caps.min = <<>> \/ v.bandwidth >= caps.min[1]
  /\ Under(v.bandwidth, caps.max)
  /\ v.height = <<>> \/ Under(v.height[1], caps.height)

Bandwidth(v) == IF v.average = <<>> THEN v.bandwidth ELSE v.average[1]

\* Mutant: the higher bandwidth is always the better one.
LessByRate(a, b, caps) == Bandwidth(a) < Bandwidth(b)

\* The order of the sort: those that fit are better than those that do not, and among
\* those that do not the lower is.
Less(a, b, caps) ==
  LET fits(v) == Under(Bandwidth(v), caps.max)
  IN CASE fits(a) /\ ~fits(b) -> FALSE
       [] ~fits(a) /\ fits(b) -> TRUE
       [] fits(a) /\ fits(b) -> Bandwidth(a) < Bandwidth(b)
       [] OTHER -> Bandwidth(b) < Bandwidth(a)

\* Indices of the candidates: limits are given up before codecs are.
Candidates(vs, caps) ==
  LET decodable == {i \in DOMAIN vs : CodecCompatible(vs[i], caps)}
      within == {i \in decodable : WithinLimits(vs[i], caps)}
  IN IF within # {} THEN within ELSE decodable

\* The last of the best, or 0.
Select(vs, caps) ==
  LET best == {i \in Candidates(vs, caps) : \A j \in Candidates(vs, caps) :
                 ~Less(vs[i], vs[j], caps) /\ (j > i => Less(vs[j], vs[i], caps))}
  IN IF best = {} THEN 0 ELSE CHOOSE i \in best : TRUE

-----------------------------------------------------------------------------
(* The origin server *)

Line(tag, value) == [tag |-> tag, value |-> value, ok |-> TRUE]

\* The URL of a file, and a reference to it from a playlist at base.
Directory(base) ==
  LET path == Cut(base, {"?", "#"})
      slash == SelectLastInSeq(path, LAMBDA x : x = "/")
  IN IF slash = 0 THEN path \o <<"/">> ELSE SubSeq(path, 1, slash)
Url(base, file) == Directory(base) \o file
Reference(base, file, form) ==
  CASE form = "file" -> file
    [] form = "path" -> LET url == Url(base, file) IN SubSeq(url, 4, Len(url))   \* after http :// host
    [] form = "url" -> Url(base, file)

File(kind, n) == <<kind, ToString(n)>>
PartFile(n, i) == <<"part", ToString(n), ToString(i)>>

\* The lines of segment n, in a list of which it is the first or not.
SegmentLines(n, first, base, form) ==
  (IF KeyOf[n] # 0 /\ (first \/ KeyOf[n] # KeyOf[n - 1]) THEN <<Line("KEY", KeyOf[n])>> ELSE <<>>)
  \o (IF MapOf[n] # 0 /\ (first \/ MapOf[n] # MapOf[n - 1])
      THEN <<Line("MAP", Reference(base, File("map", MapOf[n]), form))>> ELSE <<>>)
  \o [i \in DOMAIN Marks[n] |-> Line(Marks[n][i], n)]
  \o [i \in 1..PartsOf[n] |-> Line("PART", Reference(base, PartFile(n, i), form))]
  \o <<Line("EXTINF", n), Line("URI", Reference(base, File("segment", n), form))>>

MediaLines(s, base, form) ==
  <<Line("TARGETDURATION", 1), Line("SEQUENCE", s.first)>>
  \o (IF s.skipped > 0 THEN <<Line("SKIP", s.skipped)>> ELSE <<>>)
  \o FlattenSeq([i \in 1..(s.last - s.first - s.skipped + 1) |->
                   LET n == s.first + s.skipped + i - 1
                   IN SegmentLines(n, s.skipped = 0 /\ i = 1, base, form)])
  \o [i \in 1..s.parts |-> Line("PART", Reference(base, PartFile(s.last + 1, i), form))]
  \o (IF s.ended THEN <<Line("ENDLIST", TRUE)>> ELSE <<Line("HINT", Reference(base, File("next", 0), form))>>)

MasterLines(vs, base, form) ==
  FlattenSeq([i \in DOMAIN vs |->
    <<Line("STREAMINF", vs[i]), Line("URI", Reference(base, File("variant", i), form))>>])

Init ==
  /\ \E base \in Bases, form \in Forms, vs \in Variants, caps \in Capabilities :
       page = [base |-> base, form |-> form, variants |-> vs, caps |-> caps, chosen |-> 0,
               list |-> Failed, error |-> FALSE, arrived |-> "nothing"]
  /\ server = [first |-> 1, last |-> 1, skipped |-> 0, parts |-> 0, ended |-> FALSE]

\* The master playlist, and the variant that plays.
ReadMaster ==
  /\ page.chosen = 0 /\ ~page.error
  /\ LET variants == ParseMaster(MasterLines(page.variants, page.base, page.form), page.base)
         chosen == IF variants = Failed THEN 0
                   ELSE Select([i \in DOMAIN variants[1] |-> variants[1][i].variant], page.caps)
     IN page' = IF chosen = 0 THEN [page EXCEPT !.error = TRUE]
                ELSE [page EXCEPT !.chosen = chosen, !.base = variants[1][chosen].uri]
  /\ UNCHANGED server

\* The window slides, its beginning is left out, parts of the next segment come.
Publish ==
  /\ page.chosen # 0 /\ ~server.ended
  /\ \E first \in server.first..(server.first + 1), last \in server.last..(server.last + 1) :
     \E skipped \in 0..1, parts \in 0..1, ended \in BOOLEAN :
       /\ last \in Segments /\ last - first < Window /\ first <= last
       /\ skipped <= last - first
       /\ parts > 0 => last + 1 \in Segments /\ ~ended
       /\ server' = [first |-> first, last |-> last, skipped |-> skipped, parts |-> parts, ended |-> ended]
  /\ page' = [page EXCEPT !.list = Failed, !.error = FALSE, !.arrived = "nothing"]

\* The playlist arrives whole, up to some line, with a value spoilt, or as what is no
\* media playlist.  (A spoilt tag without a value is an unknown one.)
Answer(lines, arrived) ==
  LET list == ParseMedia(lines, page.base)
  IN page' = [page EXCEPT !.list = list, !.error = (list = Failed), !.arrived = arrived]
Strict(line) == line.tag \notin {"URI", "DATE", "DISCONTINUITY", "GAP", "ENDLIST"}
Reload ==
  /\ page.chosen # 0 /\ page.arrived = "nothing"
  /\ LET lines == MediaLines(server, page.base, page.form)
     IN \/ Answer(lines, "whole")
        \/ \E n \in 0..(Len(lines) - 1) : Answer(SubSeq(lines, 1, n), "part")
        \/ \E n \in DOMAIN lines : Strict(lines[n]) /\ Answer([lines EXCEPT ![n].ok = FALSE], "spoilt")
        \/ Answer(lines \o MasterLines(page.variants, page.base, page.form), "spoilt")
  /\ UNCHANGED server

Next == ReadMaster \/ Publish \/ Reload
Spec == Init /\ [][Next]_vars

-----------------------------------------------------------------------------
(* Properties *)

TypeOK ==
  /\ page.chosen \in 0..Len(page.variants) /\ page.error \in BOOLEAN
  /\ Len(page.list) <= 1 /\ server.last \in Segments

\* What segment n has of keys or maps, told for the first time or anew by the lines
\* that are there: what was told in those left out is not known.
Known(of, n) ==
  IF of[n] = 0 THEN <<>>
  ELSE IF server.skipped = 0
          \/ \E m \in (server.first + server.skipped)..n : m > 1 /\ of[m] # of[m - 1]
       THEN <<of[n]>>
  ELSE <<>>
Has(n, mark) == SelectSeq(Marks[n], LAMBDA m : m = mark) # <<>>
Told(n, mark) == IF Has(n, mark) THEN <<n>> ELSE <<>>

\* Segment n as the server means it.
Meant(n) ==
  [duration |-> <<n>>, discontinuity |-> Told(n, "DISCONTINUITY"), range |-> Told(n, "BYTERANGE"),
   map |-> [i \in DOMAIN Known(MapOf, n) |-> Url(page.base, File("map", Known(MapOf, n)[i]))],
   key |-> Known(KeyOf, n), date |-> Told(n, "DATE"), gaps |-> IF Has(n, "GAP") THEN 1 ELSE 0,
   parts |-> [i \in 1..PartsOf[n] |-> Url(page.base, PartFile(n, i))],
   uri |-> Url(page.base, File("segment", n)), sequence |-> n]

\* However the window slides, whatever is left out and however URIs are written, a
\* playlist that was read has the server's segments under their numbers, with the keys
\* and maps that hold for them and nothing of a neighbour; one that was cut has the
\* first of them; one with a spoilt value, or too long, is refused.
MediaAsMeant ==
  LET from == server.first + server.skipped
      all == server.last - from + 1
  IN /\ page.arrived = "whole" /\ all <= MaxListed =>
          /\ ~page.error /\ Len(page.list[1].segments) = all
          /\ page.list[1].ended = (IF server.ended THEN <<TRUE>> ELSE <<>>)
     /\ page.arrived = "spoilt" \/ (page.arrived = "whole" /\ all > MaxListed) => page.error
     /\ page.list # Failed =>
          \A i \in DOMAIN page.list[1].segments : page.list[1].segments[i] = Meant(from + i - 1)

\* The variant that plays can be decoded.  It is within the limits, and has the highest
\* bandwidth of those that are, if there is one; if not, it is within the limit of
\* bandwidth if any is.  Nothing plays only if nothing can be decoded.
VariantFits ==
  LET decodable == {v \in Range(page.variants) : CodecCompatible(v, page.caps)}
      within == {v \in decodable : WithinLimits(v, page.caps)}
      affordable == {v \in decodable : Under(Bandwidth(v), page.caps.max)}
  IN /\ page.chosen # 0 =>
          LET v == page.variants[page.chosen]
          IN /\ v \in decodable
             /\ within # {} => v \in within /\ \A w \in within : Bandwidth(w) <= Bandwidth(v)
             /\ affordable # {} => v \in affordable
     /\ page.error /\ page.chosen = 0 => decodable = {}

PlaylistSafe == TypeOK /\ MediaAsMeant /\ VariantFits
=============================================================================
