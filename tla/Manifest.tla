------------------------------ MODULE Manifest ------------------------------
(***************************************************************************)
(* internal/manifest: the text of an HLS media playlist, as the sequence of  *)
(* its lines.  A line is the tag it is recognised by and its value: a        *)
(* number, Bare if it has none, or Garbage if it is not a number; the tag of *)
(* a segment is "URI".                                                       *)
(***************************************************************************)
EXTENDS Integers, Sequences, SequencesExt

Bare == -1
Garbage == -2

Line(tag, value) == [tag |-> tag, value |-> value]
Tag(tag) == Line(tag, Bare)

Segment(uri, dur, disc, out, cue, in) ==
  [uri |-> uri, dur |-> dur, disc |-> disc, out |-> out, cue |-> cue, in |-> in]

EmptyPlaylist ==
  [version |-> 3, target |-> 0, sequence |-> 0, type |-> "", endList |-> FALSE,
   segments |-> <<>>]

(* Parse: what has been announced for the next segment (pending) goes to it  *)
(* and is forgotten; a CUE-OUT counts even if its duration is garbled, any   *)
(* other number must be one.  Unknown tags and CUE-OUT-CONT are ignored.     *)
NothingPending == [dur |-> Garbage, disc |-> FALSE, out |-> FALSE, cue |-> 0, in |-> FALSE]

Numeric == [VERSION |-> "version", TARGETDURATION |-> "target", MEDIASEQUENCE |-> "sequence"]

CuedOut(pending, value) ==
  [pending EXCEPT !.out = TRUE, !.cue = IF value < 0 THEN pending.cue ELSE value]

ParseTag(scan, line) ==
  CASE line.tag \in DOMAIN Numeric ->
         IF line.value = Garbage THEN [scan EXCEPT !.error = TRUE]
         ELSE [scan EXCEPT !.playlist = [@ EXCEPT ![Numeric[line.tag]] = line.value]]
    [] line.tag = "PLAYLIST-TYPE" ->
         [scan EXCEPT !.playlist = [@ EXCEPT !.type = line.value]]
    [] line.tag = "ENDLIST" -> [scan EXCEPT !.playlist = [@ EXCEPT !.endList = TRUE]]
    [] line.tag = "DISCONTINUITY" -> [scan EXCEPT !.pending = [@ EXCEPT !.disc = TRUE]]
    [] line.tag = "CUE-IN" -> [scan EXCEPT !.pending = [@ EXCEPT !.in = TRUE]]
    [] line.tag = "CUE-OUT" -> [scan EXCEPT !.pending = CuedOut(@, line.value)]
    [] line.tag = "EXTINF" ->
         IF line.value = Garbage THEN [scan EXCEPT !.error = TRUE]
         ELSE [scan EXCEPT !.pending = [@ EXCEPT !.dur = line.value]]
    [] line.tag = "STREAM-INF" -> [scan EXCEPT !.error = TRUE]
    [] OTHER -> scan

ParseUri(scan, uri) ==
  LET p == scan.pending
  IN  IF p.dur = Garbage THEN [scan EXCEPT !.error = TRUE]
      ELSE [error |-> FALSE, pending |-> NothingPending,
            playlist |-> [scan.playlist EXCEPT !.segments =
               Append(@, Segment(uri, p.dur, p.disc, p.out, p.cue, p.in))]]

ParseLine(scan, line) ==
  CASE scan.error -> scan
    [] ~scan.error /\ line.tag = "URI" -> ParseUri(scan, line.value)
    [] ~scan.error /\ line.tag # "URI" -> ParseTag(scan, line)

ParseLines(start, lines) ==
  LET scan[k \in 0 .. Len(lines)] ==
        IF k = 0 THEN start ELSE ParseLine(scan[k - 1], lines[k])
  IN  scan[Len(lines)]

NothingParsed == [error |-> FALSE, pending |-> NothingPending, playlist |-> EmptyPlaylist]

ParsePlaylist(lines) ==
  LET scan == ParseLines(NothingParsed, lines)
  IN  [error |-> scan.error, playlist |-> scan.playlist]

(* A file, whose lines have a number, Garbage or Bare where one is due.      *)
NumberTags == DOMAIN Numeric \cup {"EXTINF", "CUE-OUT"}

IsText(lines) ==
  /\ lines \in Seq(ToSet(lines))
  /\ \A l \in ToSet(lines) :
       l = Line(l.tag, l.value) /\ (l.tag \in NumberTags => l.value \in Int)

(* Write: a CUE-OUT keeps its duration if it is positive, and every segment  *)
(* its markers, in this order.  %f keeps the precision durations have here.  *)
When(condition, line) == IF condition THEN <<line>> ELSE <<>>

WriteSegment(s) ==
  When(s.out, Line("CUE-OUT", IF s.cue > 0 THEN s.cue ELSE Bare))
    \o When(s.in, Tag("CUE-IN"))
    \o When(s.disc, Tag("DISCONTINUITY"))
    \o <<Line("EXTINF", s.dur), Line("URI", s.uri)>>

WritePlaylist(p) ==
  <<Tag("EXTM3U"), Line("VERSION", p.version), Line("TARGETDURATION", p.target),
    Line("MEDIASEQUENCE", p.sequence)>>
    \o When(p.type # "", Line("PLAYLIST-TYPE", p.type))
    \o FlattenSeq([i \in DOMAIN p.segments |-> WriteSegment(p.segments[i])])
    \o When(p.endList, Tag("ENDLIST"))
=============================================================================
