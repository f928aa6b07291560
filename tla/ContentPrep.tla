---------------------------- MODULE ContentPrep ----------------------------
(***************************************************************************)
(* internal/contentprep and the encode it runs (internal/transcode): turn a *)
(* source video into an HLS playlist with ad insertion points.  A segment   *)
(* keeps its place in the playlist as its identity (id), its duration, its  *)
(* cue markers and its discontinuity flag.  Durations are whole numbers of  *)
(* the smallest duration that matters.                                      *)
(***************************************************************************)
EXTENDS Integers, Sequences, FiniteSets, SequencesExt

CONSTANTS
  SegmentSeconds   \* transcode.Params.SegmentSeconds

ASSUME ContentPrepAssumption == SegmentSeconds \in Nat \ {0}

(* A definition named X_Y is a mutant of X: X with a plausible bug in it,    *)
(* used only to show that the properties would notice.                      *)

Segments ==
  [ad : BOOLEAN, id : Nat, dur : Int, out : BOOLEAN, in : BOOLEAN, cue : Int, disc : BOOLEAN]

ContentSegment(dur, out, in, cue) ==
  [ad |-> FALSE, id |-> 0, dur |-> dur, out |-> out, in |-> in, cue |-> cue, disc |-> FALSE]

Numbered(segments) == [i \in DOMAIN segments |-> [segments[i] EXCEPT !.id = i]]

TotalDuration(segments) ==
  LET sum[k \in 0 .. Len(segments)] == IF k = 0 THEN 0 ELSE sum[k - 1] + segments[k].dur
  IN  sum[Len(segments)]

(* evenSegmentPlan: how many segments of equal length come closest to the   *)
(* target, math.Round(duration / target), at least one; the k-th ends at    *)
(* the forced keyframe k * duration / n.                                    *)
SegmentCount_Floor(duration) ==
  IF duration < SegmentSeconds THEN 1 ELSE duration \div SegmentSeconds

SegmentCount(duration) ==
  LET rounded == (2 * duration + SegmentSeconds) \div (2 * SegmentSeconds)
  IN  IF rounded < 1 THEN 1 ELSE rounded

EvenSegmentPlan(duration) ==
  LET n == SegmentCount(duration)
      Keyframe(k) == (k * duration) \div n
  IN  [k \in 1 .. n |-> Keyframe(k) - Keyframe(k - 1)]

(* EncodeHLS of [offset, offset + limit) of a source, limit 0 for no limit; *)
(* the segment durations it produces.                                       *)
EncodeHLS_IgnoresOffset(total, offset, limit) ==
  EvenSegmentPlan(IF limit > 0 /\ total > limit THEN limit ELSE total)

EncodeHLS(total, offset, limit) ==
  LET duration == total - offset
  IN  EvenSegmentPlan(IF limit > 0 /\ duration > limit THEN limit ELSE duration)

(* InjectBreaks: breaks is what the caller asked for, in any order;         *)
(* sortBreaks inserts one after the other.                                  *)
Inserted(sorted, b) ==
  LET after == Cardinality({i \in DOMAIN sorted : sorted[i].start <= b.start})
  IN  SubSeq(sorted, 1, after) \o <<b>> \o SubSeq(sorted, after + 1, Len(sorted))

SortedBreaks(breaks) ==
  LET sorted[k \in 0 .. Len(breaks)] ==
        IF k = 0 THEN <<>> ELSE Inserted(sorted[k - 1], breaks[k])
  IN  sorted[Len(breaks)]

Injectable(total, breaks) ==
  /\ breaks # <<>>
  /\ \A i \in DOMAIN breaks :
       /\ breaks[i].duration > 0
       /\ breaks[i].start > (IF i = 1 THEN 0 ELSE breaks[i - 1].start)
       /\ breaks[i].start < total

(* Span i of the n + 1 that n breaks delimit: its first segment resumes     *)
(* after the break before it, its last one announces the break after it.    *)
CuedSpan(total, breaks, i) ==
  LET from == IF i = 1 THEN 0 ELSE breaks[i - 1].start
      last == i > Len(breaks)
      durs == EncodeHLS(total, from, IF last THEN 0 ELSE breaks[i].start - from)
      announces(k) == ~last /\ k = Len(durs)
  IN  [k \in DOMAIN durs |->
         ContentSegment(durs[k], announces(k), i > 1 /\ k = 1,
                        IF announces(k) THEN breaks[i].duration ELSE 0)]

InjectBreaks(total, breaks) ==
  Numbered(FlattenSeq([i \in 1 .. Len(breaks) + 1 |-> CuedSpan(total, breaks, i)]))
=============================================================================
