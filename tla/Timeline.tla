------------------------------ MODULE Timeline ------------------------------
(***************************************************************************)
(* The timelines of an MPD: internal/mpd's durations and SegmentTimeline,    *)
(* and what internal/dashsplice/timeline.go does with them.  A time.Duration *)
(* is a number of the smallest duration that matters, Second of them to the  *)
(* second; ticks are counted in a template's own timescale.                  *)
(***************************************************************************)
EXTENDS Integers, Sequences, SequencesExt

CONSTANTS
  Second,              \* duration units in one second
  Precision,           \* units of the last digit that FormatDuration writes
  MinSegmentDuration   \* mpd.MinSegmentDuration

ASSUME TimelineAssumption ==
  /\ Second \in Nat \ {0} /\ Precision \in Nat \ {0} /\ MinSegmentDuration \in Nat

(* A definition named X_Y is a mutant of X: X with a plausible bug in it,    *)
(* used only to show that the properties would notice.                      *)

Absent == -1      \* a missing attribute: S@t, Event@presentationTime, ...

(* S is one S element, t Absent or explicit.  Of a SegmentTemplate, stem is  *)
(* the name of its files but for their number, under how often they are      *)
(* placed under "ad/", timed whether it has a SegmentTimeline.               *)
S(t, d, r) == [t |-> t, d |-> d, r |-> r]

NoTemplate == [stem |-> "none"]
Template(stem, timescale, number, pto, timeline) ==
  [stem |-> stem, under |-> 0, timescale |-> timescale, startNumber |-> number,
   pto |-> pto, timed |-> TRUE, timeline |-> timeline]
Untimed(stem) == [Template(stem, 1, 1, 0, <<>>) EXCEPT !.timed = FALSE]

(* Representation.EffectiveSegmentTemplate.                                 *)
EffectiveSegmentTemplate(rep, set) == IF rep.tpl # NoTemplate THEN rep.tpl ELSE set.tpl

Timed(tpl) == tpl # NoTemplate /\ tpl.timed

----------------------------------------------------------------------------
(* ticksToDuration.                                                          *)
TicksToDuration(ticks, timescale) ==
  IF timescale = 0 THEN 0 ELSE (ticks * Second) \div timescale

Rounded(n, d) == (2 * n + d) \div (2 * d)

DurationToTicks(duration, timescale) == Rounded(duration * timescale, Second)

(* xs:duration, token by token: a leading P, date components before the T,   *)
(* if there is a T, and numbers (in units of 1/Second), each before its      *)
(* designator.                                                              *)
Digits(n) == [digits |-> TRUE, is |-> n]
Unit(u) == [digits |-> FALSE, is |-> u]
XsDuration(date, time) == [p |-> TRUE, date |-> date, t |-> TRUE, time |-> time]
NoDuration == [p |-> FALSE, date |-> FALSE, t |-> FALSE, time |-> <<>>]   \* ""
Invalid == -1

UnitSeconds == [H |-> 3600, M |-> 60, S |-> 1]

ParseToken(scan, token) ==
  CASE scan.total = Invalid -> scan
    [] scan.total # Invalid /\ token.digits ->
         IF scan.number = Absent THEN [scan EXCEPT !.number = token.is]
                                 ELSE [scan EXCEPT !.total = Invalid]   \* "1.2.3"
    [] scan.total # Invalid /\ ~token.digits ->
         IF scan.number = Absent \/ token.is \notin DOMAIN UnitSeconds
           THEN [scan EXCEPT !.total = Invalid]
           ELSE [total |-> scan.total + scan.number * UnitSeconds[token.is],
                 number |-> Absent]

ParseDuration(text) ==
  IF ~text.p \/ text.date THEN Invalid
  ELSE LET scan == FoldLeft(ParseToken, [total |-> 0, number |-> Absent],
                            IF text.t THEN text.time ELSE <<>>)
       IN  IF scan.number # Absent THEN Invalid ELSE scan.total

FormatDuration(duration) ==
  XsDuration(FALSE, <<Digits(Precision * Rounded(duration, Precision)), Unit("S")>>)

PeriodStartOrZero(text) == IF text = NoDuration THEN 0 ELSE ParseDuration(text)

----------------------------------------------------------------------------
(* expandTimeline: an entry [start, dur] for each segment; an S without t    *)
(* starts where the one before ends, and one with a negative r has none.     *)
Expand(done, s) ==
  LET start == IF s.t = Absent THEN done.cur ELSE s.t
      count == IF s.r < 0 THEN 0 ELSE s.r + 1
  IN  [cur |-> start + count * s.d,
       entries |-> done.entries
                     \o [k \in 1 .. count |-> [start |-> start + (k - 1) * s.d, dur |-> s.d]]]

ExpandTimeline(timeline) ==
  LET done[k \in 0 .. Len(timeline)] ==
        IF k = 0 THEN [cur |-> 0, entries |-> <<>>] ELSE Expand(done[k - 1], timeline[k])
  IN  done[Len(timeline)].entries

(* compactTimeline: runs of equal durations; only the first S has a t.       *)
Compact(timeline, entry) ==
  LET n == Len(timeline)
  IN  IF n > 0 /\ timeline[n].d = entry.dur
        THEN [timeline EXCEPT ![n].r = @ + 1]
        ELSE Append(timeline, S(IF n = 0 THEN entry.start ELSE Absent, entry.dur, 0))

CompactTimeline(entries) ==
  LET timeline[k \in 0 .. Len(entries)] ==
        IF k = 0 THEN <<>> ELSE Compact(timeline[k - 1], entries[k])
  IN  timeline[Len(entries)]

(* indexOfStart: the first entry that starts at target, 0 for the code's -1. *)
IndexOfStart(entries, target) ==
  SelectInSeq(entries, LAMBDA e : e.start = target)

EndOf(entries) == Last(entries).start + Last(entries).dur

(* MergeTrailingShortSegment of a template, in place: a short last segment   *)
(* joins the one before it, which leaves its run if it has one.  FFmpeg      *)
(* writes a timescale, so the division by it is not by 0.                    *)
ShortTail(tpl) ==
  LET n == Len(tpl.timeline)
  IN  /\ n > 1 /\ tpl.timeline[n].r <= 0
      /\ tpl.timeline[n].d * Second < MinSegmentDuration * tpl.timescale

MergeTail(timeline) ==
  LET n == Len(timeline)
      last == timeline[n]
      prev == timeline[n - 1]
  IN  IF prev.r > 0
        THEN [timeline EXCEPT ![n - 1].r = @ - 1, ![n] = S(Absent, prev.d + last.d, 0)]
        ELSE [Front(timeline) EXCEPT ![n - 1].d = @ + last.d]

MergeTrailingShortSegment_KeepsRun(tpl) ==
  IF Timed(tpl) /\ ShortTail(tpl)
    THEN [tpl EXCEPT !.timeline =
            [Front(@) EXCEPT ![Len(tpl.timeline) - 1].d = @ + Last(tpl.timeline).d]]
    ELSE tpl

MergeTrailingShortSegment(tpl) ==
  IF Timed(tpl) /\ ShortTail(tpl)
    THEN [tpl EXCEPT !.timeline = MergeTail(@)] ELSE tpl
=============================================================================
