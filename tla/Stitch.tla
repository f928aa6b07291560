------------------------------- MODULE Stitch -------------------------------
(***************************************************************************)
(* internal/stitch: splice an ad playlist into every break of a VOD         *)
(* playlist, at the level of the manifest; and the filler of internal/live, *)
(* which its loopSegments says it mirrors.                                  *)
(***************************************************************************)
EXTENDS ContentPrep

CONSTANTS
  Epsilon,          \* durationEpsilon
  MaxLoopRepeats,   \* maxLoopRepeats
  Second            \* duration units in one second

ASSUME StitchAssumption ==
  Epsilon \in Nat /\ MaxLoopRepeats \in Nat /\ Second \in Nat \ {0}

AdPlaylist(durs) ==
  [i \in DOMAIN durs |-> [ContentSegment(durs[i], FALSE, FALSE, 0) EXCEPT !.ad = TRUE, !.id = i]]

(* stitch.Options *)
Options == [allowMismatch : BOOLEAN, loop : BOOLEAN, preserve : BOOLEAN]

----------------------------------------------------------------------------
(* findBreaks: a scan that pairs each CUE-OUT with the next CUE-IN; start 0 *)
(* is the code's -1.  A segment that ends a break is not looked at again    *)
(* for a CUE-OUT of its own.                                                *)
ScanSegment(content, scan, i) ==
  CASE scan.start = 0 /\ content[i].out -> [scan EXCEPT !.start = i]
    [] scan.start # 0 /\ content[i].in ->
         [start |-> 0, breaks |-> Append(scan.breaks, [start |-> scan.start, end |-> i])]
    [] OTHER -> scan

Scan(content) ==
  LET scan[i \in 0 .. Len(content)] ==
        IF i = 0 THEN [start |-> 0, breaks |-> <<>>] ELSE ScanSegment(content, scan[i - 1], i)
  IN  scan[Len(content)]

HasBreaks(content) == Scan(content).start = 0 /\ Scan(content).breaks # <<>>

FindBreaks(content) == Scan(content).breaks

----------------------------------------------------------------------------
(* A definition named X_Y is a mutant of X: X with a plausible bug in it,    *)
(* used only to show that the properties would notice.                      *)

(* loopSegments: the creative again and again, each time after a            *)
(* discontinuity, until the target is within Epsilon or the cap is reached. *)
MarkFirst(segments) ==
  IF segments = <<>> THEN segments ELSE [segments EXCEPT ![1].disc = TRUE]

Repeated(segments, times) ==
  LET looped[k \in 0 .. times] ==
        IF k = 0 THEN segments ELSE looped[k - 1] \o MarkFirst(segments)
  IN  looped[times]

FirstSuch(Enough(_)) ==
  CHOOSE r \in 0 .. MaxLoopRepeats :
    /\ r = MaxLoopRepeats \/ Enough(r)
    /\ \A q \in 0 .. r - 1 : ~Enough(q)

Repeats_OneShort(actual, target) ==
  FirstSuch(LAMBDA r : (r + 2) * actual >= target - Epsilon)

Repeats(actual, target) ==
  FirstSuch(LAMBDA r : (r + 1) * actual >= target - Epsilon)

LoopSegments(segments, target) ==
  LET actual == TotalDuration(segments)
  IN  IF actual <= 0 THEN segments ELSE Repeated(segments, Repeats(actual, target))

(* LoopFiller.Fill: the same without the tolerance.                         *)
Fill_NoCap(segments, actual, target) ==
  IF actual <= 0 \/ actual >= target THEN segments
    ELSE Repeated(segments, (target - 1) \div actual)

Fill(segments, actual, target) ==
  IF actual <= 0 \/ actual >= target THEN segments
    ELSE Repeated(segments, FirstSuch(LAMBDA r : (r + 1) * actual >= target))

----------------------------------------------------------------------------
(* SpliceWithOptions.                                                       *)
BreakTarget(content, br, opts) ==
  IF opts.preserve THEN content[br.start].cue
                   ELSE TotalDuration(SubSeq(content, br.start, br.end - 1))

Loops(ad, target, opts) ==
  opts.loop /\ target > 0 /\ TotalDuration(ad) < target - Epsilon

Mismatch(ad, target, opts) ==
  /\ ~Loops(ad, target, opts) /\ ~opts.preserve /\ ~opts.allowMismatch
  /\ \/ TotalDuration(ad) - target > Epsilon
     \/ target - TotalDuration(ad) > Epsilon

Flight(ad, target, opts) ==
  MarkFirst(IF Loops(ad, target, opts) THEN LoopSegments(ad, target) ELSE ad)

(* A run of content after an ad: its first segment loses its markers and    *)
(* gets a discontinuity.                                                    *)
Resumed_Unmarked(span) ==
  IF span = <<>> THEN span
    ELSE [span EXCEPT ![1].out = FALSE, ![1].in = FALSE]

Resumed(span) ==
  IF span = <<>> THEN span
    ELSE [span EXCEPT ![1].out = FALSE, ![1].in = FALSE, ![1].disc = TRUE]

(* With PreserveAllContent nothing is dropped and the CUE-OUT segment is    *)
(* the last before the ad; otherwise [start, end) gives way to the ad.      *)
Announced(span, opts) ==
  IF opts.preserve THEN [span EXCEPT ![Len(span)].out = FALSE] ELSE span

NextCursor_DropsCueIn(br, opts) == IF opts.preserve THEN br.start + 1 ELSE br.end + 1
NextCursor(br, opts) == IF opts.preserve THEN br.start + 1 ELSE br.end

SpanEnd_AfterCueOut(br, opts) == br.start
SpanEnd(br, opts) == IF opts.preserve THEN br.start ELSE br.start - 1

SpliceBreak(content, ad, opts, done, br) ==
  LET span == SubSeq(content, done.cursor, SpanEnd(br, opts))
      before == IF done.cursor = 1 THEN span ELSE Resumed(span)
  IN  [cursor |-> NextCursor(br, opts),
       segments |-> done.segments \o Announced(before, opts)
                      \o Flight(ad, BreakTarget(content, br, opts), opts)]

SplicedSegments(content, ad, opts) ==
  LET breaks == FindBreaks(content)
      done[k \in 0 .. Len(breaks)] ==
        IF k = 0 THEN [cursor |-> 1, segments |-> <<>>]
                 ELSE SpliceBreak(content, ad, opts, done[k - 1], breaks[k])
      spliced == done[Len(breaks)]
  IN  spliced.segments \o Resumed(SubSeq(content, spliced.cursor, Len(content)))

(* maxSegmentDuration: the longest, rounded up to whole seconds.            *)
MaxSegmentDuration(segments) ==
  LET longest[k \in 0 .. Len(segments)] ==
        IF k = 0 THEN 0 ELSE Max({longest[k - 1], (segments[k].dur + Second - 1) \div Second})
  IN  longest[Len(segments)]

TargetDuration_OfContent(declared, segments) == declared
TargetDuration(declared, segments) == Max({declared, MaxSegmentDuration(segments)})

Failed(error) == [error |-> error, segments |-> <<>>, target |-> 0]

SpliceWithOptions(declared, content, ad, opts) ==
  IF ~HasBreaks(content) THEN Failed("no ad break")
  ELSE IF \E i \in DOMAIN FindBreaks(content) :
            Mismatch(ad, BreakTarget(content, FindBreaks(content)[i], opts), opts)
         THEN Failed("duration mismatch")
  ELSE LET segments == SplicedSegments(content, ad, opts)
       IN  [error |-> "none", segments |-> segments,
            target |-> TargetDuration(declared, segments)]
=============================================================================
