-------------------------------- MODULE Dash --------------------------------
(***************************************************************************)
(* internal/mpd's document and its cues, and internal/dashsplice: splice an  *)
(* ad MPD into a content MPD at its first SCTE-35 event, by splitting the    *)
(* event's Period.                                                          *)
(***************************************************************************)
EXTENDS Timeline, Scte35

CONSTANT Epsilon     \* durationEpsilon

ASSUME DashAssumption == Epsilon \in Nat

(* An MPD is the sequence of its Periods.  A Period's id is a sequence of    *)
(* the parts it was put together from, <<>> if it has none; its start is an  *)
(* xs:duration or NoDuration.                                                *)
Period(id, start, streams, sets) ==
  [id |-> id, start |-> start, streams |-> streams, sets |-> sets]
AdaptationSet(tpl, reps) == [tpl |-> tpl, reps |-> reps]
Representation(id, tpl) == [id |-> id, tpl |-> tpl]
EventStream(scte35, timescale, events) ==
  [scte35 |-> scte35, timescale |-> timescale, events |-> events]
Event(id, time, duration, section) ==
  [id |-> id, time |-> time, duration |-> duration, section |-> section]

(* The XML binding of a splice_info_section: a SpliceInsert, a TimeSignal,   *)
(* or neither (Nil); a time without ptsTime is Absent.                       *)
XmlSection(insert, signal) == [insert |-> insert, signal |-> signal]
XmlInsert(event, cancel, out, immediate, program, duration) ==
  [event |-> event, cancel |-> cancel, out |-> out, immediate |-> immediate, program |-> program,
   duration |-> duration]

(* What parsing yields: the sequences of an MPD, and its templates' numbers.  *)
IsSequence(s) == s \in Seq(ToSet(s))

Templates ==
  [stem : STRING, under : Nat, timescale : Int, startNumber : Int, pto : Int, timed : BOOLEAN,
   timeline : Seq([t : Int, d : Int, r : Int])]
Representations == [id : STRING, tpl : Templates \cup {NoTemplate}]
AdaptationSets == [tpl : Templates \cup {NoTemplate}, reps : Seq(Representations)]

IsMpd(mpd) ==
  /\ IsSequence(mpd)
  /\ \A p \in ToSet(mpd) :
       /\ p = Period(p.id, p.start, p.streams, p.sets)
       /\ p.sets \in Seq(AdaptationSets) /\ IsSequence(p.streams)
       /\ \A s \in ToSet(p.streams) :
            /\ IsSequence(s.events) /\ s.timescale \in Nat
            /\ \A e \in ToSet(s.events) : e.duration \in Nat \cup {Absent}

XmlSpliceTime(pts) == IF pts = Absent THEN Unspecified ELSE SpliceTime(pts)

(* A Program without SpliceTime leaves the time unset.                       *)
XmlSpliceInsert(si) ==
  [SpliceInsert(si.event) EXCEPT
     !.cancel = si.cancel, !.out = si.out, !.immediate = si.immediate,
     !.program = si.program # Nil,
     !.time = IF si.program # Nil /\ si.program.time # Nil
                THEN XmlSpliceTime(si.program.time.pts) ELSE Nil,
     !.duration = si.duration]

ToSpliceInfoSection(xml) ==
  CASE xml.insert # Nil -> Section(FALSE, 0, XmlSpliceInsert(xml.insert), 0)
    [] xml.insert = Nil /\ xml.signal # Nil ->
         Section(FALSE, 0, TimeSignal(XmlSpliceTime(xml.signal.pts)), 0)
    [] OTHER -> Refusal("neither SpliceInsert nor TimeSignal")

(* ExtractCues: every event of the SCTE-35 scheme that has a section, in     *)
(* order; one section that is neither command fails the whole.               *)
EventTime(ticks, timescale) ==
  IF ticks = Absent THEN 0 ELSE TicksToDuration(ticks, IF timescale = 0 THEN 1 ELSE timescale)

CueOf(period, stream, event) ==
  [period |-> period.id, event |-> event.id,
   time |-> EventTime(event.time, stream.timescale),
   duration |-> EventTime(event.duration, stream.timescale),
   section |-> ToSpliceInfoSection(event.section)]

EventCues(period, stream, event) ==
  IF stream.scte35 /\ event.section # Nil THEN <<CueOf(period, stream, event)>> ELSE <<>>

StreamCues(period, stream) ==
  FlattenSeq([i \in DOMAIN stream.events |-> EventCues(period, stream, stream.events[i])])

PeriodCues(period) ==
  FlattenSeq([i \in DOMAIN period.streams |-> StreamCues(period, period.streams[i])])

AllCues(mpd) == FlattenSeq([i \in DOMAIN mpd |-> PeriodCues(mpd[i])])

Extracted(cues) ==
  IF \E i \in DOMAIN cues : cues[i].section.error # "none"
    THEN [error |-> "section", cues |-> <<>>]
    ELSE [error |-> "none", cues |-> cues]

ExtractCues(mpd) == Extracted(AllCues(mpd))

----------------------------------------------------------------------------
(* splitTemplate: the break [from, to), in time since the Period's start,    *)
(* must lie on the boundaries of this template's own timeline.               *)
SplitPointsIn(entries, start, end) ==
  [split |-> IndexOfStart(entries, start),
   resume |-> IF IndexOfStart(entries, end) = 0 /\ entries # <<>> /\ end = EndOf(entries)
                THEN Len(entries) + 1 ELSE IndexOfStart(entries, end)]

SplitPoints(tpl, from, to) ==
  SplitPointsIn(ExpandTimeline(tpl.timeline), DurationToTicks(from, tpl.timescale),
                DurationToTicks(to, tpl.timescale))

Ordered(at) == at.split # 0 /\ at.resume # 0 /\ at.split <= at.resume
Splittable(tpl, from, to) == Timed(tpl) /\ Ordered(SplitPoints(tpl, from, to))

BeforeTemplate(tpl, from, to) ==
  [tpl EXCEPT !.timeline =
     CompactTimeline(SubSeq(ExpandTimeline(@), 1, SplitPoints(tpl, from, to).split - 1))]

ResumedAt_SameNumber(tpl, entries, resume) ==
  [tpl EXCEPT
     !.pto = IF resume > Len(entries) THEN @ ELSE entries[resume].start,
     !.timeline = CompactTimeline(SubSeq(entries, resume, Len(entries)))]

ResumedAt(tpl, entries, resume) ==
  [tpl EXCEPT
     !.startNumber = @ + resume - 1,
     !.pto = IF resume > Len(entries) THEN @ ELSE entries[resume].start,
     !.timeline = CompactTimeline(SubSeq(entries, resume, Len(entries)))]

AfterTemplate(tpl, from, to) ==
  ResumedAt(tpl, ExpandTimeline(tpl.timeline), SplitPoints(tpl, from, to).resume)

(* splitAdaptationSets: every Representation, each with a template of its    *)
(* own from now on.                                                          *)
WithTemplates(set, Half(_)) ==
  AdaptationSet(NoTemplate,
    [j \in DOMAIN set.reps |->
       [set.reps[j] EXCEPT !.tpl = Half(EffectiveSegmentTemplate(set.reps[j], set))]])

SplitAdaptationSets(sets, from, to) ==
  IF \A i \in DOMAIN sets : \A j \in DOMAIN sets[i].reps :
       Splittable(EffectiveSegmentTemplate(sets[i].reps[j], sets[i]), from, to)
    THEN [ok |-> TRUE,
          before |-> [i \in DOMAIN sets |->
                        WithTemplates(sets[i], LAMBDA t : BeforeTemplate(t, from, to))],
          after |-> [i \in DOMAIN sets |->
                       WithTemplates(sets[i], LAMBDA t : AfterTemplate(t, from, to))]]
    ELSE [ok |-> FALSE]

(* periodDuration: the timeline of the first Representation stands for all.  *)
FirstTemplate(period) == EffectiveSegmentTemplate(period.sets[1].reps[1], period.sets[1])

Measurable(period) ==
  period.sets # <<>> /\ period.sets[1].reps # <<>> /\ Timed(FirstTemplate(period))

Extent(entries, timescale) ==
  IF entries = <<>> THEN 0
                    ELSE TicksToDuration(EndOf(entries) - entries[1].start, timescale)

PeriodDuration(period) ==
  Extent(ExpandTimeline(FirstTemplate(period).timeline), FirstTemplate(period).timescale)

----------------------------------------------------------------------------
(* SpliceWithOptions.  The cue's Period is looked up by its id.              *)
PeriodOfCue(content, cue) == SelectInSeq(content, LAMBDA p : p.id = cue.period)

DurationsDiffer(a, b) == a - b > Epsilon \/ b - a > Epsilon

SplitPeriod(period, adSets, halves, start, from, to) ==
  <<Period(Append(period.id, "pre"), period.start, <<>>, halves.before),
    Period(Append(period.id, "ad"), FormatDuration(start + from), <<>>, adSets),
    Period(Append(period.id, "post"), FormatDuration(start + to), <<>>, halves.after)>>

(* Each check in its turn.                                                   *)
Unspliced(error) == [error |-> error, mpd |-> <<>>]

Replaced(content, at, periods) ==
  [error |-> "none",
   mpd |-> SubSeq(content, 1, at - 1) \o periods \o SubSeq(content, at + 1, Len(content))]

SpliceHalves(content, at, adSets, halves, start, from, to) ==
  IF halves.ok
    THEN Replaced(content, at, SplitPeriod(content[at], adSets, halves, start, from, to))
    ELSE Unspliced("not on a boundary")

SplicePeriod(content, at, adPeriod, start, cue, allowMismatch) ==
  CASE start = Invalid -> Unspliced("period start")
    [] start # Invalid /\ ~Measurable(adPeriod) -> Unspliced("ad duration")
    [] start # Invalid /\ Measurable(adPeriod) ->
         IF ~allowMismatch /\ DurationsDiffer(cue.duration, PeriodDuration(adPeriod))
           THEN Unspliced("duration mismatch")
           ELSE SpliceHalves(content, at, adPeriod.sets,
                  SplitAdaptationSets(content[at].sets, cue.time, cue.time + cue.duration),
                  start, cue.time, cue.time + cue.duration)

SpliceCue(content, ad, cue, at, allowMismatch) ==
  CASE cue.duration <= 0 -> Unspliced("cue without duration")
    [] cue.duration > 0 /\ ad = <<>> -> Unspliced("no ad period")
    [] OTHER ->
         SplicePeriod(content, at, ad[1], PeriodStartOrZero(content[at].start), cue,
                      allowMismatch)

SpliceFound(content, ad, found, allowMismatch) ==
  CASE found.error # "none" -> Unspliced("section")
    [] found.error = "none" /\ found.cues = <<>> -> Unspliced("no ad break")
    [] found.error = "none" /\ found.cues # <<>> ->
         SpliceCue(content, ad, found.cues[1], PeriodOfCue(content, found.cues[1]),
                   allowMismatch)

DashSplice(content, ad, allowMismatch) ==
  SpliceFound(content, ad, ExtractCues(content), allowMismatch)
=============================================================================
