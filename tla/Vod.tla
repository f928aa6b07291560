-------------------------------- MODULE Vod --------------------------------
(***************************************************************************)
(* The VOD path end to end, as playground.spliceAndFinish, the server's     *)
(* spliceForSession and the stitch command compose it: a cued playlist,     *)
(* prepared by InjectBreaks or read from a file, is spliced with an encoded *)
(* ad under the options of one of those callers.                            *)
(***************************************************************************)
EXTENDS Stitch

CONSTANTS
  Requests,    \* [total, breaks]: a source's length and the breaks asked for
  Playlists,   \* cued content playlists that were authored elsewhere
  Ads,         \* segment durations of ads
  CallerOptions

ASSUME VodAssumption ==
  /\ CallerOptions \subseteq Options
  /\ \A r \in Requests : r.total \in Int /\ r.breaks \in Seq([start : Int, duration : Int])
  /\ \A p \in Playlists : p \in Seq(Segments) /\ \A i \in DOMAIN p : ~p[i].ad
  /\ Ads \subseteq Seq(Nat)

VARIABLES
  stage,       \* "start", "content" or "spliced"
  request,     \* what InjectBreaks was asked, or NoRequest
  declared,    \* the content's #EXT-X-TARGETDURATION
  content, ad, opts, result

vars == <<stage, request, declared, content, ad, opts, result>>

NoRequest == [total |-> 0, breaks |-> <<>>]
Nothing == [error |-> "none", segments |-> <<>>, target |-> 0]

Init ==
  /\ stage = "start" /\ request = NoRequest /\ declared = 0
  /\ content = <<>> /\ ad = <<>> /\ result = Nothing
  /\ opts = [allowMismatch |-> FALSE, loop |-> FALSE, preserve |-> FALSE]

(* contentprep refuses a request before it encodes anything; TargetDuration *)
(* is the nominal segment length.                                           *)
Prepare ==
  /\ stage = "start" /\ stage' = "content"
  /\ \E r \in Requests :
       LET breaks == SortedBreaks(r.breaks) IN
       /\ Injectable(r.total, breaks)
       /\ request' = r
       /\ content' = InjectBreaks(r.total, breaks)
  /\ declared' = (SegmentSeconds + Second - 1) \div Second
  /\ UNCHANGED <<ad, opts, result>>

(* A playlist whose own #EXT-X-TARGETDURATION is right.                     *)
Read ==
  /\ stage = "start" /\ stage' = "content"
  /\ \E p \in Playlists : content' = Numbered(p)
  /\ declared' = MaxSegmentDuration(content')
  /\ UNCHANGED <<request, ad, opts, result>>

(* What contentprep prepares is spliced as an insertion, like the           *)
(* playground's uploads and demo; a playlist by any caller.                 *)
Splice ==
  /\ stage = "content" /\ stage' = "spliced"
  /\ \E a \in Ads : ad' = AdPlaylist(a)
  /\ opts' \in {o \in CallerOptions : request # NoRequest => o.preserve}
  /\ result' = SpliceWithOptions(declared, content, ad', opts')
  /\ UNCHANGED <<request, declared, content>>

Next == Prepare \/ Read \/ Splice

Spec == Init /\ [][Next]_vars

----------------------------------------------------------------------------
Spliced == stage = "spliced" /\ result.error = "none"
Out == result.segments

(* The output on the timeline of the content: ads take no time.             *)
ContentTime == [i \in DOMAIN Out |-> IF Out[i].ad THEN [Out[i] EXCEPT !.dur = 0] ELSE Out[i]]

(* The maximal runs of ad segments in the output.                           *)
Flights ==
  {f \in (DOMAIN Out) \X (DOMAIN Out) :
     /\ f[1] <= f[2] /\ \A i \in f[1] .. f[2] : Out[i].ad
     /\ f[1] = 1 \/ ~Out[f[1] - 1].ad
     /\ f[2] = Len(Out) \/ ~Out[f[2] + 1].ad}

FlightSegments(f) == SubSeq(Out, f[1], f[2])
LastBefore(f) == IF f[1] = 1 THEN 0 ELSE Out[f[1] - 1].id
FirstAfter(f) == IF f[2] = Len(Out) THEN Len(content) + 1 ELSE Out[f[2] + 1].id

(* How long the ad has to be, by the markers around the flight.             *)
Wanted(f) ==
  IF opts.preserve THEN content[LastBefore(f)].cue
    ELSE TotalDuration(SubSeq(content, LastBefore(f) + 1, FirstAfter(f) - 1))

TypeOK ==
  /\ stage \in {"start", "content", "spliced"}
  /\ opts \in Options
  /\ result.error \in {"none", "no ad break", "duration mismatch"}
  /\ \A s \in ToSet(Out) : s.dur > 0 /\ s.ad \in BOOLEAN
  /\ \A s \in ToSet(content) : s.dur > 0 /\ ~s.disc

(* Nothing but what stands between a CUE-OUT and its CUE-IN is ever dropped,*)
(* and nothing at all when the ad is inserted (ADR 0009); what is kept is   *)
(* kept once, in order.                                                     *)
Signalled(i) ==
  \E o \in 1 .. i : content[o].out /\ \A c \in o + 1 .. i : ~content[c].in

Kept(i) == \E j \in DOMAIN Out : ~Out[j].ad /\ Out[j].id = i

ContentKept ==
  Spliced =>
    /\ \A i, j \in DOMAIN Out : i < j /\ ~Out[i].ad /\ ~Out[j].ad => Out[i].id < Out[j].id
    /\ \A i \in DOMAIN content : Kept(i) \/ (~opts.preserve /\ Signalled(i))

(* An ad plays exactly in place of a break, or right behind the CUE-OUT     *)
(* segment; content always follows it.                                      *)
AdSitsInBreak ==
  Spliced => \A f \in Flights :
    /\ FirstAfter(f) \in DOMAIN content
    /\ IF opts.preserve
         THEN content[LastBefore(f)].out /\ FirstAfter(f) = LastBefore(f) + 1
         ELSE content[LastBefore(f) + 1].out /\ content[FirstAfter(f)].in

(* Each switch between content and ad, and each start of the creative over  *)
(* again, carries a discontinuity.                                          *)
SwitchesAreMarked ==
  Spliced => \A i \in DOMAIN Out :
    \/ Out[i].disc
    \/ IF Out[i].ad THEN Out[i].id > 1 ELSE i = 1 \/ ~Out[i - 1].ad

(* LoopAdToFillBreak covers the break as far as the cap allows and with no  *)
(* repetition to spare; a plain splice fits the break within Epsilon.       *)
BreakIsFilled ==
  Spliced => \A f \in Flights :
    LET length == TotalDuration(FlightSegments(f))
        once == TotalDuration(ad)
    IN  /\ opts.loop /\ Wanted(f) > 0 =>
             /\ length >= Wanted(f) - Epsilon \/ length = (MaxLoopRepeats + 1) * once
             /\ length > once => length - once < Wanted(f) - Epsilon
        /\ ~opts.loop /\ ~opts.preserve /\ ~opts.allowMismatch =>
             length - Wanted(f) \in -Epsilon .. Epsilon

(* The stitched #EXT-X-TARGETDURATION covers every segment, whatever the    *)
(* content's said: the ad's segments, or the longer ones that               *)
(* evenSegmentPlan makes of a short span, included.                         *)
TargetCoversOutput ==
  Spliced => \A s \in ToSet(Out) : s.dur <= result.target * Second

(* What is prepared "can go straight into stitch.SpliceWithOptions"         *)
(* (contentprep.go:36-37), with any ad, and an insertion point is where the *)
(* caller asked for it, on the timeline of the source: every ad starts      *)
(* after exactly the content up to some break of the request, of which at   *)
(* least one is filled, and all of the source is played.                    *)
StartOfFlight(f) == TotalDuration(SubSeq(ContentTime, 1, f[1] - 1))

AdAtRequestedTime ==
  stage = "spliced" /\ request # NoRequest =>
    /\ result.error = "none"
    /\ \A f \in Flights :
         StartOfFlight(f) \in {b.start : b \in ToSet(request.breaks)}
    /\ TotalDuration(ContentTime) = request.total
    /\ ad # <<>> => Flights # {}

(* No runt segments (evenSegmentPlan): within a third and a half of the     *)
(* nominal length, give or take rounding, but for a span that is short.     *)
NoRuntSegments ==
  request # NoRequest => \A i \in DOMAIN content :
    /\ 2 * content[i].dur <= 3 * SegmentSeconds
    /\ \/ 3 * content[i].dur + 3 >= 2 * SegmentSeconds
       \/ /\ i = 1 \/ content[i].in
          /\ content[i].out \/ i = Len(content)

(* loopSegments and the live LoopFiller.Fill agree on every break, up to    *)
(* the one repetition that the tolerance of Epsilon can save; it could save *)
(* more of an ad that is itself shorter than Epsilon.                       *)
FillersAgree ==
  Spliced /\ TotalDuration(ad) >= Epsilon => \A f \in Flights :
    LET looped == LoopSegments(ad, Wanted(f))
        filled == Fill(ad, TotalDuration(ad), Wanted(f))
    IN  \/ filled = looped
        \/ /\ filled = looped \o MarkFirst(ad)
           /\ TotalDuration(looped) >= Wanted(f) - Epsilon

----------------------------------------------------------------------------
(* Statements of the source that the code does not keep.                    *)

(* InjectBreaks' result has "break insertion points at every point in       *)
(* breaks" and "can go straight into stitch.SpliceWithOptions", where       *)
(* "every break found gets spliced": as many ads as breaks were asked for.  *)
EveryBreakFilled ==
  Spliced /\ request # NoRequest /\ ad # <<>> =>
    Cardinality(Flights) = Len(request.breaks)
=============================================================================
