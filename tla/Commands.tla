------------------------------ MODULE Commands ------------------------------
(***************************************************************************)
(* cmd/stitchpoint: the one-shot commands dash-stitch, stitch and scte35.    *)
(* The first two load the content, load or resolve the ad, splice, copy the  *)
(* media into -out and write the manifest last; any step may fail and end    *)
(* the command there.  scte35 reports the cues of its input.                 *)
(*                                                                          *)
(* The media files of -out are a function from names to origins: which file  *)
(* of the content's directory, or of the ad's, a file is a copy of.          *)
(***************************************************************************)
EXTENDS CueSources, Manifest, Vast

CONSTANTS
  Inputs,           \* the command lines, with what the files they name hold
  SegmentSeconds,   \* transcode.DefaultParams.SegmentSeconds
  MaxLoopRepeats    \* stitch.maxLoopRepeats (not reached by these commands)

(* The files of a directory, and what loading the files that a command line  *)
(* names yields.                                                             *)
FileNames == [under : Nat, stem : STRING, rep : STRING, n : Int]

IsDashInput(i) ==
  /\ IsMpd(i.content) /\ i.dir \subseteq FileNames
  /\ i.ad.from # "vast" => IsMpd(i.ad.list) /\ i.ad.dir \subseteq FileNames

IsHlsInput(i) == IsText(i.content) /\ (i.ad.from # "vast" => IsText(i.ad.list))

ASSUME CommandsAssumption ==
  /\ SegmentSeconds \in Nat \ {0}
  /\ \A mf \in MediaFiles : mf.total \in Nat /\ mf.tail \in Nat
  /\ \A i \in Inputs : /\ i.cmd = "dash-stitch" => IsDashInput(i)
                       /\ i.cmd = "stitch" => IsHlsInput(i)

HLS == INSTANCE Stitch

VARIABLES
  stage,      \* where the command is
  input,      \* its command line
  creative,   \* the media file that was selected of the VAST answer
  ad,         \* the ad, an MPD or a playlist
  spliced,    \* the spliced MPD or playlist
  todo,       \* the copies still to make
  files,      \* the files of -out
  manifest,   \* the manifest in -out: NoManifest, Partial or what was written
  report      \* what scte35 printed

cmdVars == <<stage, input, creative, ad, spliced, todo, files, manifest, report>>
vars == <<cmdVars, vastVars>>

NoInput == [cmd |-> "none"]
NoManifest == <<"absent">>
Partial == <<"partial">>
Written(text) == <<"written", text>>
Empty == [from |-> "nothing", file |-> NoInput]

Init ==
  /\ VastInit
  /\ stage = "start" /\ input = NoInput /\ creative = NoMediaFile
  /\ ad = <<>> /\ spliced = <<>> /\ todo = {} /\ files = <<>> /\ manifest = NoManifest /\ report = NoReport

Dashing == input.cmd = "dash-stitch"
FromVast == input.ad.from = "vast"

----------------------------------------------------------------------------
(* Which files a template names: of a Representation, the initialization     *)
(* file and one for each segment of the timeline.  under counts the "ad/"    *)
(* directories the name begins with.                                        *)
InitFile == -1
File(under, tpl, rep, n) == [under |-> under, stem |-> tpl.stem, rep |-> rep.id, n |-> n]

Numbers(tpl) ==
  [k \in DOMAIN ExpandTimeline(tpl.timeline) |-> tpl.startNumber + k - 1]

FilesOfRep(set, rep) ==
  LET tpl == EffectiveSegmentTemplate(rep, set)
  IN  {File(tpl.under, tpl, rep, n) : n \in {InitFile} \cup ToSet(Numbers(tpl))}

FilesOfPeriod(period) ==
  UNION {UNION {FilesOfRep(period.sets[i], period.sets[i].reps[j]) :
                  j \in DOMAIN period.sets[i].reps} : i \in DOMAIN period.sets}

FilesOf(mpd) == UNION {FilesOfPeriod(mpd[i]) : i \in DOMAIN mpd}

(* Every Representation of a set, or of a Period, changed.                   *)
InSet(set, Change(_)) == [set EXCEPT !.reps = [r \in DOMAIN set.reps |-> Change(set.reps[r])]]

InPeriod(period, Change(_)) ==
  [period EXCEPT !.sets = [i \in DOMAIN period.sets |-> InSet(period.sets[i], Change)]]

(* prefixMediaPaths: only templates that a Representation has for itself.    *)
PrefixRep(rep) == IF rep.tpl = NoTemplate THEN rep ELSE [rep EXCEPT !.tpl.under = @ + 1]

PrefixMediaPaths_FirstOnly(mpd) ==
  [p \in DOMAIN mpd |-> [mpd[p] EXCEPT !.sets =
     [i \in DOMAIN @ |-> IF i > 1 THEN @[i] ELSE InSet(@[i], PrefixRep)]]]

PrefixMediaPaths(mpd) == [p \in DOMAIN mpd |-> InPeriod(mpd[p], PrefixRep)]

(* copyDirFiles: the files directly inside a directory.                      *)
Copy(from, file, to) == [from |-> from, file |-> file, to |-> to]

CopyDirFiles(from, dir, under) ==
  {Copy(from, f, [f EXCEPT !.under = under]) : f \in {g \in dir : g.under = 0}}

(* stitch gives every ad segment a name that begins with "ad_", and copies   *)
(* each file the spliced playlist names once, looking it up among the        *)
(* content's names first; of two ad files of one name it has the last.       *)
Renamed(uri) == IF uri.prefix = 0 THEN [uri EXCEPT !.prefix = 1] ELSE uri

Uris(playlist) == [i \in DOMAIN playlist.segments |-> playlist.segments[i].uri]

AdFile(adUris, u) == adUris[SelectLastInSeq(adUris, LAMBDA a : Renamed(a) = u)]

HlsCopy(content, adUris, u) ==
  IF u \in ToSet(Uris(content)) THEN Copy("content", u, u) ELSE Copy("ad", AdFile(adUris, u), u)

HlsCopies(content, adUris, uris) == {HlsCopy(content, adUris, u) : u \in ToSet(uris)}

----------------------------------------------------------------------------
(* transcode.EncodeDASH of a creative: FFmpeg cuts the video at the forced   *)
(* keyframes and, on its own, the audio, of which a short remainder can be   *)
(* left; then every timeline is merged.                                      *)
EncodedRep(id, durs) ==
  Representation(id, Template("stream", Second, 1, 0,
    CompactTimeline([k \in DOMAIN durs |-> [start |-> 0, dur |-> durs[k]]])))

Muxed(mf) ==
  LET durs == HLS!EncodeHLS(mf.total, 0, 0)
      audio == IF mf.tail = 0 THEN durs ELSE Append(durs, mf.tail)
  IN  <<Period(<<"0">>, NoDuration, <<>>,
          <<AdaptationSet(NoTemplate, <<EncodedRep("v", durs)>>),
            AdaptationSet(NoTemplate, <<EncodedRep("a", audio)>>)>>)>>

MergeRep(rep) == [rep EXCEPT !.tpl = MergeTrailingShortSegment(@)]

EncodeDASH(mf) == [p \in DOMAIN Muxed(mf) |-> InPeriod(Muxed(mf)[p], MergeRep)]

(* transcode.EncodeHLS, parsed back.                                         *)
EncodedPlaylist(mf) ==
  LET durs == HLS!EncodeHLS(mf.total, 0, 0)
  IN  [EmptyPlaylist EXCEPT !.segments =
         [k \in DOMAIN durs |->
            Segment([prefix |-> 0, n |-> k], durs[k], FALSE, FALSE, 0, FALSE)]]

(* stitch.SpliceWithOptions on what was parsed.                              *)
Cued(s, i) ==
  [HLS!ContentSegment(s.dur, s.out, s.in, s.cue) EXCEPT !.id = i, !.disc = s.disc]

Body(playlist) == [i \in DOMAIN playlist.segments |-> Cued(playlist.segments[i], i)]
Flight(playlist) ==
  [i \in DOMAIN playlist.segments |->
     [Cued(playlist.segments[i], i) EXCEPT !.ad = TRUE, !.out = FALSE, !.in = FALSE]]
Options == [allowMismatch |-> FromVast, loop |-> FALSE, preserve |-> FALSE]

Named(s, content, adList) ==
  Segment(IF s.ad THEN Renamed(adList.segments[s.id].uri) ELSE content.segments[s.id].uri,
          s.dur, s.disc, s.out, s.cue, s.in)

Renaming(result, content, adList) ==
  [error |-> result.error,
   playlist |-> [content EXCEPT
     !.target = result.target,
     !.segments = [i \in DOMAIN result.segments |->
                     Named(result.segments[i], content, adList)]]]

HlsSplice(content, adList) ==
  Renaming(HLS!SpliceWithOptions(content.target, Body(content), Flight(adList), Options),
           content, adList)

----------------------------------------------------------------------------
(* -out may be the directory the content is in.                              *)
Begin ==
  /\ stage = "start"
  /\ \E i \in Inputs :
       /\ input' = i
       /\ stage' = IF i.cmd = "scte35" THEN "decode" ELSE "load"
       /\ files' = IF i.cmd # "scte35" /\ i.inPlace
                     THEN [f \in i.dir |-> [from |-> "content", file |-> f]] ELSE <<>>
  /\ UNCHANGED <<creative, ad, spliced, todo, manifest, report, vastVars>>

Content == IF Dashing THEN input.content ELSE ParsePlaylist(input.content).playlist

(* loadMPD or loadPlaylist, of the content and of a pre-encoded ad.          *)
Readable == ~Dashing => /\ ~ParsePlaylist(input.content).error
                        /\ (~FromVast => ~ParsePlaylist(input.ad.list).error)

Load ==
  /\ stage = "load" /\ Readable
  /\ IF FromVast THEN Fetch /\ stage' = "resolve" /\ UNCHANGED ad
       ELSE /\ stage' = "splice" /\ UNCHANGED vastVars
            /\ ad' = IF Dashing THEN input.ad.list ELSE ParsePlaylist(input.ad.list).playlist
  /\ UNCHANGED <<input, creative, spliced, todo, files, manifest, report>>

Ask ==
  /\ stage = "resolve"
  /\ \/ GiveUp
     \/ \E a \in Answers : Follow(a) \/ Resolve(a)
  /\ UNCHANGED cmdVars

Select ==
  /\ stage = "resolve" /\ vast = "done" /\ fetched.error = "none"
  /\ SelectMediaFile(fetched.media) # NoMediaFile
  /\ creative' = SelectMediaFile(fetched.media) /\ stage' = "encode"
  /\ UNCHANGED <<input, ad, spliced, todo, files, manifest, report, vastVars>>

(* The download into a temporary directory, which stays, and the encode.     *)
Encode ==
  /\ stage = "encode" /\ stage' = "splice"
  /\ ad' = IF Dashing THEN EncodeDASH(creative) ELSE EncodedPlaylist(creative)
  /\ UNCHANGED <<input, creative, spliced, todo, files, manifest, report, vastVars>>

AdDir == IF FromVast THEN FilesOf(Muxed(creative)) ELSE input.ad.dir

DashCopies == CopyDirFiles("content", input.dir, 0) \cup CopyDirFiles("ad", AdDir, 1)

SpliceDash ==
  /\ stage = "splice" /\ Dashing /\ stage' = "copy"
  /\ \E result \in {DashSplice(Content, PrefixMediaPaths(ad), FromVast)} :
       result.error = "none" /\ spliced' = result.mpd
  /\ todo' = DashCopies
  /\ UNCHANGED <<input, creative, ad, files, manifest, report, vastVars>>

SpliceHls ==
  /\ stage = "splice" /\ ~Dashing /\ stage' = "copy"
  /\ \E result \in {HlsSplice(Content, ad)} :
       /\ result.error = "none" /\ spliced' = result.playlist
       /\ todo' = HlsCopies(Content, Uris(ad), Uris(result.playlist))
  /\ UNCHANGED <<input, creative, ad, files, manifest, report, vastVars>>

(* copyFile: creating the copy empties it, which empties a source that is    *)
(* the same file; a copy that fails was not begun or is left as far as it    *)
(* got.  dash-stitch copies the content's files before the ad's; the order   *)
(* is of no consequence otherwise, as no name is copied to twice.            *)
NextCopy ==
  LET ofContent == {c \in todo : c.from = "content"}
  IN  CHOOSE c \in (IF ofContent # {} THEN ofContent ELSE todo) : TRUE

Put(file, origin) ==
  [f \in DOMAIN files \cup {file} |-> IF f = file THEN origin ELSE files[f]]
CopyOf(c) ==
  IF c.from = "content" /\ input.inPlace THEN Empty ELSE [from |-> c.from, file |-> c.file]

CopyFile ==
  /\ stage = "copy" /\ todo # {}
  /\ todo' = todo \ {NextCopy}
  /\ files' = Put(NextCopy.to, CopyOf(NextCopy))
  /\ UNCHANGED <<stage, input, creative, ad, spliced, manifest, report, vastVars>>

CopyFails ==
  /\ stage = "copy" /\ todo # {} /\ stage' = "failed"
  /\ files' \in {files, Put(NextCopy.to, Empty)}
  /\ UNCHANGED <<input, creative, ad, spliced, todo, manifest, report, vastVars>>

(* The manifest is written last.  A write that fails leaves a part of it, or *)
(* all of it if only Close fails.                                            *)
Output == Written(IF Dashing THEN spliced ELSE WritePlaylist(spliced))

WriteManifest ==
  /\ stage = "copy" /\ todo = {} /\ stage' = "done" /\ manifest' = Output
  /\ UNCHANGED <<input, creative, ad, spliced, todo, files, report, vastVars>>

WriteFails ==
  /\ stage = "copy" /\ todo = {} /\ stage' = "failed"
  /\ manifest' \in {manifest, Partial, Output}
  /\ UNCHANGED <<input, creative, ad, spliced, todo, files, report, vastVars>>

(* Every step can fail, and does if its guard is not met: a file that cannot *)
(* be read or parsed, an ad that cannot be had, a splice that is refused.    *)
Fail ==
  /\ stage \in {"load", "resolve", "encode", "splice"} /\ stage' = "failed"
  /\ UNCHANGED <<input, creative, ad, spliced, todo, files, manifest, report, vastVars>>

Decode35(order) ==
  CASE input.source = "texts" -> RunSCTE35(input.cues)
    [] input.source = "manifest" -> RunSCTE35Manifest(input.cues, order)
    [] input.source = "mpd" -> RunSCTE35MPD(input.cues)
    [] input.source = "segment" -> RunSCTE35Segment(input.cues)

RunSCTE35Command ==
  /\ stage = "decode" /\ stage' = "done"
  /\ \E order \in SetToSeqs(DateRangeKeys) : report' = Decode35(order)
  /\ UNCHANGED <<input, creative, ad, spliced, todo, files, manifest, vastVars>>

Next ==
  \/ Begin \/ Load \/ Ask \/ Select \/ Encode \/ SpliceDash \/ SpliceHls
  \/ CopyFile \/ CopyFails \/ WriteManifest \/ WriteFails \/ Fail \/ RunSCTE35Command

Spec == Init /\ [][Next]_vars

----------------------------------------------------------------------------
(* The creative to download is the best progressive MP4 the ad offers, and   *)
(* the chain of wrappers to it was followed as it should be (Vast).          *)
BestCreative ==
  creative # NoMediaFile =>
    \E i \in DOMAIN fetched.media :
      /\ fetched.media[i] = creative /\ creative.mp4
      /\ \A j \in DOMAIN fetched.media : fetched.media[j].mp4 =>
           \/ fetched.media[j].bitrate < creative.bitrate
           \/ fetched.media[j].bitrate = creative.bitrate /\ j >= i

AdIsDecided == ChainIsFollowed /\ BestCreative

DashDone == stage = "done" /\ Dashing
HlsDone == stage = "done" /\ input.cmd = "stitch"

(* Where the break is, by the command line's own account: input.cue holds    *)
(* the Period it is in, as a number, and the time it starts and ends there.  *)
Original == Content[input.cue.period]
PeriodStart(period) == PeriodStartOrZero(period.start)
Pre == spliced[input.cue.period]
AdPeriod == spliced[input.cue.period + 1]
Post == spliced[input.cue.period + 2]

Reps(period) ==
  UNION {{<<i, j>> : j \in DOMAIN period.sets[i].reps} : i \in DOMAIN period.sets}
TemplateOf(period, ij) ==
  EffectiveSegmentTemplate(period.sets[ij[1]].reps[ij[2]], period.sets[ij[1]])

(* The segments a template lists: file number, duration, and when each plays *)
(* in the Period.                                                            *)
Listed(tpl) ==
  [k \in DOMAIN Numbers(tpl) |->
     [n |-> Numbers(tpl)[k], dur |-> ExpandTimeline(tpl.timeline)[k].dur]]
PlayedAt(tpl, k) == TicksToDuration(ExpandTimeline(tpl.timeline)[k].start - tpl.pto, tpl.timescale)

(* dash-stitch only takes out one run of segments: every segment before and  *)
(* after the break is listed still, in order, with its own file number and   *)
(* duration ("StartNumber advances so $Number$-templated URLs still resolve  *)
(* to the correct existing files", timeline.go:106), and every other Period  *)
(* is left alone.                                                            *)
SplitKeeps(all, pre, post) ==
  \E k, m \in 0 .. Len(all) :
    k <= m /\ pre = SubSeq(all, 1, k) /\ post = SubSeq(all, m + 1, Len(all))

SegmentsKept ==
  \E at \in DOMAIN Content :
    /\ SubSeq(spliced, 1, at - 1) = SubSeq(Content, 1, at - 1)
    /\ SubSeq(spliced, at + 3, Len(spliced)) = SubSeq(Content, at + 1, Len(Content))
    /\ \A ij \in Reps(Content[at]) :
         SplitKeeps(Listed(TemplateOf(Content[at], ij)),
                    Listed(TemplateOf(spliced[at], ij)), Listed(TemplateOf(spliced[at + 2], ij)))

ContentOutsideBreakKept == DashDone => SegmentsKept

(* What plays after the break plays when it did before: at its time in the   *)
(* presentation, give or take FormatDuration's last digit and what rounding  *)
(* the cue to the track's ticks (durationToTicks) moves it by.  Only for     *)
(* content that is regular: no gaps, no offset, distinct ids, Starts where   *)
(* needed.                                                                   *)
Near(a, b, tolerance) == a - b \in -tolerance .. tolerance
HalfTick(tpl) == 1 + Second \div (2 * tpl.timescale)

TimesKept ==
  \A ij \in Reps(Post) :
    LET was == TemplateOf(Original, ij)
        now == TemplateOf(Post, ij)
        skipped == Len(Listed(was)) - Len(Listed(now))
    IN  \A k \in DOMAIN Listed(now) :
          Near(PeriodStart(Post) + PlayedAt(now, k),
               PeriodStart(Original) + PlayedAt(was, skipped + k), Precision + HalfTick(was))

(* The ad starts where the cue says, when each track of the content before   *)
(* it is over, and content resumes where the break ends, each segment of it  *)
(* when it played before, to half a tick of the track: the code takes a cue  *)
(* that lies between two ticks for one at the nearer of them.  (By           *)
(* timeline.go:64-66 and ADR 0007 it should refuse one that is not exactly   *)
(* on a boundary "rather than approximate".)  A pre-encoded ad is as long as *)
(* the break within Epsilon; merging the end of a track of an encoded ad     *)
(* changes no total, and leaves no short segment behind a longer one.        *)
TrackTicks(tpl) == HLS!TotalDuration(ExpandTimeline(tpl.timeline))

TracksWhole ==
  \A ij \in Reps(AdPeriod) :
    LET tpl == TemplateOf(AdPeriod, ij)
        ends == ExpandTimeline(tpl.timeline)
        n == Len(ends)
    IN  /\ TrackTicks(tpl) = TrackTicks(TemplateOf(Muxed(creative)[1], ij))
        /\ n > 1 /\ ends[n - 1].dur # ends[n].dur =>
             TicksToDuration(ends[n].dur, tpl.timescale) >= MinSegmentDuration

AdAtCue ==
  DashDone /\ input.regular =>
    /\ Near(PeriodStart(AdPeriod), PeriodStart(Original) + input.cue.from, Precision)
    /\ Near(PeriodStart(Post), PeriodStart(Original) + input.cue.to, Precision)
    /\ TimesKept
    /\ \A ij \in Reps(Pre) :
         LET tpl == TemplateOf(Pre, ij)
         IN  Near(TicksToDuration(TrackTicks(tpl), tpl.timescale), input.cue.from, HalfTick(tpl))
    /\ IF FromVast THEN TracksWhole
       ELSE LET tpl == TemplateOf(AdPeriod, <<1, 1>>)
            IN  Near(TicksToDuration(TrackTicks(tpl), tpl.timescale),
                     input.cue.to - input.cue.from, Epsilon)

(* A command that succeeded wrote a manifest that lists only media that is   *)
(* there, each file holding the segment the content or the ad has under that *)
(* name; while a file is to copy, or if copying failed, there is no manifest *)
(* at all, not even a part.  prefixMediaPaths "rewrites every                 *)
(* Representation's Media/Initialization template" of the ad, "avoiding a     *)
(* filename collision", but passes over Representations that inherit theirs:  *)
(* their names are the content's, and nothing is said of them here.  Nor is   *)
(* it for input where names coincide for another reason (NamesDiffer).        *)
HoldsFiles(names, from, under) ==
  \A f \in names :
    f \in DOMAIN files /\ files[f] = [from |-> from, file |-> [f EXCEPT !.under = @ - under]]

OwnFiles(period) ==
  UNION {FilesOfRep(period.sets[ij[1]], period.sets[ij[1]].reps[ij[2]]) :
           ij \in {r \in Reps(period) : period.sets[r[1]].reps[r[2]].tpl # NoTemplate}}

(* The Period that gave way to three is the one the first cue names.         *)
SplitAt == PeriodOfCue(Content, ExtractCues(Content).cues[1])

DashOutputHolds ==
  \A p \in DOMAIN spliced :
    IF p = SplitAt + 1 THEN HoldsFiles(OwnFiles(spliced[p]), "ad", 1)
                       ELSE HoldsFiles(FilesOfPeriod(spliced[p]), "content", 0)

Shown(s) == [uri |-> s.uri, dur |-> s.dur, disc |-> s.disc, out |-> s.out, in |-> s.in]
Headed(playlist) == [playlist EXCEPT !.segments = <<>>]

Origin(s) ==
  IF s.ad THEN [from |-> "ad", file |-> ad.segments[s.id].uri]
          ELSE [from |-> "content", file |-> Content.segments[s.id].uri]

Holds(line, planned, segment) ==
  /\ Shown(line) = Shown(segment)
  /\ segment.uri \in DOMAIN files /\ files[segment.uri] = Origin(planned)

Lists(back, plan) ==
  /\ ~back.error /\ Headed(back.playlist) = Headed(spliced)
  /\ Len(back.playlist.segments) = Len(plan)
  /\ \A i \in DOMAIN plan :
       Holds(back.playlist.segments[i], plan[i], spliced.segments[i])

HlsOutputHolds ==
  Lists(ParsePlaylist(manifest[2]), HLS!SplicedSegments(Body(Content), Flight(ad), Options))

(* Names coincide if -out is the content's own directory; if dash-stitch is   *)
(* given files that are missing beside their MPD, or were put under "ad/" by  *)
(* an earlier splice; if an ad segment of stitch is renamed to what another   *)
(* one, or one of the content, is called.                                     *)
AreBeside(names, dir) == \A f \in names : f \in dir /\ f.under = 0

AdNamesDiffer ==
  \A a \in ToSet(Uris(ad)) :
    /\ Renamed(a) \notin ToSet(Uris(Content))
    /\ \A b \in ToSet(Uris(ad)) : Renamed(a) = Renamed(b) => a = b

NamesDiffer ==
  /\ ~input.inPlace
  /\ IF Dashing THEN /\ AreBeside(FilesOf(Content), input.dir)
                     /\ ~FromVast => AreBeside(OwnFiles(ad[1]), input.ad.dir)
                ELSE AdNamesDiffer

OutputIsComplete ==
  /\ todo # {} => manifest = NoManifest
  /\ DashDone /\ NamesDiffer => DashOutputHolds
  /\ HlsDone /\ NamesDiffer => HlsOutputHolds

(* scte35 reports the cues its input carries and nothing else, in the order  *)
(* of the lines, boxes or events, each as it was encoded, and says so of     *)
(* each text that cannot be read; cues of one DATERANGE line come in any     *)
(* order.  Of damaged input - a segment that is cut short or has a bad box,  *)
(* an MPD with a bad event - it reports every cue in the part that is whole, *)
(* or fails and reports none: never a part of them, never another cue.       *)
(* (emsg.go:97 and cmd_scte35.go:14-15 promise more: that only a clean end   *)
(* passes for the end of the file, and that what is malformed is skipped     *)
(* "rather than aborting the whole batch".)                                  *)
SaidAt(lines, at) == {lines[i].says : i \in {j \in DOMAIN lines : lines[j].at = at}}

SaysAll(lines, expected) ==
  /\ Len(lines) = Len(expected)
  /\ \A i \in DOMAIN lines :
       LET at == lines[i].at
       IN  at = expected[i].at /\ SaidAt(lines, at) = SaidAt(expected, at)

CuesAreReported ==
  stage = "done" /\ input.cmd = "scte35" =>
    /\ \/ SaysAll(report.lines, input.expected)
       \/ input.damaged /\ report = NoReport
    /\ report.exit = "0" <=>
         /\ report.lines # <<>>
         /\ \A i \in DOMAIN report.lines : report.lines[i].says # Unreadable

=============================================================================
