----------------------------- MODULE MCCommands -----------------------------
(***************************************************************************)
(* Small instance of Commands: 24 units to the second, 10s segments, times   *)
(* written to a quarter of a second; video counts thirds of a second, audio  *)
(* sixths.                                                                   *)
EXTENDS Commands

----------------------------------------------------------------------------
(* dash-stitch: content of one Period of 23 video ticks, or of two.          *)
VideoA == <<S(0, 7, 0), S(Absent, 5, 1), S(Absent, 6, 0)>>
VideoB == <<S(0, 7, 0), S(7, 5, 0), S(12, 5, 0), S(17, 6, 0)>>
Audio == <<S(0, 14, 0), S(Absent, 10, 0), S(Absent, 5, 1), S(Absent, 12, 0)>>
VideoGap == <<S(0, 7, 0), S(8, 5, 1)>>
VideoNone == <<S(0, 7, -1)>>

AtReps(video, audio) ==
  <<AdaptationSet(NoTemplate, <<Representation("v", video)>>),
    AdaptationSet(NoTemplate, <<Representation("a", audio)>>)>>
AtSets(video, audio) ==
  <<AdaptationSet(video, <<Representation("v", NoTemplate), Representation("w", video)>>),
    AdaptationSet(audio, <<Representation("a", NoTemplate)>>)>>

V(timeline) == Template("chunk", 3, 1, 0, timeline)
A(timeline) == Template("chunk", 6, 1, 0, timeline)

Insert35(event, cancel) ==
  XmlSection(XmlInsert(event, cancel, TRUE, FALSE, [time |-> [pts |-> 90]],
                       BreakDuration(TRUE, 30)), Nil)
Out35 == Insert35(9, FALSE)
Signal35 == XmlSection(Nil, [pts |-> Absent])
Neither35 == XmlSection(Nil, Nil)

(* A stream of another scheme, and an event without a section, come first.   *)
StreamsIn(timescale, time, duration, section) ==
  <<EventStream(FALSE, 3, <<Event(1, 1, 1, Out35)>>),
    EventStream(TRUE, timescale, <<Event(2, 2, 2, Nil), Event(3, time, duration, section)>>)>>
Streams(time, duration, section) == StreamsIn(3, time, duration, section)

Breaks == {<<7, 5>>, <<7, 10>>, <<0, 7>>, <<17, 6>>, <<0, 23>>, <<7, 4>>, <<8, 4>>,
           <<12, Absent>>, <<Absent, 7>>, <<12, 5>>}
Units(ticks) == IF ticks = Absent THEN 0 ELSE 8 * ticks
CueAt(n, b) == [period |-> n, from |-> Units(b[1]), to |-> Units(b[1]) + Units(b[2])]

PT(minutes, units) ==
  XsDuration(FALSE, <<Digits(minutes), Unit("M"), Digits(units), Unit("S")>>)
Starts == {NoDuration, XsDuration(FALSE, <<>>), PT(1, 31), XsDuration(TRUE, <<>>),
           XsDuration(FALSE, <<Unit("S")>>), XsDuration(FALSE, <<Digits(1), Digits(2), Unit("S")>>)}

One(start, b, section, sets) ==
  <<Period(<<"p">>, start, Streams(b[1], b[2], section), sets)>>
Two(first, second, b, start) ==
  <<Period(first, NoDuration, <<>>, AtReps(V(VideoA), A(Audio))),
    Period(second, start, Streams(b[1], b[2], Signal35), AtReps(V(VideoB), A(Audio)))>>

Doc(content, period, b, regular) ==
  [content |-> content, cue |-> CueAt(period, b), regular |-> regular]

(* Cues between two ticks, in units: the first three round to boundaries of  *)
(* both tracks, the others miss one of the audio's.                          *)
OffTicks == {<<57, 40>>, <<54, 42>>, <<136, 46>>, <<59, 37>>, <<52, 44>>}
OffTick(b) ==
  [content |-> <<Period(<<"p">>, NoDuration, StreamsIn(24, b[1], b[2], Out35),
                        AtReps(V(VideoA), A(Audio)))>>,
   cue |-> [period |-> 1, from |-> b[1], to |-> b[1] + b[2]], regular |-> TRUE]

Contents ==
  {OffTick(b) : b \in OffTicks}
  \cup {Doc(One(start, b, Out35, AtReps(V(VideoA), A(Audio))), 1, b, TRUE) :
     start \in Starts, b \in {<<7, 5>>, <<17, 6>>}}
  \cup {Doc(One(PT(1, 31), b, Out35, AtReps(V(VideoB), A(Audio))), 1, b, TRUE) : b \in Breaks}
  \cup {Doc(One(NoDuration, b, Signal35, AtSets(V(VideoA), A(Audio))), 1, b, TRUE) : b \in Breaks}
  \cup {Doc(Two(<<"p">>, <<"q">>, b, PT(0, 184)), 2, b, TRUE) : b \in Breaks}
  \cup {Doc(Two(<<>>, <<>>, <<7, 5>>, PT(0, 184)), 2, <<7, 5>>, FALSE),
        Doc(Two(<<"p">>, <<"q">>, <<7, 5>>, NoDuration), 2, <<7, 5>>, FALSE),
        Doc(One(NoDuration, <<8, 5>>, Out35, AtReps(V(VideoGap), V(VideoGap))), 1, <<8, 5>>, FALSE),
        Doc(One(NoDuration, <<0, 7>>, Out35, AtReps(V(VideoNone), A(Audio))), 1, <<0, 7>>, FALSE),
        Doc(One(NoDuration, <<7, 5>>, Neither35, AtReps(V(VideoA), A(Audio))), 1, <<7, 5>>, TRUE),
        Doc(One(NoDuration, <<7, 5>>, Nil, AtReps(V(VideoA), A(Audio))), 1, <<7, 5>>, TRUE),
        Doc(One(NoDuration, <<7, 5>>, Out35, AtReps(V(VideoA), Untimed("chunk"))), 1, <<7, 5>>, TRUE),
        Doc(One(NoDuration, <<7, 5>>, Out35,
                AtReps([V(VideoA) EXCEPT !.startNumber = 0], A(Audio))), 1, <<7, 5>>, TRUE),
        Doc(One(NoDuration, <<7, 5>>, Out35,
                AtReps([V(VideoA) EXCEPT !.pto = 7], A(Audio))), 1, <<7, 5>>, FALSE)}

(* The files of the content's directory: a template without startNumber      *)
(* (read as 0) numbers its files from 1; a previous splice left "ad/".       *)
DirOf(mpd) ==
  {[g EXCEPT !.n = IF g.n = 0 THEN 4 ELSE @] : g \in FilesOf(mpd)}
    \cup {[under |-> 1, stem |-> "chunk", rep |-> "v", n |-> 1]}

AdOf(ticks, Sets(_, _)) ==
  <<Period(<<"0">>, NoDuration, <<>>,
           Sets(V(<<S(0, ticks, 0)>>), A(<<S(0, ticks, 1)>>)))>>
FileAd(list) == [from |-> "file", list |-> list, dir |-> FilesOf(list)]
VastAd == [from |-> "vast"]

(* An ad as long as the break, one that is not, ads that cannot be measured. *)
AdsFor(b) ==
  {FileAd(AdOf(IF b[2] = Absent THEN 7 ELSE b[2], AtReps)), FileAd(AdOf(9, AtReps))}
OddAds ==
  {FileAd(<<>>), FileAd(<<Period(<<"0">>, NoDuration, <<>>, <<>>)>>),
   FileAd(<<Period(<<"0">>, NoDuration, <<>>, AtReps(Untimed("x"), Untimed("x")))>>),
   FileAd(<<Period(<<"0">>, NoDuration, <<>>, AtReps(V(<<>>), A(<<>>)))>>)}

Dashed(doc, adSource, inPlace) ==
  [cmd |-> "dash-stitch", content |-> doc.content, dir |-> DirOf(doc.content), ad |-> adSource,
   cue |-> doc.cue, regular |-> doc.regular, inPlace |-> inPlace]

Plain == Doc(One(NoDuration, <<7, 5>>, Out35, AtReps(V(VideoA), A(Audio))), 1, <<7, 5>>, TRUE)

BreakOf(doc) == <<0, (doc.cue.to - doc.cue.from + 4) \div 8>>

DashInputs ==
  UNION {{Dashed(d, a, FALSE) : a \in AdsFor(BreakOf(d))} : d \in Contents}
  \cup {Dashed(Plain, a, FALSE) : a \in OddAds \cup {VastAd}}
  \cup {Dashed(Plain, FileAd(AdOf(5, AtSets)), FALSE),
        Dashed(Plain, FileAd(AdOf(5, AtReps)), TRUE)}

----------------------------------------------------------------------------
(* stitch.                                                                   *)
Uri(prefix, n) == [prefix |-> prefix, n |-> n]
Media(tags, dur, uri) == tags \o <<Line("EXTINF", dur), Line("URI", uri)>>
Header == <<Tag("EXTM3U"), Line("VERSION", 3), Line("TARGETDURATION", 2)>>

CueOut == Line("CUE-OUT", 96)
Show == Header \o Media(<<>>, 48, Uri(0, 1)) \o Media(<<CueOut>>, 40, Uri(0, 2))
          \o Media(<<Line("CUE-OUT-CONT", 96)>>, 56, Uri(0, 3))
          \o Media(<<Tag("CUE-IN")>>, 48, Uri(0, 1))
          \o Media(<<Line("CUE-OUT", Garbage), Tag("DISCONTINUITY")>>, 96, Uri(0, 5))
          \o Media(<<Tag("CUE-IN"), CueOut>>, 48, Uri(0, 6)) \o <<Tag("ENDLIST")>>
AtEdges == Header \o <<Line("MEDIASEQUENCE", 0), Line("PLAYLIST-TYPE", "VOD")>>
             \o Media(<<CueOut>>, 96, Uri(0, 1)) \o Media(<<Tag("CUE-IN")>>, 48, Uri(0, 2))
Unclosed == Header \o Media(<<CueOut>>, 96, Uri(0, 1)) \o <<Tag("CUE-IN")>>
Prefixed == Header \o Media(<<>>, 48, Uri(1, 1)) \o Media(<<CueOut>>, 96, Uri(0, 2))
              \o Media(<<Tag("CUE-IN")>>, 48, Uri(0, 3))
Broken == {Header \o <<Line("URI", Uri(0, 1))>>, Header \o <<Line("EXTINF", Garbage)>>,
           Header \o <<Line("STREAM-INF", Bare)>>, <<Line("VERSION", Garbage)>>}

AdOne == Header \o Media(<<Tag("CUE-IN")>>, 48, Uri(0, 1)) \o Media(<<>>, 48, Uri(1, 2))
AdTwo == Header \o Media(<<>>, 48, Uri(0, 1)) \o Media(<<>>, 49, Uri(1, 1))
AdShort == Header \o Media(<<>>, 30, Uri(0, 1))

Stitched(content, adSource, inPlace) ==
  [cmd |-> "stitch", content |-> content,
   dir |-> ToSet(Uris(ParsePlaylist(content).playlist)), ad |-> adSource,
   inPlace |-> inPlace]
ListAd(lines) == [from |-> "file", list |-> lines]

HlsInputs ==
  {Stitched(c, a, FALSE) :
     c \in {Show, AtEdges, Unclosed} \cup Broken,
     a \in {ListAd(AdOne), ListAd(AdShort), ListAd(<<Line("URI", Uri(0, 1))>>), VastAd}}
  \cup {Stitched(Show, ListAd(AdTwo), FALSE), Stitched(Prefixed, ListAd(AdOne), FALSE),
        Stitched(Show, ListAd(AdOne), TRUE)}

----------------------------------------------------------------------------
(* What ad servers answer.                                                   *)
Mp4(bitrate, total, tail) == [mp4 |-> TRUE, bitrate |-> bitrate, total |-> total, tail |-> tail]
Hls(bitrate) == [mp4 |-> FALSE, bitrate |-> bitrate, total |-> 96, tail |-> 0]

MCMediaFiles ==
  {Hls(900), Mp4(0, 600, 2), Mp4(100, 600, 30), Mp4(300, 600, 2), Mp4(700, 240, 2),
   Mp4(700, 600, 30)}

MCAnswers ==
  {Unreachable, Malformed, Document(<<>>),
   Document(<<Ad("with URI", NoInLine), Ad("none", NoInLine)>>),
   Document(<<Ad("without URI", NoInLine)>>), Document(<<Ad("none", NoInLine)>>),
   Document(<<Ad("none", InLine(<<<<>>>>))>>),
   Document(<<Ad("none", InLine(<<<<Hls(900)>>>>))>>),
   Document(<<Ad("none", InLine(<<<<Hls(900), Mp4(300, 600, 2)>>,
                                  <<Mp4(700, 240, 2), Mp4(700, 600, 30)>>>>))>>),
   Document(<<Ad("none", InLine(<<<<Mp4(100, 600, 30)>>>>))>>),
   Document(<<Ad("none", InLine(<<<<Mp4(0, 600, 2)>>>>)), Ad("none", NoInLine)>>)}

----------------------------------------------------------------------------
(* scte35: a message and what it means.                                      *)
Message(data, means) == [data |-> data, means |-> means]
ProgramInsert == BuildSpliceInsert(7, TRUE, 90, 30, 1)

Messages ==
  <<Message(BuildSection(5, ProgramInsert, 0, 0),
            <<"splice_insert", 7, "CUE-OUT", "pts", 90, "duration", 30>>),
    Message(BuildSection(5, BuildSpliceInsert(8, FALSE, 120, 0, 1), 9, 0),
            <<"splice_insert", 8, "CUE-IN", "pts", 120>>),
    Message(BuildSection(5, <<Cell(9, 32), Cell(1, 1), Cell(127, 7)>>, 0, 2),
            <<"splice_insert", 9, "CANCEL">>),
    (* two components, the second without a time, and a duration *)
    Message(BuildSection(5, <<Cell(10, 32), Cell(0, 1), Cell(127, 7), Cell(1, 1), Cell(0, 1),
                              Cell(1, 1), Cell(0, 1), Cell(15, 4), Cell(2, 8), Cell(1, 8)>>
                              \o BuildSpliceTime(60)
                              \o <<Cell(2, 8), Cell(0, 1), Cell(127, 7)>>
                              \o BuildBreakDuration(45)
                              \o <<Cell(1, 16), Cell(0, 8), Cell(0, 8)>>, 3, 1),
            <<"splice_insert", 10, "CUE-OUT", "duration", 45>>),
    (* immediate, one component *)
    Message(BuildSection(5, <<Cell(11, 32), Cell(0, 1), Cell(127, 7), Cell(1, 1), Cell(0, 1),
                              Cell(0, 1), Cell(1, 1), Cell(15, 4), Cell(1, 8), Cell(4, 8),
                              Cell(1, 16), Cell(0, 8), Cell(0, 8)>>, 0, 0),
            <<"splice_insert", 11, "CUE-OUT", "immediate">>),
    Message(BuildSection(6, BuildSpliceTime(75), 4, 0), <<"time_signal", "pts", 75>>),
    Message(BuildSection(6, <<Cell(0, 1), Cell(127, 7)>>, 0, 0), <<"time_signal", "unspecified">>),
    Message(BuildSection(255, <<Cell(5, 24)>>, 0, 0), <<"undecoded", 255, 3>>),
    Message(BuildSection(0, <<>>, 0, 0), <<"undecoded", 0, 0>>)>>

NotACue == Layout(<<Cell(71, 8), Cell(0, 200)>>)
Text(encoding, i) == CueText(encoding, Messages[i].data)

(* Every message, then each prefix of it.                                    *)
CutAt(i) ==
  [k \in 1 .. Messages[i].data.bits \div 8 |->
     CueText(IF k % 2 = 0 THEN "hex" ELSE "base64",
             Truncated(Messages[i].data, Messages[i].data.bits \div 8 - k + 1))]

Says35(at, means) == [at |-> at, says |-> means]

(* A command line, and the lines it should print if its input is whole.      *)
Report35(source, cues, expected) ==
  [cmd |-> "scte35", source |-> source, cues |-> cues, expected |-> expected,
   damaged |-> FALSE]
Damaged35(source, cues, expected) ==
  [Report35(source, cues, expected) EXCEPT !.damaged = TRUE]

TextInputs ==
  {LET cut == CutAt(i)
    IN Report35("texts", cut,
            [k \in DOMAIN cut |-> Says35(<<k>>, IF k = 1 THEN Messages[i].means ELSE Unreadable)]) :
     i \in DOMAIN Messages}
  \cup {Report35("texts", <<CueText("neither", NotACue), CueText("base64", NotACue), Text("hex", 1)>>,
                 <<Says35(<<1>>, Unreadable), Says35(<<2>>, Unreadable),
                   Says35(<<3>>, Messages[1].means)>>),
        Report35("texts", <<>>, <<>>)}

DateRange(out, in, cmd) ==
  CueLine("DATERANGE", ("SCTE35-OUT" :> out) @@ ("SCTE35-IN" :> in) @@ ("SCTE35-CMD" :> cmd))

ManifestInputs ==
  {Report35("manifest",
     <<CueLine("OATCLS", "value" :> Text("base64", 1)), CueLine("EXTINF", <<>>),
       DateRange(Text("hex", i), NoText, Text("hex", 6)), CueLine("OATCLS", "value" :> NoText),
       CueLine("CUEOUTCONT", "SCTE35" :> Text("base64", 3)), CueLine("CUEOUTCONT", <<>>),
       CueLine("SCTE35", "CUE" :> Text("hex", 2))>>,
     <<Says35(<<1>>, Messages[1].means), Says35(<<3>>, Messages[i].means),
       Says35(<<3>>, Messages[6].means), Says35(<<5>>, Messages[3].means),
       Says35(<<7>>, Unreadable)>>) : i \in {2, 5}}
  \cup {Report35("manifest", <<CueLine("EXTINF", <<>>)>>, <<>>)}

Said9 == Says35(<<3, 56>>, <<"splice_insert", 9, "CUE-OUT", "pts", 90, "duration", 30>>)

MpdInputs ==
  {Report35("mpd", One(NoDuration, <<7, 5>>, Out35, <<>>) \o Two(<<"p">>, <<"q">>, <<2, 2>>, NoDuration),
            <<Said9, Says35(<<3, 16>>, <<"time_signal", "unspecified">>)>>),
   Report35("mpd", One(NoDuration, <<3, 5>>, Insert35(8, TRUE), <<>>)
                     \o One(NoDuration, <<7, 5>>, Out35, <<>>),
            <<Says35(<<3, 24>>, <<"splice_insert", 8, "CANCEL">>), Said9>>),
   Damaged35("mpd", One(NoDuration, <<7, 5>>, Out35, <<>>) \o One(NoDuration, <<3, 5>>, Neither35, <<>>),
             <<Said9>>),
   Damaged35("mpd", One(NoDuration, <<7, 5>>, Neither35, <<>>), <<>>)}

(* Segments: boxes and how far the file goes.  An emsg is followed by what   *)
(* its cue is reported as.                                                   *)
Emsg0(scheme, ts, delta, dur, id, message) ==
  Layout(<<Cell(0, 8), Cell(0, 24), Cell(scheme, 56), Cell(0, 8), Cell(ts, 32), Cell(delta, 32),
           Cell(dur, 32), Cell(id, 32)>> \o message)
Emsg1(scheme, ts, time, dur, id, message) ==
  Layout(<<Cell(1, 8), Cell(0, 24), Cell(ts, 32), Cell(time, 64), Cell(dur, 32), Cell(id, 32),
           Cell(scheme, 56), Cell(0, 16)>> \o message)

SignalCells ==     \* the message of a time_signal, cell by cell
  <<Cell(TableId, 8), Cell(0, 1), Cell(0, 1), Cell(3, 2), Cell(22, 12), Cell(0, 8), Cell(0, 1),
    Cell(0, 6), Cell(0, 33), Cell(0, 8), Cell(0, 12), Cell(5, 12), Cell(6, 8)>>
    \o BuildSpliceTime(75) \o <<Cell(0, 16), Cell(0, 32)>>
Signal == <<"time_signal", "pts", 75>>

Moof == Box("moof", "plain", Layout(<<Cell(0, 160)>>))
V0 == Box("emsg", "plain", Emsg0(SchemeSCTE35Bin, 3, 7, 5, 21, SignalCells))
V1 == Box("emsg", "large", Emsg1(SchemeSCTE35Bin, 3, 7, UnknownDuration, 22, SignalCells))
Id3 == Box("emsg", "plain", Emsg0(3, 3, 7, 5, 23, <<>>))
Rest(box) == [box EXCEPT !.form = "rest"]

BoxSaid(box) ==
  CASE box = V0 -> <<Says35(<<21, 0, 56, 40>>, Signal)>>
    [] box \in {V1, Rest(V1)} -> <<Says35(<<22, 1, 56, Absent>>, Signal)>>
    [] OTHER -> <<>>

BoxBytes(box) == HeaderBytes(box) + BodyBytes(box)
EndOfBox(boxes, k) == FoldLeft(LAMBDA sum, b : sum + BoxBytes(b), 0, SubSeq(boxes, 1, k))

(* What the boxes say that a file of so many bytes has as a whole.           *)
Whole(boxes, bytes) == Max({k \in 0 .. Len(boxes) : EndOfBox(boxes, k) <= bytes})

SegmentSaid(boxes, bytes) ==
  FlattenSeq([i \in 1 .. Whole(boxes, bytes) |-> BoxSaid(boxes[i])])

SegmentFile(boxes, bytes) ==
  [Report35("segment", [boxes |-> boxes, bytes |-> bytes], SegmentSaid(boxes, bytes))
     EXCEPT !.damaged = bytes < EndOfBox(boxes, Len(boxes))]

(* A size less than its header's, an unknown version, a message that is no   *)
(* cue: each after a cue that is whole.                                      *)
BadBoxes ==
  {Box("moof", "small", Layout(<<>>)), Box("emsg", "plain", Layout(<<Cell(2, 8), Cell(0, 24)>>)),
   Box("emsg", "plain", Emsg0(SchemeSCTE35Bin, 3, 7, 5, 24, <<Cell(71, 8)>>))}

NoTimescale == Box("emsg", "plain", Emsg0(SchemeSCTE35Bin, 0, 7, 5, 1, SignalCells))

Segments == {<<Moof, V0, Id3, V1>>, <<V0, Rest(V1)>>}
SegmentInputs ==
  UNION {{SegmentFile(b, n) : n \in 0 .. EndOfBox(b, Len(b))} : b \in Segments}
  \cup {Damaged35("segment", [boxes |-> <<V0, bad>>, bytes |-> 1000], BoxSaid(V0)) : bad \in BadBoxes}
  \cup {Report35("segment", [boxes |-> <<NoTimescale>>, bytes |-> 1000],
                 <<Says35(<<1, 0, Undefined, Undefined>>, Signal)>>)}

MCInputs ==
  DashInputs \cup HlsInputs \cup TextInputs \cup ManifestInputs \cup MpdInputs \cup SegmentInputs
=============================================================================
