----------------------------- MODULE CueSources -----------------------------
(***************************************************************************)
(* Where cues come from, and the report `stitchpoint scte35` prints of them: *)
(* the tags of an HLS playlist (internal/hls), the emsg boxes of a media     *)
(* segment and the events of an MPD (internal/mpd), or cues given one by one.*)
(***************************************************************************)
EXTENDS Dash

(* A cue as text: an encoded message, in base64, in hex or in neither.       *)
CueText(encoding, data) == [encoding |-> encoding, data |-> data]
NoText == [encoding |-> "none"]

(* ParseBase64, ParseHex.  Hex is base64 too, but the bytes it then stands   *)
(* for never begin with the table_id; base64 begins with a /, which is not   *)
(* hex.                                                                      *)
ParseBase64(text) ==
  IF text.encoding = "base64" THEN Parse(text.data) ELSE Refusal("base64")
ParseHex(text) == IF text.encoding = "hex" THEN Parse(text.data) ELSE Refusal("hex")

(* CueRef.Decode, and decodeCue of the command.                              *)
Decode(cue) == IF cue.hex THEN ParseHex(cue.text) ELSE ParseBase64(cue.text)
OrElse(section, other) == IF section.error = "none" THEN section ELSE other
DecodeCue(text) == OrElse(ParseBase64(text), ParseHex(text))

----------------------------------------------------------------------------
(* hls.ExtractCues.  A line is its tag and its attributes, each a CueText or *)
(* NoText; tags with a single value have it as attribute "value".            *)
CueLine(tag, attrs) == [tag |-> tag, attrs |-> attrs]
Attribute(line, name) == IF name \in DOMAIN line.attrs THEN line.attrs[name] ELSE NoText

DateRangeKeys == {"SCTE35-OUT", "SCTE35-IN", "SCTE35-CMD"}
SingleKey == [OATCLS |-> "value", CUEOUTCONT |-> "SCTE35", SCTE35 |-> "CUE"]

(* Of a DATERANGE the attributes come in the order of a map, any order;      *)
(* sortByLine, stable, leaves the cues of a line in that order.              *)
KeysOf(line, order) ==
  CASE line.tag \in DOMAIN SingleKey -> <<SingleKey[line.tag]>>
    [] line.tag = "DATERANGE" -> order
    [] OTHER -> <<>>

LineCues(n, line, order) ==
  LET keys == SelectSeq(KeysOf(line, order), LAMBDA k : Attribute(line, k) # NoText)
  IN  [k \in DOMAIN keys |->
         [line |-> n, tag |-> line.tag, hex |-> line.tag = "DATERANGE",
          text |-> Attribute(line, keys[k])]]

HlsCues(lines, order) ==
  FlattenSeq([n \in DOMAIN lines |-> LineCues(n, lines[n], order)])

----------------------------------------------------------------------------
(* ExtractEmsgCues.  A box is its type, how its header gives its size -       *)
(* "plain", "large" for a largesize, "rest" for a size of 0, "small" for less *)
(* than the header itself - and its body.  A file is its boxes and how many   *)
(* of its bytes there are.                                                    *)
Box(type, form, body) == [type |-> type, form |-> form, body |-> body]
HeaderBytes(box) == IF box.form = "large" THEN 16 ELSE 8
BodyBytes(box) == box.body.bits \div 8

UnknownDuration == 2147483647     \* for 0xFFFFFFFF
Undefined == -2                   \* what dividing by a timescale of 0 yields

(* readCString: a string and its terminator, however long.                   *)
ReadCString(data, r) ==
  ReadBits(data, r, IF r.pos \in DOMAIN data.at THEN data.at[r.pos].w ELSE data.bits)

From(data, pos) ==
  [bits |-> data.bits - pos,
   at |-> [p \in {q - pos : q \in {b \in DOMAIN data.at : b >= pos}} |-> data.at[p + pos]]]

EmsgTime(ticks, timescale) ==
  IF timescale = 0 THEN Undefined ELSE TicksToDuration(ticks, timescale)

EmsgFields(r, scheme, timescale, time, duration, id) ==
  [ok |-> r.ok, pos |-> r.pos, version |-> r.v[1], scheme |-> r.v[scheme],
   timescale |-> r.v[timescale], time |-> r.v[time], duration |-> r.v[duration],
   id |-> r.v[id]]

(* The strings come before the numbers in version 0, after them in 1.        *)
ReadEmsg0(body, head) ==
  EmsgFields(ReadFields(body, ReadCString(body, ReadCString(body, head)), <<32, 32, 32, 32>>),
             3, 5, 6, 7, 8)
ReadEmsg1(body, head) ==
  EmsgFields(ReadCString(body, ReadCString(body, ReadFields(body, head, <<32, 64, 32, 32>>))),
             7, 3, 4, 5, 6)

ReadEmsgAfter(body, head) ==
  CASE head.ok /\ head.v[1] = 0 -> ReadEmsg0(body, head)
    [] head.ok /\ head.v[1] = 1 -> ReadEmsg1(body, head)
    [] OTHER -> [ok |-> FALSE]

ReadEmsg(body) == ReadEmsgAfter(body, ReadFields(body, NewBitReader, <<8, 24>>))

SchemeSCTE35Bin == 214            \* stands for the scheme's URI

(* decodeEmsg: an error, no cue (another scheme) or one cue.                 *)
EmsgCue(emsg, section) ==
  [id |-> emsg.id, version |-> emsg.version, time |-> EmsgTime(emsg.time, emsg.timescale),
   duration |-> IF emsg.duration = UnknownDuration THEN Absent
                ELSE EmsgTime(emsg.duration, emsg.timescale),
   section |-> section]

NoEmsg == [ok |-> FALSE, cues |-> <<>>]
CuesOfEmsg(emsg, section) ==
  IF section.error = "none" THEN [ok |-> TRUE, cues |-> <<EmsgCue(emsg, section)>>]
                            ELSE NoEmsg

DecodeEmsgAfter(body, emsg) ==
  CASE ~emsg.ok -> NoEmsg
    [] emsg.ok /\ emsg.scheme # SchemeSCTE35Bin -> [ok |-> TRUE, cues |-> <<>>]
    [] emsg.ok /\ emsg.scheme = SchemeSCTE35Bin ->
         CuesOfEmsg(emsg, Parse(From(body, emsg.pos)))

DecodeEmsg(body) == DecodeEmsgAfter(body, ReadEmsg(body))

(* The walk from box to box.  A header that is cut short, or a largesize of  *)
(* which no byte is there, passes for the end of the file; a body does not.  *)
Walk(status, pos, cues) == [status |-> status, pos |-> pos, cues |-> cues]

TakeBody(scan, box, emsg) ==
  IF emsg.ok
    THEN Walk(IF box.form = "rest" THEN "end" ELSE "walking",
              scan.pos + HeaderBytes(box) + BodyBytes(box), scan.cues \o emsg.cues)
    ELSE Walk("failed", scan.pos, <<>>)

(* The first bytes of a header, and whether the body that follows is there.  *)
Least(box) == 8 + (IF box.form = "large" THEN 1 ELSE 0)
There(box, left) ==
  CASE box.form = "rest" -> TRUE
    [] box.form \in {"plain", "large"} -> left - HeaderBytes(box) >= BodyBytes(box)
    [] OTHER -> FALSE

BodyOf(box, left) ==
  IF box.form = "rest" THEN Truncated(box.body, left - HeaderBytes(box)) ELSE box.body

TakeBox(scan, box, left) ==
  TakeBody(scan, box, IF box.type = "emsg" THEN DecodeEmsg(BodyOf(box, left))
                                           ELSE [ok |-> TRUE, cues |-> <<>>])

WalkBox(bytes, scan, box) ==
  CASE scan.status # "walking" -> scan
    [] scan.status = "walking" /\ bytes - scan.pos < Least(box) ->
         Walk("end", scan.pos, scan.cues)
    [] scan.status = "walking" /\ bytes - scan.pos >= Least(box)
         /\ There(box, bytes - scan.pos) -> TakeBox(scan, box, bytes - scan.pos)
    [] OTHER -> Walk("failed", scan.pos, <<>>)

ExtractEmsgCues(file) ==
  FoldLeft(LAMBDA scan, box : WalkBox(file.bytes, scan, box), Walk("walking", 0, <<>>),
           file.boxes)

----------------------------------------------------------------------------
(* The report: its lines, and how the command ends: 0, 1 after lines about   *)
(* cues that could not be decoded, or with an error and no line at all.      *)
Report(exit, lines) == [exit |-> exit, lines |-> lines]
NoReport == Report("error", <<>>)
Unreadable == <<"unreadable">>

Says(section) == IF section.error = "none" THEN Describe(section) ELSE Unreadable

ReportEach(lines) ==
  CASE lines = <<>> -> NoReport
    [] \E i \in DOMAIN lines : lines[i].says = Unreadable -> Report("1", lines)
    [] OTHER -> Report("0", lines)

RunSCTE35(texts) ==
  ReportEach([i \in DOMAIN texts |-> [at |-> <<i>>, says |-> Says(DecodeCue(texts[i]))]])

ReportLines(cues) ==
  ReportEach([i \in DOMAIN cues |-> [at |-> <<cues[i].line>>, says |-> Says(Decode(cues[i]))]])
RunSCTE35Manifest(lines, order) == ReportLines(HlsCues(lines, order))

ReportEvents(cues) ==
  ReportEach([i \in DOMAIN cues |->
                [at |-> <<cues[i].event, cues[i].time>>, says |-> Says(cues[i].section)]])
RunSCTE35MPD(mpd) == ReportEvents(ExtractCues(mpd).cues)

ReportBoxes(cues) ==
  ReportEach([i \in DOMAIN cues |->
                [at |-> <<cues[i].id, cues[i].version, cues[i].time, cues[i].duration>>,
                 says |-> Says(cues[i].section)]])
RunSCTE35Segment(file) == ReportBoxes(ExtractEmsgCues(file).cues)
=============================================================================
