------------------------------- MODULE Scte35 -------------------------------
(***************************************************************************)
(* internal/scte35: decode a splice_info_section.  A message is laid out as  *)
(* its encoder wrote it: data.at maps the bit position of each bit field to  *)
(* its width and value, data.bits is the length of what has arrived, which   *)
(* may be less.  Reading with another width, or between two fields, gives    *)
(* bits of both: Garbled.                                                    *)
(***************************************************************************)
EXTENDS Integers, Sequences, SequencesExt, TLC

Garbled == -1
TableId == 252             \* expectedTableID
CommandSpliceNull == 0
CommandSpliceInsert == 5
CommandTimeSignal == 6

Nil == [nil |-> TRUE]
NoCommand == [command |-> "none"]

(* A definition named X_Y is a mutant of X: X with a plausible bug in it,    *)
(* used only to show that the properties would notice.                      *)

----------------------------------------------------------------------------
(* bitReader: where it stands, whether all was there so far, and the values  *)
(* read, in order.  A read past the end fails, and every later one with it:  *)
(* what it yields is of no consequence.                                      *)
NewBitReader == [pos |-> 0, ok |-> TRUE, v |-> <<>>]

BitsAt(data, pos, n) ==
  IF pos \in DOMAIN data.at /\ data.at[pos].w = n THEN data.at[pos].v ELSE Garbled

SkipBits(data, r, n) ==
  IF r.ok /\ data.bits - r.pos >= n THEN [r EXCEPT !.pos = @ + n]
                                    ELSE [r EXCEPT !.ok = FALSE]

ReadBits(data, r, n) ==
  [SkipBits(data, r, n) EXCEPT !.v = Append(@, BitsAt(data, r.pos, n))]

ReadFields(data, r, widths) ==
  FoldLeft(LAMBDA s, n : ReadBits(data, s, n), r, widths)

(* A value that takes no bits.                                               *)
Push(r, value) == [r EXCEPT !.v = Append(@, value)]

----------------------------------------------------------------------------
(* Each of the following reads one value, put after those read before.       *)
SpliceTime(pts) == [specified |-> TRUE, pts |-> pts]
Unspecified == [specified |-> FALSE, pts |-> 0]
BreakDuration(autoReturn, duration) == [autoReturn |-> autoReturn, duration |-> duration]

ReadPts(data, flag, reserved, before) ==
  [ReadBits(data, SkipBits(data, flag, reserved), 33) EXCEPT
     !.v = Append(before, SpliceTime(Last(@)))]

SpliceTimeAfter_SkipsSeven(data, flag, before) ==
  IF Last(flag.v) = 0 THEN Push([SkipBits(data, flag, 7) EXCEPT !.v = before], Unspecified)
                      ELSE ReadPts(data, flag, 7, before)

SpliceTimeAfter(data, flag, before) ==
  IF Last(flag.v) = 0 THEN Push([SkipBits(data, flag, 7) EXCEPT !.v = before], Unspecified)
                      ELSE ReadPts(data, flag, 6, before)

ParseSpliceTime(data, r) == SpliceTimeAfter(data, ReadBits(data, r, 1), r.v)

ParseBreakDuration(data, r) ==
  [ReadBits(data, SkipBits(data, ReadBits(data, r, 1), 6), 33) EXCEPT
     !.v = Append(r.v, BreakDuration(Last(Front(@)) = 1, Last(@)))]

(* One component of a component-level splice, and all of them.               *)
ComponentTime(data, tag, immediate) ==
  IF immediate THEN Push(tag, Nil) ELSE ParseSpliceTime(data, tag)

ParseComponent(data, r, immediate) ==
  [ComponentTime(data, ReadBits(data, r, 8), immediate) EXCEPT
     !.v = Append(r.v, [tag |-> Last(Front(@)), time |-> Last(@)])]

ComponentsAfter(data, count, immediate, before) ==
  [FoldLeft(LAMBDA s, k : ParseComponent(data, s, immediate), [count EXCEPT !.v = <<>>],
            [k \in 1 .. Last(count.v) |-> k]) EXCEPT !.v = Append(before, @)]

ParseComponents(data, r, immediate) ==
  ComponentsAfter(data, ReadBits(data, r, 8), immediate, r.v)

(* parseSpliceInsert.  The values are event id, cancel, out of network,      *)
(* program, duration flag and immediate; what follows depends on them.       *)
SpliceInsert(event) ==
  [command |-> "splice_insert", event |-> event, cancel |-> TRUE, out |-> FALSE,
   program |-> FALSE, immediate |-> FALSE, time |-> Nil, components |-> <<>>,
   duration |-> Nil, programId |-> 0]

InsertTime(data, r) ==
  IF r.v[4] = 1 /\ r.v[6] = 0 THEN ParseSpliceTime(data, r) ELSE Push(r, Nil)
InsertComponents(data, r) ==
  IF r.v[4] = 1 THEN Push(r, <<>>) ELSE ParseComponents(data, r, r.v[6] = 1)
InsertDuration(data, r) ==
  IF r.v[5] = 1 THEN ParseBreakDuration(data, r) ELSE Push(r, Nil)

InsertOf(v) ==
  [SpliceInsert(v[1]) EXCEPT
     !.cancel = FALSE, !.out = v[3] = 1, !.program = v[4] = 1, !.immediate = v[6] = 1,
     !.time = v[7], !.components = v[8], !.duration = v[9], !.programId = v[10]]

SpliceDetails(data, flags) ==
  [ReadFields(data, InsertDuration(data, InsertComponents(data, InsertTime(data, flags))),
              <<16, 8, 8>>) EXCEPT !.v = <<InsertOf(@)>>]

InsertAfter(data, head) ==
  IF head.v[2] = 1 THEN [head EXCEPT !.v = <<SpliceInsert(@[1])>>]
  ELSE SpliceDetails(data, SkipBits(data, ReadFields(data, head, <<1, 1, 1, 1>>), 4))

ParseSpliceInsert(data, r) ==
  InsertAfter(data, SkipBits(data, ReadFields(data, r, <<32, 1>>), 7))

TimeSignal(time) == [command |-> "time_signal", time |-> time]
RawCommand(type, bytes) == [command |-> "raw", type |-> type, bytes |-> bytes]

(* parseSpliceCommand: the declared length counts only for a command that is *)
(* not decoded; splice_null has no body.                                     *)
ParseSpliceCommand(data, r, type, declaredLen) ==
  CASE type = CommandSpliceNull -> Push(r, RawCommand(type, 0))
    [] type = CommandSpliceInsert -> ParseSpliceInsert(data, r)
    [] type = CommandTimeSignal ->
         [ParseSpliceTime(data, r) EXCEPT !.v = <<TimeSignal(Last(@))>>]
    [] OTHER -> Push(SkipBits(data, r, declaredLen * 8), RawCommand(type, declaredLen))

----------------------------------------------------------------------------
Section(encrypted, adjustment, command, crc) ==
  [error |-> "none", encrypted |-> encrypted, ptsAdjustment |-> adjustment,
   command |-> command, crc |-> crc]
Refusal(error) == [Section(FALSE, 0, NoCommand, 0) EXCEPT !.error = error]

(* Parse: the fixed fields up to splice_command_type, the command, the       *)
(* descriptors skipped, and CRC_32, the last 32 bits that section_length     *)
(* says there are.  Nothing compares the CRC, nothing stops at an encrypted  *)
(* packet.                                                                   *)
FixedFields == <<8, 1, 1, 2, 12, 8, 1, 6, 33, 8, 12, 12, 8>>

SkipCounted(data, count) == SkipBits(data, count, Last(count.v) * 8)

CrcStart(fields) == 24 + fields[5] * 8 - 32

Finished(data, fields, rest) ==
  IF rest.ok /\ CrcStart(fields) \in rest.pos .. data.bits - 32
    THEN Section(fields[7] = 1, fields[9], rest.v[1], BitsAt(data, CrcStart(fields), 32))
    ELSE Refusal("truncated")

ParseAfter(data, head) ==
  IF data.bits >= 8 /\ head.v[1] # TableId THEN Refusal("table_id")
  ELSE IF ~head.ok THEN Refusal("truncated")
  ELSE Finished(data, head.v,
         SkipCounted(data, ReadBits(data,
           ParseSpliceCommand(data, [head EXCEPT !.v = <<>>], head.v[13], head.v[12]), 16)))

Parse(data) == ParseAfter(data, ReadFields(data, NewBitReader, FixedFields))

(* Describe: what the line about a cue says of it.                           *)
DescribeSpliceTime(time) == IF time.specified THEN <<"pts", time.pts>> ELSE <<"unspecified">>

DescribeSpliceInsert(si) ==
  IF si.cancel THEN <<"splice_insert", si.event, "CANCEL">>
  ELSE <<"splice_insert", si.event, IF si.out THEN "CUE-OUT" ELSE "CUE-IN">>
         \o (CASE si.immediate -> <<"immediate">>
               [] ~si.immediate /\ si.time # Nil -> DescribeSpliceTime(si.time)
               [] OTHER -> <<>>)
         \o (IF si.duration # Nil THEN <<"duration", si.duration.duration>> ELSE <<>>)

Describe(section) ==
  LET cmd == section.command
  IN  CASE cmd.command = "splice_insert" -> DescribeSpliceInsert(cmd)
        [] cmd.command = "time_signal" -> <<"time_signal">> \o DescribeSpliceTime(cmd.time)
        [] cmd.command = "raw" -> <<"undecoded", cmd.type, cmd.bytes>>

----------------------------------------------------------------------------
(* Encoders.  Cells are the fields in the order they are written.            *)
Cell(value, width) == [v |-> value, w |-> width]

Layout(cells) ==
  FoldLeft(LAMBDA d, c : [bits |-> d.bits + c.w, at |-> d.at @@ (d.bits :> c)],
           [bits |-> 0, at |-> <<>>], cells)

Truncated(data, bytes) == [data EXCEPT !.bits = bytes * 8]

Bytes(cells) == Layout(cells).bits \div 8

(* cmd/gentestcue: a splice_insert for a whole program, at a given time.     *)
BuildSpliceTime(pts) == <<Cell(1, 1), Cell(63, 6), Cell(pts, 33)>>
BuildBreakDuration(dur) == <<Cell(1, 1), Cell(63, 6), Cell(dur, 33)>>

BuildSpliceInsert(event, out, pts, dur, programId) ==
  <<Cell(event, 32), Cell(0, 1), Cell(127, 7), Cell(IF out THEN 1 ELSE 0, 1), Cell(1, 1),
    Cell(IF dur > 0 THEN 1 ELSE 0, 1), Cell(0, 1), Cell(15, 4)>>
    \o BuildSpliceTime(pts)
    \o (IF dur > 0 THEN BuildBreakDuration(dur) ELSE <<>>)
    \o <<Cell(programId, 16), Cell(1, 8), Cell(1, 8)>>

(* buildSection around any command, with what other encoders add: descriptors*)
(* and stuffing bytes before the CRC.                                        *)
BuildSection(type, command, descriptors, stuffing) ==
  LET body == <<Cell(0, 8), Cell(0, 1), Cell(0, 6), Cell(0, 33), Cell(0, 8),
                Cell(0, 12), Cell(Bytes(command), 12), Cell(type, 8)>>
                \o command \o <<Cell(descriptors, 16)>>
                \o (IF descriptors > 0 THEN <<Cell(0, 8 * descriptors)>> ELSE <<>>)
                \o (IF stuffing > 0 THEN <<Cell(0, 8 * stuffing)>> ELSE <<>>)
                \o <<Cell(0, 32)>>
  IN  Layout(<<Cell(TableId, 8), Cell(0, 1), Cell(0, 1), Cell(3, 2), Cell(Bytes(body), 12)>>
               \o body)
=============================================================================
