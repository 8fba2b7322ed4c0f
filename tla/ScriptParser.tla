---------------------------- MODULE ScriptParser ----------------------------
(***************************************************************************)
(* The script parser of src/src/scenario/script_parser.c, a line a step.   *)
(* The file is revealed as it is read: ReadLine takes any line of          *)
(* LineTexts, so that a run covers every file over these lines.            *)
(*                                                                         *)
(* A line is what it is recognised as: blank, a comment, too long for the  *)
(* buffer, a sensor line or a corrupt-frame line with the texts of its     *)
(* values, or none of these ("other").  Sensor values are in tenths of the *)
(* frame's units, so that encoding rounds them as the code does.           *)
(***************************************************************************)
EXTENDS SensorLink, TextNumbers

CONSTANTS
  LineTexts,       \* lines considered
  MaxScriptTicks,  \* SCRIPT_PARSER_MAX_TICKS
  MaxLines         \* bound: lines of a file

SCRIPT_MAX_RPM == 100000
SCRIPT_MIN_TEMP == -5000
SCRIPT_MAX_TEMP == 20000
SCRIPT_MAX_OIL == 10000

BareLines == [form : {"blank", "comment", "overlong", "other"}]
SensorLines == [form : {"sensor"}, tick : Texts, rpm : Texts, temperature : Texts,
                oil_pressure : Texts, is_running : Texts]
CorruptLines == [form : {"corrupt"}, tick : Texts]

ASSUME ParserAssumption ==
  /\ LineTexts \subseteq BareLines \cup SensorLines \cup CorruptLines
  /\ MaxScriptTicks \in Nat \ {0}
  /\ MaxLines \in Nat

VARIABLES
  parser,               \* "closed", "reading", "done"
  script,               \* lines read so far
  entries,              \* lines accepted so far: tick_values and sensor_frames
  last_sensor,          \* sample of the last sensor line, or NoSample
  parse_warning_count,  \* comments passed over
  tick_count,           \* what the caller gets
  parser_status,        \* what the caller is told
  message               \* the error message: what is wrong, in which line

parserVars == <<parser, script, entries, last_sensor, parse_warning_count, tick_count,
                parser_status, message>>

Samples == [rpm : 0..SCRIPT_MAX_RPM, temperature : SCRIPT_MIN_TEMP..SCRIPT_MAX_TEMP,
            oil_pressure : 0..SCRIPT_MAX_OIL, is_running : {0, 1}]
NoSample == [rpm |-> -1]
Entry(tick, kind, data) == [tick |-> tick, frame |-> [kind |-> kind, data |-> data]]

ParserInit ==
  /\ parser = "closed" /\ script = << >> /\ entries = << >>
  /\ last_sensor = NoSample /\ parse_warning_count = 0
  /\ tick_count = 0 /\ parser_status = "none"
  /\ message = [what |-> "none", line |-> 0]

-----------------------------------------------------------------------------
(* One line.                                                               *)

SampleOf(text) == [rpm |-> text.rpm, temperature |-> text.temperature,
                   oil_pressure |-> text.oil_pressure, is_running |-> text.is_running]

(* parse_script_line(): numbers only, finite and in range.                 *)
IsSensorLine(text) ==
  /\ text.form = "sensor"
  /\ ReadsAsUInt(text.tick)
  /\ SampleOf(text) \in Samples

(* parse_corrupt_frame_line()                                              *)
IsCorruptLine(text) == text.form = "corrupt" /\ ReadsAsUInt(text.tick)

(* hal_encode_sensor_frame(): each value is rounded to the nearest unit of *)
(* the frame, half a unit upwards; temperatures are counted from the least *)
(* one.                                                                    *)
Rounded(tenths) == (tenths + 5) \div 10
Encoded(sample) ==
  [rpm |-> Rounded(sample.rpm),
   temperature |-> Rounded(sample.temperature - SCRIPT_MIN_TEMP) + HAL_MIN_TEMP,
   oil_pressure |-> Rounded(sample.oil_pressure),
   is_running |-> sample.is_running]

(* Faulty variant: a tick may be repeated.                                 *)
TickIncreasesOrStays(tick) == entries = << >> \/ tick >= entries[Len(entries)].tick

TickIncreases(tick) == entries = << >> \/ tick > entries[Len(entries)].tick

(* What the code finds wrong with the next line, in the order it looks.    *)
Fault(text, strict) ==
  CASE text.form = "overlong" -> "overlong"
    [] text.form = "blank" -> "none"
    [] text.form = "comment" -> IF strict THEN "comment" ELSE "none"
    [] OTHER ->
         CASE Len(entries) >= MaxScriptTicks -> "limit"
           [] Len(entries) < MaxScriptTicks
              /\ ~IsSensorLine(text) /\ ~IsCorruptLine(text) -> "malformed"
           [] Len(entries) < MaxScriptTicks
              /\ IsCorruptLine(text) /\ last_sensor = NoSample -> "corrupt first"
           [] OTHER -> IF TickIncreases(text.tick) THEN "none" ELSE "non-increasing"

-----------------------------------------------------------------------------
Finish(status, what, line) ==
  /\ parser' = "done" /\ parser_status' = status
  /\ message' = [what |-> what, line |-> line]

OpenScript ==
  /\ parser = "closed"
  /\ \/ parser' = "reading" /\ UNCHANGED <<parser_status, message>>
     \/ Finish("IO_ERROR", "open", 0)
  /\ UNCHANGED <<script, entries, last_sensor, parse_warning_count, tick_count>>

Take(text) ==
  /\ parser = "reading" /\ Len(script) < MaxLines
  /\ script' = Append(script, text)
  /\ UNCHANGED tick_count

StillReading == UNCHANGED <<parser, parser_status, message>>

SkipLine(text, strict) ==
  /\ Take(text) /\ Fault(text, strict) = "none"
  /\ text.form \in {"blank", "comment"}
  /\ parse_warning_count' = parse_warning_count + (IF text.form = "comment" THEN 1 ELSE 0)
  /\ StillReading /\ UNCHANGED <<entries, last_sensor>>

AcceptSensorLine(text, strict) ==
  /\ Take(text) /\ Fault(text, strict) = "none"
  /\ IsSensorLine(text)
  /\ entries' = Append(entries, Entry(text.tick, "sensor", Encoded(SampleOf(text))))
  /\ last_sensor' = SampleOf(text)
  /\ StillReading /\ UNCHANGED parse_warning_count

(* The last sample once more, in a frame whose checksum is spoilt.         *)
AcceptCorruptLine(text, strict) ==
  /\ Take(text) /\ Fault(text, strict) = "none"
  /\ IsCorruptLine(text)
  /\ entries' = Append(entries, Entry(text.tick, "corrupt", Encoded(last_sensor)))
  /\ StillReading /\ UNCHANGED <<last_sensor, parse_warning_count>>

(* A line that is not accepted ends the parse; the limit is reported       *)
(* without a line number.                                                  *)
RefuseLine(text, strict) ==
  /\ Take(text) /\ Fault(text, strict) # "none"
  /\ Finish("PARSE_ERROR", Fault(text, strict),
            IF Fault(text, strict) = "limit" THEN 0 ELSE Len(script) + 1)
  /\ UNCHANGED <<entries, last_sensor, parse_warning_count>>

(* Faulty variant: the count is published before the file is closed.       *)
EndOfScriptEarlyCount ==
  /\ parser = "reading"
  /\ \/ Finish("IO_ERROR", "close", 0)
     \/ IF entries = << >> THEN Finish("PARSE_ERROR", "no ticks", 0)
                           ELSE Finish("OK", "none", 0)
  /\ tick_count' = Len(entries)
  /\ UNCHANGED <<script, entries, last_sensor, parse_warning_count>>

(* No further line: the end of the file, or a read error, which the code   *)
(* does not tell apart.                                                    *)
EndOfScript ==
  /\ parser = "reading"
  /\ \/ Finish("IO_ERROR", "close", 0) /\ UNCHANGED tick_count
     \/ entries = << >> /\ Finish("PARSE_ERROR", "no ticks", 0) /\ UNCHANGED tick_count
     \/ entries # << >> /\ Finish("OK", "none", 0) /\ tick_count' = Len(entries)
  /\ UNCHANGED <<script, entries, last_sensor, parse_warning_count>>

ParserStep(strict) ==
  \/ OpenScript
  \/ \E text \in LineTexts : \/ SkipLine(text, strict)
                             \/ AcceptSensorLine(text, strict)
                             \/ AcceptCorruptLine(text, strict)
                             \/ RefuseLine(text, strict)
  \/ EndOfScript
=============================================================================
