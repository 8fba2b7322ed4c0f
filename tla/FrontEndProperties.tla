------------------------- MODULE FrontEndProperties -------------------------
(***************************************************************************)
(* What the start of the program promises: the arguments mean what they    *)
(* say, a run has the calibration it was given or none at all, a script    *)
(* that is run is one the test runner can run, and main() always comes to  *)
(* an end.                                                                 *)
(***************************************************************************)
EXTENDS FrontEnd, FiniteSets

Stages == {"command", "name", "flags", "options", "script", "handed over", "refused",
           "exited", "application"}

ParserFaults == {"none", "open", "close", "no ticks", "overlong", "comment", "limit",
                 "malformed", "corrupt first", "non-increasing"}

(* Floats as the loaders hand them out.                                    *)
Floats == Int \cup {NotFinite}
LooseCalibrations ==
  [temperature_limit : Floats, oil_pressure_limit : Floats,
   high_rpm_warning_threshold : Int, high_temp_warning_threshold : Int,
   persistence : [Faults -> Nat \ {0}]]

CalibrationTypeOK ==
  /\ g_calibration_configured \in BOOLEAN
  /\ g_calibration \in CalibrationRecords /\ CalibrationValid(g_calibration)
  /\ calibration_out \in LooseCalibrations

PhysicsTypeOK ==
  /\ g_physics_configured \in BOOLEAN
  /\ PhysicsValid(g_physics)
  /\ physics_out \in [PhysicsKeys -> Floats]

ParserTypeOK ==
  /\ parser \in {"closed", "reading", "done"}
  /\ last_sensor \in Samples \cup {NoSample}
  /\ parse_warning_count \in 0..Len(script) /\ tick_count \in 0..MaxScriptTicks
  /\ parser_status \in {"none", "OK", "IO_ERROR", "PARSE_ERROR"}
  /\ message \in [what : ParserFaults, line : 0..Len(script)]

(* Every variable has its type; the settings the engine and the control    *)
(* law read are finite and in range at all times, whoever writes them.     *)
FrontEndTypeOK ==
  /\ stage \in Stages /\ caller \in {"program", "application"}
  /\ options \in OptionRecords /\ exit_code \in {0, 1, NULL}
  /\ g_min_log_level \in LogLevels
  /\ CalibrationTypeOK /\ PhysicsTypeOK /\ ParserTypeOK

-----------------------------------------------------------------------------
(* The arguments, read as a whole.                                         *)

FirstFlag == IF command = "run_all" THEN 2 ELSE 3

(* Places of the flags in a line: all but the values of those before them. *)
FlagPlaces(line) ==
  CHOOSE places \in SUBSET (FirstFlag..Len(line)) :
    \A i \in FirstFlag..Len(line) :
      i \in places <=> ~(i - 1 \in places /\ line[i - 1] \in Valued)

Given(line, flag) == {i \in FlagPlaces(line) : line[i] = flag}

WellFormed(line) ==
  /\ \A i \in FlagPlaces(line) :
       /\ line[i] \in Switches \cup Valued
       /\ line[i] \in Valued => i < Len(line)
       /\ line[i] = "--config" => line[i + 1] # "" /\ line[i + 1] \notin LongPaths
       /\ line[i] = "--log-level" => line[i + 1] \in LogLevels
  /\ \A flag \in Switches \cup {"--config"} : Cardinality(Given(line, flag)) <= 1

(* What main() goes on with is what the line says: each switch given is    *)
(* on, the path is the one --config names, the level is the last one       *)
(* given; and a line that is refused once its command was recognised is    *)
(* not well-formed.                                                        *)
OptionsAreAsGiven ==
  /\ stage = "options" =>
       /\ Len(argv) + 1 = argc /\ WellFormed(argv)
       /\ options.switches = {s \in Switches : Given(argv, s) # {}}
       /\ \A i \in Given(argv, "--config") : options.config_path = argv[i + 1]
       /\ Given(argv, "--config") = {} => options.config_path = NULL
       /\ \A i \in Given(argv, "--log-level") :
            (\A j \in Given(argv, "--log-level") : j <= i) =>
              options.log_level = argv[i + 1]
       /\ Given(argv, "--log-level") = {} => options.log_level = "INFO"
  /\ said = <<"usage">> /\ command # "none" => ~WellFormed(argv)

-----------------------------------------------------------------------------
(* The settings.                                                           *)

Usable(file) == file.fault = "none" /\ CalibrationReadable(file)

(* A command never runs with another calibration than the one it was       *)
(* given: the defaults without --config, else the whole of a file that     *)
(* reads and is valid; a file that does not ends the process with 1 and    *)
(* nothing configured.  The CI job never gets debug output.                *)
RunsAsConfigured ==
  /\ stage \in {"script", "handed over", "refused"} =>
       IF options.config_path = NULL
       THEN g_calibration = DefaultCalibration /\ ~g_calibration_configured
       ELSE /\ Usable(config_file) /\ g_calibration_configured
            /\ g_calibration = CalibrationOf(config_file)
  /\ stage = "exited" =>
       /\ g_calibration = DefaultCalibration /\ ~g_calibration_configured
       /\ exit_code = 1 \/ said = <<"version">>
  /\ CI => g_min_log_level # "DEBUG"

(* A load hands out all of a file or nothing: what an application holds    *)
(* after any number of loads, some of which failed half way, is the        *)
(* default or what one usable file says.                                   *)
LoadIsAllOrNothing ==
  /\ \/ calibration_out = DefaultCalibration
     \/ \E file \in ConfigFiles :
          Usable(file) /\ calibration_out = CalibrationOf(file)
  /\ \/ physics_out = DefaultPhysics
     \/ \E file \in ConfigFiles :
          /\ file.fault \in {"none", "close"} /\ PhysicsReadable(file)
          /\ physics_out = PhysicsOf(file)

CalibrationSetting ==
  INSTANCE WriteOnce WITH
    Default <- DefaultCalibration,
    Valid   <- {cal \in CalibrationRecords : CalibrationValid(cal)},
    value   <- g_calibration,
    written <- g_calibration_configured

PhysicsSetting ==
  INSTANCE WriteOnce WITH
    Default <- DefaultPhysics,
    Valid   <- {physics \in [PhysicsKeys -> Int] : PhysicsValid(physics)},
    value   <- g_physics,
    written <- g_physics_configured

(* The calibration and the physics are settings that are written once,     *)
(* with a valid value, and keep it until they are reset, whatever files    *)
(* are loaded and configured in whatever order.                            *)
CalibrationIsWriteOnce == CalibrationSetting!Spec
PhysicsIsWriteOnce == PhysicsSetting!Spec

-----------------------------------------------------------------------------
(* Scripts.                                                                *)

(* What the test runner gets: at least one entry and no more than there is *)
(* room for (nor than a fault counter counts), ticks that increase from 1  *)
(* on, samples the HAL accepts, and a spoilt frame only after the good one *)
(* it repeats.  A script that was not accepted has no ticks at all.        *)
Runnable(list) ==
  /\ Len(list) \in 1..MaxScriptTicks /\ Len(list) <= CounterCap
  /\ \A i \in 1..Len(list) :
       /\ list[i].tick \in 1..MaxUInt
       /\ list[i].frame.data \in SensorFrames
       /\ \A j \in 1..(i - 1) : list[j].tick < list[i].tick
       /\ list[i].frame.kind = "corrupt" =>
            i > 1 /\ list[i].frame.data = list[i - 1].frame.data

ScriptIsRunnable ==
  /\ parser_status = "OK" => Runnable(entries) /\ tick_count = Len(entries)
  /\ parser_status # "OK" => tick_count = 0
  /\ stage = "handed over" /\ command = "script" => parser_status = "OK"

(* The language of scripts.                                                *)
Strict == "--strict" \in options.switches
Directives(lines) == {i \in DOMAIN lines : IsSensorLine(lines[i]) \/ IsCorruptLine(lines[i])}
PassedOver(line) == line.form = "blank" \/ (line.form = "comment" /\ ~Strict)

Acceptable(lines) ==
  LET places == Directives(lines)
  IN  /\ \A i \in DOMAIN lines : i \in places \/ PassedOver(lines[i])
      /\ Cardinality(places) <= MaxScriptTicks
      /\ \A i, j \in places : i < j => lines[i].tick < lines[j].tick
      /\ \A i \in places : IsCorruptLine(lines[i]) =>
                             \E j \in places : j < i /\ IsSensorLine(lines[j])

(* The sample of a directive: its own, or that of the last sensor line.    *)
SampleAt(lines, i) ==
  SampleOf(lines[CHOOSE j \in Directives(lines) :
                   /\ j <= i /\ IsSensorLine(lines[j])
                   /\ \A k \in Directives(lines) :
                        k \in (j + 1)..i => ~IsSensorLine(lines[k])])

(* The parser decides exactly this language: it reads on as long as what   *)
(* it has read is acceptable, stops at the first line that makes it        *)
(* unacceptable and names that line (the limit apart), and accepts a file  *)
(* with a directive; every directive is in the list once, in order, with   *)
(* the sample it stands for.                                               *)
ParserAgreesWithGrammar ==
  LET places == Directives(script)
      before == SubSeq(script, 1, Len(script) - 1)
      refused == parser_status = "PARSE_ERROR" /\ message.what # "no ticks"
  IN  /\ refused => /\ Acceptable(before) /\ ~Acceptable(script)
                    /\ message.line = IF message.what = "limit" THEN 0 ELSE Len(script)
      /\ ~refused =>
           /\ Acceptable(script)
           /\ parser_status = "OK" => places # {}
           /\ message.what = "no ticks" => places = {}
           /\ Len(entries) = Cardinality(places)
           /\ \A i \in places :
                LET entry == entries[Cardinality({j \in places : j <= i})]
                IN  /\ entry.tick = script[i].tick
                    /\ entry.frame.kind = script[i].form
                    /\ entry.frame.data = Encoded(SampleAt(script, i))

-----------------------------------------------------------------------------
(* The program reads its arguments, its configuration and its script, and  *)
(* then runs the command or exits: it never waits for anything.            *)
FrontEndTerminates ==
  caller = "program" ~> stage \in {"handed over", "refused", "exited"}

(* How many steps main() has left at most: one for each argument and each  *)
(* line, and a few between them.                                           *)
StepsToEnd ==
  CASE stage = "command" -> argc + MaxLines + 4
    [] stage \in {"name", "flags"} -> argc - Len(argv) + MaxLines + 4
    [] stage = "options" -> MaxLines + 4
    [] stage = "script" ->
         IF parser = "closed" THEN MaxLines + 3 ELSE MaxLines - Len(script) + 2
    [] OTHER -> 0

(* The safety half of FrontEndTerminates: no step of main() leaves it as   *)
(* far from its end as it was.                                             *)
EveryReadCounts ==
  [][caller = "program" => StepsToEnd \in Nat /\ StepsToEnd' < StepsToEnd]_frontEndVars
=============================================================================
