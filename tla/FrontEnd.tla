------------------------------ MODULE FrontEnd ------------------------------
(***************************************************************************)
(* The program up to the point where a command runs: main() reads the      *)
(* arguments, applies the options, reads a script if the command is one,   *)
(* and hands over to the test runner (TestRunner).                         *)
(*                                                                         *)
(* The settings of Configuration belong to whoever calls their functions:  *)
(* the program, which does so from apply_runtime_options() only, or an     *)
(* application that calls them in any order, as the unit tests do.         *)
(***************************************************************************)
EXTENDS CommandLine, Configuration, ScriptParser

CONSTANTS
  LongMessagePaths,  \* paths too long for a log line that names them
  CI                 \* the environment variable CI is set

NoFile == [fault |-> "not read", entries |-> << >>]

ASSUME FrontEndAssumption ==
  /\ LongMessagePaths \subseteq Arguments
  /\ CI \in BOOLEAN
  /\ MaxScriptTicks <= CounterCap
  /\ NoFile \notin ConfigFiles

VARIABLES
  caller,           \* "program" or "application"
  g_min_log_level,  \* logger.c
  config_file       \* the configuration file that was read, or NoFile

frontEndVars == <<commandVars, configVars, parserVars, caller, g_min_log_level, config_file>>

FrontEndInit ==
  /\ ConfigurationInit /\ ParserInit
  /\ g_min_log_level = "INFO" /\ config_file = NoFile
  /\ \/ caller = "program" /\ CommandLineInit
     \/ /\ caller = "application" /\ argc = 1 /\ argv = << >> /\ stage = "application"
        /\ command = "none" /\ options = NoOptions /\ exit_code = NULL /\ said = << >>

-----------------------------------------------------------------------------
ReadCommandLine ==
  /\ caller = "program" /\ ReadArguments
  /\ UNCHANGED <<configVars, parserVars, caller, g_min_log_level, config_file>>

(* logger_set_level(): a CI run is not flooded with debug output.          *)
EffectiveLevel(level) == IF CI /\ level = "DEBUG" THEN "INFO" ELSE level

(* A command starts: a script is parsed first.  The arguments have done    *)
(* their work.                                                             *)
StartCommand == Proceed(IF command = "script" THEN "script" ELSE "handed over")

(* apply_runtime_options(), without --config and with it.  The log level   *)
(* is set before the file is looked at.                                    *)
ApplyOptions ==
  /\ stage = "options" /\ options.config_path = NULL
  /\ g_min_log_level' = EffectiveLevel(options.log_level)
  /\ argv' = << >> /\ StartCommand
  /\ UNCHANGED <<argc, command, options, configVars, parserVars, caller, config_file>>

(* The error goes to stdout, in JSON mode too, unless the line it makes is *)
(* too long for the logger.                                                *)
ConfigError(file) ==
  IF file.fault \in {"open", "read", "close"} /\ options.config_path \in LongMessagePaths
  THEN said' = said ELSE Say("config error")

(* Faulty variant: a file that cannot be used is passed over.              *)
ApplyConfigLenient(file) ==
  /\ stage = "options" /\ options.config_path # NULL
  /\ g_min_log_level' = EffectiveLevel(options.log_level)
  /\ argv' = << >> /\ config_file' = file
  /\ LET loaded == LoadCalibration(file, calibration_out)
     IN  /\ calibration_out' = loaded.value
         /\ IF loaded.status = "OK"
            THEN ConfigureCalibration(loaded.value)
            ELSE UNCHANGED settings
         /\ StartCommand
  /\ UNCHANGED <<argc, command, options, physics_out, parserVars, caller>>

ApplyConfig(file) ==
  /\ stage = "options" /\ options.config_path # NULL
  /\ g_min_log_level' = EffectiveLevel(options.log_level)
  /\ argv' = << >> /\ config_file' = file
  /\ LET loaded == LoadCalibration(file, calibration_out)
     IN  /\ calibration_out' = loaded.value
         /\ \/ /\ loaded.status # "OK"
               /\ stage' = "exited" /\ exit_code' = 1 /\ ConfigError(file)
               /\ UNCHANGED settings
            \/ /\ loaded.status = "OK"
               /\ ConfigureCalibration(loaded.value)
               /\ IF CalibrationValid(loaded.value) /\ ~g_calibration_configured
                  THEN StartCommand
                  ELSE stage' = "exited" /\ exit_code' = 1 /\ UNCHANGED said
  /\ UNCHANGED <<argc, command, options, physics_out, parserVars, caller>>

(* script_parser_parse_file(), called by the test runner; a refusal is     *)
(* reported there (TestRunner!StartScript).                                *)
ParseScript ==
  /\ stage = "script" /\ ParserStep("--strict" \in options.switches)
  /\ stage' = CASE parser' # "done" -> "script"
                [] parser' = "done" /\ parser_status' = "OK" -> "handed over"
                [] parser' = "done" /\ parser_status' # "OK" -> "refused"
  /\ UNCHANGED <<argc, argv, command, options, exit_code, said, configVars, caller,
                 g_min_log_level, config_file>>

Application ==
  /\ stage = "application" /\ ApplicationStep
  /\ UNCHANGED <<commandVars, parserVars, caller, g_min_log_level, config_file>>

FrontEndNext == \/ ReadCommandLine
                \/ ApplyOptions
                \/ \E file \in ConfigFiles : ApplyConfig(file)
                \/ ParseScript
                \/ Application

(* One thread that runs until it hands over or exits.                      *)
FrontEndSpec == FrontEndInit /\ [][FrontEndNext]_frontEndVars
FairFrontEndSpec == FrontEndSpec /\ WF_frontEndVars(FrontEndNext)
=============================================================================
