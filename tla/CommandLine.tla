---------------------------- MODULE CommandLine ----------------------------
(***************************************************************************)
(* How src/src/app/main.c reads its arguments: the command, its name, and  *)
(* the optional flags of parse_optional_flags().  The arguments are        *)
(* revealed as they are read; how many there are is known from the start.  *)
(***************************************************************************)
EXTENDS Integers, Sequences

CONSTANTS
  Arguments,      \* texts an argument may be
  LongArguments,  \* those of MAX_CLI_ARG_LEN characters or more
  LongPaths,      \* those of MAX_CLI_PATH_LEN characters or more
  MaxCliArgs,     \* MAX_CLI_ARGS, the program's own name included
  NULL            \* no path

Switches == {"--show-sim", "--show-control", "--color", "--show-state", "--json", "--strict"}
Valued == {"--config", "--log-level"}
LogLevels == {"DEBUG", "INFO", "WARN", "ERROR"}

ASSUME CommandLineAssumption ==
  /\ Valued \subseteq Arguments
  /\ LongPaths \subseteq LongArguments /\ LongArguments \subseteq Arguments
  /\ (Switches \cup Valued \cup LogLevels) \cap LongArguments = {}
  /\ MaxCliArgs \in Nat \ {0}
  /\ NULL \notin Arguments

VARIABLES
  argc,      \* arguments, the program's name included
  argv,      \* those read so far, without the program's name
  stage,     \* what main() does next
  command,   \* the command recognised
  options,   \* the locals the flags go to
  exit_code, \* of a process that ended here, else NULL
  said       \* what was written to stdout

commandVars == <<argc, argv, stage, command, options, exit_code, said>>

(* The defaults parse_optional_flags() starts from.                        *)
NoOptions == [switches |-> {}, config_path |-> NULL, log_level |-> "INFO"]

OptionRecords == [switches : SUBSET Switches, config_path : Arguments \cup {NULL},
                  log_level : LogLevels]

CommandLineInit ==
  /\ argc \in 1..(MaxCliArgs + 1)
  /\ argv = << >> /\ stage = "command" /\ command = "none"
  /\ options = NoOptions /\ exit_code = NULL /\ said = << >>

-----------------------------------------------------------------------------
Say(text) == said' = Append(said, text)

Exit(code, text) ==
  /\ stage' = "exited" /\ exit_code' = code /\ Say(text)

(* Every refusal of the arguments prints the usage and exits with 1.       *)
Usage == Exit(1, "usage")

Proceed(next) == stage' = next /\ UNCHANGED <<exit_code, said>>

(* Index of the next argument, the program's name being number 0.          *)
Index == Len(argv) + 1

RefuseCount ==
  /\ stage = "command" /\ (argc > MaxCliArgs \/ argc = 1)
  /\ Usage /\ UNCHANGED <<argc, argv, command, options>>

ReadCommand(text) ==
  /\ stage = "command" /\ argc \in 2..MaxCliArgs
  /\ argv' = Append(argv, text)
  /\ \/ text = "--version" /\ argc = 2 /\ Exit(0, "version") /\ UNCHANGED command
     \/ text = "--run-all" /\ Proceed("flags") /\ command' = "run_all"
     \/ text = "--scenario" /\ argc > 2 /\ Proceed("name") /\ command' = "scenario"
     \/ text = "--script" /\ argc > 2 /\ Proceed("name") /\ command' = "script"
     \/ /\ text # "--run-all"
        /\ text = "--version" => argc # 2
        /\ text \in {"--scenario", "--script"} => argc = 2
        /\ Usage /\ UNCHANGED command
  /\ UNCHANGED <<argc, options>>

(* The scenario's name or the script's path, whatever it is.               *)
ReadName(text) ==
  /\ stage = "name"
  /\ argv' = Append(argv, text) /\ Proceed("flags")
  /\ UNCHANGED <<argc, command, options>>

ReadSwitch(text) ==
  /\ stage = "flags" /\ Index < argc /\ text \notin Valued
  /\ argv' = Append(argv, text)
  /\ IF text \in Switches \ options.switches
     THEN /\ options' = [options EXCEPT !.switches = @ \cup {text}]
          /\ Proceed("flags")
     ELSE Usage /\ UNCHANGED options
  /\ UNCHANGED <<argc, command>>

RefuseMissingValue(text) ==
  /\ stage = "flags" /\ Index + 1 = argc /\ text \in Valued
  /\ argv' = Append(argv, text)
  /\ Usage /\ UNCHANGED <<argc, command, options>>

IsPath(text) == text # "" /\ text \notin LongPaths

(* Faulty variant: the last path counts.                                   *)
ReadConfigPathAgain(path) ==
  /\ stage = "flags" /\ Index + 1 < argc
  /\ argv' = argv \o <<"--config", path>>
  /\ IF IsPath(path)
     THEN options' = [options EXCEPT !.config_path = path] /\ Proceed("flags")
     ELSE Usage /\ UNCHANGED options
  /\ UNCHANGED <<argc, command>>

(* --config takes whatever follows, flag or not, and only once.            *)
ReadConfigPath(path) ==
  /\ stage = "flags" /\ Index + 1 < argc
  /\ argv' = argv \o <<"--config", path>>
  /\ IF options.config_path = NULL /\ IsPath(path)
     THEN options' = [options EXCEPT !.config_path = path] /\ Proceed("flags")
     ELSE Usage /\ UNCHANGED options
  /\ UNCHANGED <<argc, command>>

(* Faulty variant: the index is not advanced past the flag.                *)
ReadLogLevelAgain(level) ==
  /\ stage = "flags" /\ Index + 1 < argc
  /\ UNCHANGED argv
  /\ IF level \in LogLevels
     THEN options' = [options EXCEPT !.log_level = level] /\ Proceed("flags")
     ELSE Usage /\ UNCHANGED options
  /\ UNCHANGED <<argc, command>>

(* --log-level may be given again: the last one counts.                    *)
ReadLogLevel(level) ==
  /\ stage = "flags" /\ Index + 1 < argc
  /\ argv' = argv \o <<"--log-level", level>>
  /\ IF level \in LogLevels
     THEN options' = [options EXCEPT !.log_level = level] /\ Proceed("flags")
     ELSE Usage /\ UNCHANGED options
  /\ UNCHANGED <<argc, command>>

EndOfFlags ==
  /\ stage = "flags" /\ Index = argc
  /\ Proceed("options") /\ UNCHANGED <<argc, argv, command, options>>

ReadArguments ==
  \/ RefuseCount
  \/ \E text \in Arguments : \/ ReadCommand(text)
                             \/ ReadName(text)
                             \/ ReadSwitch(text)
                             \/ RefuseMissingValue(text)
                             \/ ReadConfigPath(text)
                             \/ ReadLogLevel(text)
  \/ EndOfFlags
=============================================================================
