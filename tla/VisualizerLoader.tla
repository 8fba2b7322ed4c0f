-------------------------- MODULE VisualizerLoader --------------------------
(***************************************************************************)
(* How the visualizer starts: its arguments (main.c) and the documents it  *)
(* loads (visualizer_loader.c), one file after the other into one set of   *)
(* scenarios.                                                              *)
(*                                                                         *)
(* A document is seen as its objects in the order of the text.  A value is *)
(* found by looking for its key from the start of an object onwards, with  *)
(* no regard to where the object ends: a key that an object lacks is taken *)
(* from the next object that has it.                                       *)
(***************************************************************************)
EXTENDS Integers, SequencesExt

CONSTANTS
  Documents,      \* documents a file may hold
  Missing,        \* the value of a key that is not in an object
  Malformed,      \* a value that does not parse, or is too long a text
  MAX_SCENARIOS, MAX_TICKS,
  MaxTickNumber,  \* UINT_MAX
  Themes,         \* the themes, in the order of the enumeration
  MaxArguments    \* bound: files and themes on the command line

ScenarioKeys == {"scenario", "requirement_id", "expected"}
TickKeys == {"tick", "rpm", "temp", "oil", "run", "result", "control", "engine_mode"}

(* What may go wrong with a file: it cannot be opened, read or closed, or  *)
(* it is empty or larger than MAX_FILE_SIZE.                               *)
LoadFaults == {"none", "open", "size", "read", "close"}

IsSequence(f) == f \in Seq({f[i] : i \in DOMAIN f})

ASSUME LoaderAssumption ==
  /\ Missing # Malformed
  /\ Missing \notin Int /\ Malformed \notin Int
  /\ \A doc \in Documents :
       /\ doc.fault \in LoadFaults /\ doc.brackets \in BOOLEAN
       /\ IsSequence(doc.scenarios)
       /\ \A s \in DOMAIN doc.scenarios : IsSequence(doc.scenarios[s].ticks)
  /\ MAX_SCENARIOS \in Nat \ {0} /\ MAX_TICKS \in Nat \ {0} /\ MaxTickNumber \in Nat
  /\ Themes \in Seq(STRING) /\ Themes # << >>
  /\ MaxArguments \in Nat

VARIABLES
  stage,          \* "arguments", "loading", "running", "closed" or "failed"
  arguments_left, \* bound: how many more arguments there may be
  theme,          \* initial_theme, then g_visualizer_theme
  paths,          \* files named and not yet loaded
  files,          \* documents loaded
  scenarios       \* scenario_set: its count is the length

loaderVars == <<stage, arguments_left, theme, paths, files, scenarios>>

-----------------------------------------------------------------------------
(* One document.                                                           *)

(* The first of some values that is there.                                 *)
FirstValue(values) ==
  LET present(value) == value # Missing
      first == SelectInSeq(values, present)
  IN  IF first = 0 THEN Missing ELSE values[first]

(* Scenarios of the text from one of them on.                              *)
Onwards(doc, s) == 1..(Len(doc.scenarios) - s + 1)

ScenarioValue(doc, s, key) ==
  FirstValue([t \in Onwards(doc, s) |-> doc.scenarios[s + t - 1][key]])

(* The value of a key in the first of some ticks, from one of them on,     *)
(* that has it.                                                            *)
ValueFrom(ticks, i, key) ==
  FirstValue([j \in 1..(Len(ticks) - i + 1) |-> ticks[i + j - 1][key]])

(* The ticks of a text go on from one scenario to the next.                *)
TickValue(doc, s, i, key) ==
  FirstValue([t \in Onwards(doc, s) |->
                ValueFrom(doc.scenarios[s + t - 1].ticks, IF t = 1 THEN i ELSE 1, key)])

TickAt(doc, s, i) == [key \in TickKeys |-> TickValue(doc, s, i, key)]

(* parse_tick_object() and validate_tick()                                 *)
Revolutions == 0..10000
Temperatures == -500..2000
Pressures == 0..1000
Controls == 0..100000   \* in thousandths

ValidTick(tick) ==
  /\ tick.tick \in 0..MaxTickNumber
  /\ tick.rpm \in Revolutions /\ tick.temp \in Temperatures /\ tick.oil \in Pressures
  /\ tick.control \in Controls /\ tick.run \in {0, 1}
  /\ {tick.result, tick.engine_mode} \cap {Missing, Malformed} = {}

TicksIncrease(ticks) == \A i \in 2..Len(ticks) : ticks[i - 1].tick < ticks[i].tick

(* An object without a "ticks" key of its own has an empty array here: the *)
(* code refuses both.                                                      *)
ValidScenario(doc, s) ==
  /\ \A key \in ScenarioKeys : ScenarioValue(doc, s, key) \notin {Missing, Malformed}
  /\ Len(doc.scenarios[s].ticks) \in 1..MAX_TICKS
  /\ \A i \in DOMAIN doc.scenarios[s].ticks : ValidTick(TickAt(doc, s, i))
  /\ TicksIncrease([i \in DOMAIN doc.scenarios[s].ticks |-> TickAt(doc, s, i)])

ScenarioAt(doc, s) ==
  [scenario |-> ScenarioValue(doc, s, "scenario"),
   requirement_id |-> ScenarioValue(doc, s, "requirement_id"),
   expected |-> ScenarioValue(doc, s, "expected"),
   ticks |-> [i \in DOMAIN doc.scenarios[s].ticks |-> TickAt(doc, s, i)]]

(* parse_scenarios_json() into the room that is left.                      *)
Parses(doc, room) ==
  /\ doc.schema_version \in {"1.0", "1.0.0"}
  /\ doc.software_version \notin {Missing, Malformed, ""}
  /\ doc.brackets
  /\ Len(doc.scenarios) \in 1..room
  /\ \A s \in DOMAIN doc.scenarios : ValidScenario(doc, s)

Parsed(doc) == [s \in DOMAIN doc.scenarios |-> ScenarioAt(doc, s)]

-----------------------------------------------------------------------------
(* Arguments and files.                                                    *)

LoaderInit ==
  /\ stage = "arguments" /\ arguments_left = MaxArguments
  /\ theme = 1 /\ paths = 0 /\ files = << >> /\ scenarios = << >>

Fail == stage' = "failed" /\ UNCHANGED <<arguments_left, theme, paths, files, scenarios>>

(* visualizer_parse_theme_id()                                             *)
ReadTheme ==
  /\ stage = "arguments" /\ arguments_left > 0
  /\ \/ /\ theme' \in DOMAIN Themes
        /\ arguments_left' = arguments_left - 1
        /\ UNCHANGED <<stage, paths, files, scenarios>>
     \/ Fail      \* an unknown theme, or none after the last --theme

ReadPath ==
  /\ stage = "arguments" /\ arguments_left > 0
  /\ arguments_left' = arguments_left - 1 /\ paths' = paths + 1
  /\ UNCHANGED <<stage, theme, files, scenarios>>

EndOfArguments ==
  /\ stage = "arguments"
  /\ \/ paths = 0 /\ Fail
     \/ /\ paths > 0 /\ stage' = "loading" /\ arguments_left' = 0
        /\ UNCHANGED <<theme, paths, files, scenarios>>

(* Faulty variant: every file has room for a whole set.                    *)
LoadFileAnew(doc) ==
  /\ stage = "loading" /\ paths > 0
  /\ \/ /\ doc.fault = "none" /\ Parses(doc, MAX_SCENARIOS)
        /\ scenarios' = scenarios \o Parsed(doc)
        /\ files' = Append(files, doc) /\ paths' = paths - 1
        /\ UNCHANGED <<stage, arguments_left, theme>>
     \/ /\ ~(doc.fault = "none" /\ Parses(doc, MAX_SCENARIOS))
        /\ Fail

(* load_file_text() and parse_scenarios_json(): a file that does not load  *)
(* ends the program, whatever was loaded before.                           *)
LoadFile(doc) ==
  /\ stage = "loading" /\ paths > 0
  /\ \/ /\ doc.fault = "none" /\ Parses(doc, MAX_SCENARIOS - Len(scenarios))
        /\ scenarios' = scenarios \o Parsed(doc)
        /\ files' = Append(files, doc) /\ paths' = paths - 1
        /\ UNCHANGED <<stage, arguments_left, theme>>
     \/ /\ ~(doc.fault = "none" /\ Parses(doc, MAX_SCENARIOS - Len(scenarios)))
        /\ Fail
=============================================================================
