----------------------------- MODULE TestRunner -----------------------------
(***************************************************************************)
(* The three commands of the program: --run-all, --scenario and --script,  *)
(* src/src/app/test_runner.c and what src/src/app/main.c does with their    *)
(* status.  A command prepares the HAL, drives one or ten scenario runs    *)
(* (ScenarioRun, whose actions are used as they are) and writes what it    *)
(* found to stdout, where every write may fail.                            *)
(*                                                                         *)
(* stdout is a sequence of tokens: the parts of the JSON document that one *)
(* call of scenario_report.c writes, or a piece of console text.           *)
(***************************************************************************)
EXTENDS ScenarioRun, Catalog, FiniteSets

CONSTANTS
  Commands,          \* command lines considered
  ScriptFrames,      \* samples a script file may contain
  MaxWriteFailures   \* bound: writes to stdout that may fail

CommandRecords == [kind : {"run_all", "scenario", "script"}, name : STRING,
                   json : BOOLEAN, strict : BOOLEAN]

ASSUME CommandAssumption ==
  /\ Commands \subseteq CommandRecords
  /\ ScriptFrames \subseteq Frames
  /\ MaxWriteFailures \in Nat
  /\ ShowTicks => \A c \in Commands : ~c.json   \* JSON switches the flags off

(* The arrays of reports have room: MAX_PROFILE_TICKS for a built-in       *)
(* scenario, SCRIPT_PARSER_MAX_TICKS + 1 for a script.                     *)
ASSUME RunnerAssumption ==
  /\ \A i \in 1..Len(TEST_REGISTRY) :
       LET profile == TEST_REGISTRY[i].profile
       IN  /\ profile \in Seq(Frames)
           /\ Len(profile) \in 1..MaxProfileTicks /\ Len(profile) < ReportCapacity
  /\ 1 \in Gaps /\ "sensor" \in LineKinds
  /\ \A n \in TickCounts \cap 1..MaxProfileTicks : n < ReportCapacity

VARIABLES
  command,      \* the parsed command line
  stage,        \* "start", "tests", "running" or "exited"
  test_index,   \* tests of --run-all dealt with
  passed,       \* tests of --run-all that passed
  output,       \* what was written to stdout
  status        \* StatusCode of the command, "none" before it returns

runner == <<command, stage, test_index, passed, output, status>>
allVars == <<vars, runner>>

-----------------------------------------------------------------------------
(* Writing.                                                                *)

Text(what) == [token |-> "text", what |-> what]
Header == [token |-> "header"]
Comma == [token |-> "comma"]
Object(expected, actual, ticks) ==
  [token |-> "object", expected |-> expected, actual |-> actual, ticks |-> ticks]
(* A footer shows its error only when the error is one.                    *)
Footer(pass, all, error) ==
  [token |-> "footer", passed |-> pass, total |-> all,
   error |-> IF error.code = "OK" THEN "none" ELSE error.code, tick |-> error.tick]
NoError == Error("OK", "none", 0, "INFO")

(* What a failing write leaves of its token.                               *)
Fragment == [token |-> "fragment"]
Failures(out) == Cardinality({i \in 1..Len(out) : out[i] = Fragment})

(* The writers stop at the first write that fails: of the given tokens n   *)
(* are written.                                                            *)
Written(tokens, n) ==
  output \o SubSeq(tokens, 1, n) \o IF n < Len(tokens) THEN <<Fragment>> ELSE << >>

Write(tokens, n) ==
  /\ n \in 0..Len(tokens)
  /\ output' = Written(tokens, n)
  /\ Failures(output') <= MaxWriteFailures

(* Every exit shuts the HAL down; main() then prints the usage after a     *)
(* failed --scenario, and after a failed --script without --json.          *)
PrintsUsage(code) ==
  /\ code # "OK"
  /\ \/ command.kind = "scenario"
     \/ command.kind = "script" /\ ~command.json

AfterShutdown == [FreshLink EXCEPT !.last_error = Error("OK", "hal_shutdown", 0, "INFO")]

Exit(code, tokens, n) ==
  /\ n \in 0..Len(tokens)
  /\ output' = Written(tokens, n) \o
               IF PrintsUsage(code) THEN <<Text("usage")>> ELSE << >>
  /\ Failures(output') <= MaxWriteFailures
  /\ status' = code /\ stage' = "exited"
  /\ link' = AfterShutdown
  /\ UNCHANGED <<pc, cal, engine, clock, line, sensor_frame, result, reporting, outcome,
                 command, test_index, passed>>

-----------------------------------------------------------------------------
(* Running a scenario.                                                     *)

(* engine_reset(), a fresh array of reports and the frames encoded; the    *)
(* HAL is taken as it is found.                                            *)
Prepare(hal, lines) ==
  /\ pc' = "begin" /\ outcome' = "none" /\ result' = "OK"
  /\ engine' = EngineInit
  /\ link' = AfterEncode(hal)
  /\ tick_count' = lines
  /\ tick_index' = 0 /\ current_tick' = 0 /\ target_tick' = 0 /\ sim_tick' = 0
  /\ line' = NoLine /\ sensor_frame' = NoFrame
  /\ tick_reports' = << >> /\ tick_report_count' = 0
  /\ stage' = "running"
  /\ UNCHANGED cal

Total == Len(TEST_REGISTRY)

(* The registry entry a built-in command is running.                       *)
SelectedTest == TEST_REGISTRY[IF command.kind = "run_all" THEN test_index + 1
                              ELSE FindNamed(command.name)]

(* The lines the loop may meet: the table of a built-in scenario, one line *)
(* a tick, or whatever the parser accepted.                                *)
NextSample == SelectedTest.profile[tick_index + 1]
LinesMet == IF command.kind = "script" THEN [kind : LineKinds, data : ScriptFrames]
            ELSE {[kind |-> "sensor", data |-> NextSample]}
GapsMet == IF command.kind = "script" THEN Gaps ELSE {1}

(* One step of the loop.  A timeout is logged to stdout on the spot, in    *)
(* JSON mode too, and the status of that write is ignored.                 *)
TimeoutLog == IF link'.last_error.code = "TIMEOUT" THEN <<Text("timeout")>> ELSE << >>

RunStep ==
  /\ stage = "running" /\ pc # "done"
  /\ \/ Step
     \/ /\ pc = "next" /\ tick_index < tick_count
        /\ \E gap \in GapsMet, raw \in LinesMet : NextLine(gap, raw)
  /\ \E n \in 0..1 : Write(TimeoutLog, n)
  /\ UNCHANGED <<command, stage, test_index, passed, status>>

-----------------------------------------------------------------------------
(* --run-all                                                               *)

(* validate_hal_negative_cases() leaves its trace in the last error.       *)
AfterNegativeRead ==
  [FreshLink EXCEPT
     !.last_error = Error("INVALID_ARGUMENT", "hal_read_sensors", 0, "ERROR")]

StartSuite ==
  /\ stage = "start" /\ command.kind = "run_all"
  /\ LET opening == IF command.json THEN <<Header>> ELSE <<Text("log")>> IN
     \/ /\ Write(opening, 1)
        /\ link' = AfterNegativeRead /\ stage' = "tests"
        /\ UNCHANGED <<pc, cal, engine, clock, line, sensor_frame, result, reporting,
                       outcome, command, test_index, passed, status>>
     \/ Exit("INTERNAL_ERROR", opening, 0)

(* run_test_case() up to the scenario: a separator that cannot be written  *)
(* fails the test, which is not run.                                       *)
StartTest ==
  /\ stage = "tests" /\ test_index < Total
  /\ LET separator == IF command.json THEN << >> ELSE <<Text("separator")>> IN
     \/ /\ Write(separator, Len(separator))
        /\ Prepare(link, Len(SelectedTest.profile))
        /\ UNCHANGED <<command, test_index, passed, status>>
     \/ /\ separator # << >> /\ Write(separator, 0)
        /\ test_index' = test_index + 1
        /\ UNCHANGED <<vars, command, stage, passed, status>>

(* Faulty variant: a test passes on its result, written or not.            *)
FinishTestUnwritten ==
  /\ stage = "running" /\ pc = "done" /\ command.kind = "run_all"
  /\ LET verdict == IF ~command.json THEN <<Text("result")>>
                    ELSE (IF test_index > 0 THEN <<Comma>> ELSE << >>) \o
                         <<Object(SelectedTest.expected_result, outcome, tick_report_count)>>
     IN  \E n \in 0..Len(verdict) : Write(verdict, n)
  /\ passed' = IF outcome = SelectedTest.expected_result THEN passed + 1 ELSE passed
  /\ test_index' = test_index + 1 /\ stage' = "tests"
  /\ UNCHANGED <<vars, command, status>>

(* The rest of run_test_case(): a test passes when its result is the       *)
(* expected one and has been written.                                      *)
FinishTest ==
  /\ stage = "running" /\ pc = "done" /\ command.kind = "run_all"
  /\ LET verdict == IF ~command.json THEN <<Text("result")>>
                    ELSE (IF test_index > 0 THEN <<Comma>> ELSE << >>) \o
                         <<Object(SelectedTest.expected_result, outcome, tick_report_count)>>
     IN
     \/ /\ outcome = "ERROR"
        /\ UNCHANGED <<output, passed>>
     \/ /\ outcome # "ERROR"
        /\ \E n \in 0..Len(verdict) :
             /\ Write(verdict, n)
             /\ passed' = IF n = Len(verdict) /\ outcome = SelectedTest.expected_result
                          THEN passed + 1 ELSE passed
  /\ test_index' = test_index + 1 /\ stage' = "tests"
  /\ UNCHANGED <<vars, command, status>>

EndSuite ==
  /\ stage = "tests" /\ test_index = Total
  /\ LET closing == IF command.json THEN <<Footer(passed, Total, NoError)>>
                    ELSE <<Text("separator"), Text("summary"), Text("log")>>
     IN  \E n \in 0..Len(closing) :
           Exit(IF n = Len(closing) /\ passed = Total THEN "OK" ELSE "INTERNAL_ERROR",
                closing, n)

-----------------------------------------------------------------------------
(* --scenario                                                              *)

StartNamed ==
  /\ stage = "start" /\ command.kind = "scenario"
  /\ \/ /\ FindNamed(command.name) = 0
        /\ Exit("INVALID_ARGUMENT", << >>, 0)
     \/ /\ FindNamed(command.name) # 0
        /\ Prepare(FreshLink, Len(SelectedTest.profile))
        /\ UNCHANGED <<command, test_index, passed, output, status>>

(* Faulty variant: the footer always counts a pass.                        *)
FinishNamedPasses ==
  /\ stage = "running" /\ pc = "done" /\ command.kind = "scenario"
  /\ LET verdict == IF ~command.json THEN <<Text("log"), Text("result")>>
                    ELSE <<Header, Object(SelectedTest.expected_result, outcome,
                                          tick_report_count),
                           Footer(1, 1, NoError)>>
     IN  \E n \in 0..Len(verdict) :
           Exit(IF n = Len(verdict) THEN "OK" ELSE "INTERNAL_ERROR", verdict, n)

(* A result that is not the expected one is reported, not returned.        *)
FinishNamed ==
  /\ stage = "running" /\ pc = "done" /\ command.kind = "scenario"
  /\ LET expected == SelectedTest.expected_result
         verdict == IF ~command.json THEN <<Text("log"), Text("result")>>
                    ELSE <<Header, Object(expected, outcome, tick_report_count),
                           Footer(IF outcome = expected THEN 1 ELSE 0, 1, NoError)>>
     IN
     \/ /\ outcome = "ERROR"
        /\ Exit("INTERNAL_ERROR", << >>, 0)
     \/ /\ outcome # "ERROR"
        /\ \E n \in 0..Len(verdict) :
             Exit(IF n = Len(verdict) THEN "OK" ELSE "INTERNAL_ERROR", verdict, n)

-----------------------------------------------------------------------------
(* --script                                                                *)

ParseError == Error("PARSE_ERROR", "script_parser_parse_file", 0, "ERROR")

(* The parser refuses the file, or returns some lines; comments are        *)
(* refused in strict mode and warned about on the console otherwise.       *)
StartScript ==
  /\ stage = "start" /\ command.kind = "script"
  /\ LET refusal == IF command.json THEN <<Header, Footer(0, 0, ParseError)>>
                    ELSE <<Text("log")>>
     IN  \/ \E n \in 0..Len(refusal) : Exit("PARSE_ERROR", refusal, n)
         \/ \E lines \in TickCounts \cap 1..MaxProfileTicks, comments \in BOOLEAN :
              LET warning == IF comments /\ ~command.json THEN <<Text("log")>> ELSE << >>
              IN  /\ comments => ~command.strict
                  /\ \/ /\ Write(warning, Len(warning))
                        /\ Prepare(FreshLink, lines)
                        /\ UNCHANGED <<command, test_index, passed, status>>
                     \/ /\ warning # << >>
                        /\ Exit("INTERNAL_ERROR", warning, 0)

(* Faulty variant: the result code is returned as if it were a status.     *)
FinishScriptReturnsResult ==
  /\ stage = "running" /\ pc = "done" /\ command.kind = "script"
  /\ Exit(IF outcome = "ERROR" THEN "INTERNAL_ERROR" ELSE outcome, << >>, 0)

(* Faulty variant: the last error is asked for after the HAL shut down.    *)
FinishScriptAfterShutdown ==
  /\ stage = "running" /\ pc = "done" /\ command.kind = "script"
  /\ LET failure == IF command.json THEN <<Header, Footer(0, 0, NoError)>> ELSE << >>
         verdict == IF ~command.json THEN <<Text("log"), Text("result")>>
                    ELSE <<Header, Object(outcome, outcome, tick_report_count),
                           Footer(1, 1, NoError)>>
     IN
     \/ /\ outcome = "ERROR"
        /\ \E n \in 0..Len(failure) : Exit("INTERNAL_ERROR", failure, n)
     \/ /\ outcome # "ERROR"
        /\ \E n \in 0..Len(verdict) :
             Exit(IF n = Len(verdict) THEN "OK" ELSE "INTERNAL_ERROR", verdict, n)

(* A failed run is explained by the HAL's last error; any other one is its *)
(* own expectation.                                                        *)
FinishScript ==
  /\ stage = "running" /\ pc = "done" /\ command.kind = "script"
  /\ LET failure == IF command.json THEN <<Header, Footer(0, 0, link.last_error)>>
                    ELSE << >>
         verdict == IF ~command.json THEN <<Text("log"), Text("result")>>
                    ELSE <<Header, Object(outcome, outcome, tick_report_count),
                           Footer(1, 1, NoError)>>
     IN
     \/ /\ outcome = "ERROR"
        /\ \E n \in 0..Len(failure) : Exit("INTERNAL_ERROR", failure, n)
     \/ /\ outcome # "ERROR"
        /\ \E n \in 0..Len(verdict) :
             Exit(IF n = Len(verdict) THEN "OK" ELSE "INTERNAL_ERROR", verdict, n)

-----------------------------------------------------------------------------
RunnerInit ==
  /\ Init
  /\ tick_count = CHOOSE n \in TickCounts : TRUE   \* unused before Prepare
  /\ command \in Commands /\ stage = "start"
  /\ test_index = 0 /\ passed = 0 /\ output = << >> /\ status = "none"

RunnerNext == \/ StartSuite
              \/ StartTest
              \/ FinishTest
              \/ EndSuite
              \/ StartNamed
              \/ FinishNamed
              \/ StartScript
              \/ FinishScript
              \/ RunStep

(* One thread that runs until it returns.                                  *)
RunnerSpec == RunnerInit /\ [][RunnerNext]_allVars /\ WF_allVars(RunnerNext)
=============================================================================
