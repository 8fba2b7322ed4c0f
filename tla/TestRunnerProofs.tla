-------------------------- MODULE TestRunnerProofs --------------------------
(***************************************************************************)
(* What the commands guarantee, proved for every registry, script and      *)
(* calibration the assumptions admit and any number of failing writes.     *)
(***************************************************************************)
EXTENDS TestRunnerProperties, TimingProofs, SequenceTheorems, FiniteSetTheorems

-----------------------------------------------------------------------------
(* The catalog.                                                            *)

LEMMA TotalFacts == Total = 10
  BY DEF Total, TEST_REGISTRY

LEMMA ProfileFacts ==
  ASSUME NEW i \in 1..Total
  PROVE  /\ TEST_REGISTRY[i].profile \in Seq(Frames)
         /\ Len(TEST_REGISTRY[i].profile) \in 1..MaxProfileTicks
         /\ Len(TEST_REGISTRY[i].profile) < ReportCapacity
  BY RunnerAssumption DEF Total

(* The aliases of the command line name entries of the registry.           *)
LEMMA AliasFacts ==
  ASSUME NEW name, FindNamed(name) # 0
  PROVE  FindNamed(name) \in 1..Total
<1>1. name \in DOMAIN NAMED_SCENARIO_ALIASES
  BY DEF FindNamed
<1>2. NAMED_SCENARIO_ALIASES[name] \in 1..10
  BY <1>1 DEF NAMED_SCENARIO_ALIASES
<1>3. QED
  BY <1>1, <1>2, TotalFacts DEF FindNamed

LEMMA ExpectedFacts ==
  ASSUME NEW i \in 1..Total
  PROVE  TEST_REGISTRY[i].expected_result \in Results
<1>1. i = 1 \/ i = 2 \/ i = 3 \/ i = 4 \/ i = 5 \/ i = 6 \/ i = 7 \/ i = 8 \/ i = 9 \/ i = 10
  BY TotalFacts
<1>2. QED
  BY <1>1 DEF TEST_REGISTRY, TestCase, Results

-----------------------------------------------------------------------------
(* The steps of the loop.                                                  *)

LEMMA SelectedFacts ==
  ASSUME StageInv, RunnerTypeOK, stage = "running", BuiltIn
  PROVE  /\ SelectedTest.profile \in Seq(Frames)
         /\ Len(SelectedTest.profile) \in 1..MaxProfileTicks
         /\ Len(SelectedTest.profile) < ReportCapacity
         /\ SelectedTest.expected_result \in Results
<1> DEFINE which == IF command.kind = "run_all" THEN test_index + 1
                    ELSE FindNamed(command.name)
<1>1. command.kind \in {"run_all", "scenario"}
  BY CommandAssumption DEF RunnerTypeOK, CommandRecords, BuiltIn
<1>2. CASE command.kind = "run_all"
  <2>1. test_index + 1 \in 1..Total
    BY <1>2, TotalFacts DEF StageInv, RunnerTypeOK
  <2>2. SelectedTest = TEST_REGISTRY[test_index + 1]
    BY <1>2 DEF SelectedTest
  <2>3. QED
    BY <2>1, <2>2, ProfileFacts, ExpectedFacts
<1>3. CASE command.kind = "scenario"
  <2>1. FindNamed(command.name) \in 1..Total
    BY <1>3, AliasFacts DEF StageInv
  <2>2. SelectedTest = TEST_REGISTRY[FindNamed(command.name)]
    BY <1>3 DEF SelectedTest
  <2>3. QED
    BY <2>1, <2>2, ProfileFacts, ExpectedFacts
<1>4. QED
  BY <1>1, <1>2, <1>3

(* What the loop may meet is what a scenario run may meet.                 *)
LEMMA MetFacts ==
  ASSUME StageInv, BuiltInRunInv, RunnerTypeOK, stage = "running", pc = "next",
         tick_index < tick_count
  PROVE  GapsMet \subseteq Gaps /\ LinesMet \subseteq Lines
<1>1. GapsMet \subseteq Gaps
  BY RunnerAssumption DEF GapsMet
<1>2. CASE command.kind = "script"
  BY <1>1, <1>2, CommandAssumption DEF LinesMet, Lines
<1>3. CASE command.kind # "script"
  <2> DEFINE profile == SelectedTest.profile
  <2>1. profile \in Seq(Frames) /\ tick_count = Len(profile)
    BY <1>3, SelectedFacts DEF BuiltInRunInv, MeetsProfile, BuiltIn
  <2>2. tick_index + 1 \in 1..Len(profile)
    BY <2>1 DEF StageInv, RunTypeOK
  <2>3. NextSample = profile[tick_index + 1]
    BY DEF NextSample
  <2>4. NextSample \in Frames
    BY <2>1, <2>2, <2>3, ElementOfSeq
  <2>5. QED
    BY <1>1, <1>3, <2>4, RunnerAssumption DEF LinesMet, Lines
<1>4. QED
  BY <1>2, <1>3

(* A step of the loop is a step of the scenario run.                       *)
LEMMA RunIsNext ==
  ASSUME StageInv, BuiltInRunInv, RunnerTypeOK, RunStep
  PROVE  /\ stage = "running" /\ Inv /\ Next
         /\ pc # "done"
         /\ UNCHANGED <<command, stage, test_index, passed, status>>
<1>1. stage = "running" /\ Inv /\ pc # "done"
      /\ UNCHANGED <<command, stage, test_index, passed, status>>
  BY DEF RunStep, StageInv, Inv
<1>2. CASE Step
  BY <1>1, <1>2 DEF Next
<1>3. CASE pc = "next" /\ tick_index < tick_count
           /\ \E gap \in GapsMet, raw \in LinesMet : NextLine(gap, raw)
  BY <1>1, <1>3, MetFacts DEF Next
<1>4. QED
  BY <1>1, <1>2, <1>3 DEF RunStep

(* A step that ends the run leaves nothing in the receive ring.            *)
LEMMA DoneIsDrained ==
  ASSUME Inv, Next, pc' = "done"
  PROVE  link'.rx = << >>
<1>1. CASE RefuseArguments \/ Begin
  BY <1>1 DEF Inv, LoopInv, RefuseArguments, Begin
<1>2. CASE PollGap
  <2>1. link \in Links /\ link.rx = << >> /\ sim_tick \in Nat
    BY <1>2 DEF Inv, RunTypeOK, LoopInv, Looping, PollGap
  <2>2. link' = AfterRead(link, sim_tick)
    BY <1>2 DEF PollGap
  <2>3. QED
    BY <2>1, <2>2, PollFacts
<1>3. CASE Ingest
  BY <1>3, IngestStep
<1>4. CASE Read
  BY <1>4, ReadStep
<1>5. CASE Evaluate
  BY <1>5, EvaluateStep
<1>6. CASE PrintFails \/ Finish
  BY <1>6 DEF Inv, LoopInv, Looping, PrintFails, Finish
<1>7. CASE Update
  BY <1>7, UpdateStep
<1>8. CASE \E gap \in Gaps, raw \in Lines : NextLine(gap, raw)
  BY <1>8, NextLineStep
<1>9. QED
  BY <1>1, <1>2, <1>3, <1>4, <1>5, <1>6, <1>7, <1>8 DEF Next, Step

-----------------------------------------------------------------------------
(* Preparing a run.                                                        *)

LEMMA HalFacts ==
  /\ FreshLink \in Links /\ FreshLink.rx = << >>
  /\ AfterNegativeRead \in Links /\ AfterNegativeRead.rx = << >>
<1> DEFINE first == Error("OK", "hal_init", 0, "INFO")
           negative == Error("INVALID_ARGUMENT", "hal_read_sensors", 0, "ERROR")
<1>1. first \in Errors /\ negative \in Errors
  BY DEF Error, Errors
<1>2. << >> \in Seq(RawFrames(Frames))
  OBVIOUS
<1>3. /\ FreshLink = [rx |-> << >>, last_sensor_tick |-> 0, has_sensor_tick |-> 0,
                      last_error |-> first]
      /\ AfterNegativeRead = [rx |-> << >>, last_sensor_tick |-> 0, has_sensor_tick |-> 0,
                              last_error |-> negative]
  BY DEF FreshLink, AfterNegativeRead
<1> HIDE DEF first, negative
<1>4. QED
  BY <1>1, <1>2, <1>3 DEF Links

LEMMA EncodeFacts ==
  ASSUME NEW l \in Links
  PROVE  /\ AfterEncode(l) \in Links /\ AfterEncode(l).rx = l.rx
         /\ AfterEncode(l).last_error.code = "OK"
<1> DEFINE error == Error("OK", "hal_encode_sensor_frame", 0, "INFO")
<1>1. error \in Errors /\ error.code = "OK"
  BY DEF Error, Errors
<1>2. AfterEncode(l) = [l EXCEPT !.last_error = error]
  BY DEF AfterEncode
<1> HIDE DEF error
<1>3. QED
  BY <1>1, <1>2 DEF Links

(* Whatever the HAL was left in by the test before, a prepared run stands  *)
(* where a run begins.                                                     *)
LEMMA PrepareInv ==
  ASSUME cal \in Calibrations, NEW hal \in Links, hal.rx = << >>, NEW lines \in Nat,
         Prepare(hal, lines)
  PROVE  /\ Inv'
         /\ pc' = "begin" /\ outcome' = "none" /\ tick_count' = lines
         /\ link' = AfterEncode(hal) /\ link'.last_error.code = "OK"
         /\ tick_reports' = << >> /\ stage' = "running" /\ cal' = cal
<1>1. /\ pc' = "begin" /\ outcome' = "none" /\ tick_count' = lines
      /\ link' = AfterEncode(hal) /\ engine' = EngineInit /\ result' = "OK"
      /\ tick_index' = 0 /\ current_tick' = 0 /\ target_tick' = 0 /\ sim_tick' = 0
      /\ line' = NoLine /\ sensor_frame' = NoFrame
      /\ tick_reports' = << >> /\ tick_report_count' = 0
      /\ stage' = "running" /\ cal' = cal
  BY DEF Prepare
<1>2. link' \in Links /\ link'.rx = << >> /\ link'.last_error.code = "OK"
  BY <1>1, EncodeFacts
<1>3. line' \in RawFrames(Frames) /\ line'.kind = "sensor"
  BY <1>1, NoFrameFacts DEF NoLine, RawFrames, FrameKinds
<1>4. RunTypeOK'
  BY <1>1, <1>2, <1>3, NoFrameFacts, EngineInitFacts DEF RunTypeOK, Results
<1>5. LoopInv'
  BY <1>1, <1>2, <1>3 DEF LoopInv, Looping, InLine
<1>6. QED
  BY <1>1, <1>2, <1>4, <1>5 DEF Inv

-----------------------------------------------------------------------------
(* The stages of a command.                                                *)

RunnerInv == RunnerTypeOK /\ StageInv

LEMMA KindFacts ==
  ASSUME RunnerTypeOK
  PROVE  /\ command.kind \in {"run_all", "scenario", "script"} /\ command.json \in BOOLEAN
         /\ test_index \in Nat /\ passed \in Nat
  BY CommandAssumption DEF RunnerTypeOK, CommandRecords

LEMMA RunStepStage ==
  ASSUME RunnerInv, BuiltInRunInv, RunStep
  PROVE  RunnerInv'
<1>1. /\ stage = "running" /\ Inv /\ Next
      /\ UNCHANGED <<command, stage, test_index, passed, status>>
  BY RunIsNext DEF RunnerInv
<1>2. Inv'
  BY <1>1, LoopInductive
<1>3. tick_count' = tick_count
  BY <1>1 DEF Next, Step, RefuseArguments, Begin, PollGap, Ingest, Read, Evaluate,
              PrintFails, Update, Finish, NextLine, clock
<1>4. pc' = "done" => link'.rx = << >>
  BY <1>1, DoneIsDrained
<1>5. QED
  BY <1>1, <1>2, <1>3, <1>4 DEF RunnerInv, RunnerTypeOK, StageInv, Inv

LEMMA ExitStage ==
  ASSUME RunnerTypeOK, NEW code \in StatusCodes, NEW tokens, NEW n, Exit(code, tokens, n)
  PROVE  RunnerInv'
  BY DEF RunnerTypeOK, RunnerInv, StageInv, Exit, StatusCodes

LEMMA StartTestSteps ==
  ASSUME RunnerInv, StartTest
  PROVE  /\ stage = "tests" /\ test_index < Total /\ UNCHANGED <<command, passed, status>>
         /\ command.kind = "run_all" /\ cal \in Calibrations
         /\ \/ /\ Prepare(link, Len(SelectedTest.profile)) /\ test_index' = test_index
               /\ link \in Links /\ link.rx = << >>
               /\ SelectedTest' = SelectedTest
               /\ SelectedTest.profile \in Seq(Frames)
               /\ Len(SelectedTest.profile) \in 1..MaxProfileTicks
            \/ /\ UNCHANGED <<vars, stage>> /\ test_index' = test_index + 1
<1>1. /\ stage = "tests" /\ test_index < Total /\ UNCHANGED <<command, passed, status>>
      /\ command.kind = "run_all" /\ cal \in Calibrations
      /\ link \in Links /\ link.rx = << >> /\ test_index \in Nat
  BY TotalFacts DEF RunnerInv, StageInv, RunTypeOK, LoopInv, Looping, StartTest, RunnerTypeOK
<1>2. SelectedTest = TEST_REGISTRY[test_index + 1] /\ test_index + 1 \in 1..Total
  BY <1>1, TotalFacts DEF SelectedTest
<1>3. /\ SelectedTest.profile \in Seq(Frames)
      /\ Len(SelectedTest.profile) \in 1..MaxProfileTicks
  BY <1>2, ProfileFacts
<1>4. CASE Prepare(link, Len(SelectedTest.profile)) /\ test_index' = test_index
  <2>1. SelectedTest' = SelectedTest
    BY <1>1, <1>4 DEF SelectedTest
  <2>2. QED
    BY <1>1, <1>3, <1>4, <2>1
<1>5. CASE UNCHANGED <<vars, stage>> /\ test_index' = test_index + 1
  BY <1>1, <1>5
<1>6. QED
  BY <1>4, <1>5 DEF StartTest

LEMMA StartSuiteStage ==
  ASSUME RunnerInv, StartSuite
  PROVE  RunnerInv'
<1>1. CASE \E opening : Exit("INTERNAL_ERROR", opening, 0)
  BY <1>1, ExitStage DEF RunnerInv, StatusCodes
<1>2. CASE /\ link' = AfterNegativeRead /\ stage' = "tests"
           /\ UNCHANGED <<pc, cal, engine, clock, line, sensor_frame, result, reporting,
                          outcome, command, test_index, passed, status>>
  <2>1. /\ pc = "begin" /\ RunTypeOK /\ LoopInv /\ command.kind = "run_all"
        /\ stage = "start" /\ status = "none"
    BY DEF RunnerInv, StageInv, StartSuite, RunnerTypeOK
  <2>2. RunTypeOK'
    BY <1>2, <2>1, HalFacts DEF RunTypeOK, clock, reporting
  <2>3. LoopInv'
    BY <1>2, <2>1, HalFacts DEF LoopInv, Looping, InLine, clock, reporting
  <2>4. QED
    BY <1>2, <2>1, <2>2, <2>3 DEF RunnerInv, RunnerTypeOK, StageInv, Total, BuiltIn
<1>3. QED
  BY <1>1, <1>2 DEF StartSuite

LEMMA StartTestStage ==
  ASSUME RunnerInv, StartTest
  PROVE  RunnerInv'
<1>1. CASE /\ Prepare(link, Len(SelectedTest.profile)) /\ test_index' = test_index
           /\ link \in Links /\ link.rx = << >>
           /\ Len(SelectedTest.profile) \in Nat
  <2>1. Inv' /\ pc' = "begin" /\ stage' = "running"
    BY <1>1, StartTestSteps, PrepareInv
  <2>2. QED
    BY <1>1, <2>1, StartTestSteps DEF RunnerInv, RunnerTypeOK, StageInv, Inv
<1>2. CASE UNCHANGED <<vars, stage>> /\ test_index' = test_index + 1
  <2>1. Inv
    BY StartTestSteps DEF RunnerInv, StageInv, Inv
  <2>2. Inv'
    BY <1>2, <2>1, StutterInv
  <2>3. test_index \in Nat /\ passed \in Nat /\ Total \in Nat
    BY KindFacts, TotalFacts DEF RunnerInv
  <2>4. QED
    BY <1>2, <2>2, <2>3, StartTestSteps DEF RunnerInv, RunnerTypeOK, StageInv, Inv, vars
<1>3. QED
  BY <1>1, <1>2, StartTestSteps

LEMMA StartNamedStage ==
  ASSUME RunnerInv, StartNamed
  PROVE  RunnerInv'
<1>1. CASE Exit("INVALID_ARGUMENT", << >>, 0)
  BY <1>1, ExitStage DEF RunnerInv, StatusCodes
<1>2. CASE /\ FindNamed(command.name) # 0
           /\ Prepare(FreshLink, Len(SelectedTest.profile))
           /\ UNCHANGED <<command, test_index, passed, output, status>>
  <2>1. command.kind = "scenario" /\ cal \in Calibrations /\ status = "none"
    BY DEF RunnerInv, RunnerTypeOK, StageInv, RunTypeOK, StartNamed
  <2>2. Len(SelectedTest.profile) \in Nat
    BY <1>2, <2>1, AliasFacts, ProfileFacts DEF SelectedTest
  <2>3. Inv' /\ pc' = "begin" /\ stage' = "running"
    BY <1>2, <2>1, <2>2, HalFacts, PrepareInv
  <2>4. QED
    BY <1>2, <2>1, <2>3 DEF RunnerInv, RunnerTypeOK, StageInv, Inv
<1>3. QED
  BY <1>1, <1>2 DEF StartNamed

LEMMA StartScriptStage ==
  ASSUME RunnerInv, StartScript
  PROVE  RunnerInv'
<1>1. CASE \E code \in {"PARSE_ERROR", "INTERNAL_ERROR"} : \E tokens, n : Exit(code, tokens, n)
  BY <1>1, ExitStage DEF RunnerInv, StatusCodes
<1>2. CASE \E lines \in TickCounts \cap 1..MaxProfileTicks :
             /\ Prepare(FreshLink, lines)
             /\ UNCHANGED <<command, test_index, passed, status>>
  <2>1. command.kind = "script" /\ cal \in Calibrations /\ status = "none"
    BY DEF RunnerInv, RunnerTypeOK, StageInv, RunTypeOK, StartScript
  <2>2. PICK lines \in TickCounts \cap 1..MaxProfileTicks :
          /\ Prepare(FreshLink, lines)
          /\ UNCHANGED <<command, test_index, passed, status>>
    BY <1>2
  <2>3. Inv' /\ pc' = "begin" /\ stage' = "running" /\ tick_count' = lines
    BY <2>1, <2>2, HalFacts, PrepareInv
  <2>4. QED
    BY <2>1, <2>2, <2>3 DEF RunnerInv, RunnerTypeOK, StageInv, Inv
<1>3. QED
  BY <1>1, <1>2 DEF StartScript

LEMMA FinishTestStage ==
  ASSUME RunnerInv, FinishTest
  PROVE  RunnerInv'
<1>1. /\ stage = "running" /\ pc = "done" /\ command.kind = "run_all"
      /\ test_index < Total /\ stage' = "tests" /\ test_index' = test_index + 1
      /\ passed' \in {passed, passed + 1}
      /\ UNCHANGED <<vars, command, status>>
  BY DEF RunnerInv, StageInv, FinishTest
<1>2. Inv' /\ (pc = "done" => link.rx = << >>)
  BY <1>1, StutterInv DEF RunnerInv, StageInv, Inv
<1>3. test_index \in Nat /\ passed \in Nat /\ Total \in Nat
  BY KindFacts, TotalFacts DEF RunnerInv
<1>4. QED
  BY <1>1, <1>2, <1>3 DEF RunnerInv, RunnerTypeOK, StageInv, Inv, vars

LEMMA EndStage ==
  ASSUME RunnerInv, EndSuite \/ FinishNamed \/ FinishScript
  PROVE  RunnerInv'
<1>1. \E code \in {"OK", "INTERNAL_ERROR"} : \E tokens, n : Exit(code, tokens, n)
  BY DEF EndSuite, FinishNamed, FinishScript
<1>2. QED
  BY <1>1, ExitStage DEF RunnerInv, StatusCodes

LEMMA StageInductive ==
  ASSUME RunnerInv, BuiltInRunInv, [RunnerNext]_allVars
  PROVE  RunnerInv'
<1>1. CASE UNCHANGED allVars
  BY <1>1 DEF allVars, vars, clock, reporting, runner, RunnerInv, RunnerTypeOK, StageInv,
              RunTypeOK, LoopInv, Looping, InLine, BadArguments, LastResult, SampleCount, Sample
<1>2. QED
  BY <1>1, StartSuiteStage, StartTestStage, StartNamedStage, StartScriptStage,
     FinishTestStage, EndStage, RunStepStage DEF RunnerNext

-----------------------------------------------------------------------------
(* A built-in scenario.                                                    *)

(* The line the loop meets next is the profile's, one tick later.          *)
LEMMA BuiltInNextLine ==
  ASSUME RunnerInv, BuiltInRunInv, BuiltIn, stage = "running", Inv, pc = "next",
         tick_index < tick_count,
         NEW gap \in GapsMet, NEW raw \in LinesMet, NextLine(gap, raw)
  PROVE  /\ pc' = "ingest" /\ outcome' = outcome
         /\ line'.kind = "sensor" /\ line'.data = SelectedTest.profile[tick_index + 1]
         /\ sim_tick' = target_tick'
         /\ UNCHANGED <<engine, link, tick_count, tick_index, sensor_frame>>
<1>1. gap = 1 /\ raw = [kind |-> "sensor", data |-> NextSample]
  BY DEF GapsMet, LinesMet, BuiltIn
<1>2. gap \in Gaps /\ raw \in Lines
  BY MetFacts DEF RunnerInv
<1>3. QED
  BY <1>1, <1>2, NextLineStep DEF NextLine, NextSample

LEMMA BuiltInMeets ==
  ASSUME RunnerInv, BuiltInRunInv, BuiltIn, RunStep
  PROVE  MeetsProfile'
<1>1. /\ stage = "running" /\ Inv /\ Next
      /\ UNCHANGED <<command, stage, test_index, passed, status>>
  BY RunIsNext DEF RunnerInv
<1>2. SelectedTest' = SelectedTest
  BY <1>1 DEF SelectedTest
<1>3. MeetsProfile
  BY <1>1 DEF BuiltInRunInv
<1>4. ~BadArguments
  BY <1>1, <1>3, SelectedFacts, RunAssumption DEF RunnerInv, BadArguments, MeetsProfile
<1>5. CASE RefuseArguments
  BY <1>4, <1>5 DEF RefuseArguments
<1>6. CASE Begin
  <2>1. engine = EngineInit
    BY <1>1, <1>6 DEF Inv, LoopInv, Begin
  <2>2. pc' = "next" /\ tick_count' = tick_count /\ link' = link
    BY <1>6, <2>1, EngineInitFacts, EngineStartFacts DEF Begin, Continue, clock
  <2>3. QED
    BY <1>2, <1>3, <2>2 DEF MeetsProfile, InLine
<1>7. CASE PollGap
  BY <1>1, <1>3, <1>7, TickTypes DEF PollGap, MeetsProfile, InLine
<1>8. CASE Ingest
  <2>1. pc' = "read" /\ link'.last_error.code = "OK" /\ pc = "ingest"
    BY <1>1, <1>8, IngestStep
  <2>2. UNCHANGED <<clock, line>>
    BY <1>8 DEF Ingest
  <2>3. QED
    BY <1>2, <1>3, <2>1, <2>2 DEF MeetsProfile, InLine, clock
<1>9. CASE Read
  <2>1. pc = "read" /\ line.kind = "sensor" /\ UNCHANGED <<clock, line>>
    BY <1>1, <1>3, <1>9, ReadStep DEF MeetsProfile, InLine
  <2>2. /\ sensor_frame' = line.data /\ pc' = "evaluate"
        /\ link'.last_error.code = "OK"
    BY <1>1, <1>9, <2>1, ReadStep DEF Error
  <2>3. QED
    BY <1>2, <1>3, <2>1, <2>2 DEF MeetsProfile, InLine, clock
<1>10. CASE Evaluate
  <2>1. pc = "evaluate" /\ pc' = "update" /\ UNCHANGED <<link, clock, line, sensor_frame>>
    BY <1>1, <1>10, EvaluateStep
  <2>2. QED
    BY <1>2, <1>3, <2>1 DEF MeetsProfile, InLine, clock
<1>11. CASE PrintFails
  BY <1>2, <1>3, <1>11 DEF MeetsProfile, InLine, PrintFails, Return, clock
<1>12. CASE Update
  <2>1. pc' = "next" /\ UNCHANGED <<link, tick_count>>
    BY <1>1, <1>12, UpdateStep
  <2>2. QED
    BY <1>2, <1>3, <2>1 DEF MeetsProfile, InLine
<1>13. CASE Finish
  <2>1. /\ SampleCount' = SampleCount /\ LastResult' = LastResult
        /\ UNCHANGED <<link, clock>>
    BY <1>13 DEF Finish, SampleCount, LastResult, Sample
  <2>2. pc' = "done" /\ outcome' = result /\ result = LastResult /\ result \in Results
    BY <1>1, <1>13 DEF Finish, Return, Inv, RunTypeOK, LoopInv, Looping
  <2>3. SampleCount = tick_count
    <3>1. Len(tick_reports) = tick_index + 1 /\ tick_index = tick_count /\ tick_count \in Nat
      BY <1>1, <1>13 DEF Finish, Inv, RunTypeOK, LoopInv, Looping
    <3>2. tick_reports # << >>
      BY <3>1
    <3>3. QED
      BY <3>1, <3>2 DEF SampleCount
  <2>4. QED
    BY <1>2, <1>3, <2>1, <2>2, <2>3 DEF MeetsProfile, InLine, Results, clock
<1>14. CASE pc = "next" /\ tick_index < tick_count
            /\ \E gap \in GapsMet, raw \in LinesMet : NextLine(gap, raw)
  <2>1. /\ pc' = "ingest" /\ line'.kind = "sensor"
        /\ line'.data = SelectedTest.profile[tick_index + 1] /\ sim_tick' = target_tick'
        /\ UNCHANGED <<link, tick_count, tick_index>>
    BY <1>1, <1>14, BuiltInNextLine
  <2>2. QED
    BY <1>2, <1>3, <2>1 DEF MeetsProfile, InLine
<1>15. QED
  BY <1>5, <1>6, <1>7, <1>8, <1>9, <1>10, <1>11, <1>12, <1>13, <1>14 DEF RunStep, Step

LEMMA BuiltInSamples ==
  ASSUME RunnerInv, BuiltInRunInv, BuiltIn, RunStep
  PROVE  SamplesAreProfile'
<1>1. /\ stage = "running" /\ Inv /\ Next
      /\ UNCHANGED <<command, stage, test_index, passed, status>>
  BY RunIsNext DEF RunnerInv
<1>2. SelectedTest' = SelectedTest
  BY <1>1 DEF SelectedTest
<1>3. MeetsProfile /\ SamplesAreProfile
  BY <1>1 DEF BuiltInRunInv
<1>4. tick_count' = tick_count
  BY <1>1 DEF Next, Step, RefuseArguments, Begin, PollGap, Ingest, Read, Evaluate,
              PrintFails, Update, Finish, NextLine, clock
<1>5. CASE ~Evaluate
  BY <1>1, <1>2, <1>3, <1>4, <1>5, StableStep DEF SamplesAreProfile
<1>6. CASE Evaluate
  <2>0. PICK k \in Nat : k = SampleCount
    BY <1>1, <1>6, SampleStep
  <2> DEFINE profile == SelectedTest.profile
  <2>1. /\ pc = "evaluate" /\ k = tick_index /\ SampleCount' = k + 1
        /\ \A n \in 1..k : Sample(n)' = Sample(n)
    BY <1>1, <1>6, <2>0, SampleStep DEF Evaluate
  <2>2. sensor_frame = profile[k + 1] /\ tick_index < tick_count
    BY <1>1, <1>3, <2>1 DEF MeetsProfile, InLine, Inv, LoopInv
  <2>3. /\ Sample(k + 1)'.rpm = profile[k + 1].rpm
        /\ Sample(k + 1)'.temperature = profile[k + 1].temperature
        /\ Sample(k + 1)'.oil_pressure = profile[k + 1].oil_pressure
    <3>1. tick_reports' = Append(tick_reports,
                Report(target_tick, sensor_frame, ResultOf(engine'.mode),
                       ControlOutput(engine'), engine'.mode))
      BY <1>1, <1>6, EvaluateStep DEF Evaluate
    <3>2. Len(tick_reports) = k + 1 /\ tick_reports \in Seq(Reports)
      BY <1>1, <2>0, <2>1 DEF Inv, RunTypeOK, LoopInv, Looping
    <3>3. Sample(k + 1)' = Report(target_tick, sensor_frame, ResultOf(engine'.mode),
                                  ControlOutput(engine'), engine'.mode)
      BY <3>1, <3>2, <2>0 DEF Sample
    <3>4. QED
      BY <2>2, <3>3 DEF Report
  <2>4. \A n \in 1..(k + 1) : n = k + 1 \/ n \in 1..k
    BY <2>0
  <2>5. tick_index \in 0..tick_count /\ tick_count \in Nat
    BY <1>1 DEF Inv, RunTypeOK
  <2>6. QED
    BY <1>2, <1>3, <1>4, <2>0, <2>1, <2>2, <2>3, <2>4, <2>5 DEF SamplesAreProfile
<1>7. QED
  BY <1>5, <1>6

-----------------------------------------------------------------------------
(* The verdict of a profile, sample by sample.                             *)

StopsBy(profile, k) ==
  \E n \in 3..k, f \in ShutdownFaults : Warned(profile, n - 1) /\ Persists(profile, f, n)

LEMMA WarnedGrows ==
  ASSUME NEW profile, NEW k \in Nat
  PROVE  /\ Warned(profile, k + 1) <=>
              \/ Warned(profile, k)
              \/ k >= 1 /\ \E f \in Faults : Persists(profile, f, k + 1)
         /\ k = 0 => ~Warned(profile, k) /\ ~Warned(profile, k + 1)
<1>1. k >= 1 => 2..(k + 1) = (2..k) \cup {k + 1}
  OBVIOUS
<1>2. k = 0 => 2..k = {} /\ 2..(k + 1) = {}
  OBVIOUS
<1>3. QED
  BY <1>1, <1>2 DEF Warned

LEMMA StopsGrow ==
  ASSUME NEW profile, NEW k \in Nat
  PROVE  /\ StopsBy(profile, k + 1) <=>
              \/ StopsBy(profile, k)
              \/ k >= 2 /\ Warned(profile, k)
                 /\ \E f \in ShutdownFaults : Persists(profile, f, k + 1)
         /\ StopsBy(profile, k) => Warned(profile, k)
<1>1. k >= 2 => 3..(k + 1) = (3..k) \cup {k + 1}
  OBVIOUS
<1>2. k < 2 => 3..k = {} /\ 3..(k + 1) = {}
  OBVIOUS
<1>3. \A n \in 3..k : Warned(profile, n - 1) => Warned(profile, k)
  BY DEF Warned
<1>4. k + 1 - 1 = k
  OBVIOUS
<1>5. QED
  BY <1>1, <1>2, <1>3, <1>4 DEF StopsBy

LEMMA VerdictCases ==
  ASSUME NEW profile, NEW k \in Nat
  PROVE  VerdictAt(profile, k) = IF StopsBy(profile, k) THEN "SHUTDOWN"
                                 ELSE IF Warned(profile, k) THEN "WARNING" ELSE "OK"
  BY StopsGrow DEF VerdictAt, StopsBy

(* A fault persists in the profile exactly when its counter says so.       *)
LEMMA PersistsIsCounted ==
  ASSUME RunnerInv, BuiltInRunInv, BuiltIn, RunStep, Evaluate,
         CountersMatchReports', SamplesAreProfile', NEW f \in Faults,
         NEW k \in Nat, k = SampleCount
  PROVE  Persists(SelectedTest.profile, f, k + 1)
           <=> engine'.fault_counters[f] >= cal.persistence[f]
<1>1. Inv /\ Inv' /\ UNCHANGED <<command, test_index>>
  BY RunIsNext, LoopInductive DEF RunnerInv
<1>2. SelectedTest' = SelectedTest /\ cal' = cal /\ SampleCount' = k + 1
  BY <1>1, SampleStep DEF SelectedTest
<1>3. PICK c \in Nat : c = engine'.fault_counters[f]
  BY <1>1, EvaluateStep DEF EngineStates
<1>4. PICK p \in Nat : p = cal.persistence[f] /\ p # 0
  BY <1>1, CountTypes
<1>5. \A n \in 1..(k + 1) :
        Shows(n, f)' <=> FaultActive(cal, SelectedTest.profile[n], f)
  BY <1>2 DEF SamplesAreProfile, Shows, FaultActive
<1>6. /\ c <= k + 1
      /\ \A n \in 1..(k + 1) : k + 1 - c + 1 <= n /\ n <= k + 1 => Shows(n, f)'
      /\ c < k + 1 => ~Shows(k + 1 - c, f)'
  BY <1>2, <1>3 DEF CountersMatchReports, TrailingRun, AllShow
<1>7. /\ \A n \in 1..(k + 1) : k + 1 - c < n => FaultActive(cal, SelectedTest.profile[n], f)
      /\ c < k + 1 => ~FaultActive(cal, SelectedTest.profile[k + 1 - c], f)
  BY <1>5, <1>6
<1>8. Persists(SelectedTest.profile, f, k + 1)
        <=> /\ k + 1 >= p
            /\ \A n \in 1..(k + 1) : n > k + 1 - p => FaultActive(cal, SelectedTest.profile[n], f)
  BY <1>4 DEF Persists
<1>9. QED
  BY <1>3, <1>4, <1>6, <1>7, <1>8

LEMMA BuiltInVerdict ==
  ASSUME RunnerInv, BuiltInRunInv, BuiltIn, RunStep, CountersMatchReports',
         SamplesAreProfile'
  PROVE  VerdictSoFar'
<1>1. /\ stage = "running" /\ Inv /\ Next
      /\ UNCHANGED <<command, stage, test_index, passed, status>>
  BY RunIsNext DEF RunnerInv
<1>2. SelectedTest' = SelectedTest /\ VerdictSoFar
  BY <1>1 DEF SelectedTest, BuiltInRunInv
<1>3. PICK k \in Nat : k = SampleCount
  BY <1>1, CountTypes
<1> DEFINE profile == SelectedTest.profile
<1>4. ASSUME cal' = cal, NEW j \in Nat
      PROVE  VerdictAt(profile, j)' = VerdictAt(profile, j)
  BY <1>2, <1>4 DEF VerdictAt, Warned, Persists
<1>5. CASE ~Evaluate
  BY <1>1, <1>2, <1>3, <1>4, <1>5, StableStep DEF VerdictSoFar
<1>6. CASE Evaluate
  <2>1. SampleCount' = k + 1 /\ LastResult' = ResultOf(engine'.mode) /\ cal' = cal
    BY <1>1, <1>3, <1>6, SampleStep
  <2>2. LastResult = IF StopsBy(profile, k) THEN "SHUTDOWN"
                     ELSE IF Warned(profile, k) THEN "WARNING" ELSE "OK"
    BY <1>2, <1>3, VerdictCases DEF VerdictSoFar
  <2>3. PICK code \in {"OK", "WARNING", "SHUTDOWN"} :
          /\ engine'.mode = RequestedMode(engine.mode, code)
          /\ code = "SHUTDOWN" <=> \E f \in ShutdownFaults : Persists(profile, f, k + 1)
          /\ code = "OK" <=> \A f \in Faults : ~Persists(profile, f, k + 1)
    <3>1. \A f \in Faults : /\ engine'.fault_counters[f] \in Nat /\ cal.persistence[f] \in Nat
                            /\ Persists(profile, f, k + 1)
                                 <=> engine'.fault_counters[f] >= cal.persistence[f]
      BY <1>1, <1>3, <1>6, PersistsIsCounted, CountTypes, EvaluateStep DEF EngineStates
    <3>2. ShutdownFaults \subseteq Faults
      BY DEF ShutdownFaults, Faults
    <3>3. QED
      BY <1>1, <1>6, <3>1, <3>2, EscalationStep
  <2>4. /\ LastResult = ResultOf(engine.mode)
        /\ engine.mode \in IF k = 0 THEN {"STARTING"} ELSE {"RUNNING", "WARNING", "SHUTDOWN"}
    BY <1>1, <1>3, <1>6, ModeBefore
  <2>5. LastResult' = IF StopsBy(profile, k + 1) THEN "SHUTDOWN"
                      ELSE IF Warned(profile, k + 1) THEN "WARNING" ELSE "OK"
    <3>1. ShutdownFaults \subseteq Faults
      BY DEF ShutdownFaults, Faults
    <3>2. CASE k = 0
      <4>1. ~StopsBy(profile, k + 1) /\ ~Warned(profile, k + 1)
        BY <3>2, WarnedGrows, StopsGrow
      <4>2. LastResult' = "OK"
        BY <2>1, <2>3, <2>4, <3>2 DEF RequestedMode, ResultOf, Severe
      <4>3. QED
        BY <4>1, <4>2
    <3>3. CASE k >= 1 /\ engine.mode = "RUNNING"
      <4>1. ~StopsBy(profile, k) /\ ~Warned(profile, k)
        BY <2>2, <2>4, <3>3, StopsGrow DEF ResultOf, Severe
      <4>2. ~StopsBy(profile, k + 1)
        BY <4>1, StopsGrow
      <4>3. Warned(profile, k + 1) <=> code # "OK"
        BY <2>3, <3>3, <4>1, WarnedGrows
      <4>4. LastResult' = IF code # "OK" THEN "WARNING" ELSE "OK"
        BY <2>1, <2>3, <3>3 DEF RequestedMode, ResultOf, Severe
      <4>5. QED
        BY <4>2, <4>3, <4>4
    <3>4. CASE k >= 1 /\ engine.mode = "WARNING"
      <4>1. ~StopsBy(profile, k) /\ Warned(profile, k)
        BY <2>2, <2>4, <3>4 DEF ResultOf, Severe
      <4>2. k >= 2 /\ Warned(profile, k + 1)
        BY <4>1, WarnedGrows DEF Warned
      <4>3. StopsBy(profile, k + 1) <=> code = "SHUTDOWN"
        BY <2>3, <4>1, <4>2, StopsGrow
      <4>4. LastResult' = IF code = "SHUTDOWN" THEN "SHUTDOWN" ELSE "WARNING"
        BY <2>1, <2>3, <3>4 DEF RequestedMode, ResultOf, Severe
      <4>5. QED
        BY <4>2, <4>3, <4>4
    <3>5. CASE k >= 1 /\ engine.mode = "SHUTDOWN"
      <4>1. StopsBy(profile, k + 1)
        BY <2>2, <2>4, <3>5, StopsGrow DEF ResultOf, Severe
      <4>2. LastResult' = "SHUTDOWN"
        BY <2>1, <2>3, <3>5 DEF RequestedMode, ResultOf, Severe
      <4>3. QED
        BY <4>1, <4>2
    <3>6. QED
      BY <2>4, <3>2, <3>3, <3>4, <3>5
  <2>6. QED
    BY <1>2, <1>4, <2>1, <2>5, VerdictCases DEF VerdictSoFar
<1>7. QED
  BY <1>5, <1>6

LEMMA BuiltInRunStep ==
  ASSUME RunnerInv, BuiltInRunInv, RunStep
  PROVE  BuiltInRunInv'
<1>1. stage = "running" /\ Inv /\ Next /\ UNCHANGED <<command, stage>>
  BY RunIsNext DEF RunnerInv
<1>2. CASE BuiltIn
  <2>1. MeetsProfile' /\ SamplesAreProfile'
    BY <1>2, BuiltInMeets, BuiltInSamples
  <2>2. CountersMatchReports
    BY <1>1, <1>2 DEF BuiltInRunInv
  <2>3. CountersMatchReports'
    BY <1>1, <2>2, CountersStay, CountersCount
  <2>4. VerdictSoFar'
    BY <1>2, <2>1, <2>3, BuiltInVerdict
  <2>5. QED
    BY <2>1, <2>3, <2>4 DEF BuiltInRunInv
<1>3. CASE ~BuiltIn
  BY <1>1, <1>3 DEF BuiltInRunInv, BuiltIn
<1>4. QED
  BY <1>2, <1>3

(* A prepared run has met no sample yet.                                   *)
LEMMA BuiltInPrepared ==
  ASSUME cal \in Calibrations, NEW hal \in Links, hal.rx = << >>,
         SelectedTest' = SelectedTest, Len(SelectedTest.profile) \in Nat,
         Prepare(hal, Len(SelectedTest.profile))
  PROVE  BuiltInRunInv'
<1>1. /\ Inv' /\ pc' = "begin" /\ tick_count' = Len(SelectedTest.profile)
      /\ link'.last_error.code = "OK" /\ tick_reports' = << >>
  BY PrepareInv
<1>2. SampleCount' = 0 /\ LastResult' = "OK"
  BY <1>1 DEF SampleCount, LastResult
<1>3. MeetsProfile'
  BY <1>1 DEF MeetsProfile, InLine
<1>4. SamplesAreProfile'
  BY <1>1, <1>2 DEF SamplesAreProfile
<1>5. CountersMatchReports'
  <2>1. engine' = EngineInit
    BY DEF Prepare
  <2>2. QED
    BY <1>2, <2>1, EngineInitFacts DEF CountersMatchReports, TrailingRun, AllShow
<1>6. VerdictSoFar'
  <2>1. ~Warned(SelectedTest.profile, 0)'
    BY DEF Warned
  <2>2. ~\E n \in 3..0 : TRUE
    OBVIOUS
  <2>3. VerdictAt(SelectedTest.profile, 0)' = "OK"
    BY <2>1, <2>2 DEF VerdictAt
  <2>4. QED
    BY <1>2, <2>3 DEF VerdictSoFar
<1>7. QED
  BY <1>3, <1>4, <1>5, <1>6 DEF BuiltInRunInv

LEMMA BuiltInInductive ==
  ASSUME RunnerInv, BuiltInRunInv, [RunnerNext]_allVars
  PROVE  BuiltInRunInv'
<1>1. CASE StartSuite \/ FinishTest \/ EndSuite \/ FinishNamed \/ FinishScript
  BY <1>1 DEF StartSuite, FinishTest, EndSuite, FinishNamed, FinishScript, Exit, BuiltInRunInv
<1>2. CASE StartTest
  BY <1>2, StartTestSteps, BuiltInPrepared DEF BuiltInRunInv
<1>3. CASE StartNamed
  <2>1. CASE Exit("INVALID_ARGUMENT", << >>, 0)
    BY <2>1 DEF Exit, BuiltInRunInv
  <2>2. CASE /\ FindNamed(command.name) # 0
             /\ Prepare(FreshLink, Len(SelectedTest.profile))
             /\ UNCHANGED <<command, test_index, passed, output, status>>
    <3>1. command.kind = "scenario" /\ cal \in Calibrations /\ SelectedTest' = SelectedTest
      BY <1>3, <2>2 DEF RunnerInv, RunnerTypeOK, StageInv, RunTypeOK, StartNamed, SelectedTest
    <3>2. Len(SelectedTest.profile) \in Nat
      BY <2>2, <3>1, AliasFacts, ProfileFacts DEF SelectedTest
    <3>3. QED
      BY <2>2, <3>1, <3>2, HalFacts, BuiltInPrepared
  <2>3. QED
    BY <1>3, <2>1, <2>2 DEF StartNamed
<1>4. CASE StartScript
  BY <1>4 DEF StartScript, Exit, BuiltInRunInv, BuiltIn
<1>5. CASE RunStep
  BY <1>5, BuiltInRunStep
<1>6. CASE UNCHANGED allVars
  BY <1>6 DEF allVars, vars, clock, reporting, runner, BuiltInRunInv, BuiltIn, MeetsProfile,
              SamplesAreProfile, CountersMatchReports, TrailingRun, AllShow, Shows, VerdictSoFar,
              VerdictAt, Warned, Persists, SelectedTest, LastResult, SampleCount, Sample, InLine
<1>7. QED
  BY <1>1, <1>2, <1>3, <1>4, <1>5, <1>6 DEF RunnerNext

-----------------------------------------------------------------------------
(* The commands.                                                           *)

LEMMA RunnerInitInv == RunnerInit => RunnerInv /\ BuiltInRunInv
<1> SUFFICES ASSUME RunnerInit PROVE RunnerInv /\ BuiltInRunInv
  OBVIOUS
<1>1. Inv
  BY InitInv DEF RunnerInit
<1>2. QED
  BY <1>1, TotalFacts DEF RunnerInit, Init, RunnerInv, RunnerTypeOK, StageInv, BuiltInRunInv, Inv


LEMMA RunnerCorrect == RunnerSpec => [](RunnerInv /\ BuiltInRunInv)
<1>1. RunnerInv /\ BuiltInRunInv /\ [RunnerNext]_allVars => RunnerInv' /\ BuiltInRunInv'
  BY StageInductive, BuiltInInductive
<1>2. QED
  BY RunnerInitInv, <1>1, PTL DEF RunnerSpec

(* The commands' state has its types at every step, and a command returns  *)
(* a StatusCode and nothing else (RunnerTypeOK of the test-runner run).    *)
THEOREM RunnerTypesCorrect == RunnerSpec => []RunnerTypeOK
<1>1. RunnerInv => RunnerTypeOK
  BY DEF RunnerInv
<1>2. QED
  BY RunnerCorrect, <1>1, PTL

(* execute_profile() under --run-all and --scenario: whatever the tests    *)
(* before it left behind, a built-in scenario that is not cut short by a   *)
(* tick it cannot print ends with the verdict of its own samples           *)
(* (ScenariosAreIsolated of the test-runner run, where ticks are not       *)
(* printed).                                                               *)
THEOREM ScenariosIsolated ==
  RunnerSpec => [](outcome # "ERROR" \/ ~ShowTicks => ScenariosAreIsolated)
<1>1. BuiltInRunInv => (outcome # "ERROR" \/ ~ShowTicks => ScenariosAreIsolated)
  BY DEF BuiltInRunInv, ScenariosAreIsolated, MeetsProfile, VerdictSoFar, Verdict
<1>2. QED
  BY RunnerCorrect, <1>1, PTL

-----------------------------------------------------------------------------
(* What is written.                                                        *)

Texts == {"log", "separator", "result", "summary", "usage", "timeout"}

Tokens ==
  {Header, Comma, Fragment}
    \cup [token : {"text"}, what : Texts]
    \cup [token : {"object"}, expected : Results, actual : Results, ticks : Nat]
    \cup [token : {"footer"}, passed : Nat, total : Nat,
          error : {"none", "INVALID_ARGUMENT", "PARSE_ERROR", "BUFFER_OVERFLOW", "TIMEOUT"},
          tick : Nat]

LEMMA TokenFacts ==
  /\ Header \in Tokens /\ Comma \in Tokens /\ Fragment \in Tokens
  /\ Header # Fragment /\ Comma # Fragment
  /\ ~IsObject(Header) /\ ~IsObject(Comma) /\ ~Passes(Header) /\ ~Passes(Comma)
  BY DEF Tokens, Header, Comma, Fragment, IsObject, Passes

LEMMA TextFacts ==
  ASSUME NEW w \in Texts
  PROVE  Text(w) \in Tokens /\ Text(w) # Fragment /\ ~IsObject(Text(w)) /\ ~Passes(Text(w))
  BY DEF Tokens, Text, Fragment, IsObject, Passes

LEMMA ObjectFacts ==
  ASSUME NEW e \in Results, NEW a \in Results, NEW n \in Nat
  PROVE  /\ Object(e, a, n) \in Tokens /\ Object(e, a, n) # Fragment
         /\ IsObject(Object(e, a, n))
         /\ Passes(Object(e, a, n)) <=> e = a
  BY DEF Tokens, Object, Fragment, IsObject, Passes

LEMMA FooterFacts ==
  ASSUME NEW p \in Nat, NEW a \in Nat, NEW e,
         e \in Errors \/ e = NoError \/ e = ParseError
  PROVE  /\ Footer(p, a, e) \in Tokens /\ Footer(p, a, e) # Fragment
         /\ Footer(p, a, e).token = "footer"
         /\ Footer(p, a, e).passed = p /\ Footer(p, a, e).total = a
         /\ Footer(p, a, e).tick = e.tick
         /\ Footer(p, a, e).error = IF e.code = "OK" THEN "none" ELSE e.code
  BY DEF Tokens, Footer, Fragment, Errors, NoError, ParseError, Error

LEMMA ErrorTokens == NoError.code = "OK" /\ NoError.tick = 0
  BY DEF NoError, Error

(* Nothing of the output is missing.                                       *)
Clean(out) == \A i \in 1..Len(out) : out[i] # Fragment

LEMMA CleanMeansNoFailure ==
  ASSUME NEW out \in Seq(Tokens)
  PROVE  /\ Failures(out) \in Nat
         /\ Failures(out) = 0 <=> Clean(out)
<1> DEFINE missing == {i \in 1..Len(out) : out[i] = Fragment}
<1>1. IsFiniteSet(missing)
  BY FS_Interval, FS_Subset
<1>2. Cardinality(missing) \in Nat /\ (Cardinality(missing) = 0 <=> missing = {})
  BY <1>1, FS_CardinalityType, FS_EmptySet
<1>3. QED
  BY <1>2 DEF Failures, Clean

LEMMA WrittenFacts ==
  ASSUME output \in Seq(Tokens), NEW tokens \in Seq(Tokens), NEW n \in 0..Len(tokens)
  PROVE  LET w == Written(tokens, n)
         IN  /\ w \in Seq(Tokens)
             /\ Len(w) = Len(output) + n + (IF n < Len(tokens) THEN 1 ELSE 0)
             /\ \A i \in 1..Len(output) : w[i] = output[i]
             /\ \A i \in 1..n : w[Len(output) + i] = tokens[i]
             /\ n < Len(tokens) => w[Len(w)] = Fragment
<1> DEFINE part == SubSeq(tokens, 1, n)
           first == output \o part
           rest == IF n < Len(tokens) THEN <<Fragment>> ELSE << >>
<1>1. part \in Seq(Tokens) /\ Len(part) = n /\ \A i \in 1..n : part[i] = tokens[i]
  OBVIOUS
<1>2. Fragment \in Tokens
  BY TokenFacts
<1> HIDE DEF part
<1>3. /\ first \in Seq(Tokens) /\ Len(first) = Len(output) + n
      /\ \A i \in 1..Len(output) : first[i] = output[i]
      /\ \A i \in 1..n : first[Len(output) + i] = tokens[i]
  BY <1>1
<1> HIDE DEF first
<1>4. Written(tokens, n) = first \o rest
  BY DEF Written, first, part
<1>5. CASE n < Len(tokens)
  <2>1. Written(tokens, n) = Append(first, Fragment)
    BY <1>3, <1>4, <1>5
  <2>2. QED
    BY <1>2, <1>3, <1>5, <2>1
<1>6. CASE n = Len(tokens)
  <2>1. rest = << >>
    BY <1>6
  <2>2. first \o << >> = first
    BY <1>3, ConcatEmptySeq
  <2>3. Written(tokens, n) = first
    BY <1>4, <2>1, <2>2
  <2>4. ~(n < Len(tokens)) /\ Len(output) + n + 0 = Len(output) + n
    BY <1>6
  <2>5. QED
    BY <1>3, <2>3, <2>4
<1>7. QED
  BY <1>5, <1>6

LEMMA WrittenClean ==
  ASSUME output \in Seq(Tokens), NEW tokens \in Seq(Tokens), NEW n \in 0..Len(tokens),
         Clean(tokens)
  PROVE  Clean(Written(tokens, n)) <=> Clean(output) /\ n = Len(tokens)
<1> DEFINE w == Written(tokens, n)
<1>1. /\ w \in Seq(Tokens)
      /\ Len(w) = Len(output) + n + (IF n < Len(tokens) THEN 1 ELSE 0)
      /\ \A i \in 1..Len(output) : w[i] = output[i]
      /\ \A i \in 1..n : w[Len(output) + i] = tokens[i]
      /\ n < Len(tokens) => w[Len(w)] = Fragment
  BY WrittenFacts
<1> HIDE DEF w
<1>2. CASE n < Len(tokens)
  BY <1>1, <1>2 DEF Clean, w
<1>3. CASE n = Len(tokens)
  <2>1. ASSUME NEW i \in 1..Len(w)
        PROVE  \/ i \in 1..Len(output) /\ w[i] = output[i]
               \/ i - Len(output) \in 1..n /\ w[i] = tokens[i - Len(output)]
    BY <1>1, <1>3
  <2>2. \A i \in 1..Len(output) : i \in 1..Len(w)
    BY <1>1
  <2>3. QED
    BY <1>1, <1>3, <2>1, <2>2 DEF Clean, w
<1>4. QED
  BY <1>2, <1>3

LEMMA WrittenAll ==
  ASSUME output \in Seq(Tokens), NEW tokens \in Seq(Tokens)
  PROVE  Written(tokens, Len(tokens)) = output \o tokens
<1>1. SubSeq(tokens, 1, Len(tokens)) = tokens
  BY SubSeqFull
<1>2. output \o tokens \in Seq(Tokens)
  BY ConcatProperties
<1>3. (output \o tokens) \o << >> = output \o tokens
  BY <1>2, ConcatEmptySeq
<1>4. ~(Len(tokens) < Len(tokens))
  OBVIOUS
<1>5. QED
  BY <1>1, <1>3, <1>4 DEF Written

LEMMA WriteFacts ==
  ASSUME output \in Seq(Tokens), NEW tokens \in Seq(Tokens), Clean(tokens),
         NEW n, Write(tokens, n)
  PROVE  /\ output' \in Seq(Tokens) /\ n \in 0..Len(tokens)
         /\ Clean(output') <=> Clean(output) /\ n = Len(tokens)
         /\ Clean(output') => output' = output \o tokens
<1>1. n \in 0..Len(tokens) /\ output' = Written(tokens, n)
  BY DEF Write
<1>2. QED
  BY <1>1, WrittenFacts, WrittenClean, WrittenAll

(* The usage text after a failed command is no part of its document.       *)
LEMMA ExitFacts ==
  ASSUME output \in Seq(Tokens), NEW tokens \in Seq(Tokens), Clean(tokens),
         NEW code, NEW n, Exit(code, tokens, n)
  PROVE  /\ output' \in Seq(Tokens) /\ n \in 0..Len(tokens)
         /\ Clean(output') <=> Clean(output) /\ n = Len(tokens)
         /\ Clean(output') /\ ~PrintsUsage(code) => output' = output \o tokens
<1> DEFINE w == Written(tokens, n)
           usage == IF PrintsUsage(code) THEN <<Text("usage")>> ELSE << >>
<1>1. n \in 0..Len(tokens) /\ output' = w \o usage
  BY DEF Exit
<1>2. w \in Seq(Tokens) /\ (Clean(w) <=> Clean(output) /\ n = Len(tokens))
  BY <1>1, WrittenFacts, WrittenClean
<1>3. n = Len(tokens) => w = output \o tokens
  BY WrittenAll
<1> HIDE DEF w
<1>4. CASE PrintsUsage(code)
  <2>1. output' = Append(w, Text("usage"))
    BY <1>1, <1>2, <1>4
  <2>2. Text("usage") \in Tokens /\ Text("usage") # Fragment
    BY TextFacts DEF Texts
  <2>3. Len(output') = Len(w) + 1 /\ output'[Len(w) + 1] = Text("usage")
        /\ \A i \in 1..Len(w) : output'[i] = w[i]
    BY <1>2, <2>1, <2>2
  <2>4. 1..Len(output') = (1..Len(w)) \cup {Len(w) + 1}
    BY <1>2, <2>3
  <2>5. Clean(output') <=> Clean(w)
    BY <1>2, <2>2, <2>3, <2>4 DEF Clean
  <2>6. QED
    BY <1>1, <1>2, <1>4, <2>1, <2>2, <2>5
<1>5. CASE ~PrintsUsage(code)
  <2>1. output' = w
    BY <1>1, <1>2, <1>5, ConcatEmptySeq
  <2>2. QED
    BY <1>1, <1>2, <1>3, <2>1
<1>6. QED
  BY <1>4, <1>5

-----------------------------------------------------------------------------
(* The lines each action writes.                                           *)

TestLines ==
  IF ~command.json THEN <<Text("result")>>
  ELSE (IF test_index > 0 THEN <<Comma>> ELSE << >>) \o
       <<Object(SelectedTest.expected_result, outcome, tick_report_count)>>

ClosingLines ==
  IF command.json THEN <<Footer(passed, Total, NoError)>>
  ELSE <<Text("separator"), Text("summary"), Text("log")>>

NamedLines ==
  IF ~command.json THEN <<Text("log"), Text("result")>>
  ELSE <<Header, Object(SelectedTest.expected_result, outcome, tick_report_count),
         Footer(IF outcome = SelectedTest.expected_result THEN 1 ELSE 0, 1, NoError)>>

FailureLines ==
  IF command.json THEN <<Header, Footer(0, 0, link.last_error)>> ELSE << >>

ScriptLines ==
  IF ~command.json THEN <<Text("log"), Text("result")>>
  ELSE <<Header, Object(outcome, outcome, tick_report_count), Footer(1, 1, NoError)>>

RefusalLines ==
  IF command.json THEN <<Header, Footer(0, 0, ParseError)>> ELSE <<Text("log")>>

(* A sequence of one, two or three tokens none of which is a fragment.     *)
LEMMA CleanTuples ==
  ASSUME NEW a \in Tokens, NEW b \in Tokens, NEW c \in Tokens,
         a # Fragment, b # Fragment, c # Fragment
  PROVE  /\ << >> \in Seq(Tokens) /\ Clean(<< >>)
         /\ <<a>> \in Seq(Tokens) /\ Clean(<<a>>)
         /\ <<a, b>> \in Seq(Tokens) /\ Clean(<<a, b>>)
         /\ <<a, b, c>> \in Seq(Tokens) /\ Clean(<<a, b, c>>)
  BY DEF Clean

LEMMA TupleConcat ==
  ASSUME NEW a \in Tokens, NEW b \in Tokens, NEW c \in Tokens
  PROVE  /\ << >> \o <<a>> = <<a>> /\ <<a>> \o <<b>> = <<a, b>>
         /\ <<a, b>> \o <<c>> = <<a, b, c>>
<1>1. /\ <<a>> \in Seq(Tokens) /\ Len(<<a>>) = 1 /\ <<a>>[1] = a
      /\ <<b>> \in Seq(Tokens) /\ Len(<<b>>) = 1 /\ <<b>>[1] = b
      /\ <<c>> \in Seq(Tokens) /\ Len(<<c>>) = 1 /\ <<c>>[1] = c
      /\ <<a, b>> \in Seq(Tokens) /\ Len(<<a, b>>) = 2
      /\ <<a, b>>[1] = a /\ <<a, b>>[2] = b
      /\ <<a, b, c>> \in Seq(Tokens) /\ Len(<<a, b, c>>) = 3
      /\ <<a, b, c>>[1] = a /\ <<a, b, c>>[2] = b /\ <<a, b, c>>[3] = c
  OBVIOUS
<1> DEFINE two == <<a>> \o <<b>>
           three == <<a, b>> \o <<c>>
<1>2. /\ two \in Seq(Tokens) /\ Len(two) = 2 /\ two[1] = a /\ two[2] = b
      /\ three \in Seq(Tokens) /\ Len(three) = 3
      /\ three[1] = a /\ three[2] = b /\ three[3] = c
  BY <1>1, ConcatProperties
<1> HIDE DEF two, three
<1>3. two = <<a, b>>
  <2>1. \A i \in 1..2 : two[i] = <<a, b>>[i]
    <3>1. \A i \in 1..2 : i = 1 \/ i = 2
      OBVIOUS
    <3>2. QED
      BY <1>1, <1>2, <3>1
  <2>2. QED
    BY <1>1, <1>2, <2>1, SeqEqual
<1>4. three = <<a, b, c>>
  <2>1. \A i \in 1..3 : three[i] = <<a, b, c>>[i]
    <3>1. \A i \in 1..3 : i = 1 \/ i = 2 \/ i = 3
      OBVIOUS
    <3>2. QED
      BY <1>1, <1>2, <3>1
  <2>2. QED
    BY <1>1, <1>2, <2>1, SeqEqual
<1>5. << >> \o <<a>> = <<a>>
  BY <1>1, ConcatEmptySeq
<1>6. QED
  BY <1>3, <1>4, <1>5 DEF two, three

LEMMA EndedRun ==
  ASSUME RunnerInv, stage = "running", pc = "done"
  PROVE  /\ outcome \in Results \cup {"ERROR"} /\ tick_report_count \in Nat
         /\ link.last_error \in Errors
  BY DEF RunnerInv, StageInv, RunTypeOK, LoopInv, Links

LEMMA TestLinesFacts ==
  ASSUME RunnerInv, stage = "running", pc = "done", outcome # "ERROR", BuiltIn
  PROVE  TestLines \in Seq(Tokens) /\ Clean(TestLines)
<1> DEFINE object == Object(SelectedTest.expected_result, outcome, tick_report_count)
<1>1. object \in Tokens /\ object # Fragment
  BY EndedRun, SelectedFacts, ObjectFacts DEF RunnerInv
<1>2. Comma \in Tokens /\ Comma # Fragment /\ Text("result") \in Tokens
      /\ Text("result") # Fragment
  BY TokenFacts, TextFacts DEF Texts
<1>3. TestLines = IF ~command.json THEN <<Text("result")>>
                  ELSE (IF test_index > 0 THEN <<Comma>> ELSE << >>) \o <<object>>
  BY DEF TestLines
<1> HIDE DEF object
<1>4. << >> \o <<object>> = <<object>> /\ <<Comma>> \o <<object>> = <<Comma, object>>
  BY <1>1, <1>2, TupleConcat
<1>5. QED
  BY <1>1, <1>2, <1>3, <1>4, CleanTuples

LEMMA NamedLinesFacts ==
  ASSUME RunnerInv, stage = "running", pc = "done", outcome # "ERROR", BuiltIn
  PROVE  NamedLines \in Seq(Tokens) /\ Clean(NamedLines)
<1> DEFINE object == Object(SelectedTest.expected_result, outcome, tick_report_count)
           footer == Footer(IF outcome = SelectedTest.expected_result THEN 1 ELSE 0, 1, NoError)
<1>1. object \in Tokens /\ object # Fragment
  BY EndedRun, SelectedFacts, ObjectFacts DEF RunnerInv
<1>2. footer \in Tokens /\ footer # Fragment
  BY FooterFacts, ErrorTokens
<1>3. /\ Header \in Tokens /\ Header # Fragment
      /\ Text("log") \in Tokens /\ Text("log") # Fragment
      /\ Text("result") \in Tokens /\ Text("result") # Fragment
  BY TokenFacts, TextFacts DEF Texts
<1>4. NamedLines = IF ~command.json THEN <<Text("log"), Text("result")>>
                   ELSE <<Header, object, footer>>
  BY DEF NamedLines
<1> HIDE DEF object, footer
<1>5. QED
  BY <1>1, <1>2, <1>3, <1>4, CleanTuples

LEMMA ScriptLinesFacts ==
  ASSUME RunnerInv, stage = "running", pc = "done"
  PROVE  /\ FailureLines \in Seq(Tokens) /\ Clean(FailureLines)
         /\ outcome # "ERROR" => ScriptLines \in Seq(Tokens) /\ Clean(ScriptLines)
<1> DEFINE object == Object(outcome, outcome, tick_report_count)
           footer == Footer(1, 1, NoError)
           reason == Footer(0, 0, link.last_error)
<1>1. outcome # "ERROR" => object \in Tokens /\ object # Fragment
  BY EndedRun, ObjectFacts
<1>2. /\ footer \in Tokens /\ footer # Fragment
      /\ reason \in Tokens /\ reason # Fragment
  BY EndedRun, FooterFacts, ErrorTokens
<1>3. /\ Header \in Tokens /\ Header # Fragment
      /\ Text("log") \in Tokens /\ Text("log") # Fragment
      /\ Text("result") \in Tokens /\ Text("result") # Fragment
  BY TokenFacts, TextFacts DEF Texts
<1>4. /\ ScriptLines = IF ~command.json THEN <<Text("log"), Text("result")>>
                       ELSE <<Header, object, footer>>
      /\ FailureLines = IF command.json THEN <<Header, reason>> ELSE << >>
  BY DEF ScriptLines, FailureLines
<1> HIDE DEF object, footer, reason
<1>5. QED
  BY <1>1, <1>2, <1>3, <1>4, CleanTuples

LEMMA OtherLinesFacts ==
  ASSUME RunnerInv
  PROVE  /\ ClosingLines \in Seq(Tokens) /\ Clean(ClosingLines)
         /\ RefusalLines \in Seq(Tokens) /\ Clean(RefusalLines)
<1> DEFINE footer == Footer(passed, Total, NoError)
           reason == Footer(0, 0, ParseError)
<1>1. /\ footer \in Tokens /\ footer # Fragment
      /\ reason \in Tokens /\ reason # Fragment
  BY KindFacts, TotalFacts, FooterFacts, ErrorTokens DEF RunnerInv
<1>2. /\ Header \in Tokens /\ Header # Fragment
      /\ Text("log") \in Tokens /\ Text("log") # Fragment
      /\ Text("separator") \in Tokens /\ Text("separator") # Fragment
      /\ Text("summary") \in Tokens /\ Text("summary") # Fragment
  BY TokenFacts, TextFacts DEF Texts
<1>3. /\ ClosingLines = IF command.json THEN <<footer>>
                        ELSE <<Text("separator"), Text("summary"), Text("log")>>
      /\ RefusalLines = IF command.json THEN <<Header, reason>> ELSE <<Text("log")>>
  BY DEF ClosingLines, RefusalLines
<1> HIDE DEF footer, reason
<1>4. QED
  BY <1>1, <1>2, <1>3, CleanTuples

LEMMA TextLinesFacts ==
  ASSUME NEW w \in Texts
  PROVE  /\ <<Text(w)>> \in Seq(Tokens) /\ Clean(<<Text(w)>>) /\ Len(<<Text(w)>>) = 1
         /\ << >> \in Seq(Tokens) /\ Clean(<< >>) /\ Len(<< >>) = 0
  BY TextFacts, CleanTuples

(* The actions that end a test or a command, by the lines they write.      *)
LEMMA FinishTestShape ==
  ASSUME FinishTest
  PROVE  /\ stage = "running" /\ pc = "done" /\ command.kind = "run_all"
         /\ \/ outcome = "ERROR" /\ UNCHANGED <<output, passed>>
            \/ /\ outcome # "ERROR"
               /\ \E n \in 0..Len(TestLines) :
                    /\ Write(TestLines, n)
                    /\ passed' = IF n = Len(TestLines) /\ outcome = SelectedTest.expected_result
                                 THEN passed + 1 ELSE passed
         /\ test_index' = test_index + 1 /\ stage' = "tests"
         /\ UNCHANGED <<vars, command, status>>
  BY Zenon DEF FinishTest, TestLines

LEMMA EndSuiteShape ==
  ASSUME EndSuite
  PROVE  /\ stage = "tests" /\ test_index = Total
         /\ \E n \in 0..Len(ClosingLines) :
              Exit(IF n = Len(ClosingLines) /\ passed = Total THEN "OK" ELSE "INTERNAL_ERROR",
                   ClosingLines, n)
  BY Zenon DEF EndSuite, ClosingLines

LEMMA FinishNamedShape ==
  ASSUME FinishNamed
  PROVE  /\ stage = "running" /\ pc = "done" /\ command.kind = "scenario"
         /\ \/ outcome = "ERROR" /\ Exit("INTERNAL_ERROR", << >>, 0)
            \/ /\ outcome # "ERROR"
               /\ \E n \in 0..Len(NamedLines) :
                    Exit(IF n = Len(NamedLines) THEN "OK" ELSE "INTERNAL_ERROR", NamedLines, n)
  BY Zenon DEF FinishNamed, NamedLines

LEMMA FinishScriptShape ==
  ASSUME FinishScript
  PROVE  /\ stage = "running" /\ pc = "done" /\ command.kind = "script"
         /\ \/ /\ outcome = "ERROR"
               /\ \E n \in 0..Len(FailureLines) : Exit("INTERNAL_ERROR", FailureLines, n)
            \/ /\ outcome # "ERROR"
               /\ \E n \in 0..Len(ScriptLines) :
                    Exit(IF n = Len(ScriptLines) THEN "OK" ELSE "INTERNAL_ERROR",
                         ScriptLines, n)
  BY Zenon DEF FinishScript, ScriptLines, FailureLines

LEMMA StartScriptShape ==
  ASSUME StartScript
  PROVE  /\ stage = "start" /\ command.kind = "script"
         /\ \/ \E n \in 0..Len(RefusalLines) : Exit("PARSE_ERROR", RefusalLines, n)
            \/ /\ \E lines \in TickCounts \cap 1..MaxProfileTicks : Prepare(FreshLink, lines)
               /\ UNCHANGED <<command, test_index, passed, status>>
               /\ \/ Write(<<Text("log")>>, 1) /\ ~command.json
                  \/ Write(<< >>, 0)
            \/ Exit("INTERNAL_ERROR", <<Text("log")>>, 0) /\ ~command.json
<1>1. Len(<<Text("log")>>) = 1 /\ Len(<< >>) = 0
  OBVIOUS
<1>2. CASE \E n \in 0..Len(RefusalLines) : Exit("PARSE_ERROR", RefusalLines, n)
  BY <1>2 DEF StartScript
<1>3. CASE \E lines \in TickCounts \cap 1..MaxProfileTicks, comments \in BOOLEAN :
             LET warning == IF comments /\ ~command.json THEN <<Text("log")>> ELSE << >>
             IN  \/ /\ Write(warning, Len(warning))
                    /\ Prepare(FreshLink, lines)
                    /\ UNCHANGED <<command, test_index, passed, status>>
                 \/ /\ warning # << >>
                    /\ Exit("INTERNAL_ERROR", warning, 0)
  <2>1. PICK lines \in TickCounts \cap 1..MaxProfileTicks, comments \in BOOLEAN :
             LET warning == IF comments /\ ~command.json THEN <<Text("log")>> ELSE << >>
             IN  \/ /\ Write(warning, Len(warning))
                    /\ Prepare(FreshLink, lines)
                    /\ UNCHANGED <<command, test_index, passed, status>>
                 \/ /\ warning # << >>
                    /\ Exit("INTERNAL_ERROR", warning, 0)
    BY <1>3
  <2>2. stage = "start" /\ command.kind = "script"
    BY DEF StartScript
  <2>3. CASE comments /\ ~command.json
    BY <1>1, <2>1, <2>2, <2>3
  <2>4. CASE ~(comments /\ ~command.json)
    BY <1>1, <2>1, <2>2, <2>4
  <2>5. QED
    BY <2>3, <2>4
<1>4. QED
  BY Zenon, <1>2, <1>3 DEF StartScript, RefusalLines

LEMMA WrittenNothing ==
  ASSUME output \in Seq(Tokens), NEW n, Write(<< >>, n)
  PROVE  output' = output
<1>1. << >> \in Seq(Tokens) /\ Len(<< >>) = 0
  OBVIOUS
<1>2. n = Len(<< >>)
  BY <1>1 DEF Write
<1>3. output' = output \o << >>
  BY <1>1, <1>2, WrittenAll DEF Write
<1>4. QED
  BY <1>3, ConcatEmptySeq

LEMMA WrittenFirst ==
  ASSUME output = << >>, NEW t \in Tokens, NEW n, Write(<<t>>, n)
  PROVE  output' \in {<<t>>, <<Fragment>>}
<1> DEFINE tokens == <<t>>
           w == Written(tokens, n)
<1>1. tokens \in Seq(Tokens) /\ Len(tokens) = 1 /\ tokens[1] = t
  OBVIOUS
<1>2. output \in Seq(Tokens) /\ Len(output) = 0
  OBVIOUS
<1>3. output' = w /\ n \in 0..Len(tokens)
  BY DEF Write
<1> HIDE DEF tokens
<1>4. /\ w \in Seq(Tokens)
      /\ Len(w) = Len(output) + n + (IF n < Len(tokens) THEN 1 ELSE 0)
      /\ \A i \in 1..n : w[Len(output) + i] = tokens[i]
      /\ n < Len(tokens) => w[Len(w)] = Fragment
  BY <1>1, <1>2, <1>3, WrittenFacts
<1> HIDE DEF w
<1>5. Len(w) = 1 /\ w[1] \in {t, Fragment}
  <2>1. CASE n = 0
    BY <1>1, <1>2, <1>4, <2>1
  <2>2. CASE n = 1
    BY <1>1, <1>2, <1>4, <2>2
  <2>3. QED
    BY <1>1, <1>3, <2>1, <2>2
<1>6. ASSUME NEW s \in Seq(Tokens), NEW u \in Tokens, Len(s) = 1, s[1] = u
      PROVE  s = <<u>>
  <2>1. <<u>> \in Seq(Tokens) /\ Len(<<u>>) = 1 /\ <<u>>[1] = u
    OBVIOUS
  <2>2. \A i \in 1..Len(s) : s[i] = <<u>>[i]
    BY <1>6, <2>1
  <2>3. QED
    BY <1>6, <2>1, <2>2, SeqEqual
<1>7. QED
  BY <1>3, <1>4, <1>5, <1>6, TokenFacts

(* The loop writes nothing but the log line of a script's sensor timeout.  *)
LEMMA RunStepWrites ==
  ASSUME RunnerInv, BuiltInRunInv, ScriptRunInv, output \in Seq(Tokens), RunStep
  PROVE  /\ output' \in Seq(Tokens)
         /\ BuiltIn => output' = output
         /\ ~BuiltIn => /\ ClockInv' /\ ErrorHasCause'
                        /\ pc' # "done" => output' = output
                        /\ output = << >> =>
                             output' \in {<< >>, <<Text("timeout")>>, <<Fragment>>}
<1>1. /\ stage = "running" /\ Inv /\ Next /\ pc # "done"
      /\ UNCHANGED <<command, stage>>
  BY RunIsNext DEF RunnerInv
<1>2. PICK n \in 0..1 : Write(TimeoutLog, n)
  BY DEF RunStep
<1>3. TimeoutLog \in {<< >>, <<Text("timeout")>>}
  BY DEF TimeoutLog
<1>4. /\ TimeoutLog \in Seq(Tokens) /\ Clean(TimeoutLog)
      /\ Text("timeout") \in Tokens
  BY <1>3, TextLinesFacts, TextFacts DEF Texts
<1>5. output' \in Seq(Tokens)
  BY <1>2, <1>4, WriteFacts
<1>6. link'.last_error.code # "TIMEOUT" => output' = output
  BY <1>2, WrittenNothing DEF TimeoutLog
<1>7. CASE BuiltIn
  <2>1. MeetsProfile'
    BY <1>7, BuiltInMeets
  <2>2. QED
    BY <1>5, <1>6, <1>7, <2>1 DEF MeetsProfile
<1>8. CASE ~BuiltIn
  <2>1. ClockInv /\ ErrorHasCause
    BY <1>1, <1>8 DEF ScriptRunInv, BuiltIn
  <2>2. ClockInv' /\ ErrorHasCause'
    BY <1>1, <2>1, ClockInductive, CauseStep
  <2>3. pc' # "done" => output' = output
    BY <1>6, <2>2 DEF ClockInv
  <2>4. output = << >> => output' \in {<< >>, <<Text("timeout")>>, <<Fragment>>}
    BY <1>2, <1>3, <1>4, WrittenNothing, WrittenFirst
  <2>5. QED
    BY <1>5, <1>8, <2>2, <2>3, <2>4
<1>9. QED
  BY <1>7, <1>8

-----------------------------------------------------------------------------
(* Scripts.                                                                *)

LEMMA ScriptInductive ==
  ASSUME RunnerInv, BuiltInRunInv, ScriptRunInv, output \in Seq(Tokens),
         [RunnerNext]_allVars
  PROVE  ScriptRunInv'
<1>1. CASE StartSuite \/ FinishTest \/ EndSuite \/ FinishNamed \/ FinishScript
  BY <1>1 DEF StartSuite, FinishTest, EndSuite, FinishNamed, FinishScript, Exit, ScriptRunInv
<1>2. CASE StartTest \/ StartNamed
  BY <1>2, StartTestSteps DEF StartNamed, Exit, ScriptRunInv
<1>3. CASE StartScript
  <2>1. CASE \E code, tokens, n : Exit(code, tokens, n)
    BY <2>1 DEF Exit, ScriptRunInv
  <2>2. CASE \E lines \in TickCounts \cap 1..MaxProfileTicks, comments \in BOOLEAN :
               LET warning == IF comments /\ ~command.json THEN <<Text("log")>> ELSE << >>
               IN  /\ Write(warning, Len(warning)) /\ Prepare(FreshLink, lines)
                   /\ UNCHANGED <<command, test_index, passed, status>>
    <3>1. /\ Inv' /\ pc' = "begin" /\ link' = AfterEncode(FreshLink)
          /\ tick_reports' = << >> /\ outcome' = "none"
      <4>1. cal \in Calibrations
        BY <1>3 DEF RunnerInv, StageInv, RunTypeOK, StartScript
      <4>2. QED
        BY <2>2, <4>1, HalFacts, PrepareInv, RunAssumption
    <3>2. ClockInv'
      BY <3>1, FreshLinkFacts DEF ClockInv, Looping, InLine
    <3>3. ErrorHasCause'
      BY <3>1 DEF ErrorHasCause
    <3>4. command.json => output' = << >>
      <4>1. output = << >>
        BY <1>3 DEF RunnerInv, StageInv, StartScript
      <4>2. command.json => \E n : Write(<< >>, n)
        BY <2>2
      <4>3. QED
        BY <4>1, <4>2, WrittenNothing
    <3>5. command' = command
      BY <2>2
    <3>6. QED
      BY <3>1, <3>2, <3>3, <3>4, <3>5 DEF ScriptRunInv
  <2>3. QED
    BY <1>3, <2>1, <2>2 DEF StartScript
<1>4. CASE RunStep
  <2>1. /\ stage = "running" /\ UNCHANGED <<command, stage>> /\ pc # "done"
    BY <1>4, RunIsNext DEF RunnerInv
  <2>2. QED
    BY <1>4, <2>1, RunStepWrites DEF ScriptRunInv, BuiltIn
<1>5. CASE UNCHANGED allVars
  <2>1. LastTick' = LastTick
    BY <1>5 DEF allVars, vars, reporting, LastTick, SampleCount, Sample
  <2>2. ClockInv' = ClockInv /\ ErrorHasCause' = ErrorHasCause
    BY <1>5, <2>1 DEF ClockInv, ErrorHasCause, Looping, InLine, BadArguments, allVars, vars,
                      clock
  <2>3. QED
    BY <1>5, <2>2 DEF ScriptRunInv, allVars, runner, vars
<1>6. QED
  BY <1>1, <1>2, <1>3, <1>4, <1>5 DEF RunnerNext

LEMMA OutputStart ==
  ASSUME RunnerInv, output \in Seq(Tokens),
         StartSuite \/ StartTest \/ StartNamed \/ StartScript
  PROVE  output' \in Seq(Tokens)
<1>1. CASE StartSuite
  <2>1. <<Header>> \in Seq(Tokens) /\ Clean(<<Header>>)
    BY TokenFacts, CleanTuples
  <2>2. <<Text("log")>> \in Seq(Tokens) /\ Clean(<<Text("log")>>)
    BY TextLinesFacts DEF Texts
  <2>3. \E opening \in {<<Header>>, <<Text("log")>>} :
           Write(opening, 1) \/ Exit("INTERNAL_ERROR", opening, 0)
    BY <1>1 DEF StartSuite
  <2>4. QED
    BY <2>1, <2>2, <2>3, WriteFacts, ExitFacts
<1>2. CASE StartTest
  <2>1. <<Text("separator")>> \in Seq(Tokens) /\ Clean(<<Text("separator")>>)
    BY TextLinesFacts DEF Texts
  <2>2. << >> \in Seq(Tokens) /\ Clean(<< >>)
    BY CleanTuples, TokenFacts
  <2>3. \E separator \in {<<Text("separator")>>, << >>} : \E n : Write(separator, n)
    BY <1>2 DEF StartTest
  <2>4. QED
    BY <2>1, <2>2, <2>3, WriteFacts
<1>3. CASE StartNamed
  <2>1. << >> \in Seq(Tokens) /\ Clean(<< >>)
    BY CleanTuples, TokenFacts
  <2>2. QED
    BY <1>3, <2>1, ExitFacts DEF StartNamed
<1>4. CASE StartScript
  <2>1. <<Text("log")>> \in Seq(Tokens) /\ Clean(<<Text("log")>>)
    BY TextLinesFacts DEF Texts
  <2>2. << >> \in Seq(Tokens) /\ Clean(<< >>)
    BY CleanTuples, TokenFacts
  <2>3. RefusalLines \in Seq(Tokens) /\ Clean(RefusalLines)
    BY OtherLinesFacts
  <2>4. QED
    BY <1>4, <2>1, <2>2, <2>3, StartScriptShape, WriteFacts, ExitFacts
<1>5. QED
  BY <1>1, <1>2, <1>3, <1>4

LEMMA OutputFinish ==
  ASSUME RunnerInv, output \in Seq(Tokens),
         FinishTest \/ EndSuite \/ FinishNamed \/ FinishScript
  PROVE  output' \in Seq(Tokens)
<1>1. << >> \in Seq(Tokens) /\ Clean(<< >>)
  BY CleanTuples, TokenFacts
<1>2. CASE FinishTest
  BY <1>2, FinishTestShape, TestLinesFacts, WriteFacts DEF BuiltIn
<1>3. CASE EndSuite
  BY <1>3, EndSuiteShape, OtherLinesFacts, ExitFacts
<1>4. CASE FinishNamed
  BY <1>1, <1>4, FinishNamedShape, NamedLinesFacts, ExitFacts DEF BuiltIn
<1>5. CASE FinishScript
  BY <1>5, FinishScriptShape, ScriptLinesFacts, ExitFacts
<1>6. QED
  BY <1>2, <1>3, <1>4, <1>5

LEMMA OutputInductive ==
  ASSUME RunnerInv, BuiltInRunInv, ScriptRunInv, output \in Seq(Tokens),
         [RunnerNext]_allVars
  PROVE  output' \in Seq(Tokens)
<1>1. CASE UNCHANGED allVars
  BY <1>1 DEF allVars, runner
<1>2. QED
  BY <1>1, OutputStart, OutputFinish, RunStepWrites DEF RunnerNext

-----------------------------------------------------------------------------
(* The built-in scenarios under the default calibration: the samples that  *)
(* decide each of them.                                                    *)

Healthy(s) == ~(s.temperature > 950) /\ ~(s.oil_pressure < 250) /\ ~(s.rpm >= 3500)

LEMMA NormalSamples ==
  /\ Len(scenario_normal_operation) = 4
  /\ \A n \in 1..4 : Healthy(scenario_normal_operation[n])
  BY DEF scenario_normal_operation, Profile, Healthy

LEMMA ShortSamples ==
  /\ Len(scenario_overheat_short_duration) = 4
  /\ \A n \in 1..4 : /\ ~(scenario_overheat_short_duration[n].oil_pressure < 250)
                     /\ ~(scenario_overheat_short_duration[n].rpm >= 3500)
                     /\ scenario_overheat_short_duration[n].temperature > 950 => n <= 2
  BY DEF scenario_overheat_short_duration, Profile, Constantly

LEMMA HotSamples ==
  /\ Len(scenario_overheat_persistent) = 4
  /\ \A n \in 1..4 : scenario_overheat_persistent[n].temperature > 950
  BY DEF scenario_overheat_persistent, Profile, Constantly

LEMMA OilSamples ==
  /\ Len(scenario_oil_pressure_persistent) = 4
  /\ \A n \in 1..4 : scenario_oil_pressure_persistent[n].oil_pressure < 250
  BY DEF scenario_oil_pressure_persistent, Profile, Constantly

LEMMA CombinedSamples ==
  /\ Len(scenario_combined_warning_persistent) = 3
  /\ \A n \in 1..3 : /\ ~(scenario_combined_warning_persistent[n].temperature > 950)
                     /\ ~(scenario_combined_warning_persistent[n].oil_pressure < 250)
  /\ \A n \in 1..2 : /\ scenario_combined_warning_persistent[n].temperature >= 850
                     /\ scenario_combined_warning_persistent[n].rpm >= 3500
  BY DEF scenario_combined_warning_persistent, Profile, Constantly

LEMMA ColdStartSamples ==
  /\ Len(scenario_cold_start_warmup_and_ramp) = 25
  /\ \A n \in 1..25 : Healthy(scenario_cold_start_warmup_and_ramp[n])
  BY DEF scenario_cold_start_warmup_and_ramp, Profile, Healthy

LEMMA HighLoadSamples ==
  /\ Len(scenario_high_load_warning_then_recovery) = 18
  /\ \A n \in 1..18 : /\ ~(scenario_high_load_warning_then_recovery[n].temperature > 950)
                      /\ ~(scenario_high_load_warning_then_recovery[n].oil_pressure < 250)
  /\ \A n \in 7..8 : /\ scenario_high_load_warning_then_recovery[n].temperature >= 850
                     /\ scenario_high_load_warning_then_recovery[n].rpm >= 3500
  BY DEF scenario_high_load_warning_then_recovery, Profile

LEMMA DrainSamples ==
  /\ Len(scenario_oil_pressure_gradual_drain) = 16
  /\ \A n \in 12..15 : scenario_oil_pressure_gradual_drain[n].oil_pressure < 250
  BY DEF scenario_oil_pressure_gradual_drain, Profile

LEMMA RunawaySamples ==
  /\ Len(scenario_thermal_runaway_with_load_surge) = 15
  /\ \A n \in 11..14 : scenario_thermal_runaway_with_load_surge[n].temperature > 950
  BY DEF scenario_thermal_runaway_with_load_surge, Profile, Constantly

LEMMA IntermittentSamples ==
  /\ Len(scenario_intermittent_oil_then_combined_fault) = 16
  /\ \A n \in 1..16 :
        /\ ~(scenario_intermittent_oil_then_combined_fault[n].temperature > 950)
        /\ scenario_intermittent_oil_then_combined_fault[n].oil_pressure < 250 => n \in 3..4
  /\ \A n \in 10..11 :
        /\ scenario_intermittent_oil_then_combined_fault[n].temperature >= 850
        /\ scenario_intermittent_oil_then_combined_fault[n].rpm >= 3500
  BY DEF scenario_intermittent_oil_then_combined_fault, Profile, Constantly

LEMMA DefaultLimits ==
  ASSUME cal = DefaultCalibration
  PROVE  /\ cal.persistence["TEMP"] = 3 /\ cal.persistence["OIL"] = 3
         /\ cal.persistence["COMBINED"] = 2
         /\ \A s : /\ FaultActive(cal, s, "TEMP") <=> s.temperature > 950
                   /\ FaultActive(cal, s, "OIL") <=> s.oil_pressure < 250
                   /\ FaultActive(cal, s, "COMBINED") <=> s.rpm >= 3500 /\ s.temperature >= 850
  BY DEF DefaultCalibration, FaultActive, Faults

(* A profile that shows each fault for too short a time is OK.             *)
LEMMA QuietVerdict ==
  ASSUME NEW profile, Len(profile) \in Nat,
         \A n \in 2..Len(profile), f \in Faults : ~Persists(profile, f, n)
  PROVE  Verdict(profile) = "OK"
<1>1. ~Warned(profile, Len(profile))
  BY DEF Warned
<1>2. QED
  BY <1>1, VerdictCases, StopsGrow DEF Verdict

LEMMA WarningVerdict ==
  ASSUME NEW profile, Len(profile) \in Nat,
         NEW m \in 2..Len(profile), NEW g \in Faults, Persists(profile, g, m),
         \A n \in 3..Len(profile), f \in ShutdownFaults : ~Persists(profile, f, n)
  PROVE  Verdict(profile) = "WARNING"
<1>1. Warned(profile, Len(profile)) /\ ~StopsBy(profile, Len(profile))
  BY DEF Warned, StopsBy
<1>2. QED
  BY <1>1, VerdictCases DEF Verdict

LEMMA ShutdownVerdict ==
  ASSUME NEW profile, Len(profile) \in Nat,
         NEW n \in 3..Len(profile), NEW f \in ShutdownFaults,
         Persists(profile, f, n - 1), Persists(profile, f, n)
  PROVE  Verdict(profile) = "SHUTDOWN"
<1>1. Warned(profile, n - 1)
  BY DEF Warned, ShutdownFaults, Faults
<1>2. StopsBy(profile, Len(profile))
  BY <1>1 DEF StopsBy
<1>3. QED
  BY <1>2, VerdictCases DEF Verdict

LEMMA HealthyVerdict ==
  ASSUME cal = DefaultCalibration, NEW profile, Len(profile) \in Nat,
         \A n \in 1..Len(profile) : Healthy(profile[n])
  PROVE  Verdict(profile) = "OK"
<1>1. ASSUME NEW n \in 2..Len(profile), NEW f \in Faults
      PROVE  ~Persists(profile, f, n)
  <2>1. ~FaultActive(cal, profile[n], f)
    BY DefaultLimits DEF Healthy, Faults
  <2>2. cal.persistence[f] \in {2, 3}
    BY DefaultLimits DEF Faults
  <2>3. QED
    BY <2>1, <2>2 DEF Persists
<1>2. QED
  BY <1>1, QuietVerdict

LEMMA CombinedVerdict ==
  ASSUME cal = DefaultCalibration, NEW profile, Len(profile) \in Nat,
         NEW m \in 2..Len(profile),
         \A n \in (m - 1)..m : profile[n].temperature >= 850 /\ profile[n].rpm >= 3500,
         \A n \in 1..Len(profile) : ~(profile[n].temperature > 950),
         \A n \in 1..Len(profile) : profile[n].oil_pressure < 250 => n \in 3..4
  PROVE  Verdict(profile) = "WARNING"
<1>1. Persists(profile, "COMBINED", m)
  <2>1. \A n \in 1..m : n > m - 2 => FaultActive(cal, profile[n], "COMBINED")
    BY DefaultLimits
  <2>2. QED
    BY <2>1, DefaultLimits DEF Persists
<1>2. ASSUME NEW n \in 3..Len(profile) PROVE ~Persists(profile, "TEMP", n)
  <2>1. n \in 1..n /\ n > n - 3 /\ n \in 1..Len(profile)
    OBVIOUS
  <2>2. ~(profile[n].temperature > 950)
    BY <2>1
  <2>3. QED
    BY <2>1, <2>2, DefaultLimits DEF Persists
<1>3. ASSUME NEW n \in 3..Len(profile), Persists(profile, "OIL", n) PROVE FALSE
  <2>1. n \in 1..n /\ n - 2 \in 1..n /\ n > n - 3 /\ n - 2 > n - 3
    OBVIOUS
  <2>2. profile[n].oil_pressure < 250 /\ profile[n - 2].oil_pressure < 250
    BY <1>3, <2>1, DefaultLimits DEF Persists
  <2>3. QED
    BY <2>1, <2>2
<1>4. QED
  <2>1. \A n \in 3..Len(profile), f \in ShutdownFaults : ~Persists(profile, f, n)
    BY <1>2, <1>3 DEF ShutdownFaults
  <2>2. "COMBINED" \in Faults
    BY DEF Faults
  <2>3. QED
    BY <1>1, <2>1, <2>2, WarningVerdict

LEMMA PersistentVerdict ==
  ASSUME cal = DefaultCalibration, NEW profile, Len(profile) \in Nat,
         NEW n \in 4..Len(profile),
         \/ \A i \in (n - 3)..n : profile[i].temperature > 950
         \/ \A i \in (n - 3)..n : profile[i].oil_pressure < 250
  PROVE  Verdict(profile) = "SHUTDOWN"
<1>1. ASSUME NEW f \in {"TEMP", "OIL"},
             \A i \in (n - 3)..n : FaultActive(cal, profile[i], f)
      PROVE  Verdict(profile) = "SHUTDOWN"
  <2>1. cal.persistence[f] = 3
    BY DefaultLimits
  <2>2. Persists(profile, f, n - 1) /\ Persists(profile, f, n)
    BY <1>1, <2>1 DEF Persists
  <2>3. QED
    BY <2>2, ShutdownVerdict DEF ShutdownFaults
<1>2. QED
  BY <1>1, DefaultLimits

(* scenario_catalog.c: under the default calibration every expectation of  *)
(* the registry is what the requirements ask of its samples.               *)
LEMMA DefaultVerdicts ==
  ASSUME cal = DefaultCalibration
  PROVE  AllHold
<1>1. Verdict(scenario_normal_operation) = "OK"
  <2> DEFINE profile == scenario_normal_operation
  <2>1. Len(profile) \in Nat /\ \A n \in 1..Len(profile) : Healthy(profile[n])
    BY NormalSamples
  <2> HIDE DEF profile
  <2>2. Verdict(profile) = "OK"
    BY <2>1, HealthyVerdict
  <2> QED
    BY <2>2 DEF profile
<1>2. Verdict(scenario_overheat_short_duration) = "OK"
  <2> DEFINE profile == scenario_overheat_short_duration
  <2>1. ASSUME NEW n \in 2..Len(profile), NEW f \in Faults, Persists(profile, f, n)
        PROVE  FALSE
    <3>1. n \in 1..4 /\ n \in 1..n
      BY ShortSamples
    <3>2. cal.persistence[f] \in {2, 3} /\ n >= cal.persistence[f]
      BY <2>1, DefaultLimits DEF Faults, Persists
    <3>3. FaultActive(cal, profile[n], f)
      BY <2>1, <3>1, <3>2 DEF Persists
    <3>4. f = "TEMP" /\ n <= 2
      BY <3>1, <3>3, ShortSamples, DefaultLimits DEF Faults
    <3>5. QED
      BY <3>1, <3>2, <3>4, DefaultLimits
  <2>3. Len(profile) \in Nat
    BY ShortSamples
  <2> HIDE DEF profile
  <2>2. Verdict(profile) = "OK"
    BY <2>1, <2>3, QuietVerdict
  <2> QED
    BY <2>2 DEF profile
<1>3. Verdict(scenario_overheat_persistent) = "SHUTDOWN"
  <2> DEFINE profile == scenario_overheat_persistent
  <2>1. /\ Len(profile) \in Nat /\ 4 \in 4..Len(profile)
        /\ \A i \in (4 - 3)..4 : profile[i].temperature > 950
    BY HotSamples
  <2> HIDE DEF profile
  <2>2. Verdict(profile) = "SHUTDOWN"
    BY <2>1, PersistentVerdict
  <2> QED
    BY <2>2 DEF profile
<1>4. Verdict(scenario_oil_pressure_persistent) = "SHUTDOWN"
  <2> DEFINE profile == scenario_oil_pressure_persistent
  <2>1. /\ Len(profile) \in Nat /\ 4 \in 4..Len(profile)
        /\ \A i \in (4 - 3)..4 : profile[i].oil_pressure < 250
    BY OilSamples
  <2> HIDE DEF profile
  <2>2. Verdict(profile) = "SHUTDOWN"
    BY <2>1, PersistentVerdict
  <2> QED
    BY <2>2 DEF profile
<1>5. Verdict(scenario_combined_warning_persistent) = "WARNING"
  <2> DEFINE profile == scenario_combined_warning_persistent
  <2>1. /\ Len(profile) \in Nat /\ 2 \in 2..Len(profile)
        /\ \A n \in (2 - 1)..2 : profile[n].temperature >= 850 /\ profile[n].rpm >= 3500
        /\ \A n \in 1..Len(profile) : ~(profile[n].temperature > 950)
        /\ \A n \in 1..Len(profile) : profile[n].oil_pressure < 250 => n \in 3..4
    BY CombinedSamples
  <2> HIDE DEF profile
  <2>2. Verdict(profile) = "WARNING"
    BY <2>1, CombinedVerdict
  <2> QED
    BY <2>2 DEF profile
<1>6. Verdict(scenario_cold_start_warmup_and_ramp) = "OK"
  <2> DEFINE profile == scenario_cold_start_warmup_and_ramp
  <2>1. Len(profile) \in Nat /\ \A n \in 1..Len(profile) : Healthy(profile[n])
    BY ColdStartSamples
  <2> HIDE DEF profile
  <2>2. Verdict(profile) = "OK"
    BY <2>1, HealthyVerdict
  <2> QED
    BY <2>2 DEF profile
<1>7. Verdict(scenario_high_load_warning_then_recovery) = "WARNING"
  <2> DEFINE profile == scenario_high_load_warning_then_recovery
  <2>1. /\ Len(profile) \in Nat /\ 8 \in 2..Len(profile)
        /\ \A n \in (8 - 1)..8 : profile[n].temperature >= 850 /\ profile[n].rpm >= 3500
        /\ \A n \in 1..Len(profile) : ~(profile[n].temperature > 950)
        /\ \A n \in 1..Len(profile) : profile[n].oil_pressure < 250 => n \in 3..4
    BY HighLoadSamples
  <2> HIDE DEF profile
  <2>2. Verdict(profile) = "WARNING"
    BY <2>1, CombinedVerdict
  <2> QED
    BY <2>2 DEF profile
<1>8. Verdict(scenario_oil_pressure_gradual_drain) = "SHUTDOWN"
  <2> DEFINE profile == scenario_oil_pressure_gradual_drain
  <2>1. /\ Len(profile) \in Nat /\ 15 \in 4..Len(profile)
        /\ \A i \in (15 - 3)..15 : profile[i].oil_pressure < 250
    BY DrainSamples
  <2> HIDE DEF profile
  <2>2. Verdict(profile) = "SHUTDOWN"
    BY <2>1, PersistentVerdict
  <2> QED
    BY <2>2 DEF profile
<1>9. Verdict(scenario_thermal_runaway_with_load_surge) = "SHUTDOWN"
  <2> DEFINE profile == scenario_thermal_runaway_with_load_surge
  <2>1. /\ Len(profile) \in Nat /\ 14 \in 4..Len(profile)
        /\ \A i \in (14 - 3)..14 : profile[i].temperature > 950
    BY RunawaySamples
  <2> HIDE DEF profile
  <2>2. Verdict(profile) = "SHUTDOWN"
    BY <2>1, PersistentVerdict
  <2> QED
    BY <2>2 DEF profile
<1>10. Verdict(scenario_intermittent_oil_then_combined_fault) = "WARNING"
  <2> DEFINE profile == scenario_intermittent_oil_then_combined_fault
  <2>1. /\ Len(profile) \in Nat /\ 11 \in 2..Len(profile)
        /\ \A n \in (11 - 1)..11 : profile[n].temperature >= 850 /\ profile[n].rpm >= 3500
        /\ \A n \in 1..Len(profile) : ~(profile[n].temperature > 950)
        /\ \A n \in 1..Len(profile) : profile[n].oil_pressure < 250 => n \in 3..4
    BY IntermittentSamples
  <2> HIDE DEF profile
  <2>2. Verdict(profile) = "WARNING"
    BY <2>1, CombinedVerdict
  <2> QED
    BY <2>2 DEF profile
<1>11. ASSUME NEW i \in 1..10 PROVE ExpectationHolds(TEST_REGISTRY[i])
  <2>1. i = 1 \/ i = 2 \/ i = 3 \/ i = 4 \/ i = 5 \/ i = 6 \/ i = 7 \/ i = 8 \/ i = 9 \/ i = 10
    OBVIOUS
  <2>2. QED
    BY <1>1, <1>2, <1>3, <1>4, <1>5, <1>6, <1>7, <1>8, <1>9, <1>10, <2>1
       DEF TEST_REGISTRY, TestCase, ExpectationHolds
<1>12. QED
  BY <1>11, TotalFacts DEF AllHold


-----------------------------------------------------------------------------
(* The status of a command.                                                *)

CommandInv == /\ RunnerInv /\ BuiltInRunInv /\ ScriptRunInv
              /\ output \in Seq(Tokens)

LEMMA CalibrationIsFixed ==
  ASSUME RunnerNext
  PROVE  cal' = cal
  BY DEF RunnerNext, StartSuite, StartTest, FinishTest, EndSuite, StartNamed, FinishNamed,
         StartScript, FinishScript, RunStep, Exit, Prepare, vars, Step, RefuseArguments,
         Begin, PollGap, Ingest, Read, Evaluate, PrintFails, Update, Finish, NextLine

LEMMA ExpectationsAreFixed ==
  ASSUME cal' = cal, NEW t
  PROVE  ExpectationHolds(t)' <=> ExpectationHolds(t)
  BY DEF ExpectationHolds, Verdict, VerdictAt, Warned, Persists

(* SuiteInv and StatusIsDeserved, on an output of tokens.                  *)
TestsHold(n) == \A i \in 1..n : ExpectationHolds(TEST_REGISTRY[i])

SuiteCounts ==
  /\ SuiteRuns => (passed = test_index <=> Clean(output) /\ TestsHold(test_index))
  /\ stage = "running" /\ command.kind = "scenario" => output = << >>

StatusCounts ==
  /\ stage = "exited" /\ command.kind = "run_all" =>
       (status = "OK" <=> AllHold /\ Clean(output))
  /\ stage = "exited" /\ command.kind = "scenario" =>
       (status = "OK" <=> FindNamed(command.name) # 0 /\ Clean(output))

LEMMA TestsHoldFacts ==
  ASSUME NEW n \in Nat
  PROVE  /\ TestsHold(0) /\ TestsHold(Total) = AllHold
         /\ TestsHold(n + 1) <=> TestsHold(n) /\ ExpectationHolds(TEST_REGISTRY[n + 1])
<1>1. 1..(n + 1) = (1..n) \cup {n + 1}
  OBVIOUS
<1>2. QED
  BY <1>1 DEF TestsHold, AllHold

LEMMA TestsHoldIsFixed ==
  ASSUME cal' = cal, NEW n
  PROVE  TestsHold(n)' <=> TestsHold(n)
  BY ExpectationsAreFixed DEF TestsHold

(* A built-in run that ends returns its verdict: ticks are not printed.    *)
LEMMA EndsWithVerdict ==
  ASSUME CommandInv, ~ShowTicks, stage = "running", pc = "done", BuiltIn
  PROVE  /\ outcome = Verdict(SelectedTest.profile) /\ outcome # "ERROR"
         /\ outcome \in Results /\ SelectedTest.expected_result \in Results
<1>1. outcome # "ERROR" /\ outcome = Verdict(SelectedTest.profile)
  BY DEF CommandInv, BuiltInRunInv, MeetsProfile, VerdictSoFar, Verdict
<1>2. QED
  BY <1>1, EndedRun, SelectedFacts DEF CommandInv, RunnerInv

LEMMA SuiteStart ==
  ASSUME CommandInv, StartSuite
  PROVE  SuiteCounts' /\ StatusCounts'
<1> DEFINE opening == IF command.json THEN <<Header>> ELSE <<Text("log")>>
<1>1. opening \in Seq(Tokens) /\ Clean(opening) /\ Len(opening) = 1
  BY TokenFacts, TextFacts, CleanTuples DEF Texts
<1>2. /\ output = << >> /\ test_index = 0 /\ passed = 0 /\ command.kind = "run_all"
      /\ output \in Seq(Tokens) /\ Clean(output)
  BY DEF CommandInv, RunnerInv, StageInv, StartSuite, Clean
<1>3. \/ /\ Write(opening, 1) /\ stage' = "tests"
         /\ UNCHANGED <<command, test_index, passed>>
      \/ Exit("INTERNAL_ERROR", opening, 0)
  BY DEF StartSuite
<1> HIDE DEF opening
<1>4. CASE /\ Write(opening, 1) /\ stage' = "tests"
           /\ UNCHANGED <<command, test_index, passed>>
  <2>1. Clean(output')
    BY <1>1, <1>2, <1>4, WriteFacts
  <2>2. \A i \in 1..0 : ExpectationHolds(TEST_REGISTRY[i])'
    OBVIOUS
  <2>3. QED
    BY <1>2, <1>4, <2>1, <2>2 DEF SuiteCounts, StatusCounts, TestsHold
<1>5. CASE Exit("INTERNAL_ERROR", opening, 0)
  <2>1. 0 \in 0..Len(opening) /\ 0 # Len(opening)
    BY <1>1
  <2>2. ~Clean(output')
    BY <1>1, <1>2, <1>5, <2>1, ExitFacts
  <2>3. stage' = "exited" /\ status' = "INTERNAL_ERROR" /\ command' = command
    BY <1>5 DEF Exit
  <2>4. QED
    BY <1>2, <2>2, <2>3 DEF SuiteCounts, StatusCounts, SuiteRuns
<1>6. QED
  BY <1>3, <1>4, <1>5

LEMMA SuiteTest ==
  ASSUME CommandInv, SuiteCounts, StartTest
  PROVE  SuiteCounts' /\ StatusCounts'
<1>1. /\ stage = "tests" /\ UNCHANGED <<command, passed>> /\ command.kind = "run_all"
      /\ stage' \in {"tests", "running"}
  BY StartTestSteps DEF CommandInv, Prepare
<1>2. cal' = cal
  BY CalibrationIsFixed DEF RunnerNext
<1>3. /\ output \in Seq(Tokens) /\ test_index \in Nat /\ passed \in Nat /\ passed <= test_index
  BY KindFacts DEF CommandInv, RunnerInv, RunnerTypeOK
<1>4. passed = test_index <=> Clean(output) /\ TestsHold(test_index)
  BY <1>1 DEF SuiteCounts, SuiteRuns
<1> DEFINE separator == IF command.json THEN << >> ELSE <<Text("separator")>>
<1>5. /\ separator \in Seq(Tokens) /\ Clean(separator)
      /\ separator # << >> => Len(separator) = 1
  BY TokenFacts, TextFacts, CleanTuples DEF Texts
<1>6. \/ Write(separator, Len(separator)) /\ test_index' = test_index
      \/ separator # << >> /\ Write(separator, 0) /\ test_index' = test_index + 1
  BY DEF StartTest
<1> HIDE DEF separator
<1>7. CASE Write(separator, Len(separator)) /\ test_index' = test_index
  <2>1. Clean(output') <=> Clean(output)
    BY <1>3, <1>5, <1>7, WriteFacts
  <2>2. TestsHold(test_index)' <=> TestsHold(test_index)
    BY <1>2, <1>7, ExpectationsAreFixed DEF TestsHold
  <2>3. QED
    BY <1>1, <1>4, <1>7, <2>1, <2>2 DEF SuiteCounts, StatusCounts
<1>8. CASE separator # << >> /\ Write(separator, 0) /\ test_index' = test_index + 1
  <2>1. ~Clean(output')
    BY <1>3, <1>5, <1>8, WriteFacts
  <2>2. passed' # test_index'
    BY <1>1, <1>3, <1>8
  <2>3. QED
    BY <1>1, <2>1, <2>2 DEF SuiteCounts, StatusCounts
<1>9. QED
  BY <1>6, <1>7, <1>8

LEMMA SuiteVerdict ==
  ASSUME CommandInv, SuiteCounts, ~ShowTicks, FinishTest
  PROVE  SuiteCounts' /\ StatusCounts'
<1>1. /\ stage = "running" /\ pc = "done" /\ command.kind = "run_all" /\ BuiltIn
      /\ stage' = "tests" /\ test_index' = test_index + 1
      /\ UNCHANGED <<vars, command>>
  BY FinishTestShape DEF BuiltIn
<1>2. /\ outcome = Verdict(SelectedTest.profile) /\ outcome # "ERROR"
  BY <1>1, EndsWithVerdict
<1>3. PICK n \in 0..Len(TestLines) :
         /\ Write(TestLines, n)
         /\ passed' = IF n = Len(TestLines) /\ outcome = SelectedTest.expected_result
                      THEN passed + 1 ELSE passed
  BY <1>2, FinishTestShape
<1>4. /\ output \in Seq(Tokens) /\ test_index \in Nat /\ passed \in Nat /\ passed <= test_index
  BY KindFacts DEF CommandInv, RunnerInv, RunnerTypeOK
<1>5. TestLines \in Seq(Tokens) /\ Clean(TestLines)
  BY <1>1, <1>2, TestLinesFacts DEF CommandInv
<1>6. Clean(output') <=> Clean(output) /\ n = Len(TestLines)
  BY <1>3, <1>4, <1>5, WriteFacts
<1>7. outcome = SelectedTest.expected_result
        <=> ExpectationHolds(TEST_REGISTRY[test_index + 1])
  BY <1>1, <1>2 DEF SelectedTest, ExpectationHolds
<1>8. TestsHold(test_index)' <=> TestsHold(test_index + 1)
  BY <1>1, ExpectationsAreFixed DEF TestsHold, vars
<1>9. passed' = test_index' <=> Clean(output') /\ TestsHold(test_index + 1)
  <2>1. passed = test_index <=> Clean(output) /\ TestsHold(test_index)
    BY <1>1 DEF SuiteCounts, SuiteRuns
  <2>2. passed' = test_index' <=> /\ passed = test_index /\ n = Len(TestLines)
                                  /\ outcome = SelectedTest.expected_result
    BY <1>1, <1>3, <1>4
  <2>3. QED
    BY <1>4, <1>6, <1>7, <2>1, <2>2, TestsHoldFacts
<1>10. QED
  BY <1>1, <1>8, <1>9 DEF SuiteCounts, StatusCounts, SuiteRuns

LEMMA SuiteEnds ==
  ASSUME CommandInv, SuiteCounts, EndSuite
  PROVE  SuiteCounts' /\ StatusCounts'
<1>1. stage = "tests" /\ test_index = Total /\ command.kind = "run_all"
  BY EndSuiteShape DEF CommandInv, RunnerInv, StageInv
<1>2. PICK n \in 0..Len(ClosingLines) :
         Exit(IF n = Len(ClosingLines) /\ passed = Total THEN "OK" ELSE "INTERNAL_ERROR",
              ClosingLines, n)
  BY EndSuiteShape
<1>3. /\ stage' = "exited" /\ command' = command
      /\ status' = IF n = Len(ClosingLines) /\ passed = Total THEN "OK" ELSE "INTERNAL_ERROR"
  BY <1>2 DEF Exit
<1>4. Clean(output') <=> Clean(output) /\ n = Len(ClosingLines)
  BY <1>2, OtherLinesFacts, ExitFacts DEF CommandInv
<1>5. passed = Total <=> Clean(output) /\ AllHold
  BY <1>1, TestsHoldFacts, TotalFacts DEF SuiteCounts, SuiteRuns
<1>6. AllHold' <=> AllHold
  <2>1. cal' = cal
    BY CalibrationIsFixed DEF RunnerNext
  <2>2. QED
    BY <2>1, ExpectationsAreFixed DEF AllHold
<1>7. QED
  BY <1>1, <1>3, <1>4, <1>5, <1>6 DEF SuiteCounts, StatusCounts, SuiteRuns

LEMMA NamedStatus ==
  ASSUME CommandInv, SuiteCounts, ~ShowTicks, StartNamed \/ FinishNamed
  PROVE  SuiteCounts' /\ StatusCounts'
<1>1. command.kind = "scenario"
  BY FinishNamedShape DEF StartNamed
<1>2. CASE /\ StartNamed /\ stage' = "running"
           /\ UNCHANGED <<command, output>>
  <2>1. output = << >>
    BY <1>2 DEF CommandInv, RunnerInv, StageInv, StartNamed
  <2>2. QED
    BY <1>1, <1>2, <2>1 DEF SuiteCounts, StatusCounts, SuiteRuns
<1>3. CASE FindNamed(command.name) = 0 /\ Exit("INVALID_ARGUMENT", << >>, 0)
  BY <1>1, <1>3 DEF Exit, SuiteCounts, StatusCounts, SuiteRuns
<1>4. CASE FinishNamed
  <2>1. /\ stage = "running" /\ pc = "done" /\ BuiltIn /\ FindNamed(command.name) # 0
        /\ output \in Seq(Tokens) /\ Clean(output)
    BY <1>1, <1>4, FinishNamedShape
       DEF CommandInv, RunnerInv, StageInv, BuiltIn, SuiteCounts, Clean
  <2>2. outcome # "ERROR"
    BY <2>1, EndsWithVerdict
  <2>3. PICK n \in 0..Len(NamedLines) :
           Exit(IF n = Len(NamedLines) THEN "OK" ELSE "INTERNAL_ERROR", NamedLines, n)
    BY <1>4, <2>2, FinishNamedShape
  <2>4. Clean(output') <=> n = Len(NamedLines)
    BY <2>1, <2>2, <2>3, NamedLinesFacts, ExitFacts DEF CommandInv
  <2>5. /\ stage' = "exited" /\ command' = command
        /\ status' = IF n = Len(NamedLines) THEN "OK" ELSE "INTERNAL_ERROR"
    BY <2>3 DEF Exit
  <2>6. QED
    BY <1>1, <2>1, <2>4, <2>5 DEF SuiteCounts, StatusCounts, SuiteRuns
<1>5. QED
  BY <1>2, <1>3, <1>4 DEF StartNamed, Prepare

LEMMA StatusInductive ==
  ASSUME CommandInv, SuiteCounts, ~ShowTicks, [RunnerNext]_allVars
  PROVE  SuiteCounts' /\ (StatusCounts => StatusCounts')
<1>1. CASE StartScript \/ FinishScript
  <2>1. command' = command /\ command.kind = "script"
    BY <1>1 DEF StartScript, FinishScript, Exit
  <2>2. QED
    BY <2>1 DEF SuiteCounts, StatusCounts, SuiteRuns
<1>2. CASE RunStep
  <2>1. /\ stage = "running" /\ UNCHANGED <<command, stage, test_index, passed>>
        /\ cal' = cal
    BY <1>2, RunIsNext, CalibrationIsFixed DEF CommandInv, RunnerInv, RunnerNext
  <2>2. BuiltIn => output' = output
    BY <1>2, RunStepWrites DEF CommandInv
  <2>3. TestsHold(test_index)' <=> TestsHold(test_index)
    BY <2>1, ExpectationsAreFixed DEF TestsHold
  <2>4. QED
    BY <2>1, <2>2, <2>3 DEF SuiteCounts, StatusCounts, SuiteRuns, BuiltIn
<1>3. CASE UNCHANGED allVars
  <2>1. /\ UNCHANGED <<command, stage, test_index, passed, status, output>> /\ cal' = cal
    BY <1>3 DEF allVars, vars, runner
  <2>2. (TestsHold(test_index)' <=> TestsHold(test_index)) /\ (AllHold' <=> AllHold)
    BY <2>1, ExpectationsAreFixed DEF TestsHold, AllHold
  <2>3. QED
    BY <2>1, <2>2 DEF SuiteCounts, StatusCounts, SuiteRuns
<1>4. QED
  BY <1>1, <1>2, <1>3, SuiteStart, SuiteTest, SuiteVerdict, SuiteEnds, NamedStatus
     DEF RunnerNext

LEMMA CommandCorrect == RunnerSpec => []CommandInv
<1>1. RunnerInit => CommandInv
  <2> SUFFICES ASSUME RunnerInit PROVE CommandInv
    OBVIOUS
  <2>1. output \in Seq(Tokens) /\ stage = "start"
    BY DEF RunnerInit
  <2>2. QED
    BY <2>1, RunnerInitInv DEF CommandInv, ScriptRunInv
<1>2. CommandInv /\ [RunnerNext]_allVars => CommandInv'
  BY StageInductive, BuiltInInductive, ScriptInductive, OutputInductive DEF CommandInv
<1>3. QED
  BY <1>1, <1>2, PTL DEF RunnerSpec

(* main() and test_runner.c: where ticks are not printed, --run-all exits  *)
(* with success exactly when every expectation of the registry is what     *)
(* its samples ask for and all of the output was written, --scenario for   *)
(* a known name once its result is written; and under the default          *)
(* calibration every expectation holds (StatusIsDeserved of the            *)
(* test-runner run).                                                       *)
THEOREM StatusesAreDeserved == RunnerSpec => [](~ShowTicks => StatusIsDeserved)
<1>1. RunnerInit => SuiteCounts /\ StatusCounts
  BY DEF RunnerInit, SuiteCounts, StatusCounts, SuiteRuns
<1>2. CommandInv /\ (~ShowTicks => SuiteCounts /\ StatusCounts) /\ [RunnerNext]_allVars
        => (~ShowTicks => SuiteCounts' /\ StatusCounts')
  BY StatusInductive
<1>3. CommandInv /\ (~ShowTicks => SuiteCounts /\ StatusCounts)
        => (~ShowTicks => StatusIsDeserved)
  <2> SUFFICES ASSUME CommandInv, StatusCounts PROVE StatusIsDeserved
    OBVIOUS
  <2>1. Failures(output) = 0 <=> Clean(output)
    BY CleanMeansNoFailure DEF CommandInv
  <2>2. QED
    BY <2>1, DefaultVerdicts DEF StatusIsDeserved, StatusCounts
<1>4. QED
  <2>1. (~ShowTicks)' <=> ~ShowTicks
    OBVIOUS
  <2>2. RunnerSpec => [](~ShowTicks => SuiteCounts /\ StatusCounts)
    BY <1>1, <1>2, <2>1, CommandCorrect, PTL DEF RunnerSpec
  <2>3. QED
    BY <1>3, <2>2, CommandCorrect, PTL


-----------------------------------------------------------------------------
(* The documents.                                                          *)

(* What is written so far, n tests of which p passed: OpenDocument of a    *)
(* suite under way.                                                        *)
OpenDoc(out, n, p) ==
  /\ Len(out) = IF n = 0 THEN 1 ELSE 2 * n
  /\ out[1] = Header
  /\ \A i \in 2..Len(out) : IF i % 2 = 0 THEN IsObject(out[i]) ELSE out[i] = Comma
  /\ Cardinality({i \in 2..Len(out) : IsObject(out[i])}) = n
  /\ Cardinality({i \in 2..Len(out) : Passes(out[i])}) = p

LEMMA CountsNext ==
  ASSUME NEW S, IsFiniteSet(S), NEW x, x \notin S
  PROVE  Cardinality(S \cup {x}) = Cardinality(S) + 1
  BY FS_AddElement

LEMMA DocumentOpens == OpenDoc(<<Header>>, 0, 0)
<1>1. Len(<<Header>>) = 1 /\ <<Header>>[1] = Header /\ 2..1 = {}
  OBVIOUS
<1> DEFINE out == <<Header>>
<1>2. {i \in 2..Len(out) : IsObject(out[i])} = {} /\ {i \in 2..Len(out) : Passes(out[i])} = {}
  BY <1>1
<1>3. Cardinality({}) = 0
  BY FS_EmptySet
<1>4. QED
  BY <1>1, <1>2, <1>3 DEF OpenDoc

(* A further test adds a comma, if it is not the first, and its object.    *)
LEMMA DocumentGrows ==
  ASSUME NEW out \in Seq(Tokens), NEW n \in Nat, NEW p \in Nat, OpenDoc(out, n, p),
         NEW o \in Tokens, IsObject(o), NEW next,
         next = out \o (IF n > 0 THEN <<Comma, o>> ELSE <<o>>)
  PROVE  OpenDoc(next, n + 1, IF Passes(o) THEN p + 1 ELSE p)
<1> DEFINE last == 2 * (n + 1)
           Objects(s) == {i \in 2..Len(s) : IsObject(s[i])}
           Passing(s) == {i \in 2..Len(s) : Passes(s[i])}
<1>1. /\ Len(out) = IF n = 0 THEN 1 ELSE 2 * n
      /\ out[1] = Header
      /\ \A i \in 2..Len(out) : IF (i % 2) = 0 THEN IsObject(out[i]) ELSE out[i] = Comma
      /\ Cardinality(Objects(out)) = n /\ Cardinality(Passing(out)) = p
  BY DEF OpenDoc
<1>2. Comma \in Tokens /\ ~IsObject(Comma) /\ ~Passes(Comma)
  BY TokenFacts
<1>3. /\ Len(next) = last
      /\ \A i \in 1..Len(out) : next[i] = out[i]
      /\ n > 0 => next[last - 1] = Comma
      /\ next[last] = o
  <2>1. CASE n > 0
    <3>1. /\ <<Comma, o>> \in Seq(Tokens) /\ Len(<<Comma, o>>) = 2
          /\ <<Comma, o>>[1] = Comma /\ <<Comma, o>>[2] = o
      BY <1>2
    <3>2. Len(out) = last - 2 /\ next = out \o <<Comma, o>>
      BY <1>1, <2>1
    <3>3. /\ Len(next) = Len(out) + 2 /\ \A i \in 1..Len(out) : next[i] = out[i]
          /\ next[Len(out) + 1] = Comma /\ next[Len(out) + 2] = o
      BY <3>1, <3>2, ConcatProperties
    <3>4. Len(out) + 1 = last - 1 /\ Len(out) + 2 = last
      BY <3>2
    <3>5. QED
      BY <3>3, <3>4
  <2>2. CASE n = 0
    <3>1. <<o>> \in Seq(Tokens) /\ Len(<<o>>) = 1 /\ <<o>>[1] = o
      OBVIOUS
    <3>2. Len(out) = 1 /\ last = 2 /\ next = out \o <<o>>
      BY <1>1, <2>2
    <3>3. QED
      BY <2>2, <3>1, <3>2
  <2>3. QED
    BY <2>1, <2>2
<1>4. /\ last \in Nat /\ (last % 2) = 0 /\ ((last - 1) % 2) # 0 /\ last >= 2
      /\ Len(out) = IF n > 0 THEN last - 2 ELSE 1
  BY Z3, <1>1
<1>5. ASSUME NEW i \in 2..last
      PROVE  i \in 2..Len(out) \/ i = last \/ (n > 0 /\ i = last - 1)
  BY <1>4
<1>6. \A i \in 2..Len(out) : i \in 1..Len(out) /\ i \in 2..last /\ i # last
  BY <1>4
<1> HIDE DEF last
<1>7. \A i \in 2..Len(next) : IF (i % 2) = 0 THEN IsObject(next[i]) ELSE next[i] = Comma
  BY <1>1, <1>3, <1>4, <1>5, <1>6
<1>8. Objects(next) = Objects(out) \cup {last}
  BY <1>2, <1>3, <1>4, <1>5, <1>6
<1>9. Passing(next) = IF Passes(o) THEN Passing(out) \cup {last} ELSE Passing(out)
  <2>1. \A i \in Passing(out) : i \in Passing(next)
    BY <1>3, <1>6
  <2>2. last \in Passing(next) <=> Passes(o)
    BY <1>3, <1>4
  <2>3. \A i \in Passing(next) : i \in Passing(out) \/ i = last
    BY <1>2, <1>3, <1>5, <1>6
  <2> HIDE DEF Passing
  <2>4. CASE Passes(o)
    <3>1. Passing(next) = Passing(out) \cup {last}
      BY <2>1, <2>2, <2>3, <2>4
    <3>2. QED
      BY <2>4, <3>1
  <2>5. CASE ~Passes(o)
    <3>1. Passing(next) = Passing(out)
      BY <2>1, <2>2, <2>3, <2>5
    <3>2. QED
      BY <2>5, <3>1
  <2>6. QED
    BY <2>4, <2>5
<1>10. /\ IsFiniteSet(Objects(out)) /\ last \notin Objects(out)
       /\ IsFiniteSet(Passing(out)) /\ last \notin Passing(out)
  <2>1. Len(out) \in Nat /\ last \notin 2..Len(out)
    BY <1>6
  <2>2. IsFiniteSet(2..Len(out))
    BY <2>1, FS_Interval
  <2>3. QED
    BY <2>1, <2>2, FS_Subset
<1> HIDE DEF Objects, Passing
<1>11. /\ Cardinality(Objects(next)) = n + 1
       /\ Cardinality(Passing(next)) = IF Passes(o) THEN p + 1 ELSE p
  BY <1>1, <1>8, <1>9, <1>10, CountsNext
<1>12. next[1] = Header /\ n + 1 # 0
  BY <1>1, <1>3, <1>4
<1>13. QED
  BY <1>3, <1>7, <1>11, <1>12 DEF OpenDoc, Objects, Passing, last

(* The footer closes the document when it counts what was written.         *)
LEMMA DocumentCloses ==
  ASSUME NEW out \in Seq(Tokens), NEW n \in Nat, NEW p \in Nat, OpenDoc(out, n, p),
         NEW f \in Tokens, f.token = "footer", f.total = n, f.passed = p,
         NEW next, next = out \o <<f>>
  PROVE  Document(next)
<1>1. <<f>> \in Seq(Tokens) /\ Len(<<f>>) = 1 /\ <<f>>[1] = f
  OBVIOUS
<1>2. /\ Len(next) = Len(out) + 1 /\ next[Len(next)] = f /\ Len(out) \in Nat
      /\ \A i \in 1..Len(out) : next[i] = out[i]
  BY <1>1
<1>3. Len(out) = (IF n = 0 THEN 1 ELSE 2 * n) /\ out[1] = Header
  BY DEF OpenDoc
<1>4. \A i \in 2..Len(out) : i \in 1..Len(out)
  OBVIOUS
<1> DEFINE body == 2..(Len(next) - 1)
<1>5. body = 2..Len(out)
  BY <1>2
<1>6. /\ {i \in body : IsObject(next[i])} = {i \in 2..Len(out) : IsObject(out[i])}
      /\ {i \in body : Passes(next[i])} = {i \in 2..Len(out) : Passes(out[i])}
  BY <1>2, <1>4, <1>5
<1>7. body # {} => ((Len(next) - 1) % 2) = 0
  <2>1. body # {} => n # 0
    BY <1>3, <1>5
  <2>2. n # 0 => Len(next) - 1 = 2 * n
    BY <1>2, <1>3
  <2>3. ((2 * n) % 2) = 0
    BY Z3
  <2>4. QED
    BY <2>1, <2>2, <2>3
<1>8. \A i \in body : IF (i % 2) = 0 THEN IsObject(next[i]) ELSE next[i] = Comma
  BY <1>2, <1>4, <1>5 DEF OpenDoc
<1>9. Len(next) > 1 /\ next[1] = Header
  BY <1>2, <1>3
<1>10. QED
  BY <1>2, <1>6, <1>7, <1>8, <1>9 DEF Document, OpenDoc

(* The document of one scenario, and of a refused or failed script.        *)
LEMMA ShortDocuments ==
  ASSUME NEW o \in Tokens, IsObject(o), NEW f \in Tokens, f.token = "footer"
  PROVE  /\ f.total = 1 /\ f.passed = (IF Passes(o) THEN 1 ELSE 0)
              => Document(<<Header, o, f>>)
         /\ f.total = 0 /\ f.passed = 0 => Document(<<Header, f>>)
<1> DEFINE first == <<Header>>
           second == first \o <<o>>
<1>1. Header \in Tokens
  BY TokenFacts
<1>2. first \in Seq(Tokens) /\ OpenDoc(first, 0, 0)
  BY <1>1, DocumentOpens
<1>3. second \in Seq(Tokens) /\ OpenDoc(second, 1, IF Passes(o) THEN 1 ELSE 0)
  <2>1. second = first \o (IF 0 > 0 THEN <<Comma, o>> ELSE <<o>>) /\ second \in Seq(Tokens)
    BY <1>2
  <2> HIDE DEF first, second
  <2>2. OpenDoc(second, 0 + 1, IF Passes(o) THEN 0 + 1 ELSE 0)
    BY <1>2, <2>1, DocumentGrows
  <2>3. QED
    BY <2>1, <2>2
<1>4. second \o <<f>> = <<Header, o, f>> /\ first \o <<f>> = <<Header, f>>
  BY <1>1, TupleConcat
<1> HIDE DEF first, second
<1>5. f.total = 0 /\ f.passed = 0 => Document(first \o <<f>>)
  BY <1>2, DocumentCloses
<1>6. f.total = 1 /\ f.passed = (IF Passes(o) THEN 1 ELSE 0) => Document(second \o <<f>>)
  BY <1>3, DocumentCloses
<1>7. QED
  BY <1>4, <1>5, <1>6

(* The log line of a timeout is not part of the document.                  *)
LEMMA DocumentAfterLog ==
  ASSUME output \in {<< >>, <<Text("timeout")>>}, NEW lines \in Seq(Tokens), lines # << >>,
         lines[1] = Header, output' = output \o lines
  PROVE  WithoutLog' = lines /\ Len(output') \in Nat /\ output' # << >>
         /\ output'[Len(output')] = lines[Len(lines)]
<1>1. Header # Text("timeout") /\ Text("timeout") \in Tokens
  BY TextFacts DEF Header, Text, Texts
<1>2. Len(lines) \in Nat /\ Len(lines) >= 1 /\ Head(lines) = Header
  OBVIOUS
<1>3. CASE output = << >>
  <2>1. output' = lines
    BY <1>3, ConcatEmptySeq
  <2>2. QED
    BY <1>1, <1>2, <2>1 DEF WithoutLog
<1>4. CASE output = <<Text("timeout")>>
  <2> DEFINE log == <<Text("timeout")>>
             all == log \o lines
  <2>1. log \in Seq(Tokens) /\ Len(log) = 1 /\ log[1] = Text("timeout")
    BY <1>1
  <2>2. all \in Seq(Tokens) /\ Len(all) = Len(lines) + 1 /\ all[1] = Text("timeout")
        /\ \A i \in 1..Len(lines) : all[i + 1] = lines[i]
    BY <1>2, <2>1
  <2>3. output' = all
    BY <1>4
  <2> HIDE DEF log, all
  <2>4. all # << >> /\ Head(all) = Text("timeout")
    BY <1>2, <2>2
  <2>5. Tail(all) \in Seq(Tokens) /\ Len(Tail(all)) = Len(lines)
        /\ \A i \in 1..Len(lines) : Tail(all)[i] = all[i + 1]
    BY <1>2, <2>2, <2>4, HeadTailProperties
  <2>6. Tail(all) = lines
    BY <2>2, <2>5, SeqEqual
  <2>7. Len(lines) \in 1..Len(lines)
    BY <1>2
  <2>8. QED
    BY <1>2, <2>2, <2>3, <2>4, <2>6, <2>7 DEF WithoutLog
<1>5. QED
  BY <1>3, <1>4


(* A suite under way and a command that has ended, as far as all of their  *)
(* output was written.                                                     *)
DocumentOpen ==
  SuiteRuns /\ command.json /\ Clean(output) => OpenDoc(output, test_index, passed)

Explained(footer) ==
  /\ footer.error = "PARSE_ERROR"
  /\ footer.tick = IF outcome = "ERROR" THEN target_tick ELSE 0

DocumentComplete ==
  stage = "exited" /\ command.json /\ Clean(output) =>
    /\ (command.kind = "scenario" => FindNamed(command.name) # 0) => Document(WithoutLog)
    /\ command.kind = "script" /\ status # "OK" => Explained(output[Len(output)])

OpenInv == CommandInv /\ SuiteCounts /\ DocumentOpen /\ command.json

LEMMA JsonPrintsNoTicks ==
  ASSUME RunnerTypeOK, command.json
  PROVE  ~ShowTicks
  BY CommandAssumption DEF RunnerTypeOK

LEMMA DocumentIsNoLog ==
  ASSUME output' \in Seq(Tokens), Document(output')
  PROVE  WithoutLog' = output'
<1>1. output' # << >> /\ output'[1] = Header
  <2>1. Len(output') > 1 /\ output'[1] = Header
    BY Zenon DEF Document
  <2>2. QED
    BY <2>1
<1>2. Header # Text("timeout") /\ Head(output') = Header
  BY <1>1 DEF Header, Text
<1>3. QED
  BY <1>2 DEF WithoutLog

LEMMA DocumentSuite ==
  ASSUME OpenInv, StartSuite
  PROVE  DocumentOpen' /\ DocumentComplete'
<1> DEFINE opening == <<Header>>
<1>1. opening \in Seq(Tokens) /\ Clean(opening) /\ Len(opening) = 1
  BY TokenFacts, CleanTuples
<1>2. output = << >> /\ test_index = 0 /\ passed = 0 /\ output \in Seq(Tokens)
  BY DEF OpenInv, CommandInv, RunnerInv, StageInv, StartSuite
<1>3. \/ /\ Write(opening, 1) /\ stage' = "tests"
         /\ UNCHANGED <<command, test_index, passed>>
      \/ Exit("INTERNAL_ERROR", opening, 0)
  BY DEF StartSuite, OpenInv
<1> HIDE DEF opening
<1>4. CASE Write(opening, 1) /\ stage' = "tests" /\ UNCHANGED <<command, test_index, passed>>
  <2>1. Clean(output') => output' = << >> \o opening
    BY <1>1, <1>2, <1>4, WriteFacts
  <2>2. << >> \o opening = opening
    BY <1>1, ConcatEmptySeq
  <2>3. Clean(output') => OpenDoc(output', test_index', passed')
    BY <1>2, <1>4, <2>1, <2>2, DocumentOpens DEF opening
  <2>4. QED
    BY <1>4, <2>3 DEF DocumentOpen, DocumentComplete
<1>5. CASE Exit("INTERNAL_ERROR", opening, 0)
  <2>1. 0 \in 0..Len(opening) /\ 0 # Len(opening)
    BY <1>1
  <2>2. ~Clean(output') /\ stage' = "exited"
    BY <1>1, <1>2, <1>5, <2>1, ExitFacts DEF Exit
  <2>3. QED
    BY <2>2 DEF DocumentOpen, DocumentComplete, SuiteRuns
<1>6. QED
  BY <1>3, <1>4, <1>5

LEMMA DocumentStartTest ==
  ASSUME OpenInv, StartTest
  PROVE  DocumentOpen' /\ DocumentComplete'
<1>1. /\ Write(<< >>, Len(<< >>)) /\ stage' = "running" /\ stage = "tests"
      /\ UNCHANGED <<command, test_index, passed>>
  BY DEF StartTest, OpenInv, Prepare
<1>2. output' = output
  BY <1>1, WrittenNothing DEF OpenInv, CommandInv
<1>3. QED
  BY <1>1, <1>2 DEF OpenInv, DocumentOpen, DocumentComplete, SuiteRuns

LEMMA DocumentTest ==
  ASSUME OpenInv, FinishTest
  PROVE  DocumentOpen' /\ DocumentComplete'
<1>1. /\ stage = "running" /\ pc = "done" /\ command.kind = "run_all" /\ BuiltIn
      /\ stage' = "tests" /\ test_index' = test_index + 1
      /\ UNCHANGED <<vars, command>>
  BY FinishTestShape DEF BuiltIn
<1>2. CommandInv /\ ~ShowTicks /\ output \in Seq(Tokens) /\ command.json /\ DocumentOpen
      /\ test_index \in Nat /\ passed \in Nat
  BY JsonPrintsNoTicks, KindFacts DEF OpenInv, CommandInv, RunnerInv
<1>3. outcome # "ERROR" /\ outcome \in Results /\ SelectedTest.expected_result \in Results
  BY <1>1, <1>2, EndsWithVerdict
<1>4. PICK n \in 0..Len(TestLines) :
         /\ Write(TestLines, n)
         /\ passed' = IF n = Len(TestLines) /\ outcome = SelectedTest.expected_result
                      THEN passed + 1 ELSE passed
  BY <1>3, FinishTestShape
<1>5. TestLines \in Seq(Tokens) /\ Clean(TestLines)
  BY <1>1, <1>2, <1>3, TestLinesFacts DEF CommandInv
<1> DEFINE o == Object(SelectedTest.expected_result, outcome, tick_report_count)
<1>6. /\ o \in Tokens /\ IsObject(o)
      /\ Passes(o) <=> SelectedTest.expected_result = outcome
  BY <1>1, <1>2, <1>3, EndedRun, ObjectFacts DEF CommandInv
<1>7. TestLines = IF test_index > 0 THEN <<Comma, o>> ELSE <<o>>
  <2>1. Comma \in Tokens
    BY TokenFacts
  <2>2. TestLines = (IF test_index > 0 THEN <<Comma>> ELSE << >>) \o <<o>>
    BY <1>2 DEF TestLines
  <2> HIDE DEF o
  <2>3. QED
    BY <1>6, <2>1, <2>2, TupleConcat
<1> HIDE DEF o
<1>8. ASSUME Clean(output') PROVE OpenDoc(output', test_index', passed')
  <2>1. n = Len(TestLines) /\ Clean(output) /\ output' = output \o TestLines
    BY <1>2, <1>4, <1>5, <1>8, WriteFacts
  <2>2. OpenDoc(output, test_index, passed)
    BY <1>1, <1>2, <2>1 DEF DocumentOpen, SuiteRuns
  <2>3. OpenDoc(output', test_index + 1, IF Passes(o) THEN passed + 1 ELSE passed)
    BY <1>2, <1>6, <1>7, <2>1, <2>2, DocumentGrows
  <2>4. passed' = IF Passes(o) THEN passed + 1 ELSE passed
    BY <1>4, <1>6, <2>1
  <2>5. QED
    BY <1>1, <2>3, <2>4
<1>9. QED
  BY <1>1, <1>8 DEF DocumentOpen, DocumentComplete

LEMMA DocumentEnds ==
  ASSUME OpenInv, EndSuite
  PROVE  DocumentOpen' /\ DocumentComplete'
<1>1. /\ stage = "tests" /\ test_index = Total /\ command.kind = "run_all"
      /\ command.json /\ DocumentOpen /\ output \in Seq(Tokens)
      /\ test_index \in Nat /\ passed \in Nat
  BY EndSuiteShape, KindFacts DEF OpenInv, CommandInv, RunnerInv, StageInv
<1> DEFINE f == Footer(passed, Total, NoError)
<1>2. PICK code, n : Exit(code, ClosingLines, n)
  BY EndSuiteShape
<1>3. stage' = "exited" /\ command' = command
  BY <1>2 DEF Exit
<1>4. ClosingLines \in Seq(Tokens) /\ Clean(ClosingLines) /\ ClosingLines = <<f>>
  BY <1>1, OtherLinesFacts DEF OpenInv, CommandInv, ClosingLines
<1>5. f \in Tokens /\ f.token = "footer" /\ f.total = test_index /\ f.passed = passed
  BY <1>1, FooterFacts
<1> HIDE DEF f
<1>6. ASSUME Clean(output') PROVE Document(WithoutLog')
  <2>1. ~PrintsUsage(code)
    BY <1>1 DEF PrintsUsage
  <2>2. output' \in Seq(Tokens) /\ Clean(output) /\ output' = output \o <<f>>
    BY <1>1, <1>2, <1>4, <1>6, <2>1, ExitFacts
  <2>3. OpenDoc(output, test_index, passed)
    BY <1>1, <2>2 DEF DocumentOpen, SuiteRuns
  <2>4. Document(output')
    BY <1>1, <1>5, <2>2, <2>3, DocumentCloses
  <2>5. WithoutLog' = output'
    BY <2>2, <2>4, DocumentIsNoLog
  <2>6. QED
    BY <2>4, <2>5
<1>7. QED
  BY <1>1, <1>3, <1>6 DEF DocumentOpen, DocumentComplete, SuiteRuns

LEMMA DocumentNamed ==
  ASSUME OpenInv, StartNamed \/ FinishNamed
  PROVE  DocumentOpen' /\ DocumentComplete'
<1>1. command.kind = "scenario" /\ command' = command
  BY FinishNamedShape DEF StartNamed, FinishNamed, Exit
<1>2. CASE StartNamed
  <2>1. stage' = "exited" => FindNamed(command.name) = 0
    BY <1>2 DEF StartNamed, Prepare
  <2>2. QED
    BY <1>1, <2>1 DEF DocumentOpen, DocumentComplete, SuiteRuns
<1>3. CASE FinishNamed
  <2>1. /\ stage = "running" /\ pc = "done" /\ BuiltIn
        /\ output = << >> /\ output \in Seq(Tokens)
        /\ CommandInv /\ ~ShowTicks /\ command.json
    BY <1>1, <1>3, FinishNamedShape, JsonPrintsNoTicks
       DEF OpenInv, CommandInv, RunnerInv, BuiltIn, SuiteCounts
  <2>2. outcome # "ERROR" /\ outcome \in Results /\ SelectedTest.expected_result \in Results
    BY <2>1, EndsWithVerdict
  <2>3. PICK n \in 0..Len(NamedLines) :
           Exit(IF n = Len(NamedLines) THEN "OK" ELSE "INTERNAL_ERROR", NamedLines, n)
    BY <1>3, <2>2, FinishNamedShape
  <2>4. NamedLines \in Seq(Tokens) /\ Clean(NamedLines)
    BY <2>1, <2>2, NamedLinesFacts DEF CommandInv
  <2> DEFINE o == Object(SelectedTest.expected_result, outcome, tick_report_count)
             f == Footer(IF outcome = SelectedTest.expected_result THEN 1 ELSE 0, 1, NoError)
  <2>5. /\ o \in Tokens /\ IsObject(o)
        /\ Passes(o) <=> SelectedTest.expected_result = outcome
    BY <2>1, <2>2, EndedRun, ObjectFacts DEF CommandInv
  <2>6. /\ f \in Tokens /\ f.token = "footer" /\ f.total = 1
        /\ f.passed = IF outcome = SelectedTest.expected_result THEN 1 ELSE 0
    BY FooterFacts
  <2>7. NamedLines = <<Header, o, f>>
    BY <2>1 DEF NamedLines
  <2> HIDE DEF o, f
  <2>8. Document(NamedLines)
    BY <2>5, <2>6, <2>7, ShortDocuments
  <2>9. ASSUME Clean(output') PROVE Document(WithoutLog')
    <3>1. n = Len(NamedLines)
      BY <2>1, <2>3, <2>4, <2>9, ExitFacts
    <3>2. Exit("OK", NamedLines, n)
      BY <2>3, <3>1
    <3>3. ~PrintsUsage("OK")
      BY DEF PrintsUsage
    <3>4. output' = << >> \o NamedLines
      BY <2>1, <2>4, <2>9, <3>2, <3>3, ExitFacts
    <3>5. output' = NamedLines
      BY <2>4, <3>4, ConcatEmptySeq
    <3>6. WithoutLog' = output'
      BY <2>4, <2>8, <3>5, DocumentIsNoLog
    <3>7. QED
      BY <2>8, <3>5, <3>6
  <2>10. QED
    BY <1>1, <2>9 DEF DocumentOpen, DocumentComplete, SuiteRuns
<1>4. QED
  BY <1>2, <1>3


LEMMA RefusedScript ==
  ASSUME OpenInv, StartScript
  PROVE  DocumentOpen' /\ DocumentComplete'
<1>1. /\ command.kind = "script" /\ command' = command /\ stage = "start" /\ command.json
      /\ output = << >> /\ output \in Seq(Tokens) /\ outcome # "ERROR"
  BY DEF StartScript, Exit, OpenInv, CommandInv, RunnerInv, StageInv, LoopInv
<1>2. CASE stage' # "exited"
  BY <1>1, <1>2 DEF DocumentOpen, DocumentComplete, SuiteRuns
<1>3. CASE \E n \in 0..Len(RefusalLines) : Exit("PARSE_ERROR", RefusalLines, n)
  <2>1. PICK n \in 0..Len(RefusalLines) : Exit("PARSE_ERROR", RefusalLines, n)
    BY <1>3
  <2>2. outcome' = outcome
    BY <2>1 DEF Exit
  <2> DEFINE f == Footer(0, 0, ParseError)
  <2>3. f \in Tokens /\ f.token = "footer" /\ f.total = 0 /\ f.passed = 0
        /\ f.error = "PARSE_ERROR" /\ f.tick = 0
    BY FooterFacts DEF ParseError, Error
  <2>4. /\ RefusalLines \in Seq(Tokens) /\ Clean(RefusalLines)
        /\ RefusalLines = <<Header, f>>
    BY <1>1, OtherLinesFacts DEF OpenInv, CommandInv, RefusalLines
  <2> HIDE DEF f
  <2>5. ~PrintsUsage("PARSE_ERROR")
    BY <1>1 DEF PrintsUsage
  <2>6. Document(RefusalLines)
    <3>1. Object("OK", "OK", 0) \in Tokens /\ IsObject(Object("OK", "OK", 0))
      BY ObjectFacts DEF Results
    <3>2. QED
      BY <2>3, <2>4, <3>1, ShortDocuments
  <2>7. ASSUME Clean(output')
        PROVE  Document(WithoutLog') /\ output'[Len(output')] = f
    <3>1. output' = << >> \o RefusalLines
      BY <1>1, <2>1, <2>4, <2>5, <2>7, ExitFacts
    <3>2. output' = RefusalLines
      BY <2>4, <3>1, ConcatEmptySeq
    <3>3. WithoutLog' = output'
      BY <2>4, <2>6, <3>2, DocumentIsNoLog
    <3>4. RefusalLines[Len(RefusalLines)] = f
      BY <2>4
    <3>5. QED
      BY <2>6, <3>2, <3>3, <3>4
  <2>8. QED
    BY <1>1, <2>1, <2>2, <2>3, <2>7
       DEF DocumentOpen, DocumentComplete, SuiteRuns, Explained, Exit
<1>4. QED
  BY <1>1, <1>2, <1>3, StartScriptShape DEF Prepare

(* The last error of a failed run is the checksum error of its last line:  *)
(* a script's arguments are never the ones execute_profile() refuses.      *)
LEMMA FailureHasReason ==
  ASSUME OpenInv, stage = "running", pc = "done", command.kind = "script",
         outcome = "ERROR"
  PROVE  /\ link.last_error \in Errors
         /\ link.last_error.code = "PARSE_ERROR" /\ link.last_error.tick = target_tick
<1>1. ~ShowTicks /\ ErrorHasCause
  BY JsonPrintsNoTicks DEF OpenInv, CommandInv, RunnerInv, ScriptRunInv
<1>2. ~BadArguments
  <2>1. /\ tick_count \in TickCounts \cap 1..MaxProfileTicks
        /\ ReportCapacity \in Nat /\ MaxProfileTicks \in Nat
    BY RunAssumption DEF OpenInv, CommandInv, RunnerInv, StageInv
  <2>2. tick_count < ReportCapacity
    BY <2>1, RunnerAssumption
  <2>3. tick_count \in Nat /\ tick_count # 0 /\ tick_count <= MaxProfileTicks
    BY <2>1
  <2>4. QED
    BY <2>1, <2>2, <2>3 DEF BadArguments
<1>3. link.last_error = Error("PARSE_ERROR", "hal_read_sensors", target_tick, "ERROR")
  BY <1>1, <1>2 DEF ErrorHasCause
<1>4. QED
  BY <1>3, EndedRun DEF Error, OpenInv, CommandInv

LEMMA FinishedScript ==
  ASSUME OpenInv, FinishScript
  PROVE  DocumentOpen' /\ DocumentComplete'
<1>1. /\ stage = "running" /\ pc = "done" /\ command.kind = "script" /\ command.json
      /\ output \in {<< >>, <<Text("timeout")>>, <<Fragment>>}
      /\ output \in Seq(Tokens) /\ CommandInv /\ RunnerInv
  BY FinishScriptShape DEF OpenInv, CommandInv, ScriptRunInv
<1>2. \E code, lines, n : Exit(code, lines, n)
  BY FinishScriptShape
<1>3. stage' = "exited" /\ command' = command /\ outcome' = outcome
      /\ target_tick' = target_tick
  BY <1>2 DEF Exit, clock
<1>4. Clean(output) => output \in {<< >>, <<Text("timeout")>>}
  <2>1. ~Clean(<<Fragment>>)
    <3>1. 1 \in 1..Len(<<Fragment>>) /\ <<Fragment>>[1] = Fragment
      OBVIOUS
    <3>2. QED
      BY <3>1 DEF Clean
  <2>2. QED
    BY <1>1, <2>1
<1>5. \A code : ~PrintsUsage(code)
  BY <1>1 DEF PrintsUsage
<1>6. CASE outcome = "ERROR"
  <2>1. PICK n \in 0..Len(FailureLines) : Exit("INTERNAL_ERROR", FailureLines, n)
    BY <1>6, FinishScriptShape
  <2> DEFINE f == Footer(0, 0, link.last_error)
  <2>2. f \in Tokens /\ f.token = "footer" /\ f.total = 0 /\ f.passed = 0
        /\ f.error = "PARSE_ERROR" /\ f.tick = target_tick
    BY <1>1, <1>6, FailureHasReason, FooterFacts
  <2>3. /\ FailureLines \in Seq(Tokens) /\ Clean(FailureLines)
        /\ FailureLines = <<Header, f>>
    BY <1>1, ScriptLinesFacts DEF FailureLines
  <2> HIDE DEF f
  <2>4. Document(FailureLines)
    <3>1. Object("OK", "OK", 0) \in Tokens /\ IsObject(Object("OK", "OK", 0))
      BY ObjectFacts DEF Results
    <3>2. QED
      BY <2>2, <2>3, <3>1, ShortDocuments
  <2>5. /\ FailureLines # << >> /\ FailureLines[1] = Header
        /\ FailureLines[Len(FailureLines)] = f
    BY <2>3
  <2>6. ASSUME Clean(output')
        PROVE  Document(WithoutLog') /\ output'[Len(output')] = f
    <3>1. Clean(output) /\ output' = output \o FailureLines
      BY <1>1, <1>5, <2>1, <2>3, <2>6, ExitFacts
    <3>2. QED
      BY <1>4, <2>3, <2>4, <2>5, <3>1, DocumentAfterLog
  <2>7. QED
    BY <1>1, <1>3, <1>6, <2>2, <2>6 DEF DocumentOpen, DocumentComplete, SuiteRuns, Explained
<1>7. CASE outcome # "ERROR"
  <2>1. PICK n \in 0..Len(ScriptLines) :
           Exit(IF n = Len(ScriptLines) THEN "OK" ELSE "INTERNAL_ERROR", ScriptLines, n)
    BY <1>7, FinishScriptShape
  <2> DEFINE o == Object(outcome, outcome, tick_report_count)
             f == Footer(1, 1, NoError)
  <2>2. /\ o \in Tokens /\ IsObject(o)
        /\ Passes(o) <=> outcome = outcome
    BY <1>1, <1>7, EndedRun, ObjectFacts
  <2>3. f \in Tokens /\ f.token = "footer" /\ f.total = 1 /\ f.passed = 1
    BY FooterFacts
  <2>4. /\ ScriptLines \in Seq(Tokens) /\ Clean(ScriptLines)
        /\ ScriptLines = <<Header, o, f>>
    BY <1>1, <1>7, ScriptLinesFacts DEF ScriptLines
  <2> HIDE DEF o, f
  <2>5. Document(ScriptLines)
    BY <2>2, <2>3, <2>4, ShortDocuments
  <2>6. ScriptLines # << >> /\ ScriptLines[1] = Header
    BY <2>4
  <2>7. ASSUME Clean(output')
        PROVE  Document(WithoutLog') /\ status' = "OK"
    <3>1. /\ Clean(output) /\ output' = output \o ScriptLines
          /\ n = Len(ScriptLines)
      BY <1>1, <1>5, <2>1, <2>4, <2>7, ExitFacts
    <3>2. status' = "OK"
      BY <2>1, <3>1 DEF Exit
    <3>3. QED
      BY <1>4, <2>4, <2>5, <2>6, <3>1, <3>2, DocumentAfterLog
  <2>8. QED
    BY <1>1, <1>3, <2>7 DEF DocumentOpen, DocumentComplete, SuiteRuns
<1>8. QED
  BY <1>6, <1>7

LEMMA DocumentInductive ==
  ASSUME OpenInv, DocumentComplete, [RunnerNext]_allVars
  PROVE  DocumentOpen' /\ DocumentComplete'
<1>1. CASE RunStep
  <2>1. /\ stage = "running" /\ UNCHANGED <<command, stage, test_index, passed>>
    BY <1>1, RunIsNext DEF OpenInv, CommandInv, RunnerInv
  <2>2. BuiltIn => output' = output
    BY <1>1, RunStepWrites DEF OpenInv, CommandInv
  <2>3. QED
    BY <2>1, <2>2 DEF OpenInv, DocumentOpen, DocumentComplete, SuiteRuns, BuiltIn
<1>2. CASE UNCHANGED allVars
  <2>1. WithoutLog' = WithoutLog
    BY <1>2 DEF WithoutLog, allVars, runner
  <2>2. Explained(output[Len(output)])' = Explained(output[Len(output)])
    BY <1>2 DEF Explained, allVars, runner, vars, clock
  <2>3. QED
    BY <1>2, <2>1, <2>2 DEF OpenInv, DocumentOpen, DocumentComplete, SuiteRuns, allVars, runner
<1>3. QED
  BY <1>1, <1>2, DocumentSuite, DocumentStartTest, DocumentTest, DocumentEnds,
     DocumentNamed, RefusedScript, FinishedScript DEF RunnerNext

LEMMA CommandIsFixed ==
  ASSUME [RunnerNext]_allVars
  PROVE  command' = command
  BY DEF RunnerNext, StartSuite, StartTest, FinishTest, EndSuite, StartNamed, FinishNamed,
         StartScript, FinishScript, RunStep, Exit, Prepare, allVars, runner

DocumentCommand == command.json => SuiteCounts /\ DocumentOpen /\ DocumentComplete

LEMMA DocumentCorrect == RunnerSpec => [](CommandInv /\ DocumentCommand)
<1>1. RunnerInit => DocumentCommand
  BY DEF RunnerInit, DocumentCommand, SuiteCounts, DocumentOpen, DocumentComplete, SuiteRuns
<1>2. CommandInv /\ DocumentCommand /\ [RunnerNext]_allVars => DocumentCommand'
  <2> SUFFICES ASSUME CommandInv, DocumentCommand, [RunnerNext]_allVars, command'.json
               PROVE  SuiteCounts' /\ DocumentOpen' /\ DocumentComplete'
    BY DEF DocumentCommand
  <2>1. command.json /\ ~ShowTicks
    BY CommandIsFixed, JsonPrintsNoTicks DEF CommandInv, RunnerInv
  <2>2. OpenInv /\ DocumentComplete
    BY <2>1 DEF DocumentCommand, OpenInv
  <2>3. SuiteCounts'
    BY <2>1, <2>2, StatusInductive DEF OpenInv
  <2>4. QED
    BY <2>2, <2>3, DocumentInductive
<1>3. QED
  BY <1>1, <1>2, CommandCorrect, PTL DEF RunnerSpec

(* With --json and no write that failed, a run that starts leaves one      *)
(* complete document behind, after the log line of a sensor timeout if     *)
(* there was one (JsonIsComplete of the test-runner run).                  *)
THEOREM JsonCompleted == RunnerSpec => []JsonIsComplete
<1>1. CommandInv /\ DocumentCommand => JsonIsComplete
  <2> SUFFICES ASSUME CommandInv, DocumentCommand PROVE JsonIsComplete
    OBVIOUS
  <2>1. Failures(output) = 0 <=> Clean(output)
    BY CleanMeansNoFailure DEF CommandInv
  <2>2. QED
    BY <2>1 DEF JsonIsComplete, DocumentCommand, DocumentComplete
<1>2. QED
  BY <1>1, DocumentCorrect, PTL

(* A --script that fails leaves the reason in its document: what the       *)
(* parser refused, or the checksum error at the tick the run stopped       *)
(* (ScriptFailureIsExplained of the test-runner run).                      *)
THEOREM ScriptFailuresExplained == RunnerSpec => []ScriptFailureIsExplained
<1>1. CommandInv /\ DocumentCommand => ScriptFailureIsExplained
  <2> SUFFICES ASSUME CommandInv, DocumentCommand PROVE ScriptFailureIsExplained
    OBVIOUS
  <2>1. Failures(output) = 0 <=> Clean(output)
    BY CleanMeansNoFailure DEF CommandInv
  <2>2. QED
    BY <2>1 DEF ScriptFailureIsExplained, DocumentCommand, DocumentComplete, Explained
<1>2. QED
  BY <1>1, DocumentCorrect, PTL
=============================================================================
