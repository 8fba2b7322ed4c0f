------------------------ MODULE TestRunnerProperties ------------------------
(***************************************************************************)
(* What the commands promise: a scenario's result depends on its samples   *)
(* alone, the exit status tells what happened, and stdout carries one      *)
(* complete document.                                                      *)
(***************************************************************************)
EXTENDS TestRunner, ScenarioProperties

StatusCodes == {"OK", "INVALID_ARGUMENT", "INTERNAL_ERROR", "PARSE_ERROR"}

(* The runner's own state has its types, and a command returns a           *)
(* StatusCode, never a scenario's result code.                             *)
RunnerTypeOK ==
  /\ command \in Commands
  /\ stage \in {"start", "tests", "running", "exited"}
  /\ test_index \in 0..Total /\ passed \in 0..test_index
  /\ status \in StatusCodes \cup {"none"}
  /\ status = "none" <=> stage # "exited"

BuiltIn == command.kind # "script"

-----------------------------------------------------------------------------
(* The verdict of a profile by the requirements, read off its samples: a   *)
(* fault has persisted at sample n, something had persisted before.        *)
Persists(profile, f, n) ==
  /\ n >= cal.persistence[f]
  /\ \A i \in 1..n : i > n - cal.persistence[f] => FaultActive(cal, profile[i], f)

Warned(profile, n) == \E m \in 2..n, f \in Faults : Persists(profile, f, m)

VerdictAt(profile, size) ==
  CASE \E n \in 3..size, f \in ShutdownFaults :
         Warned(profile, n - 1) /\ Persists(profile, f, n) -> "SHUTDOWN"
    [] /\ Warned(profile, size)
       /\ \A n \in 3..size, f \in ShutdownFaults :
            Warned(profile, n - 1) => ~Persists(profile, f, n) -> "WARNING"
    [] ~Warned(profile, size) -> "OK"

Verdict(profile) == VerdictAt(profile, Len(profile))

(* Ten scenarios share one hal_init() and the ticks start at 1 again for   *)
(* each of them: still every built-in scenario ends with the verdict of    *)
(* its own samples, whatever the scenarios before it left in the HAL.      *)
ScenariosAreIsolated ==
  stage = "running" /\ pc = "done" /\ BuiltIn =>
    outcome = Verdict(SelectedTest.profile)

(* The registry as the requirements see it under the configured            *)
(* calibration: with the default one every expectation holds.              *)
ExpectationHolds(t) == Verdict(t.profile) = t.expected_result
AllHold == \A i \in 1..Total : ExpectationHolds(TEST_REGISTRY[i])

(* --run-all succeeds exactly when every expectation of the registry holds *)
(* and all of the output was written; --scenario succeeds for a known name *)
(* once its result is written, whatever the result.                        *)
StatusIsDeserved ==
  /\ stage = "exited" /\ cal = DefaultCalibration => AllHold
  /\ stage = "exited" /\ command.kind = "run_all" =>
       (status = "OK" <=> AllHold /\ Failures(output) = 0)
  /\ stage = "exited" /\ command.kind = "scenario" =>
       (status = "OK" <=> FindNamed(command.name) # 0 /\ Failures(output) = 0)

-----------------------------------------------------------------------------
(* One complete document: header, objects separated by commas, and a       *)
(* footer that counts them and those whose result is the expected one.     *)
IsObject(t) == t.token = "object"
Passes(t) == t.token = "object" /\ t.expected = t.actual

Document(out) ==
  /\ Len(out) > 1 /\ out[1] = Header
  /\ LET footer == out[Len(out)]
         body == 2..(Len(out) - 1)
     IN  /\ footer.token = "footer"
         /\ \A i \in body : IF i % 2 = 0 THEN IsObject(out[i]) ELSE out[i] = Comma
         /\ body # {} => (Len(out) - 1) % 2 = 0
         /\ footer.total = Cardinality({i \in body : IsObject(out[i])})
         /\ footer.passed = Cardinality({i \in body : Passes(out[i])})

(* With --json and no write that failed, a run that starts leaves one      *)
(* complete document behind, after the log line of a sensor timeout if     *)
(* there was one: a refused script and a failed run do too.                *)
WithoutLog == IF output # << >> /\ Head(output) = Text("timeout") THEN Tail(output)
                                                                  ELSE output

JsonIsComplete ==
  /\ stage = "exited" /\ command.json /\ Failures(output) = 0
  /\ command.kind = "scenario" => FindNamed(command.name) # 0
  => Document(WithoutLog)

(* A --script that fails leaves the reason in its document: what the       *)
(* parser refused, or the HAL's last error at the tick the run stopped.    *)
ScriptFailureIsExplained ==
  stage = "exited" /\ command.kind = "script" /\ command.json
    /\ status # "OK" /\ Failures(output) = 0 =>
      LET footer == output[Len(output)]
      IN  /\ footer.error = "PARSE_ERROR"
          /\ footer.tick = IF outcome = "ERROR" THEN target_tick ELSE 0

-----------------------------------------------------------------------------
(***************************************************************************)
(* The inductive invariants behind the proofs.                             *)
(***************************************************************************)

(* Where a command stands, and the state of the loop it drives.            *)
StageInv ==
  /\ stage = "start" => /\ pc = "begin" /\ test_index = 0 /\ passed = 0
                        /\ output = << >>
  /\ stage = "tests" => command.kind = "run_all" /\ pc \in {"begin", "done"}
  /\ stage = "running" =>
       /\ command.kind = "run_all" => test_index < Total
       /\ command.kind = "scenario" => FindNamed(command.name) # 0
       /\ command.kind = "script" => tick_count \in TickCounts \cap 1..MaxProfileTicks
  /\ stage # "exited" => /\ RunTypeOK /\ LoopInv
                         /\ pc = "done" => link.rx = << >>

(* A built-in scenario meets its own samples, one a tick, and runs to the  *)
(* end of them unless a tick cannot be printed.                            *)
MeetsProfile ==
  /\ tick_count = Len(SelectedTest.profile)
  /\ InLine => /\ line.kind = "sensor" /\ line.data = SelectedTest.profile[tick_index + 1]
               /\ sim_tick = target_tick
  /\ pc = "evaluate" => sensor_frame = line.data
  /\ link.last_error.code # "TIMEOUT"
  /\ pc = "done" => IF outcome = "ERROR" THEN ShowTicks
                    ELSE SampleCount = tick_count /\ outcome = LastResult

SamplesAreProfile ==
  /\ SampleCount <= tick_count
  /\ \A n \in 1..SampleCount :
       /\ Sample(n).rpm = SelectedTest.profile[n].rpm
       /\ Sample(n).temperature = SelectedTest.profile[n].temperature
       /\ Sample(n).oil_pressure = SelectedTest.profile[n].oil_pressure

(* At every sample its result is the verdict of the samples so far.        *)
VerdictSoFar == LastResult = VerdictAt(SelectedTest.profile, SampleCount)

BuiltInRunInv ==
  stage = "running" /\ BuiltIn =>
    MeetsProfile /\ SamplesAreProfile /\ CountersMatchReports /\ VerdictSoFar

(* A script keeps its clock and its cause of failure, and with --json      *)
(* nothing but the log line of a timeout is written before its document.   *)
ScriptRunInv ==
  stage = "running" /\ command.kind = "script" =>
    /\ ClockInv /\ ErrorHasCause
    /\ command.json => /\ pc # "done" => output = << >>
                       /\ output \in {<< >>, <<Text("timeout")>>, <<Fragment>>}

(* Every test of the suite so far passed, and was counted, exactly when    *)
(* its expectation holds and all the output went out.                      *)
SuiteRuns == stage \in {"tests", "running"} /\ command.kind = "run_all"

SuiteInv ==
  /\ SuiteRuns =>
       (passed = test_index <=>
          /\ Failures(output) = 0
          /\ \A i \in 1..test_index : ExpectationHolds(TEST_REGISTRY[i]))
  /\ stage = "running" /\ command.kind = "scenario" => output = << >>

(* The document of a suite under way: the header and the objects so far.   *)
OpenDocument ==
  /\ Len(output) = IF test_index = 0 THEN 1 ELSE 2 * test_index
  /\ output[1] = Header
  /\ \A i \in 2..Len(output) : IF i % 2 = 0 THEN IsObject(output[i]) ELSE output[i] = Comma
  /\ Cardinality({i \in 2..Len(output) : IsObject(output[i])}) = test_index
  /\ Cardinality({i \in 2..Len(output) : Passes(output[i])}) = passed

DocumentInv == SuiteRuns /\ command.json /\ Failures(output) = 0 => OpenDocument

-----------------------------------------------------------------------------
(* A claim of the documents that the code does not keep.                   *)

(* README: --json emits machine-readable output.                           *)
JsonOutputIsJson ==
  stage = "exited" /\ command.json /\ status = "OK" /\ Failures(output) = 0
    => Document(output)
=============================================================================
