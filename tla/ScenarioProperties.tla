------------------------- MODULE ScenarioProperties -------------------------
(***************************************************************************)
(* What a scenario run must satisfy.  The properties speak of the reports  *)
(* a run leaves behind (tick_reports, the program's own record of every    *)
(* sample it accepted), so that counters, modes and timeouts are judged    *)
(* against the samples and not against themselves.                         *)
(***************************************************************************)
EXTENDS ScenarioRun

(* Slot 0 holds the initial state: sample n is in slot n, TLA+ index n+1.  *)
SampleCount == IF tick_reports = << >> THEN 0 ELSE Len(tick_reports) - 1
Sample(n) == tick_reports[n + 1]
Shows(n, f) == FaultActive(cal, Sample(n), f)

(* The samples from..to all show fault f.                                  *)
AllShow(from, to, f) == \A n \in 1..SampleCount : from <= n /\ n <= to => Shows(n, f)

LastTick == IF SampleCount = 0 THEN 0 ELSE Sample(SampleCount).tick
LastResult == IF SampleCount = 0 THEN "OK" ELSE Sample(SampleCount).result

Reports == [tick : Nat, rpm : Int, temperature : Int, oil_pressure : Int,
            is_running : {0, 1}, result : Results, control : 0..FullOutput, mode : Modes]

Errors == [code : {"OK", "INVALID_ARGUMENT", "PARSE_ERROR", "BUFFER_OVERFLOW", "TIMEOUT"},
           function : {"hal_init", "hal_encode_sensor_frame",
                       "hal_ingest_sensor_frame", "hal_read_sensors"},
           tick : Nat, severity : {"INFO", "WARNING", "ERROR", "FATAL"}]

Links == [rx : Seq(RawFrames(Frames)), last_sensor_tick : Nat,
          has_sensor_tick : {0, 1}, last_error : Errors]

(* The types of the run's state, with the bounds of its loop counters.     *)
RunTypeOK ==
  /\ pc \in {"begin", "next", "ingest", "read", "evaluate", "update", "done"}
  /\ cal \in Calibrations
  /\ engine \in EngineStates
  /\ link \in Links
  /\ tick_count \in Nat
  /\ tick_index \in 0..tick_count
  /\ current_tick \in Nat /\ target_tick \in Nat /\ sim_tick \in Nat
  /\ line \in RawFrames(Frames)
  /\ sensor_frame \in Frames
  /\ result \in Results
  /\ tick_reports \in Seq(Reports)
  /\ tick_report_count \in {0, tick_count + 1}
  /\ outcome \in Results \cup {"none", "ERROR"}

(* A run keeps the script it was started with.                             *)
TypeOK == RunTypeOK /\ tick_count \in TickCounts

-----------------------------------------------------------------------------
(* Safety evaluation.                                                      *)

(* c samples, and no more, show f at the end of the run.                   *)
TrailingRun(f, c) == /\ c <= SampleCount
                     /\ AllShow(SampleCount - c + 1, SampleCount, f)
                     /\ c < SampleCount => ~Shows(SampleCount - c, f)

(* update_fault_counter() counts what it is meant to: at every point of    *)
(* a run each counter is the number of latest samples showing its fault    *)
(* without interruption, over gaps of missing ticks and a timeout too.     *)
CountersMatchReports ==
  \A f \in Faults : TrailingRun(f, engine.fault_counters[f])

(* evaluate_engine() may not sleep through a fault: from the third sample  *)
(* on, a temperature or oil fault shown by one sample more than its        *)
(* persistence has stopped the engine.                                     *)
NoMissedShutdown ==
  \A f \in ShutdownFaults :
    /\ SampleCount >= 3
    /\ SampleCount > cal.persistence[f]
    /\ AllShow(SampleCount - cal.persistence[f], SampleCount, f)
    => LastResult = "SHUTDOWN"

(* evaluate_engine() may not cry wolf: a SHUTDOWN result means that a      *)
(* shutdown fault was shown by as many successive samples as its           *)
(* persistence asks, and that the sample before had already warned.        *)
NoFalseShutdown ==
  LastResult = "SHUTDOWN" =>
    \E n \in 2..SampleCount, f \in ShutdownFaults :
      /\ n >= cal.persistence[f]
      /\ AllShow(n - cal.persistence[f] + 1, n, f)
      /\ Sample(n - 1).result = "WARNING" /\ Sample(n).result = "SHUTDOWN"

(* Outside a sensor timeout the operating mode climbs one rung at a time   *)
(* and never comes back down during a run (is_legal_transition() together  *)
(* with the callers that request the changes).                             *)
Rung == [m \in Modes |-> CASE m = "INIT" -> 0 [] m = "STARTING" -> 1
                           [] m = "RUNNING" -> 2 [] m = "WARNING" -> 3
                           [] m = "SHUTDOWN" -> 4]

ModeClimbs ==
  [][engine'.mode # engine.mode =>
       \/ Rung[engine'.mode] = Rung[engine.mode] + 1
       \/ engine'.mode = "SHUTDOWN" /\ link'.last_error.code = "TIMEOUT"]_vars

(* The alarm a reader of the reports sees is that of PersistenceMonitor:   *)
(* counters, frames, gaps and modes implement windows over the samples.    *)
Monitor == INSTANCE PersistenceMonitor WITH
  persistence <- cal.persistence,
  history <- [n \in 1..SampleCount |-> {f \in Faults : Shows(n, f)}],
  alarm <- LastResult

ImplementsMonitor == Monitor!Spec

-----------------------------------------------------------------------------
(* Sensor timing and failure.                                              *)

TimedOut == pc = "done" /\ link.last_error.code = "TIMEOUT"

(* No sample is evaluated after the sensor was silent for longer than      *)
(* HAL_SENSOR_TIMEOUT_TICKS, and each one belongs to a later tick than the *)
(* sample before it.                                                       *)
SamplesAreTimely ==
  \A n \in 1..SampleCount :
    LET previous == IF n = 1 THEN 0 ELSE Sample(n - 1).tick
    IN  Sample(n).tick - previous \in 1..(SensorTimeout + 1)

(* A silent sensor ends the run in the safe state (mode, speed and running *)
(* flag), at the first tick the silence exceeds the limit, and only while  *)
(* the next frame is really still to come.                                 *)
TimeoutIsPromptAndSafe ==
  TimedOut => /\ outcome = "SHUTDOWN"
              /\ engine.mode = "SHUTDOWN" /\ engine.is_running = 0 /\ engine.rpm = 0
              /\ sim_tick = LastTick + SensorTimeout + 1
              /\ sim_tick < target_tick

(* Between two lines nothing is left in the receive ring: no sample can be *)
(* evaluated at another tick than its own.                                 *)
LinkDrained == pc \in {"next", "evaluate", "update"} => link.rx = << >>

(* The run fails only on a corrupted frame, where the HAL's last error     *)
(* says so, on arguments it refuses or on a tick it has reported but could *)
(* not print: never because the engine, the evaluation, the order of the   *)
(* ticks or the receive ring refused a call of the loop.                   *)
ErrorHasCause ==
  outcome = "ERROR" => \/ BadArguments
                       \/ ShowTicks /\ LastTick = target_tick /\ LastTick # 0
                       \/ /\ line.kind = "corrupt"
                          /\ link.last_error =
                               Error("PARSE_ERROR", "hal_read_sensors", target_tick, "ERROR")

(* A run that ends normally has published one report per line plus the     *)
(* initial one, and returns what the last of them says; an engine in       *)
(* SHUTDOWN then stands still.                                             *)
NormalEndIsConsistent ==
  outcome \in Results /\ ~TimedOut =>
    /\ tick_report_count = Len(tick_reports) /\ SampleCount = tick_count
    /\ outcome = LastResult
    /\ outcome = ResultOf(engine.mode)
    /\ outcome = "SHUTDOWN" => engine.is_running = 0 /\ engine.rpm = 0

(* Every run returns: the gap loop cannot outlast the sensor timeout.      *)
Termination == <>(pc = "done")

(* How many steps are left at most: a line takes its head, a poll for each *)
(* tick until the sensor has timed out, and four calls.  The length of the *)
(* gaps does not matter.                                                   *)
CostOf(lines) == lines * (SensorTimeout + 5)
AfterLine == 1 + CostOf(tick_count - tick_index - 1)

StepsLeft ==
  CASE pc = "begin" -> 2 + CostOf(tick_count)
    [] pc = "next" -> 1 + CostOf(tick_count - tick_index)
    [] pc = "ingest" -> AfterLine + 4 + (current_tick + SensorTimeout + 1 - sim_tick)
    [] pc = "read" -> AfterLine + 3
    [] pc = "evaluate" -> AfterLine + 2
    [] pc = "update" -> AfterLine + 1
    [] pc = "done" -> 0

(* The safety half of Termination: every step brings the return nearer.    *)
EveryStepCounts == [][StepsLeft' < StepsLeft]_vars

(* At no time are more left than a script of so many lines is worth.       *)
StepsAreBounded == StepsLeft \in 0..(2 + CostOf(tick_count))

-----------------------------------------------------------------------------
(***************************************************************************)
(* The inductive invariants behind the proofs: where the loop stands, what *)
(* the clock and the link then hold, and what the result has seen.         *)
(***************************************************************************)
Looping == pc \in {"next", "ingest", "read", "evaluate", "update"}
InLine == pc \in {"ingest", "read", "evaluate", "update"}

LoopInv ==
  /\ pc # "done" <=> outcome = "none"
  /\ pc = "begin" => /\ tick_reports = << >> /\ engine = EngineInit
                     /\ link.rx = << >> /\ result = "OK"
                     /\ tick_index = 0 /\ current_tick = 0
  /\ line.kind \in {"sensor", "corrupt"}
  /\ InLine => tick_index < tick_count
  /\ Looping =>
       /\ ~BadArguments
       /\ Len(tick_reports) = IF pc = "update" THEN tick_index + 2 ELSE tick_index + 1
       /\ engine.mode \in IF tick_index = 0 THEN {"STARTING"}
                          ELSE {"RUNNING", "WARNING", "SHUTDOWN"}
       /\ LastResult = ResultOf(engine.mode) /\ result = LastResult
       /\ link.rx = IF pc = "read" THEN <<line>> ELSE << >>
  /\ pc = "evaluate" => /\ engine.rpm = sensor_frame.rpm
                        /\ engine.temperature = sensor_frame.temperature
                        /\ engine.oil_pressure = sensor_frame.oil_pressure

ClockInv ==
  /\ pc = "begin" => link = AfterEncode(FreshLink)
  /\ Looping =>
       /\ pc # "update" => current_tick = LastTick
       /\ pc \in {"evaluate", "update"} => link.last_sensor_tick = target_tick
                                           /\ link.has_sensor_tick = 1
       /\ pc \in {"next", "ingest", "read"} =>
            /\ link.last_sensor_tick = LastTick
            /\ link.has_sensor_tick = IF tick_index = 0 THEN 0 ELSE 1
       /\ pc = "update" => LastTick = target_tick
  /\ InLine =>
       /\ current_tick < sim_tick /\ sim_tick <= target_tick
       /\ sim_tick <= current_tick + SensorTimeout + 1
       /\ pc # "ingest" => sim_tick = target_tick
  /\ pc # "done" => link.last_error.code # "TIMEOUT"

(* A persisted fault has been noticed: nothing is OK after it.             *)
NoticedInv ==
  \A f \in ShutdownFaults :
    /\ SampleCount >= 2
    /\ engine.fault_counters[f] >= cal.persistence[f]
    => LastResult # "OK"

(* One sample later it has stopped the engine.                             *)
StoppedInv ==
  \A f \in ShutdownFaults :
    /\ SampleCount >= 3
    /\ engine.fault_counters[f] > cal.persistence[f]
    => LastResult = "SHUTDOWN"

-----------------------------------------------------------------------------
(* Claims of the documents that the code does not keep.                    *)

(* docs/safety_case.md SF-001 and SF-002: a fault shown on as many         *)
(* consecutive ticks as its persistence makes the engine SHUTDOWN.         *)
ShutdownAtPersistence ==
  \A f \in ShutdownFaults :
    /\ SampleCount >= 2
    /\ SampleCount >= cal.persistence[f]
    /\ AllShow(SampleCount - cal.persistence[f] + 1, SampleCount, f)
    => LastResult = "SHUTDOWN"

(* docs/safety_case.md SF-001: the persistence counts consecutive ticks.   *)
ShutdownCountsConsecutiveTicks ==
  LastResult = "SHUTDOWN" =>
    \E n \in 1..SampleCount, f \in ShutdownFaults :
      /\ n >= cal.persistence[f]
      /\ AllShow(n - cal.persistence[f] + 1, n, f)
      /\ Sample(n).tick - Sample(n - cal.persistence[f] + 1).tick = cal.persistence[f] - 1

(* README: reporting appends JSON for every executed tick.                 *)
ExecutedTicksAreReported ==
  outcome \in Results => tick_report_count = Len(tick_reports)

(* docs/fmea.md FM-007: a corrupted frame is rejected, and the sensor      *)
(* times out if the corruption persists; one frame does not end a run.     *)
CorruptFrameIsSurvived == outcome = "ERROR" => BadArguments
=============================================================================
