---------------------------- MODULE ScenarioRun ----------------------------
(***************************************************************************)
(* One run of a scenario: execute_profile_frames_internal() of             *)
(* src/src/scenario/scenario_profiles.c, which drives the HAL sensor path, *)
(* the safety evaluation and the engine plant tick by tick.                *)
(*                                                                         *)
(* Each action is one call the loop makes with everything the loop does    *)
(* with its status; pc says which call comes next.  The script is revealed *)
(* line by line: NextLine picks the tick and the frame of the next line    *)
(* among all those the script parser lets through.                         *)
(***************************************************************************)
EXTENDS Control, SensorLink

CONSTANTS
  Frames,          \* samples a script may contain
  Calibrations,    \* calibrations a run may be configured with
  Physics,         \* the plant's ramp configuration
  MaxProfileTicks, \* SCRIPT_PARSER_MAX_TICKS, lines a script may have
  TickCounts,      \* lengths of script considered
  ReportCapacity,  \* slots of the caller's tick_reports array
  Gaps,            \* distances in ticks between two lines of a script
  LineKinds,       \* what a script line may inject: "sensor", "corrupt"
  ShowTicks        \* --show-sim, --show-control or --show-state was given

ASSUME RunAssumption ==
  /\ Frames # {} /\ Frames \subseteq SensorFrames
  /\ Calibrations \subseteq {cal \in CalibrationRecords : CalibrationValid(cal)}
  /\ Physics \in PhysicsConfigs
  /\ MaxProfileTicks \in Nat \ {0}
  /\ MaxProfileTicks <= CounterCap   \* 64 lines cannot saturate a counter
  /\ TickCounts \subseteq Nat
  /\ ReportCapacity \in Nat
  /\ Gaps \subseteq Nat \ {0}
  /\ LineKinds \subseteq {"sensor", "corrupt"}
  /\ ShowTicks \in BOOLEAN

VARIABLES
  pc,                 \* the loop's next call
  cal,                \* g_calibration, fixed before the run starts
  engine,             \* the EngineState under test
  link,               \* the HAL's sensor path
  tick_count,         \* lines in the script
  tick_index,         \* line being processed, from 0
  current_tick,       \* tick of the last processed line
  target_tick,        \* tick of the line being processed
  sim_tick,           \* tick reached by the gap loop
  line,               \* raw frame of the line being processed
  sensor_frame,       \* what hal_read_sensors() handed out last
  result,             \* result code of the last evaluation
  tick_reports,       \* the slots of tick_reports[] written so far
  tick_report_count,  \* the caller's *tick_report_count
  outcome             \* value returned, "none" while executing

clock == <<tick_count, tick_index, current_tick, target_tick, sim_tick>>
reporting == <<tick_reports, tick_report_count>>
vars == <<pc, cal, engine, link, clock, line, sensor_frame, result, reporting, outcome>>

Results == {"OK", "WARNING", "SHUTDOWN"}
NoFrame == CHOOSE f \in Frames : TRUE
NoLine == [kind |-> "sensor", data |-> NoFrame]

(* TickReport: a slot repeats the sample, then what became of it.          *)
Report(tick, sample, code, control, mode) ==
  [tick |-> tick, rpm |-> sample.rpm, temperature |-> sample.temperature,
   oil_pressure |-> sample.oil_pressure, is_running |-> sample.is_running,
   result |-> code, control |-> control, mode |-> mode]

Init ==
  /\ pc = "begin"
  /\ cal \in Calibrations
  /\ engine = EngineInit
  /\ link = AfterEncode(FreshLink)
  /\ tick_count \in TickCounts
  /\ tick_index = 0 /\ current_tick = 0 /\ target_tick = 0 /\ sim_tick = 0
  /\ line = NoLine /\ sensor_frame = NoFrame
  /\ result = "OK"
  /\ tick_reports = << >> /\ tick_report_count = 0
  /\ outcome = "none"

Return(code) == pc' = "done" /\ outcome' = code
Continue(label) == pc' = label /\ UNCHANGED outcome

BadArguments == \/ tick_count = 0
                \/ tick_count > MaxProfileTicks
                \/ ReportCapacity < tick_count + 1

(* Argument checks, the report of the initial state, engine_start().       *)
RefuseArguments ==
  /\ pc = "begin" /\ BadArguments
  /\ Return("ERROR")
  /\ UNCHANGED <<cal, engine, link, clock, line, sensor_frame, result, reporting>>

Begin ==
  /\ pc = "begin" /\ ~BadArguments
  /\ tick_reports' = <<Report(0, engine, "OK", 0, engine.mode)>>
  /\ engine' = EngineStart(engine).engine
  /\ IF EngineStart(engine).status = "OK" THEN Continue("next") ELSE Return("ERROR")
  /\ UNCHANGED <<cal, link, clock, line, sensor_frame, result, tick_report_count>>

(* Faulty variant: the gap loop polls the previous line's tick once more.  *)
NextLineFromLastTick(gap, raw) ==
  /\ pc = "next" /\ tick_index < tick_count
  /\ raw.kind = "corrupt" => tick_index > 0
  /\ target_tick' = current_tick + gap
  /\ sim_tick' = current_tick
  /\ line' = raw
  /\ IF target_tick' <= current_tick THEN Return("ERROR") ELSE Continue("ingest")
  /\ UNCHANGED <<cal, engine, link, tick_count, tick_index, current_tick,
                 sensor_frame, result, reporting>>

(* The head of the for loop with a further line to process.  The parser    *)
(* refuses a script that corrupts a frame before it ever sent one.         *)
NextLine(gap, raw) ==
  /\ pc = "next" /\ tick_index < tick_count
  /\ raw.kind = "corrupt" => tick_index > 0
  /\ target_tick' = current_tick + gap
  /\ sim_tick' = current_tick + 1
  /\ line' = raw
  /\ IF target_tick' <= current_tick THEN Return("ERROR") ELSE Continue("ingest")
  /\ UNCHANGED <<cal, engine, link, tick_count, tick_index, current_tick,
                 sensor_frame, result, reporting>>

(* Faulty variant: the mode changes, the plant runs on.                    *)
SafeStateModeOnly == TransitionMode(engine, "SHUTDOWN").engine

(* The reaction to a sensor timeout, wherever it is noticed.  The status   *)
(* of the mode change is ignored.                                          *)
SafeState == Stopped(TransitionMode(engine, "SHUTDOWN").engine)

(* Faulty variant: the gap loop polls the same tick for ever.              *)
PollGapStuck ==
  /\ pc = "ingest" /\ sim_tick < target_tick
  /\ link' = AfterRead(link, sim_tick)
  /\ IF ReadStatus(link, sim_tick) = "TIMEOUT"
     THEN engine' = SafeState /\ Return("SHUTDOWN")
     ELSE UNCHANGED engine /\ Continue("ingest")
  /\ UNCHANGED <<cal, clock, line, sensor_frame, result, reporting>>

(* The gap loop: a tick without a line still polls the sensor.             *)
PollGap ==
  /\ pc = "ingest" /\ sim_tick < target_tick
  /\ link' = AfterRead(link, sim_tick)
  /\ IF ReadStatus(link, sim_tick) = "TIMEOUT"
     THEN engine' = SafeState /\ UNCHANGED sim_tick /\ Return("SHUTDOWN")
     ELSE UNCHANGED engine /\ sim_tick' = sim_tick + 1 /\ Continue("ingest")
  /\ UNCHANGED <<cal, tick_count, tick_index, current_tick, target_tick, line,
                 sensor_frame, result, reporting>>

Ingest ==
  /\ pc = "ingest" /\ sim_tick >= target_tick
  /\ link' = AfterIngest(link, line, target_tick)
  /\ IF IngestStatus(link, line) = "OK" THEN Continue("read") ELSE Return("ERROR")
  /\ UNCHANGED <<cal, engine, clock, line, sensor_frame, result, reporting>>

(* hal_read_sensors() at the line's own tick, then hal_apply_sensors().    *)
Read ==
  LET status == ReadStatus(link, target_tick) IN
  /\ pc = "read"
  /\ link' = AfterRead(link, target_tick)
  /\ CASE status = "OK" ->
            /\ sensor_frame' = ReadFrame(link)
            /\ engine' = ApplySensors(ReadFrame(link), engine)
            /\ Continue("evaluate")
       [] status = "TIMEOUT" ->
            engine' = SafeState /\ UNCHANGED sensor_frame /\ Return("SHUTDOWN")
       [] status \notin {"OK", "TIMEOUT"} ->
            UNCHANGED <<engine, sensor_frame>> /\ Return("ERROR")
  /\ UNCHANGED <<cal, clock, line, result, reporting>>

(* evaluate_engine(), then the line's slot of tick_reports.                *)
Evaluate ==
  LET evaluated == EvaluateEngine(cal, engine)
      code == ResultOf(evaluated.engine.mode)
  IN
  /\ pc = "evaluate"
  /\ engine' = evaluated.engine
  /\ IF evaluated.status = "OK"
     THEN /\ result' = code
          /\ tick_reports' = Append(tick_reports,
                Report(target_tick, sensor_frame, code,
                       ControlOutput(evaluated.engine), evaluated.engine.mode))
          /\ Continue("update")
     ELSE UNCHANGED <<result, tick_reports>> /\ Return("ERROR")
  /\ UNCHANGED <<cal, link, clock, line, sensor_frame, tick_report_count>>

(* scenario_report_print_tick_details() fails to write the tick's lines.   *)
PrintFails ==
  /\ pc = "update" /\ ShowTicks
  /\ Return("ERROR")
  /\ UNCHANGED <<cal, engine, link, clock, line, sensor_frame, result, reporting>>

(* engine_update() and the end of the loop body.                           *)
Update ==
  LET updated == EngineUpdate(engine, Physics) IN
  /\ pc = "update"
  /\ engine' = updated.engine
  /\ IF updated.status = "OK"
     THEN /\ current_tick' = target_tick
          /\ tick_index' = tick_index + 1
          /\ Continue("next")
     ELSE UNCHANGED <<current_tick, tick_index>> /\ Return("ERROR")
  /\ UNCHANGED <<cal, link, tick_count, target_tick, sim_tick, line, sensor_frame,
                 result, reporting>>

(* Faulty variant: the report of the initial state is not counted.         *)
FinishOffByOne ==
  /\ pc = "next" /\ tick_index >= tick_count
  /\ tick_report_count' = tick_count
  /\ Return(result)
  /\ UNCHANGED <<cal, engine, link, clock, line, sensor_frame, result, tick_reports>>

(* The loop is over: publish the reports and return the last result.       *)
Finish ==
  /\ pc = "next" /\ tick_index >= tick_count
  /\ tick_report_count' = tick_count + 1
  /\ Return(result)
  /\ UNCHANGED <<cal, engine, link, clock, line, sensor_frame, result, tick_reports>>

Lines == [kind : LineKinds, data : Frames]

(* What the loop does by itself, once the line to process is known.        *)
Step == \/ RefuseArguments
        \/ Begin
        \/ PollGap
        \/ Ingest
        \/ Read
        \/ Evaluate
        \/ PrintFails
        \/ Update
        \/ Finish

Next == Step \/ \E gap \in Gaps, raw \in Lines : NextLine(gap, raw)

Spec == Init /\ [][Next]_vars

(* The program is one thread that runs until it returns.                   *)
FairSpec == Spec /\ WF_vars(Next)
=============================================================================
