--------------------------- MODULE ScenarioProofs ---------------------------
(***************************************************************************)
(* Proofs about a scenario run, for every set of frames, calibration,      *)
(* script length, gap and counter limit that the assumptions allow; first  *)
(* the facts about the operators of Engine and Control: what a mode change, *)
(* an update and an evaluation of the engine return, preserve and bound.   *)
(***************************************************************************)
EXTENDS ScenarioProperties, TLAPS

(***************************************************************************)
(* The plant.                                                              *)
(***************************************************************************)

(* A mode change touches nothing but the mode.                             *)
LEMMA TransitionModeFacts ==
  ASSUME NEW e \in EngineStates, NEW target \in Modes
  PROVE  LET t == TransitionMode(e, target)
         IN  /\ t.engine \in EngineStates
             /\ t.engine.fault_counters = e.fault_counters
             /\ LegalTransition(e.mode, target)
                  => /\ t.status = "OK"
                     /\ t.engine = [e EXCEPT !.mode = target]
                     /\ t.engine.mode = target
             /\ ~LegalTransition(e.mode, target)
                  => t.status = "INVALID_ARGUMENT" /\ t.engine = e
BY DEF TransitionMode, Outcome, EngineStates

(* An engine with other plant values is an engine in the same mode, with   *)
(* the same fault counters.                                                *)
WithPlant(e, run, rpm, temperature, oil) ==
  [e EXCEPT !.is_running = run, !.rpm = rpm,
            !.temperature = temperature, !.oil_pressure = oil]

LEMMA WithPlantFacts ==
  ASSUME NEW e \in EngineStates, NEW run \in {0, 1}, NEW rpm \in Int,
         NEW temperature \in Int, NEW oil \in Int
  PROVE  LET u == WithPlant(e, run, rpm, temperature, oil)
         IN  /\ u \in EngineStates
             /\ u.fault_counters = e.fault_counters /\ u.mode = e.mode
             /\ u.is_running = run /\ u.rpm = rpm
             /\ u.temperature = temperature /\ u.oil_pressure = oil
<1> DEFINE a == [e EXCEPT !.is_running = run]
           b == [a EXCEPT !.rpm = rpm]
           c == [b EXCEPT !.temperature = temperature]
           d == [c EXCEPT !.oil_pressure = oil]
<1>1. /\ a \in EngineStates
      /\ a.fault_counters = e.fault_counters /\ a.mode = e.mode /\ a.is_running = run
  BY DEF EngineStates
<1>2. WithPlant(e, run, rpm, temperature, oil) = d
  BY DEF WithPlant
<1> HIDE DEF a
<1>3. /\ b \in EngineStates
      /\ b.fault_counters = a.fault_counters /\ b.mode = a.mode
      /\ b.is_running = a.is_running /\ b.rpm = rpm
  BY <1>1 DEF EngineStates
<1> HIDE DEF b
<1>4. /\ c \in EngineStates
      /\ c.fault_counters = b.fault_counters /\ c.mode = b.mode
      /\ c.is_running = b.is_running /\ c.rpm = b.rpm /\ c.temperature = temperature
  BY <1>3 DEF EngineStates
<1> HIDE DEF c
<1>5. /\ d \in EngineStates
      /\ d.fault_counters = c.fault_counters /\ d.mode = c.mode
      /\ d.is_running = c.is_running /\ d.rpm = c.rpm
      /\ d.temperature = c.temperature /\ d.oil_pressure = oil
  BY <1>4 DEF EngineStates
<1> HIDE DEF d
<1>6. QED
  BY <1>1, <1>2, <1>3, <1>4, <1>5

LEMMA StoppedFacts ==
  ASSUME NEW e \in EngineStates
  PROVE  /\ Stopped(e) \in EngineStates
         /\ Stopped(e).fault_counters = e.fault_counters
         /\ Stopped(e).mode = e.mode
         /\ Stopped(e).is_running = 0 /\ Stopped(e).rpm = 0
<1>1. /\ e.temperature \in Int /\ e.oil_pressure \in Int
      /\ Stopped(e) = WithPlant(e, 0, 0, e.temperature, e.oil_pressure)
  BY DEF Stopped, WithPlant, EngineStates
<1>2. QED
  BY <1>1, WithPlantFacts

LEMMA EngineInitFacts ==
  /\ EngineInit \in EngineStates
  /\ EngineInit.mode = "INIT"
  /\ \A f \in Faults : EngineInit.fault_counters[f] = 0
BY DEF EngineInit, EngineStates, Modes

(* engine_start() succeeds on a fresh engine.                              *)
LEMMA EngineStartFacts ==
  ASSUME NEW e \in EngineStates, e.mode = "INIT"
  PROVE  /\ EngineStart(e).status = "OK"
         /\ EngineStart(e).engine \in EngineStates
         /\ EngineStart(e).engine.fault_counters = e.fault_counters
         /\ EngineStart(e).engine.mode = "STARTING"
BY TransitionModeFacts
   DEF EngineStart, TransitionMode, Outcome, LegalTransition, LegalSteps, EngineStates, Modes

LEMMA RampFacts ==
  ASSUME NEW e \in EngineStates, NEW p \in PhysicsConfigs
  PROVE  /\ Ramp(e, p) \in EngineStates
         /\ Ramp(e, p).fault_counters = e.fault_counters
         /\ Ramp(e, p).mode = e.mode
<1> DEFINE rpm == RampUp(e.rpm, p.target_rpm, p.rpm_ramp_rate)
           temperature == RampUp(e.temperature, p.target_temperature, p.temp_ramp_rate)
           oil == RampDown(e.oil_pressure, p.target_oil_pressure, p.oil_decay_rate)
<1>1. rpm \in Int /\ temperature \in Int /\ oil \in Int /\ e.is_running \in {0, 1}
  BY DEF RampUp, RampDown, EngineStates, PhysicsConfigs
<1>2. Ramp(e, p) = WithPlant(e, e.is_running, rpm, temperature, oil)
  BY DEF Ramp, WithPlant, EngineStates
<1> HIDE DEF rpm, temperature, oil
<1>3. QED
  BY <1>1, <1>2, WithPlantFacts

(* engine_update() never fails; it leaves STARTING for RUNNING and changes *)
(* no other mode; in SHUTDOWN it stops the engine.                         *)
LEMMA EngineUpdateFacts ==
  ASSUME NEW e \in EngineStates, NEW p \in PhysicsConfigs
  PROVE  LET u == EngineUpdate(e, p)
         IN  /\ u.status = "OK"
             /\ u.engine \in EngineStates
             /\ u.engine.fault_counters = e.fault_counters
             /\ u.engine.mode = IF e.mode = "STARTING" THEN "RUNNING" ELSE e.mode
             /\ e.mode = "SHUTDOWN" => u.engine.is_running = 0 /\ u.engine.rpm = 0
<1> DEFINE warmed == IF e.mode = "STARTING" THEN TransitionMode(e, "RUNNING")
                                            ELSE Outcome("OK", e)
<1>1. /\ warmed.status = "OK"
      /\ warmed.engine \in EngineStates
      /\ warmed.engine.fault_counters = e.fault_counters
      /\ warmed.engine.mode = IF e.mode = "STARTING" THEN "RUNNING" ELSE e.mode
  <2>1. CASE e.mode = "STARTING"
    <3>1. LegalTransition(e.mode, "RUNNING") /\ "RUNNING" \in Modes
      BY <2>1 DEF LegalTransition, LegalSteps, Modes
    <3>2. QED
      BY <2>1, <3>1, TransitionModeFacts
  <2>2. CASE e.mode # "STARTING"
    BY <2>2 DEF Outcome
  <2>3. QED
    BY <2>1, <2>2
<1>2. CASE warmed.engine.mode = "SHUTDOWN"
  <2>1. EngineUpdate(e, p) = Outcome("OK", Stopped(warmed.engine))
    BY <1>1, <1>2 DEF EngineUpdate
  <2> HIDE DEF warmed
  <2>2. QED
    BY <1>1, <1>2, <2>1, StoppedFacts DEF Outcome
<1>3. CASE warmed.engine.mode # "SHUTDOWN" /\ warmed.engine.is_running = 0
  BY <1>1, <1>3 DEF EngineUpdate, Outcome
<1>4. CASE warmed.engine.mode # "SHUTDOWN" /\ warmed.engine.is_running # 0
  BY <1>1, <1>4, RampFacts DEF EngineUpdate, Outcome
<1>5. QED
  BY <1>2, <1>3, <1>4

(***************************************************************************)
(* The evaluation.                                                         *)
(***************************************************************************)

LEMMA UpdateFaultCountersFacts ==
  ASSUME NEW calibration \in CalibrationRecords, NEW e \in EngineStates
  PROVE  LET u == UpdateFaultCounters(calibration, e)
         IN  /\ u \in EngineStates
             /\ u.mode = e.mode
             /\ u.is_running = e.is_running
             /\ \A f \in Faults : u.fault_counters[f] =
                  IF FaultActive(calibration, e, f)
                  THEN IF e.fault_counters[f] < CounterCap THEN e.fault_counters[f] + 1
                                                           ELSE e.fault_counters[f]
                  ELSE 0
<1> DEFINE counters == [f \in Faults |->
                          UpdateFaultCounter(FaultActive(calibration, e, f), e.fault_counters[f])]
<1>1. /\ counters \in [Faults -> Nat]
      /\ \A f \in Faults : counters[f] =
            IF FaultActive(calibration, e, f)
            THEN IF e.fault_counters[f] < CounterCap THEN e.fault_counters[f] + 1
                                                     ELSE e.fault_counters[f]
            ELSE 0
  BY CounterAssumption DEF UpdateFaultCounter, EngineStates
<1>2. UpdateFaultCounters(calibration, e) = [e EXCEPT !.fault_counters = counters]
  BY DEF UpdateFaultCounters
<1> HIDE DEF counters
<1>3. QED
  BY <1>1, <1>2 DEF EngineStates

(* evaluate_engine() never fails on an engine that has started: it counts, *)
(* and moves to the mode RequestedMode names.                              *)
LEMMA EvaluateEngineFacts ==
  ASSUME NEW calibration \in CalibrationRecords, NEW e \in EngineStates, e.mode # "INIT"
  PROVE  LET u == EvaluateEngine(calibration, e)
             counted == UpdateFaultCounters(calibration, e)
         IN  /\ u.status = "OK"
             /\ u.engine \in EngineStates
             /\ u.engine.fault_counters = counted.fault_counters
             /\ u.engine.mode = RequestedMode(e.mode, EvaluationCode(calibration, counted))
<1> DEFINE counted == UpdateFaultCounters(calibration, e)
           code == EvaluationCode(calibration, counted)
<1>1. /\ counted \in EngineStates
      /\ counted.mode = e.mode
      /\ counted.is_running = e.is_running
  BY UpdateFaultCountersFacts
<1>2. EvaluateEngine(calibration, e) = TransitionByResult(counted, code)
  BY DEF EvaluateEngine
<1>3. code \in {"OK", "WARNING", "SHUTDOWN"}
  BY DEF EvaluationCode
<1> HIDE DEF counted, code
<1>4. RequestedMode(e.mode, code) \in Modes /\ LegalTransition(e.mode, RequestedMode(e.mode, code))
  BY <1>1, <1>3 DEF RequestedMode, Severe, LegalTransition, LegalSteps, Modes, EngineStates
<1>5. TransitionByResult(counted, code) =
        TransitionMode(counted, RequestedMode(e.mode, code))
  BY <1>1, <1>4 DEF TransitionByResult, TransitionMode, Outcome
<1>6. LET u == EvaluateEngine(calibration, e)
      IN  /\ u.status = "OK"
          /\ u.engine \in EngineStates
          /\ u.engine.fault_counters = counted.fault_counters
          /\ u.engine.mode = RequestedMode(e.mode, code)
  <2> DEFINE target == RequestedMode(e.mode, code)
  <2>1. target \in Modes /\ LegalTransition(counted.mode, target)
    BY <1>1, <1>4
  <2>2. EvaluateEngine(calibration, e) = TransitionMode(counted, target)
    BY <1>2, <1>5
  <2> HIDE DEF target
  <2>3. /\ TransitionMode(counted, target).status = "OK"
        /\ TransitionMode(counted, target).engine \in EngineStates
        /\ TransitionMode(counted, target).engine.fault_counters = counted.fault_counters
        /\ TransitionMode(counted, target).engine.mode = target
    BY <1>1, <2>1, TransitionModeFacts
  <2>4. QED
    BY <2>2, <2>3 DEF target
<1>7. QED
  BY <1>6 DEF counted, code

LEMMA ControlOutputBounds ==
  ASSUME NEW e \in EngineStates
  PROVE  ControlOutput(e) \in 0..FullOutput
<1>1. /\ e.rpm \in Int /\ e.temperature \in Int /\ e.oil_pressure \in Int
  BY DEF EngineStates
<1> DEFINE raw == 20000 + 10 * e.rpm - 25 * (e.temperature - 250)
                        - 100 * (300 - e.oil_pressure)
<1>2. raw \in Int /\ ControlOutput(e) = Clamp(raw, 0, FullOutput)
  BY <1>1 DEF ControlOutput
<1>3. FullOutput \in Nat
  BY DEF FullOutput
<1> HIDE DEF raw
<1>4. QED
  BY <1>2, <1>3 DEF Clamp

-----------------------------------------------------------------------------
(***************************************************************************)
(* The sensor path.                                                        *)
(***************************************************************************)

LEMMA FrameFacts ==
  ASSUME NEW f \in Frames
  PROVE  /\ f.rpm \in Int /\ f.temperature \in Int /\ f.oil_pressure \in Int
         /\ f.is_running \in {0, 1}
<1>1. /\ HAL_MAX_RPM \in Int /\ HAL_MIN_TEMP \in Int
      /\ HAL_MAX_TEMP \in Int /\ HAL_MAX_OIL \in Int
  BY DEF HAL_MAX_RPM, HAL_MIN_TEMP, HAL_MAX_TEMP, HAL_MAX_OIL
<1>2. QED
  BY <1>1, RunAssumption DEF SensorFrames

LEMMA NoFrameFacts == NoFrame \in Frames
BY RunAssumption DEF NoFrame

LEMMA CalibrationFacts ==
  ASSUME NEW c \in Calibrations
  PROVE  /\ c \in CalibrationRecords
         /\ c.persistence \in [Faults -> Nat \ {0}]
BY RunAssumption DEF CalibrationRecords, CalibrationValid

LEMMA ApplySensorsFacts ==
  ASSUME NEW e \in EngineStates, NEW f \in Frames
  PROVE  LET a == ApplySensors(f, e)
         IN  /\ a \in EngineStates
             /\ a.fault_counters = e.fault_counters /\ a.mode = e.mode
             /\ a.rpm = f.rpm /\ a.temperature = f.temperature
             /\ a.oil_pressure = f.oil_pressure
<1>1. ApplySensors(f, e) = WithPlant(e, f.is_running, f.rpm, f.temperature, f.oil_pressure)
  BY DEF ApplySensors, WithPlant
<1>2. QED
  BY <1>1, FrameFacts, WithPlantFacts

LEMMA ErrorFacts ==
  ASSUME NEW code \in {"OK", "INVALID_ARGUMENT", "PARSE_ERROR", "BUFFER_OVERFLOW", "TIMEOUT"},
         NEW function \in {"hal_init", "hal_ingest_sensor_frame", "hal_read_sensors"},
         NEW tick \in Nat, NEW severity \in {"INFO", "WARNING", "ERROR", "FATAL"}
  PROVE  Error(code, function, tick, severity) \in Errors
BY DEF Error, Errors

LEMMA FreshLinkFacts ==
  /\ AfterEncode(FreshLink) \in Links
  /\ AfterEncode(FreshLink).rx = << >>
  /\ AfterEncode(FreshLink).last_sensor_tick = 0
  /\ AfterEncode(FreshLink).has_sensor_tick = 0
  /\ AfterEncode(FreshLink).last_error.code = "OK"
<1> DEFINE error == Error("OK", "hal_encode_sensor_frame", 0, "INFO")
<1>1. error \in Errors /\ error.code = "OK"
  BY DEF Error, Errors
<1>2. << >> \in Seq(RawFrames(Frames))
  OBVIOUS
<1>3. AfterEncode(FreshLink) = [rx |-> << >>, last_sensor_tick |-> 0,
                                has_sensor_tick |-> 0, last_error |-> error]
  BY DEF AfterEncode, FreshLink
<1> HIDE DEF error
<1>4. QED
  BY <1>1, <1>2, <1>3 DEF Links

(* A frame of a kind the sensor path knows fits into an empty ring.        *)
LEMMA IngestFacts ==
  ASSUME NEW l \in Links, NEW raw \in RawFrames(Frames), NEW tick \in Nat,
         l.rx = << >>, raw.kind \in {"sensor", "corrupt"}
  PROVE  LET a == AfterIngest(l, raw, tick)
         IN  /\ IngestStatus(l, raw) = "OK"
             /\ a \in Links
             /\ a.rx = <<raw>>
             /\ a.last_sensor_tick = l.last_sensor_tick
             /\ a.has_sensor_tick = l.has_sensor_tick
<1>1. IngestStatus(l, raw) = "OK"
  BY LinkAssumption DEF IngestStatus, Supported
<1> DEFINE error == Error("OK", "hal_ingest_sensor_frame", tick, "INFO")
           a == [l EXCEPT !.rx = Append(@, raw)]
<1>2. error \in Errors
  BY ErrorFacts
<1>3. AfterIngest(l, raw, tick) = [a EXCEPT !.last_error = error]
  BY <1>1 DEF AfterIngest
<1> HIDE DEF error
<1>4. /\ Append(l.rx, raw) = <<raw>>
      /\ <<raw>> \in Seq(RawFrames(Frames))
  OBVIOUS
<1>5. /\ a \in Links /\ a.rx = <<raw>>
      /\ a.last_sensor_tick = l.last_sensor_tick
      /\ a.has_sensor_tick = l.has_sensor_tick
  BY <1>4 DEF Links
<1> HIDE DEF a
<1>6. QED
  BY <1>1, <1>2, <1>3, <1>5 DEF Links

(* Polling an empty ring leaves it empty; only a silence is a timeout.     *)
LEMMA PollFacts ==
  ASSUME NEW l \in Links, NEW tick \in Nat, l.rx = << >>
  PROVE  LET a == AfterRead(l, tick)
         IN  /\ ReadStatus(l, tick) = IF Silent(l, tick) THEN "TIMEOUT" ELSE "INVALID_ARGUMENT"
             /\ a \in Links
             /\ a.rx = << >>
             /\ a.last_sensor_tick = l.last_sensor_tick
             /\ a.has_sensor_tick = l.has_sensor_tick
             /\ a.last_error.code = ReadStatus(l, tick)
<1>1. ReadStatus(l, tick) = IF Silent(l, tick) THEN "TIMEOUT" ELSE "INVALID_ARGUMENT"
  BY DEF ReadStatus
<1> DEFINE error == Error(ReadStatus(l, tick), "hal_read_sensors", tick, ReadSeverity(l, tick))
<1>2. ReadSeverity(l, tick) \in {"INFO", "WARNING", "ERROR", "FATAL"}
  BY <1>1 DEF ReadSeverity
<1>3. error \in Errors /\ error.code = ReadStatus(l, tick)
  <2>1. error \in Errors
    BY <1>1, <1>2, ErrorFacts
  <2>2. QED
    BY <2>1 DEF Error
<1>4. AfterRead(l, tick) = [rx |-> << >>, last_sensor_tick |-> l.last_sensor_tick,
                            has_sensor_tick |-> l.has_sensor_tick, last_error |-> error]
  BY <1>1 DEF AfterRead
<1> HIDE DEF error
<1>5. QED
  BY <1>1, <1>3, <1>4 DEF Links

(* Reading the only frame of the ring empties it.                          *)
LEMMA ReadFacts ==
  ASSUME NEW l \in Links, NEW tick \in Nat, NEW raw \in RawFrames(Frames),
         l.rx = <<raw>>, raw.kind \in {"sensor", "corrupt"}
  PROVE  LET a == AfterRead(l, tick)
         IN  /\ ReadStatus(l, tick) = IF raw.kind = "sensor" THEN "OK" ELSE "PARSE_ERROR"
             /\ ReadFrame(l) = raw.data /\ raw.data \in Frames
             /\ a \in Links
             /\ a.rx = << >>
             /\ raw.kind = "sensor" => /\ a.last_sensor_tick = tick
                                       /\ a.has_sensor_tick = 1
             /\ a.last_error = IF raw.kind = "sensor"
                               THEN Error("OK", "hal_read_sensors", tick, "INFO")
                               ELSE Error("PARSE_ERROR", "hal_read_sensors", tick, "ERROR")
<1>1. /\ l.rx # << >> /\ Head(l.rx) = raw /\ Tail(l.rx) = << >>
      /\ raw.data \in Frames
  BY DEF RawFrames
<1>2. /\ ReadStatus(l, tick) = IF raw.kind = "sensor" THEN "OK" ELSE "PARSE_ERROR"
      /\ ReadFrame(l) = raw.data
  BY <1>1 DEF ReadStatus, DecodeStatus, ReadFrame
<1>3. ReadSeverity(l, tick) = IF raw.kind = "sensor" THEN "INFO" ELSE "ERROR"
  BY <1>1, <1>2 DEF ReadSeverity
<1> DEFINE error == Error(ReadStatus(l, tick), "hal_read_sensors", tick, ReadSeverity(l, tick))
<1>4. error \in Errors
  BY <1>2, <1>3, ErrorFacts
<1>5. AfterRead(l, tick) =
        [rx |-> << >>,
         last_sensor_tick |-> IF raw.kind = "sensor" THEN tick ELSE l.last_sensor_tick,
         has_sensor_tick |-> IF raw.kind = "sensor" THEN 1 ELSE l.has_sensor_tick,
         last_error |-> error]
  BY <1>1, <1>2 DEF AfterRead
<1>6. error = IF raw.kind = "sensor"
              THEN Error("OK", "hal_read_sensors", tick, "INFO")
              ELSE Error("PARSE_ERROR", "hal_read_sensors", tick, "ERROR")
  BY <1>2, <1>3
<1> HIDE DEF error
<1>7. QED
  BY <1>1, <1>2, <1>4, <1>5, <1>6 DEF Links

(***************************************************************************)
(* Type correctness and the shape of the loop.                             *)
(***************************************************************************)

(* A further report: what the reports say of earlier samples stays.        *)
LEMMA AppendReportFacts ==
  ASSUME NEW reports \in Seq(Reports), NEW r \in Reports
  PROVE  /\ Append(reports, r) \in Seq(Reports)
         /\ Len(Append(reports, r)) = Len(reports) + 1
         /\ Append(reports, r)[Len(reports) + 1] = r
         /\ \A n \in 1..Len(reports) : Append(reports, r)[n] = reports[n]
OBVIOUS

LEMMA ReportFacts ==
  ASSUME NEW tick \in Nat, NEW sample, sample \in Frames \/ sample \in EngineStates,
         NEW code \in Results, NEW control \in 0..FullOutput, NEW mode \in Modes
  PROVE  LET r == Report(tick, sample, code, control, mode)
         IN  /\ r \in Reports
             /\ r.tick = tick /\ r.result = code
             /\ r.rpm = sample.rpm /\ r.temperature = sample.temperature
             /\ r.oil_pressure = sample.oil_pressure
<1>1. /\ sample.rpm \in Int /\ sample.temperature \in Int /\ sample.oil_pressure \in Int
      /\ sample.is_running \in {0, 1}
  BY FrameFacts DEF EngineStates
<1>2. QED
  BY <1>1 DEF Report, Reports

LEMMA ResultOfFacts ==
  ASSUME NEW mode \in Modes
  PROVE  ResultOf(mode) \in Results
BY DEF ResultOf, Severe, Results

Inv == RunTypeOK /\ LoopInv

LEMMA InitInv == Init => Inv
<1> SUFFICES ASSUME Init PROVE Inv
  OBVIOUS
<1>1. RunTypeOK
  <2>1. line \in RawFrames(Frames)
    BY NoFrameFacts DEF Init, NoLine, RawFrames, FrameKinds
  <2>2. tick_count \in Nat
    BY RunAssumption DEF Init
  <2>3. QED
    BY <2>1, <2>2, NoFrameFacts, FreshLinkFacts, EngineInitFacts
       DEF Init, RunTypeOK, Results
<1>2. LoopInv
  BY FreshLinkFacts DEF Init, LoopInv, Looping, InLine, NoLine
<1>3. QED
  BY <1>1, <1>2 DEF Inv

LEMMA BeginInv == Inv /\ Begin => Inv'
<1> SUFFICES ASSUME Inv, Begin PROVE Inv'
  OBVIOUS
<1> DEFINE r == Report(0, engine, "OK", 0, engine.mode)
<1>1. /\ engine \in EngineStates /\ engine.mode = "INIT"
      /\ tick_count \in Nat /\ tick_index = 0
  BY RunAssumption, EngineInitFacts DEF Inv, RunTypeOK, LoopInv, Begin
<1>2. r \in Reports
  <2>1. 0 \in 0..FullOutput
    BY DEF FullOutput
  <2>2. engine.mode \in Modes /\ "OK" \in Results
    BY <1>1 DEF EngineStates, Results
  <2>3. QED
    BY <1>1, <2>1, <2>2, ReportFacts
<1> HIDE DEF r
<1>3. /\ tick_reports' = <<r>> /\ tick_reports' \in Seq(Reports) /\ Len(tick_reports') = 1
  BY <1>2 DEF Begin, r
<1>4. /\ engine' \in EngineStates /\ engine'.mode = "STARTING"
      /\ pc' = "next" /\ outcome' = outcome
      /\ UNCHANGED <<cal, link, clock, line, sensor_frame, result, tick_report_count>>
  BY <1>1, EngineStartFacts DEF Begin, Continue
<1>5. RunTypeOK'
  BY <1>3, <1>4 DEF Inv, RunTypeOK, clock
<1>6. LoopInv'
  <2>1. /\ tick_count # 0 /\ ~BadArguments /\ pc = "begin"
    BY DEF Begin, BadArguments
  <2>2. LastResult' = "OK" /\ ResultOf("STARTING") = "OK" /\ result = "OK"
    BY <1>3, <2>1 DEF LastResult, SampleCount, ResultOf, Severe, Inv, LoopInv
  <2>3. link.rx = << >> /\ outcome = "none"
    BY <2>1 DEF Inv, LoopInv
  <2>4. QED
    BY <1>1, <1>3, <1>4, <2>1, <2>2, <2>3
       DEF Inv, LoopInv, Looping, InLine, clock, BadArguments
<1>7. QED
  BY <1>5, <1>6 DEF Inv

LEMMA RefuseInv == Inv /\ (RefuseArguments \/ PrintFails) => Inv'
<1> SUFFICES ASSUME Inv, RefuseArguments \/ PrintFails PROVE Inv'
  OBVIOUS
<1>1. RunTypeOK'
  BY DEF Inv, RunTypeOK, RefuseArguments, PrintFails, Return, clock, reporting
<1>2. LoopInv'
  BY DEF Inv, LoopInv, RefuseArguments, PrintFails, Return, Looping, InLine, clock, reporting
<1>3. QED
  BY <1>1, <1>2 DEF Inv

LEMMA NextLineInv ==
  ASSUME Inv, NEW gap \in Gaps, NEW raw \in Lines, NextLine(gap, raw)
  PROVE  Inv'
<1>1. /\ raw \in RawFrames(Frames) /\ raw.kind \in {"sensor", "corrupt"}
      /\ gap \in Nat \ {0}
  BY RunAssumption DEF Lines, RawFrames, FrameKinds
<1>0. current_tick \in Nat /\ pc' = "ingest" /\ outcome' = outcome
  <2>1. current_tick \in Nat /\ target_tick' = current_tick + gap
    BY DEF Inv, RunTypeOK, NextLine
  <2>2. ~(target_tick' <= current_tick)
    BY <1>1, <2>1
  <2>3. QED
    BY <2>1, <2>2 DEF NextLine, Continue
<1>2. RunTypeOK'
  BY <1>0, <1>1 DEF Inv, RunTypeOK, NextLine, reporting
<1>3. LoopInv'
  <2>1. /\ pc = "next" /\ pc' = "ingest" /\ tick_index < tick_count
        /\ UNCHANGED <<cal, engine, link, tick_count, tick_index, current_tick,
                       sensor_frame, result, reporting, outcome>>
        /\ line' = raw
    BY <1>0 DEF NextLine
  <2>2. LastResult' = LastResult /\ BadArguments' = BadArguments
    BY <2>1 DEF LastResult, SampleCount, Sample, BadArguments, reporting
  <2>3. QED
    BY <1>1, <2>1, <2>2 DEF Inv, LoopInv, Looping, InLine, reporting
<1>4. QED
  BY <1>2, <1>3 DEF Inv

LEMMA PollGapInv == Inv /\ PollGap => Inv'
<1> SUFFICES ASSUME Inv, PollGap PROVE Inv'
  OBVIOUS
<1>1. /\ link \in Links /\ link.rx = << >> /\ sim_tick \in Nat /\ target_tick \in Nat
      /\ pc = "ingest" /\ link' = AfterRead(link, sim_tick)
      /\ engine \in EngineStates
  BY DEF Inv, RunTypeOK, LoopInv, Looping, PollGap
<1>2. link' \in Links /\ link'.rx = << >>
  BY <1>1, PollFacts
<1>3. SafeState \in EngineStates
  <2>1. "SHUTDOWN" \in Modes
    BY DEF Modes
  <2>2. QED
    BY <1>1, <2>1, TransitionModeFacts, StoppedFacts DEF SafeState
<1>4. /\ UNCHANGED <<cal, tick_count, tick_index, current_tick, target_tick, line,
                     sensor_frame, result, reporting>>
      /\ \/ /\ engine' = SafeState /\ sim_tick' = sim_tick
            /\ pc' = "done" /\ outcome' = "SHUTDOWN"
         \/ /\ engine' = engine /\ sim_tick' = sim_tick + 1
            /\ pc' = "ingest" /\ outcome' = outcome
  BY DEF PollGap, Return, Continue
<1>5. RunTypeOK'
  BY <1>1, <1>2, <1>3, <1>4 DEF Inv, RunTypeOK, reporting, Results
<1>6. LastResult' = LastResult /\ BadArguments' = BadArguments
  BY <1>4 DEF LastResult, SampleCount, Sample, BadArguments, reporting
<1>7. LoopInv'
  BY <1>1, <1>2, <1>4, <1>6 DEF Inv, LoopInv, Looping, InLine, reporting
<1>8. QED
  BY <1>5, <1>7 DEF Inv

LEMMA IngestInv == Inv /\ Ingest => Inv'
<1> SUFFICES ASSUME Inv, Ingest PROVE Inv'
  OBVIOUS
<1>1. /\ link \in Links /\ link.rx = << >> /\ target_tick \in Nat
      /\ line \in RawFrames(Frames) /\ line.kind \in {"sensor", "corrupt"}
      /\ pc = "ingest" /\ link' = AfterIngest(link, line, target_tick)
  BY DEF Inv, RunTypeOK, LoopInv, Looping, Ingest
<1>2. /\ IngestStatus(link, line) = "OK"
      /\ link' \in Links /\ link'.rx = <<line>>
  BY <1>1, IngestFacts
<1>3. /\ pc' = "read" /\ outcome' = outcome
      /\ UNCHANGED <<cal, engine, clock, line, sensor_frame, result, reporting>>
  BY <1>2 DEF Ingest, Continue
<1>4. RunTypeOK'
  BY <1>2, <1>3 DEF Inv, RunTypeOK, clock, reporting
<1>5. LastResult' = LastResult /\ BadArguments' = BadArguments
  BY <1>3 DEF LastResult, SampleCount, Sample, BadArguments, clock, reporting
<1>6. LoopInv'
  BY <1>1, <1>2, <1>3, <1>5 DEF Inv, LoopInv, Looping, InLine, clock, reporting
<1>7. QED
  BY <1>4, <1>6 DEF Inv

(* A read returns the line's own sample or fails: it never times out.      *)
LEMMA ReadStep ==
  ASSUME Inv, Read
  PROVE  /\ pc = "read"
         /\ link' \in Links /\ link'.rx = << >>
         /\ UNCHANGED <<cal, clock, line, result, reporting>>
         /\ \/ /\ line.kind = "sensor" /\ line.data \in Frames
               /\ sensor_frame' = line.data
               /\ engine' = ApplySensors(line.data, engine)
               /\ link'.last_sensor_tick = target_tick /\ link'.has_sensor_tick = 1
               /\ link'.last_error = Error("OK", "hal_read_sensors", target_tick, "INFO")
               /\ pc' = "evaluate" /\ outcome' = outcome
            \/ /\ line.kind = "corrupt"
               /\ UNCHANGED <<engine, sensor_frame>>
               /\ link'.last_error = Error("PARSE_ERROR", "hal_read_sensors", target_tick, "ERROR")
               /\ pc' = "done" /\ outcome' = "ERROR"
<1>1. /\ link \in Links /\ link.rx = <<line>> /\ target_tick \in Nat
      /\ line \in RawFrames(Frames) /\ line.kind \in {"sensor", "corrupt"}
      /\ pc = "read" /\ link' = AfterRead(link, target_tick)
      /\ UNCHANGED <<cal, clock, line, result, reporting>>
  BY DEF Inv, RunTypeOK, LoopInv, Looping, Read
<1>2. /\ ReadStatus(link, target_tick) = IF line.kind = "sensor" THEN "OK" ELSE "PARSE_ERROR"
      /\ ReadFrame(link) = line.data /\ line.data \in Frames
      /\ link' \in Links /\ link'.rx = << >>
      /\ line.kind = "sensor" => /\ link'.last_sensor_tick = target_tick
                                 /\ link'.has_sensor_tick = 1
      /\ link'.last_error = IF line.kind = "sensor"
                            THEN Error("OK", "hal_read_sensors", target_tick, "INFO")
                            ELSE Error("PARSE_ERROR", "hal_read_sensors", target_tick, "ERROR")
  BY <1>1, ReadFacts
<1>3. CASE line.kind = "sensor"
  BY <1>1, <1>2, <1>3 DEF Read, Continue
<1>4. CASE line.kind = "corrupt"
  BY <1>1, <1>2, <1>4 DEF Read, Return
<1>5. QED
  BY <1>1, <1>3, <1>4

LEMMA ReadInv == Inv /\ Read => Inv'
<1> SUFFICES ASSUME Inv, Read PROVE Inv'
  OBVIOUS
<1>1. engine \in EngineStates
  BY DEF Inv, RunTypeOK
<1>2. engine' \in EngineStates /\ engine'.mode = engine.mode /\ sensor_frame' \in Frames
  BY <1>1, ReadStep, ApplySensorsFacts DEF Inv, RunTypeOK
<1>3. RunTypeOK'
  BY <1>2, ReadStep DEF Inv, RunTypeOK, clock, reporting
<1>4. LastResult' = LastResult /\ BadArguments' = BadArguments
  BY ReadStep DEF LastResult, SampleCount, Sample, BadArguments, clock, reporting
<1>5. pc' = "evaluate" => /\ engine'.rpm = sensor_frame'.rpm
                          /\ engine'.temperature = sensor_frame'.temperature
                          /\ engine'.oil_pressure = sensor_frame'.oil_pressure
  BY <1>1, ReadStep, ApplySensorsFacts
<1>6. LoopInv'
  BY <1>2, <1>4, <1>5, ReadStep DEF Inv, LoopInv, Looping, InLine, clock, reporting
<1>7. QED
  BY <1>3, <1>6 DEF Inv

(* An evaluation always succeeds; it adds one report, whose result is that *)
(* of the mode it reached, and no older report changes.                    *)
LEMMA EvaluateStep ==
  ASSUME Inv, Evaluate
  PROVE  /\ pc = "evaluate" /\ pc' = "update" /\ outcome' = outcome
         /\ engine' = EvaluateEngine(cal, engine).engine
         /\ engine' \in EngineStates
         /\ engine'.mode = RequestedMode(engine.mode,
                             EvaluationCode(cal, UpdateFaultCounters(cal, engine)))
         /\ engine'.fault_counters = UpdateFaultCounters(cal, engine).fault_counters
         /\ result' = ResultOf(engine'.mode) /\ result' \in Results
         /\ UNCHANGED <<cal, link, clock, line, sensor_frame, tick_report_count>>
         /\ tick_reports' \in Seq(Reports)
         /\ Len(tick_reports) >= 1
         /\ Len(tick_reports') = Len(tick_reports) + 1
         /\ \A n \in 1..Len(tick_reports) : tick_reports'[n] = tick_reports[n]
         /\ tick_reports'[Len(tick_reports) + 1].result = result'
         /\ tick_reports'[Len(tick_reports) + 1].tick = target_tick
         /\ \A f \in Faults : FaultActive(cal, tick_reports'[Len(tick_reports) + 1], f)
                             <=> FaultActive(cal, engine, f)
<1>1. /\ pc = "evaluate" /\ engine \in EngineStates /\ engine.mode # "INIT"
      /\ cal \in CalibrationRecords /\ target_tick \in Nat
      /\ sensor_frame \in Frames /\ tick_reports \in Seq(Reports)
      /\ Len(tick_reports) >= 1 /\ tick_index \in Nat
  <2>1. pc = "evaluate" /\ tick_count \in Nat
    BY RunAssumption DEF Evaluate, Inv, RunTypeOK
  <2>2. QED
    BY <2>1, CalibrationFacts DEF Inv, RunTypeOK, LoopInv, Looping
<1> DEFINE evaluated == EvaluateEngine(cal, engine)
           code == ResultOf(evaluated.engine.mode)
           r == Report(target_tick, sensor_frame, code, ControlOutput(evaluated.engine),
                       evaluated.engine.mode)
<1>2. /\ evaluated.status = "OK"
      /\ evaluated.engine \in EngineStates
      /\ evaluated.engine.mode = RequestedMode(engine.mode,
                                  EvaluationCode(cal, UpdateFaultCounters(cal, engine)))
      /\ evaluated.engine.fault_counters = UpdateFaultCounters(cal, engine).fault_counters
  BY <1>1, EvaluateEngineFacts
<1>3. /\ engine' = evaluated.engine /\ result' = code
      /\ tick_reports' = Append(tick_reports, r)
      /\ pc' = "update" /\ outcome' = outcome
      /\ UNCHANGED <<cal, link, clock, line, sensor_frame, tick_report_count>>
  BY <1>2 DEF Evaluate, Continue
<1> HIDE DEF evaluated
<1>4. evaluated.engine.mode \in Modes /\ code \in Results
  BY <1>2, ResultOfFacts DEF EngineStates
<1>5. /\ r \in Reports /\ r.result = code /\ r.tick = target_tick
      /\ r.rpm = sensor_frame.rpm /\ r.temperature = sensor_frame.temperature
      /\ r.oil_pressure = sensor_frame.oil_pressure
  BY <1>1, <1>2, <1>4, ReportFacts, ControlOutputBounds
<1> HIDE DEF r
<1>6. /\ tick_reports' \in Seq(Reports)
      /\ Len(tick_reports') = Len(tick_reports) + 1
      /\ tick_reports'[Len(tick_reports) + 1] = r
      /\ \A n \in 1..Len(tick_reports) : tick_reports'[n] = tick_reports[n]
  BY <1>1, <1>3, <1>5, AppendReportFacts
<1>7. \A f \in Faults : FaultActive(cal, r, f) <=> FaultActive(cal, engine, f)
  BY <1>1, <1>5 DEF FaultActive, Inv, LoopInv
<1>8. QED
  BY <1>1, <1>2, <1>3, <1>4, <1>5, <1>6, <1>7 DEF evaluated

LEMMA EvaluateInv == Inv /\ Evaluate => Inv'
<1> SUFFICES ASSUME Inv, Evaluate PROVE Inv'
  OBVIOUS
<1>1. RunTypeOK'
  BY EvaluateStep DEF Inv, RunTypeOK, clock
<1>2. LastResult' = result' /\ BadArguments' = BadArguments
  BY EvaluateStep DEF LastResult, SampleCount, Sample, BadArguments, clock
<1>3. engine.mode \in IF tick_index = 0 THEN {"STARTING"} ELSE {"RUNNING", "WARNING", "SHUTDOWN"}
  BY EvaluateStep DEF Inv, LoopInv, Looping
<1>4. engine'.mode \in IF tick_index = 0 THEN {"STARTING"} ELSE {"RUNNING", "WARNING", "SHUTDOWN"}
  BY <1>3, EvaluateStep DEF RequestedMode
<1>5. /\ pc = "evaluate" /\ pc' = "update" /\ outcome' = outcome
      /\ Len(tick_reports) = tick_index + 1 /\ tick_index < tick_count
      /\ link.rx = << >> /\ ~BadArguments /\ outcome = "none"
      /\ line.kind \in {"sensor", "corrupt"}
  BY EvaluateStep DEF Inv, LoopInv, Looping, InLine
<1>6. tick_index \in Nat
  BY RunAssumption DEF Inv, RunTypeOK
<1>7. Len(tick_reports') = tick_index + 2
  BY <1>5, <1>6, EvaluateStep
<1>8. result' = ResultOf(engine'.mode) /\ UNCHANGED <<link, clock, line>>
  BY EvaluateStep
<1>9. LoopInv'
  BY <1>2, <1>4, <1>5, <1>7, <1>8 DEF LoopInv, Looping, InLine, clock
<1>10. QED
  BY <1>1, <1>9 DEF Inv

LEMMA UpdateStep ==
  ASSUME Inv, Update
  PROVE  /\ pc = "update" /\ pc' = "next" /\ outcome' = outcome
         /\ engine \in EngineStates /\ engine' \in EngineStates
         /\ engine'.fault_counters = engine.fault_counters
         /\ engine'.mode = IF engine.mode = "STARTING" THEN "RUNNING" ELSE engine.mode
         /\ engine.mode = "SHUTDOWN" => engine'.is_running = 0 /\ engine'.rpm = 0
         /\ current_tick' = target_tick /\ tick_index' = tick_index + 1
         /\ UNCHANGED <<cal, link, tick_count, target_tick, sim_tick, line, sensor_frame,
                        result, reporting>>
<1>1. engine \in EngineStates /\ Physics \in PhysicsConfigs
  BY RunAssumption DEF Inv, RunTypeOK
<1>2. QED
  BY <1>1, EngineUpdateFacts DEF Update, Continue

LEMMA UpdateInv == Inv /\ Update => Inv'
<1> SUFFICES ASSUME Inv, Update PROVE Inv'
  OBVIOUS
<1>1. tick_count \in Nat /\ tick_index \in 0..tick_count /\ tick_index < tick_count
  BY UpdateStep, RunAssumption DEF Inv, RunTypeOK, LoopInv, InLine
<1>2. RunTypeOK'
  BY <1>1, UpdateStep DEF Inv, RunTypeOK, reporting
<1>3. LastResult' = LastResult /\ BadArguments' = BadArguments
  BY UpdateStep DEF LastResult, SampleCount, Sample, BadArguments, reporting
<1>4. /\ engine'.mode \in {"RUNNING", "WARNING", "SHUTDOWN"}
      /\ ResultOf(engine'.mode) = ResultOf(engine.mode)
  BY UpdateStep DEF Inv, LoopInv, Looping, ResultOf, Severe
<1>5. LoopInv'
  BY <1>1, <1>3, <1>4, UpdateStep DEF Inv, LoopInv, Looping, InLine, reporting
<1>6. QED
  BY <1>2, <1>5 DEF Inv

LEMMA FinishInv == Inv /\ Finish => Inv'
<1> SUFFICES ASSUME Inv, Finish PROVE Inv'
  OBVIOUS
<1>1. RunTypeOK'
  BY DEF Inv, RunTypeOK, Finish, Return, clock
<1>2. LoopInv'
  BY DEF Inv, RunTypeOK, LoopInv, Finish, Return, Looping, InLine, clock, Results
<1>3. QED
  BY <1>1, <1>2 DEF Inv

LEMMA StutterInv == Inv /\ UNCHANGED vars => Inv'
<1> SUFFICES ASSUME Inv, UNCHANGED vars PROVE Inv'
  OBVIOUS
<1>1. RunTypeOK'
  BY DEF Inv, RunTypeOK, vars, clock, reporting
<1>2. LastResult' = LastResult /\ BadArguments' = BadArguments
  BY DEF LastResult, SampleCount, Sample, BadArguments, vars, clock, reporting
<1>3. LoopInv'
  BY <1>2 DEF Inv, LoopInv, Looping, InLine, vars, clock, reporting
<1>4. QED
  BY <1>1, <1>3 DEF Inv

LEMMA LoopInductive == Inv /\ [Next]_vars => Inv'
BY RefuseInv, BeginInv, NextLineInv, PollGapInv, IngestInv, ReadInv, EvaluateInv,
   UpdateInv, FinishInv, StutterInv
   DEF Next, Step

(* Type correctness of a run, with the shape of its loop: what pc, the     *)
(* line counter, the reports and the engine mode say of each other.        *)
THEOREM LoopCorrect == Spec => []Inv
BY InitInv, LoopInductive, PTL DEF Spec

(* Every variable of a run keeps its type (TypeOK of the timing run), and  *)
(* the run keeps the script it was started with.                           *)
THEOREM TypeCorrect == Spec => []TypeOK
<1> DEFINE KeepsScript == tick_count \in TickCounts
<1>1. Init => KeepsScript
  BY DEF Init
<1>2. KeepsScript /\ [Next]_vars => KeepsScript'
  <2>1. [Next]_vars => tick_count' = tick_count
    BY DEF Next, Step, RefuseArguments, Begin, PollGap, Ingest, Read, Evaluate,
           PrintFails, Update, Finish, NextLine, vars, clock
  <2>2. QED
    BY <2>1
<1>3. Inv /\ KeepsScript => TypeOK
  BY DEF Inv, TypeOK
<1> HIDE DEF KeepsScript
<1>4. QED
  BY LoopCorrect, <1>1, <1>2, <1>3, PTL DEF Spec

(* The receive ring is empty between two lines (LinkDrained of the timing  *)
(* run): hal_read_sensors() never hands out the frame of an earlier tick.  *)
THEOREM LinkIsDrained == Spec => []LinkDrained
<1>1. Inv => LinkDrained
  BY DEF Inv, LoopInv, Looping, LinkDrained
<1>2. QED
  BY LoopCorrect, <1>1, PTL
=============================================================================
