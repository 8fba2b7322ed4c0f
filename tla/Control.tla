------------------------------ MODULE Control ------------------------------
(***************************************************************************)
(* The safety evaluation of src/src/domain/control.c: which faults a sensor *)
(* sample shows, the persistence counters that filter them, the escalation *)
(* of the engine mode and the actuator command.                            *)
(***************************************************************************)
EXTENDS Engine

CONSTANT CounterCap   \* where a fault counter saturates (1000000 in the code)

ASSUME CounterAssumption == CounterCap \in Nat \ {0}

(* ControlCalibration; the three persistence limits as one function.       *)
CalibrationRecords == [temperature_limit : Int, oil_pressure_limit : Int,
                       high_rpm_warning_threshold : Int,
                       high_temp_warning_threshold : Int,
                       persistence : [Faults -> Nat]]

DefaultCalibration ==
  [temperature_limit |-> 950, oil_pressure_limit |-> 250,
   high_rpm_warning_threshold |-> 3500, high_temp_warning_threshold |-> 850,
   persistence |-> [f \in Faults |-> IF f = "COMBINED" THEN 2 ELSE 3]]

(* What the limits and the thresholds may be.                              *)
TemperatureLimits == 1..2000
OilPressureLimits == 10..1000
WarningRevolutions == 100..10000
WarningTemperatures == -500..2000

(* calibration_valid(): ranges for the limits; a persistence of zero is    *)
(* refused, a large one is not.                                            *)
CalibrationValid(cal) ==
  /\ cal.temperature_limit \in TemperatureLimits
  /\ cal.oil_pressure_limit \in OilPressureLimits
  /\ cal.high_rpm_warning_threshold \in WarningRevolutions
  /\ cal.high_temp_warning_threshold \in WarningTemperatures
  /\ \A f \in Faults : cal.persistence[f] # 0

(* The faults one sample shows: anything with the three sensor fields.     *)
FaultActive(cal, sample, f) ==
  CASE f = "TEMP" -> sample.temperature > cal.temperature_limit
    [] f = "OIL"  -> sample.oil_pressure < cal.oil_pressure_limit
    [] f = "COMBINED" -> /\ sample.rpm >= cal.high_rpm_warning_threshold
                         /\ sample.temperature >= cal.high_temp_warning_threshold

(* Faulty variant: a healthy sample does not clear the counter.            *)
UpdateFaultCounterNoReset(active, counter) ==
  IF active /\ counter < CounterCap THEN counter + 1 ELSE counter

(* update_fault_counter(): saturating count, cleared by a healthy sample.  *)
UpdateFaultCounter(active, counter) ==
  CASE active /\ counter < CounterCap  -> counter + 1
    [] active /\ counter >= CounterCap -> counter
    [] ~active                         -> 0

UpdateFaultCounters(cal, engine) ==
  [engine EXCEPT !.fault_counters =
     [f \in Faults |-> UpdateFaultCounter(FaultActive(cal, engine, f),
                                          engine.fault_counters[f])]]

(* Only these two faults may stop the engine.                              *)
ShutdownFaults == {"TEMP", "OIL"}

(* Faulty variant: one sample too many.                                    *)
PersistentLate(cal, engine, f) == engine.fault_counters[f] > cal.persistence[f]

Persistent(cal, engine, f) == engine.fault_counters[f] >= cal.persistence[f]

EvaluationCode(cal, engine) ==
  CASE \E f \in ShutdownFaults : Persistent(cal, engine, f) -> "SHUTDOWN"
    [] /\ \A f \in ShutdownFaults : ~Persistent(cal, engine, f)
       /\ Persistent(cal, engine, "COMBINED") -> "WARNING"
    [] OTHER -> "OK"

Severe(code) == code \in {"WARNING", "SHUTDOWN"}

(* Faulty variant: a shutdown fault skips the warning.                     *)
RequestedModeDirect(mode, code) ==
  IF mode \in {"RUNNING", "WARNING"} /\ Severe(code) THEN code ELSE mode

(* Where transition_engine_mode_by_result() asks to go from a mode.        *)
RequestedMode(mode, code) ==
  CASE mode = "RUNNING" /\ Severe(code)        -> "WARNING"
    [] mode = "WARNING" /\ code = "SHUTDOWN"   -> "SHUTDOWN"
    [] OTHER                                   -> mode

(* transition_engine_mode_by_result(): at most one level per call.         *)
TransitionByResult(engine, code) ==
  LET starting == engine.mode = "INIT" /\ engine.is_running = 1
      first    == IF starting THEN TransitionMode(engine, "STARTING")
                              ELSE Outcome("OK", engine)
      second   == TransitionMode(first.engine, RequestedMode(first.engine.mode, code))
  IN  IF first.status = "OK" /\ second.status = "OK"
      THEN second
      ELSE Outcome("INTERNAL_ERROR", first.engine)

(* mode_to_result_code()                                                   *)
ResultOf(mode) == IF Severe(mode) THEN mode ELSE "OK"

(* evaluate_engine(): count, classify, escalate.  The result the caller    *)
(* sees is ResultOf the mode that was reached, not the classification.     *)
EvaluateEngine(cal, engine) ==
  LET counted == UpdateFaultCounters(cal, engine)
  IN  TransitionByResult(counted, EvaluationCode(cal, counted))

(* compute_control_output() in thousandths of a percent, clamped.          *)
FullOutput == 100000

Clamp(value, low, high) ==
  CASE value < low -> low [] value > high -> high [] OTHER -> value

ControlOutput(engine) ==
  Clamp(20000 + 10 * engine.rpm - 25 * (engine.temperature - 250)
              - 100 * (300 - engine.oil_pressure), 0, FullOutput)
=============================================================================
