------------------------------- MODULE Engine -------------------------------
(***************************************************************************)
(* The engine plant of src/src/domain/engine.c: operating modes, the table *)
(* of legal mode transitions and the simulated physics of one tick.        *)
(*                                                                         *)
(* Every C function that mutates an EngineState becomes an operator from   *)
(* an engine record to an outcome [status, engine], so that the modules    *)
(* that call these functions compose them in the order the code does.      *)
(*                                                                         *)
(* Units: RPM, tenths of a degree Celsius and hundredths of a bar, the     *)
(* resolution of the CAN frames that carry the sensor values.              *)
(***************************************************************************)
EXTENDS Integers

Modes == {"INIT", "STARTING", "RUNNING", "WARNING", "SHUTDOWN"}

(* ENGINE_FAULT_TEMP, ENGINE_FAULT_OIL_PRESSURE and the combined fault.    *)
Faults == {"TEMP", "OIL", "COMBINED"}

EngineStates == [rpm : Int, temperature : Int, oil_pressure : Int,
                 is_running : {0, 1}, mode : Modes,
                 fault_counters : [Faults -> Nat]]

Outcome(status, engine) == [status |-> status, engine |-> engine]

(* Faulty variant: the step into WARNING is forgotten.                     *)
LegalStepsWithoutWarning ==
  {<<"INIT", "STARTING">>, <<"STARTING", "RUNNING">>, <<"STARTING", "SHUTDOWN">>,
   <<"RUNNING", "SHUTDOWN">>, <<"WARNING", "SHUTDOWN">>, <<"SHUTDOWN", "INIT">>}

(* The mode changes is_legal_transition() accepts besides staying put.     *)
LegalSteps == {<<"INIT", "STARTING">>,
               <<"STARTING", "RUNNING">>, <<"STARTING", "SHUTDOWN">>,
               <<"RUNNING", "WARNING">>,  <<"RUNNING", "SHUTDOWN">>,
               <<"WARNING", "SHUTDOWN">>,
               <<"SHUTDOWN", "INIT">>}

LegalTransition(from, to) == from = to \/ <<from, to>> \in LegalSteps

(* engine_transition_mode(): an illegal request changes nothing.           *)
TransitionMode(engine, target) ==
  IF LegalTransition(engine.mode, target)
  THEN Outcome("OK", [engine EXCEPT !.mode = target])
  ELSE Outcome("INVALID_ARGUMENT", engine)

(* engine_init() and engine_reset(): cold, stopped, no fault remembered.   *)
EngineInit == [rpm |-> 0, temperature |-> 250, oil_pressure |-> 300,
               is_running |-> 0, mode |-> "INIT",
               fault_counters |-> [f \in Faults |-> 0]]

(* engine_start(): only from INIT.                                         *)
EngineStart(engine) ==
  LET started == TransitionMode(engine, "STARTING")
  IN  CASE engine.mode # "INIT"   -> Outcome("INVALID_ARGUMENT", engine)
        [] started.status # "OK"  -> Outcome("INTERNAL_ERROR", engine)
        [] OTHER -> Outcome("OK", [started.engine EXCEPT !.is_running = 1])

(* The safe state: what engine_update() enforces in SHUTDOWN, and what the *)
(* scenario loop writes by hand after a sensor timeout.                    *)
Stopped(engine) == [engine EXCEPT !.is_running = 0, !.rpm = 0]

DefaultPhysics == [target_rpm |-> 3000, rpm_ramp_rate |-> 150,
                   target_temperature |-> 900, temp_ramp_rate |-> 6,
                   target_oil_pressure |-> 340, oil_decay_rate |-> 1]

PhysicsConfigs == [target_rpm : Nat, rpm_ramp_rate : Nat,
                   target_temperature : Int, temp_ramp_rate : Nat,
                   target_oil_pressure : Nat, oil_decay_rate : Nat]

RampUp(value, target, rate) ==
  IF value >= target THEN value
  ELSE IF value + rate > target THEN target ELSE value + rate

RampDown(value, target, rate) ==
  IF value <= target THEN value
  ELSE IF value - rate < target THEN target ELSE value - rate

(* One tick of physics: speed and temperature only climb to their targets, *)
(* oil pressure only decays to its own.                                    *)
Ramp(engine, physics) ==
  [engine EXCEPT
     !.rpm = RampUp(@, physics.target_rpm, physics.rpm_ramp_rate),
     !.temperature = RampUp(@, physics.target_temperature, physics.temp_ramp_rate),
     !.oil_pressure = RampDown(@, physics.target_oil_pressure, physics.oil_decay_rate)]

(* engine_update(): leave STARTING, stop in SHUTDOWN, else advance.        *)
EngineUpdate(engine, physics) ==
  LET warmed == IF engine.mode = "STARTING" THEN TransitionMode(engine, "RUNNING")
                                            ELSE Outcome("OK", engine)
  IN  CASE warmed.status # "OK" -> Outcome("INTERNAL_ERROR", engine)
        [] warmed.status = "OK" /\ warmed.engine.mode = "SHUTDOWN"
             -> Outcome("OK", Stopped(warmed.engine))
        [] warmed.status = "OK" /\ warmed.engine.mode # "SHUTDOWN"
             -> Outcome("OK", IF warmed.engine.is_running = 0 THEN warmed.engine
                              ELSE Ramp(warmed.engine, physics))
=============================================================================
