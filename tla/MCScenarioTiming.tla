-------------------------- MODULE MCScenarioTiming --------------------------
(* Sensor timing: missing ticks before, at and past the sensor timeout,    *)
(* corrupted frames, scripts of every length the parser accepts and one    *)
(* line more.                                                              *)
EXTENDS ScenarioProperties

MCFrame(rpm, temperature, oil, run) ==
  [rpm |-> rpm, temperature |-> temperature, oil_pressure |-> oil, is_running |-> run]

MCFrames == {MCFrame(2000, 800, 300, 1),    \* healthy
             MCFrame(3600, 960, 300, 1)}    \* too hot, and the combined fault

MCCalibrations ==
  {[DefaultCalibration EXCEPT !.persistence = [f \in Faults |-> 2]]}

MCPhysics == DefaultPhysics
=============================================================================
