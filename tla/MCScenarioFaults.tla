-------------------------- MODULE MCScenarioFaults --------------------------
(* Fault persistence: every sequence of healthy and faulty samples, one a  *)
(* tick, under two calibrations.                                           *)
EXTENDS ScenarioProperties

MCFrame(rpm, temperature, oil, run) ==
  [rpm |-> rpm, temperature |-> temperature, oil_pressure |-> oil, is_running |-> run]

(* On and just beyond every threshold of the default calibration.          *)
MCFrames == {MCFrame(3499, 950, 250, 1),    \* healthy, on the limits
             MCFrame(3500, 850, 250, 1),    \* combined fault only
             MCFrame(800, 951, 300, 0),     \* too hot, reported as stopped
             MCFrame(2000, 800, 249, 1)}    \* oil too low

MCCalibrations ==
  {DefaultCalibration,
   [DefaultCalibration EXCEPT !.persistence = [f \in Faults |-> IF f = "OIL" THEN 2 ELSE 1]]}

MCPhysics == DefaultPhysics
=============================================================================
