---------------------------- MODULE MCTestRunner ----------------------------
(* The built-in registry as it is, the named scenarios and short scripts,  *)
(* with up to MaxWriteFailures writes that fail.                           *)
EXTENDS TestRunnerProperties

MCCommand(kind, name, json) ==
  [kind |-> kind, name |-> name, json |-> json, strict |-> FALSE]

MCNames == {"overheat", "intermittent_oil", "nonsense"}

MCCommands ==
  {MCCommand("run_all", "", j) : j \in BOOLEAN} \cup
  {MCCommand("scenario", name, j) : name \in MCNames, j \in BOOLEAN} \cup
  {[MCCommand("script", "", j) EXCEPT !.strict = s] : j \in BOOLEAN, s \in BOOLEAN}

MCFrames ==
  UNION {{TEST_REGISTRY[i].profile[n] : n \in 1..Len(TEST_REGISTRY[i].profile)} :
         i \in 1..Total}

MCScriptFrames ==
  {scenario_normal_operation[1], scenario_overheat_persistent[1]}

(* The default, and one under which built-in expectations fail.            *)
MCCalibrations ==
  {DefaultCalibration,
   [DefaultCalibration EXCEPT !.oil_pressure_limit = 300,
                              !.persistence = [f \in Faults |-> 2]]}

MCPhysics == DefaultPhysics
=============================================================================
