------------------------------- MODULE Catalog -------------------------------
(***************************************************************************)
(* The built-in scenarios of src/src/scenario/scenario_profiles.c and the  *)
(* registry of src/src/scenario/scenario_catalog.c: the sensor samples of  *)
(* each scenario, one a tick from tick 1, and the result it must reach.    *)
(*                                                                         *)
(* Samples are in the units of the sensor frames (RPM, tenths of a degree, *)
(* hundredths of a bar), which represent every value of the C tables.      *)
(***************************************************************************)
EXTENDS Integers, Sequences

(* execute_profile() with run_values == NULL: the engine always runs.      *)
Profile(rpm_values, temp_values, oil_values) ==
  [n \in 1..Len(rpm_values) |->
     [rpm |-> rpm_values[n], temperature |-> temp_values[n],
      oil_pressure |-> oil_values[n], is_running |-> 1]]

Constantly(value, n) == [i \in 1..n |-> value]

scenario_normal_operation ==
  Profile(<<2200, 2600, 3000, 3200>>, <<760, 800, 830, 845>>, <<320, 310, 300, 290>>)

scenario_overheat_short_duration ==
  Profile(Constantly(2400, 4), <<960, 970, 900, 890>>, Constantly(310, 4))

scenario_overheat_persistent ==
  Profile(Constantly(2500, 4), <<960, 970, 980, 990>>, Constantly(300, 4))

scenario_oil_pressure_persistent ==
  Profile(Constantly(2600, 4), Constantly(820, 4), <<240, 230, 220, 210>>)

scenario_combined_warning_persistent ==
  Profile(<<3600, 3600, 3300>>, <<860, 870, 800>>, Constantly(300, 3))

scenario_cold_start_warmup_and_ramp ==
  Profile(<<800, 1100, 1400, 1700, 2000, 2200, 2400, 2600, 2800, 3000, 3100, 3200, 3300,
            3400, 3400, 3400, 3400, 3300, 3100, 2900, 2700, 2400, 2100, 1700, 1300>>,
          <<440, 490, 540, 585, 620, 655, 680, 705, 730, 750, 770, 785, 800,
            810, 820, 825, 820, 810, 800, 785, 770, 745, 710, 675, 630>>,
          <<380, 370, 370, 360, 350, 340, 340, 330, 320, 320, 310, 310, 300,
            300, 300, 300, 300, 300, 300, 310, 310, 320, 330, 340, 350>>)

scenario_high_load_warning_then_recovery ==
  Profile(<<2000, 2400, 2700, 3000, 3200, 3400, 3500, 3600, 3700, 3500, 3300, 3100, 2900,
            2700, 2500, 2300, 2100, 2000>>,
          <<700, 730, 755, 780, 805, 825, 850, 870, 880, 870, 860, 845, 820,
            795, 770, 745, 720, 700>>,
          <<320, 320, 310, 310, 300, 300, 300, 300, 300, 300, 300, 310, 310,
            320, 320, 320, 330, 330>>)

scenario_oil_pressure_gradual_drain ==
  Profile(<<2500, 2700, 2900, 3000, 3000, 3000, 3000, 3000, 2900, 2800, 2700, 2600, 2500,
            2500, 2500, 2500>>,
          <<740, 760, 775, 785, 795, 800, 800, 805, 800, 795, 790, 785, 775,
            770, 765, 760>>,
          [n \in 1..16 |-> 360 - 10 * n])

scenario_thermal_runaway_with_load_surge ==
  Profile(<<2200, 2500, 2800, 3000, 3200>> \o Constantly(3400, 10),
          <<680, 710, 740, 765, 790, 815, 840, 875, 905, 930, 955, 970, 985, 990, 995>>,
          <<330, 320, 310, 310>> \o Constantly(300, 11))

scenario_intermittent_oil_then_combined_fault ==
  Profile(<<2000, 2200, 2400, 2500, 2500, 2700, 2900, 3100, 3300, 3500, 3600, 3500, 3200,
            3000, 2800, 2600>>,
          <<700, 720, 740, 760, 760, 780, 800, 820, 830, 850, 860, 870, 850,
            830, 800, 770>>,
          <<340, 330, 240, 230, 260, 280>> \o Constantly(300, 9) \o <<310>>)

(* TestCase, without its requirement id.                                   *)
TestCase(test_name, profile, expected_result) ==
  [test_name |-> test_name, profile |-> profile, expected_result |-> expected_result]

TEST_REGISTRY ==
  <<TestCase("normal_operation", scenario_normal_operation, "OK"),
    TestCase("overheat_lt_persistence", scenario_overheat_short_duration, "OK"),
    TestCase("overheat_ge_persistence", scenario_overheat_persistent, "SHUTDOWN"),
    TestCase("oil_low_ge_persistence", scenario_oil_pressure_persistent, "SHUTDOWN"),
    TestCase("combined_warning_persistence", scenario_combined_warning_persistent, "WARNING"),
    TestCase("cold_start", scenario_cold_start_warmup_and_ramp, "OK"),
    TestCase("high_load", scenario_high_load_warning_then_recovery, "WARNING"),
    TestCase("oil_drain", scenario_oil_pressure_gradual_drain, "SHUTDOWN"),
    TestCase("thermal_runaway", scenario_thermal_runaway_with_load_surge, "SHUTDOWN"),
    TestCase("intermittent_oil", scenario_intermittent_oil_then_combined_fault, "WARNING")>>

(* NAMED_SCENARIO_ALIASES: index into the registry, counted from 1.        *)
NAMED_SCENARIO_ALIASES ==
  [normal |-> 1, overheat |-> 3, pressure_failure |-> 4, cold_start |-> 6,
   high_load |-> 7, oil_drain |-> 8, thermal_runaway |-> 9, intermittent_oil |-> 10]

(* scenario_catalog_find_named(): 0 stands for the NULL it returns.        *)
FindNamed(name) == IF name \in DOMAIN NAMED_SCENARIO_ALIASES
                   THEN NAMED_SCENARIO_ALIASES[name] ELSE 0
=============================================================================
