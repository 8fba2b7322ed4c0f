----------------------------- MODULE MCFrontEnd -----------------------------
(* Command lines of up to MaxCliArgs arguments over a small vocabulary,    *)
(* configuration files with every fault and every kind of bad field, and   *)
(* every script of up to MaxLines lines over one line of each kind.        *)
EXTENDS FrontEndProperties

MCArguments ==
  {"--version", "--run-all", "--scenario", "--script", "--json", "--strict",
   "--config", "--log-level", "DEBUG", "WARN", "", "a.json", "long path"}
MCLongArguments == {"long path"}
MCLongPaths == {"long path"}
MCLongMessagePaths == {"a.json"}

Pair(key, text) == [key |-> key, value |-> text]
File(fault, pairs) == [fault |-> fault, entries |-> pairs]

MCLimits == <<Pair("temperature_limit", 900), Pair("oil_pressure_limit", 200)>>
MCWhole == MCLimits \o <<Pair("persistence_ticks", 2)>>
MCOverride(text) == MCWhole \o <<Pair("combined_warning_persistence_ticks", text)>>
MCSection(key, text) == <<Pair("physics", NotANumber), Pair(key, text)>>

MCConfigFiles ==
  {File(fault, MCOverride(5)) : fault \in FileFaults} \cup
  {File("none", pairs) : pairs \in
     { << >>,
       MCLimits,                                              \* incomplete
       MCLimits \o <<Pair("persistence_ticks", 0)>>,
       MCWhole \o <<Pair("temperature_limit", 5000)>>,        \* the first counts
       <<Pair("temperature_limit", NotFinite)>> \o MCWhole,
       <<Pair("temperature_limit", NotANumber)>> \o MCWhole,
       MCWhole \o <<Pair(UnknownKey, 1)>>,
       MCOverride(0),                                         \* passed over
       MCSection("target_rpm", 3000) \o MCSection("oil_decay_rate", 2),
       MCSection("target_rpm", -1),
       MCSection("rpm_ramp_rate", NotFinite),
       MCSection("physics", 1) } }

MCLineTexts ==
  LET sensor(t, rpm, run) == [form |-> "sensor", tick |-> t, rpm |-> rpm,
                              temperature |-> -4996, oil_pressure |-> 3004,
                              is_running |-> run]
  IN  {[form |-> f] : f \in {"blank", "comment", "overlong", "other"}} \cup
      {sensor(1, 30005, 1), sensor(2, 0, 0), sensor(3, 100000, 1),
       sensor(2, 100001, 1), sensor(2, NotFinite, 1), sensor(6, 0, 1)} \cup
      {[form |-> "corrupt", tick |-> t] : t \in {2, 3, NotANumber}}
=============================================================================
