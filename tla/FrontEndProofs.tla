--------------------------- MODULE FrontEndProofs ---------------------------
(***************************************************************************)
(* The front end is proved about for any command line, any configuration   *)
(* files and any script: its settings, its options and its parser.         *)
(***************************************************************************)
EXTENDS FrontEndProperties, FiniteSetTheorems, WellFoundedInduction, TLAPS

(***************************************************************************)
(* Loading: what a file that is accepted gives.                            *)
(***************************************************************************)

LEMMA DefaultsAreValid ==
  /\ DefaultCalibration \in LooseCalibrations /\ DefaultCalibration \in CalibrationRecords
  /\ CalibrationValid(DefaultCalibration)
  /\ DefaultPhysics \in [PhysicsKeys -> Int] /\ PhysicsValid(DefaultPhysics)
<1>1. DefaultCalibration \in LooseCalibrations /\ DefaultCalibration \in CalibrationRecords
  BY DEF DefaultCalibration, LooseCalibrations, CalibrationRecords, Floats
<1>2. CalibrationValid(DefaultCalibration)
  BY DEF DefaultCalibration, CalibrationValid, TemperatureLimits, OilPressureLimits,
         WarningRevolutions, WarningTemperatures
<1>3. DefaultPhysics \in [PhysicsKeys -> Int] /\ PhysicsValid(DefaultPhysics)
  BY DEF DefaultPhysics, PhysicsKeys, PhysicsValid
<1> QED
  BY <1>1, <1>2, <1>3

LEMMA ReadCalibrationIsLoose ==
  ASSUME NEW file, CalibrationReadable(file)
  PROVE  CalibrationOf(file) \in LooseCalibrations
<1> DEFINE limit == Field(file, "temperature_limit")
           oil == Field(file, "oil_pressure_limit")
           ticks == Field(file, "persistence_ticks")
           combined == Field(file, "combined_warning_persistence_ticks")
           persistence ==
             [f \in Faults |->
                IF f = "COMBINED" /\ IsUInt(file, "combined_warning_persistence_ticks")
                THEN combined ELSE ticks]
<1>1. limit \in Floats /\ oil \in Floats /\ ticks \in Nat \ {0}
  BY NumberAssumption
     DEF CalibrationReadable, IsFloat, IsUInt, ReadsAsFloat, ReadsAsUInt, Floats
<1>2. IsUInt(file, "combined_warning_persistence_ticks") => combined \in Nat \ {0}
  BY NumberAssumption DEF IsUInt, ReadsAsUInt
<1> HIDE DEF limit, oil, ticks, combined
<1>3. persistence \in [Faults -> Nat \ {0}]
  BY <1>1, <1>2
<1>4. CalibrationOf(file) =
        [DefaultCalibration EXCEPT !.temperature_limit = limit, !.oil_pressure_limit = oil,
                                   !.persistence = persistence]
  BY DEF CalibrationOf, limit, oil, ticks, combined
<1> HIDE DEF persistence
<1> QED
  BY <1>1, <1>3, <1>4, DefaultsAreValid DEF LooseCalibrations

LEMMA ReadPhysicsIsLoose ==
  ASSUME NEW file
  PROVE  PhysicsOf(file) \in [PhysicsKeys -> Floats]
<1>1. \A k \in PhysicsKeys : DefaultPhysics[k] \in Floats
  BY DefaultsAreValid DEF Floats
<1>2. \A k \in PhysicsKeys : IsFloat(file, k) => Field(file, k) \in Floats
  BY DEF IsFloat, ReadsAsFloat, Floats
<1> QED
  BY <1>1, <1>2 DEF PhysicsOf

(* What configure and load hand out, by the result of a load.              *)
LEMMA CalibrationLoads ==
  ASSUME NEW file \in ConfigFiles, NEW out
  PROVE  LET loaded == LoadCalibration(file, out)
         IN  \/ loaded.status = "OK" /\ Usable(file) /\ loaded.value = CalibrationOf(file)
             \/ loaded.status # "OK" /\ loaded.value = out
<1>1. file.fault \in {"none", "open", "read", "size", "close"}
  BY ConfigAssumption DEF FileFaults
<1> QED
  BY <1>1 DEF LoadCalibration, Loaded, Usable

LEMMA PhysicsLoads ==
  ASSUME NEW file \in ConfigFiles, NEW out
  PROVE  LET loaded == LoadPhysics(file, out).value
         IN  \/ loaded = out \/ loaded = DefaultPhysics
             \/ /\ loaded = PhysicsOf(file)
                /\ file.fault \in {"none", "close"} /\ PhysicsReadable(file)
<1>1. file.fault \in {"none", "open", "read", "size", "close"}
  BY ConfigAssumption DEF FileFaults
<1> QED
  BY <1>1 DEF LoadPhysics, Loaded

(* What passes the setters' checks is in their tables' types.              *)
LEMMA ValidCalibrationIsTyped ==
  ASSUME NEW calibration \in LooseCalibrations, CalibrationValid(calibration)
  PROVE  calibration \in CalibrationRecords
<1> DEFINE limit == calibration.temperature_limit
           oil == calibration.oil_pressure_limit
<1>1. limit \in Int /\ oil \in Int
  <2>1. limit \in TemperatureLimits /\ oil \in OilPressureLimits
    BY Zenon DEF CalibrationValid
  <2> HIDE DEF limit, oil
  <2> QED
    BY <2>1 DEF TemperatureLimits, OilPressureLimits
<1>2. calibration.persistence \in [Faults -> Nat]
  BY DEF LooseCalibrations
<1> QED
  BY <1>1, <1>2 DEF LooseCalibrations, CalibrationRecords

LEMMA ValidPhysicsIsTyped ==
  ASSUME NEW physics \in [PhysicsKeys -> Floats], PhysicsValid(physics)
  PROVE  physics \in [PhysicsKeys -> Int]
BY DEF PhysicsValid
-----------------------------------------------------------------------------
(***************************************************************************)
(* The command line.  Nothing is said before the process exits; only the   *)
(* application is at stage "application".                                  *)
(***************************************************************************)
CommandInv ==
  /\ stage \in Stages /\ caller \in {"program", "application"}
  /\ options \in OptionRecords /\ exit_code \in {0, 1, NULL}
  /\ g_min_log_level \in LogLevels
  /\ CI => g_min_log_level # "DEBUG"
  /\ caller = "application" <=> stage = "application"
  /\ stage # "exited" => said = << >>
  /\ stage = "exited" => exit_code = 1 \/ said = <<"version">>

LEMMA LevelIsEffective ==
  ASSUME NEW level \in LogLevels
  PROVE  /\ EffectiveLevel(level) \in LogLevels
         /\ CI => EffectiveLevel(level) # "DEBUG"
BY FrontEndAssumption DEF EffectiveLevel, LogLevels

LEMMA CommandInitially == FrontEndInit => CommandInv
<1>1. NoOptions \in OptionRecords
  BY DEF NoOptions, OptionRecords, LogLevels
<1> QED
  BY <1>1 DEF FrontEndInit, CommandLineInit, CommandInv, Stages, LogLevels

LEMMA CommandIsRead ==
  ASSUME CommandInv, ReadCommandLine
  PROVE  CommandInv'
<1> USE DEF CommandInv, Stages
<1>0. caller = "program" /\ stage # "application" /\ caller' = caller
      /\ g_min_log_level' = g_min_log_level /\ stage \in Stages
  BY DEF ReadCommandLine
<1>1. CASE RefuseCount
  BY <1>0, <1>1 DEF RefuseCount, Usage, Exit, Say
<1>2. ASSUME NEW text \in Arguments, ReadCommand(text) PROVE CommandInv'
  <2>0. stage = "command" /\ said = << >> /\ options' = options
    BY <1>2 DEF ReadCommand
  <2>1. CASE Exit(0, "version")
    BY <1>0, <2>0, <2>1 DEF Exit, Say
  <2>2. CASE Usage
    BY <1>0, <2>0, <2>2 DEF Usage, Exit, Say
  <2>3. ASSUME NEW next \in {"flags", "name"}, Proceed(next) PROVE CommandInv'
    BY <1>0, <2>0, <2>3 DEF Proceed
  <2> QED
    BY <1>2, <2>1, <2>2, <2>3 DEF ReadCommand
<1>3. ASSUME NEW text \in Arguments, ReadName(text) PROVE CommandInv'
  BY <1>0, <1>3 DEF ReadName, Proceed
<1>4. ASSUME NEW text \in Arguments, ReadSwitch(text) PROVE CommandInv'
  <2>1. options' \in OptionRecords
    BY <1>4 DEF ReadSwitch, OptionRecords
  <2> QED
    BY <1>0, <1>4, <2>1 DEF ReadSwitch, Usage, Exit, Say, Proceed
<1>5. ASSUME NEW text \in Arguments, RefuseMissingValue(text) PROVE CommandInv'
  BY <1>0, <1>5 DEF RefuseMissingValue, Usage, Exit, Say
<1>6. ASSUME NEW text \in Arguments, ReadConfigPath(text) PROVE CommandInv'
  <2>1. options' \in OptionRecords
    BY <1>6 DEF ReadConfigPath, OptionRecords
  <2> QED
    BY <1>0, <1>6, <2>1 DEF ReadConfigPath, Usage, Exit, Say, Proceed
<1>7. ASSUME NEW text \in Arguments, ReadLogLevel(text) PROVE CommandInv'
  <2>1. options' \in OptionRecords
    BY <1>7 DEF ReadLogLevel, OptionRecords
  <2> QED
    BY <1>0, <1>7, <2>1 DEF ReadLogLevel, Usage, Exit, Say, Proceed
<1>8. CASE EndOfFlags
  BY <1>0, <1>8 DEF EndOfFlags, Proceed
<1> QED
  BY <1>1, <1>2, <1>3, <1>4, <1>5, <1>6, <1>7, <1>8 DEF ReadCommandLine, ReadArguments

LEMMA CommandStep ==
  ASSUME CommandInv, [FrontEndNext]_frontEndVars
  PROVE  CommandInv'
<1>1. CASE ReadCommandLine
  BY <1>1, CommandIsRead
<1> USE DEF CommandInv, Stages
<1>2. CASE ApplyOptions
  <2>1. options.log_level \in LogLevels
    BY DEF OptionRecords
  <2> QED
    BY <1>2, <2>1, LevelIsEffective DEF ApplyOptions, StartCommand, Proceed
<1>3. ASSUME NEW file \in ConfigFiles, ApplyConfig(file) PROVE CommandInv'
  <2>1. options.log_level \in LogLevels
    BY DEF OptionRecords
  <2> QED
    BY <1>3, <2>1, LevelIsEffective DEF ApplyConfig, StartCommand, Proceed
<1>4. CASE ParseScript
  BY <1>4 DEF ParseScript
<1>5. CASE Application
  BY <1>5 DEF Application, commandVars
<1>6. CASE UNCHANGED frontEndVars
  BY <1>6 DEF frontEndVars, commandVars
<1> QED
  BY <1>1, <1>2, <1>3, <1>4, <1>5, <1>6 DEF FrontEndNext
-----------------------------------------------------------------------------
(***************************************************************************)
(* The settings.                                                           *)
(***************************************************************************)
CalibrationInv ==
  /\ CalibrationTypeOK
  /\ \/ calibration_out = DefaultCalibration
     \/ \E file \in ConfigFiles :
          Usable(file) /\ calibration_out = CalibrationOf(file)

PhysicsInv ==
  /\ PhysicsTypeOK /\ g_physics \in [PhysicsKeys -> Int]
  /\ \/ physics_out = DefaultPhysics
     \/ \E file \in ConfigFiles :
          /\ file.fault \in {"none", "close"} /\ PhysicsReadable(file)
          /\ physics_out = PhysicsOf(file)

LEMMA CalibrationIsConfigured ==
  ASSUME CalibrationTypeOK, NEW calibration \in LooseCalibrations,
         ConfigureCalibration(calibration)
  PROVE  /\ CalibrationSetting!Next \/ UNCHANGED <<g_calibration, g_calibration_configured>>
         /\ g_calibration_configured' \in BOOLEAN
         /\ g_calibration' \in CalibrationRecords /\ CalibrationValid(g_calibration')
<1>1. CASE CalibrationValid(calibration) /\ ~g_calibration_configured
  BY <1>1, ValidCalibrationIsTyped
     DEF ConfigureCalibration, CalibrationSetting!Next, CalibrationSetting!Write
<1>2. CASE ~(CalibrationValid(calibration) /\ ~g_calibration_configured)
  BY <1>2 DEF ConfigureCalibration, CalibrationTypeOK
<1> QED
  BY <1>1, <1>2

LEMMA CalibrationIsLoaded ==
  ASSUME CalibrationInv, NEW file \in ConfigFiles,
         calibration_out' = LoadCalibration(file, calibration_out).value
  PROVE  /\ calibration_out' \in LooseCalibrations
         /\ \/ calibration_out' = DefaultCalibration
            \/ \E f \in ConfigFiles : Usable(f) /\ calibration_out' = CalibrationOf(f)
<1>1. CASE calibration_out' = calibration_out
  BY <1>1 DEF CalibrationInv, CalibrationTypeOK
<1>2. CASE Usable(file) /\ calibration_out' = CalibrationOf(file)
  BY <1>2, ReadCalibrationIsLoose DEF Usable
<1> QED
  BY <1>1, <1>2, CalibrationLoads

LEMMA PhysicsIsLoaded ==
  ASSUME PhysicsInv, NEW file \in ConfigFiles,
         physics_out' = LoadPhysics(file, physics_out).value
  PROVE  /\ physics_out' \in [PhysicsKeys -> Floats]
         /\ \/ physics_out' = DefaultPhysics
            \/ \E f \in ConfigFiles :
                 /\ f.fault \in {"none", "close"} /\ PhysicsReadable(f)
                 /\ physics_out' = PhysicsOf(f)
<1>0. DefaultPhysics \in [PhysicsKeys -> Floats]
  BY DefaultsAreValid DEF Floats
<1>1. CASE physics_out' = physics_out
  BY <1>1 DEF PhysicsInv, PhysicsTypeOK
<1>2. CASE physics_out' = DefaultPhysics
  BY <1>0, <1>2
<1>3. CASE /\ physics_out' = PhysicsOf(file)
           /\ file.fault \in {"none", "close"} /\ PhysicsReadable(file)
  BY <1>3, ReadPhysicsIsLoose
<1> QED
  BY <1>1, <1>2, <1>3, PhysicsLoads

LEMMA SettingsInitially == FrontEndInit => CalibrationInv /\ PhysicsInv
<1>1. DefaultPhysics \in [PhysicsKeys -> Floats]
  BY DefaultsAreValid DEF Floats
<1> QED
  BY <1>1, DefaultsAreValid
     DEF FrontEndInit, ConfigurationInit, CalibrationInv, CalibrationTypeOK, PhysicsInv,
         PhysicsTypeOK

(* A step of the front end is a step of the setting it stands for.         *)
LEMMA CalibrationStep ==
  ASSUME CalibrationInv, [FrontEndNext]_frontEndVars
  PROVE  /\ CalibrationInv'
         /\ CalibrationSetting!Next \/ UNCHANGED <<g_calibration, g_calibration_configured>>
<1> DEFINE Kept == UNCHANGED <<g_calibration, g_calibration_configured>>
<1>0. ASSUME Kept, UNCHANGED calibration_out PROVE CalibrationInv' /\ Kept
  BY <1>0 DEF CalibrationInv, CalibrationTypeOK
<1>1. CASE UNCHANGED configVars
  BY <1>0, <1>1 DEF configVars, settings
<1>2. ASSUME NEW file \in ConfigFiles, ApplyConfig(file)
      PROVE  CalibrationInv' /\ (CalibrationSetting!Next \/ Kept)
  <2> DEFINE loaded == LoadCalibration(file, calibration_out)
  <2>1. calibration_out' = loaded.value /\ loaded.value \in LooseCalibrations
    BY <1>2, CalibrationIsLoaded DEF ApplyConfig
  <2>2. UNCHANGED settings \/ ConfigureCalibration(loaded.value)
    BY <1>2 DEF ApplyConfig
  <2>3. CASE UNCHANGED settings
    BY <1>2, <2>1, <2>3, CalibrationIsLoaded
       DEF settings, CalibrationInv, CalibrationTypeOK
  <2>4. CASE ConfigureCalibration(loaded.value)
    BY <1>2, <2>1, <2>4, CalibrationIsLoaded, CalibrationIsConfigured
       DEF CalibrationInv, CalibrationTypeOK
  <2> QED
    BY <2>2, <2>3, <2>4
<1>3. ASSUME NEW file \in ConfigFiles, LoadCalibrationFile(file)
      PROVE  CalibrationInv' /\ Kept
  BY <1>3, CalibrationIsLoaded
     DEF LoadCalibrationFile, settings, CalibrationInv, CalibrationTypeOK
<1>4. ASSUME NEW file \in ConfigFiles, LoadPhysicsFile(file)
      PROVE  CalibrationInv' /\ Kept
  BY <1>0, <1>4 DEF LoadPhysicsFile, settings
<1>5. CASE ConfigureCalibration(calibration_out) /\ UNCHANGED calibration_out
  BY <1>5, CalibrationIsConfigured DEF CalibrationInv, CalibrationTypeOK
<1>6. CASE ResetCalibration
  BY <1>6, DefaultsAreValid
     DEF ResetCalibration, CalibrationSetting!Next, CalibrationSetting!Reset,
         CalibrationInv, CalibrationTypeOK
<1>7. CASE ConfigurePhysics \/ ResetPhysics
  BY <1>0, <1>7 DEF ConfigurePhysics, ResetPhysics
<1> QED
  BY <1>1, <1>2, <1>3, <1>4, <1>5, <1>6, <1>7
     DEF FrontEndNext, ReadCommandLine, ApplyOptions, ParseScript, Application,
         ApplicationStep, frontEndVars

LEMMA PhysicsStep ==
  ASSUME PhysicsInv, [FrontEndNext]_frontEndVars
  PROVE  /\ PhysicsInv'
         /\ PhysicsSetting!Next \/ UNCHANGED <<g_physics, g_physics_configured>>
<1> DEFINE Kept == UNCHANGED <<g_physics, g_physics_configured>>
<1>0. ASSUME Kept, UNCHANGED physics_out PROVE PhysicsInv' /\ Kept
  BY <1>0 DEF PhysicsInv, PhysicsTypeOK
<1>1. CASE UNCHANGED configVars
  BY <1>0, <1>1 DEF configVars, settings
<1>2. ASSUME NEW file \in ConfigFiles, ApplyConfig(file) PROVE PhysicsInv' /\ Kept
  BY <1>0, <1>2 DEF ApplyConfig, ConfigureCalibration, settings
<1>3. ASSUME NEW file \in ConfigFiles, LoadCalibrationFile(file)
      PROVE  PhysicsInv' /\ Kept
  BY <1>0, <1>3 DEF LoadCalibrationFile, settings
<1>4. ASSUME NEW file \in ConfigFiles, LoadPhysicsFile(file)
      PROVE  PhysicsInv' /\ Kept
  BY <1>4, PhysicsIsLoaded DEF LoadPhysicsFile, settings, PhysicsInv, PhysicsTypeOK
<1>5. CASE \/ ConfigureCalibration(calibration_out) /\ UNCHANGED physics_out
           \/ ResetCalibration
  BY <1>0, <1>5 DEF ConfigureCalibration, ResetCalibration
<1>6. CASE ConfigurePhysics
  <2>1. CASE ~g_physics_configured /\ PhysicsValid(physics_out)
    <3>1. physics_out \in [PhysicsKeys -> Int]
      BY <2>1, ValidPhysicsIsTyped DEF PhysicsInv, PhysicsTypeOK
    <3> QED
      BY <1>6, <2>1, <3>1
         DEF ConfigurePhysics, PhysicsSetting!Next, PhysicsSetting!Write, PhysicsInv,
             PhysicsTypeOK
  <2>2. CASE ~(~g_physics_configured /\ PhysicsValid(physics_out))
    BY <1>0, <1>6, <2>2 DEF ConfigurePhysics
  <2> QED
    BY <2>1, <2>2
<1>7. CASE ResetPhysics
  BY <1>7, DefaultsAreValid
     DEF ResetPhysics, PhysicsSetting!Next, PhysicsSetting!Reset, PhysicsInv, PhysicsTypeOK
<1> QED
  BY <1>1, <1>2, <1>3, <1>4, <1>5, <1>6, <1>7
     DEF FrontEndNext, ReadCommandLine, ApplyOptions, ParseScript, Application,
         ApplicationStep, frontEndVars
-----------------------------------------------------------------------------
(***************************************************************************)
(* The program configures nothing before its options are read, and a       *)
(* command that runs has what --config named.                              *)
(***************************************************************************)
Untouched == g_calibration = DefaultCalibration /\ ~g_calibration_configured

RunInv ==
  /\ stage \in {"command", "name", "flags", "options", "exited"} => Untouched
  /\ stage \in {"script", "handed over", "refused"} =>
       IF options.config_path = NULL
       THEN Untouched
       ELSE /\ Usable(config_file) /\ g_calibration_configured
            /\ g_calibration = CalibrationOf(config_file)

LEMMA RunStep ==
  ASSUME CommandInv, RunInv, [FrontEndNext]_frontEndVars
  PROVE  RunInv'
<1>1. CASE ReadCommandLine
  <2>1. stage' \in {"name", "flags", "options", "exited"} /\ Untouched
    <3>1. CASE RefuseCount
      BY <1>1, <3>1 DEF RefuseCount, Usage, Exit, RunInv
    <3>2. ASSUME NEW text \in Arguments, ReadCommand(text)
          PROVE  stage' \in {"name", "flags", "options", "exited"} /\ Untouched
      BY <3>2 DEF ReadCommand, Usage, Exit, Proceed, RunInv
    <3>3. ASSUME NEW text \in Arguments, ReadName(text)
          PROVE  stage' \in {"name", "flags", "options", "exited"} /\ Untouched
      BY <3>3 DEF ReadName, Proceed, RunInv
    <3>4. ASSUME NEW text \in Arguments,
                 \/ ReadSwitch(text) \/ RefuseMissingValue(text)
                 \/ ReadConfigPath(text) \/ ReadLogLevel(text)
          PROVE  stage' \in {"name", "flags", "options", "exited"} /\ Untouched
      BY <3>4 DEF ReadSwitch, RefuseMissingValue, ReadConfigPath, ReadLogLevel, Usage, Exit,
                  Proceed, RunInv
    <3>5. CASE EndOfFlags
      BY <3>5 DEF EndOfFlags, Proceed, RunInv
    <3> QED
      BY <1>1, <3>1, <3>2, <3>3, <3>4, <3>5 DEF ReadCommandLine, ReadArguments
  <2> QED
    BY <1>1, <2>1 DEF ReadCommandLine, configVars, settings, RunInv, Untouched
<1>2. CASE ApplyOptions
  BY <1>2 DEF ApplyOptions, StartCommand, Proceed, configVars, settings, RunInv, Untouched
<1>3. ASSUME NEW file \in ConfigFiles, ApplyConfig(file) PROVE RunInv'
  <2> DEFINE loaded == LoadCalibration(file, calibration_out)
  <2>0. Untouched /\ options' = options /\ options.config_path # NULL /\ config_file' = file
    BY <1>3 DEF ApplyConfig, RunInv
  <2>1. CASE /\ loaded.status = "OK" /\ ConfigureCalibration(loaded.value)
             /\ CalibrationValid(loaded.value) /\ ~g_calibration_configured /\ StartCommand
    <3>1. Usable(file) /\ loaded.value = CalibrationOf(file)
      BY <2>1, CalibrationLoads
    <3>2. g_calibration' = CalibrationOf(file) /\ g_calibration_configured' = TRUE
      BY <2>1, <3>1 DEF ConfigureCalibration
    <3>3. stage' \in {"script", "handed over"}
      BY <2>1 DEF StartCommand, Proceed
    <3> HIDE DEF loaded
    <3> QED
      BY <2>0, <3>1, <3>2, <3>3 DEF RunInv
  <2>2. CASE stage' = "exited" /\ UNCHANGED <<g_calibration, g_calibration_configured>>
    BY <2>0, <2>2 DEF RunInv, Untouched
  <2>3. ConfigureCalibration(loaded.value) =>
          \/ CalibrationValid(loaded.value) /\ ~g_calibration_configured
          \/ UNCHANGED <<g_calibration, g_calibration_configured>>
    BY DEF ConfigureCalibration
  <2> QED
    BY <1>3, <2>1, <2>2, <2>3 DEF ApplyConfig, settings
<1>4. CASE ParseScript
  <2>1. stage = "script" /\ stage' \in {"script", "handed over", "refused"}
    BY <1>4 DEF ParseScript
  <2> QED
    BY <1>4, <2>1 DEF ParseScript, configVars, settings, RunInv, Untouched
<1>5. CASE Application
  BY <1>5 DEF Application, commandVars, RunInv
<1>6. CASE UNCHANGED frontEndVars
  BY <1>6 DEF frontEndVars, commandVars, configVars, settings, RunInv, Untouched
<1> QED
  BY <1>1, <1>2, <1>3, <1>4, <1>5, <1>6 DEF FrontEndNext
-----------------------------------------------------------------------------
(***************************************************************************)
(* The parser.  What keeps a script runnable: the entries are typed, few   *)
(* enough and in order, and the last of them carries the last sample, so   *)
(* that a corrupt line repeats its predecessor.                            *)
(***************************************************************************)
Entries == [tick : 1..MaxUInt, frame : [kind : {"sensor", "corrupt"}, data : SensorFrames]]

EntriesInOrder ==
  \A i \in 1..Len(entries) :
    /\ \A j \in 1..(i - 1) : entries[j].tick < entries[i].tick
    /\ entries[i].frame.kind = "corrupt" =>
         i > 1 /\ entries[i].frame.data = entries[i - 1].frame.data

LastSampleIsLast ==
  IF entries = << >> THEN last_sensor = NoSample
  ELSE last_sensor \in Samples /\ entries[Len(entries)].frame.data = Encoded(last_sensor)

StatusInv ==
  /\ parser \in {"closed", "reading", "done"}
  /\ parser_status \in {"none", "OK", "IO_ERROR", "PARSE_ERROR"}
  /\ parser # "done" => parser_status = "none"
  /\ tick_count = IF parser_status = "OK" THEN Len(entries) ELSE 0
  /\ parser_status = "OK" => entries # << >>
  /\ message \in [what : ParserFaults, line : 0..Len(script)]

EntriesInv ==
  /\ entries \in Seq(Entries) /\ Len(entries) <= MaxScriptTicks
  /\ EntriesInOrder /\ LastSampleIsLast

ScriptInv ==
  /\ script \in Seq(LineTexts) /\ parse_warning_count \in 0..Len(script)
  /\ EntriesInv /\ StatusInv

HandOverInv == stage = "handed over" /\ command = "script" => parser_status = "OK"

LEMMA TenthsAreRounded ==
  ASSUME NEW n \in Nat, NEW tenths \in 0..(10 * n)
  PROVE  Rounded(tenths) \in 0..n
BY Z3 DEF Rounded

LEMMA OffsetIsInRange ==
  ASSUME NEW low \in Int, NEW high \in Int, NEW value \in low..high
  PROVE  value - low \in 0..(high - low)
OBVIOUS

LEMMA SamplesAreEncoded ==
  ASSUME NEW sample \in Samples
  PROVE  Encoded(sample) \in SensorFrames
<1>1. Rounded(sample.rpm) \in 0..HAL_MAX_RPM
  <2>1. HAL_MAX_RPM \in Nat /\ SCRIPT_MAX_RPM = 10 * HAL_MAX_RPM
    BY DEF HAL_MAX_RPM, SCRIPT_MAX_RPM
  <2> QED
    BY <2>1, TenthsAreRounded DEF Samples
<1>2. Rounded(sample.temperature - SCRIPT_MIN_TEMP) + HAL_MIN_TEMP
        \in HAL_MIN_TEMP..HAL_MAX_TEMP
  <2> DEFINE span == HAL_MAX_TEMP - HAL_MIN_TEMP
             above == sample.temperature - SCRIPT_MIN_TEMP
  <2>1. /\ SCRIPT_MIN_TEMP \in Int /\ SCRIPT_MAX_TEMP \in Int
        /\ HAL_MIN_TEMP \in Int /\ HAL_MAX_TEMP \in Int
        /\ span \in Nat /\ SCRIPT_MAX_TEMP - SCRIPT_MIN_TEMP = 10 * span
    BY DEF HAL_MIN_TEMP, HAL_MAX_TEMP, SCRIPT_MIN_TEMP, SCRIPT_MAX_TEMP
  <2>2. sample.temperature \in SCRIPT_MIN_TEMP..SCRIPT_MAX_TEMP
    BY DEF Samples
  <2>3. above \in 0..(10 * span)
    BY <2>1, <2>2, OffsetIsInRange
  <2>4. Rounded(above) \in 0..span
    <3> HIDE DEF span, above
    <3> QED
      BY <2>1, <2>3, TenthsAreRounded
  <2> QED
    BY <2>1, <2>4
<1>3. Rounded(sample.oil_pressure) \in 0..HAL_MAX_OIL
  <2>1. HAL_MAX_OIL \in Nat /\ SCRIPT_MAX_OIL = 10 * HAL_MAX_OIL
    BY DEF HAL_MAX_OIL, SCRIPT_MAX_OIL
  <2> QED
    BY <2>1, TenthsAreRounded DEF Samples
<1>4. sample.is_running \in {0, 1}
  BY DEF Samples
<1> QED
  BY <1>1, <1>2, <1>3, <1>4 DEF Encoded, SensorFrames

LEMMA SamplesAreNotNone == NoSample \notin Samples
<1>1. NoSample.rpm = -1
  BY DEF NoSample
<1>2. \A sample \in Samples : sample.rpm \in 0..SCRIPT_MAX_RPM
  BY DEF Samples
<1> QED
  BY <1>1, <1>2
LEMMA NothingIsWrong ==
  ASSUME EntriesInv, NEW text, NEW strict, Fault(text, strict) = "none",
         IsSensorLine(text) \/ IsCorruptLine(text)
  PROVE  /\ text.tick \in 1..MaxUInt
         /\ Len(entries) < MaxScriptTicks /\ TickIncreases(text.tick)
         /\ IsCorruptLine(text) => last_sensor # NoSample
<1>1. text.form \in {"sensor", "corrupt"} /\ text.tick \in 1..MaxUInt
  BY DEF IsSensorLine, IsCorruptLine, ReadsAsUInt
<1>2. text.form \notin {"overlong", "blank", "comment"}
  BY <1>1
<1>3. Len(entries) < MaxScriptTicks
  <2>1. Len(entries) \in Nat /\ MaxScriptTicks \in Nat
    BY ParserAssumption DEF EntriesInv
  <2>2. ~(Len(entries) >= MaxScriptTicks)
    BY <1>2 DEF Fault
  <2> QED
    BY <2>1, <2>2
<1>4. IsCorruptLine(text) => last_sensor # NoSample
  BY <1>2, <1>3 DEF Fault
<1>5. TickIncreases(text.tick)
  BY <1>1, <1>2, <1>3, <1>4 DEF Fault
<1> QED
  BY <1>1, <1>3, <1>4, <1>5

LEMMA FaultsAreNamed ==
  ASSUME NEW text, NEW strict
  PROVE  Fault(text, strict) \in ParserFaults
BY DEF Fault, ParserFaults

(* One more entry: the sample it carries becomes, or is, the last one.     *)
LEMMA EntryIsAppended ==
  ASSUME EntriesInv, Len(entries) < MaxScriptTicks,
         NEW tick \in 1..MaxUInt, NEW kind \in {"sensor", "corrupt"}, NEW sample \in Samples,
         TickIncreases(tick),
         kind = "corrupt" => last_sensor = sample,
         entries' = Append(entries, Entry(tick, kind, Encoded(sample))),
         last_sensor' = sample
  PROVE  EntriesInv'
<1> DEFINE new == Entry(tick, kind, Encoded(sample))
           n == Len(entries)
<1>1. new \in Entries /\ new.tick = tick /\ new.frame.kind = kind
      /\ new.frame.data = Encoded(sample)
  BY SamplesAreEncoded DEF Entry, Entries
<1>2. entries \in Seq(Entries) /\ n \in Nat
  BY DEF EntriesInv
<1>3. kind = "corrupt" => n > 0 /\ entries[n].frame.data = Encoded(sample)
  BY <1>2, SamplesAreNotNone DEF EntriesInv, LastSampleIsLast
<1>4. \A j \in 1..n : entries[j].tick < tick
  <2> TAKE j \in 1..n
  <2>1. entries[n].tick < tick
    BY <1>2 DEF TickIncreases
  <2>2. j = n \/ entries[j].tick < entries[n].tick
    <3>1. j = n \/ (n \in 1..n /\ j \in 1..(n - 1))
      BY <1>2
    <3> QED
      BY <3>1 DEF EntriesInv, EntriesInOrder
  <2>3. entries[j].tick \in Int /\ entries[n].tick \in Int /\ tick \in Int
    <3>1. entries[j] \in Entries /\ entries[n] \in Entries
      BY <1>2
    <3> QED
      BY <3>1, NumberAssumption DEF Entries
  <2> QED
    BY <2>1, <2>2, <2>3
<1> HIDE DEF new
<1>5. /\ entries' \in Seq(Entries) /\ Len(entries') = n + 1
      /\ \A i \in 1..n : entries'[i] = entries[i]
      /\ entries'[n + 1] = new
  BY <1>1, <1>2 DEF new
<1>6. EntriesInOrder'
  <2> SUFFICES ASSUME NEW i \in 1..(n + 1)
               PROVE  /\ \A j \in 1..(i - 1) : entries'[j].tick < entries'[i].tick
                      /\ entries'[i].frame.kind = "corrupt" =>
                           i > 1 /\ entries'[i].frame.data = entries'[i - 1].frame.data
    BY <1>5 DEF EntriesInOrder
  <2>1. CASE i \in 1..n
    BY <1>2, <1>5, <2>1 DEF EntriesInv, EntriesInOrder
  <2>2. CASE i = n + 1
    BY <1>1, <1>2, <1>3, <1>4, <1>5, <2>2
  <2> QED
    BY <1>2, <2>1, <2>2
<1>7. LastSampleIsLast'
  BY <1>1, <1>2, <1>5 DEF LastSampleIsLast
<1> QED
  BY <1>2, <1>5, <1>6, <1>7, ParserAssumption DEF EntriesInv

LEMMA ParserInitially == ParserInit => ScriptInv
BY ParserAssumption
   DEF ParserInit, ScriptInv, EntriesInv, EntriesInOrder, LastSampleIsLast, StatusInv,
       ParserFaults

LEMMA ParserIsSteady ==
  ASSUME ScriptInv, UNCHANGED parserVars
  PROVE  ScriptInv'
BY DEF parserVars, ScriptInv, EntriesInv, EntriesInOrder, LastSampleIsLast, StatusInv

LEMMA FinishIsTyped ==
  ASSUME Len(script') \in Nat, NEW status, NEW what \in ParserFaults,
         NEW line \in 0..Len(script'), Finish(status, what, line)
  PROVE  message' \in [what : ParserFaults, line : 0..Len(script')]
BY DEF Finish

LEMMA LineIsTaken ==
  ASSUME ScriptInv, NEW text \in LineTexts, Take(text)
  PROVE  /\ script' \in Seq(LineTexts) /\ Len(script') = Len(script) + 1
         /\ Len(script) \in Nat /\ Len(script') \in Nat
         /\ parser = "reading" /\ parser_status = "none" /\ tick_count = 0 /\ tick_count' = 0
BY DEF ScriptInv, StatusInv, Take

LEMMA ParserStepKeeps ==
  ASSUME ScriptInv, NEW strict, ParserStep(strict)
  PROVE  ScriptInv'
<1> DEFINE Read == UNCHANGED <<entries, last_sensor>>
<1>0. ASSUME Read PROVE EntriesInv'
  BY <1>0 DEF ScriptInv, EntriesInv, EntriesInOrder, LastSampleIsLast
<1>1. CASE OpenScript
  <2>1. Len(script) \in Nat /\ parser_status = "none" /\ tick_count = 0
    BY <1>1 DEF OpenScript, ScriptInv, StatusInv
  <2>2. CASE parser' = "reading" /\ UNCHANGED <<parser_status, message>>
    BY <1>0, <1>1, <2>1, <2>2 DEF OpenScript, ScriptInv, StatusInv
  <2>3. CASE Finish("IO_ERROR", "open", 0)
    <3>1. message' \in [what : ParserFaults, line : 0..Len(script')]
      <4>1. "open" \in ParserFaults /\ script' = script /\ 0 \in 0..Len(script')
        BY <1>1, <2>1 DEF OpenScript, ParserFaults
      <4> QED
        BY <2>1, <2>3, <4>1, FinishIsTyped
    <3> QED
      BY <1>0, <1>1, <2>1, <2>3, <3>1 DEF OpenScript, Finish, ScriptInv, StatusInv
  <2> QED
    BY <1>1, <2>2, <2>3 DEF OpenScript
<1>2. ASSUME NEW text \in LineTexts, SkipLine(text, strict) PROVE ScriptInv'
  <2>1. /\ parse_warning_count' \in {parse_warning_count, parse_warning_count + 1}
        /\ StillReading /\ Read /\ Take(text)
    BY <1>2 DEF SkipLine, ScriptInv
  <2> QED
    BY <1>0, <2>1, LineIsTaken DEF StillReading, ScriptInv, StatusInv
<1>3. ASSUME NEW text \in LineTexts, AcceptSensorLine(text, strict) PROVE ScriptInv'
  <2>1. /\ Take(text) /\ Fault(text, strict) = "none" /\ IsSensorLine(text)
        /\ SampleOf(text) \in Samples /\ last_sensor' = SampleOf(text)
        /\ StillReading /\ UNCHANGED parse_warning_count
        /\ entries' = Append(entries, Entry(text.tick, "sensor", Encoded(SampleOf(text))))
    BY <1>3 DEF AcceptSensorLine, IsSensorLine
  <2>2. Len(entries) < MaxScriptTicks
    BY <2>1, NothingIsWrong DEF ScriptInv
  <2>3. EntriesInv'
    BY <2>1, <2>2, NothingIsWrong, EntryIsAppended DEF ScriptInv
  <2> QED
    BY <2>1, <2>3, LineIsTaken DEF StillReading, ScriptInv, StatusInv
<1>4. ASSUME NEW text \in LineTexts, AcceptCorruptLine(text, strict) PROVE ScriptInv'
  <2>1. /\ Take(text) /\ Fault(text, strict) = "none" /\ IsCorruptLine(text)
        /\ StillReading /\ UNCHANGED <<last_sensor, parse_warning_count>>
        /\ entries' = Append(entries, Entry(text.tick, "corrupt", Encoded(last_sensor)))
    BY <1>4 DEF AcceptCorruptLine
  <2>2. Len(entries) < MaxScriptTicks
    BY <2>1, NothingIsWrong DEF ScriptInv
  <2>3. last_sensor \in Samples
    BY <2>1, NothingIsWrong DEF ScriptInv, EntriesInv, LastSampleIsLast
  <2>4. EntriesInv'
    BY <2>1, <2>2, <2>3, NothingIsWrong, EntryIsAppended DEF ScriptInv
  <2> QED
    BY <2>1, <2>4, LineIsTaken DEF StillReading, ScriptInv, StatusInv
<1>5. ASSUME NEW text \in LineTexts, RefuseLine(text, strict) PROVE ScriptInv'
  BY <1>0, <1>5, LineIsTaken, FaultsAreNamed DEF RefuseLine, Finish, ScriptInv, StatusInv
<1>6. CASE EndOfScript
  <2>1. Len(script) \in Nat /\ parser_status = "none" /\ tick_count = 0 /\ Read
        /\ UNCHANGED <<script, parse_warning_count>>
    <3>1. parser = "reading"
      BY <1>6 DEF EndOfScript
    <3>2. parser_status = "none" /\ tick_count = 0
      BY <3>1 DEF ScriptInv, StatusInv
    <3>3. Len(script) \in Nat
      BY DEF ScriptInv
    <3> QED
      BY <1>6, <3>2, <3>3 DEF EndOfScript
  <2>2. \/ Finish("IO_ERROR", "close", 0) /\ UNCHANGED tick_count
        \/ Finish("PARSE_ERROR", "no ticks", 0) /\ UNCHANGED tick_count
        \/ entries # << >> /\ Finish("OK", "none", 0) /\ tick_count' = Len(entries)
    BY <1>6 DEF EndOfScript
  <2>3. message' \in [what : ParserFaults, line : 0..Len(script')]
    <3>1. {"close", "no ticks", "none"} \subseteq ParserFaults
      BY DEF ParserFaults
    <3>2. script' = script /\ 0 \in 0..Len(script')
      BY <2>1
    <3> QED
      BY <2>1, <2>2, <3>1, <3>2, FinishIsTyped
  <2>4. StatusInv'
    BY <2>1, <2>2, <2>3 DEF Finish, StatusInv
  <2> QED
    BY <1>0, <2>1, <2>4 DEF ScriptInv
<1> QED
  BY <1>1, <1>2, <1>3, <1>4, <1>5, <1>6 DEF ParserStep

(* Only a parse that succeeded hands a script over.                        *)
LEMMA ScriptStep ==
  ASSUME ScriptInv, HandOverInv, [FrontEndNext]_frontEndVars
  PROVE  ScriptInv' /\ HandOverInv'
<1>1. CASE ParseScript
  BY <1>1, ParserStepKeeps DEF ParseScript, HandOverInv
<1>2. CASE ReadCommandLine
  <2>1. stage' # "handed over" /\ UNCHANGED parserVars
    BY <1>2 DEF ReadCommandLine, ReadArguments, RefuseCount, ReadCommand, ReadName, ReadSwitch,
                RefuseMissingValue, ReadConfigPath, ReadLogLevel, EndOfFlags, Usage, Exit,
                Proceed
  <2> QED
    BY <2>1, ParserIsSteady DEF HandOverInv
<1>3. CASE ApplyOptions
  BY <1>3, ParserIsSteady DEF ApplyOptions, StartCommand, Proceed, HandOverInv
<1>4. ASSUME NEW file \in ConfigFiles, ApplyConfig(file) PROVE ScriptInv' /\ HandOverInv'
  BY <1>4, ParserIsSteady DEF ApplyConfig, StartCommand, Proceed, HandOverInv
<1>5. CASE Application
  BY <1>5, ParserIsSteady DEF Application, commandVars, HandOverInv
<1>6. CASE UNCHANGED frontEndVars
  BY <1>6, ParserIsSteady DEF frontEndVars, commandVars, parserVars, HandOverInv
<1> QED
  BY <1>1, <1>2, <1>3, <1>4, <1>5, <1>6 DEF FrontEndNext
-----------------------------------------------------------------------------
(***************************************************************************)
(* The parser decides the language of scripts.  Line by line, the list has *)
(* one entry for each directive read, with the sample that stands before   *)
(* it, and what has been read is acceptable until a line is refused.       *)
(***************************************************************************)
AcceptableTo(lines, strict) ==
  LET places == Directives(lines)
  IN  /\ \A i \in DOMAIN lines : \/ i \in places \/ lines[i].form = "blank"
                                 \/ lines[i].form = "comment" /\ ~strict
      /\ Cardinality(places) <= MaxScriptTicks
      /\ \A i, j \in places : i < j => lines[i].tick < lines[j].tick
      /\ \A i \in places : IsCorruptLine(lines[i]) =>
                             \E j \in places : j < i /\ IsSensorLine(lines[j])

UpTo(lines, i) == {j \in Directives(lines) : j <= i}

(* The sensor line that gives line i its sample is line j.                 *)
SampledAt(lines, i, j) ==
  /\ j \in Directives(lines) /\ j <= i /\ IsSensorLine(lines[j])
  /\ \A k \in Directives(lines) : k \in (j + 1)..i => ~IsSensorLine(lines[k])

EntryFor(line, source) == Entry(line.tick, line.form, Encoded(SampleOf(source)))

ListAgrees(lines, list, last) ==
  /\ Len(list) = Cardinality(Directives(lines))
  /\ \A i \in Directives(lines) : \E j \in Nat :
       SampledAt(lines, i, j) /\ list[Cardinality(UpTo(lines, i))] = EntryFor(lines[i], lines[j])
  /\ list # << >> => \E i \in Directives(lines) : lines[i].tick = list[Len(list)].tick
  /\ last = NoSample => \A j \in Directives(lines) : ~IsSensorLine(lines[j])
  /\ last # NoSample => \E j \in Nat : /\ SampledAt(lines, Len(lines), j)
                                       /\ last = SampleOf(lines[j])

Refused == parser_status = "PARSE_ERROR" /\ message.what # "no ticks"

RefusalAgrees(lines) ==
  /\ Len(lines) > 0
  /\ AcceptableTo(SubSeq(lines, 1, Len(lines) - 1), Strict) /\ ~AcceptableTo(lines, Strict)
  /\ message.line = IF message.what = "limit" THEN 0 ELSE Len(lines)

GrammarInv ==
  /\ stage \notin {"script", "handed over", "refused"} => parser = "closed"
  /\ parser = "closed" => script = << >> /\ entries = << >> /\ last_sensor = NoSample
  /\ message.what = "no ticks" => parser = "done" /\ entries = << >>
  /\ Refused => parser = "done" /\ RefusalAgrees(script)
  /\ ~Refused => AcceptableTo(script, Strict) /\ ListAgrees(script, entries, last_sensor)

LEMMA NothingIsAcceptable ==
  ASSUME NEW strict
  PROVE  AcceptableTo(<< >>, strict) /\ ListAgrees(<< >>, << >>, NoSample)
<1>1. Directives(<< >>) = {}
  BY DEF Directives
<1>2. Cardinality({}) = 0
  BY FS_EmptySet
<1>3. Len(<< >>) = 0 /\ DOMAIN << >> = {}
  OBVIOUS
<1>4. 0 <= MaxScriptTicks
  BY ParserAssumption
<1>5. AcceptableTo(<< >>, strict)
  BY <1>1, <1>2, <1>3, <1>4 DEF AcceptableTo
<1>6. ListAgrees(<< >>, << >>, NoSample)
  BY <1>1, <1>2, <1>3 DEF ListAgrees
<1> QED
  BY <1>5, <1>6

LEMMA DirectivesAreFinite ==
  ASSUME NEW lines, Len(lines) \in Nat, DOMAIN lines = 1..Len(lines)
  PROVE  /\ Directives(lines) \subseteq 1..Len(lines)
         /\ IsFiniteSet(Directives(lines)) /\ Cardinality(Directives(lines)) \in Nat
<1>1. Directives(lines) \in SUBSET (1..Len(lines))
  BY DEF Directives
<1>2. IsFiniteSet(1..Len(lines))
  BY FS_Interval
<1>3. IsFiniteSet(Directives(lines))
  BY <1>1, <1>2, FS_Subset
<1> QED
  BY <1>1, <1>3, FS_CardinalityType

LEMMA FormsDiffer ==
  ASSUME NEW text
  PROVE  /\ IsSensorLine(text) => text.form = "sensor"
         /\ IsCorruptLine(text) => text.form = "corrupt"
BY DEF IsSensorLine, IsCorruptLine

(* One line more.                                                          *)
LEMMA OneLineMore ==
  ASSUME NEW lines \in Seq(LineTexts), NEW text \in LineTexts
  PROVE  LET n == Len(lines)
             more == Append(lines, text)
         IN  /\ n \in Nat /\ Len(more) = n + 1 /\ DOMAIN more = 1..(n + 1)
             /\ DOMAIN lines = 1..n /\ more[n + 1] = text
             /\ \A i \in 1..n : more[i] = lines[i]
             /\ SubSeq(more, 1, n) = lines
<1> DEFINE n == Len(lines)
           more == Append(lines, text)
<1>1. /\ n \in Nat /\ Len(more) = n + 1 /\ DOMAIN more = 1..(n + 1)
      /\ DOMAIN lines = 1..n /\ more[n + 1] = text
      /\ \A i \in 1..n : more[i] = lines[i]
  OBVIOUS
<1>2. SubSeq(more, 1, n) = lines
  OBVIOUS
<1> QED
  BY <1>1, <1>2

LEMMA DirectivesOfMore ==
  ASSUME NEW lines \in Seq(LineTexts), NEW text \in LineTexts
  PROVE  Directives(Append(lines, text)) =
           Directives(lines) \cup
           (IF IsSensorLine(text) \/ IsCorruptLine(text) THEN {Len(lines) + 1} ELSE {})
<1> DEFINE n == Len(lines)
           more == Append(lines, text)
<1>1. /\ n \in Nat /\ DOMAIN more = 1..(n + 1) /\ DOMAIN lines = 1..n /\ more[n + 1] = text
      /\ \A i \in 1..n : more[i] = lines[i]
  BY OneLineMore
<1> HIDE DEF n, more
<1>2. /\ \A i \in Directives(more) : i \in 1..n => i \in Directives(lines)
      /\ \A i \in Directives(lines) : i \in 1..n /\ i \in Directives(more)
      /\ n + 1 \in Directives(more) <=> IsSensorLine(text) \/ IsCorruptLine(text)
      /\ \A i \in Directives(more) : i \in 1..n \/ i = n + 1
  <2> HIDE DEF n, more
  <2> QED BY <1>1 DEF Directives
<1>3. Directives(more) = Directives(lines) \cup
        (IF IsSensorLine(text) \/ IsCorruptLine(text) THEN {n + 1} ELSE {})
  BY <1>2
<1> QED
  BY <1>3 DEF n, more

(* A line that is passed over changes nothing.                             *)
LEMMA PassedOverIsAcceptable ==
  ASSUME NEW lines \in Seq(LineTexts), NEW text \in LineTexts, NEW strict, NEW list, NEW last,
         AcceptableTo(lines, strict), ListAgrees(lines, list, last),
         text.form = "blank" \/ (text.form = "comment" /\ ~strict)
  PROVE  LET more == Append(lines, text)
         IN  AcceptableTo(more, strict) /\ ListAgrees(more, list, last)
<1> DEFINE n == Len(lines)
           more == Append(lines, text)
           D == Directives(lines)
<1>1. /\ n \in Nat /\ Len(more) = n + 1 /\ DOMAIN more = 1..(n + 1) /\ DOMAIN lines = 1..n
      /\ more[n + 1] = text /\ \A i \in 1..n : more[i] = lines[i]
  BY OneLineMore
<1>2. ~IsSensorLine(text) /\ ~IsCorruptLine(text)
  BY FormsDiffer
<1>3. Directives(more) = D
  BY <1>2, DirectivesOfMore
<1>4. D \subseteq 1..n /\ \A i \in D : more[i] = lines[i]
  BY <1>1, DirectivesAreFinite
<1> HIDE DEF more, n
<1>5. AcceptableTo(more, strict)
  <2>1. /\ \A i \in 1..n : i \in D \/ lines[i].form = "blank"
                           \/ (lines[i].form = "comment" /\ ~strict)
        /\ Cardinality(D) <= MaxScriptTicks
        /\ \A i, j \in D : i < j => lines[i].tick < lines[j].tick
        /\ \A i \in D : IsCorruptLine(lines[i]) => \E j \in D : j < i /\ IsSensorLine(lines[j])
    BY <1>1 DEF AcceptableTo
  <2>2. \A i \in 1..(n + 1) : i \in D \/ more[i].form = "blank"
                              \/ (more[i].form = "comment" /\ ~strict)
    <3> SUFFICES ASSUME NEW i \in 1..(n + 1)
                 PROVE  i \in D \/ more[i].form = "blank" \/ (more[i].form = "comment" /\ ~strict)
      OBVIOUS
    <3>1. CASE i = n + 1
      BY <1>1, <3>1
    <3>2. CASE i # n + 1
      <4>1. i \in 1..n
        BY <1>1, <3>2
      <4> QED BY <1>1, <2>1, <4>1
    <3> QED BY <3>1, <3>2
  <2>3. \A i, j \in D : i < j => more[i].tick < more[j].tick
    BY <1>4, <2>1
  <2>4. \A i \in D : IsCorruptLine(more[i]) => \E j \in D : j < i /\ IsSensorLine(more[j])
    <3> SUFFICES ASSUME NEW i \in D, IsCorruptLine(more[i])
                 PROVE  \E j \in D : j < i /\ IsSensorLine(more[j])
      OBVIOUS
    <3>1. PICK j \in D : j < i /\ IsSensorLine(lines[j])
      BY <1>4, <2>1
    <3> QED BY <1>4, <3>1
  <2> HIDE DEF D
  <2> QED BY <1>1, <1>3, <2>1, <2>2, <2>3, <2>4 DEF AcceptableTo
<1>6. ASSUME NEW i \in 1..n, NEW j \in Nat, SampledAt(lines, i, j)
      PROVE  SampledAt(more, i, j) /\ more[j] = lines[j]
  BY <1>3, <1>4, <1>6 DEF SampledAt
<1>7. ASSUME NEW j \in Nat, SampledAt(lines, n, j)
      PROVE  SampledAt(more, n + 1, j) /\ more[j] = lines[j]
  BY <1>1, <1>3, <1>4, <1>7 DEF SampledAt
<1>8. \A i : UpTo(more, i) = UpTo(lines, i)
  BY <1>3 DEF UpTo
<1>9. \A i \in D : \E j \in Nat :
        SampledAt(more, i, j) /\ list[Cardinality(UpTo(more, i))] = EntryFor(more[i], more[j])
  <2> SUFFICES ASSUME NEW i \in D
               PROVE  \E j \in Nat : /\ SampledAt(more, i, j)
                                     /\ list[Cardinality(UpTo(more, i))]
                                          = EntryFor(more[i], more[j])
    OBVIOUS
  <2>1. PICK j \in Nat : /\ SampledAt(lines, i, j)
                         /\ list[Cardinality(UpTo(lines, i))] = EntryFor(lines[i], lines[j])
    BY DEF ListAgrees
  <2>2. i \in 1..n /\ more[i] = lines[i]
    BY <1>4
  <2> QED BY <1>6, <1>8, <2>1, <2>2
<1>10. list # << >> => \E i \in D : more[i].tick = list[Len(list)].tick
  BY <1>4 DEF ListAgrees
<1>11. last = NoSample => \A j \in D : ~IsSensorLine(more[j])
  BY <1>4 DEF ListAgrees
<1>12. last # NoSample => \E j \in Nat : SampledAt(more, n + 1, j) /\ last = SampleOf(more[j])
  <2> SUFFICES ASSUME last # NoSample
               PROVE  \E j \in Nat : SampledAt(more, n + 1, j) /\ last = SampleOf(more[j])
    OBVIOUS
  <2>1. PICK j \in Nat : SampledAt(lines, n, j) /\ last = SampleOf(lines[j])
    BY DEF ListAgrees, n
  <2> QED BY <1>7, <2>1
<1>13. Len(list) = Cardinality(D)
  BY DEF ListAgrees
<1>14. ListAgrees(more, list, last)
  <2> HIDE DEF D
  <2> QED BY <1>1, <1>3, <1>9, <1>10, <1>11, <1>12, <1>13 DEF ListAgrees
<1> QED
  BY <1>5, <1>14 DEF more


(* Places in the list: each directive has one, in the order of the lines.  *)
LEMMA PlacesInTheList ==
  ASSUME NEW lines \in Seq(LineTexts), NEW i \in Directives(lines)
  PROVE  Cardinality(UpTo(lines, i)) \in 1..Cardinality(Directives(lines))
<1> DEFINE D == Directives(lines)
           U == UpTo(lines, i)
<1>1. IsFiniteSet(D) /\ Cardinality(D) \in Nat /\ i \in Nat
  <2>1. Len(lines) \in Nat /\ DOMAIN lines = 1..Len(lines)
    OBVIOUS
  <2> QED BY <2>1, DirectivesAreFinite
<1>2. U \in SUBSET D /\ i \in U
  BY <1>1 DEF UpTo
<1> HIDE DEF D, U
<1>3. IsFiniteSet(U) /\ Cardinality(U) <= Cardinality(D)
  BY <1>1, <1>2, FS_Subset
<1>4. Cardinality(U) \in Nat /\ Cardinality(U) # 0
  <2>1. Cardinality(U) \in Nat
    BY <1>3, FS_CardinalityType
  <2>2. U # {}
    BY <1>2
  <2> QED BY <1>3, <2>1, <2>2, FS_EmptySet
<1> QED
  BY <1>1, <1>3, <1>4 DEF D, U

(* The list is in order, so its last tick is the greatest.                 *)
InOrder(list) ==
  /\ list \in Seq(Entries)
  /\ \A i \in 1..Len(list) : \A j \in 1..(i - 1) : list[j].tick < list[i].tick

LEMMA LastTickIsGreatest ==
  ASSUME NEW lines \in Seq(LineTexts), NEW list, NEW last, ListAgrees(lines, list, last),
         InOrder(list), NEW tick \in Int, list = << >> \/ tick > list[Len(list)].tick
  PROVE  \A i \in Directives(lines) : lines[i].tick < tick
<1> SUFFICES ASSUME NEW i \in Directives(lines) PROVE lines[i].tick < tick
  OBVIOUS
<1> DEFINE r == Cardinality(UpTo(lines, i))
           m == Len(list)
<1>1. r \in 1..m /\ m \in Nat
  <2>1. m \in Nat /\ m = Cardinality(Directives(lines))
    BY DEF ListAgrees, InOrder
  <2> QED BY <2>1, PlacesInTheList
<1>2. list[r].tick = lines[i].tick
  <2>1. PICK j \in Nat : list[r] = EntryFor(lines[i], lines[j])
    BY DEF ListAgrees
  <2> QED BY <2>1 DEF EntryFor, Entry
<1> HIDE DEF r
<1>3. list[m].tick < tick /\ list[m].tick \in Int /\ list[r].tick \in Int
  <2>1. list # << >> /\ list[m] \in Entries /\ list[r] \in Entries
    BY <1>1 DEF InOrder
  <2>2. \A entry \in Entries : entry.tick \in Int
    BY NumberAssumption DEF Entries
  <2> QED BY <2>1, <2>2
<1>4. r = m \/ list[r].tick < list[m].tick
  BY <1>1 DEF InOrder
<1> HIDE DEF m
<1> QED
  BY <1>2, <1>3, <1>4

(* A directive that is accepted: the list grows by its entry.              *)
LEMMA DirectiveIsAcceptable ==
  ASSUME NEW lines \in Seq(LineTexts), NEW text \in LineTexts, NEW strict, NEW list, NEW last,
         AcceptableTo(lines, strict), ListAgrees(lines, list, last), InOrder(list),
         IsSensorLine(text) \/ IsCorruptLine(text), text.tick \in Int,
         Len(list) < MaxScriptTicks, list = << >> \/ text.tick > list[Len(list)].tick,
         IsCorruptLine(text) => last # NoSample,
         NEW sample, sample # NoSample,
         IsSensorLine(text) => sample = SampleOf(text), ~IsSensorLine(text) => sample = last,
         NEW longer, longer = Append(list, Entry(text.tick, text.form, Encoded(sample)))
  PROVE  LET more == Append(lines, text)
         IN  AcceptableTo(more, strict) /\ ListAgrees(more, longer, sample)
<1> DEFINE n == Len(lines)
           more == Append(lines, text)
           D == Directives(lines)
           m == Len(list)
           new == Entry(text.tick, text.form, Encoded(sample))
<1>1. /\ n \in Nat /\ Len(more) = n + 1 /\ DOMAIN more = 1..(n + 1) /\ DOMAIN lines = 1..n
      /\ more[n + 1] = text /\ \A i \in 1..n : more[i] = lines[i]
  BY OneLineMore
<1>2. Directives(more) = D \cup {n + 1}
  BY DirectivesOfMore
<1>3. D \subseteq 1..n /\ IsFiniteSet(D) /\ (\A i \in D : more[i] = lines[i]) /\ n + 1 \notin D
  BY <1>1, DirectivesAreFinite
<1>4. m = Cardinality(D) /\ m \in Nat /\ list \in Seq(Entries)
  BY DEF ListAgrees, InOrder
<1> HIDE DEF more, n
<1>5. Cardinality(D \cup {n + 1}) = m + 1
  BY <1>3, <1>4, FS_AddElement
<1>6. \A i \in D : more[i].tick < text.tick
  BY <1>3, LastTickIsGreatest
<1>7. IsCorruptLine(text) => ~IsSensorLine(text)
  BY FormsDiffer
<1>8. IsCorruptLine(text) =>
        \E j \in Nat : SampledAt(lines, n, j) /\ last = SampleOf(lines[j])
  BY DEF ListAgrees, n
<1>9. AcceptableTo(more, strict)
  <2>1. /\ \A i \in 1..n : i \in D \/ lines[i].form = "blank"
                           \/ (lines[i].form = "comment" /\ ~strict)
        /\ \A i, j \in D : i < j => lines[i].tick < lines[j].tick
        /\ \A i \in D : IsCorruptLine(lines[i]) => \E j \in D : j < i /\ IsSensorLine(lines[j])
    BY <1>1 DEF AcceptableTo
  <2>2. \A i \in 1..(n + 1) : i \in D \cup {n + 1} \/ more[i].form = "blank"
                              \/ (more[i].form = "comment" /\ ~strict)
    <3> SUFFICES ASSUME NEW i \in 1..(n + 1), i # n + 1
                 PROVE  i \in D \/ more[i].form = "blank" \/ (more[i].form = "comment" /\ ~strict)
      OBVIOUS
    <3>1. i \in 1..n
      BY <1>1
    <3> QED BY <1>1, <2>1, <3>1
  <2>3. \A i, j \in D \cup {n + 1} : i < j => more[i].tick < more[j].tick
    <3> SUFFICES ASSUME NEW i \in D \cup {n + 1}, NEW j \in D \cup {n + 1}, i < j
                 PROVE  more[i].tick < more[j].tick
      OBVIOUS
    <3>1. i \in D /\ i \in Nat /\ j \in Nat
      BY <1>1, <1>3
    <3>2. CASE j \in D
      BY <1>3, <2>1, <3>1, <3>2
    <3>3. CASE j = n + 1
      BY <1>1, <1>6, <3>1, <3>3
    <3> QED BY <3>2, <3>3
  <2>4. \A i \in D \cup {n + 1} : IsCorruptLine(more[i]) =>
          \E j \in D \cup {n + 1} : j < i /\ IsSensorLine(more[j])
    <3> SUFFICES ASSUME NEW i \in D \cup {n + 1}, IsCorruptLine(more[i])
                 PROVE  \E j \in D : j < i /\ IsSensorLine(more[j])
      OBVIOUS
    <3>1. CASE i \in D
      <4>1. PICK j \in D : j < i /\ IsSensorLine(lines[j])
        BY <1>3, <2>1, <3>1
      <4> QED BY <1>3, <4>1
    <3>2. CASE i = n + 1
      <4>1. PICK j \in Nat : SampledAt(lines, n, j)
        BY <1>1, <1>8, <3>2
      <4>2. j \in D /\ j < n + 1 /\ IsSensorLine(lines[j])
        BY <1>1, <4>1 DEF SampledAt
      <4> QED BY <1>3, <3>2, <4>2
    <3> QED BY <3>1, <3>2
  <2>5. m + 1 <= MaxScriptTicks
    BY <1>4, ParserAssumption
  <2> HIDE DEF D, m
  <2> QED BY <1>1, <1>2, <1>5, <2>2, <2>3, <2>4, <2>5 DEF AcceptableTo
<1>10. \E j \in Nat : SampledAt(more, n + 1, j) /\ sample = SampleOf(more[j])
  <2>1. CASE IsSensorLine(text)
    <3>1. SampledAt(more, n + 1, n + 1)
      BY <1>1, <1>2, <1>3, <2>1 DEF SampledAt
    <3>2. sample = SampleOf(more[n + 1])
      BY <1>1, <2>1
    <3> QED BY <1>1, <3>1, <3>2
  <2>2. CASE IsCorruptLine(text)
    <3>1. PICK j \in Nat : SampledAt(lines, n, j) /\ last = SampleOf(lines[j])
      BY <1>8, <2>2
    <3>2. j \in D /\ j <= n /\ IsSensorLine(lines[j]) /\ more[j] = lines[j]
      BY <1>3, <3>1 DEF SampledAt
    <3>3. ASSUME NEW k \in D \cup {n + 1}, k \in (j + 1)..(n + 1)
          PROVE  ~IsSensorLine(more[k])
      <4>1. CASE k = n + 1
        BY <1>1, <1>7, <2>2, <4>1
      <4>2. CASE k \in D
        <5>1. k \in (j + 1)..n
          BY <1>1, <1>3, <3>3, <4>2
        <5> QED BY <1>3, <3>1, <4>2, <5>1 DEF SampledAt
      <4> QED BY <4>1, <4>2
    <3>4. SampledAt(more, n + 1, j)
      BY <1>1, <1>2, <3>2, <3>3 DEF SampledAt
    <3> QED BY <1>7, <2>2, <3>1, <3>2, <3>4
  <2> QED BY <2>1, <2>2
<1>11. \A i \in D : UpTo(more, i) = UpTo(lines, i)
  BY <1>1, <1>2, <1>3 DEF UpTo
<1>12. UpTo(more, n + 1) = D \cup {n + 1}
  BY <1>1, <1>2, <1>3 DEF UpTo
<1>13. /\ Len(longer) = m + 1 /\ longer[m + 1] = new
       /\ \A r \in 1..m : longer[r] = list[r]
  BY <1>4
<1>14. \A i \in D \cup {n + 1} : \E j \in Nat :
         SampledAt(more, i, j) /\ longer[Cardinality(UpTo(more, i))] = EntryFor(more[i], more[j])
  <2> SUFFICES ASSUME NEW i \in D \cup {n + 1}
               PROVE  \E j \in Nat : /\ SampledAt(more, i, j)
                                     /\ longer[Cardinality(UpTo(more, i))]
                                          = EntryFor(more[i], more[j])
    OBVIOUS
  <2>1. CASE i \in D
    <3>1. PICK j \in Nat : /\ SampledAt(lines, i, j)
                           /\ list[Cardinality(UpTo(lines, i))] = EntryFor(lines[i], lines[j])
      BY <2>1 DEF ListAgrees
    <3>2. Cardinality(UpTo(lines, i)) \in 1..m
      BY <1>4, <2>1, PlacesInTheList
    <3>3. SampledAt(more, i, j) /\ more[j] = lines[j] /\ more[i] = lines[i]
      BY <1>1, <1>2, <1>3, <2>1, <3>1 DEF SampledAt
    <3> QED BY <1>11, <1>13, <2>1, <3>1, <3>2, <3>3
  <2>2. CASE i = n + 1
    <3>1. PICK j \in Nat : SampledAt(more, n + 1, j) /\ sample = SampleOf(more[j])
      BY <1>10
    <3>2. longer[Cardinality(UpTo(more, i))] = new
      BY <1>5, <1>12, <1>13, <2>2
    <3>3. new = EntryFor(more[i], more[j])
      BY <1>1, <2>2, <3>1 DEF EntryFor
    <3> QED BY <2>2, <3>1, <3>2, <3>3
  <2> QED BY <2>1, <2>2
<1>15. more[n + 1].tick = longer[Len(longer)].tick
  BY <1>1, <1>13 DEF Entry
<1>16. ListAgrees(more, longer, sample)
  <2> HIDE DEF D, new
  <2> QED BY <1>1, <1>2, <1>5, <1>10, <1>13, <1>14, <1>15 DEF ListAgrees
<1> QED
  BY <1>9, <1>16 DEF more


(* What is wrong with a line makes all that was read unacceptable.         *)
LEMMA FaultIsUnacceptable ==
  ASSUME NEW text \in LineTexts, NEW strict \in BOOLEAN, Fault(text, strict) # "none",
         script \in Seq(LineTexts), entries \in Seq(Entries),
         ListAgrees(script, entries, last_sensor)
  PROVE  ~AcceptableTo(Append(script, text), strict)
<1> DEFINE n == Len(script)
           more == Append(script, text)
           D == Directives(script)
           m == Len(entries)
<1>1. /\ n \in Nat /\ DOMAIN more = 1..(n + 1) /\ DOMAIN script = 1..n
      /\ more[n + 1] = text /\ \A i \in 1..n : more[i] = script[i]
  BY OneLineMore
<1>2. D \subseteq 1..n /\ IsFiniteSet(D) /\ (\A i \in D : more[i] = script[i]) /\ n + 1 \notin D
  BY <1>1, DirectivesAreFinite
<1>3. m \in Nat /\ m = Cardinality(D)
  BY DEF ListAgrees
<1> SUFFICES ASSUME AcceptableTo(more, strict) PROVE FALSE
  OBVIOUS
<1>4. /\ n + 1 \in Directives(more) \/ text.form = "blank" \/ (text.form = "comment" /\ ~strict)
      /\ Cardinality(Directives(more)) <= MaxScriptTicks
      /\ \A i, j \in Directives(more) : i < j => more[i].tick < more[j].tick
      /\ \A i \in Directives(more) : IsCorruptLine(more[i]) =>
           \E j \in Directives(more) : j < i /\ IsSensorLine(more[j])
  <2>1. n + 1 \in DOMAIN more
    BY <1>1
  <2> QED BY <1>1, <2>1 DEF AcceptableTo
<1>5. ~(text.form = "blank" \/ (text.form = "comment" /\ ~strict))
  BY DEF Fault
<1>6. IsSensorLine(text) \/ IsCorruptLine(text)
  <2>1. Directives(more) = D \cup (IF IsSensorLine(text) \/ IsCorruptLine(text)
                                   THEN {n + 1} ELSE {})
    BY DirectivesOfMore
  <2> QED BY <1>2, <1>4, <1>5, <2>1
<1>7. Directives(more) = D \cup {n + 1}
  BY <1>6, DirectivesOfMore
<1> HIDE DEF more, n
<1>8. m < MaxScriptTicks
  <2>1. Cardinality(D \cup {n + 1}) = m + 1
    BY <1>2, <1>3, FS_AddElement
  <2>2. m + 1 <= MaxScriptTicks
    BY <1>4, <1>7, <2>1
  <2> QED BY <1>3, <2>2, ParserAssumption
<1>9. ~(IsCorruptLine(text) /\ last_sensor = NoSample)
  <2> SUFFICES ASSUME IsCorruptLine(text), last_sensor = NoSample PROVE FALSE
    OBVIOUS
  <2>1. PICK j \in D \cup {n + 1} : j < n + 1 /\ IsSensorLine(more[j])
    BY <1>1, <1>4, <1>7
  <2>2. j \in D /\ IsSensorLine(script[j])
    BY <1>1, <1>2, <2>1
  <2> QED BY <2>2 DEF ListAgrees
<1>10. TickIncreases(text.tick)
  <2>1. CASE entries = << >>
    BY <2>1 DEF TickIncreases
  <2>2. CASE entries # << >>
    <3>1. PICK i \in D : script[i].tick = entries[m].tick
      BY <2>2 DEF ListAgrees
    <3>2. more[i].tick < text.tick
      <4>1. i < n + 1
        BY <1>1, <1>2
      <4> QED BY <1>1, <1>4, <1>7, <4>1
    <3>3. entries[m].tick < text.tick
      BY <1>2, <3>1, <3>2
    <3>4. entries[m].tick \in Int /\ text.tick \in Int
      <4>1. entries[m].tick \in Int
        <5>1. entries[m] \in Entries
          BY <2>2
        <5> QED BY <5>1, NumberAssumption DEF Entries
      <4>2. text.tick \in Int
        BY <1>6, NumberAssumption DEF IsSensorLine, IsCorruptLine, ReadsAsUInt
      <4> QED BY <4>1, <4>2
    <3> QED BY <3>3, <3>4 DEF TickIncreases
  <2> QED BY <2>1, <2>2
<1>11. text.form \in {"sensor", "corrupt"}
  BY <1>6, FormsDiffer
<1>12. text.form \notin {"overlong", "blank", "comment"}
  BY <1>11
<1>13. ~(Len(entries) >= MaxScriptTicks)
  BY <1>3, <1>8, ParserAssumption
<1> HIDE DEF D, m
<1>14. Fault(text, strict) = "none"
  BY <1>6, <1>9, <1>10, <1>12, <1>13 DEF Fault
<1> QED
  BY <1>14


(* The parser, step by step.                                               *)
LEMMA LineAgrees ==
  ASSUME ScriptInv, GrammarInv, parser = "reading", NEW text \in LineTexts,
         NEW strict \in BOOLEAN, strict = Strict,
         \/ SkipLine(text, strict) \/ AcceptSensorLine(text, strict)
         \/ AcceptCorruptLine(text, strict)
  PROVE  /\ AcceptableTo(script', strict) /\ ListAgrees(script', entries', last_sensor')
         /\ UNCHANGED <<parser, parser_status, message>>
<1>1. ~Refused /\ AcceptableTo(script, strict) /\ ListAgrees(script, entries, last_sensor)
  BY DEF GrammarInv
<1>2. script \in Seq(LineTexts) /\ InOrder(entries) /\ EntriesInv
  BY DEF ScriptInv, EntriesInv, EntriesInOrder, InOrder
<1>3. script' = Append(script, text) /\ Fault(text, strict) = "none"
      /\ UNCHANGED <<parser, parser_status, message>>
  BY DEF SkipLine, AcceptSensorLine, AcceptCorruptLine, Take, StillReading
<1>4. CASE SkipLine(text, strict)
  <2>1. text.form = "blank" \/ (text.form = "comment" /\ ~strict)
    <3>1. text.form = "comment" => ~strict
      BY <1>3 DEF Fault
    <3> QED BY <1>4, <3>1 DEF SkipLine
  <2>2. entries' = entries /\ last_sensor' = last_sensor
    BY <1>4 DEF SkipLine
  <2> QED BY <1>1, <1>2, <1>3, <2>1, <2>2, PassedOverIsAcceptable
<1>5. ASSUME IsSensorLine(text) \/ IsCorruptLine(text)
      PROVE  /\ text.tick \in Int /\ Len(entries) < MaxScriptTicks
             /\ entries = << >> \/ text.tick > entries[Len(entries)].tick
             /\ IsCorruptLine(text) => last_sensor # NoSample
  <2>1. /\ text.tick \in 1..MaxUInt /\ Len(entries) < MaxScriptTicks
        /\ TickIncreases(text.tick)
        /\ IsCorruptLine(text) => last_sensor # NoSample
    BY <1>2, <1>3, <1>5, NothingIsWrong
  <2> QED BY <2>1, NumberAssumption DEF TickIncreases
<1>6. CASE AcceptSensorLine(text, strict)
  <2>1. IsSensorLine(text) /\ SampleOf(text) # NoSample /\ text.form = "sensor"
    BY <1>6, SamplesAreNotNone DEF AcceptSensorLine, IsSensorLine
  <2>2. /\ entries' = Append(entries, Entry(text.tick, text.form, Encoded(SampleOf(text))))
        /\ last_sensor' = SampleOf(text)
    BY <1>6, <2>1 DEF AcceptSensorLine
  <2>4. /\ AcceptableTo(Append(script, text), strict)
        /\ ListAgrees(Append(script, text), entries', SampleOf(text))
    <3>1. /\ text.tick \in Int /\ Len(entries) < MaxScriptTicks
          /\ entries = << >> \/ text.tick > entries[Len(entries)].tick
          /\ IsCorruptLine(text) => last_sensor # NoSample
      BY <1>5, <2>1
    <3>2. entries' = Append(entries, Entry(text.tick, text.form, Encoded(SampleOf(text))))
      BY <2>1, <2>2
    <3> QED BY <1>1, <1>2, <2>1, <3>1, <3>2, DirectiveIsAcceptable
  <2> QED BY <1>3, <2>2, <2>4
<1>7. CASE AcceptCorruptLine(text, strict)
  <2>1. IsCorruptLine(text) /\ ~IsSensorLine(text) /\ text.form = "corrupt"
    BY <1>7, FormsDiffer DEF AcceptCorruptLine
  <2>2. /\ entries' = Append(entries, Entry(text.tick, text.form, Encoded(last_sensor)))
        /\ last_sensor' = last_sensor
    BY <1>7, <2>1 DEF AcceptCorruptLine
  <2>4. /\ AcceptableTo(Append(script, text), strict)
        /\ ListAgrees(Append(script, text), entries', last_sensor)
    <3>1. /\ text.tick \in Int /\ Len(entries) < MaxScriptTicks
          /\ entries = << >> \/ text.tick > entries[Len(entries)].tick
          /\ last_sensor # NoSample
      BY <1>5, <2>1
    <3>2. PICK sample : sample = last_sensor
      OBVIOUS
    <3>3. /\ sample # NoSample
          /\ IsSensorLine(text) => sample = SampleOf(text)
          /\ ~IsSensorLine(text) => sample = last_sensor
      BY <2>1, <3>1, <3>2
    <3>4. entries' = Append(entries, Entry(text.tick, text.form, Encoded(sample)))
      BY <2>2, <3>2
    <3>5. /\ AcceptableTo(Append(script, text), strict)
          /\ ListAgrees(Append(script, text), entries', sample)
      BY <1>1, <1>2, <2>1, <3>1, <3>3, <3>4, DirectiveIsAcceptable
    <3> QED BY <3>2, <3>5
  <2> QED BY <1>3, <2>2, <2>4
<1> QED
  BY <1>3, <1>4, <1>6, <1>7

LEMMA RefusalStep ==
  ASSUME ScriptInv, GrammarInv, parser = "reading", NEW text \in LineTexts,
         NEW strict \in BOOLEAN, strict = Strict, RefuseLine(text, strict), options' = options
  PROVE  /\ Refused' /\ parser' = "done" /\ message'.what # "no ticks"
         /\ RefusalAgrees(script)'
<1>1. ~Refused /\ AcceptableTo(script, strict) /\ ListAgrees(script, entries, last_sensor)
  BY DEF GrammarInv
<1>2. script \in Seq(LineTexts) /\ entries \in Seq(Entries)
  BY DEF ScriptInv, EntriesInv
<1>3. /\ script' = Append(script, text) /\ Fault(text, strict) # "none" /\ parser' = "done"
      /\ parser_status' = "PARSE_ERROR" /\ message'.what = Fault(text, strict)
      /\ message'.line = IF Fault(text, strict) = "limit" THEN 0 ELSE Len(script) + 1
  BY DEF RefuseLine, Take, Finish
<1>4. Fault(text, strict) # "no ticks"
  BY DEF Fault
<1>5. /\ Len(script) \in Nat /\ Len(script') = Len(script) + 1
      /\ SubSeq(script', 1, Len(script)) = script
  BY <1>2, <1>3, OneLineMore
<1>6. ~AcceptableTo(script', strict)
  BY <1>1, <1>2, <1>3, FaultIsUnacceptable
<1>7. Strict' = strict
  BY DEF Strict
<1>8. Len(script') - 1 = Len(script) /\ Len(script') > 0
  BY <1>5
<1> QED
  BY <1>1, <1>3, <1>4, <1>5, <1>6, <1>7, <1>8 DEF Refused, RefusalAgrees

LEMMA ParserStepAgrees ==
  ASSUME ScriptInv, GrammarInv, ParseScript
  PROVE  GrammarInv'
<1> DEFINE strict == Strict
<1>1. stage = "script" /\ ParserStep(strict) /\ options' = options
      /\ stage' \in {"script", "handed over", "refused"}
  BY DEF ParseScript, Strict
<1>2. strict \in BOOLEAN /\ Strict' = strict
  <2>1. Strict' = strict
    BY <1>1 DEF Strict
  <2>2. strict \in BOOLEAN
    BY DEF Strict
  <2> QED BY <2>1, <2>2
<1> HIDE DEF strict
<1>3. CASE OpenScript
  <2>1. /\ parser = "closed" /\ parser' # "closed" /\ UNCHANGED <<script, entries, last_sensor>>
        /\ \/ UNCHANGED <<parser_status, message>>
           \/ parser_status' = "IO_ERROR" /\ message'.what = "open"
    BY <1>3 DEF OpenScript, Finish
  <2>2. parser_status = "none" /\ message.what # "no ticks"
    BY <2>1 DEF ScriptInv, StatusInv, GrammarInv
  <2>3. ~Refused /\ ~Refused' /\ message'.what # "no ticks"
    BY <2>1, <2>2 DEF Refused
  <2> QED BY <1>1, <1>2, <2>1, <2>3 DEF GrammarInv, strict
<1>4. ASSUME NEW text \in LineTexts,
             \/ SkipLine(text, strict) \/ AcceptSensorLine(text, strict)
             \/ AcceptCorruptLine(text, strict)
      PROVE  GrammarInv'
  <2>1. parser = "reading" /\ parser_status = "none"
    BY <1>4 DEF SkipLine, AcceptSensorLine, AcceptCorruptLine, Take, ScriptInv, StatusInv
  <2>2. message.what # "no ticks"
    BY <2>1 DEF GrammarInv
  <2>3. /\ AcceptableTo(script', strict) /\ ListAgrees(script', entries', last_sensor')
        /\ UNCHANGED <<parser, parser_status, message>>
    BY <1>2, <1>4, <2>1, LineAgrees DEF strict
  <2>4. ~Refused'
    BY <2>1, <2>3 DEF Refused
  <2> QED BY <1>1, <1>2, <2>1, <2>2, <2>3, <2>4 DEF GrammarInv
<1>5. ASSUME NEW text \in LineTexts, RefuseLine(text, strict)
      PROVE  GrammarInv'
  <2>1. parser = "reading"
    BY <1>5 DEF RefuseLine, Take
  <2>2. /\ Refused' /\ parser' = "done" /\ message'.what # "no ticks" /\ RefusalAgrees(script)'
    BY <1>1, <1>2, <1>5, <2>1, RefusalStep DEF strict
  <2> QED BY <1>1, <2>2 DEF GrammarInv
<1>6. CASE EndOfScript
  <2>1. /\ parser = "reading" /\ parser' = "done" /\ UNCHANGED <<script, entries, last_sensor>>
        /\ \/ parser_status' \in {"IO_ERROR", "OK"} /\ message'.what \in {"close", "none"}
           \/ message'.what = "no ticks" /\ entries = << >>
    <3>1. /\ parser = "reading" /\ UNCHANGED <<script, entries, last_sensor>>
          /\ \/ Finish("IO_ERROR", "close", 0)
             \/ entries = << >> /\ Finish("PARSE_ERROR", "no ticks", 0)
             \/ Finish("OK", "none", 0)
      BY <1>6 DEF EndOfScript
    <3>2. CASE Finish("IO_ERROR", "close", 0)
      BY <3>1, <3>2 DEF Finish
    <3>3. CASE entries = << >> /\ Finish("PARSE_ERROR", "no ticks", 0)
      BY <3>1, <3>3 DEF Finish
    <3>4. CASE Finish("OK", "none", 0)
      BY <3>1, <3>4 DEF Finish
    <3> QED BY <3>1, <3>2, <3>3, <3>4
  <2>2. ~Refused /\ ~Refused'
    BY <2>1 DEF GrammarInv, Refused
  <2>3. AcceptableTo(script', Strict') /\ ListAgrees(script', entries', last_sensor')
    BY <1>2, <2>1, <2>2 DEF GrammarInv, strict
  <2> QED BY <1>1, <2>1, <2>2, <2>3 DEF GrammarInv
<1> QED
  BY <1>1, <1>3, <1>4, <1>5, <1>6 DEF ParserStep

LEMMA ClosedAgrees ==
  ASSUME GrammarInv, parser = "closed", UNCHANGED parserVars
  PROVE  GrammarInv'
<1>1. /\ script' = << >> /\ entries' = << >> /\ last_sensor' = NoSample /\ parser' = "closed"
      /\ UNCHANGED <<parser, parser_status, message>>
  BY DEF GrammarInv, parserVars
<1>2. ~Refused /\ message.what # "no ticks"
  BY DEF GrammarInv
<1>3. ~Refused' /\ message'.what # "no ticks"
  BY <1>1, <1>2 DEF Refused
<1>4. AcceptableTo(script', Strict') /\ ListAgrees(script', entries', last_sensor')
  BY <1>1, NothingIsAcceptable
<1> QED
  BY <1>1, <1>3, <1>4 DEF GrammarInv

LEMMA ReadingOnAgrees ==
  ASSUME GrammarInv, UNCHANGED <<options, parserVars, stage>>
  PROVE  GrammarInv'
<1>1. UNCHANGED <<parser, script, entries, last_sensor, parser_status, message>>
  BY DEF parserVars
<1>2. Strict' = Strict
  BY DEF Strict
<1> QED
  BY <1>1, <1>2 DEF GrammarInv, Refused, RefusalAgrees

LEMMA GrammarStep ==
  ASSUME ScriptInv, GrammarInv, [FrontEndNext]_frontEndVars
  PROVE  GrammarInv'
<1>1. CASE ReadCommandLine
  <2>1. stage \in {"command", "name", "flags"} /\ UNCHANGED parserVars
    BY <1>1 DEF ReadCommandLine, ReadArguments, RefuseCount, ReadCommand, ReadName, ReadSwitch,
                RefuseMissingValue, ReadConfigPath, ReadLogLevel, EndOfFlags
  <2> QED
    BY <2>1, ClosedAgrees DEF GrammarInv
<1>2. CASE ApplyOptions
  <2>1. stage = "options" /\ UNCHANGED parserVars
    BY <1>2 DEF ApplyOptions
  <2> QED
    BY <2>1, ClosedAgrees DEF GrammarInv
<1>3. ASSUME NEW file \in ConfigFiles, ApplyConfig(file) PROVE GrammarInv'
  <2>1. stage = "options" /\ UNCHANGED parserVars
    BY <1>3 DEF ApplyConfig
  <2> QED
    BY <2>1, ClosedAgrees DEF GrammarInv
<1>4. CASE ParseScript
  BY <1>4, ParserStepAgrees
<1>5. CASE Application
  BY <1>5, ReadingOnAgrees DEF Application, commandVars
<1>6. CASE UNCHANGED frontEndVars
  BY <1>6, ReadingOnAgrees DEF frontEndVars, commandVars
<1> QED
  BY <1>1, <1>2, <1>3, <1>4, <1>5, <1>6 DEF FrontEndNext

(* The invariant says what the parser promises: a directive has but one    *)
(* line that gives it its sample.                                          *)
LEMMA GrammarIsDecided ==
  ASSUME ScriptInv, GrammarInv
  PROVE  ParserAgreesWithGrammar
<1> DEFINE places == Directives(script)
<1>1. \A lines : Acceptable(lines) <=> AcceptableTo(lines, Strict)
  BY DEF Acceptable, AcceptableTo, PassedOver
<1>2. CASE Refused
  BY <1>1, <1>2 DEF ParserAgreesWithGrammar, Refused, GrammarInv, RefusalAgrees
<1>3. CASE ~Refused
  <2>1. AcceptableTo(script, Strict) /\ ListAgrees(script, entries, last_sensor)
    BY <1>3 DEF GrammarInv
  <2>2. /\ Len(script) \in Nat /\ DOMAIN script = 1..Len(script)
        /\ places \subseteq 1..Len(script) /\ Len(entries) = Cardinality(places)
    <3>1. Len(script) \in Nat /\ DOMAIN script = 1..Len(script)
      BY DEF ScriptInv
    <3> QED BY <2>1, <3>1, DirectivesAreFinite DEF ListAgrees
  <2>3. parser_status = "OK" => places # {}
    <3> SUFFICES ASSUME parser_status = "OK", places = {} PROVE FALSE
      OBVIOUS
    <3>1. Len(entries) = 0
      BY <2>2, FS_EmptySet
    <3>2. entries \in Seq(Entries) /\ Len(entries) > 0
      BY DEF ScriptInv, EntriesInv, StatusInv
    <3> QED BY <3>1, <3>2
  <2>4. message.what = "no ticks" => places = {}
    <3> SUFFICES ASSUME message.what = "no ticks" PROVE places = {}
      OBVIOUS
    <3>1. Cardinality(places) = 0
      BY <2>2 DEF GrammarInv
    <3>2. IsFiniteSet(places)
      BY <2>2, DirectivesAreFinite
    <3> QED BY <3>1, <3>2, FS_EmptySet
  <2>5. ASSUME NEW i \in places
        PROVE  LET entry == entries[Cardinality({j \in places : j <= i})]
               IN  /\ entry.tick = script[i].tick
                   /\ entry.frame.kind = script[i].form
                   /\ entry.frame.data = Encoded(SampleAt(script, i))
    <3>1. PICK j \in Nat : /\ SampledAt(script, i, j)
                           /\ entries[Cardinality(UpTo(script, i))]
                                = EntryFor(script[i], script[j])
      BY <2>1 DEF ListAgrees
    <3>2. \A k \in places : SampledAt(script, i, k) <=> k = j
      <4> SUFFICES ASSUME NEW k \in places, SampledAt(script, i, k) PROVE k = j
        BY <3>1
      <4>1. i \in Nat /\ j \in Nat /\ k \in Nat /\ j \in places
        BY <2>2, <3>1 DEF SampledAt
      <4>2. ~(j < k)
        BY <3>1, <4>1 DEF SampledAt
      <4>3. ~(k < j)
        BY <3>1, <4>1 DEF SampledAt
      <4> QED BY <4>1, <4>2, <4>3
    <3>3. SampleAt(script, i) = SampleOf(script[j])
      <4> DEFINE Source(k) == /\ k <= i /\ IsSensorLine(script[k])
                              /\ \A l \in places : l \in (k + 1)..i => ~IsSensorLine(script[l])
      <4>1. j \in places /\ \A k \in places : Source(k) <=> k = j
        BY <3>1, <3>2 DEF SampledAt
      <4>2. (CHOOSE k \in places : Source(k)) = j
        <5> HIDE DEF Source
        <5> QED BY <4>1
      <4> QED BY <4>2 DEF SampleAt
    <3> QED BY <3>1, <3>3 DEF UpTo, EntryFor, Entry
  <2> QED
    BY <1>1, <1>3, <2>1, <2>2, <2>3, <2>4, <2>5 DEF ParserAgreesWithGrammar, Refused
<1> QED
  BY <1>2, <1>3

LEMMA GrammarInitially == FrontEndInit => GrammarInv
<1> SUFFICES ASSUME FrontEndInit PROVE GrammarInv
  OBVIOUS
<1>1. ParserInit
  BY DEF FrontEndInit
<1> QED
  BY <1>1, NothingIsAcceptable DEF ParserInit, GrammarInv, Refused

-----------------------------------------------------------------------------
(***************************************************************************)
(* The options.  While the arguments are read, the places of the flags in  *)
(* what has been read are known, and the options are what these flags say. *)
(***************************************************************************)
FlagsAt(first, line, places) ==
  /\ places \in SUBSET (first..Len(line))
  /\ \A i \in first..Len(line) :
       i \in places <=> ~(i - 1 \in places /\ line[i - 1] \in Valued)

SoundFlag(line, i) ==
  /\ line[i] \in Switches \cup Valued
  /\ line[i] \in Valued => i < Len(line)
  /\ line[i] = "--config" => line[i + 1] # "" /\ line[i + 1] \notin LongPaths
  /\ line[i] = "--log-level" => line[i + 1] \in LogLevels

GivenOnce(line, places) ==
  \A i, j \in places :
    line[i] = line[j] /\ line[i] \in Switches \cup {"--config"} => i = j

SoundFlags(line, places) ==
  (\A i \in places : SoundFlag(line, i)) /\ GivenOnce(line, places)

LastLevel(line, places, i) ==
  line[i] = "--log-level" /\ \A j \in places : line[j] = "--log-level" => j <= i

Meant(line, places, opts) ==
  /\ opts.switches = {s \in Switches : \E i \in places : line[i] = s}
  /\ \A i \in places : line[i] = "--config" => opts.config_path = line[i + 1]
  /\ (\A i \in places : line[i] # "--config") => opts.config_path = NULL
  /\ \A i \in places : LastLevel(line, places, i) => opts.log_level = line[i + 1]
  /\ (\A i \in places : line[i] # "--log-level") => opts.log_level = "INFO"

OptionsInv ==
  /\ argv \in Seq(Arguments)
  /\ stage = "command" => argv = << >> /\ command = "none" /\ options = NoOptions
  /\ stage = "name" =>
       Len(argv) = 1 /\ command \in {"scenario", "script"} /\ options = NoOptions
  /\ stage \in {"flags", "options"} =>
       /\ FirstFlag <= Len(argv) + 1
       /\ \E places \in SUBSET (FirstFlag..Len(argv)) :
            /\ FlagsAt(FirstFlag, argv, places) /\ SoundFlags(argv, places)
            /\ Meant(argv, places, options)
  /\ stage = "options" => Len(argv) + 1 = argc
  /\ said = <<"usage">> /\ command # "none" =>
       \E places \in SUBSET (FirstFlag..Len(argv)) :
         FlagsAt(FirstFlag, argv, places) /\ ~SoundFlags(argv, places)

(* A line has one set of places: two would differ at a least place, and    *)
(* what is at the place before decides about that one.                     *)
LEMMA LeastNumber ==
  ASSUME NEW T, T \subseteq Nat, T # {}
  PROVE  \E m \in T : \A k \in T : m <= k
<1> DEFINE Below == {p \in Nat \X Nat : p[1] < p[2]}
<1>1. IsWellFoundedOn(Below, Nat)
  BY NatLessThanWellFounded DEF OpToRel
<1>2. PICK x \in T : \A y \in T : ~(<<y, x>> \in Below)
  BY <1>1, WFMin
<1>3. ASSUME NEW y \in T PROVE x <= y
  <2>1. ~(<<y, x>> \in Below)
    BY <1>2
  <2> QED BY <2>1
<1> QED
  BY <1>3

LEMMA PlacesAreUnique ==
  ASSUME NEW first \in Nat, NEW line \in Seq(Arguments), NEW one, NEW other,
         FlagsAt(first, line, one), FlagsAt(first, line, other)
  PROVE  one = other
<1> DEFINE T == (one \ other) \cup (other \ one)
<1>0. Len(line) \in Nat
  OBVIOUS
<1>1. one \subseteq first..Len(line) /\ other \subseteq first..Len(line)
  BY DEF FlagsAt
<1> SUFFICES ASSUME T # {} PROVE FALSE
  OBVIOUS
<1>2. PICK i \in T : \A k \in T : i <= k
  <2>1. T \subseteq Nat
    BY <1>0, <1>1
  <2> HIDE DEF T
  <2> QED BY <2>1, LeastNumber
<1>3. i \in first..Len(line) /\ i \in Nat /\ i - 1 \notin T
  BY <1>0, <1>1, <1>2
<1>4. i - 1 \in one <=> i - 1 \in other
  BY <1>3
<1>5. i \in one <=> i \in other
  BY <1>3, <1>4 DEF FlagsAt
<1> QED
  BY <1>2, <1>5

LEMMA PlacesAreFlagPlaces ==
  ASSUME argv \in Seq(Arguments), NEW places, FlagsAt(FirstFlag, argv, places)
  PROVE  /\ FlagPlaces(argv) = places
         /\ \A flag : Given(argv, flag) = {i \in places : argv[i] = flag}
<1> DEFINE all == SUBSET (FirstFlag..Len(argv))
           Fits(set) == \A i \in FirstFlag..Len(argv) :
                          i \in set <=> ~(i - 1 \in set /\ argv[i - 1] \in Valued)
<1>1. FirstFlag \in Nat
  BY DEF FirstFlag
<1>2. \A set \in all : FlagsAt(FirstFlag, argv, set) <=> Fits(set)
  BY DEF FlagsAt
<1>3. places \in all /\ Fits(places)
  BY DEF FlagsAt
<1>4. \A set \in all : Fits(set) => set = places
  BY <1>1, <1>2, PlacesAreUnique
<1>5. (CHOOSE set \in all : Fits(set)) = places
  <2> HIDE DEF all, Fits
  <2> QED BY <1>3, <1>4
<1>6. FlagPlaces(argv) = places
  BY <1>5 DEF FlagPlaces
<1> QED
  BY <1>6 DEF Given

(* At most one member: at most one of each flag that may be given once.    *)
LEMMA AtMostOne ==
  ASSUME NEW n \in Nat, NEW S \in SUBSET (1..n)
  PROVE  Cardinality(S) <= 1 <=> \A i, j \in S : i = j
<1>1. IsFiniteSet(S) /\ Cardinality(S) \in Nat
  <2>1. IsFiniteSet(1..n)
    BY FS_Interval
  <2>2. IsFiniteSet(S)
    BY <2>1, FS_Subset
  <2> QED BY <2>2, FS_CardinalityType
<1>2. ASSUME \A i, j \in S : i = j PROVE Cardinality(S) <= 1
  <2>1. CASE S = {}
    BY <2>1, FS_EmptySet
  <2>2. CASE S # {}
    <3>1. PICK i \in S : TRUE
      BY <2>2
    <3>2. S = {i}
      BY <1>2, <3>1
    <3> QED BY <3>2, FS_Singleton
  <2> QED BY <2>1, <2>2
<1>3. ASSUME NEW i \in S, NEW j \in S, i # j PROVE ~(Cardinality(S) <= 1)
  <2>1. IsFiniteSet({i}) /\ Cardinality({i}) = 1
    BY FS_Singleton
  <2>2. Cardinality({i} \cup {j}) = 2
    BY <1>3, <2>1, FS_AddElement
  <2>3. Cardinality({i} \cup {j}) <= Cardinality(S)
    BY <1>1, FS_Subset
  <2> QED BY <1>1, <2>2, <2>3
<1> QED
  BY <1>2, <1>3

LEMMA SoundIsWellFormed ==
  ASSUME argv \in Seq(Arguments), NEW places, FlagsAt(FirstFlag, argv, places)
  PROVE  WellFormed(argv) <=> SoundFlags(argv, places)
<1> DEFINE At(flag) == {i \in places : argv[i] = flag}
<1>1. FlagPlaces(argv) = places /\ \A flag : Given(argv, flag) = At(flag)
  BY PlacesAreFlagPlaces
<1>2. (\A i \in places : SoundFlag(argv, i)) <=>
        \A i \in places :
          /\ argv[i] \in Switches \cup Valued
          /\ argv[i] \in Valued => i < Len(argv)
          /\ argv[i] = "--config" => argv[i + 1] # "" /\ argv[i + 1] \notin LongPaths
          /\ argv[i] = "--log-level" => argv[i + 1] \in LogLevels
  BY DEF SoundFlag
<1>3. \A flag : Cardinality(At(flag)) <= 1 <=> \A i, j \in At(flag) : i = j
  <2> TAKE flag
  <2>1. Len(argv) \in Nat /\ FirstFlag \in Nat \ {0}
    BY DEF FirstFlag
  <2>2. At(flag) \in SUBSET (1..Len(argv))
    <3>1. \A i \in places : i \in FirstFlag..Len(argv)
      BY DEF FlagsAt
    <3>2. \A i \in places : i \in 1..Len(argv)
      BY <2>1, <3>1
    <3> QED BY <3>2
  <2> HIDE DEF At
  <2> QED BY <2>1, <2>2, AtMostOne
<1>4. GivenOnce(argv, places) <=>
        \A flag \in Switches \cup {"--config"} : Cardinality(At(flag)) <= 1
  <2>1. (\A flag \in Switches \cup {"--config"} : Cardinality(At(flag)) <= 1)
          <=> \A flag \in Switches \cup {"--config"} : \A i, j \in At(flag) : i = j
    <3> HIDE DEF At
    <3> QED BY <1>3
  <2> QED BY <2>1 DEF GivenOnce
<1> QED
  <2>1. WellFormed(argv) <=>
          /\ \A i \in places : SoundFlag(argv, i)
          /\ \A flag \in Switches \cup {"--config"} : Cardinality(At(flag)) <= 1
    <3>1. \A flag : Given(argv, flag) = At(flag)
      BY <1>1
    <3> HIDE DEF At
    <3> QED BY <1>1, <1>2, <3>1 DEF WellFormed
  <2> QED BY <1>4, <2>1 DEF SoundFlags

LEMMA SoundFlagsHaveValues ==
  ASSUME NEW line, NEW places, SoundFlags(line, places), NEW i \in places, line[i] \in Valued
  PROVE  i < Len(line)
BY DEF SoundFlags, SoundFlag

(* The flags with a value, each for itself.                                *)
LEMMA ValuesAreSound ==
  ASSUME NEW line, NEW n \in Nat
  PROVE  /\ Len(line) = n + 1 /\ line[n + 1] \in Valued => ~SoundFlag(line, n + 1)
         /\ Len(line) = n + 2 /\ line[n + 1] = "--config" =>
              (SoundFlag(line, n + 1) <=> IsPath(line[n + 2]))
         /\ Len(line) = n + 2 /\ line[n + 1] = "--log-level" =>
              (SoundFlag(line, n + 1) <=> line[n + 2] \in LogLevels)
<1>1. "--config" \in Valued /\ "--log-level" \in Valued /\ "--config" # "--log-level"
  BY DEF Valued
<1>2. n + 1 + 1 = n + 2 /\ n + 1 < n + 2 /\ ~(n + 1 < n + 1)
  OBVIOUS
<1>3. ASSUME Len(line) = n + 1, line[n + 1] \in Valued PROVE ~SoundFlag(line, n + 1)
  BY <1>2, <1>3 DEF SoundFlag
<1>4. ASSUME Len(line) = n + 2, line[n + 1] = "--config"
      PROVE  SoundFlag(line, n + 1) <=> IsPath(line[n + 2])
  <2> DEFINE value == line[n + 2]
  <2>1. SoundFlag(line, n + 1) <=> value # "" /\ value \notin LongPaths
    <3>1. line[n + 1 + 1] = value /\ n + 1 < Len(line)
      BY <1>2, <1>4
    <3> HIDE DEF value
    <3> QED BY <1>1, <1>4, <3>1 DEF SoundFlag
  <2> QED BY <2>1 DEF IsPath
<1>5. ASSUME Len(line) = n + 2, line[n + 1] = "--log-level"
      PROVE  SoundFlag(line, n + 1) <=> line[n + 2] \in LogLevels
  BY <1>1, <1>2, <1>5 DEF SoundFlag
<1> QED
  BY <1>3, <1>4, <1>5

(* A flag is read, with its value or without: its place is the next one.   *)
LEMMA OneMoreFlag ==
  ASSUME NEW first \in Nat \ {0}, NEW line \in Seq(Arguments), NEW places,
         FlagsAt(first, line, places), SoundFlags(line, places), first <= Len(line) + 1,
         NEW longer \in Seq(Arguments), Len(longer) \in {Len(line) + 1, Len(line) + 2},
         \A i \in 1..Len(line) : longer[i] = line[i],
         Len(longer) = Len(line) + 2 => longer[Len(line) + 1] \in Valued
  PROVE  LET more == places \cup {Len(line) + 1}
         IN  /\ FlagsAt(first, longer, more)
             /\ \A i \in places : /\ i \in 1..Len(line) /\ longer[i] = line[i]
                                  /\ line[i] \in Valued => longer[i + 1] = line[i + 1]
             /\ \A i \in places : SoundFlag(longer, i)
<1> DEFINE n == Len(line)
           more == places \cup {n + 1}
<1>1. n \in Nat /\ places \subseteq first..n /\ Len(longer) \in {n + 1, n + 2}
  BY DEF FlagsAt
<1>2. \A i \in places : i \in first..n /\ i \in 1..n /\ (line[i] \in Valued => i < n)
  <2> TAKE i \in places
  <2>1. i \in first..n
    BY <1>1
  <2>2. i \in 1..n
    BY <1>1, <2>1
  <2>3. line[i] \in Valued => i < n
    BY SoundFlagsHaveValues
  <2> QED BY <2>1, <2>2, <2>3
<1>3. \A i \in places : longer[i] = line[i] /\ (line[i] \in Valued => longer[i + 1] = line[i + 1])
  BY <1>1, <1>2
<1>4. {"--config", "--log-level"} = Valued
  BY DEF Valued
<1>5. \A i \in places : SoundFlag(longer, i)
  <2> TAKE i \in places
  <2>1. SoundFlag(line, i) /\ i \in 1..n
    BY <1>2 DEF SoundFlags
  <2>2. line[i] \in Valued => i < Len(longer)
    BY <1>1, <1>2
  <2>3. line[i] = "--config" \/ line[i] = "--log-level" => line[i] \in Valued
    BY <1>4
  <2> HIDE DEF n
  <2> QED BY <1>3, <2>1, <2>2, <2>3 DEF SoundFlag
<1>6. \A i \in first..Len(longer) : i \in more <=> ~(i - 1 \in more /\ longer[i - 1] \in Valued)
  <2> SUFFICES ASSUME NEW i \in first..Len(longer)
               PROVE  i \in more <=> ~(i - 1 \in more /\ longer[i - 1] \in Valued)
    OBVIOUS
  <2>1. CASE i \in first..n
    <3>1. /\ i \in more <=> i \in places
          /\ i - 1 \in more <=> i - 1 \in places
      BY <1>1, <2>1
    <3>2. i - 1 \in places => longer[i - 1] = line[i - 1]
      BY <1>3
    <3>3. i \in places <=> ~(i - 1 \in places /\ line[i - 1] \in Valued)
      BY <2>1 DEF FlagsAt
    <3> HIDE DEF more
    <3> QED BY <3>1, <3>2, <3>3
  <2>2. CASE i = n + 1
    <3>1. ~(n \in more /\ longer[n] \in Valued)
      <4>1. n \in more => n \in places
        BY <1>1
      <4>2. n \in places => ~(longer[n] \in Valued)
        BY <1>1, <1>2, <1>3
      <4> QED BY <4>1, <4>2
    <3>2. i - 1 = n /\ i \in more
      BY <1>1, <2>2
    <3> QED BY <3>1, <3>2
  <2>3. CASE i = n + 2
    <3>1. i - 1 = n + 1 /\ i \notin more /\ Len(longer) = n + 2
      BY <1>1, <2>3
    <3>2. n + 1 \in more /\ longer[n + 1] \in Valued
      BY <3>1
    <3> QED BY <3>1, <3>2
  <2> QED BY <1>1, <2>1, <2>2, <2>3
<1>7. more \in SUBSET (first..Len(longer))
  <2>1. n + 1 \in first..Len(longer)
    BY <1>1
  <2>2. \A i \in places : i \in first..Len(longer)
    BY <1>1, <1>2
  <2> QED BY <2>1, <2>2
<1> QED
  BY <1>2, <1>3, <1>5, <1>6, <1>7 DEF FlagsAt

(* A flag that is accepted: it is sound, it is given for the first time if *)
(* it may be given once, and the options are those before with its effect. *)
Effect(flag, value, opts) ==
  CASE flag = "--config" -> [opts EXCEPT !.config_path = value]
    [] flag = "--log-level" -> [opts EXCEPT !.log_level = value]
    [] OTHER -> [opts EXCEPT !.switches = @ \cup {flag}]

LEMMA OneFlagMeans ==
  ASSUME NEW n \in Nat, NEW line, NEW longer, NEW places \in SUBSET (1..n),
         NEW opts \in OptionRecords, Meant(line, places, opts), GivenOnce(line, places),
         \A i \in places : /\ longer[i] = line[i]
                           /\ line[i] \in Valued => longer[i + 1] = line[i + 1],
         longer[n + 1] \in Switches \cup Valued,
         longer[n + 1] \in Switches => longer[n + 1] \notin opts.switches,
         longer[n + 1] = "--config" => \A i \in places : line[i] # "--config"
  PROVE  LET more == places \cup {n + 1}
         IN  /\ GivenOnce(longer, more)
             /\ Meant(longer, more, Effect(longer[n + 1], longer[n + 2], opts))
<1> DEFINE flag == longer[n + 1]
           value == longer[n + 2]
           more == places \cup {n + 1}
           new == Effect(flag, value, opts)
<1>1. /\ Valued = {"--config", "--log-level"} /\ "--config" \notin Switches
      /\ "--log-level" \notin Switches /\ "--config" # "--log-level"
  BY DEF Valued, Switches
<1>2. /\ \A i \in places : i \in Nat /\ i < n + 1 /\ longer[i] = line[i]
      /\ \A i \in places : line[i] = "--config" \/ line[i] = "--log-level"
                             => longer[i + 1] = line[i + 1]
  BY <1>1
<1>3. n + 1 \in more /\ \A i \in more : i \in places \/ i = n + 1
  OBVIOUS
<1>4. GivenOnce(longer, more)
  <2> SUFFICES ASSUME NEW i \in more, NEW j \in more, longer[i] = longer[j],
                      longer[i] \in Switches \cup {"--config"}
               PROVE  i = j
    BY DEF GivenOnce
  <2>1. CASE i \in places /\ j \in places
    BY <1>2, <2>1 DEF GivenOnce
  <2>2. ASSUME NEW k \in places, line[k] = flag, flag \in Switches \cup {"--config"}
        PROVE  FALSE
    <3>1. CASE flag = "--config"
      BY <2>2, <3>1
    <3>2. CASE flag \in Switches
      <4>1. flag \in opts.switches
        BY <2>2, <3>2 DEF Meant
      <4> QED BY <3>2, <4>1
    <3> QED BY <2>2, <3>1, <3>2
  <2> QED BY <1>2, <2>1, <2>2
<1>5. /\ opts.switches = {s \in Switches : \E i \in places : line[i] = s}
      /\ \A i \in places : line[i] = "--config" => opts.config_path = line[i + 1]
      /\ (\A i \in places : line[i] # "--config") => opts.config_path = NULL
      /\ \A i \in places : LastLevel(line, places, i) => opts.log_level = line[i + 1]
      /\ (\A i \in places : line[i] # "--log-level") => opts.log_level = "INFO"
  BY DEF Meant
<1>6. /\ new.switches = IF flag \in Switches THEN opts.switches \cup {flag} ELSE opts.switches
      /\ new.config_path = IF flag = "--config" THEN value ELSE opts.config_path
      /\ new.log_level = IF flag = "--log-level" THEN value ELSE opts.log_level
  <2>1. CASE flag = "--config"
    BY <1>1, <2>1 DEF Effect, OptionRecords
  <2>2. CASE flag = "--log-level"
    BY <1>1, <2>2 DEF Effect, OptionRecords
  <2>3. CASE flag \in Switches
    BY <1>1, <2>3 DEF Effect, OptionRecords
  <2> QED BY <1>1, <2>1, <2>2, <2>3
<1>7. new.switches = {s \in Switches : \E i \in more : longer[i] = s}
  <2>1. \A s : (\E i \in more : longer[i] = s) <=> (\E i \in places : line[i] = s) \/ s = flag
    BY <1>2, <1>3
  <2> HIDE DEF more, flag, new
  <2> QED BY <1>5, <1>6, <2>1
<1>8. \A i \in more : longer[i] = "--config" => new.config_path = longer[i + 1]
  <2> SUFFICES ASSUME NEW i \in more, longer[i] = "--config"
               PROVE  new.config_path = longer[i + 1]
    OBVIOUS
  <2>1. CASE i = n + 1
    <3>1. i + 1 = n + 2
      BY <2>1
    <3> QED BY <1>6, <2>1, <3>1
  <2>2. CASE i \in places
    BY <1>2, <1>5, <1>6, <2>2
  <2> QED BY <1>3, <2>1, <2>2
<1>9. (\A i \in more : longer[i] # "--config") => new.config_path = NULL
  BY <1>2, <1>3, <1>5, <1>6
<1>10. \A i \in more : LastLevel(longer, more, i) => new.log_level = longer[i + 1]
  <2> SUFFICES ASSUME NEW i \in more, LastLevel(longer, more, i)
               PROVE  new.log_level = longer[i + 1]
    OBVIOUS
  <2>1. CASE i = n + 1
    <3>1. i + 1 = n + 2 /\ flag = "--log-level"
      BY <2>1 DEF LastLevel
    <3> QED BY <1>6, <2>1, <3>1
  <2>2. CASE i \in places
    <3>1. flag # "--log-level"
      <4>1. i \in Nat /\ i < n + 1
        BY <1>2, <2>2
      <4> QED BY <1>3, <4>1 DEF LastLevel
    <3>2. LastLevel(line, places, i)
      BY <1>2, <1>3, <2>2 DEF LastLevel
    <3>3. longer[i + 1] = line[i + 1]
      BY <1>2, <2>2, <3>2 DEF LastLevel
    <3> QED BY <1>5, <1>6, <2>2, <3>1, <3>2, <3>3
  <2> QED BY <1>3, <2>1, <2>2
<1>11. (\A i \in more : longer[i] # "--log-level") => new.log_level = "INFO"
  BY <1>2, <1>3, <1>5, <1>6
<1> QED
  BY <1>4, <1>7, <1>8, <1>9, <1>10, <1>11 DEF Meant

(* The flags, one by one.                                                  *)
FlagsRead(first, line, places, opts) ==
  FlagsAt(first, line, places) /\ SoundFlags(line, places) /\ Meant(line, places, opts)

LEMMA FlagIsAccepted ==
  ASSUME NEW first \in Nat \ {0}, NEW line \in Seq(Arguments), first <= Len(line) + 1,
         NEW opts \in OptionRecords, NEW places, FlagsRead(first, line, places, opts),
         NEW longer \in Seq(Arguments), Len(longer) \in {Len(line) + 1, Len(line) + 2},
         \A i \in 1..Len(line) : longer[i] = line[i],
         Len(longer) = Len(line) + 2 => longer[Len(line) + 1] \in Valued,
         longer[Len(line) + 1] \in Switches => longer[Len(line) + 1] \notin opts.switches,
         longer[Len(line) + 1] = "--config" => opts.config_path = NULL,
         SoundFlag(longer, Len(line) + 1)
  PROVE  FlagsRead(first, longer, places \cup {Len(line) + 1},
                   Effect(longer[Len(line) + 1], longer[Len(line) + 2], opts))
<1> DEFINE n == Len(line)
           more == places \cup {n + 1}
<1>1. FlagsAt(first, line, places) /\ SoundFlags(line, places) /\ Meant(line, places, opts)
  BY DEF FlagsRead
<1>2. /\ FlagsAt(first, longer, more) /\ \A i \in places : SoundFlag(longer, i)
      /\ \A i \in places : /\ i \in 1..n /\ longer[i] = line[i]
                           /\ line[i] \in Valued => longer[i + 1] = line[i + 1]
  <2>1. FlagsAt(first, longer, more) /\ \A i \in places : SoundFlag(longer, i)
    BY <1>1, OneMoreFlag
  <2>2. \A i \in places : /\ i \in 1..n /\ longer[i] = line[i]
                          /\ line[i] \in Valued => longer[i + 1] = line[i + 1]
    <3> TAKE i \in places
    <3>1. i \in 1..n /\ longer[i] = line[i]
      BY <1>1, OneMoreFlag
    <3>2. line[i] \in Valued => longer[i + 1] = line[i + 1]
      <4>1. n \in Nat /\ (line[i] \in Valued => i < n)
        BY <1>1, SoundFlagsHaveValues
      <4>2. line[i] \in Valued => i + 1 \in 1..n
        BY <3>1, <4>1
      <4> QED BY <4>2
    <3> QED BY <3>1, <3>2
  <2> QED BY <2>1, <2>2
<1>3. n \in Nat /\ places \in SUBSET (1..n) /\ longer[n + 1] \in Switches \cup Valued
  <2>1. \A i \in places : i \in 1..n
    BY <1>2
  <2>2. longer[n + 1] \in Switches \cup Valued
    BY DEF SoundFlag
  <2> QED BY <2>1, <2>2
<1>4. ASSUME longer[n + 1] = "--config", NEW i \in places, line[i] = "--config" PROVE FALSE
  <2>1. opts.config_path = line[i + 1] /\ opts.config_path = NULL
    BY <1>1, <1>4 DEF Meant
  <2>2. i < n
    <3>1. line[i] \in Valued
      BY <1>4 DEF Valued
    <3> QED BY <1>1, <3>1 DEF SoundFlags, SoundFlag
  <2>3. line[i + 1] \in Arguments
    <3>1. i + 1 \in 1..n
      BY <1>2, <1>3, <2>2
    <3> QED BY <3>1
  <2> QED BY <2>1, <2>3, CommandLineAssumption
<1>5. /\ GivenOnce(longer, more)
      /\ Meant(longer, more, Effect(longer[n + 1], longer[n + 2], opts))
  <2>1. GivenOnce(line, places)
    BY <1>1 DEF SoundFlags
  <2> HIDE DEF n
  <2> QED BY <1>1, <1>2, <1>3, <1>4, <2>1, OneFlagMeans DEF n
<1>6. SoundFlags(longer, more)
  <2>1. \A i \in more : i \in places \/ i = n + 1
    OBVIOUS
  <2> QED BY <1>2, <1>5, <2>1 DEF SoundFlags
<1> QED
  BY <1>2, <1>5, <1>6 DEF FlagsRead

(* A flag that is refused makes the line unsound.                          *)
LEMMA FlagIsRefused ==
  ASSUME NEW first \in Nat \ {0}, NEW line \in Seq(Arguments), first <= Len(line) + 1,
         NEW opts, NEW places, FlagsRead(first, line, places, opts),
         NEW longer \in Seq(Arguments), Len(longer) \in {Len(line) + 1, Len(line) + 2},
         \A i \in 1..Len(line) : longer[i] = line[i],
         Len(longer) = Len(line) + 2 => longer[Len(line) + 1] \in Valued,
         \/ ~SoundFlag(longer, Len(line) + 1)
         \/ longer[Len(line) + 1] \in opts.switches
         \/ longer[Len(line) + 1] = "--config" /\ opts.config_path # NULL
  PROVE  \E more \in SUBSET (first..Len(longer)) :
           FlagsAt(first, longer, more) /\ ~SoundFlags(longer, more)
<1> DEFINE n == Len(line)
           more == places \cup {n + 1}
           flag == longer[n + 1]
<1>1. FlagsAt(first, line, places) /\ SoundFlags(line, places) /\ Meant(line, places, opts)
  BY DEF FlagsRead
<1>2. /\ FlagsAt(first, longer, more)
      /\ \A i \in places : i \in 1..n /\ longer[i] = line[i]
  BY <1>1, OneMoreFlag
<1>3. n \in Nat /\ n + 1 \in more /\ n + 1 \notin places
  BY <1>2
<1>4. ASSUME NEW i \in places, line[i] = flag, flag \in Switches \cup {"--config"}
      PROVE  ~GivenOnce(longer, more)
  <2>1. i # n + 1 /\ i \in more /\ longer[i] = flag
    BY <1>2, <1>3, <1>4
  <2> HIDE DEF more
  <2> QED BY <1>3, <1>4, <2>1 DEF GivenOnce
<1>5. ASSUME ~SoundFlag(longer, n + 1) PROVE ~SoundFlags(longer, more)
  BY <1>3, <1>5 DEF SoundFlags
<1>6. ASSUME flag \in opts.switches PROVE ~SoundFlags(longer, more)
  <2>1. \E i \in places : line[i] = flag /\ flag \in Switches
    BY <1>1, <1>6 DEF Meant
  <2> QED BY <1>4, <2>1 DEF SoundFlags
<1>7. ASSUME flag = "--config", opts.config_path # NULL PROVE ~SoundFlags(longer, more)
  <2>1. \E i \in places : line[i] = "--config"
    BY <1>1, <1>7 DEF Meant
  <2> QED BY <1>4, <1>7, <2>1 DEF SoundFlags
<1>8. ~SoundFlags(longer, more)
  BY <1>5, <1>6, <1>7
<1>9. more \in SUBSET (first..Len(longer))
  BY <1>2 DEF FlagsAt
<1> HIDE DEF more
<1> QED
  BY <1>2, <1>8, <1>9

(* The command line, argument by argument.                                 *)
LEMMA FlagsAreRead ==
  ASSUME CommandInv, OptionsInv, stage = "flags",
         NEW flag \in Arguments, NEW tail \in Seq(Arguments),
         tail = <<flag>> \/ (flag \in Valued /\ \E value \in Arguments : tail = <<flag, value>>),
         argv' = argv \o tail, command' = command,
         \/ /\ SoundFlag(argv', Len(argv) + 1)
            /\ flag \in Switches => flag \notin options.switches
            /\ flag = "--config" => options.config_path = NULL
            /\ options' = Effect(flag, argv'[Len(argv) + 2], options)
            /\ stage' = "flags" /\ said' = said
         \/ /\ \/ ~SoundFlag(argv', Len(argv) + 1)
               \/ flag \in options.switches
               \/ flag = "--config" /\ options.config_path # NULL
            /\ stage' = "exited"
  PROVE  OptionsInv'
<1> DEFINE n == Len(argv)
<1>1. argv \in Seq(Arguments) /\ n \in Nat /\ FirstFlag <= n + 1 /\ FirstFlag \in Nat \ {0}
  BY DEF OptionsInv, FirstFlag
<1>2. /\ argv' \in Seq(Arguments) /\ Len(argv') \in {n + 1, n + 2}
      /\ \A i \in 1..n : argv'[i] = argv[i]
      /\ argv'[n + 1] = flag /\ (Len(argv') = n + 2 => flag \in Valued)
  <2>1. CASE tail = <<flag>>
    BY <1>1, <2>1
  <2>2. CASE flag \in Valued /\ \E value \in Arguments : tail = <<flag, value>>
    <3>1. PICK value \in Arguments : tail = <<flag, value>>
      BY <2>2
    <3> QED BY <1>1, <2>2, <3>1
  <2> QED BY <2>1, <2>2
<1>3. PICK places \in SUBSET (FirstFlag..n) : FlagsRead(FirstFlag, argv, places, options)
  BY DEF OptionsInv, FlagsRead
<1>4. FirstFlag' = FirstFlag /\ said = << >>
  BY DEF FirstFlag, CommandInv
<1>5. CASE /\ SoundFlag(argv', n + 1)
           /\ flag \in Switches => flag \notin options.switches
           /\ flag = "--config" => options.config_path = NULL
           /\ options' = Effect(flag, argv'[n + 2], options)
           /\ stage' = "flags" /\ said' = said
  <2>1. FlagsRead(FirstFlag, argv', places \cup {n + 1}, options')
    <3>1. options \in OptionRecords
      BY DEF CommandInv
    <3> QED BY <1>1, <1>2, <1>3, <1>5, <3>1, FlagIsAccepted
  <2>2. /\ FlagsAt(FirstFlag', argv', places \cup {n + 1})
        /\ SoundFlags(argv', places \cup {n + 1})
        /\ Meant(argv', places \cup {n + 1}, options')
    BY <1>4, <2>1 DEF FlagsRead
  <2>3. places \cup {n + 1} \in SUBSET (FirstFlag'..Len(argv'))
    BY <2>2 DEF FlagsAt
  <2>4. FirstFlag' <= Len(argv') + 1
    BY <1>1, <1>2, <1>4
  <2>5. said' # <<"usage">>
    BY <1>4, <1>5
  <2> QED BY <1>2, <1>5, <2>2, <2>3, <2>4, <2>5 DEF OptionsInv
<1>6. CASE /\ \/ ~SoundFlag(argv', n + 1)
              \/ flag \in options.switches
              \/ flag = "--config" /\ options.config_path # NULL
           /\ stage' = "exited"
  <2>1. \E more \in SUBSET (FirstFlag..Len(argv')) :
          FlagsAt(FirstFlag, argv', more) /\ ~SoundFlags(argv', more)
    BY <1>1, <1>2, <1>3, <1>6, FlagIsRefused
  <2> QED BY <1>2, <1>4, <1>6, <2>1 DEF OptionsInv
<1> QED
  BY <1>5, <1>6

LEMMA OptionsAreRead ==
  ASSUME CommandInv, OptionsInv, ReadCommandLine
  PROVE  OptionsInv'
<1>0. stage # "exited" => said = << >>
  BY DEF CommandInv
<1>1. CASE RefuseCount
  <2>1. argv' = argv /\ command' = command /\ command = "none" /\ stage' = "exited"
    BY <1>1 DEF RefuseCount, Usage, Exit, OptionsInv
  <2> QED BY <2>1 DEF OptionsInv
<1>2. ASSUME NEW text \in Arguments, ReadCommand(text) PROVE OptionsInv'
  <2>1. argv = << >> /\ argv' = <<text>> /\ options = NoOptions /\ options' = NoOptions
        /\ command = "none" /\ said = << >>
    BY <1>0, <1>2 DEF ReadCommand, OptionsInv
  <2>2. argv' \in Seq(Arguments) /\ Len(argv') = 1
    BY <2>1
  <2>3. CASE stage' = "exited" /\ command' = command
    BY <2>1, <2>2, <2>3 DEF OptionsInv
  <2>4. CASE Proceed("flags") /\ command' = "run_all"
    <3>1. FirstFlag' = 2
      BY <2>4 DEF FirstFlag
    <3>2. FlagsAt(2, argv', {}) /\ SoundFlags(argv', {}) /\ Meant(argv', {}, options')
      <4>1. 2..Len(argv') = {}
        BY <2>2
      <4> QED BY <2>1, <4>1 DEF FlagsAt, SoundFlags, GivenOnce, Meant, NoOptions
    <3> QED BY <2>1, <2>2, <2>4, <3>1, <3>2 DEF Proceed, OptionsInv
  <2>5. CASE Proceed("name") /\ command' \in {"scenario", "script"}
    BY <2>1, <2>2, <2>5 DEF Proceed, OptionsInv
  <2> QED BY <1>2, <2>3, <2>4, <2>5 DEF ReadCommand, Exit, Usage
<1>3. ASSUME NEW text \in Arguments, ReadName(text) PROVE OptionsInv'
  <2>1. /\ argv \in Seq(Arguments) /\ Len(argv) = 1 /\ argv' = Append(argv, text)
        /\ command' = command /\ command # "run_all" /\ options' = NoOptions
        /\ said' = << >> /\ stage' = "flags"
    BY <1>0, <1>3 DEF ReadName, Proceed, OptionsInv
  <2>2. argv' \in Seq(Arguments) /\ Len(argv') = 2
    <3>1. argv \in Seq(Arguments) /\ Len(argv) = 1 /\ text \in Arguments
      BY <1>3, <2>1
    <3>2. Append(argv, text) \in Seq(Arguments)
      BY <3>1
    <3>3. Len(Append(argv, text)) = 2
      BY <3>1
    <3> QED BY <2>1, <3>2, <3>3
  <2>3. FirstFlag' = 3
    BY <2>1 DEF FirstFlag
  <2>4. FlagsAt(3, argv', {}) /\ SoundFlags(argv', {}) /\ Meant(argv', {}, options')
    <3>1. 3..Len(argv') = {}
      BY <2>2
    <3> QED BY <2>1, <3>1 DEF FlagsAt, SoundFlags, GivenOnce, Meant, NoOptions
  <2> QED BY <2>1, <2>2, <2>3, <2>4 DEF OptionsInv
<1>4. ASSUME NEW text \in Arguments, ReadSwitch(text) PROVE OptionsInv'
  <2> DEFINE n == Len(argv)
  <2>1. /\ stage = "flags" /\ text \notin Valued /\ command' = command
        /\ argv' = Append(argv, text) /\ argv \in Seq(Arguments)
    BY <1>4 DEF ReadSwitch, OptionsInv
  <2>2. /\ argv' = argv \o <<text>> /\ <<text>> \in Seq(Arguments)
        /\ argv'[n + 1] = text /\ Len(argv') = n + 1
    BY <2>1
  <2>3. text # "--config" /\ text # "--log-level"
    BY <2>1 DEF Valued
  <2>4. CASE text \in Switches \ options.switches
    <3>1. SoundFlag(argv', n + 1)
      BY <2>1, <2>2, <2>3, <2>4 DEF SoundFlag
    <3>2. options' = Effect(text, argv'[n + 2], options)
      BY <1>4, <2>3, <2>4 DEF ReadSwitch, Effect
    <3>3. stage' = "flags" /\ said' = said
      BY <1>4, <2>4 DEF ReadSwitch, Proceed
    <3> HIDE DEF n
    <3> QED BY <2>1, <2>2, <2>3, <2>4, <3>1, <3>2, <3>3, FlagsAreRead DEF n
  <2>5. CASE text \notin Switches \ options.switches
    <3>1. ~SoundFlag(argv', n + 1) \/ text \in options.switches
      BY <2>1, <2>2, <2>5 DEF SoundFlag
    <3>2. stage' = "exited"
      BY <1>4, <2>5 DEF ReadSwitch, Usage, Exit
    <3> HIDE DEF n
    <3> QED BY <2>1, <2>2, <3>1, <3>2, FlagsAreRead DEF n
  <2> QED BY <2>4, <2>5
<1>5. ASSUME NEW text \in Arguments, RefuseMissingValue(text) PROVE OptionsInv'
  <2> DEFINE n == Len(argv)
  <2>1. /\ stage = "flags" /\ text \in Valued /\ command' = command /\ stage' = "exited"
        /\ argv' = Append(argv, text) /\ argv \in Seq(Arguments)
    BY <1>5 DEF RefuseMissingValue, Usage, Exit, OptionsInv
  <2>2. /\ argv' = argv \o <<text>> /\ <<text>> \in Seq(Arguments)
        /\ argv'[n + 1] = text /\ Len(argv') = n + 1 /\ n \in Nat
    BY <2>1
  <2>3. ~SoundFlag(argv', n + 1)
    BY <2>1, <2>2, ValuesAreSound
  <2> HIDE DEF n
  <2> QED BY <2>1, <2>2, <2>3, FlagsAreRead DEF n
<1>6. ASSUME NEW path \in Arguments, ReadConfigPath(path) PROVE OptionsInv'
  <2> DEFINE n == Len(argv)
  <2>1. /\ stage = "flags" /\ command' = command /\ argv' = argv \o <<"--config", path>>
        /\ argv \in Seq(Arguments)
    BY <1>6 DEF ReadConfigPath, OptionsInv
  <2>2. "--config" \in Valued /\ "--config" \notin Switches /\ "--config" \in Arguments
        /\ "--config" # "--log-level"
    BY CommandLineAssumption DEF Valued, Switches
  <2>3. /\ <<"--config", path>> \in Seq(Arguments)
        /\ argv'[n + 1] = "--config" /\ argv'[n + 2] = path /\ Len(argv') = n + 2 /\ n \in Nat
    BY <2>1, <2>2
  <2>4. SoundFlag(argv', n + 1) <=> IsPath(path)
    BY <2>3, ValuesAreSound
  <2>5. CASE options.config_path = NULL /\ IsPath(path)
    <3>1. options' = Effect("--config", argv'[n + 2], options)
      BY <1>6, <2>3, <2>5 DEF ReadConfigPath, Effect
    <3>2. stage' = "flags" /\ said' = said
      BY <1>6, <2>5 DEF ReadConfigPath, Proceed
    <3> HIDE DEF n
    <3> QED BY <2>1, <2>2, <2>3, <2>4, <2>5, <3>1, <3>2, FlagsAreRead DEF n
  <2>6. CASE ~(options.config_path = NULL /\ IsPath(path))
    <3>1. stage' = "exited"
      BY <1>6, <2>6 DEF ReadConfigPath, Usage, Exit
    <3> HIDE DEF n
    <3> QED BY <2>1, <2>2, <2>3, <2>4, <2>6, <3>1, FlagsAreRead DEF n
  <2> QED BY <2>5, <2>6
<1>7. ASSUME NEW level \in Arguments, ReadLogLevel(level) PROVE OptionsInv'
  <2> DEFINE n == Len(argv)
  <2>1. /\ stage = "flags" /\ command' = command /\ argv' = argv \o <<"--log-level", level>>
        /\ argv \in Seq(Arguments)
    BY <1>7 DEF ReadLogLevel, OptionsInv
  <2>2. "--log-level" \in Valued /\ "--log-level" \notin Switches
        /\ "--log-level" \in Arguments /\ "--log-level" # "--config"
    BY CommandLineAssumption DEF Valued, Switches
  <2>3. /\ <<"--log-level", level>> \in Seq(Arguments)
        /\ argv'[n + 1] = "--log-level" /\ argv'[n + 2] = level /\ Len(argv') = n + 2
        /\ n \in Nat
    BY <2>1, <2>2
  <2>4. SoundFlag(argv', n + 1) <=> level \in LogLevels
    BY <2>3, ValuesAreSound
  <2>5. CASE level \in LogLevels
    <3>1. options' = Effect("--log-level", argv'[n + 2], options)
      BY <1>7, <2>2, <2>3, <2>5 DEF ReadLogLevel, Effect
    <3>2. stage' = "flags" /\ said' = said
      BY <1>7, <2>5 DEF ReadLogLevel, Proceed
    <3> HIDE DEF n
    <3> QED BY <2>1, <2>2, <2>3, <2>4, <2>5, <3>1, <3>2, FlagsAreRead DEF n
  <2>6. CASE level \notin LogLevels
    <3>1. stage' = "exited"
      BY <1>7, <2>6 DEF ReadLogLevel, Usage, Exit
    <3> HIDE DEF n
    <3> QED BY <2>1, <2>2, <2>3, <2>4, <2>6, <3>1, FlagsAreRead DEF n
  <2> QED BY <2>5, <2>6
<1>8. CASE EndOfFlags
  BY <1>8 DEF EndOfFlags, Proceed, Index, OptionsInv, FirstFlag
<1> QED
  BY <1>1, <1>2, <1>3, <1>4, <1>5, <1>6, <1>7, <1>8 DEF ReadCommandLine, ReadArguments

LEMMA OptionsStep ==
  ASSUME CommandInv, OptionsInv, [FrontEndNext]_frontEndVars
  PROVE  OptionsInv'
<1>1. CASE ReadCommandLine
  BY <1>1, OptionsAreRead
<1>2. ASSUME stage = "options", argv' = << >>, command' = command,
             stage' \notin {"command", "name", "flags", "options"}, said' # <<"usage">>
      PROVE  OptionsInv'
  <2>1. argv' \in Seq(Arguments)
    BY <1>2
  <2> QED BY <1>2, <2>1 DEF OptionsInv
<1>3. /\ stage = "options" => said = << >>
      /\ << >> # <<"usage">> /\ Append(<< >>, "config error") # <<"usage">>
  <2>1. Append(<< >>, "config error") = <<"config error">>
    OBVIOUS
  <2>2. <<"config error">>[1] # <<"usage">>[1] /\ Len(<<"usage">>) # 0 /\ Len(<< >>) = 0
    OBVIOUS
  <2> QED BY <2>1, <2>2 DEF CommandInv
<1>4. CASE ApplyOptions
  BY <1>2, <1>3, <1>4 DEF ApplyOptions, StartCommand, Proceed
<1>5. ASSUME NEW file \in ConfigFiles, ApplyConfig(file) PROVE OptionsInv'
  <2>1. said' = said \/ said' = Append(said, "config error")
    BY <1>5 DEF ApplyConfig, StartCommand, Proceed, ConfigError, Say
  <2>2. /\ stage = "options" /\ argv' = << >> /\ command' = command
        /\ stage' \in {"script", "handed over", "exited"}
    BY <1>5 DEF ApplyConfig, StartCommand, Proceed
  <2> QED BY <1>2, <1>3, <2>1, <2>2
<1>6. ASSUME UNCHANGED <<argc, argv, command, options, said>>,
             stage' = stage \/ stage' \in {"script", "handed over", "refused"}
      PROVE  OptionsInv'
  BY <1>6 DEF OptionsInv, FirstFlag
<1>7. CASE ParseScript
  BY <1>6, <1>7 DEF ParseScript
<1>8. CASE Application
  BY <1>6, <1>8 DEF Application, commandVars
<1>9. CASE UNCHANGED frontEndVars
  BY <1>6, <1>9 DEF frontEndVars, commandVars
<1> QED
  BY <1>1, <1>4, <1>5, <1>7, <1>8, <1>9 DEF FrontEndNext

LEMMA OptionsInitially == FrontEndInit => OptionsInv
<1> SUFFICES ASSUME FrontEndInit PROVE OptionsInv
  OBVIOUS
<1>1. argv = << >> /\ command = "none" /\ options = NoOptions
      /\ stage \in {"command", "application"}
  BY DEF FrontEndInit, CommandLineInit
<1>2. argv \in Seq(Arguments)
  BY <1>1
<1> QED
  BY <1>1, <1>2 DEF OptionsInv

LEMMA OptionsAreMeant ==
  ASSUME OptionsInv
  PROVE  OptionsAreAsGiven
<1>1. ASSUME stage = "options"
      PROVE  /\ Len(argv) + 1 = argc /\ WellFormed(argv)
             /\ options.switches = {s \in Switches : Given(argv, s) # {}}
             /\ \A i \in Given(argv, "--config") : options.config_path = argv[i + 1]
             /\ Given(argv, "--config") = {} => options.config_path = NULL
             /\ \A i \in Given(argv, "--log-level") :
                  (\A j \in Given(argv, "--log-level") : j <= i) =>
                    options.log_level = argv[i + 1]
             /\ Given(argv, "--log-level") = {} => options.log_level = "INFO"
  <2>1. PICK places \in SUBSET (FirstFlag..Len(argv)) :
          /\ FlagsAt(FirstFlag, argv, places) /\ SoundFlags(argv, places)
          /\ Meant(argv, places, options)
    BY <1>1 DEF OptionsInv
  <2>2. argv \in Seq(Arguments) /\ Len(argv) + 1 = argc
    BY <1>1 DEF OptionsInv
  <2>3. WellFormed(argv) /\ \A flag : Given(argv, flag) = {i \in places : argv[i] = flag}
    BY <2>1, <2>2, SoundIsWellFormed, PlacesAreFlagPlaces
  <2>4. options.switches = {s \in Switches : Given(argv, s) # {}}
    <3>1. \A s \in Switches : Given(argv, s) # {} <=> \E i \in places : argv[i] = s
      BY <2>3
    <3> QED BY <2>1, <3>1 DEF Meant
  <2>5. /\ \A i \in Given(argv, "--config") : options.config_path = argv[i + 1]
        /\ Given(argv, "--config") = {} => options.config_path = NULL
    <3>1. Given(argv, "--config") = {i \in places : argv[i] = "--config"}
      BY <2>3
    <3> QED BY <2>1, <3>1 DEF Meant
  <2>6. /\ \A i \in Given(argv, "--log-level") :
             (\A j \in Given(argv, "--log-level") : j <= i) =>
               options.log_level = argv[i + 1]
        /\ Given(argv, "--log-level") = {} => options.log_level = "INFO"
    <3>1. Given(argv, "--log-level") = {i \in places : argv[i] = "--log-level"}
      BY <2>3
    <3> QED BY <2>1, <3>1 DEF Meant, LastLevel
  <2> QED BY <2>2, <2>3, <2>4, <2>5, <2>6
<1>2. ASSUME said = <<"usage">>, command # "none" PROVE ~WellFormed(argv)
  <2>1. PICK places \in SUBSET (FirstFlag..Len(argv)) :
          FlagsAt(FirstFlag, argv, places) /\ ~SoundFlags(argv, places)
    BY <1>2 DEF OptionsInv
  <2>2. argv \in Seq(Arguments)
    BY DEF OptionsInv
  <2> QED BY <2>1, <2>2, SoundIsWellFormed
<1> QED
  BY <1>1, <1>2 DEF OptionsAreAsGiven

-----------------------------------------------------------------------------
(***************************************************************************)
(* The invariant and what follows from it.                                 *)
(***************************************************************************)
FrontEndInv == /\ CommandInv /\ CalibrationInv /\ PhysicsInv /\ RunInv
               /\ ScriptInv /\ HandOverInv /\ GrammarInv /\ OptionsInv

(* The invariant above holds of every front end: its parts are preserved   *)
(* one by one, each by all of main(), the loaders and the parser.          *)
THEOREM FrontEndInvariance == FrontEndSpec => []FrontEndInv
<1>1. FrontEndInit => FrontEndInv
  <2>1. FrontEndInit => RunInv /\ HandOverInv
    BY DEF FrontEndInit, CommandLineInit, ConfigurationInit, RunInv, Untouched, HandOverInv
  <2> QED
    BY <2>1, CommandInitially, SettingsInitially, ParserInitially, GrammarInitially,
       OptionsInitially
       DEF FrontEndInit, FrontEndInv
<1>2. FrontEndInv /\ [FrontEndNext]_frontEndVars => FrontEndInv'
  BY CommandStep, CalibrationStep, PhysicsStep, RunStep, ScriptStep, GrammarStep, OptionsStep
     DEF FrontEndInv
<1> QED
  BY <1>1, <1>2, PTL DEF FrontEndSpec

(* Type correctness: in particular, the calibration and the physics the    *)
(* engine computes with are in range at all times.                         *)
THEOREM FrontEndTypes == FrontEndSpec => []FrontEndTypeOK
<1>1. FrontEndInv => FrontEndTypeOK
  <2> SUFFICES ASSUME FrontEndInv PROVE FrontEndTypeOK
    OBVIOUS
  <2>1. last_sensor \in Samples \cup {NoSample}
    BY DEF FrontEndInv, ScriptInv, EntriesInv, LastSampleIsLast
  <2>2. tick_count \in 0..MaxScriptTicks
    BY ParserAssumption DEF FrontEndInv, ScriptInv, EntriesInv, StatusInv
  <2>3. ParserTypeOK
    BY <2>1, <2>2 DEF FrontEndInv, ScriptInv, StatusInv, ParserTypeOK
  <2> QED
    BY <2>3 DEF FrontEndInv, CommandInv, CalibrationInv, PhysicsInv, FrontEndTypeOK
<1> QED
  BY <1>1, FrontEndInvariance, PTL

(* A command runs with the defaults or with the whole of a usable file     *)
(* (RunsAsConfigured), whatever the arguments and the files are.           *)
THEOREM RunsAreConfigured == FrontEndSpec => []RunsAsConfigured
<1>1. FrontEndInv => RunsAsConfigured
  BY DEF FrontEndInv, CommandInv, RunInv, Untouched, RunsAsConfigured
<1> QED
  BY <1>1, FrontEndInvariance, PTL

(* Nothing is taken from a file that is refused (LoadIsAllOrNothing), over *)
(* any number of loads.                                                    *)
THEOREM LoadsAreAtomic == FrontEndSpec => []LoadIsAllOrNothing
<1>1. FrontEndInv => LoadIsAllOrNothing
  BY DEF FrontEndInv, CalibrationInv, PhysicsInv, LoadIsAllOrNothing
<1> QED
  BY <1>1, FrontEndInvariance, PTL

(* Every script that is handed over can be run (ScriptIsRunnable), of any  *)
(* length and over any lines.                                              *)
THEOREM ScriptsAreRunnable == FrontEndSpec => []ScriptIsRunnable
<1>1. FrontEndInv => ScriptIsRunnable
  <2> SUFFICES ASSUME FrontEndInv PROVE ScriptIsRunnable
    OBVIOUS
  <2>1. entries \in Seq(Entries) /\ Len(entries) <= MaxScriptTicks /\ EntriesInOrder
    BY DEF FrontEndInv, ScriptInv, EntriesInv
  <2>2. ASSUME parser_status = "OK" PROVE Runnable(entries)
    <3>1. Len(entries) \in 1..MaxScriptTicks /\ Len(entries) <= CounterCap
      <4>1. Len(entries) \in Nat /\ Len(entries) # 0
        BY <2>1, <2>2 DEF FrontEndInv, ScriptInv, StatusInv
      <4> QED
        BY <2>1, <4>1, FrontEndAssumption, ParserAssumption, CounterAssumption
    <3>2. ASSUME NEW i \in 1..Len(entries)
          PROVE  entries[i].tick \in 1..MaxUInt /\ entries[i].frame.data \in SensorFrames
      <4>1. entries[i] \in Entries
        BY <2>1
      <4> QED
        BY <4>1 DEF Entries
    <3> QED
      BY <2>1, <3>1, <3>2 DEF Runnable, EntriesInOrder
  <2> QED
    BY <2>2 DEF FrontEndInv, ScriptInv, StatusInv, HandOverInv, ScriptIsRunnable
<1> QED
  BY <1>1, FrontEndInvariance, PTL

(* The options main() goes on with are what the arguments say, and a line  *)
(* that is refused after its command is not well-formed                    *)
(* (OptionsAreAsGiven): parse_optional_flags() reads any number of flags   *)
(* over any texts, values that look like flags among them.                 *)
THEOREM OptionsAsGiven == FrontEndSpec => []OptionsAreAsGiven
<1>1. FrontEndInv => OptionsAreAsGiven
  BY OptionsAreMeant DEF FrontEndInv
<1> QED
  BY <1>1, FrontEndInvariance, PTL

(* The parser decides the language of scripts (ParserAgreesWithGrammar):   *)
(* script_parser_parse_file() refuses a file at the first line that makes  *)
(* it unacceptable, and of any other has every directive in the list once, *)
(* in order, with the sample of the last sensor line up to it.             *)
THEOREM ParserDecidesGrammar == FrontEndSpec => []ParserAgreesWithGrammar
<1>1. FrontEndInv => ParserAgreesWithGrammar
  BY GrammarIsDecided DEF FrontEndInv
<1> QED
  BY <1>1, FrontEndInvariance, PTL

(* The calibration is written once: the front end implements WriteOnce     *)
(* (CalibrationIsWriteOnce).                                               *)
THEOREM CalibrationWrittenOnce == FrontEndSpec => CalibrationIsWriteOnce
<1>1. FrontEndInit => CalibrationSetting!Init
  BY DEF FrontEndInit, ConfigurationInit, CalibrationSetting!Init
<1>2. FrontEndInv /\ [FrontEndNext]_frontEndVars =>
        [CalibrationSetting!Next]_<<g_calibration, g_calibration_configured>>
  BY CalibrationStep DEF FrontEndInv
<1> QED
  BY <1>1, <1>2, FrontEndInvariance, PTL
     DEF FrontEndSpec, CalibrationIsWriteOnce, CalibrationSetting!Spec

(* The physics are written once too (PhysicsIsWriteOnce), and never with a *)
(* value that is not finite, which the loader does hand out.               *)
THEOREM PhysicsWrittenOnce == FrontEndSpec => PhysicsIsWriteOnce
<1>1. FrontEndInit => PhysicsSetting!Init
  BY DEF FrontEndInit, ConfigurationInit, PhysicsSetting!Init
<1>2. FrontEndInv /\ [FrontEndNext]_frontEndVars =>
        [PhysicsSetting!Next]_<<g_physics, g_physics_configured>>
  BY PhysicsStep DEF FrontEndInv
<1> QED
  BY <1>1, <1>2, FrontEndInvariance, PTL
     DEF FrontEndSpec, PhysicsIsWriteOnce, PhysicsSetting!Spec

-----------------------------------------------------------------------------
(***************************************************************************)
(* main() comes to its end: no step leaves as much to read as there was.   *)
(***************************************************************************)
ReadingInv ==
  /\ argc \in Nat /\ argv \in Seq(Arguments) /\ script \in Seq(LineTexts)
  /\ stage = "name" => Len(argv) + 1 < argc
  /\ stage = "flags" => Len(argv) < argc
  /\ stage = "script" => parser # "done" /\ Len(script) <= MaxLines
  /\ parser = "closed" => script = << >>
  /\ stage \notin {"script", "handed over", "refused"} => parser = "closed"
  /\ caller = "application" <=> stage = "application"
  /\ stage \in Stages /\ parser \in {"closed", "reading", "done"}

Ended == {"handed over", "refused", "exited"}

(* What one step of main() does to its place in what it reads.             *)
Consumes ==
  \/ stage' \in Ended
  \/ /\ stage = "command" /\ stage' \in {"name", "flags"} /\ Len(argv') = 1
     /\ IF stage' = "name" THEN 2 < argc ELSE 1 < argc
  \/ /\ stage \in {"name", "flags"} /\ stage' = "flags"
     /\ Len(argv') > Len(argv) /\ Len(argv') < argc
  \/ stage = "flags" /\ stage' = "options" /\ argv' = argv
  \/ stage = "options" /\ stage' = "script"

LEMMA ArgumentsAreConsumed ==
  ASSUME ReadingInv, ReadCommandLine, OptionsInv
  PROVE  /\ Consumes /\ stage \notin Ended \cup {"application"}
         /\ stage' \in {"name", "flags", "options", "exited"}
         /\ argc' = argc /\ argv' \in Seq(Arguments)
         /\ UNCHANGED <<parser, script, caller>>
<1>0. argc \in Nat /\ argv \in Seq(Arguments) /\ Len(argv) \in Nat
  <2>1. argc \in Nat /\ argv \in Seq(Arguments)
    BY DEF ReadingInv
  <2> QED
    BY <2>1
<1>1. argc' = argc /\ UNCHANGED <<parser, script, caller>>
  <2>1. UNCHANGED <<parser, script, caller>> /\ ReadArguments
    BY DEF ReadCommandLine, parserVars
  <2>2. CASE RefuseCount \/ EndOfFlags
    BY <2>1, <2>2 DEF RefuseCount, EndOfFlags
  <2>3. ASSUME NEW text \in Arguments,
               \/ ReadCommand(text) \/ ReadName(text) \/ ReadSwitch(text)
               \/ RefuseMissingValue(text) \/ ReadConfigPath(text) \/ ReadLogLevel(text)
        PROVE  argc' = argc
    BY <2>3 DEF ReadCommand, ReadName, ReadSwitch, RefuseMissingValue, ReadConfigPath,
                ReadLogLevel
  <2> QED
    BY <2>1, <2>2, <2>3 DEF ReadArguments
<1>2. ASSUME NEW text \in Arguments
      PROVE  /\ Append(argv, text) \in Seq(Arguments)
             /\ Len(Append(argv, text)) = Len(argv) + 1
  BY <1>0
<1>3. ASSUME NEW text \in Arguments, NEW flag \in Valued
      PROVE  /\ argv \o <<flag, text>> \in Seq(Arguments)
             /\ Len(argv \o <<flag, text>>) = Len(argv) + 2
  <2>1. flag \in Arguments
    BY CommandLineAssumption
  <2>2. <<flag, text>> \in Seq(Arguments) /\ Len(<<flag, text>>) = 2
    BY <2>1
  <2> QED
    BY <1>0, <2>2
<1> DEFINE Read == /\ Consumes /\ stage \notin Ended \cup {"application"}
                   /\ stage' \in {"name", "flags", "options", "exited"}
                   /\ argv' \in Seq(Arguments)
<1>4. ASSUME RefuseCount PROVE Read
  BY <1>0, <1>4 DEF RefuseCount, Usage, Exit, Consumes, Ended
<1>5. ASSUME NEW text \in Arguments, ReadCommand(text) PROVE Read
  <2>1. argv = << >> /\ stage = "command" /\ argc \in 2..MaxCliArgs
    BY <1>5 DEF ReadCommand, OptionsInv
  <2>2. argv' \in Seq(Arguments) /\ Len(argv') = 1
    BY <1>2, <1>5, <2>1 DEF ReadCommand
  <2>3. stage' \in {"name", "flags", "exited"} /\ (stage' = "name" => 2 < argc)
    BY <1>5 DEF ReadCommand, Usage, Exit, Proceed
  <2> QED
    <3>1. 1 < argc
      BY <1>0, <2>1, CommandLineAssumption
    <3> QED
      BY <2>1, <2>2, <2>3, <3>1 DEF Consumes, Ended
<1>6. ASSUME NEW text \in Arguments, ReadName(text) PROVE Read
  <2>1. stage = "name" /\ stage' = "flags" /\ argv' = Append(argv, text)
    BY <1>6 DEF ReadName, Proceed
  <2>2. Len(argv) + 1 < argc
    BY <2>1, <1>6 DEF ReadingInv
  <2> QED
    BY <1>0, <1>2, <2>1, <2>2 DEF Consumes, Ended
<1>7. ASSUME NEW text \in Arguments, ReadSwitch(text) PROVE Read
  <2>1. /\ stage = "flags" /\ stage' \in {"flags", "exited"} /\ argv' = Append(argv, text)
        /\ Len(argv) + 1 < argc
    BY <1>7 DEF ReadSwitch, Usage, Exit, Proceed, Index
  <2>2. argv' \in Seq(Arguments) /\ Len(argv') = Len(argv) + 1
    BY <1>2, <2>1
  <2>3. Len(argv') > Len(argv) /\ Len(argv') < argc
    BY <1>0, <2>1, <2>2
  <2> QED
    BY <2>1, <2>2, <2>3 DEF Consumes, Ended
<1>8. ASSUME NEW text \in Arguments, RefuseMissingValue(text) PROVE Read
  <2>1. stage = "flags" /\ stage' = "exited" /\ argv' = Append(argv, text)
    BY <1>8 DEF RefuseMissingValue, Usage, Exit
  <2> QED
    BY <1>2, <2>1 DEF Consumes, Ended
<1>9. ASSUME NEW text \in Arguments, ReadConfigPath(text) \/ ReadLogLevel(text) PROVE Read
  <2>1. PICK flag \in Valued : argv' = argv \o <<flag, text>>
    BY <1>9 DEF ReadConfigPath, ReadLogLevel, Valued
  <2>2. /\ stage = "flags" /\ stage' \in {"flags", "exited"}
        /\ Len(argv) + 1 + 1 < argc
    BY <1>9 DEF ReadConfigPath, ReadLogLevel, Usage, Exit, Proceed, Index
  <2>3. argv' \in Seq(Arguments) /\ Len(argv') = Len(argv) + 2
    BY <1>3, <2>1
  <2>4. Len(argv') > Len(argv) /\ Len(argv') < argc
    BY <1>0, <2>2, <2>3
  <2> QED
    BY <2>2, <2>3, <2>4 DEF Consumes, Ended
<1>10. ASSUME EndOfFlags PROVE Read
  BY <1>0, <1>10 DEF EndOfFlags, Proceed, Consumes, Ended
<1> QED
  BY <1>1, <1>4, <1>5, <1>6, <1>7, <1>8, <1>9, <1>10 DEF ReadCommandLine, ReadArguments

(* A line more, or the end of the script.                                  *)
LEMMA LinesAreConsumed ==
  ASSUME ReadingInv, ParseScript
  PROVE  /\ stage = "script" /\ stage' \in {"script", "handed over", "refused"}
         /\ UNCHANGED <<argc, argv, caller>>
         /\ script' \in Seq(LineTexts)
         /\ stage' = "script" =>
              /\ parser' = "reading" /\ Len(script') <= MaxLines
              /\ \/ parser = "closed" /\ Len(script') = 0
                 \/ parser = "reading" /\ Len(script') = Len(script) + 1
<1>0. /\ stage = "script" /\ parser # "done" /\ Len(script) <= MaxLines
      /\ script \in Seq(LineTexts) /\ Len(script) \in Nat /\ MaxLines \in Nat
      /\ parser = "closed" => script = << >>
  <2>1. script \in Seq(LineTexts) /\ stage = "script"
    BY DEF ParseScript, ReadingInv
  <2> QED
    BY <2>1, ParserAssumption DEF ReadingInv
<1>1. /\ UNCHANGED <<argc, argv, caller>> /\ ParserStep("--strict" \in options.switches)
      /\ stage' = CASE parser' # "done" -> "script"
                    [] parser' = "done" /\ parser_status' = "OK" -> "handed over"
                    [] parser' = "done" /\ parser_status' # "OK" -> "refused"
  BY DEF ParseScript
<1>2. stage' \in {"script", "handed over", "refused"} /\ (stage' = "script" => parser' # "done")
  BY <1>1
<1> DEFINE strict == "--strict" \in options.switches
           Read == /\ script' \in Seq(LineTexts)
                   /\ parser' # "done" =>
                        /\ parser' = "reading" /\ Len(script') <= MaxLines
                        /\ \/ parser = "closed" /\ Len(script') = 0
                           \/ parser = "reading" /\ Len(script') = Len(script) + 1
<1>3. ASSUME OpenScript PROVE Read
  BY <1>0, <1>3 DEF OpenScript, Finish
<1>4. ASSUME EndOfScript PROVE Read
  BY <1>0, <1>4 DEF EndOfScript, Finish
<1>5. ASSUME NEW text \in LineTexts, Take(text), StillReading \/ parser' = "done" PROVE Read
  <2>1. parser = "reading" /\ Len(script) < MaxLines /\ script' = Append(script, text)
    BY <1>5 DEF Take
  <2>2. script' \in Seq(LineTexts) /\ Len(script') = Len(script) + 1
    BY <1>0, <2>1
  <2>3. Len(script') <= MaxLines
    BY <1>0, <2>1, <2>2
  <2> QED
    BY <1>5, <2>1, <2>2, <2>3 DEF StillReading
<1>6. Read
  <2>1. ASSUME NEW text \in LineTexts,
               \/ SkipLine(text, strict) \/ AcceptSensorLine(text, strict)
               \/ AcceptCorruptLine(text, strict) \/ RefuseLine(text, strict)
        PROVE  Take(text) /\ (StillReading \/ parser' = "done")
    BY <2>1 DEF SkipLine, AcceptSensorLine, AcceptCorruptLine, RefuseLine, Finish
  <2> HIDE DEF Read
  <2> QED
    BY <1>1, <1>3, <1>4, <1>5, <2>1 DEF ParserStep
<1> QED
  BY <1>0, <1>1, <1>2, <1>6

LEMMA OptionsLeaveReading ==
  ASSUME ReadingInv, ApplyOptions \/ \E file \in ConfigFiles : ApplyConfig(file)
  PROVE  /\ stage = "options" /\ stage' \in {"script", "handed over", "exited"}
         /\ argv' = << >> /\ UNCHANGED <<argc, parser, script, caller>>
<1>1. CASE ApplyOptions
  BY <1>1 DEF ApplyOptions, StartCommand, Proceed, parserVars
<1>2. ASSUME NEW file \in ConfigFiles, ApplyConfig(file)
      PROVE  /\ stage = "options" /\ stage' \in {"script", "handed over", "exited"}
             /\ argv' = << >> /\ UNCHANGED <<argc, parser, script, caller>>
  <2>1. stage = "options" /\ argv' = << >> /\ UNCHANGED <<argc, parser, script, caller>>
    BY <1>2 DEF ApplyConfig, parserVars
  <2>2. stage' = "exited" \/ StartCommand
    BY <1>2 DEF ApplyConfig
  <2> QED
    BY <2>1, <2>2 DEF StartCommand, Proceed
<1> QED
  BY <1>1, <1>2

LEMMA ReadingInitially == FrontEndInit => ReadingInv
<1> SUFFICES ASSUME FrontEndInit PROVE ReadingInv
  OBVIOUS
<1>1. argv = << >> /\ script = << >> /\ parser = "closed"
  BY DEF FrontEndInit, CommandLineInit, ParserInit
<1>2. argc \in Nat
  BY CommandLineAssumption DEF FrontEndInit, CommandLineInit
<1>3. stage \in {"command", "application"} /\ (caller = "application" <=> stage = "application")
  BY DEF FrontEndInit, CommandLineInit
<1>4. << >> \in Seq(Arguments) /\ << >> \in Seq(LineTexts)
  OBVIOUS
<1> QED
  BY <1>1, <1>2, <1>3, <1>4 DEF ReadingInv, Stages

LEMMA ReadingStep ==
  ASSUME ReadingInv, OptionsInv, [FrontEndNext]_frontEndVars
  PROVE  ReadingInv'
<1>1. CASE ReadCommandLine
  <2>1. /\ Consumes /\ stage \notin Ended \cup {"application"}
        /\ stage' \in {"name", "flags", "options", "exited"}
        /\ argc' = argc /\ argv' \in Seq(Arguments) /\ UNCHANGED <<parser, script, caller>>
    BY <1>1, ArgumentsAreConsumed
  <2>2. stage \notin {"script", "handed over", "refused"}
    BY <1>1 DEF ReadCommandLine, ReadArguments, RefuseCount, ReadCommand, ReadName, ReadSwitch,
       RefuseMissingValue, ReadConfigPath, ReadLogLevel, EndOfFlags
  <2>3. /\ stage' = "name" => Len(argv') + 1 < argc'
        /\ stage' = "flags" => Len(argv') < argc'
    <3>1. stage' = "name" => stage = "command" /\ Len(argv') = 1 /\ 2 < argc
      BY <2>1 DEF Consumes, Ended
    <3>2. stage' = "flags" => Len(argv') < argc
      BY <2>1 DEF Consumes, Ended
    <3>3. argc \in Nat /\ argc' = argc
      BY <2>1 DEF ReadingInv
    <3>4. stage' = "name" => Len(argv') + 1 < argc
      <4>1. Len(argv') = 1 /\ 2 < argc => Len(argv') + 1 < argc
        BY <3>3
      <4> QED
        BY <3>1, <4>1
    <3> QED
      BY <3>2, <3>3, <3>4
  <2> QED
    BY <2>1, <2>2, <2>3 DEF ReadingInv, Stages
<1>2. CASE ApplyOptions \/ \E file \in ConfigFiles : ApplyConfig(file)
  <2>1. /\ stage = "options" /\ stage' \in {"script", "handed over", "exited"}
        /\ argv' = << >> /\ UNCHANGED <<argc, parser, script, caller>>
    BY <1>2, OptionsLeaveReading
  <2>2. parser = "closed" /\ script = << >>
    BY <2>1 DEF ReadingInv
  <2>3. Len(script) <= MaxLines /\ << >> \in Seq(Arguments)
    BY <2>2, ParserAssumption
  <2>4. parser' = "closed" /\ script' = << >> /\ Len(script') <= MaxLines
        /\ argv' \in Seq(Arguments)
    BY <2>1, <2>2, <2>3
  <2>5. argc' \in Nat /\ script' \in Seq(LineTexts) /\ caller' = caller
        /\ caller # "application"
    BY <2>1 DEF ReadingInv
  <2> QED
    BY <2>1, <2>4, <2>5 DEF ReadingInv, Stages
<1>3. CASE ParseScript
  <2>1. /\ stage = "script" /\ stage' \in {"script", "handed over", "refused"}
        /\ UNCHANGED <<argc, argv, caller>> /\ script' \in Seq(LineTexts)
        /\ stage' = "script" => parser' = "reading" /\ Len(script') <= MaxLines
    BY <1>3, LinesAreConsumed
  <2>2. parser' \in {"reading", "done"}
    BY <1>3 DEF ParseScript, ParserStep, OpenScript, SkipLine, AcceptSensorLine,
       AcceptCorruptLine, RefuseLine, EndOfScript, StillReading, Take, Finish
  <2> QED
    BY <2>1, <2>2 DEF ReadingInv, Stages
<1>4. CASE Application
  BY <1>4 DEF Application, commandVars, parserVars, ReadingInv
<1>5. CASE UNCHANGED frontEndVars
  BY <1>5 DEF frontEndVars, commandVars, parserVars, ReadingInv
<1> QED
  BY <1>1, <1>2, <1>3, <1>4, <1>5 DEF FrontEndNext

LEMMA ReadingCounts ==
  ASSUME ReadingInv, OptionsInv, FrontEndNext, caller = "program"
  PROVE  StepsToEnd \in Nat /\ StepsToEnd' < StepsToEnd
<1>0. MaxLines \in Nat /\ argc \in Nat /\ Len(argv) \in Nat /\ Len(script) \in Nat
  <2>1. argc \in Nat /\ argv \in Seq(Arguments) /\ script \in Seq(LineTexts)
    BY DEF ReadingInv
  <2> QED
    BY <2>1, ParserAssumption
<1>1. CASE ReadCommandLine
  <2>1. Consumes /\ argc' = argc /\ argv' \in Seq(Arguments) /\ UNCHANGED <<parser, script>>
    BY <1>1, ArgumentsAreConsumed
  <2>2. stage \in {"command", "name", "flags"}
    BY <1>1 DEF ReadCommandLine, ReadArguments, RefuseCount, ReadCommand, ReadName, ReadSwitch,
       RefuseMissingValue, ReadConfigPath, ReadLogLevel, EndOfFlags
  <2>3. Len(argv') \in Nat
    BY <2>1
  <2>4. StepsToEnd = IF stage = "command" THEN argc + MaxLines + 4
                     ELSE argc - Len(argv) + MaxLines + 4
    BY <2>2 DEF StepsToEnd
  <2>5. stage # "command" => argc - Len(argv) \in Nat \ {0}
    <3>1. stage # "command" => Len(argv) + 1 < argc \/ Len(argv) < argc
      BY <2>2 DEF ReadingInv
    <3> QED
      BY <1>0, <3>1
  <2>6. CASE stage' \in Ended
    <3>1. StepsToEnd' = 0
      BY <2>6 DEF StepsToEnd, Ended
    <3> QED
      BY <1>0, <2>4, <2>5, <3>1
  <2>7. CASE stage' \in {"name", "flags"}
    <3>1. StepsToEnd' = argc - Len(argv') + MaxLines + 4
      BY <2>1, <2>7 DEF StepsToEnd
    <3>2. IF stage = "command" THEN Len(argv') = 1 ELSE Len(argv') > Len(argv)
      BY <2>1, <2>2, <2>7 DEF Consumes, Ended
    <3> QED
      BY <1>0, <2>3, <2>4, <2>5, <3>1, <3>2
  <2>8. CASE stage' = "options"
    <3>1. StepsToEnd' = MaxLines + 4 /\ stage = "flags"
      BY <2>1, <2>8 DEF StepsToEnd, Consumes, Ended
    <3> QED
      BY <1>0, <2>4, <2>5, <3>1
  <2> QED
    BY <1>1, <2>6, <2>7, <2>8, ArgumentsAreConsumed DEF Ended
<1>2. CASE ApplyOptions \/ \E file \in ConfigFiles : ApplyConfig(file)
  <2>1. /\ stage = "options" /\ stage' \in {"script", "handed over", "exited"}
        /\ parser' = parser
    BY <1>2, OptionsLeaveReading
  <2>2. parser = "closed"
    BY <2>1 DEF ReadingInv
  <2>3. StepsToEnd = MaxLines + 4 /\ StepsToEnd' \in {0, MaxLines + 3}
    BY <2>1, <2>2 DEF StepsToEnd
  <2> QED
    BY <1>0, <2>3
<1>3. CASE ParseScript
  <2>1. /\ stage = "script" /\ stage' \in {"script", "handed over", "refused"}
        /\ stage' = "script" =>
              /\ parser' = "reading" /\ Len(script') <= MaxLines
              /\ \/ parser = "closed" /\ Len(script') = 0
                 \/ parser = "reading" /\ Len(script') = Len(script) + 1
    BY <1>3, LinesAreConsumed
  <2>2. StepsToEnd = IF parser = "closed" THEN MaxLines + 3 ELSE MaxLines - Len(script) + 2
    BY <2>1 DEF StepsToEnd
  <2>3. Len(script) <= MaxLines
    BY <2>1 DEF ReadingInv
  <2>4. StepsToEnd \in Nat \ {0, 1}
    BY <1>0, <2>2, <2>3
  <2>5. CASE stage' = "script"
    <3>1. StepsToEnd' = MaxLines - Len(script') + 2
      BY <2>1, <2>5 DEF StepsToEnd
    <3> QED
      BY <1>0, <2>1, <2>2, <2>4, <2>5, <3>1
  <2>6. CASE stage' # "script"
    <3>1. StepsToEnd' = 0
      BY <2>1, <2>6 DEF StepsToEnd
    <3> QED
      BY <2>4, <3>1
  <2> QED
    BY <2>5, <2>6
<1>4. ~Application
  BY DEF Application, ReadingInv
<1> QED
  BY <1>1, <1>2, <1>3, <1>4 DEF FrontEndNext

(* main() comes to its end: every step of it, of parse_optional_flags()    *)
(* and of script_parser_parse_file() leaves fewer steps than there were,   *)
(* whatever the arguments and the lines are.  This is the safety half of   *)
(* FrontEndTerminates, which the front-end run checks.                     *)
THEOREM EveryReadIsCounted == FrontEndSpec => EveryReadCounts
<1>1. FrontEndSpec => []ReadingInv
  <2>1. ReadingInv /\ FrontEndInv /\ [FrontEndNext]_frontEndVars => ReadingInv'
    BY ReadingStep DEF FrontEndInv
  <2> QED
    BY <2>1, ReadingInitially, FrontEndInvariance, PTL DEF FrontEndSpec
<1>2. ReadingInv /\ FrontEndInv /\ [FrontEndNext]_frontEndVars =>
        [caller = "program" => StepsToEnd \in Nat /\ StepsToEnd' < StepsToEnd]_frontEndVars
  BY ReadingCounts DEF FrontEndInv
<1> QED
  BY <1>1, <1>2, FrontEndInvariance, PTL DEF FrontEndSpec, EveryReadCounts
=============================================================================
