--------------------------- MODULE Configuration ---------------------------
(***************************************************************************)
(* The loaders of src/src/app/config.c and the settings they are for: the  *)
(* calibration of control.c and the physics of engine.c, module-level      *)
(* state that is written at most once.                                     *)
(*                                                                         *)
(* A configuration file is seen as its "key": value pairs in the order of  *)
(* the text, whatever object they are in: the readers look for the first   *)
(* occurrence of a key at any depth.                                       *)
(***************************************************************************)
EXTENDS Control, Sequences, TextNumbers

CONSTANT ConfigFiles   \* configuration files considered

PhysicsKeys == DOMAIN DefaultPhysics
KnownKeys == PhysicsKeys \cup
  {"temperature_limit", "oil_pressure_limit", "persistence_ticks",
   "combined_warning_persistence_ticks", "physics"}
(* Any key that is not known, a quoted text of 64 characters or more, and  *)
(* a quote that is not closed: all are refused alike.                      *)
UnknownKey == "unknown"

(* What may go wrong with a file: it cannot be opened, read or closed, or  *)
(* it has CONFIG_FILE_MAX_BYTES or more.                                   *)
FileFaults == {"none", "open", "read", "size", "close"}

ASSUME ConfigAssumption ==
  \A file \in ConfigFiles :
    /\ file.fault \in FileFaults
    /\ file.entries \in Seq([key : KnownKeys \cup {UnknownKey}, value : Texts])

-----------------------------------------------------------------------------
(* Reading a file.                                                         *)

Has(file, key) == \E i \in DOMAIN file.entries : file.entries[i].key = key

(* The text after the first occurrence of a key; a key that is missing     *)
(* reads like one without a number.                                        *)
Field(file, key) ==
  LET places == {i \in DOMAIN file.entries : file.entries[i].key = key}
  IN  IF places = {} THEN NotANumber
      ELSE file.entries[CHOOSE i \in places : \A j \in places : i <= j].value

IsFloat(file, key) == ReadsAsFloat(Field(file, key))
IsUInt(file, key) == ReadsAsUInt(Field(file, key))

Loaded(status, value) == [status |-> status, value |-> value]

(* The persistence of the combined fault may be overridden; an override    *)
(* that does not read is passed over.                                      *)
CalibrationOf(file) ==
  [DefaultCalibration EXCEPT
     !.temperature_limit = Field(file, "temperature_limit"),
     !.oil_pressure_limit = Field(file, "oil_pressure_limit"),
     !.persistence =
       [f \in Faults |->
          IF f = "COMBINED" /\ IsUInt(file, "combined_warning_persistence_ticks")
          THEN Field(file, "combined_warning_persistence_ticks")
          ELSE Field(file, "persistence_ticks")]]

CalibrationReadable(file) ==
  /\ ~Has(file, UnknownKey)
  /\ IsFloat(file, "temperature_limit")
  /\ IsFloat(file, "oil_pressure_limit")
  /\ IsUInt(file, "persistence_ticks")

(* Faulty variant: the limits are read into the caller's calibration.      *)
LoadCalibrationInPlace(file, out) ==
  CASE file.fault \in {"open", "read", "close"} -> Loaded("IO_ERROR", out)
    [] file.fault = "size" -> Loaded("PARSE_ERROR", out)
    [] file.fault = "none" /\ ~CalibrationReadable(file) ->
         Loaded("PARSE_ERROR",
                IF IsFloat(file, "temperature_limit")
                THEN [out EXCEPT !.temperature_limit = Field(file, "temperature_limit")]
                ELSE out)
    [] file.fault = "none" /\ CalibrationReadable(file) -> Loaded("OK", CalibrationOf(file))

(* config_load_calibration_file(): status, and what the caller's           *)
(* calibration is afterwards.                                              *)
LoadCalibration(file, out) ==
  CASE file.fault \in {"open", "read", "close"} -> Loaded("IO_ERROR", out)
    [] file.fault = "size" -> Loaded("PARSE_ERROR", out)
    [] file.fault = "none" /\ ~CalibrationReadable(file) -> Loaded("PARSE_ERROR", out)
    [] file.fault = "none" /\ CalibrationReadable(file) -> Loaded("OK", CalibrationOf(file))

(* A physics section may set some of the parameters: any one will do.      *)
PhysicsOf(file) ==
  [k \in PhysicsKeys |-> IF IsFloat(file, k) THEN Field(file, k) ELSE DefaultPhysics[k]]

(* Not positive, as the C comparison sees it: NaN and infinity pass.       *)
NotPositive(value) == value # NotFinite /\ value <= 0

PhysicsReadable(file) ==
  /\ \E k \in PhysicsKeys : IsFloat(file, k)
  /\ \A k \in PhysicsKeys : ~NotPositive(PhysicsOf(file)[k])

(* config_load_physics_file(): unknown keys and a failing close are not    *)
(* looked at, and without a physics section the defaults are handed out.   *)
LoadPhysics(file, out) ==
  CASE file.fault \in {"open", "read"} -> Loaded("IO_ERROR", out)
    [] file.fault = "size" -> Loaded("PARSE_ERROR", out)
    [] file.fault \in {"none", "close"} /\ ~Has(file, "physics") ->
         Loaded("OK", DefaultPhysics)
    [] file.fault \in {"none", "close"} /\ Has(file, "physics") ->
         IF PhysicsReadable(file) THEN Loaded("OK", PhysicsOf(file))
         ELSE Loaded("PARSE_ERROR", out)

-----------------------------------------------------------------------------
(* The settings.                                                           *)

VARIABLES
  g_calibration, g_calibration_configured,   \* control.c
  g_physics, g_physics_configured,           \* engine.c
  calibration_out, physics_out               \* the structs of their caller

settings == <<g_calibration, g_calibration_configured, g_physics, g_physics_configured>>
configVars == <<settings, calibration_out, physics_out>>

(* physics_valid()                                                         *)
PhysicsValid(physics) == \A k \in PhysicsKeys : physics[k] \in Nat \ {0}

ConfigurationInit ==
  /\ g_calibration = DefaultCalibration /\ g_calibration_configured = FALSE
  /\ g_physics = DefaultPhysics /\ g_physics_configured = FALSE
  /\ calibration_out = DefaultCalibration /\ physics_out = DefaultPhysics

(* Faulty variant: a second configuration is not refused.                  *)
ConfigureCalibrationAgain(calibration) ==
  /\ IF CalibrationValid(calibration)
     THEN g_calibration' = calibration /\ g_calibration_configured' = TRUE
     ELSE UNCHANGED <<g_calibration, g_calibration_configured>>
  /\ UNCHANGED <<g_physics, g_physics_configured>>

(* control_configure_calibration(): refused when invalid, and when done    *)
(* before.                                                                 *)
ConfigureCalibration(calibration) ==
  /\ IF CalibrationValid(calibration) /\ ~g_calibration_configured
     THEN g_calibration' = calibration /\ g_calibration_configured' = TRUE
     ELSE UNCHANGED <<g_calibration, g_calibration_configured>>
  /\ UNCHANGED <<g_physics, g_physics_configured>>

ResetCalibration ==
  /\ g_calibration' = DefaultCalibration /\ g_calibration_configured' = FALSE
  /\ UNCHANGED <<g_physics, g_physics_configured, calibration_out, physics_out>>

(* Faulty variant: what the loader accepted is taken as it is.             *)
ConfigurePhysicsUnchecked ==
  /\ IF ~g_physics_configured
     THEN g_physics' = physics_out /\ g_physics_configured' = TRUE
     ELSE UNCHANGED <<g_physics, g_physics_configured>>
  /\ UNCHANGED <<g_calibration, g_calibration_configured, calibration_out, physics_out>>

(* engine_configure_physics()                                              *)
ConfigurePhysics ==
  /\ IF ~g_physics_configured /\ PhysicsValid(physics_out)
     THEN g_physics' = physics_out /\ g_physics_configured' = TRUE
     ELSE UNCHANGED <<g_physics, g_physics_configured>>
  /\ UNCHANGED <<g_calibration, g_calibration_configured, calibration_out, physics_out>>

ResetPhysics ==
  /\ g_physics' = DefaultPhysics /\ g_physics_configured' = FALSE
  /\ UNCHANGED <<g_calibration, g_calibration_configured, calibration_out, physics_out>>

(* An application that is built on the modules may call them in any order. *)
LoadCalibrationFile(file) ==
  /\ calibration_out' = LoadCalibration(file, calibration_out).value
  /\ UNCHANGED <<settings, physics_out>>

LoadPhysicsFile(file) ==
  /\ physics_out' = LoadPhysics(file, physics_out).value
  /\ UNCHANGED <<settings, calibration_out>>

ApplicationStep ==
  \/ \E file \in ConfigFiles : LoadCalibrationFile(file)
  \/ \E file \in ConfigFiles : LoadPhysicsFile(file)
  \/ ConfigureCalibration(calibration_out) /\ UNCHANGED <<calibration_out, physics_out>>
  \/ ResetCalibration
  \/ ConfigurePhysics
  \/ ResetPhysics
=============================================================================
