------------------------ MODULE VisualizerProperties ------------------------
(***************************************************************************)
(* What the visualizer promises whatever the user does, frame by frame:    *)
(* it shows what the documents say, at a position inside the scenario, and *)
(* its parts agree with each other and with the control law.               *)
(***************************************************************************)
EXTENDS Visualizer, Functions

StateRecords ==
  [playhead : Nat, speed : MinSpeed..MaxSpeed, hold_timer : 0..HoldCap,
   direction : {-1, 0, 1}, paused : BOOLEAN, dragging_slider : BOOLEAN,
   speed_overridden : BOOLEAN, modal_open : BOOLEAN, modal_yes : BOOLEAN,
   should_quit : BOOLEAN]

(* Every variable has its type; an answer is selected in an open dialog    *)
(* only, and the timer of a held key runs in one direction only.           *)
VisualizerTypeOK ==
  /\ stage \in {"arguments", "loading", "running", "closed", "failed"}
  /\ arguments_left \in 0..MaxArguments /\ paths \in 0..MaxArguments
  /\ theme \in DOMAIN Themes
  /\ app \in StateRecords
  /\ app.modal_yes \/ app.should_quit => app.modal_open
  /\ app.hold_timer > 0 => app.direction # 0

-----------------------------------------------------------------------------
(* Loading.                                                                *)

(* Scenarios of the files before one.                                      *)
Offset(f) == Cardinality(UNION {{g} \X DOMAIN files[g].scenarios : g \in 1..(f - 1)})

AsWritten(loaded, written) ==
  /\ \A key \in ScenarioKeys : written[key] \in {Missing, loaded[key]}
  /\ Len(loaded.ticks) = Len(written.ticks)
  /\ \A i \in DOMAIN written.ticks, key \in TickKeys :
       written.ticks[i][key] \in {Missing, loaded.ticks[i][key]}

Playable(scenario) ==
  /\ Len(scenario.ticks) \in 1..MAX_TICKS
  /\ \A i \in DOMAIN scenario.ticks : ValidTick(scenario.ticks[i])
  /\ \A i, j \in DOMAIN scenario.ticks :
       i < j => scenario.ticks[i].tick < scenario.ticks[j].tick

(* The set holds the scenarios of all files loaded so far, in order and no *)
(* more than there is room for; what a document says is what is loaded (a  *)
(* key it lacks apart), complete, in range and in the order of time; and   *)
(* the window never opens on anything less than all the files.             *)
LoadedAsWritten ==
  /\ Len(scenarios) = Offset(Len(files) + 1) /\ Len(scenarios) <= MAX_SCENARIOS
  /\ \A f \in DOMAIN files : \A s \in DOMAIN files[f].scenarios :
       AsWritten(scenarios[Offset(f) + s], files[f].scenarios[s])
  /\ \A s \in DOMAIN scenarios : Playable(scenarios[s])
  /\ stage \in {"running", "closed"} => paths = 0 /\ scenarios # << >>

-----------------------------------------------------------------------------
(* Playing.                                                                *)

Active == Ticks(active_index)
Running == stage = "running"

(* The playhead is inside the active scenario after every frame, whatever  *)
(* keys, drags and switches it saw: the reading is interpolated between    *)
(* two ticks that exist.                                                   *)
PlayheadInside ==
  Running => active_index \in DOMAIN scenarios /\ app.playhead \in 0..End(Active)

(* Nobody who left the speed alone gets the speed of another scenario.     *)
SpeedFitsScenario ==
  Running /\ ~app.speed_overridden => app.speed = SpeedFor(Active)

(* The parts of a picture speak of the same tick: the status panel, the    *)
(* tick counter and the fault rates; the rates do not add up to more than  *)
(* all, the notice of the end is there exactly with the last reading, and  *)
(* the time axis names the first and the last tick and nothing twice.      *)
DisplayAgrees ==
  /\ \A picture \in Range(shown) :
       /\ picture.status = picture.label /\ picture.label \in DOMAIN Active
       /\ picture.warning.of = picture.label /\ picture.shutdown.of = picture.label
       /\ picture.warning.faults + picture.shutdown.faults <= picture.label
       /\ picture.ended => /\ picture.label = Len(Active)
                           /\ \A k \in {"rpm", "temp", "oil"} :
                                picture.reading[k] = Part * Active[Len(Active)][k]
  /\ \A s \in DOMAIN scenarios, room \in 2..MAX_TICKS :
       LET n == Len(Ticks(s))
           labels == AxisLabels(n, room)
       IN  n > 1 => /\ labels[1] = 1 /\ labels[Len(labels)] = n
                    /\ \A i \in 2..Len(labels) : labels[i - 1] < labels[i]

Scaled(cal) == [cal EXCEPT !.temperature_limit = Part * @, !.oil_pressure_limit = Part * @,
                           !.high_rpm_warning_threshold = Part * @,
                           !.high_temp_warning_threshold = Part * @]
Sample(reading) == [rpm |-> reading.rpm, temperature |-> reading.temp,
                    oil_pressure |-> reading.oil]

(* The colours of the meters, whose thresholds the visualizer keeps for    *)
(* itself, say of a reading what the control law says of it under the      *)
(* default calibration.                                                    *)
MetersAgreeWithControl ==
  \A picture \in Range(shown) :
    LET fault(f) == FaultActive(Scaled(DefaultCalibration), Sample(picture.reading), f)
    IN  /\ picture.meters.temp = "SHUTDOWN" <=> fault("TEMP")
        /\ picture.meters.oil = "SHUTDOWN" <=> fault("OIL")
        /\ picture.meters.rpm = "WARNING" <=> fault("COMBINED")

(* An open quit dialog keeps every key from the playback, and the program  *)
(* quits only from a dialog in which YES is selected.                      *)
ModalIsModal ==
  [][Running /\ app'.modal_open =>
       /\ UNCHANGED <<theme, active_index>>
       /\ app'.speed = app.speed /\ app'.paused = app.paused
       /\ app'.playhead >= app.playhead
       /\ app'.should_quit => app'.modal_yes]_vars

(* Left alone, a playback that is neither paused nor held by the slider    *)
(* runs to its end and stays there, with the quit dialog open or not.      *)
PlaybackFinishes ==
  <>[][IdleFrame]_vars =>
    <>[](~Running \/ app.should_quit \/ app.paused \/ app.dragging_slider
           \/ app.playhead = End(Active))
=============================================================================
