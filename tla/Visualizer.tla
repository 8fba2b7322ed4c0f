----------------------------- MODULE Visualizer -----------------------------
(***************************************************************************)
(* The visualizer's application loop, visualizer_app.c: a frame polls the  *)
(* keys and the mouse, moves the playhead and draws.                       *)
(*                                                                         *)
(* Time is counted in quarters of a second, so that a speed of half a tick *)
(* per second moves the playhead by one eighth of a tick.  What has no     *)
(* effect but a colour is left out: restart_feedback_timer, which nothing  *)
(* reads, and animated_mode_color.                                         *)
(***************************************************************************)
EXTENDS VisualizerLoader, VisualizerLayout, Playback

CONSTANTS
  Inputs,          \* what a frame may find: keys, mouse, window, time
  MinSpeed, MaxSpeed,  \* 1 and 20 ticks per second, in half ticks (2, 40)
  Debounce,        \* KEY_SCRUB_DEBOUNCE_SECONDS, in quarters (2)
  ScrubSpeed,      \* parts per quarter second at first (28)
  ScrubGain,       \* and for each quarter held on (9)
  ScrubMax         \* KEY_SCRUB_MAX_TICKS_PER_SECOND (84)

Keys == {"ESCAPE", "ENTER", "LEFT", "RIGHT", "UP", "DOWN", "SPACE", "R", "T", "TAB"}
InputRecords ==
  [pressed : SUBSET Keys, down : SUBSET {"LEFT", "RIGHT"},
   button : {"none", "pressed", "released"},
   pointer : [x : Int, y : Int], screen : [w : Nat \ {0}, h : Nat \ {0}], time : Nat \ {0}]

ASSUME VisualizerAssumption ==
  /\ Inputs \subseteq InputRecords
  /\ MinSpeed \in Nat \ {0} /\ MaxSpeed \in Nat
  /\ {ShortSpeed, DefaultSpeed} \subseteq MinSpeed..MaxSpeed
  /\ Debounce \in Nat /\ ScrubSpeed \in Nat \ {0} /\ ScrubGain \in Nat \ {0}
  /\ ScrubMax \in Nat /\ ScrubMax >= ScrubSpeed

VARIABLES
  active_index,  \* scenario_set.active_index, from one
  app,           \* VisualizerAppState
  shown          \* what the last frame drew: no picture yet, or one

vars == <<loaderVars, active_index, app, shown>>

Ticks(index) == scenarios[index].ticks

(* Faulty variant: the speed stays that of the scenario before.            *)
ResetAtOldSpeed(state, ticks) ==
  [state EXCEPT !.playhead = 0, !.paused = FALSE, !.dragging_slider = FALSE,
                !.hold_timer = 0, !.direction = 0]

(* reset_for_active_scenario(); a speed the user chose is kept.            *)
Reset(state, ticks) ==
  [state EXCEPT !.playhead = 0, !.paused = FALSE, !.dragging_slider = FALSE,
                !.hold_timer = 0, !.direction = 0,
                !.speed = IF state.speed_overridden THEN @ ELSE SpeedFor(ticks)]

InitialState ==
  [playhead |-> 0, speed |-> DefaultSpeed, hold_timer |-> 0, direction |-> 0,
   paused |-> FALSE, dragging_slider |-> FALSE, speed_overridden |-> FALSE,
   modal_open |-> FALSE, modal_yes |-> FALSE, should_quit |-> FALSE]

-----------------------------------------------------------------------------
(* handle_quit_modal_input()                                               *)

Closed(state) == [state EXCEPT !.modal_open = FALSE, !.modal_yes = FALSE]

(* Faulty variant: the dialog remembers the answer of the last time.       *)
ToggleModalAsLeft(state, pressed) ==
  IF "ESCAPE" \in pressed THEN [state EXCEPT !.modal_open = ~@] ELSE state

ToggleModal(state, pressed) ==
  IF "ESCAPE" \in pressed
  THEN [state EXCEPT !.modal_open = ~@, !.modal_yes = FALSE] ELSE state

SelectAnswer(state, pressed) ==
  CASE "RIGHT" \in pressed -> [state EXCEPT !.modal_yes = FALSE]
    [] "LEFT" \in pressed /\ "RIGHT" \notin pressed -> [state EXCEPT !.modal_yes = TRUE]
    [] OTHER -> state

(* Faulty variant: ENTER quits, whatever is selected.                      *)
ConfirmAnswerAnyway(state, pressed) ==
  IF "ENTER" \in pressed THEN [state EXCEPT !.should_quit = TRUE] ELSE state

ConfirmAnswer(state, pressed) ==
  CASE "ENTER" \in pressed /\ state.modal_yes -> [state EXCEPT !.should_quit = TRUE]
    [] "ENTER" \in pressed /\ ~state.modal_yes -> Closed(state)
    [] OTHER -> state

QuitModal(state, pressed) ==
  LET toggled == ToggleModal(state, pressed)
  IN  IF toggled.modal_open
      THEN ConfirmAnswer(SelectAnswer(toggled, pressed), pressed)
      ELSE toggled

-----------------------------------------------------------------------------
(* handle_playback_input(), key by key in the order of the code.           *)

Held(state, hold, direction) ==
  [state EXCEPT !.hold_timer = hold, !.direction = direction]
PlacedAt(state, playhead, paused) ==
  [state EXCEPT !.playhead = playhead, !.paused = paused]

PauseAndRestart(state, pressed) ==
  LET toggled == IF "SPACE" \in pressed THEN [state EXCEPT !.paused = ~@] ELSE state
  IN  IF "R" \in pressed THEN PlacedAt(toggled, 0, FALSE) ELSE toggled

(* To the next tick or the one before, never past the last or first.       *)
NextTick(playhead, end) == Least(Part * (playhead \div Part + 1), end)
PreviousTick(playhead) == Most(Part * ((playhead + Part - 1) \div Part - 1), 0)

(* current_key_scrub_speed(); the timer counts no further than the speed   *)
(* rises.                                                                  *)
HoldCap == Debounce + (ScrubMax - ScrubSpeed) \div ScrubGain + 1
Scrub(hold) == Least(ScrubSpeed + ScrubGain * Most(hold - Debounce, 0), ScrubMax)

Press(state, direction, playhead) ==
  PlacedAt(Held(state, 0, direction), playhead, TRUE)

Hold(state, direction, end, time) ==
  LET hold == IF state.direction = direction THEN Least(state.hold_timer + time, HoldCap) ELSE 0
      moved == state.playhead + direction * time * Scrub(hold)
  IN  IF hold >= Debounce
      THEN PlacedAt(Held(state, hold, direction), Most(Least(moved, end), 0), TRUE)
      ELSE Held(state, hold, direction)

StepKeys(state, end, pressed, down, time) ==
  CASE "RIGHT" \in pressed -> Press(state, 1, NextTick(state.playhead, end))
    [] "RIGHT" \in down \ pressed -> Hold(state, 1, end, time)
    [] "RIGHT" \notin down \cup pressed /\ "LEFT" \in pressed ->
         Press(state, -1, PreviousTick(state.playhead))
    [] "RIGHT" \notin down \cup pressed /\ "LEFT" \in down \ pressed ->
         Hold(state, -1, end, time)
    [] OTHER -> Held(state, 0, 0)

SpeedKeys(state, pressed) ==
  LET faster == IF "UP" \in pressed THEN Least(state.speed + 2, MaxSpeed) ELSE state.speed
      slower == IF "DOWN" \in pressed THEN Most(faster - 2, MinSpeed) ELSE faster
  IN  [state EXCEPT !.speed = slower,
                    !.speed_overridden = @ \/ {"UP", "DOWN"} \cap pressed # {}]

(* Faulty variant: the playhead stays where it was.                        *)
SwitchedInPlace(state, ticks, switch) ==
  IF switch THEN [Reset(state, ticks) EXCEPT !.playhead = state.playhead] ELSE state

Switched(state, ticks, switch) == IF switch THEN Reset(state, ticks) ELSE state

(* The position of the pointer along the slider, to the nearest tick.      *)
SliderTick(slider, x, ticks) ==
  LET along == Most(Least(Pixel * x - slider.x, slider.width), 0)
  IN  (2 * along * (Len(ticks) - 1) + slider.width) \div (2 * slider.width)

Drag(state, ticks, input) ==
  LET slider == Slider(input.screen, Scale(input.screen))
      grabbed == input.button = "pressed" /\ Inside(input.pointer, slider)
      moving == grabbed \/ (state.dragging_slider /\ input.button # "released")
      held == [state EXCEPT !.dragging_slider = moving, !.paused = @ \/ grabbed]
  IN  IF moving
      THEN PlacedAt(held, Part * SliderTick(slider, input.pointer.x, ticks), held.paused)
      ELSE held

(* Faulty variant: the quit dialog stops the playback.                     *)
AdvanceUnlessModal(state, ticks, time) ==
  IF ~state.paused /\ ~state.dragging_slider /\ ~state.modal_open
     /\ state.playhead < End(ticks)
  THEN [state EXCEPT !.playhead = Least(@ + time * state.speed, End(ticks))]
  ELSE state

(* update_playback()                                                       *)
Advance(state, ticks, time) ==
  IF ~state.paused /\ ~state.dragging_slider /\ state.playhead < End(ticks)
  THEN [state EXCEPT !.playhead = Least(@ + time * state.speed, End(ticks))]
  ELSE state

-----------------------------------------------------------------------------
VisualizerInit ==
  LoaderInit /\ active_index = 1 /\ app = InitialState /\ shown = << >>

Start ==
  /\ \/ ReadTheme \/ ReadPath \/ EndOfArguments
     \/ \E doc \in Documents : LoadFile(doc)
  /\ UNCHANGED <<active_index, app, shown>>

(* All files are loaded: visualizer_run() begins.                          *)
Run ==
  /\ stage = "loading" /\ paths = 0
  /\ stage' = "running" /\ app' = Reset(app, Ticks(1))
  /\ UNCHANGED <<arguments_left, theme, paths, files, scenarios, active_index, shown>>

Draw == shown' = <<Picture(Ticks(active_index'), app'.playhead)>>

(* With the quit dialog open a frame only advances the playback.           *)
ModalFrame(input) ==
  LET asked == QuitModal(app, input.pressed)
  IN  /\ asked.modal_open
      /\ app' = Advance(Held(asked, 0, 0), Ticks(active_index), input.time)
      /\ UNCHANGED <<theme, active_index>>

PlaybackFrame(input) ==
  LET asked == QuitModal(app, input.pressed)
      stepped == StepKeys(PauseAndRestart(asked, input.pressed), End(Ticks(active_index)),
                          input.pressed, input.down, input.time)
      switch == "TAB" \in input.pressed /\ Len(scenarios) > 1
      next == IF switch THEN (active_index % Len(scenarios)) + 1 ELSE active_index
      switched == Switched(SpeedKeys(stepped, input.pressed), Ticks(next), switch)
  IN  /\ ~asked.modal_open
      /\ theme' = IF "T" \in input.pressed THEN (theme % Len(Themes)) + 1 ELSE theme
      /\ active_index' = next
      /\ app' = Advance(Drag(switched, Ticks(next), input), Ticks(next), input.time)

Frame(input) ==
  /\ stage = "running" /\ ~app.should_quit
  /\ ModalFrame(input) \/ PlaybackFrame(input)
  /\ Draw
  /\ UNCHANGED <<stage, arguments_left, paths, files, scenarios>>

(* The loop ends: the quit dialog was confirmed, or the window closed.     *)
Close ==
  /\ stage = "running" /\ stage' = "closed"
  /\ UNCHANGED <<arguments_left, theme, paths, files, scenarios, active_index, app, shown>>

VisualizerNext == Start \/ Run \/ (\E input \in Inputs : Frame(input)) \/ Close

(* A frame in which the user does nothing.                                 *)
Idle(input) == input.pressed = {} /\ input.down = {} /\ input.button = "none"
IdleFrame == \E input \in Inputs : Idle(input) /\ Frame(input)

VisualizerSpec == VisualizerInit /\ [][VisualizerNext]_vars
(* The loop goes on drawing frames while the user does nothing.            *)
FairVisualizerSpec == VisualizerSpec /\ WF_vars(IdleFrame)
=============================================================================
