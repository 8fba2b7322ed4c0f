-------------------------- MODULE VisualizerProofs --------------------------
(***************************************************************************)
(* The visualizer is proved about: its layout for windows of any size, its *)
(* playback for any documents and any input.                               *)
(***************************************************************************)
EXTENDS VisualizerProperties, FiniteSetTheorems, WellFoundedInduction, TLAPS

(***************************************************************************)
(* Layout.                                                                 *)
(***************************************************************************)

Screens == [w : Nat \ {0}, h : Nat \ {0}]
Window(screen) == Rectangle(0, 0, Pixel * screen.w, Pixel * screen.h)

Visible(r) == r.width > 0 /\ r.height > 0
Within(r, outer) ==
  /\ r.x >= outer.x /\ r.x + r.width <= outer.x + outer.width
  /\ r.y >= outer.y /\ r.y + r.height <= outer.y + outer.height
LeftOf(r, other) == r.x + r.width <= other.x
Above(r, other) == r.y + r.height <= other.y

(* The panels are side by side inside the window, above the timeline.      *)
PanelsFit(screen) ==
  LET s == Scale(screen)
      gauges == GaugesPanel(screen, s)
      metrics == MetricsArea(screen, s)
      timeline == Timeline(screen, s)
  IN  /\ \A r \in {gauges, metrics, timeline} : Visible(r) /\ Within(r, Window(screen))
      /\ LeftOf(gauges, metrics)
      /\ Above(gauges, timeline) /\ Above(metrics, timeline)

(* Each meter has its row of the gauges panel, its value right of its bar. *)
MetersFit(screen) ==
  LET s == Scale(screen)
  IN  \A row \in 0..2 :
        /\ Visible(Bar(screen, s, row)) /\ Visible(Value(screen, s, row))
        /\ Within(Bar(screen, s, row), GaugesPanel(screen, s))
        /\ Within(Value(screen, s, row), GaugesPanel(screen, s))
        /\ LeftOf(Bar(screen, s, row), Value(screen, s, row))
        /\ \A next \in 0..2 : row < next => Above(Value(screen, s, row), Bar(screen, s, next))

(* The plot has a height and the slider a place below it, as wide.         *)
TimelineFits(screen) ==
  LET s == Scale(screen)
      plot == TimelinePlot(screen, s)
      slider == Slider(screen, s)
  IN  /\ \A r \in {plot, slider} : Visible(r) /\ Within(r, Timeline(screen, s))
      /\ Above(plot, slider)
      /\ plot.x = slider.x /\ plot.width = slider.width

(* All lengths of the layout grow with the scale, which is at most a       *)
(* 1280th of the width and a 720th of the height.                          *)
LEMMA ScaleBounds ==
  ASSUME NEW screen \in Screens
  PROVE  /\ Scale(screen) \in Nat \ {0}
         /\ 1280 * Scale(screen) <= Pixel * screen.w
         /\ 720 * Scale(screen) <= Pixel * screen.h
         /\ Pixel * screen.w \in Nat /\ Pixel * screen.h \in Nat
BY DEF Scale, Pixel, Screens

LEMMA PanelsFitTheWindow ==
  ASSUME NEW screen \in Screens
  PROVE  PanelsFit(screen)
<1> DEFINE s == Scale(screen)
           w == Pixel * screen.w
           h == Pixel * screen.h
<1>1. s \in Nat \ {0} /\ 1280 * s <= w /\ 720 * s <= h /\ w \in Nat /\ h \in Nat
  BY ScaleBounds
<1>2. /\ GaugesPanel(screen, s) = Rectangle(16 * s, 88 * s, w - 354 * s, 252 * s)
      /\ MetricsArea(screen, s) = Rectangle(w - 326 * s, 88 * s, 310 * s, 252 * s)
      /\ Timeline(screen, s) = Rectangle(16 * s, 354 * s, w - 32 * s, h - 370 * s)
      /\ Window(screen) = Rectangle(0, 0, w, h)
  BY <1>1 DEF GaugesPanel, MetricsArea, Timeline, PanelTop, Window
<1> HIDE DEF s, w, h
<1>3. PanelsFit(screen) <=>
        LET gauges == GaugesPanel(screen, s)
            metrics == MetricsArea(screen, s)
            timeline == Timeline(screen, s)
        IN  /\ \A r \in {gauges, metrics, timeline} : Visible(r) /\ Within(r, Window(screen))
            /\ LeftOf(gauges, metrics)
            /\ Above(gauges, timeline) /\ Above(metrics, timeline)
  BY DEF PanelsFit, s
<1> QED
  BY <1>1, <1>2, <1>3 DEF Rectangle, Visible, Within, LeftOf, Above

LEMMA TimelineFitsTheWindow ==
  ASSUME NEW screen \in Screens
  PROVE  TimelineFits(screen)
<1> DEFINE s == Scale(screen)
           w == Pixel * screen.w
           h == Pixel * screen.h
<1>1. s \in Nat \ {0} /\ 1280 * s <= w /\ 720 * s <= h /\ w \in Nat /\ h \in Nat
  BY ScaleBounds
<1>2. /\ Timeline(screen, s) = Rectangle(16 * s, 354 * s, w - 32 * s, h - 370 * s)
      /\ TimelinePlot(screen, s) = Rectangle(68 * s, 394 * s, w - 102 * s, h - 462 * s)
      /\ Slider(screen, s) = Rectangle(68 * s, h - 48 * s, w - 102 * s, 24 * s)
  BY <1>1 DEF Timeline, TimelinePlot, Slider, SliderTop
<1> HIDE DEF s, w, h
<1>3. TimelineFits(screen) <=>
        LET plot == TimelinePlot(screen, s)
            slider == Slider(screen, s)
        IN  /\ \A r \in {plot, slider} : Visible(r) /\ Within(r, Timeline(screen, s))
            /\ Above(plot, slider)
            /\ plot.x = slider.x /\ plot.width = slider.width
  BY DEF TimelineFits, s
<1> QED
  BY <1>1, <1>2, <1>3 DEF Rectangle, Visible, Within, Above

LEMMA MetersFitTheWindow ==
  ASSUME NEW screen \in Screens
  PROVE  MetersFit(screen)
<1> DEFINE s == Scale(screen)
           w == Pixel * screen.w
           b == BarWidth(screen, s)
<1>1. s \in Nat \ {0} /\ 1280 * s <= w /\ w \in Nat
  BY ScaleBounds
<1>2. GaugesPanel(screen, s) = Rectangle(16 * s, 88 * s, w - 354 * s, 252 * s)
  BY <1>1 DEF GaugesPanel, PanelTop
<1>3. b = ((w - 382 * s) * 17) \div 20
  BY <1>1, <1>2 DEF BarWidth, Rectangle
<1>4. b \in Int /\ b > 0 /\ b + 34 * s < w - 354 * s
  <2>1. w - 382 * s \in Nat /\ w - 382 * s >= 898 * s
    BY <1>1
  <2> HIDE DEF w, s, b
  <2> QED BY <1>1, <1>3, <2>1, SMTT(60)
<1> SUFFICES ASSUME NEW row \in 0..2, NEW next \in 0..2
             PROVE  /\ Visible(Bar(screen, s, row)) /\ Visible(Value(screen, s, row))
                    /\ Within(Bar(screen, s, row), GaugesPanel(screen, s))
                    /\ Within(Value(screen, s, row), GaugesPanel(screen, s))
                    /\ LeftOf(Bar(screen, s, row), Value(screen, s, row))
                    /\ row < next => Above(Value(screen, s, row), Bar(screen, s, next))
  BY DEF MetersFit
<1>5. \A r \in 0..2 :
        /\ Bar(screen, s, r) = Rectangle(30 * s, 88 * s + (60 + 42 * r) * s, b, 22 * s)
        /\ Value(screen, s, r) = Rectangle(36 * s + b, 88 * s + (60 + 42 * r) * s,
                                           w - 388 * s - b, 22 * s)
  <2> HIDE DEF b
  <2> QED BY <1>1, <1>2 DEF Bar, Value, PanelTop, Rectangle, b
<1>6. \A r \in 0..2 : (60 + 42 * r) * s \in {60 * s, 102 * s, 144 * s}
                      /\ (r = 0 => (60 + 42 * r) * s = 60 * s)
                      /\ (r = 1 => (60 + 42 * r) * s = 102 * s)
                      /\ (r = 2 => (60 + 42 * r) * s = 144 * s)
  BY <1>1
<1> HIDE DEF s, w, b
<1>7. row \in {0, 1, 2} /\ next \in {0, 1, 2}
  OBVIOUS
<1> QED
  BY <1>1, <1>2, <1>4, <1>5, <1>6, <1>7 DEF Rectangle, Visible, Within, LeftOf, Above

(* In a window of any size all that is drawn in a place of its own is in   *)
(* the window, has a size and overlaps nothing else: the slider, which the *)
(* mouse is compared with, can always be reached and is never of width 0.  *)
THEOREM LayoutFitsEveryWindow ==
  \A screen \in Screens : PanelsFit(screen) /\ MetersFit(screen) /\ TimelineFits(screen)
BY PanelsFitTheWindow, MetersFitTheWindow, TimelineFitsTheWindow

(***************************************************************************)
(* Playback: what every part of a frame leaves of the application's state. *)
(***************************************************************************)

(* The answers of the dialog and the timer of a held key make sense.       *)
Sound(state) ==
  /\ state \in StateRecords
  /\ state.should_quit => state.modal_yes
  /\ state.modal_yes => state.modal_open
  /\ state.hold_timer > 0 => state.direction # 0

Fits(state, ticks) ==
  /\ state.playhead <= End(ticks)
  /\ ~state.speed_overridden => state.speed = SpeedFor(ticks)

SameDialog(state, old) ==
  /\ state.modal_open = old.modal_open /\ state.modal_yes = old.modal_yes
  /\ state.should_quit = old.should_quit

(* A step of a frame in which no scenario is switched.                     *)
Kept(state, old, ticks) == Sound(state) /\ Fits(state, ticks) /\ SameDialog(state, old)

(* Ticks that can be played.                                               *)
Track(ticks) ==
  /\ Len(ticks) \in Nat \ {0} /\ DOMAIN ticks = 1..Len(ticks)
  /\ \A i \in 1..Len(ticks) : ValidTick(ticks[i])

LEMMA LeastMost ==
  ASSUME NEW a \in Int, NEW b \in Int
  PROVE  /\ Least(a, b) \in Int /\ Least(a, b) <= a /\ Least(a, b) <= b
         /\ Least(a, b) \in {a, b}
         /\ Most(a, b) \in Int /\ Most(a, b) >= a /\ Most(a, b) >= b
         /\ Most(a, b) \in {a, b}
BY DEF Least, Most

LEMMA EndIsNat ==
  ASSUME NEW ticks, Track(ticks)
  PROVE  End(ticks) \in Nat /\ End(ticks) = 8 * (Len(ticks) - 1)
BY DEF Track, End, Part

LEMMA HoldCapIsNat == HoldCap \in Nat
<1>1. ASSUME NEW a \in Nat, NEW b \in Nat \ {0}
      PROVE  a \div b \in Nat
  BY <1>1, Z3
<1> QED
  BY <1>1, VisualizerAssumption DEF HoldCap

LEMMA SpeedForIsASpeed ==
  ASSUME NEW ticks
  PROVE  SpeedFor(ticks) \in MinSpeed..MaxSpeed
BY VisualizerAssumption DEF SpeedFor

LEMMA QuitModalKeeps ==
  ASSUME NEW state, Sound(state), ~state.should_quit, NEW pressed
  PROVE  LET asked == QuitModal(state, pressed)
         IN  /\ Sound(asked)
             /\ asked.playhead = state.playhead /\ asked.speed = state.speed
             /\ asked.paused = state.paused
             /\ asked.speed_overridden = state.speed_overridden
             /\ ~asked.modal_open => ~asked.should_quit
BY DEF QuitModal, ToggleModal, SelectAnswer, ConfirmAnswer, Closed, Sound, StateRecords

LEMMA NextTickFacts ==
  ASSUME NEW playhead \in Nat, NEW end \in Nat
  PROVE  NextTick(playhead, end) \in 0..end
<1>1. 8 * (playhead \div 8 + 1) \in Nat
  OBVIOUS
<1>2. NextTick(playhead, end) = Least(8 * (playhead \div 8 + 1), end)
  BY DEF NextTick, Part
<1>3. ASSUME NEW n \in Nat
      PROVE  Least(n, end) \in 0..end
  BY DEF Least
<1> QED
  BY <1>1, <1>2, <1>3, Zenon

LEMMA PreviousTickFacts ==
  ASSUME NEW playhead \in Nat
  PROVE  PreviousTick(playhead) \in 0..playhead
<1> DEFINE before == 8 * ((playhead + 7) \div 8 - 1)
<1>1. before \in Int /\ before <= playhead
  OBVIOUS
<1>2. PreviousTick(playhead) = Most(before, 0)
  BY DEF PreviousTick, Part
<1> HIDE DEF before
<1> QED
  BY <1>1, <1>2 DEF Most

(* The timer and the direction of a held key, the playhead, and pausing.   *)
LEMMA HeldKeeps ==
  ASSUME NEW state, Sound(state), NEW ticks, Fits(state, ticks),
         NEW hold \in 0..HoldCap, NEW direction \in {-1, 0, 1}, hold > 0 => direction # 0
  PROVE  /\ Kept(Held(state, hold, direction), state, ticks)
         /\ Held(state, hold, direction).playhead = state.playhead
         /\ Held(state, hold, direction).speed = state.speed
         /\ Held(state, hold, direction).paused = state.paused
<1>1. Held(state, hold, direction) \in StateRecords
  BY DEF Held, Sound, StateRecords
<1>2. LET next == Held(state, hold, direction)
      IN  /\ next.hold_timer = hold /\ next.direction = direction
          /\ next.playhead = state.playhead /\ next.speed = state.speed
          /\ next.paused = state.paused
          /\ next.speed_overridden = state.speed_overridden
          /\ SameDialog(next, state)
  BY DEF Held, Sound, StateRecords, SameDialog
<1> QED
  BY <1>1, <1>2 DEF Sound, SameDialog, Fits, Kept

LEMMA PlacedKeeps ==
  ASSUME NEW state, Sound(state), NEW ticks, Fits(state, ticks), NEW paused \in BOOLEAN,
         NEW playhead \in Nat, playhead <= End(ticks)
  PROVE  Kept(PlacedAt(state, playhead, paused), state, ticks)
<1>1. PlacedAt(state, playhead, paused) \in StateRecords
  BY DEF PlacedAt, Sound, StateRecords
<1>2. LET next == PlacedAt(state, playhead, paused)
      IN  /\ next.hold_timer = state.hold_timer /\ next.direction = state.direction
          /\ next.playhead = playhead /\ next.speed = state.speed
          /\ next.speed_overridden = state.speed_overridden
          /\ SameDialog(next, state)
  BY DEF PlacedAt, Sound, StateRecords, SameDialog
<1> QED
  BY <1>1, <1>2 DEF Sound, SameDialog, Fits, Kept

LEMMA PauseAndRestartKeeps ==
  ASSUME NEW state, Sound(state), NEW pressed, NEW ticks, Track(ticks), Fits(state, ticks)
  PROVE  Kept(PauseAndRestart(state, pressed), state, ticks)
<1> DEFINE toggled == IF "SPACE" \in pressed THEN [state EXCEPT !.paused = ~@] ELSE state
<1>1. Kept(toggled, state, ticks)
  BY DEF Sound, StateRecords, Fits, SameDialog, Kept
<1> HIDE DEF toggled
<1>2. 0 \in Nat /\ 0 <= End(ticks) /\ FALSE \in BOOLEAN
  BY EndIsNat
<1>3. Kept(PlacedAt(toggled, 0, FALSE), toggled, ticks)
  BY <1>1, <1>2, PlacedKeeps DEF Kept
<1>4. Kept(PlacedAt(toggled, 0, FALSE), state, ticks)
  BY <1>1, <1>3 DEF Kept, SameDialog
<1>5. PauseAndRestart(state, pressed) = IF "R" \in pressed THEN PlacedAt(toggled, 0, FALSE) ELSE toggled
  BY DEF PauseAndRestart, toggled
<1> QED
  BY <1>1, <1>4, <1>5

LEMMA PressKeeps ==
  ASSUME NEW state, Sound(state), NEW direction \in {-1, 1}, NEW playhead \in Nat,
         NEW ticks, Fits(state, ticks), playhead <= End(ticks)
  PROVE  Kept(Press(state, direction, playhead), state, ticks)
<1> DEFINE held == Held(state, 0, direction)
<1>1. Kept(held, state, ticks)
  <2>1. 0 \in 0..HoldCap /\ direction \in {-1, 0, 1}
    BY HoldCapIsNat
  <2> QED BY <2>1, HeldKeeps
<1> HIDE DEF held
<1>2. TRUE \in BOOLEAN
  OBVIOUS
<1>3. Kept(PlacedAt(held, playhead, TRUE), held, ticks)
  BY <1>1, <1>2, PlacedKeeps DEF Kept
<1>4. Press(state, direction, playhead) = PlacedAt(held, playhead, TRUE)
  BY DEF Press, held
<1> QED
  BY <1>1, <1>3, <1>4 DEF Kept, SameDialog

LEMMA ScrubIsInt ==
  ASSUME NEW hold \in Int
  PROVE  Scrub(hold) \in Int
<1>1. Most(hold - Debounce, 0) \in Int
  BY VisualizerAssumption DEF Most
<1> DEFINE above == Most(hold - Debounce, 0)
<1>2. ASSUME NEW a \in Int
      PROVE  ScrubSpeed + ScrubGain * a \in Int
  BY VisualizerAssumption
<1>3. ScrubSpeed + ScrubGain * above \in Int
  BY <1>1, <1>2, Zenon
<1>4. ASSUME NEW a \in Int
      PROVE  Least(a, ScrubMax) \in Int
  BY VisualizerAssumption DEF Least
<1> QED
  BY <1>3, <1>4, Zenon DEF Scrub

LEMMA HoldKeeps ==
  ASSUME NEW state, Sound(state), NEW direction \in {-1, 1}, NEW time \in Nat \ {0},
         NEW ticks, Track(ticks), Fits(state, ticks)
  PROVE  Kept(Hold(state, direction, End(ticks), time), state, ticks)
<1> DEFINE end == End(ticks)
           hold == IF state.direction = direction
                   THEN Least(state.hold_timer + time, HoldCap) ELSE 0
           moved == state.playhead + direction * time * Scrub(hold)
           clipped == Most(Least(moved, end), 0)
           held == Held(state, hold, direction)
<1>1. end \in Nat
  BY EndIsNat
<1>2. hold \in 0..HoldCap
  <2>1. state.hold_timer \in 0..HoldCap
    BY DEF Sound, StateRecords
  <2> QED BY <2>1, HoldCapIsNat DEF Least
<1>3. clipped \in Nat /\ clipped <= end
  <2>1. Scrub(hold) \in Int
    <3> HIDE DEF hold
    <3> QED BY <1>2, HoldCapIsNat, ScrubIsInt
  <2>2. moved \in Int
    <3> HIDE DEF hold
    <3>1. ASSUME NEW a \in Int, NEW p \in Nat
          PROVE  p + direction * time * a \in Int
      OBVIOUS
    <3>2. state.playhead \in Nat
      BY DEF Sound, StateRecords
    <3> QED BY <2>1, <3>1, <3>2
  <2> HIDE DEF moved, end
  <2> QED BY <1>1, <2>2 DEF Least, Most
<1> HIDE DEF hold, clipped
<1>4. Kept(held, state, ticks)
  <2>1. direction \in {-1, 0, 1} /\ direction # 0
    OBVIOUS
  <2> QED BY <1>2, <2>1, HeldKeeps
<1> HIDE DEF held
<1>5. Kept(PlacedAt(held, clipped, TRUE), held, ticks)
  <2>1. TRUE \in BOOLEAN
    OBVIOUS
  <2> QED BY <1>3, <1>4, <2>1, PlacedKeeps DEF Kept
<1>6. Hold(state, direction, end, time) =
        IF hold >= Debounce THEN PlacedAt(held, clipped, TRUE) ELSE held
  BY Zenon DEF Hold, hold, moved, clipped, held
<1> QED
  BY <1>4, <1>5, <1>6 DEF Kept, SameDialog

LEMMA StepKeysKeeps ==
  ASSUME NEW state, Sound(state), NEW pressed, NEW down, NEW time \in Nat \ {0},
         NEW ticks, Track(ticks), Fits(state, ticks)
  PROVE  Kept(StepKeys(state, End(ticks), pressed, down, time), state, ticks)
<1> DEFINE K(next) == Kept(next, state, ticks)
           next == NextTick(state.playhead, End(ticks))
           previous == PreviousTick(state.playhead)
<1>1. End(ticks) \in Nat /\ state.playhead \in 0..End(ticks)
  BY EndIsNat DEF Sound, StateRecords, Fits
<1>2. K(Press(state, 1, next))
  <2>1. next \in 0..End(ticks)
    <3>1. state.playhead \in Nat
      BY <1>1
    <3> QED BY <1>1, <3>1, NextTickFacts
  <2> HIDE DEF next
  <2>2. next \in Nat /\ next <= End(ticks)
    BY <1>1, <2>1
  <2> QED BY <2>2, PressKeeps
<1>3. K(Press(state, -1, previous))
  <2>1. previous \in Nat /\ previous <= End(ticks)
    BY <1>1, PreviousTickFacts
  <2> HIDE DEF previous
  <2> QED BY <2>1, PressKeeps
<1>4. K(Hold(state, 1, End(ticks), time)) /\ K(Hold(state, -1, End(ticks), time))
  BY HoldKeeps
<1>5. K(Held(state, 0, 0))
  <2>1. 0 \in 0..HoldCap /\ 0 \in {-1, 0, 1}
    BY HoldCapIsNat
  <2> QED BY <2>1, HeldKeeps
<1> HIDE DEF K
<1>6. CASE "RIGHT" \in pressed
  BY <1>2, <1>6 DEF StepKeys, K
<1>7. CASE "RIGHT" \notin pressed /\ "RIGHT" \in down
  BY <1>4, <1>7 DEF StepKeys, K
<1>8. CASE "RIGHT" \notin pressed /\ "RIGHT" \notin down
  BY <1>3, <1>4, <1>5, <1>8 DEF StepKeys, K
<1> QED
  BY <1>6, <1>7, <1>8

LEMMA SpeedKeysKeeps ==
  ASSUME NEW state, Sound(state), NEW pressed, NEW ticks, Fits(state, ticks)
  PROVE  Kept(SpeedKeys(state, pressed), state, ticks)
<1> DEFINE faster == IF "UP" \in pressed THEN Least(state.speed + 2, MaxSpeed) ELSE state.speed
           slower == IF "DOWN" \in pressed THEN Most(faster - 2, MinSpeed) ELSE faster
           chosen == state.speed_overridden \/ {"UP", "DOWN"} \cap pressed # {}
           next == [state EXCEPT !.speed = slower, !.speed_overridden = chosen]
<1>1. slower \in MinSpeed..MaxSpeed
  <2>1. state.speed \in MinSpeed..MaxSpeed
    BY DEF Sound, StateRecords
  <2> QED BY <2>1, VisualizerAssumption DEF Least, Most
<1>2. chosen \in BOOLEAN /\ (~chosen => ~state.speed_overridden /\ slower = state.speed)
  BY DEF Sound, StateRecords
<1> HIDE DEF slower, chosen
<1>3. next \in StateRecords
  BY <1>1, <1>2 DEF Sound, StateRecords
<1>4. /\ next.hold_timer = state.hold_timer /\ next.direction = state.direction
      /\ next.playhead = state.playhead /\ next.speed = slower
      /\ next.speed_overridden = chosen
      /\ SameDialog(next, state)
  BY DEF Sound, StateRecords, SameDialog
<1>5. SpeedKeys(state, pressed) = next
  BY DEF SpeedKeys, slower, chosen
<1> HIDE DEF next
<1> QED
  BY <1>2, <1>3, <1>4, <1>5 DEF Sound, SameDialog, Fits, Kept

LEMMA ResetFits ==
  ASSUME NEW state, Sound(state), NEW ticks, Track(ticks)
  PROVE  Kept(Reset(state, ticks), state, ticks)
<1> DEFINE speed == IF state.speed_overridden THEN state.speed ELSE SpeedFor(ticks)
           next == [state EXCEPT !.playhead = 0, !.paused = FALSE, !.dragging_slider = FALSE,
                                 !.hold_timer = 0, !.direction = 0, !.speed = speed]
<1>1. /\ Reset(state, ticks) = next
      /\ speed \in MinSpeed..MaxSpeed /\ 0 \in 0..HoldCap
      /\ ~state.speed_overridden => speed = SpeedFor(ticks)
  BY SpeedForIsASpeed, HoldCapIsNat DEF Reset, Sound, StateRecords
<1> HIDE DEF speed
<1>2. next \in StateRecords
  BY <1>1 DEF Sound, StateRecords
<1>3. /\ next.hold_timer = 0 /\ next.playhead = 0 /\ next.speed = speed
      /\ next.speed_overridden = state.speed_overridden
      /\ SameDialog(next, state)
  BY DEF Sound, StateRecords, SameDialog
<1> HIDE DEF next
<1>4. 0 <= End(ticks) /\ ~(0 > 0)
  BY EndIsNat
<1> QED
  BY <1>1, <1>2, <1>3, <1>4 DEF Sound, SameDialog, Fits, Kept

LEMMA Quotient ==
  ASSUME NEW x \in Nat, NEW y \in Nat \ {0}, NEW n \in Nat, x < y * (n + 1)
  PROVE  x \div y \in 0..n
<1>1. x \div y \in Nat /\ y * (x \div y) <= x
  BY Z3
<1>2. ASSUME NEW q \in Nat, y * q <= x
      PROVE  q <= n
  <2>1. SUFFICES ASSUME q >= n + 1 PROVE FALSE
    OBVIOUS
  <2>2. y * q >= y * (n + 1)
    BY <2>1
  <2> QED BY <1>2, <2>2
<1>3. x \div y <= n
  BY <1>1, <1>2
<1> QED
  BY <1>1, <1>3

LEMMA SliderTickFits ==
  ASSUME NEW ticks, Track(ticks), NEW slider, slider.x \in Int, slider.width \in Nat \ {0},
         NEW x \in Int
  PROVE  Part * SliderTick(slider, x, ticks) \in 0..End(ticks)
<1> DEFINE w == slider.width
           along == Most(Least(Pixel * x - slider.x, w), 0)
           n == Len(ticks) - 1
<1>1. along \in 0..w
  BY DEF Least, Most, Pixel
<1>2. n \in Nat
  BY DEF Track
<1>3. SliderTick(slider, x, ticks) = (2 * along * n + w) \div (2 * w)
  BY DEF SliderTick
<1> HIDE DEF along, n, w
<1>4. w \in Nat \ {0}
  BY DEF w
<1>5. along * n <= w * n /\ along * n \in Nat /\ w * n \in Nat
  BY <1>1, <1>2, <1>4
<1>6. 2 * along * n = 2 * (along * n) /\ (2 * w) * (n + 1) = 2 * (w * n) + 2 * w
  BY <1>1, <1>2, <1>4
<1>7. 2 * along * n + w \in Nat /\ 2 * along * n + w < (2 * w) * (n + 1)
  BY <1>4, <1>5, <1>6
<1>8. 2 * w \in Nat \ {0}
  BY <1>4
<1>9. SliderTick(slider, x, ticks) \in 0..n
  BY <1>2, <1>3, <1>7, <1>8, Quotient
<1> QED
  BY <1>2, <1>9, EndIsNat DEF n, Part

LEMMA SliderHasAPlace ==
  ASSUME NEW screen \in Screens
  PROVE  LET slider == Slider(screen, Scale(screen))
         IN  slider.x \in Int /\ slider.width \in Nat \ {0}
BY ScaleBounds DEF Slider, Rectangle

LEMMA DragKeeps ==
  ASSUME NEW state, Sound(state), NEW ticks, Track(ticks), Fits(state, ticks),
         NEW input \in InputRecords
  PROVE  Kept(Drag(state, ticks, input), state, ticks)
<1> DEFINE slider == Slider(input.screen, Scale(input.screen))
           grabbed == input.button = "pressed" /\ Inside(input.pointer, slider)
           moving == grabbed \/ (state.dragging_slider /\ input.button # "released")
           held == [state EXCEPT !.dragging_slider = moving, !.paused = @ \/ grabbed]
           placed == PlacedAt(held, Part * SliderTick(slider, input.pointer.x, ticks), held.paused)
<1>1. moving \in BOOLEAN /\ grabbed \in BOOLEAN
  OBVIOUS
<1>2. Drag(state, ticks, input) = IF moving THEN placed ELSE held
  BY DEF Drag
<1>3. slider.x \in Int /\ slider.width \in Nat \ {0} /\ input.pointer.x \in Int
  BY SliderHasAPlace DEF InputRecords, Screens
<1> HIDE DEF moving, grabbed, slider
<1>4. Kept(held, state, ticks)
  <2>1. held \in StateRecords
    BY <1>1 DEF Sound, StateRecords
  <2>2. /\ held.hold_timer = state.hold_timer /\ held.direction = state.direction
        /\ held.playhead = state.playhead /\ held.speed = state.speed
        /\ held.speed_overridden = state.speed_overridden
        /\ SameDialog(held, state)
    BY DEF Sound, StateRecords, SameDialog
  <2> QED BY <2>1, <2>2 DEF Sound, SameDialog, Fits, Kept
<1> HIDE DEF held
<1>5. Kept(placed, state, ticks)
  <2>1. Part * SliderTick(slider, input.pointer.x, ticks) \in 0..End(ticks)
    BY <1>3, SliderTickFits
  <2> DEFINE playhead == Part * SliderTick(slider, input.pointer.x, ticks)
  <2> HIDE DEF playhead
  <2>2. playhead \in Nat /\ playhead <= End(ticks)
    BY <2>1, EndIsNat DEF playhead
  <2>3. held.paused \in BOOLEAN
    BY <1>4 DEF Kept, Sound, StateRecords
  <2>4. Kept(PlacedAt(held, playhead, held.paused), held, ticks)
    BY <1>4, <2>2, <2>3, PlacedKeeps DEF Kept
  <2> QED BY <1>4, <2>4 DEF Kept, SameDialog, playhead
<1> QED
  BY <1>2, <1>4, <1>5

LEMMA AdvanceKeeps ==
  ASSUME NEW state, Sound(state), NEW ticks, Track(ticks), Fits(state, ticks),
         NEW time \in Nat \ {0}
  PROVE  LET next == Advance(state, ticks, time)
         IN  /\ Kept(next, state, ticks)
             /\ next.playhead >= state.playhead
             /\ next.speed = state.speed /\ next.paused = state.paused
<1> DEFINE playhead == Least(state.playhead + time * state.speed, End(ticks))
           moved == [state EXCEPT !.playhead = playhead]
<1>1. CASE state.playhead < End(ticks)
  <2>1. playhead \in Nat /\ playhead <= End(ticks) /\ playhead >= state.playhead
    <3>1. state.playhead \in Nat /\ state.speed \in Nat
      BY VisualizerAssumption DEF Sound, StateRecords
    <3>2. time * state.speed \in Nat
      BY <3>1
    <3> QED BY <1>1, <3>1, <3>2, EndIsNat DEF Least
  <2> HIDE DEF playhead
  <2>2. moved \in StateRecords
    BY <2>1 DEF Sound, StateRecords
  <2>3. /\ moved.hold_timer = state.hold_timer /\ moved.direction = state.direction
        /\ moved.playhead = playhead /\ moved.speed = state.speed
        /\ moved.speed_overridden = state.speed_overridden /\ moved.paused = state.paused
        /\ SameDialog(moved, state)
    BY DEF Sound, StateRecords, SameDialog
  <2>4. Kept(moved, state, ticks)
    BY <2>1, <2>2, <2>3 DEF Sound, SameDialog, Fits, Kept
  <2>5. Advance(state, ticks, time) \in {moved, state}
    BY DEF Advance, playhead
  <2>6. Kept(state, state, ticks) /\ state.playhead >= state.playhead
    BY DEF Kept, SameDialog, Sound, StateRecords
  <2> HIDE DEF moved
  <2> QED BY <2>1, <2>3, <2>4, <2>5, <2>6
<1>2. CASE ~(state.playhead < End(ticks))
  <2>1. Advance(state, ticks, time) = state
    BY <1>2 DEF Advance
  <2>2. Kept(state, state, ticks) /\ state.playhead >= state.playhead
    BY DEF Kept, SameDialog, Sound, StateRecords
  <2> QED BY <2>1, <2>2
<1> QED
  BY <1>1, <1>2

(***************************************************************************)
(* Loading: what is in the set can be played.                              *)
(***************************************************************************)

Loadable(doc) == {s \in DOMAIN doc.scenarios : ValidScenario(doc, s)}
Scenarios == UNION {{ScenarioAt(doc, s) : s \in Loadable(doc)} : doc \in Documents}

LEMMA ScenariosArePlayable ==
  ASSUME NEW scenario \in Scenarios
  PROVE  Track(scenario.ticks)
<1>1. PICK doc \in Documents : scenario \in {ScenarioAt(doc, s) : s \in Loadable(doc)}
  BY DEF Scenarios
<1>2. PICK s \in DOMAIN doc.scenarios : ValidScenario(doc, s) /\ scenario = ScenarioAt(doc, s)
  BY <1>1 DEF Loadable
<1> DEFINE written == doc.scenarios[s].ticks
<1>3. IsSequence(written)
  BY LoaderAssumption
<1> HIDE DEF written
<1>4. DOMAIN written = 1..Len(written) /\ Len(written) \in Nat
  BY <1>3 DEF IsSequence
<1>5. Len(written) \in Nat \ {0} /\ \A i \in DOMAIN written : ValidTick(TickAt(doc, s, i))
  BY <1>2, <1>4, LoaderAssumption DEF ValidScenario, written
<1>6. scenario.ticks = [i \in 1..Len(written) |-> TickAt(doc, s, i)]
  BY <1>2, <1>4 DEF ScenarioAt, written
<1>7. Len(scenario.ticks) = Len(written)
  BY <1>4, <1>6
<1> QED
  BY <1>4, <1>5, <1>6, <1>7 DEF Track

LEMMA ParsedScenarios ==
  ASSUME NEW doc \in Documents, NEW room \in Int, Parses(doc, room)
  PROVE  Parsed(doc) \in Seq(Scenarios) /\ Len(Parsed(doc)) > 0
<1>1. IsSequence(doc.scenarios)
  BY LoaderAssumption
<1>2. DOMAIN doc.scenarios = 1..Len(doc.scenarios) /\ Len(doc.scenarios) \in Nat
  BY <1>1 DEF IsSequence
<1> DEFINE written == doc.scenarios
<1>3. Len(written) \in 1..room /\ \A s \in DOMAIN written : ValidScenario(doc, s)
  BY Zenon DEF Parses
<1>6. \A s \in DOMAIN doc.scenarios : ScenarioAt(doc, s) \in Scenarios
  BY <1>3 DEF Scenarios, Loadable
<1>4. Parsed(doc) = [s \in 1..Len(doc.scenarios) |-> ScenarioAt(doc, s)]
  BY <1>2 DEF Parsed
<1>5. Len(doc.scenarios) > 0
  BY <1>2, <1>3
<1> QED
  BY <1>2, <1>4, <1>5, <1>6

(***************************************************************************)
(* The inductive invariant.                                                *)
(***************************************************************************)

LoaderTypes ==
  /\ stage \in {"arguments", "loading", "running", "closed", "failed"}
  /\ arguments_left \in 0..MaxArguments /\ paths \in 0..MaxArguments
  /\ paths + arguments_left <= MaxArguments
  /\ theme \in DOMAIN Themes
  /\ scenarios \in Seq(Scenarios)

(* A window opens after at least one file, and each has a scenario.        *)
SomethingLoaded ==
  \/ stage \in {"arguments", "failed"}
  \/ stage = "loading" /\ (paths = 0 => scenarios # << >>)
  \/ stage \in {"running", "closed"} /\ scenarios # << >>

Playing ==
  IF stage = "running" THEN active_index \in DOMAIN scenarios /\ Fits(app, Active)
  ELSE active_index = 1 \/ stage = "closed"

(* A picture is always the one of the active scenario at the playhead.     *)
ShownFrom ==
  \/ shown = << >>
  \/ /\ stage \in {"running", "closed"} /\ active_index \in DOMAIN scenarios
     /\ shown = <<Picture(Active, app.playhead)>>

VisualizerInvariant ==
  /\ LoaderTypes /\ SomethingLoaded /\ Sound(app) /\ Playing /\ ShownFrom
  /\ (stage \in {"arguments", "loading"} => ~app.should_quit)

LEMMA InitialInvariant ==
  ASSUME VisualizerInit
  PROVE  VisualizerInvariant
<1>1. LoaderTypes /\ SomethingLoaded
  <2>1. 1 \in DOMAIN Themes
    BY LoaderAssumption
  <2>2. << >> \in Seq(Scenarios)
    OBVIOUS
  <2> QED BY <2>1, <2>2, LoaderAssumption
          DEF VisualizerInit, LoaderInit, LoaderTypes, SomethingLoaded
<1>2. Sound(app) /\ ~app.should_quit
  <2>1. DefaultSpeed \in MinSpeed..MaxSpeed /\ 0 \in 0..HoldCap
    BY VisualizerAssumption, HoldCapIsNat
  <2> QED BY <2>1 DEF VisualizerInit, InitialState, Sound, StateRecords
<1> QED
  BY <1>1, <1>2 DEF VisualizerInit, LoaderInit, Playing, ShownFrom, VisualizerInvariant

(* One lemma for each action.                                              *)
LEMMA LoadingKeepsInvariant ==
  ASSUME VisualizerInvariant, Start
  PROVE  VisualizerInvariant'
<1> USE DEF VisualizerInvariant
<1>1. stage \in {"arguments", "loading"} /\ active_index = 1
  BY DEF Start, ReadTheme, ReadPath, EndOfArguments, LoadFile, Playing
<1>2. UNCHANGED <<active_index, app, shown>>
  BY DEF Start
<1>3. Sound(app)' /\ ShownFrom' /\ active_index' = 1 /\ ~app'.should_quit
  BY <1>1, <1>2 DEF ShownFrom, Sound
<1>4. ASSUME stage' # "running", LoaderTypes', SomethingLoaded'
      PROVE  VisualizerInvariant'
  BY <1>3, <1>4 DEF Playing
<1>5. CASE ReadTheme \/ ReadPath \/ EndOfArguments
  <2>1. stage' # "running" /\ LoaderTypes'
    <3>1. CASE Fail
      BY <3>1 DEF Fail, LoaderTypes
    <3>0. MaxArguments \in Nat
      BY LoaderAssumption
    <3>2. CASE ReadTheme /\ ~Fail
      BY <3>0, <3>2 DEF ReadTheme, LoaderTypes
    <3>3. CASE ReadPath
      BY <3>0, <3>3 DEF ReadPath, LoaderTypes
    <3>4. CASE EndOfArguments /\ ~Fail
      BY <3>0, <3>4 DEF EndOfArguments, LoaderTypes
    <3> QED BY <1>5, <3>1, <3>2, <3>3, <3>4
  <2>2. SomethingLoaded'
    BY <1>5 DEF ReadTheme, ReadPath, EndOfArguments, Fail, LoaderTypes, SomethingLoaded
  <2> QED BY <1>4, <2>1, <2>2
<1>6. CASE \E doc \in Documents : LoadFile(doc)
  <2>1. PICK doc \in Documents : LoadFile(doc)
    BY <1>6
  <2>2. CASE Fail
    BY <1>4, <2>2 DEF Fail, LoaderTypes, SomethingLoaded
  <2>3. CASE ~Fail
    <3>1. /\ Parses(doc, MAX_SCENARIOS - Len(scenarios)) /\ paths > 0 /\ paths' = paths - 1
          /\ stage = "loading" /\ scenarios' = scenarios \o Parsed(doc)
          /\ UNCHANGED <<stage, arguments_left, theme>>
      BY <2>1, <2>3, Zenon DEF LoadFile
    <3>2. Parsed(doc) \in Seq(Scenarios) /\ Len(Parsed(doc)) > 0
      <4>1. MAX_SCENARIOS - Len(scenarios) \in Int
        BY LoaderAssumption DEF LoaderTypes
      <4> QED BY <3>1, <4>1, ParsedScenarios
    <3>3. scenarios' \in Seq(Scenarios) /\ Len(scenarios') > 0
      BY <3>1, <3>2 DEF LoaderTypes
    <3>4. scenarios' # << >>
      BY <3>3
    <3>5. LoaderTypes'
      BY <3>1, <3>3, LoaderAssumption DEF LoaderTypes
    <3>6. SomethingLoaded' /\ stage' # "running"
      BY <3>1, <3>4 DEF SomethingLoaded
    <3> QED BY <1>4, <3>5, <3>6
  <2> QED BY <2>2, <2>3
<1> QED
  BY <1>5, <1>6 DEF Start

(* TAB and T go round.                                                     *)
LEMMA RotationStays ==
  ASSUME NEW S, NEW seq \in Seq(S), NEW i \in DOMAIN seq
  PROVE  (i % Len(seq)) + 1 \in DOMAIN seq
<1>1. Len(seq) \in Nat \ {0} /\ i \in Nat /\ DOMAIN seq = 1..Len(seq)
  OBVIOUS
<1>2. ASSUME NEW n \in Nat \ {0}
      PROVE  (i % n) \in 0..(n - 1)
  BY <1>1, <1>2, Z3
<1>3. ASSUME NEW n \in Nat \ {0}, NEW r \in 0..(n - 1)
      PROVE  r + 1 \in 1..n
  OBVIOUS
<1> QED
  BY <1>1, <1>2, <1>3, Zenon

LEMMA TrackOf ==
  ASSUME LoaderTypes, NEW index \in DOMAIN scenarios
  PROVE  Track(Ticks(index))
<1>1. scenarios[index] \in Scenarios
  BY DEF LoaderTypes
<1> QED
  BY <1>1, ScenariosArePlayable DEF Ticks

LEMMA RunKeepsInvariant ==
  ASSUME VisualizerInvariant, Run
  PROVE  VisualizerInvariant'
<1> USE DEF VisualizerInvariant
<1>1. /\ stage = "loading" /\ paths = 0 /\ stage' = "running" /\ app' = Reset(app, Ticks(1))
      /\ UNCHANGED <<arguments_left, theme, paths, files, scenarios, active_index, shown>>
  BY DEF Run
<1>2. active_index = 1 /\ scenarios # << >> /\ 1 \in DOMAIN scenarios
  BY <1>1 DEF Playing, SomethingLoaded, LoaderTypes
<1>3. Track(Ticks(1))
  BY <1>2, TrackOf
<1>4. Kept(app', app, Ticks(1))
  BY <1>1, <1>3, ResetFits
<1>5. Active' = Ticks(1)
  BY <1>1, <1>2 DEF Active, Ticks
<1>6. Sound(app)' /\ Playing'
  BY <1>1, <1>2, <1>4, <1>5 DEF Kept, Playing, Sound, Fits
<1>7. LoaderTypes' /\ SomethingLoaded' /\ ShownFrom' /\ stage' = "running"
  BY <1>1, <1>2 DEF LoaderTypes, SomethingLoaded, ShownFrom
<1> QED
  BY <1>6, <1>7

LEMMA CloseKeepsInvariant ==
  ASSUME VisualizerInvariant, Close
  PROVE  VisualizerInvariant'
BY DEF VisualizerInvariant, Close, LoaderTypes, SomethingLoaded, Sound, Playing, ShownFrom,
       Active, Ticks

(* What a frame does, with the dialog open and without it.                 *)
LEMMA ModalFrameKeeps ==
  ASSUME VisualizerInvariant, stage = "running", ~app.should_quit,
         NEW input \in InputRecords, ModalFrame(input)
  PROVE  /\ Sound(app)' /\ Fits(app', Active) /\ app'.modal_open
         /\ UNCHANGED <<theme, active_index>>
         /\ app'.speed = app.speed /\ app'.paused = app.paused
         /\ app'.playhead >= app.playhead
<1> DEFINE asked == QuitModal(app, input.pressed)
           held == Held(asked, 0, 0)
<1>1. Sound(app) /\ Fits(app, Active) /\ Track(Active)
  BY TrackOf DEF VisualizerInvariant, Playing, Active
<1>2. /\ Sound(asked) /\ asked.playhead = app.playhead /\ asked.speed = app.speed
      /\ asked.paused = app.paused /\ asked.speed_overridden = app.speed_overridden
  BY <1>1, QuitModalKeeps
<1>3. /\ asked.modal_open /\ app' = Advance(held, Active, input.time)
      /\ UNCHANGED <<theme, active_index>>
  BY DEF ModalFrame, Active
<1> HIDE DEF asked
<1>4. Fits(asked, Active)
  BY <1>1, <1>2 DEF Fits
<1>5. /\ Kept(held, asked, Active) /\ held.playhead = asked.playhead
      /\ held.speed = asked.speed /\ held.paused = asked.paused
  <2>1. 0 \in 0..HoldCap /\ 0 \in {-1, 0, 1}
    BY HoldCapIsNat
  <2> QED BY <1>2, <1>4, <2>1, HeldKeeps
<1> HIDE DEF held
<1>6. input.time \in Nat \ {0}
  BY DEF InputRecords
<1>7. /\ Kept(app', held, Active) /\ app'.playhead >= held.playhead
      /\ app'.speed = held.speed /\ app'.paused = held.paused
  BY <1>1, <1>3, <1>5, <1>6, AdvanceKeeps DEF Kept
<1> QED
  BY <1>2, <1>3, <1>5, <1>7 DEF Kept, Sound, SameDialog

LEMMA PlaybackFrameKeeps ==
  ASSUME VisualizerInvariant, stage = "running", ~app.should_quit,
         NEW input \in InputRecords, PlaybackFrame(input)
  PROVE  /\ Sound(app)' /\ ~app'.modal_open /\ theme' \in DOMAIN Themes
         /\ active_index' \in DOMAIN scenarios /\ Fits(app', Ticks(active_index'))
<1> DEFINE asked == QuitModal(app, input.pressed)
           paused == PauseAndRestart(asked, input.pressed)
           stepped == StepKeys(paused, End(Active), input.pressed, input.down, input.time)
           sped == SpeedKeys(stepped, input.pressed)
           switch == "TAB" \in input.pressed /\ Len(scenarios) > 1
           next == IF switch THEN (active_index % Len(scenarios)) + 1 ELSE active_index
           ticks == Ticks(next)
           switched == Switched(sped, ticks, switch)
           dragged == Drag(switched, ticks, input)
<1>1. Sound(app) /\ Fits(app, Active) /\ Track(Active)
  BY TrackOf DEF VisualizerInvariant, Playing, Active
<1>2. /\ Sound(asked) /\ asked.playhead = app.playhead /\ asked.speed = app.speed
      /\ asked.paused = app.paused /\ asked.speed_overridden = app.speed_overridden
  BY <1>1, QuitModalKeeps
<1>3. /\ ~asked.modal_open /\ active_index' = next
      /\ app' = Advance(dragged, ticks, input.time)
      /\ theme' = IF "T" \in input.pressed THEN (theme % Len(Themes)) + 1 ELSE theme
  BY Zenon DEF PlaybackFrame, Active
<1>4. theme' \in DOMAIN Themes
  BY <1>3, LoaderAssumption, RotationStays DEF VisualizerInvariant, LoaderTypes
<1>5. next \in DOMAIN scenarios /\ Track(ticks) /\ (~switch => ticks = Active)
  <2>1. next \in DOMAIN scenarios
    BY RotationStays DEF VisualizerInvariant, LoaderTypes, Playing
  <2>2. ~switch => ticks = Active
    BY DEF Active
  <2> HIDE DEF next
  <2> QED BY <2>1, <2>2, TrackOf DEF VisualizerInvariant
<1> HIDE DEF asked, switch, next
<1>6. input.time \in Nat \ {0}
  BY DEF InputRecords
<1>7. Fits(asked, Active)
  BY <1>1, <1>2 DEF Fits
<1>8. Kept(paused, asked, Active)
  BY <1>1, <1>2, <1>7, PauseAndRestartKeeps
<1> HIDE DEF paused
<1>9. Kept(stepped, paused, Active)
  BY <1>1, <1>6, <1>8, StepKeysKeeps DEF Kept
<1> HIDE DEF stepped
<1>10. Kept(sped, stepped, Active)
  BY <1>9, SpeedKeysKeeps DEF Kept
<1> HIDE DEF sped
<1>11. Kept(switched, sped, ticks)
  <2>1. CASE switch
    <3>1. switched = Reset(sped, ticks)
      BY <2>1 DEF Switched
    <3> QED BY <1>5, <1>10, <3>1, ResetFits DEF Kept
  <2>2. CASE ~switch
    <3>1. switched = sped /\ ticks = Active
      BY <1>5, <2>2 DEF Switched
    <3> QED BY <1>10, <3>1 DEF Kept, SameDialog
  <2> QED BY <2>1, <2>2
<1> HIDE DEF switched
<1>12. Kept(dragged, switched, ticks)
  BY <1>5, <1>11, DragKeeps DEF Kept
<1> HIDE DEF dragged
<1>13. Kept(app', dragged, ticks)
  BY <1>3, <1>5, <1>6, <1>12, AdvanceKeeps DEF Kept
<1>14. ~app'.modal_open
  BY <1>3, <1>8, <1>9, <1>10, <1>11, <1>12, <1>13 DEF Kept, SameDialog
<1>15. Sound(app)' /\ Fits(app', ticks)
  BY <1>13 DEF Kept, Sound
<1> QED
  BY <1>3, <1>4, <1>5, <1>14, <1>15

LEMMA FrameKeepsInvariant ==
  ASSUME VisualizerInvariant, NEW input \in Inputs, Frame(input)
  PROVE  VisualizerInvariant'
<1>1. input \in InputRecords
  BY VisualizerAssumption
<1>2. /\ stage = "running" /\ ~app.should_quit
      /\ UNCHANGED <<stage, arguments_left, paths, files, scenarios>>
      /\ shown' = <<Picture(Ticks(active_index'), app'.playhead)>>
  BY DEF Frame, Draw
<1>3. /\ Sound(app)' /\ theme' \in DOMAIN Themes
      /\ active_index' \in DOMAIN scenarios /\ Fits(app', Ticks(active_index'))
  <2>1. CASE ModalFrame(input)
    BY <1>1, <1>2, <2>1, ModalFrameKeeps
       DEF VisualizerInvariant, LoaderTypes, Playing, Active
  <2>2. CASE PlaybackFrame(input)
    BY <1>1, <1>2, <2>2, PlaybackFrameKeeps
  <2> QED BY <2>1, <2>2 DEF Frame
<1>4. LoaderTypes' /\ SomethingLoaded'
  BY <1>2, <1>3 DEF VisualizerInvariant, LoaderTypes, SomethingLoaded
<1>5. Playing'
  <2>1. Ticks(active_index') = Active'
    BY <1>2 DEF Active, Ticks
  <2> QED BY <1>2, <1>3, <2>1 DEF Playing, Fits
<1>6. ShownFrom'
  <2>1. Ticks(active_index') = Active'
    BY <1>2 DEF Active, Ticks
  <2> QED BY <1>2, <1>3, <2>1 DEF ShownFrom
<1> QED
  BY <1>2, <1>3, <1>4, <1>5, <1>6 DEF VisualizerInvariant

LEMMA NextKeepsInvariant ==
  ASSUME VisualizerInvariant, [VisualizerNext]_vars
  PROVE  VisualizerInvariant'
<1>1. CASE Start
  BY <1>1, LoadingKeepsInvariant
<1>2. CASE Run
  BY <1>2, RunKeepsInvariant
<1>3. CASE \E input \in Inputs : Frame(input)
  BY <1>3, FrameKeepsInvariant
<1>4. CASE Close
  BY <1>4, CloseKeepsInvariant
<1>5. CASE UNCHANGED vars
  BY <1>5 DEF vars, loaderVars, VisualizerInvariant, LoaderTypes, SomethingLoaded, Sound,
              Playing, ShownFrom, Fits, Active, Ticks
<1> QED
  BY <1>1, <1>2, <1>3, <1>4, <1>5 DEF VisualizerNext

THEOREM VisualizerInvariance == VisualizerSpec => []VisualizerInvariant
BY InitialInvariant, NextKeepsInvariant, PTL DEF VisualizerSpec

(* Whatever the documents and the user's input, the state of the window    *)
(* keeps its types and an answer is only ever selected in an open dialog.  *)
THEOREM VisualizerTypes == VisualizerSpec => []VisualizerTypeOK
<1>1. VisualizerInvariant => VisualizerTypeOK
  BY DEF VisualizerInvariant, LoaderTypes, Sound, VisualizerTypeOK
<1> QED
  BY <1>1, VisualizerInvariance, PTL

(* No key, drag, switch or step of time leads out of the active scenario.  *)
THEOREM PlayheadStaysInside == VisualizerSpec => []PlayheadInside
<1>1. VisualizerInvariant => PlayheadInside
  <2> SUFFICES ASSUME VisualizerInvariant, Running PROVE PlayheadInside
    BY DEF PlayheadInside
  <2>1. active_index \in DOMAIN scenarios /\ Fits(app, Active) /\ app.playhead \in Nat
    BY DEF VisualizerInvariant, Playing, Running, Sound, StateRecords
  <2>2. End(Active) \in Nat
    BY <2>1, TrackOf, EndIsNat DEF VisualizerInvariant, Active
  <2> QED BY <2>1, <2>2 DEF PlayheadInside, Fits
<1> QED
  BY <1>1, VisualizerInvariance, PTL

(* The speed fits the scenario through every switch, until it is changed.  *)
THEOREM SpeedAlwaysFits == VisualizerSpec => []SpeedFitsScenario
<1>1. VisualizerInvariant => SpeedFitsScenario
  BY DEF VisualizerInvariant, Playing, Fits, SpeedFitsScenario, Running
<1> QED
  BY <1>1, VisualizerInvariance, PTL

(***************************************************************************)
(* Pictures.                                                               *)
(***************************************************************************)

LEMMA PhaseIsInt ==
  ASSUME NEW playhead \in Nat
  PROVE  Phase(playhead) \in Int
BY Z3 DEF Phase, Part

LEMMA ValuesAreInts ==
  ASSUME NEW t, ValidTick(t)
  PROVE  t.rpm \in Int /\ t.temp \in Int /\ t.oil \in Int
<1>1. t.rpm \in Revolutions /\ t.temp \in Temperatures /\ t.oil \in Pressures
  BY Zenon DEF ValidTick
<1>2. Revolutions \subseteq Int /\ Temperatures \subseteq Int /\ Pressures \subseteq Int
  BY DEF Revolutions, Temperatures, Pressures
<1> QED
  BY <1>1, <1>2

LEMMA ReadingIsInt ==
  ASSUME NEW ticks, Track(ticks), NEW playhead \in Nat
  PROVE  /\ Reading(ticks, playhead).rpm \in Int
         /\ Reading(ticks, playhead).temp \in Int
         /\ Reading(ticks, playhead).oil \in Int
<1> DEFINE at == Least(playhead, End(ticks))
           here == ticks[Base(at) + 1]
           next == ticks[Least(Base(at) + 2, Len(ticks))]
           phase == Phase(at)
<1>1. at \in Nat /\ at <= 8 * (Len(ticks) - 1) /\ Len(ticks) \in Nat \ {0}
  BY EndIsNat DEF Least, Track
<1> HIDE DEF at
<1>2. Base(at) + 1 \in 1..Len(ticks) /\ Least(Base(at) + 2, Len(ticks)) \in 1..Len(ticks)
  <2>1. at \div 8 \in Nat /\ at \div 8 < Len(ticks)
    BY <1>1
  <2> QED BY <1>1, <2>1 DEF Base, Part, Least
<1>3. ValidTick(here) /\ ValidTick(next)
  BY <1>2 DEF Track
<1>4. /\ here.rpm \in Int /\ here.temp \in Int /\ here.oil \in Int
      /\ next.rpm \in Int /\ next.temp \in Int /\ next.oil \in Int
  <2> HIDE DEF here, next
  <2> QED BY <1>3, ValuesAreInts
<1>5. phase \in Int
  BY <1>1, PhaseIsInt
<1>6. Reading(ticks, playhead) =
        [k \in {"rpm", "temp", "oil"} |-> Mixed(here[k], next[k], phase)]
  BY DEF Reading, at
<1> HIDE DEF here, next, phase
<1>7. ASSUME NEW a \in Int, NEW b \in Int
      PROVE  Mixed(a, b, phase) \in Int
  BY <1>5 DEF Mixed, Part
<1> QED
  BY <1>4, <1>6, <1>7

(* Between ticks as on them, the meters are coloured as the control law    *)
(* would judge the reading under the default calibration.                  *)
THEOREM MetersAlwaysAgree == VisualizerSpec => []MetersAgreeWithControl
<1>1. ASSUME NEW ticks, Track(ticks), NEW playhead \in Nat
      PROVE  LET picture == Picture(ticks, playhead)
                 fault(f) == FaultActive(Scaled(DefaultCalibration), Sample(picture.reading), f)
             IN  /\ picture.meters.temp = "SHUTDOWN" <=> fault("TEMP")
                 /\ picture.meters.oil = "SHUTDOWN" <=> fault("OIL")
                 /\ picture.meters.rpm = "WARNING" <=> fault("COMBINED")
  <2> DEFINE reading == Reading(ticks, playhead)
  <2>1. reading.rpm \in Int /\ reading.temp \in Int /\ reading.oil \in Int
    BY <1>1, ReadingIsInt
  <2>2. Picture(ticks, playhead).reading = reading /\ Picture(ticks, playhead).meters = Meters(reading)
    BY DEF Picture
  <2> HIDE DEF reading
  <2> QED BY <2>1, <2>2
          DEF Meters, TempLevel, OilLevel, RpmLevel, Part, FaultActive, Scaled,
              DefaultCalibration, Sample
<1>2. VisualizerInvariant => MetersAgreeWithControl
  <2> SUFFICES ASSUME VisualizerInvariant, NEW picture \in Range(shown)
               PROVE  LET fault(f) == FaultActive(Scaled(DefaultCalibration),
                                                  Sample(picture.reading), f)
                      IN  /\ picture.meters.temp = "SHUTDOWN" <=> fault("TEMP")
                          /\ picture.meters.oil = "SHUTDOWN" <=> fault("OIL")
                          /\ picture.meters.rpm = "WARNING" <=> fault("COMBINED")
    BY DEF MetersAgreeWithControl
  <2>1. PICK ticks, playhead : /\ Track(ticks) /\ playhead \in Nat
                               /\ picture = Picture(ticks, playhead)
    <3>1. active_index \in DOMAIN scenarios /\ picture = Picture(Active, app.playhead)
      BY DEF VisualizerInvariant, ShownFrom, Range
    <3>2. Track(Active) /\ app.playhead \in Nat
      BY <3>1, TrackOf DEF VisualizerInvariant, Active, Sound, StateRecords
    <3> QED BY <3>1, <3>2
  <2> QED BY <1>1, <2>1
<1> QED
  BY <1>2, VisualizerInvariance, PTL

(* While the dialog is open nothing but time moves the playback.           *)
THEOREM DialogKeepsTheKeys == VisualizerSpec => ModalIsModal
<1>1. ASSUME VisualizerInvariant, [VisualizerNext]_vars
      PROVE  [Running /\ app'.modal_open =>
                /\ UNCHANGED <<theme, active_index>>
                /\ app'.speed = app.speed /\ app'.paused = app.paused
                /\ app'.playhead >= app.playhead
                /\ app'.should_quit => app'.modal_yes]_vars
  <2>1. CASE \E input \in Inputs : Frame(input)
    <3>1. PICK input \in Inputs : Frame(input)
      BY <2>1
    <3>2. input \in InputRecords /\ stage = "running" /\ ~app.should_quit
      BY <3>1, VisualizerAssumption DEF Frame
    <3>3. CASE ModalFrame(input)
      BY <1>1, <3>2, <3>3, ModalFrameKeeps DEF Sound
    <3>4. CASE PlaybackFrame(input)
      BY <1>1, <3>2, <3>4, PlaybackFrameKeeps
    <3> QED BY <3>1, <3>3, <3>4 DEF Frame
  <2>2. CASE Close
    <3>1. UNCHANGED <<theme, active_index, app>> /\ Sound(app) /\ app.playhead \in Nat
      BY <1>1, <2>2 DEF Close, VisualizerInvariant, Sound, StateRecords
    <3> QED BY <3>1 DEF Sound
  <2>3. CASE Start \/ Run
    <3>1. ~Running
      BY <2>3 DEF Start, Run, ReadTheme, ReadPath, EndOfArguments, LoadFile, Running
    <3> QED BY <3>1
  <2> QED BY <1>1, <2>1, <2>2, <2>3 DEF VisualizerNext
<1> QED
  BY <1>1, VisualizerInvariance, PTL DEF VisualizerSpec, ModalIsModal

(***************************************************************************)
(* Pictures of the active scenario.                                        *)
(***************************************************************************)

LEMMA DivisionFacts ==
  ASSUME NEW x \in Nat, NEW y \in Nat \ {0}
  PROVE  /\ x \div y \in Nat
         /\ y * (x \div y) <= x /\ x < y * (x \div y) + y
  BY Z3

LEMMA ProductOrder ==
  ASSUME NEW d \in Nat \ {0}, NEW u \in Int, NEW v \in Int, d * u < d * v
  PROVE  u < v
<1>1. SUFFICES ASSUME v <= u PROVE FALSE
  OBVIOUS
<1>2. d * v <= d * u
  BY <1>1
<1> QED
  BY <1>2

(* The two ways of rounding the playhead to a tick are one.                *)
LEMMA LabelFacts ==
  ASSUME NEW ticks, Track(ticks), NEW playhead \in Nat
  PROVE  /\ ReadingIndex(ticks, playhead) = ActiveTickIndex(ticks, playhead)
         /\ ActiveCount(ticks, playhead) = ActiveTickIndex(ticks, playhead)
         /\ ActiveTickIndex(ticks, playhead) \in DOMAIN ticks
         /\ playhead >= End(ticks) => ActiveTickIndex(ticks, playhead) = Len(ticks)
<1> DEFINE n == Len(ticks)
           q == playhead \div 8
           r == playhead % 8
<1>1. n \in Nat \ {0} /\ DOMAIN ticks = 1..n /\ End(ticks) = 8 * (n - 1)
  BY EndIsNat DEF Track
<1>2. q \in Nat /\ r \in 0..7 /\ playhead = 8 * q + r
  BY Z3
<1>3. /\ (2 * playhead + 8) \div 16 = IF r >= 4 THEN q + 1 ELSE q
      /\ (playhead + 4) \div 8 = IF r >= 4 THEN q + 1 ELSE q
  BY <1>2, Z3
<1> DEFINE near == IF r >= 4 THEN q + 1 ELSE q
<1>4. near \in Nat
  BY <1>2
<1>5. ActiveTickIndex(ticks, playhead) = IF near + 1 > n THEN n ELSE near + 1
  BY <1>3 DEF ActiveTickIndex, Part
<1>6. ActiveCount(ticks, playhead) = IF near + 1 < n THEN near + 1 ELSE n
  <2>1. Part = 8 /\ Part \div 2 = 4
    BY Z3 DEF Part
  <2> HIDE DEF near
  <2>2. ActiveCount(ticks, playhead) = Least((playhead + 4) \div 8 + 1, n)
    BY <2>1 DEF ActiveCount
  <2>3. (playhead + 4) \div 8 = near
    BY <1>3 DEF near
  <2> QED BY <2>2, <2>3 DEF Least
<1>7. playhead >= 8 * (n - 1) <=> q + 1 >= n
  BY <1>1, <1>2
<1>8. ReadingIndex(ticks, playhead) = IF q + 1 >= n THEN n ELSE near + 1
  <2>1. CASE playhead <= 0
    <3>1. playhead = 0 /\ q = 0 /\ r = 0
      BY <1>2, <2>1
    <3>2. ReadingIndex(ticks, playhead) = 1
      BY <2>1 DEF ReadingIndex
    <3> HIDE DEF q, r
    <3> QED BY <1>1, <3>1, <3>2
  <2>2. CASE playhead > 0
    <3>1. Base(playhead) = q /\ Phase(playhead) = r /\ Part = 8
      BY DEF Base, Phase, Part
    <3>2. ReadingIndex(ticks, playhead) =
            IF playhead >= End(ticks) THEN n
            ELSE IF 2 * r >= 8 THEN q + 2 ELSE q + 1
      <4> HIDE DEF q, r
      <4> QED BY <1>1, <2>2, <3>1 DEF ReadingIndex
    <3> HIDE DEF q, r
    <3> QED BY <1>1, <1>2, <1>7, <3>2
  <2> QED BY <2>1, <2>2
<1> HIDE DEF q, r
<1>9. q + 1 >= n => near + 1 >= n
  BY <1>1, <1>2
<1> QED
  BY <1>1, <1>2, <1>4, <1>5, <1>6, <1>7, <1>8, <1>9

LEMMA DisjointParts ==
  ASSUME NEW S, IsFiniteSet(S), NEW A \in SUBSET S, NEW B \in SUBSET S, A \cap B = {}
  PROVE  Cardinality(A) + Cardinality(B) <= Cardinality(S)
<1>1. IsFiniteSet(A) /\ IsFiniteSet(B) /\ A \cup B \in SUBSET S
  BY FS_Subset
<1>2. Cardinality(A) \in Nat /\ Cardinality(B) \in Nat
  BY <1>1, FS_CardinalityType
<1>3. Cardinality(A \cup B) = Cardinality(A) + Cardinality(B) - Cardinality(A \cap B)
  BY <1>1, FS_Union
<1>4. Cardinality(A \cap B) = 0
  BY FS_EmptySet
<1>5. Cardinality(A \cup B) <= Cardinality(S)
  BY <1>1, FS_Subset
<1> QED
  BY <1>2, <1>3, <1>4, <1>5

(* No tick is counted as a warning and as a shutdown.                      *)
LEMMA RatesAddUp ==
  ASSUME NEW ticks, Track(ticks), NEW playhead \in Nat
  PROVE  FaultRate(ticks, playhead, "WARNING").faults
           + FaultRate(ticks, playhead, "SHUTDOWN").faults <= ActiveCount(ticks, playhead)
<1> DEFINE n == ActiveCount(ticks, playhead)
           Of(level) == {i \in 1..n : ModeLevel(ticks[i]) = level}
<1>1. n \in Nat
  BY LabelFacts DEF Track
<1>2. /\ FaultRate(ticks, playhead, "WARNING").faults = Cardinality(Of("WARNING"))
      /\ FaultRate(ticks, playhead, "SHUTDOWN").faults = Cardinality(Of("SHUTDOWN"))
  BY DEF FaultRate
<1> HIDE DEF n
<1>3. IsFiniteSet(1..n) /\ Cardinality(1..n) = n
  BY <1>1, FS_Interval
<1>4. /\ Of("WARNING") \in SUBSET (1..n) /\ Of("SHUTDOWN") \in SUBSET (1..n)
      /\ Of("WARNING") \cap Of("SHUTDOWN") = {}
  OBVIOUS
<1> HIDE DEF Of
<1>5. Cardinality(Of("WARNING")) + Cardinality(Of("SHUTDOWN")) <= Cardinality(1..n)
  BY <1>3, <1>4, DisjointParts
<1> QED
  BY <1>2, <1>3, <1>5 DEF n

LEMMA LastReading ==
  ASSUME NEW ticks, Track(ticks), NEW playhead \in Nat, playhead >= End(ticks),
         NEW k \in {"rpm", "temp", "oil"}
  PROVE  Reading(ticks, playhead)[k] = Part * ticks[Len(ticks)][k]
<1> DEFINE n == Len(ticks)
           last == ticks[n]
<1>1. n \in Nat \ {0} /\ End(ticks) = 8 * (n - 1) /\ ValidTick(last)
  BY EndIsNat DEF Track
<1>2. last[k] \in Int
  <2> HIDE DEF last
  <2> QED BY <1>1, ValuesAreInts
<1>3. Least(playhead, End(ticks)) = 8 * (n - 1)
  BY <1>1 DEF Least
<1>4. Base(8 * (n - 1)) = n - 1 /\ Phase(8 * (n - 1)) = 0
  <2>1. (8 * (n - 1)) \div 8 = n - 1 /\ ((8 * (n - 1)) % 8) = 0
    BY <1>1, Z3
  <2> QED BY <2>1 DEF Base, Phase, Part
<1>5. Least(n - 1 + 2, n) = n /\ n - 1 + 1 = n
  BY <1>1 DEF Least
<1>6. Reading(ticks, playhead)[k] = Mixed(last[k], last[k], 0)
  BY <1>3, <1>4, <1>5 DEF Reading
<1> HIDE DEF last
<1>7. Mixed(last[k], last[k], 0) = 8 * last[k]
  BY <1>2 DEF Mixed, Part
<1> QED
  BY <1>6, <1>7 DEF last, Part

(* What DisplayAgrees says of a picture.                                   *)
LEMMA PictureAgrees ==
  ASSUME NEW ticks, Track(ticks), NEW playhead \in Nat
  PROVE  LET picture == Picture(ticks, playhead)
         IN  /\ picture.status = picture.label /\ picture.label \in DOMAIN ticks
             /\ picture.warning.of = picture.label /\ picture.shutdown.of = picture.label
             /\ picture.warning.faults + picture.shutdown.faults <= picture.label
             /\ picture.ended => /\ picture.label = Len(ticks)
                                 /\ \A k \in {"rpm", "temp", "oil"} :
                                      picture.reading[k] = Part * ticks[Len(ticks)][k]
<1> DEFINE picture == Picture(ticks, playhead)
<1>1. /\ picture.status = ReadingIndex(ticks, playhead)
      /\ picture.label = ActiveTickIndex(ticks, playhead)
      /\ picture.reading = Reading(ticks, playhead)
      /\ picture.warning = FaultRate(ticks, playhead, "WARNING")
      /\ picture.shutdown = FaultRate(ticks, playhead, "SHUTDOWN")
      /\ picture.ended <=> playhead >= End(ticks)
  BY DEF Picture
<1>2. /\ FaultRate(ticks, playhead, "WARNING").of = ActiveCount(ticks, playhead)
      /\ FaultRate(ticks, playhead, "SHUTDOWN").of = ActiveCount(ticks, playhead)
  BY DEF FaultRate
<1> HIDE DEF picture
<1> QED
  BY <1>1, <1>2, LabelFacts, RatesAddUp, LastReading DEF picture


(* The labels of the time axis: every second tick and the last one, ...    *)
LEMMA DenseLabelsAreOrdered ==
  ASSUME NEW n \in Nat, n > 1
  PROVE  LET labels == DenseLabels(n)
         IN  /\ labels[1] = 1 /\ labels[Len(labels)] = n
             /\ \A i \in 2..Len(labels) : labels[i - 1] < labels[i]
<1> DEFINE odd == (n + 1) \div 2
           half == n \div 2
           labels == DenseLabels(n)
<1>1. /\ half \in Nat \ {0} /\ odd \in {half, half + 1}
      /\ odd = half => n = 2 * half
      /\ odd = half + 1 => n = 2 * half + 1
  BY Z3
<1>2. labels = [i \in 1..(half + 1) |-> IF i <= odd THEN 2 * i - 1 ELSE n]
  BY DEF DenseLabels
<1> HIDE DEF odd, half, labels
<1>3. Len(labels) = half + 1
  BY <1>1, <1>2
<1>4. \A i \in 1..(half + 1) : labels[i] = IF i <= odd THEN 2 * i - 1 ELSE n
  BY <1>2
<1>5. labels[1] = 1
  BY <1>1, <1>4
<1>6. labels[half + 1] = n
  BY <1>1, <1>4
<1>7. ASSUME NEW i \in 2..(half + 1) PROVE labels[i - 1] < labels[i]
  <2>1. labels[i - 1] = 2 * (i - 1) - 1
    BY <1>1, <1>4, <1>7
  <2>2. CASE i <= odd
    BY <1>1, <1>4, <1>7, <2>1, <2>2
  <2>3. CASE ~(i <= odd)
    <3>1. i = half + 1 /\ odd = half /\ n = 2 * half
      BY <1>1, <1>7, <2>3
    <3> QED BY <1>1, <1>6, <2>1, <3>1
  <2> QED BY <2>2, <2>3
<1> QED
  BY <1>3, <1>5, <1>6, <1>7 DEF labels

(* ... or as many as there is room for, spread evenly.                     *)
LEMMA SpreadLabelsAreOrdered ==
  ASSUME NEW n \in Nat, n > 1, NEW room \in Nat, room > 1
  PROVE  LET labels == SpreadLabels(n, room)
         IN  /\ labels[1] = 1 /\ labels[Len(labels)] = n
             /\ \A i \in 2..Len(labels) : labels[i - 1] < labels[i]
<1> DEFINE d == IF n <= room THEN n - 1 ELSE room - 1
           labels == SpreadLabels(n, room)
           x(i) == 2 * ((i - 1) * (n - 1)) + d
           q(i) == x(i) \div (2 * d)
<1>1. d \in Nat \ {0} /\ d <= n - 1
  OBVIOUS
<1>2. labels = [i \in 1..(d + 1) |-> q(i) + 1]
  BY DEF SpreadLabels, RoundedRatio
<1> HIDE DEF labels, d
<1>3. Len(labels) = d + 1 /\ \A i \in 1..(d + 1) : labels[i] = q(i) + 1
  BY <1>1, <1>2
<1>4. ASSUME NEW i \in 1..(d + 1) PROVE x(i) \in Nat
  <2>1. i - 1 \in Nat /\ n - 1 \in Nat
    BY <1>1
  <2>2. (i - 1) * (n - 1) \in Nat
    BY <2>1
  <2> QED BY <1>1, <2>2
<1>5. 2 * d \in Nat \ {0}
  BY <1>1
<1>6. q(1) = 0
  <2>1. x(1) = d
    BY <1>1
  <2>2. d \div (2 * d) = 0
    BY <1>1, Z3
  <2> QED BY <2>1, <2>2
<1>7. q(d + 1) = n - 1
  <2>1. x(d + 1) = (2 * d) * (n - 1) + d
    BY <1>1
  <2> DEFINE D == 2 * d
             m == n - 1
             p == (D * m + d) \div D
  <2>2. D \in Nat \ {0} /\ m \in Nat /\ D * m \in Nat /\ d < D
    BY <1>1
  <2> HIDE DEF D, m
  <2>3. p \in Nat /\ D * p <= D * m + d /\ D * m + d < D * p + D
    BY <1>1, <2>2, DivisionFacts
  <2> HIDE DEF p
  <2>4. D * p < D * (m + 1) /\ D * m < D * (p + 1)
    BY <1>1, <2>2, <2>3
  <2>5. p < m + 1
    BY <2>2, <2>3, <2>4, ProductOrder
  <2>6. m < p + 1
    BY <2>2, <2>3, <2>4, ProductOrder
  <2>7. p = m
    BY <2>2, <2>3, <2>5, <2>6
  <2> QED BY <2>1, <2>7 DEF p, D, m
<1>8. ASSUME NEW i \in 2..(d + 1) PROVE q(i - 1) < q(i)
  <2>1. i \in 1..(d + 1) /\ i - 1 \in 1..(d + 1) /\ i - 1 \in Int
    BY <1>1, <1>8
  <2>2. x(i) = x(i - 1) + 2 * (n - 1)
    BY <1>1, <2>1
  <2>3. x(i) \in Nat /\ x(i - 1) \in Nat
    BY <1>4, <2>1
  <2>4. 2 * (n - 1) >= 2 * d
    BY <1>1
  <2> DEFINE D == 2 * d
             a == x(i - 1)
             b == x(i)
             u == a \div D
             v == b \div D
  <2>5. D \in Nat \ {0} /\ a \in Nat /\ b \in Nat /\ b >= a + D
    BY <1>1, <1>5, <2>2, <2>3, <2>4
  <2>6. q(i - 1) = u /\ q(i) = v
    OBVIOUS
  <2> HIDE DEF D, a, b
  <2>7. /\ u \in Nat /\ D * u <= a
        /\ v \in Nat /\ b < D * v + D
    BY <2>5, DivisionFacts
  <2> HIDE DEF u, v
  <2>8. D * u < D * v
    BY <2>5, <2>7
  <2>9. u < v
    BY <2>5, <2>7, <2>8, ProductOrder
  <2> HIDE DEF q
  <2> QED BY <2>6, <2>9
<1>9. \A i \in 1..(d + 1) : q(i) \in Int
  BY <1>4, <1>5, DivisionFacts
<1> HIDE DEF q, x
<1>10. ASSUME NEW i \in 2..(d + 1) PROVE labels[i - 1] < labels[i]
  <2>1. i \in 1..(d + 1) /\ i - 1 \in 1..(d + 1)
    BY <1>1, <1>10
  <2> QED BY <1>3, <1>8, <1>9, <2>1
<1>11. labels[1] = 1 /\ labels[d + 1] = n
  <2>1. 1 \in 1..(d + 1) /\ d + 1 \in 1..(d + 1)
    BY <1>1
  <2> QED BY <1>3, <1>6, <1>7, <2>1
<1> QED
  BY <1>3, <1>10, <1>11 DEF labels

LEMMA LabelsAreOrdered ==
  ASSUME NEW n \in Nat, n > 1, NEW room \in Nat, room > 1
  PROVE  LET labels == AxisLabels(n, room)
         IN  /\ labels[1] = 1 /\ labels[Len(labels)] = n
             /\ \A i \in 2..Len(labels) : labels[i - 1] < labels[i]
<1>1. CASE n > DenseTicks
  <2>1. AxisLabels(n, room) = DenseLabels(n)
    BY <1>1, PlaybackAssumption DEF AxisLabels
  <2> QED BY <2>1, DenseLabelsAreOrdered
<1>2. CASE ~(n > DenseTicks)
  <2>1. AxisLabels(n, room) = SpreadLabels(n, room)
    BY <1>2, PlaybackAssumption DEF AxisLabels
  <2> DEFINE labels == SpreadLabels(n, room)
  <2>2. /\ labels[1] = 1 /\ labels[Len(labels)] = n
        /\ \A i \in 2..Len(labels) : labels[i - 1] < labels[i]
    BY SpreadLabelsAreOrdered
  <2> HIDE DEF labels
  <2> QED BY <2>1, <2>2 DEF labels
<1> QED
  BY <1>1, <1>2

(* Whatever is on the screen, its parts speak of the same tick, and the    *)
(* time axis names the ticks in order, for any documents and any window.   *)
THEOREM DisplayAlwaysAgrees == VisualizerSpec => []DisplayAgrees
<1>1. VisualizerInvariant => DisplayAgrees
  <2> SUFFICES ASSUME VisualizerInvariant PROVE DisplayAgrees
    OBVIOUS
  <2>1. ASSUME NEW picture \in Range(shown)
        PROVE  /\ picture.status = picture.label /\ picture.label \in DOMAIN Active
               /\ picture.warning.of = picture.label /\ picture.shutdown.of = picture.label
               /\ picture.warning.faults + picture.shutdown.faults <= picture.label
               /\ picture.ended => /\ picture.label = Len(Active)
                                   /\ \A k \in {"rpm", "temp", "oil"} :
                                        picture.reading[k] = Part * Active[Len(Active)][k]
    <3>1. active_index \in DOMAIN scenarios /\ picture = Picture(Active, app.playhead)
      BY <2>1 DEF VisualizerInvariant, ShownFrom, Range
    <3>2. Track(Active) /\ app.playhead \in Nat
      BY <3>1, TrackOf DEF VisualizerInvariant, Active, Sound, StateRecords
    <3> QED BY <3>1, <3>2, PictureAgrees
  <2>2. ASSUME NEW s \in DOMAIN scenarios, NEW room \in 2..MAX_TICKS, Len(Ticks(s)) > 1
        PROVE  LET labels == AxisLabels(Len(Ticks(s)), room)
               IN  /\ labels[1] = 1 /\ labels[Len(labels)] = Len(Ticks(s))
                   /\ \A i \in 2..Len(labels) : labels[i - 1] < labels[i]
    <3>1. Len(Ticks(s)) \in Nat
      BY TrackOf DEF VisualizerInvariant, Track
    <3>2. room \in Nat /\ room > 1
      BY LoaderAssumption
    <3> QED BY <2>2, <3>1, <3>2, LabelsAreOrdered
  <2> QED BY <2>1, <2>2 DEF DisplayAgrees
<1> QED
  BY <1>1, VisualizerInvariance, PTL


(***************************************************************************)
(* What the documents say is what is loaded.                               *)
(***************************************************************************)

LEMMA FirstIsFirst ==
  ASSUME NEW n \in Nat \ {0}, NEW values, values = [i \in 1..n |-> values[i]],
         values[1] # Missing
  PROVE  FirstValue(values) = values[1]
<1> DEFINE I == {i \in 1..Len(values) : values[i] # Missing}
           first == CHOOSE x \in I : \A y \in I : x =< y
<1>1. Len(values) = n
  OBVIOUS
<1>2. 1 \in I /\ I \subseteq Nat /\ \A y \in I : 1 =< y
  BY <1>1
<1>3. first \in I /\ \A y \in I : first =< y
  BY <1>2
<1>4. first = 1
  BY <1>2, <1>3
<1>5. FirstValue(values) = IF (IF I # {} THEN first ELSE 0) = 0 THEN Missing
                           ELSE values[IF I # {} THEN first ELSE 0]
  BY DEF FirstValue, SelectInSeq, Min
<1> HIDE DEF I, first
<1> QED
  BY <1>2, <1>4, <1>5

LEMMA LoadedValues ==
  ASSUME NEW doc \in Documents, NEW s \in DOMAIN doc.scenarios
  PROVE  AsWritten(ScenarioAt(doc, s), doc.scenarios[s])
<1> DEFINE written == doc.scenarios[s]
           n == Len(doc.scenarios)
           m == Len(written.ticks)
<1>1. n \in Nat /\ s \in 1..n /\ DOMAIN doc.scenarios = 1..n
  BY LoaderAssumption DEF IsSequence
<1>2. m \in Nat /\ DOMAIN written.ticks = 1..m
  BY LoaderAssumption DEF IsSequence
<1> DEFINE k == n - s + 1
<1>3. k \in Nat \ {0} /\ 1 \in 1..k /\ Onwards(doc, s) = 1..k /\ s + 1 - 1 = s
  BY <1>1 DEF Onwards
<1> HIDE DEF k
<1>4. ASSUME NEW key PROVE written[key] \in {Missing, ScenarioValue(doc, s, key)}
  <2> DEFINE values == [t \in 1..k |-> doc.scenarios[s + t - 1][key]]
  <2>1. values[1] = written[key]
    BY <1>3
  <2>2. ScenarioValue(doc, s, key) = FirstValue(values)
    BY <1>3 DEF ScenarioValue
  <2>3. values = [t \in 1..k |-> values[t]]
    OBVIOUS
  <2> HIDE DEF values
  <2>4. CASE written[key] # Missing
    <3>1. FirstValue(values) = values[1]
      BY <1>3, <2>1, <2>3, <2>4, FirstIsFirst
    <3> QED BY <2>1, <2>2, <3>1
  <2> QED BY <2>4
<1>5. ASSUME NEW i \in 1..m, NEW key
      PROVE  written.ticks[i][key] \in {Missing, TickValue(doc, s, i, key)}
  <2> DEFINE c == m - i + 1
             own == [j \in 1..c |-> written.ticks[i + j - 1][key]]
             values == [t \in 1..k |-> ValueFrom(doc.scenarios[s + t - 1].ticks,
                                                 IF t = 1 THEN i ELSE 1, key)]
  <2>1. c \in Nat \ {0} /\ 1 \in 1..c /\ i + 1 - 1 = i
    BY <1>2, <1>5
  <2>2. own[1] = written.ticks[i][key]
    BY <2>1
  <2>3. ValueFrom(written.ticks, i, key) = FirstValue(own)
    BY DEF ValueFrom
  <2>4. values[1] = ValueFrom(written.ticks, i, key)
    BY <1>3
  <2>5. TickValue(doc, s, i, key) = FirstValue(values)
    BY <1>3 DEF TickValue
  <2>6. own = [j \in 1..c |-> own[j]] /\ values = [t \in 1..k |-> values[t]]
    OBVIOUS
  <2> HIDE DEF own, values, c
  <2>7. CASE written.ticks[i][key] # Missing
    <3>1. FirstValue(own) = own[1]
      BY <2>1, <2>2, <2>6, <2>7, FirstIsFirst
    <3>2. FirstValue(values) = values[1]
      BY <1>3, <2>2, <2>3, <2>4, <2>6, <2>7, <3>1, FirstIsFirst
    <3> QED BY <2>2, <2>3, <2>4, <2>5, <3>1, <3>2
  <2> QED BY <2>7
<1> DEFINE loaded == ScenarioAt(doc, s)
<1>6. /\ \A key \in ScenarioKeys : loaded[key] = ScenarioValue(doc, s, key)
      /\ loaded.ticks = [i \in 1..m |-> TickAt(doc, s, i)]
  BY <1>2 DEF ScenarioAt, ScenarioKeys
<1>7. Len(loaded.ticks) = m /\ \A i \in 1..m : loaded.ticks[i] = TickAt(doc, s, i)
  BY <1>2, <1>6
<1>8. \A i \in 1..m, key \in TickKeys : loaded.ticks[i][key] = TickValue(doc, s, i, key)
  BY <1>7 DEF TickAt
<1>9. m = Len(written.ticks)
  OBVIOUS
<1> HIDE DEF loaded, written, m
<1>10. \A key \in ScenarioKeys : written[key] \in {Missing, loaded[key]}
  BY <1>4, <1>6
<1>11. \A i \in DOMAIN written.ticks, key \in TickKeys :
         written.ticks[i][key] \in {Missing, loaded.ticks[i][key]}
  <2> SUFFICES ASSUME NEW i \in 1..m, NEW key \in TickKeys
               PROVE  written.ticks[i][key] \in {Missing, loaded.ticks[i][key]}
    BY <1>2
  <2> QED BY <1>5, <1>8
<1>12. AsWritten(loaded, written)
  BY <1>7, <1>9, <1>10, <1>11 DEF AsWritten
<1> QED
  BY <1>12 DEF loaded, written

(* Induction over the naturals, as a statement about a set of them.        *)
LEMMA LeastNumber ==
  ASSUME NEW T, T \subseteq Nat, T # {}
  PROVE  \E m \in T : \A k \in T : m <= k
<1> DEFINE Below == {p \in Nat \X Nat : p[1] < p[2]}
<1>1. IsWellFoundedOn(Below, Nat)
  BY NatLessThanWellFounded DEF OpToRel
<1>2. PICK x \in T : \A y \in T : ~(<<y, x>> \in Below)
  BY <1>1, WFMin
<1>3. ASSUME NEW y \in T PROVE x <= y
  <2>1. ~(<<y, x>> \in Below)
    BY <1>2
  <2> QED BY <2>1
<1> QED
  BY <1>3

(* What increases from each tick to the next increases throughout.         *)
LEMMA IncreaseIsOrder ==
  ASSUME NEW n \in Nat, NEW at, \A i \in 1..n : at[i] \in Int,
         \A i \in 2..n : at[i - 1] < at[i]
  PROVE  \A i, j \in 1..n : i < j => at[i] < at[j]
<1> SUFFICES ASSUME NEW i \in 1..n, NEW last \in 1..n, i < last, ~(at[i] < at[last])
             PROVE  FALSE
  OBVIOUS
<1> DEFINE T == {j \in 1..n : i < j /\ ~(at[i] < at[j])}
<1>1. T \subseteq Nat /\ last \in T
  OBVIOUS
<1>2. PICK m \in T : \A k \in T : m <= k
  BY <1>1, LeastNumber
<1>3. m \in 2..n /\ m - 1 \in 1..n /\ at[m - 1] < at[m] /\ ~(at[i] < at[m])
  BY <1>2
<1>4. CASE m - 1 = i
  BY <1>3, <1>4
<1>5. CASE m - 1 # i
  <2>1. m - 1 \notin T
    BY <1>2, <1>3
  <2>2. i < m - 1
    BY <1>2, <1>3, <1>5
  <2>3. at[i] < at[m - 1]
    BY <1>3, <2>1, <2>2
  <2>4. at[i] \in Int /\ at[m] \in Int /\ at[m - 1] \in Int
    BY <1>2, <1>3
  <2> QED BY <1>3, <2>3, <2>4
<1> QED
  BY <1>4, <1>5

LEMMA LoadedIsPlayable ==
  ASSUME NEW scenario \in Scenarios
  PROVE  Playable(scenario)
<1>1. PICK doc \in Documents : scenario \in {ScenarioAt(doc, s) : s \in Loadable(doc)}
  BY DEF Scenarios
<1>2. PICK s \in DOMAIN doc.scenarios : ValidScenario(doc, s) /\ scenario = ScenarioAt(doc, s)
  BY <1>1 DEF Loadable
<1> DEFINE n == Len(doc.scenarios[s].ticks)
           ticks == [i \in 1..n |-> TickAt(doc, s, i)]
           at == [i \in 1..n |-> TickAt(doc, s, i).tick]
<1>3. n \in Nat /\ DOMAIN doc.scenarios[s].ticks = 1..n
  BY LoaderAssumption DEF IsSequence
<1>4. n \in 1..MAX_TICKS /\ \A i \in 1..n : ValidTick(TickAt(doc, s, i))
  BY <1>2, <1>3 DEF ValidScenario
<1>5. scenario.ticks = ticks
  BY <1>2, <1>3 DEF ScenarioAt
<1>6. TicksIncrease(ticks)
  BY <1>2, <1>3, Zenon DEF ValidScenario
<1> HIDE DEF n
<1>7. Len(ticks) = n /\ DOMAIN ticks = 1..n /\ \A i \in 1..n : ticks[i] = TickAt(doc, s, i)
  BY <1>3
<1>8. \A i \in 2..n : at[i - 1] < at[i]
  <2>1. \A i \in 2..n : ticks[i - 1].tick < ticks[i].tick
    BY <1>6, <1>7 DEF TicksIncrease
  <2>2. \A i \in 2..n : i \in 1..n /\ i - 1 \in 1..n
    BY <1>3
  <2> QED BY <1>7, <2>1, <2>2
<1>9. \A i \in 1..n : at[i] \in Int
  BY <1>4, LoaderAssumption DEF ValidTick
<1> HIDE DEF ticks, at
<1>10. \A i, j \in 1..n : i < j => at[i] < at[j]
  BY <1>3, <1>8, <1>9, IncreaseIsOrder
<1> QED
  BY <1>4, <1>5, <1>7, <1>10 DEF Playable, at


(* The pairs of a file and a scenario of it, over the files before one.    *)
Before(loaded, f) == UNION {{g} \X DOMAIN loaded[g].scenarios : g \in 1..(f - 1)}

(* Scenarios take their places file by file, and stay there.               *)
FilesLoaded ==
  /\ files \in Seq(Documents)
  /\ \A f \in 1..(Len(files) + 1) :
       IsFiniteSet(Before(files, f)) /\ Cardinality(Before(files, f)) \in Nat
  /\ \A f \in 1..Len(files) :
       Cardinality(Before(files, f)) + Len(files[f].scenarios) <= Len(scenarios)
  /\ \A f \in 1..Len(files) : \A s \in DOMAIN files[f].scenarios :
       AsWritten(scenarios[Cardinality(Before(files, f)) + s], files[f].scenarios[s])
  /\ Len(scenarios) = Cardinality(Before(files, Len(files) + 1))
  /\ Len(scenarios) <= MAX_SCENARIOS
  /\ stage \in {"running", "closed"} => paths = 0

LEMMA NoFilesYet ==
  ASSUME VisualizerInit
  PROVE  FilesLoaded
<1>1. files = << >> /\ scenarios = << >> /\ stage = "arguments" /\ Len(files) = 0
  BY DEF VisualizerInit, LoaderInit
<1>2. Before(files, 1) = {}
  BY DEF Before
<1>3. IsFiniteSet({}) /\ Cardinality({}) = 0
  BY FS_EmptySet
<1>4. \A f \in 1..(Len(files) + 1) : f = 1
  BY <1>1
<1>5. files \in Seq(Documents) /\ Len(scenarios) = 0 /\ Len(files) + 1 = 1 /\ 1..Len(files) = {}
  BY <1>1
<1>6. /\ \A f \in 1..(Len(files) + 1) :
            IsFiniteSet(Before(files, f)) /\ Cardinality(Before(files, f)) \in Nat
      /\ Len(scenarios) = Cardinality(Before(files, Len(files) + 1))
  <2> DEFINE before(f) == Before(files, f)
  <2>1. IsFiniteSet(before(1)) /\ Cardinality(before(1)) = 0
    BY <1>2, <1>3
  <2> HIDE DEF before
  <2>2. \A f \in 1..(Len(files) + 1) : IsFiniteSet(before(f)) /\ Cardinality(before(f)) \in Nat
    BY <1>4, <2>1
  <2>3. Len(scenarios) = Cardinality(before(Len(files) + 1))
    BY <1>5, <2>1
  <2> QED BY <2>2, <2>3 DEF before
<1>7. /\ \A f \in 1..Len(files) :
           Cardinality(Before(files, f)) + Len(files[f].scenarios) <= Len(scenarios)
      /\ \A f \in 1..Len(files) : \A s \in DOMAIN files[f].scenarios :
           AsWritten(scenarios[Cardinality(Before(files, f)) + s], files[f].scenarios[s])
  BY <1>5
<1>8. Len(scenarios) <= MAX_SCENARIOS
  BY <1>5, LoaderAssumption
<1> QED
  BY <1>1, <1>5, <1>6, <1>7, <1>8, Zenon DEF FilesLoaded

LEMMA FilesStay ==
  ASSUME FilesLoaded, UNCHANGED <<files, scenarios>>,
         stage' \in {"running", "closed"} => paths' = 0
  PROVE  FilesLoaded'
BY DEF FilesLoaded, Before

LEMMA PlacesStay ==
  ASSUME NEW loaded \in Seq(Documents), NEW doc \in Documents, NEW f \in 1..(Len(loaded) + 1)
  PROVE  Before(Append(loaded, doc), f) = Before(loaded, f)
<1>1. \A g \in 1..(f - 1) : Append(loaded, doc)[g] = loaded[g]
  OBVIOUS
<1> QED
  BY <1>1 DEF Before

LEMMA PlacesOfAFile ==
  ASSUME NEW loaded \in Seq(Documents), NEW doc \in Documents,
         IsFiniteSet(Before(loaded, Len(loaded) + 1))
  PROVE  LET before == Before(loaded, Len(loaded) + 1)
             after == Before(Append(loaded, doc), Len(loaded) + 2)
         IN  /\ IsFiniteSet(after)
             /\ Cardinality(after) = Cardinality(before) + Len(doc.scenarios)
             /\ Cardinality(before) \in Nat /\ Len(doc.scenarios) \in Nat
<1> DEFINE n == Len(loaded)
           more == Append(loaded, doc)
           places(g) == {g} \X DOMAIN more[g].scenarios
           before == Before(loaded, n + 1)
           own == {n + 1} \X DOMAIN doc.scenarios
           m == Len(doc.scenarios)
<1>1. n \in Nat /\ more[n + 1] = doc
  OBVIOUS
<1>2. m \in Nat /\ DOMAIN doc.scenarios = 1..m
  BY LoaderAssumption DEF IsSequence
<1>3. before = UNION {places(g) : g \in 1..n}
  <2>1. before = Before(more, n + 1)
    BY <1>1, PlacesStay
  <2>2. n + 1 - 1 = n
    BY <1>1
  <2> QED BY <2>1, <2>2 DEF Before
<1>4. Before(more, n + 2) = UNION {places(g) : g \in 1..(n + 1)}
  <2>1. n + 2 - 1 = n + 1
    BY <1>1
  <2> QED BY <2>1 DEF Before
<1>5. own = places(n + 1)
  BY <1>1
<1>6. 1..(n + 1) = (1..n) \cup {n + 1}
  BY <1>1
<1>7. before \cap own = {}
  <2> SUFFICES ASSUME NEW p \in before, p \in own PROVE FALSE
    OBVIOUS
  <2>1. PICK g \in 1..n : p \in places(g)
    BY <1>3
  <2>2. p[1] = g /\ p[1] = n + 1
    BY <2>1
  <2> QED BY <1>1, <2>1, <2>2
<1> HIDE DEF places
<1>8. Before(more, n + 2) = before \cup own
  <2> HIDE DEF before, own, n
  <2> QED BY <1>3, <1>4, <1>5, <1>6
<1>9. IsFiniteSet({n + 1}) /\ Cardinality({n + 1}) = 1
  BY FS_Singleton
<1>10. IsFiniteSet(1..m) /\ Cardinality(1..m) = m
  BY <1>2, FS_Interval
<1>11. IsFiniteSet(own) /\ Cardinality(own) = m
  <2>1. IsFiniteSet(own) /\ Cardinality(own) = 1 * Cardinality(1..m)
    BY <1>2, <1>9, <1>10, FS_Product
  <2> QED BY <1>2, <1>10, <2>1
<1>12. Cardinality(before) \in Nat
  BY FS_CardinalityType
<1> HIDE DEF own, before, m
<1>13. /\ IsFiniteSet(before \cup own)
       /\ Cardinality(before \cup own) = Cardinality(before) + m - Cardinality(before \cap own)
  BY <1>11, FS_Union DEF before
<1>14. Cardinality(before \cap own) = 0
  BY <1>7, FS_EmptySet
<1>15. Cardinality(before \cup own) = Cardinality(before) + m
  BY <1>2, <1>12, <1>13, <1>14 DEF m
<1> QED
  BY <1>2, <1>8, <1>12, <1>13, <1>15 DEF before, m


LEMMA Joined ==
  ASSUME NEW S, NEW a \in Seq(S), NEW b \in Seq(S)
  PROVE  /\ Len(a \o b) = Len(a) + Len(b)
         /\ \A i \in 1..Len(a) : (a \o b)[i] = a[i]
         /\ \A i \in 1..Len(b) : (a \o b)[Len(a) + i] = b[i]
OBVIOUS

LEMMA LoadedFileTakesItsPlaces ==
  ASSUME FilesLoaded, LoaderTypes, NEW doc \in Documents,
         Parses(doc, MAX_SCENARIOS - Len(scenarios)),
         scenarios' = scenarios \o Parsed(doc), files' = Append(files, doc),
         stage' \notin {"running", "closed"}
  PROVE  FilesLoaded'
<1> DEFINE n == Len(files)
           at(f) == Cardinality(Before(files, f))
           m == Len(doc.scenarios)
<1>1. /\ files \in Seq(Documents) /\ n \in Nat /\ scenarios \in Seq(Scenarios)
      /\ Len(scenarios) \in Nat /\ MAX_SCENARIOS \in Nat
  BY LoaderAssumption DEF FilesLoaded, LoaderTypes
<1>2. /\ files' \in Seq(Documents) /\ Len(files') = n + 1 /\ files'[n + 1] = doc
      /\ \A f \in 1..n : files'[f] = files[f]
  BY <1>1
<1>3. /\ \A f \in 1..(n + 1) : IsFiniteSet(Before(files, f)) /\ at(f) \in Nat
      /\ \A f \in 1..n : at(f) + Len(files[f].scenarios) <= Len(scenarios)
      /\ \A f \in 1..n : \A s \in DOMAIN files[f].scenarios :
           AsWritten(scenarios[at(f) + s], files[f].scenarios[s])
      /\ Len(scenarios) = at(n + 1)
  BY DEF FilesLoaded
<1>4. \A f \in 1..(n + 1) : Before(files', f) = Before(files, f)
  BY <1>1, PlacesStay
<1>5. /\ IsFiniteSet(Before(files', n + 2)) /\ m \in Nat
      /\ Cardinality(Before(files', n + 2)) = Len(scenarios) + m
  <2>1. n + 1 \in 1..(n + 1)
    BY <1>1
  <2>2. IsFiniteSet(Before(files, n + 1))
    BY <1>3, <2>1
  <2> QED BY <1>1, <1>3, <2>2, PlacesOfAFile
<1>6. /\ m \in 1..(MAX_SCENARIOS - Len(scenarios)) /\ DOMAIN doc.scenarios = 1..m
      /\ Parsed(doc) = [s \in 1..m |-> ScenarioAt(doc, s)]
  <2>1. m \in 1..(MAX_SCENARIOS - Len(scenarios))
    BY Zenon DEF Parses
  <2>2. DOMAIN doc.scenarios = 1..m
    BY LoaderAssumption DEF IsSequence
  <2> QED BY <2>1, <2>2 DEF Parsed
<1>7. Parsed(doc) \in Seq(Scenarios)
  <2>1. MAX_SCENARIOS - Len(scenarios) \in Int
    BY <1>1
  <2> QED BY <2>1, ParsedScenarios
<1> HIDE DEF m
<1>8. /\ Len(scenarios') = Len(scenarios) + m
      /\ \A i \in 1..Len(scenarios) : scenarios'[i] = scenarios[i]
      /\ \A s \in 1..m : scenarios'[Len(scenarios) + s] = ScenarioAt(doc, s)
  <2>1. Len(Parsed(doc)) = m /\ \A s \in 1..m : Parsed(doc)[s] = ScenarioAt(doc, s)
    BY <1>5, <1>6
  <2> DEFINE new == Parsed(doc)
  <2>2. new \in Seq(Scenarios)
    BY <1>7
  <2> HIDE DEF new
  <2>3. /\ Len(scenarios \o new) = Len(scenarios) + Len(new)
        /\ \A i \in 1..Len(scenarios) : (scenarios \o new)[i] = scenarios[i]
        /\ \A s \in 1..Len(new) : (scenarios \o new)[Len(scenarios) + s] = new[s]
    BY <1>1, <2>2, Joined
  <2>4. scenarios' = scenarios \o new /\ Len(new) = m
        /\ \A s \in 1..m : new[s] = ScenarioAt(doc, s)
    BY <2>1 DEF new
  <2> QED BY <2>3, <2>4
<1>9. Len(scenarios') <= MAX_SCENARIOS
  BY <1>1, <1>5, <1>6, <1>8
<1>10. \A f \in 1..(n + 2) :
         IsFiniteSet(Before(files', f)) /\ Cardinality(Before(files', f)) \in Nat
  <2> SUFFICES ASSUME NEW f \in 1..(n + 2)
               PROVE  IsFiniteSet(Before(files', f)) /\ Cardinality(Before(files', f)) \in Nat
    OBVIOUS
  <2>1. CASE f = n + 2
    <3>1. Len(scenarios) + m \in Nat
      BY <1>1, <1>5
    <3> QED BY <1>5, <2>1, <3>1
  <2>2. CASE f # n + 2
    <3>1. f \in 1..(n + 1)
      BY <1>1, <2>2
    <3> QED BY <1>3, <1>4, <3>1
  <2> QED BY <2>1, <2>2
<1>11. ASSUME NEW f \in 1..(n + 1)
       PROVE  /\ Cardinality(Before(files', f)) = at(f)
              /\ at(f) + Len(files'[f].scenarios) <= Len(scenarios')
              /\ \A s \in DOMAIN files'[f].scenarios :
                   AsWritten(scenarios'[at(f) + s], files'[f].scenarios[s])
  <2>1. Cardinality(Before(files', f)) = at(f) /\ at(f) \in Nat
    BY <1>3, <1>4
  <2> HIDE DEF at
  <2>2. CASE f = n + 1
    <3>1. files'[f] = doc /\ at(f) = Len(scenarios)
      BY <1>2, <1>3, <2>2
    <3>2. \A s \in 1..m : AsWritten(ScenarioAt(doc, s), doc.scenarios[s])
      BY <1>6, LoadedValues
    <3>3. \A s \in 1..m : AsWritten(scenarios'[at(f) + s], doc.scenarios[s])
      BY <1>8, <3>1, <3>2
    <3>4. Len(doc.scenarios) = m
      BY DEF m
    <3>5. at(f) + m <= Len(scenarios')
      BY <1>1, <1>5, <1>8, <3>1
    <3> QED BY <1>6, <2>1, <3>1, <3>3, <3>4, <3>5
  <2>3. CASE f # n + 1
    <3>1. f \in 1..n /\ files'[f] = files[f] /\ files[f] \in Documents
      BY <1>1, <1>2, <2>3
    <3> DEFINE k == Len(files[f].scenarios)
    <3>2. k \in Nat /\ DOMAIN files[f].scenarios = 1..k
      BY <3>1, LoaderAssumption DEF IsSequence
    <3>3. at(f) + k <= Len(scenarios)
      BY <1>3, <3>1
    <3>4. \A s \in 1..k : AsWritten(scenarios[at(f) + s], files[f].scenarios[s])
      BY <1>3, <3>1, <3>2
    <3> HIDE DEF k
    <3>5. \A s \in 1..k : scenarios'[at(f) + s] = scenarios[at(f) + s]
      BY <1>1, <1>8, <2>1, <3>2, <3>3
    <3>6. \A s \in 1..k : AsWritten(scenarios'[at(f) + s], files[f].scenarios[s])
      BY <3>4, <3>5
    <3>7. at(f) + k <= Len(scenarios')
      BY <1>1, <1>5, <1>8, <2>1, <3>2, <3>3
    <3> QED BY <2>1, <3>1, <3>2, <3>6, <3>7 DEF k
  <2> QED BY <2>2, <2>3
<1>12. Len(files') + 1 = n + 2
  BY <1>1, <1>2
<1> HIDE DEF n, at
<1> QED
  BY <1>2, <1>5, <1>8, <1>9, <1>10, <1>11, <1>12 DEF FilesLoaded, n

LEMMA NextKeepsFiles ==
  ASSUME VisualizerInvariant, FilesLoaded, [VisualizerNext]_vars
  PROVE  FilesLoaded'
<1>1. CASE ReadTheme \/ ReadPath \/ EndOfArguments
  <2>1. UNCHANGED <<files, scenarios>> /\ stage' \notin {"running", "closed"}
    BY <1>1 DEF ReadTheme, ReadPath, EndOfArguments, Fail
  <2> QED BY <2>1, FilesStay
<1>2. CASE \E doc \in Documents : LoadFile(doc)
  <2>1. PICK doc \in Documents : LoadFile(doc)
    BY <1>2
  <2>2. CASE Fail
    <3>1. UNCHANGED <<files, scenarios>> /\ stage' \notin {"running", "closed"}
      BY <2>2 DEF Fail
    <3> QED BY <3>1, FilesStay
  <2>3. CASE ~Fail
    <3>1. /\ Parses(doc, MAX_SCENARIOS - Len(scenarios)) /\ files' = Append(files, doc)
          /\ stage = "loading" /\ scenarios' = scenarios \o Parsed(doc) /\ stage' = stage
      BY <2>1, <2>3, Zenon DEF LoadFile
    <3>2. stage' \notin {"running", "closed"}
      BY <3>1
    <3> QED BY <3>1, <3>2, LoadedFileTakesItsPlaces DEF VisualizerInvariant
  <2> QED BY <2>2, <2>3
<1>3. CASE Run
  <2>1. UNCHANGED <<files, scenarios>> /\ paths' = 0
    BY <1>3 DEF Run
  <2> QED BY <2>1, FilesStay
<1>4. CASE \E input \in Inputs : Frame(input)
  <2>1. UNCHANGED <<files, scenarios, stage, paths>>
    BY <1>4 DEF Frame
  <2> QED BY <2>1, FilesStay DEF FilesLoaded
<1>5. CASE Close
  <2>1. UNCHANGED <<files, scenarios, paths>> /\ stage = "running"
    BY <1>5 DEF Close
  <2> QED BY <2>1, FilesStay DEF FilesLoaded
<1>6. CASE UNCHANGED vars
  <2>1. UNCHANGED <<files, scenarios, stage, paths>>
    BY <1>6 DEF vars, loaderVars
  <2> QED BY <2>1, FilesStay DEF FilesLoaded
<1> QED
  BY <1>1, <1>2, <1>3, <1>4, <1>5, <1>6 DEF VisualizerNext, Start

(* For any documents: every scenario of every file is loaded, in its place *)
(* and with the values of the text, and can be played.                     *)
THEOREM DocumentsLoadedAsWritten == VisualizerSpec => []LoadedAsWritten
<1>1. ASSUME VisualizerInvariant, FilesLoaded
      PROVE  LoadedAsWritten
  <2>1. \A f : Offset(f) = Cardinality(Before(files, f))
    BY DEF Offset, Before
  <2>2. DOMAIN files = 1..Len(files) /\ Len(files) \in Nat
    BY <1>1 DEF FilesLoaded
  <2>3. \A s \in DOMAIN scenarios : Playable(scenarios[s])
    <3>1. \A s \in DOMAIN scenarios : scenarios[s] \in Scenarios
      BY <1>1 DEF VisualizerInvariant, LoaderTypes
    <3> QED BY <3>1, LoadedIsPlayable
  <2>4. stage \in {"running", "closed"} => paths = 0 /\ scenarios # << >>
    BY <1>1 DEF VisualizerInvariant, FilesLoaded, SomethingLoaded
  <2>5. /\ Len(scenarios) = Offset(Len(files) + 1) /\ Len(scenarios) <= MAX_SCENARIOS
        /\ \A f \in DOMAIN files : \A s \in DOMAIN files[f].scenarios :
             AsWritten(scenarios[Offset(f) + s], files[f].scenarios[s])
    BY <1>1, <2>1, <2>2 DEF FilesLoaded
  <2> QED BY <2>3, <2>4, <2>5 DEF LoadedAsWritten
<1>2. VisualizerInit => FilesLoaded
  BY NoFilesYet
<1>3. VisualizerInvariant /\ FilesLoaded /\ [VisualizerNext]_vars => FilesLoaded'
  BY NextKeepsFiles
<1> QED
  BY <1>1, <1>2, <1>3, VisualizerInvariance, PTL DEF VisualizerSpec
=============================================================================
