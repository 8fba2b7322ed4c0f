------------------------------ MODULE Playback ------------------------------
(***************************************************************************)
(* What the visualizer shows of a scenario at a playhead: the interpolated *)
(* reading, the tick it counts as current, the fault rates, the meters and *)
(* the labels of the time axis (visualizer_playback.c and the parts of     *)
(* visualizer_ui.c that decide something).                                 *)
(*                                                                         *)
(* A playhead is counted in eighths of a tick, so that every position the  *)
(* frames of this model reach, and the half-way point between two ticks,   *)
(* is exact; readings are then exact in eighths of the frame units.        *)
(***************************************************************************)
EXTENDS Control, Sequences, FiniteSets

CONSTANTS
  ShortTicks,     \* ticks of a scenario that is played slowly (8)
  ShortSpeed,     \* SHORT_SCENARIO_TICKS_PER_SECOND, in half ticks (5)
  DefaultSpeed,   \* DEFAULT_TICKS_PER_SECOND, in half ticks (12)
  DenseTicks      \* ticks above which every second one is labelled (32)

ASSUME PlaybackAssumption == ShortTicks \in Nat /\ DenseTicks \in Nat

Least(a, b) == IF a < b THEN a ELSE b
Most(a, b) == IF a > b THEN a ELSE b

Part == 8         \* parts of a tick
End(ticks) == Part * (Len(ticks) - 1)

(* visualizer_default_ticks_per_second()                                   *)
SpeedFor(ticks) == IF Len(ticks) <= ShortTicks THEN ShortSpeed ELSE DefaultSpeed

-----------------------------------------------------------------------------
(* visualizer_interpolate_tick(): the values are drawn between two ticks,  *)
(* the rest is that of the nearer one.                                     *)

Base(playhead) == playhead \div Part
Phase(playhead) == playhead % Part

Mixed(from, to, phase) == Part * from + (to - from) * phase

Reading(ticks, playhead) ==
  LET at == Least(playhead, End(ticks))
      here == ticks[Base(at) + 1]
      next == ticks[Least(Base(at) + 2, Len(ticks))]
  IN  [k \in {"rpm", "temp", "oil"} |-> Mixed(here[k], next[k], Phase(at))]

ReadingIndex(ticks, playhead) ==
  CASE playhead <= 0 -> 1
    [] playhead > 0 /\ playhead >= End(ticks) -> Len(ticks)
    [] playhead > 0 /\ playhead < End(ticks) ->
         IF 2 * Phase(playhead) >= Part THEN Base(playhead) + 2 ELSE Base(playhead) + 1

(* Faulty variant: the tick that was passed last.                          *)
ActiveTickIndexPassed(ticks, playhead) ==
  LET index == playhead \div Part + 1
  IN  IF index > Len(ticks) THEN Len(ticks) ELSE index

(* active_tick_index() of visualizer_ui.c: the nearer tick, counted from   *)
(* one.                                                                    *)
ActiveTickIndex(ticks, playhead) ==
  LET index == (2 * playhead + Part) \div (2 * Part) + 1
  IN  IF index > Len(ticks) THEN Len(ticks) ELSE index

-----------------------------------------------------------------------------
(* Severities.                                                             *)

Levels == {"OK", "WARNING", "SHUTDOWN"}

ModeLevel(tick) ==
  CASE "SHUTDOWN" \in {tick.engine_mode, tick.result} -> "SHUTDOWN"
    [] /\ "WARNING" \in {tick.engine_mode, tick.result}
       /\ "SHUTDOWN" \notin {tick.engine_mode, tick.result} -> "WARNING"
    [] OTHER -> "OK"

(* visualizer_compute_cumulative_metrics(): how many ticks count as played *)
(* and how many of them are of that level.                                 *)
ActiveCount(ticks, playhead) ==
  Least((playhead + Part \div 2) \div Part + 1, Len(ticks))

FaultRate(ticks, playhead, level) ==
  [of |-> ActiveCount(ticks, playhead),
   faults |-> Cardinality({i \in 1..ActiveCount(ticks, playhead) :
                             ModeLevel(ticks[i]) = level})]

(* Faulty variant: the limit itself is a fault.                            *)
TempLevelAtLimit(temp) ==
  CASE temp >= Part * 950 -> "SHUTDOWN"
    [] temp >= Part * 850 /\ temp < Part * 950 -> "WARNING"
    [] temp < Part * 850 -> "OK"

(* The colours of the meters: fixed thresholds of visualizer_model.h.      *)
TempLevel(temp) ==
  CASE temp > Part * 950 -> "SHUTDOWN"
    [] temp >= Part * 850 /\ temp <= Part * 950 -> "WARNING"
    [] temp < Part * 850 -> "OK"
OilLevel(oil) == IF oil < Part * 250 THEN "SHUTDOWN" ELSE "OK"
RpmLevel(rpm, temp) ==
  IF rpm >= Part * 3500 /\ temp >= Part * 850 THEN "WARNING" ELSE "OK"

Meters(reading) ==
  [rpm  |-> RpmLevel(reading.rpm, reading.temp),
   temp |-> TempLevel(reading.temp),
   oil  |-> OilLevel(reading.oil)]

-----------------------------------------------------------------------------
(* visualizer_draw_frame(): what of a frame depends on the playhead.       *)
Picture(ticks, playhead) ==
  [reading  |-> Reading(ticks, playhead),
   meters   |-> Meters(Reading(ticks, playhead)),
   status   |-> ReadingIndex(ticks, playhead),
   label    |-> ActiveTickIndex(ticks, playhead),
   warning  |-> FaultRate(ticks, playhead, "WARNING"),
   shutdown |-> FaultRate(ticks, playhead, "SHUTDOWN"),
   ended    |-> playhead >= End(ticks)]

(* draw_timeline_x_axis(): the ticks that get a label, from left to right, *)
(* when there is room for so many of them (at least two).                  *)
RoundedRatio(a, b) == (2 * a + b) \div (2 * b)

DenseLabels(n) ==
  LET odd == (n + 1) \div 2
  IN  [i \in 1..(n \div 2 + 1) |-> IF i <= odd THEN 2 * i - 1 ELSE n]

SpreadLabels(n, room) ==
  LET steps == IF n <= room THEN n - 1 ELSE room - 1
  IN  [i \in 1..(steps + 1) |-> RoundedRatio((i - 1) * (n - 1), steps) + 1]

AxisLabels(n, room) ==
  CASE n <= 1 -> << >>
    [] n > DenseTicks /\ n > 1 -> DenseLabels(n)
    [] n <= DenseTicks /\ n > 1 -> SpreadLabels(n, room)
=============================================================================
