-------------------------- MODULE VisualizerLayout --------------------------
(***************************************************************************)
(* visualizer_compute_layout() of visualizer_ui.c: where the panels, the   *)
(* timeline and the slider are in a window of any size.                    *)
(*                                                                         *)
(* Lengths are in 1/11520 pixel, so that the scale, the smaller of width / *)
(* 1280 and height / 720, is a whole number of units per layout unit.      *)
(***************************************************************************)
EXTENDS Integers

Pixel == 11520

Scale(screen) == IF 9 * screen.w < 16 * screen.h THEN 9 * screen.w ELSE 16 * screen.h

Rectangle(x, y, width, height) == [x |-> x, y |-> y, width |-> width, height |-> height]

(* The panels below the header (50), the navigation (30) and a gap (8).    *)
PanelTop(s) == 88 * s
GaugesPanel(screen, s) ==
  Rectangle(16 * s, PanelTop(s), Pixel * screen.w - (2 * 16 + 310 + 12) * s, 252 * s)
MetricsArea(screen, s) ==
  Rectangle(Pixel * screen.w - (16 + 310) * s, PanelTop(s), 310 * s, 252 * s)

(* Meters: a bar of 85% and its value, in the row of the meter.            *)
BarWidth(screen, s) == ((GaugesPanel(screen, s).width - 28 * s) * 17) \div 20
Bar(screen, s, row) ==
  Rectangle(30 * s, PanelTop(s) + (60 + 42 * row) * s, BarWidth(screen, s), 22 * s)
Value(screen, s, row) ==
  Rectangle(36 * s + BarWidth(screen, s), Bar(screen, s, row).y,
            GaugesPanel(screen, s).width - 34 * s - BarWidth(screen, s), 22 * s)

Timeline(screen, s) ==
  Rectangle(16 * s, 354 * s, Pixel * screen.w - 32 * s, Pixel * screen.h - 370 * s)

SliderTop(screen, s) == Pixel * screen.h - (16 + 24 + 8) * s
TimelinePlot(screen, s) ==
  Rectangle(68 * s, 394 * s, Pixel * screen.w - 102 * s, SliderTop(screen, s) - 414 * s)
Slider(screen, s) ==
  Rectangle(68 * s, SliderTop(screen, s), Pixel * screen.w - 102 * s, 24 * s)

(* CheckCollisionPointRec() of raylib, for a point in pixels.              *)
Inside(point, r) ==
  /\ Pixel * point.x \in r.x..(r.x + r.width - 1)
  /\ Pixel * point.y \in r.y..(r.y + r.height - 1)
=============================================================================
