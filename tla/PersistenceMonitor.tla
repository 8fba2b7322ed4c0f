------------------------- MODULE PersistenceMonitor -------------------------
(***************************************************************************)
(* What the safety evaluation promises, without counters, modes, frames or *)
(* a HAL: a monitor that watches the faults each sample shows and raises   *)
(* an alarm one level at a time when a fault has persisted.                *)
(*                                                                         *)
(* A fault has persisted when the latest persistence[f] samples all show   *)
(* it.  Any persisted fault raises OK to WARNING; a persisted temperature  *)
(* or oil fault raises WARNING to SHUTDOWN; nothing lowers the alarm.  The *)
(* first sample finds the engine still starting and raises nothing.        *)
(***************************************************************************)
EXTENDS Integers, Sequences

CONSTANTS Faults,         \* the faults a sample can show
          ShutdownFaults  \* those of them that may stop the engine

VARIABLES persistence,    \* samples a fault must persist, fixed
          history,        \* faults shown by each sample so far
          alarm           \* "OK", "WARNING" or "SHUTDOWN"

vars == <<persistence, history, alarm>>

Persisted(h, f) ==
  /\ Len(h) >= persistence[f]
  /\ \A i \in 1..Len(h) : i > Len(h) - persistence[f] => f \in h[i]

Raised(h) ==
  CASE /\ alarm = "OK" /\ Len(h) > 1
       /\ \E f \in Faults : Persisted(h, f)         -> "WARNING"
    [] /\ alarm = "WARNING"
       /\ \E f \in ShutdownFaults : Persisted(h, f) -> "SHUTDOWN"
    [] OTHER -> alarm

Init == /\ persistence \in [Faults -> Nat \ {0}]
        /\ history = << >>
        /\ alarm = "OK"

Observe(shown) == /\ history' = Append(history, shown)
                  /\ alarm' = Raised(history')
                  /\ UNCHANGED persistence

Next == \E shown \in SUBSET Faults : Observe(shown)

Spec == Init /\ [][Next]_vars

=============================================================================
