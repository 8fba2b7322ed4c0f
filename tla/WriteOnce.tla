----------------------------- MODULE WriteOnce -----------------------------
(***************************************************************************)
(* A module-level setting as its owner promises it: it has a default, may  *)
(* be given a valid value once, and keeps that value until it is reset.    *)
(***************************************************************************)
CONSTANTS Default, Valid
VARIABLES value, written

Init == value = Default /\ written = FALSE

Write == /\ ~written
         /\ value' \in Valid
         /\ written' = TRUE

Reset == value' = Default /\ written' = FALSE

Next == Write \/ Reset

Spec == Init /\ [][Next]_<<value, written>>
=============================================================================
