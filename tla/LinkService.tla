----------------------------- MODULE LinkService -----------------------------
(***************************************************************************)
(* What the HAL promises the scenario loop about its sensor path: a FIFO   *)
(* of frames, the tick of the last good sample and a last error, which     *)
(* only the operations of SensorLink change.  The other services of the    *)
(* HAL share the last error with it and nothing else.                      *)
(***************************************************************************)
EXTENDS SensorLink

CONSTANT Data    \* samples the frames carry

VARIABLE link

Init == link = FreshLink

Ingest(raw, tick) == link' = AfterIngest(link, raw, tick)
Read(tick) == link' = AfterRead(link, tick)

(* hal_init(), hal_shutdown(): as fresh, under either name.                *)
Restart == \E name \in {"hal_init", "hal_shutdown"} :
             link' = [FreshLink EXCEPT !.last_error = Error("OK", name, 0, "INFO")]

(* Some other call of the HAL records its error.                           *)
Record == link' = [link EXCEPT !.last_error = link'.last_error]

Next == \/ \E raw \in RawFrames(Data), tick \in 0..(TickModulus - 1) : Ingest(raw, tick)
        \/ \E tick \in 0..(TickModulus - 1) : Read(tick)
        \/ Restart
        \/ Record

Spec == Init /\ [][Next]_link
=============================================================================
