---------------------------- MODULE HalProperties ----------------------------
(***************************************************************************)
(* What the HAL promises its callers: the sensor path is the FIFO service  *)
(* the scenario loop was checked against, the bus queues drop the newest   *)
(* frame, the watchdog and the sensor timeout fire when they should.       *)
(***************************************************************************)
EXTENDS Hal

Codes == {"OK", "INVALID_ARGUMENT", "PARSE_ERROR", "BUFFER_OVERFLOW", "TIMEOUT"}

(* The HAL's globals have their types, and the head, tail and count of     *)
(* each ring agree with each other.                                        *)
HalTypeOK ==
  /\ QueueOK(sensor_rx, RawFrames(Data), RxCapacity)
  /\ QueueOK(bus_rx, BusFrames \cup {NoBusFrame}, RxCapacity)
  /\ QueueOK(bus_tx, BusFrames \cup {NoBusFrame}, TxCapacity)
  /\ last_sensor_tick \in 0..(TickModulus - 1) /\ has_sensor_tick \in {0, 1}
  /\ last_error.code \in Codes
  /\ watchdog \in [timeout : 0..WatchdogMax, counter : 0..(CounterModulus - 1),
                   enabled : {0, 1}]
  /\ watchdog.enabled = 1 <=> watchdog.timeout > 0
  /\ redundant \in [value : Int, has : {0, 1}]
  /\ aging \in [FrameIds -> [last_tick : 0..(TickModulus - 1), received : {0, 1}]]

-----------------------------------------------------------------------------
(* The ring, its indices and the shared last error implement the FIFO that *)
(* SensorLink describes and ScenarioRun uses: frames come out once, in the *)
(* order they went in, across the wrap of the ring, and no other service   *)
(* of the HAL touches them or the tick of the last good sample.            *)
LinkView == [rx |-> Contents(sensor_rx, RxCapacity),
             last_sensor_tick |-> last_sensor_tick,
             has_sensor_tick |-> has_sensor_tick,
             last_error |-> last_error]

Link == INSTANCE LinkService WITH link <- LinkView

ImplementsLinkService == Link!Spec

-----------------------------------------------------------------------------
(* The overflow policy of hal.h, DROP NEWEST: a bus queue only ever grows  *)
(* by the frame of a call that succeeded; a call on a full queue is told   *)
(* so and recorded, and nothing that waits is lost before a restart.       *)
Restarted == call'.function \in {"hal_init", "hal_shutdown"}

Returned(function, code) == call' = [function |-> function, status |-> code]

Kept(function, before, after, capacity) ==
  \/ Restarted /\ after = << >>
  \/ call'.function # function /\ after = before
  \/ Returned(function, "INVALID_ARGUMENT") /\ after = before
  \/ /\ Returned(function, "OK")
     /\ \E frame \in BusFrames : after = Append(before, frame)
  \/ /\ Returned(function, "BUFFER_OVERFLOW") /\ Len(before) = capacity
     /\ after = before
     /\ last_error'.code = "BUFFER_OVERFLOW" /\ last_error'.function = function

BusDropsNewest ==
  [][call' # call \/ bus' # bus =>
       /\ Kept("hal_receive_bus", Contents(bus_rx, RxCapacity),
               Contents(bus_rx', RxCapacity), RxCapacity)
       /\ Kept("hal_transmit_bus", Contents(bus_tx, TxCapacity),
               Contents(bus_tx', TxCapacity), TxCapacity)]_vars

(* The watchdog fires exactly on the checks that come more than its period *)
(* after the last kick or configuration, as long as fewer than the range   *)
(* of its counter passed.                                                  *)
WatchdogFiresInTime ==
  call.function = "hal_watchdog_check" /\ idle_checks < CounterModulus =>
    (call.status = "TIMEOUT" <=> /\ watchdog.enabled = 1
                                 /\ idle_checks > watchdog.timeout)

(* With nothing to read, hal_read_sensors() says TIMEOUT exactly when the  *)
(* last good sample is more than HAL_SENSOR_TIMEOUT_TICKS ticks ago, also  *)
(* when the 32-bit tick wrapped in between.                                *)
SilenceIsTimedExactly ==
  [][ReadNothing /\ now - good_at < TickModulus =>
       (call'.status = "TIMEOUT" <=> now - good_at > SensorTimeout)]_vars

(* A redundant temperature reading takes part in one vote at most, whether *)
(* the vote agreed or not.                                                 *)
ReadingVotesOnce == votes <= 1

-----------------------------------------------------------------------------
(* A claim of the documents that the code does not keep.                   *)

(* docs/error_severity_model.md: HAL error paths call hal_set_error().     *)
ErrorsAreRecorded ==
  call.status # "OK" => /\ last_error.code = call.status
                        /\ last_error.function = call.function
=============================================================================
