--------------------------------- MODULE Hal ---------------------------------
(***************************************************************************)
(* The hardware abstraction layer, src/src/platform/hal.c, with all of its *)
(* state: the ring behind the sensor path, the two bus queues, the         *)
(* watchdog, the redundant temperature channel, the ages of the frame ids  *)
(* and the last error.  One action per function of include/hal.h that      *)
(* changes any of it; callers call in any order, at ticks that move on.    *)
(*                                                                         *)
(* call is the call made last and the status it returned.  idle_checks,    *)
(* good_at and votes are history: what the callers saw, kept apart from    *)
(* the HAL's own counters so that these can be judged by it.               *)
(***************************************************************************)
EXTENDS SensorLink, FrameQueue

CONSTANTS
  Data,             \* samples the sensor frames carry
  Kinds,            \* kinds of frames offered to the sensor path
  BusFrames,        \* frames offered to the bus
  TxCapacity,       \* HAL_MAX_TX_FRAMES
  WatchdogMax,      \* HAL_WATCHDOG_MAX_TICKS
  CounterModulus,   \* the watchdog counter is a uint32_t: 2^32 in the code
  WatchdogTimeouts, \* periods hal_watchdog_configure() is called with
  Temperatures,     \* readings of the temperature channels
  Tolerance,        \* HAL_SENSOR_VOTING_TOLERANCE
  MaxClock,         \* bound: ticks of a behaviour
  MaxChecks,        \* bound: watchdog checks since the last kick
  ServiceSets       \* bound: the services one behaviour calls

Services == {"sensor", "bus", "watchdog", "voting", "aging", "errors"}

ASSUME HalAssumption ==
  /\ Kinds \subseteq FrameKinds /\ Data # {}
  /\ TxCapacity \in Nat \ {0}
  /\ WatchdogMax \in Nat /\ CounterModulus \in Nat \ {0}
  /\ WatchdogTimeouts \subseteq Nat
  /\ Temperatures \subseteq Int /\ Tolerance \in Nat
  /\ MaxClock \in Nat /\ MaxChecks \in Nat
  /\ ServiceSets \subseteq SUBSET Services

FrameIds == {"SENSOR", "SENSOR_ERROR", "SENSOR_TEMP_B"}

VARIABLES
  sensor_rx, bus_rx, bus_tx,          \* the three queues
  last_sensor_tick, has_sensor_tick,  \* the last good sample
  last_error,                         \* g_last_error
  watchdog,                           \* timeout, counter, enabled
  redundant,                          \* value and presence of channel B
  aging,                              \* per frame id: last tick, received
  call,                               \* the last call and its status
  services,                           \* which services are called
  now,                                \* ticks passed, without wrapping
  idle_checks,                        \* checks since the last kick
  good_at,                            \* when the last good sample was read
  votes                               \* votes channel B's value took part in

sensor == <<sensor_rx, last_sensor_tick, has_sensor_tick>>
bus == <<bus_rx, bus_tx>>
history == <<idle_checks, good_at, votes>>
vars == <<sensor, bus, last_error, watchdog, redundant, aging, call, services, now, history>>

BlankFrame == [kind |-> "unsupported", data |-> CHOOSE d \in Data : TRUE]
NoBusFrame == "blank"

tick == now % TickModulus   \* what the callers pass

(* A call that returns, and what it writes to g_last_error.                *)
Returns(function, code) == call' = [function |-> function, status |-> code]
Records(function, code, at, severity) == last_error' = Error(code, function, at, severity)

NoAges == [id \in FrameIds |-> [last_tick |-> 0, received |-> 0]]

Reset(name) ==
  /\ sensor_rx' = QueueReset(BlankFrame, RxCapacity)
  /\ bus_rx' = QueueReset(NoBusFrame, RxCapacity)
  /\ bus_tx' = QueueReset(NoBusFrame, TxCapacity)
  /\ last_sensor_tick' = 0 /\ has_sensor_tick' = 0
  /\ watchdog' = [timeout |-> 0, counter |-> 0, enabled |-> 0]
  /\ redundant' = [value |-> 0, has |-> 0]
  /\ aging' = NoAges
  /\ Records(name, "OK", 0, "INFO")
  /\ Returns(name, "OK")
  /\ idle_checks' = 0 /\ good_at' = 0 /\ votes' = 0

Init ==
  /\ sensor_rx = QueueReset(BlankFrame, RxCapacity)
  /\ bus_rx = QueueReset(NoBusFrame, RxCapacity)
  /\ bus_tx = QueueReset(NoBusFrame, TxCapacity)
  /\ last_sensor_tick = 0 /\ has_sensor_tick = 0
  /\ watchdog = [timeout |-> 0, counter |-> 0, enabled |-> 0]
  /\ redundant = [value |-> 0, has |-> 0]
  /\ aging = NoAges
  /\ last_error = Error("OK", "hal_init", 0, "INFO")
  /\ call = [function |-> "hal_init", status |-> "OK"]
  /\ services \in ServiceSets
  /\ now = 0 /\ idle_checks = 0 /\ good_at = 0 /\ votes = 0

(* hal_shutdown() followed by hal_init(), or either of them again.         *)
Restart == /\ \E name \in {"hal_init", "hal_shutdown"} : Reset(name)
           /\ UNCHANGED <<services, now>>

AdvanceClock == /\ now < MaxClock
                /\ now' = now + 1
                /\ UNCHANGED <<sensor, bus, last_error, watchdog, redundant, aging, call,
                               services, history>>

-----------------------------------------------------------------------------
(* The sensor path.                                                        *)

IdOf(raw) == IF raw.kind = "error" THEN "SENSOR_ERROR" ELSE "SENSOR"

(* hal_frame_age_record(), with an id of the registry.                     *)
Recorded(id) == [aging EXCEPT ![id] = [last_tick |-> tick, received |-> 1]]

hal_ingest_sensor_frame(raw) ==
  LET status == CASE ~Supported(raw) -> "INVALID_ARGUMENT"
                  [] Supported(raw) /\ Full(sensor_rx, RxCapacity) -> "BUFFER_OVERFLOW"
                  [] Supported(raw) /\ ~Full(sensor_rx, RxCapacity) -> "OK"
  IN
  /\ "sensor" \in services
  /\ IF status = "OK"
     THEN /\ sensor_rx' = QueuePush(sensor_rx, raw, RxCapacity)
          /\ aging' = Recorded(IdOf(raw))
          /\ Records("hal_ingest_sensor_frame", status, tick, "INFO")
     ELSE /\ UNCHANGED <<sensor_rx, aging>>
          /\ Records("hal_ingest_sensor_frame", status, tick, "ERROR")
  /\ Returns("hal_ingest_sensor_frame", status)
  /\ UNCHANGED <<last_sensor_tick, has_sensor_tick, bus, watchdog, redundant, services,
                 now, history>>

(* Faulty variant: compared without the wrap of the tick.                  *)
SilenceNoWrap == IF has_sensor_tick = 1 THEN tick > last_sensor_tick + SensorTimeout
                 ELSE tick > SensorTimeout

Silence == IF has_sensor_tick = 1
           THEN TicksSince(tick, last_sensor_tick) > SensorTimeout
           ELSE tick > SensorTimeout

(* hal_read_sensors(): an empty queue is a timeout or, for a while, just   *)
(* an invalid call; a frame is taken out whatever becomes of it.           *)
ReadNothing ==
  /\ "sensor" \in services /\ sensor_rx.count = 0
  /\ \/ /\ Silence
        /\ Records("hal_read_sensors", "TIMEOUT", tick, "FATAL")
        /\ Returns("hal_read_sensors", "TIMEOUT")
     \/ /\ ~Silence
        /\ Records("hal_read_sensors", "INVALID_ARGUMENT", tick, "WARNING")
        /\ Returns("hal_read_sensors", "INVALID_ARGUMENT")
  /\ UNCHANGED <<sensor, bus, watchdog, redundant, aging, services, now, history>>

ReadFrom ==
  LET status == DecodeStatus(QueueFront(sensor_rx)) IN
  /\ "sensor" \in services /\ sensor_rx.count # 0
  /\ sensor_rx' = QueuePop(sensor_rx, RxCapacity)
  /\ \/ /\ status = "OK"
        /\ last_sensor_tick' = tick /\ has_sensor_tick' = 1 /\ good_at' = now
        /\ Records("hal_read_sensors", status, tick, "INFO")
     \/ /\ status # "OK"
        /\ UNCHANGED <<last_sensor_tick, has_sensor_tick, good_at>>
        /\ Records("hal_read_sensors", status, tick, "ERROR")
  /\ Returns("hal_read_sensors", status)
  /\ UNCHANGED <<bus, watchdog, redundant, aging, services, now, idle_checks, votes>>

(* Calls that fail before they do anything: a NULL argument or a sample    *)
(* out of range.                                                           *)
RefusedCalls ==
  {<<"hal_ingest_sensor_frame", tick>>, <<"hal_read_sensors", tick>>,
   <<"hal_encode_sensor_frame", 0>>, <<"hal_receive_bus", 0>>, <<"hal_transmit_bus", 0>>,
   <<"hal_expected_dlc_for_id", 0>>, <<"hal_frame_age_record", tick>>,
   <<"hal_frame_is_stale", tick>>, <<"hal_submit_redundant_temp", tick>>}

Refuse ==
  /\ "errors" \in services
  /\ \E c \in RefusedCalls : /\ Records(c[1], "INVALID_ARGUMENT", c[2], "ERROR")
                             /\ Returns(c[1], "INVALID_ARGUMENT")
  /\ UNCHANGED <<sensor, bus, watchdog, redundant, aging, services, now, history>>

(* Those that return their status and leave no trace in the last error.    *)
RefuseSilently ==
  /\ "errors" \in services
  /\ \/ \E f \in {"hal_apply_sensors", "hal_write_actuators", "hal_get_last_error",
                  "hal_vote_sensors", "hal_watchdog_configure"} :
          Returns(f, "INVALID_ARGUMENT")
     \/ Returns("hal_write_actuators", "IO_ERROR")
  /\ UNCHANGED <<sensor, bus, last_error, watchdog, redundant, aging, services, now, history>>

hal_encode_sensor_frame ==
  /\ "errors" \in services
  /\ Records("hal_encode_sensor_frame", "OK", 0, "INFO")
  /\ Returns("hal_encode_sensor_frame", "OK")
  /\ UNCHANGED <<sensor, bus, watchdog, redundant, aging, services, now, history>>

-----------------------------------------------------------------------------
(* The bus.  Nothing in the program takes a frame out of these queues.     *)

(* Faulty variant: a full queue makes room for the newest frame.           *)
EnqueuedOverOldest(queue, frame, capacity) ==
  IF Full(queue, capacity) THEN QueuePush(QueuePop(queue, capacity), frame, capacity)
  ELSE QueuePush(queue, frame, capacity)

Enqueued(queue, frame, capacity) ==
  IF Full(queue, capacity) THEN queue ELSE QueuePush(queue, frame, capacity)

BusCall(function, overflow) ==
  /\ "bus" \in services
  /\ IF overflow
     THEN /\ Records(function, "BUFFER_OVERFLOW", 0, "WARNING")
          /\ Returns(function, "BUFFER_OVERFLOW")
     ELSE UNCHANGED last_error /\ Returns(function, "OK")
  /\ UNCHANGED <<sensor, watchdog, redundant, aging, services, now, history>>

hal_receive_bus(frame) ==
  /\ BusCall("hal_receive_bus", Full(bus_rx, RxCapacity))
  /\ bus_rx' = Enqueued(bus_rx, frame, RxCapacity)
  /\ UNCHANGED bus_tx

hal_transmit_bus(frame) ==
  /\ BusCall("hal_transmit_bus", Full(bus_tx, TxCapacity))
  /\ bus_tx' = Enqueued(bus_tx, frame, TxCapacity)
  /\ UNCHANGED bus_rx

-----------------------------------------------------------------------------
(* The watchdog.                                                           *)

(* Faulty variant: the new period starts with the old count.               *)
ConfiguredWithOldCount(timeout) ==
  [timeout |-> timeout, counter |-> watchdog.counter,
   enabled |-> IF timeout > 0 THEN 1 ELSE 0]

Configured(timeout) ==
  [timeout |-> timeout, counter |-> 0, enabled |-> IF timeout > 0 THEN 1 ELSE 0]

hal_watchdog_configure(timeout) ==
  /\ "watchdog" \in services
  /\ timeout <= WatchdogMax
  /\ watchdog' = Configured(timeout) /\ idle_checks' = 0
  /\ Returns("hal_watchdog_configure", "OK")
  /\ UNCHANGED <<sensor, bus, last_error, redundant, aging, services, now, good_at, votes>>

hal_watchdog_kick ==
  /\ "watchdog" \in services
  /\ watchdog' = [watchdog EXCEPT !.counter = 0] /\ idle_checks' = 0
  /\ Returns("hal_watchdog_kick", "OK")
  /\ UNCHANGED <<sensor, bus, last_error, redundant, aging, services, now, good_at, votes>>

hal_watchdog_check ==
  LET counter == (watchdog.counter + 1) % CounterModulus IN
  /\ "watchdog" \in services /\ idle_checks < MaxChecks
  /\ IF watchdog.enabled = 0
     THEN /\ UNCHANGED <<watchdog, last_error, idle_checks>>
          /\ Returns("hal_watchdog_check", "OK")
     ELSE /\ watchdog' = [watchdog EXCEPT !.counter = counter]
          /\ idle_checks' = idle_checks + 1
          /\ IF counter > watchdog.timeout
             THEN /\ Records("hal_watchdog_check", "TIMEOUT", tick, "FATAL")
                  /\ Returns("hal_watchdog_check", "TIMEOUT")
             ELSE UNCHANGED last_error /\ Returns("hal_watchdog_check", "OK")
  /\ UNCHANGED <<sensor, bus, redundant, aging, services, now, good_at, votes>>

-----------------------------------------------------------------------------
(* The redundant temperature channel.                                      *)

hal_submit_redundant_temp(value) ==
  /\ "voting" \in services
  /\ redundant' = [value |-> value, has |-> 1] /\ votes' = 0
  /\ Returns("hal_submit_redundant_temp", "OK")
  /\ UNCHANGED <<sensor, bus, last_error, watchdog, aging, services, now, idle_checks,
                 good_at>>

Difference(a, b) == IF a < b THEN b - a ELSE a - b

(* Faulty variant: a disagreement leaves the reading for the next vote.    *)
Disagree ==
  /\ Records("hal_vote_sensors", "PARSE_ERROR", 0, "ERROR")
  /\ Returns("hal_vote_sensors", "PARSE_ERROR")

VoteKeepsReading(primary) ==
  /\ "voting" \in services
  /\ IF redundant.has = 0 THEN UNCHANGED votes ELSE votes' = votes + 1
  /\ IF redundant.has = 1 /\ Difference(primary, redundant.value) > Tolerance
     THEN Disagree /\ UNCHANGED redundant
     ELSE /\ redundant' = [redundant EXCEPT !.has = 0]
          /\ UNCHANGED last_error /\ Returns("hal_vote_sensors", "OK")
  /\ UNCHANGED <<sensor, bus, watchdog, aging, services, now, idle_checks, good_at>>

(* hal_vote_sensors(): without a redundant reading the primary one is      *)
(* passed through; with one, the two agree or the vote fails, and the      *)
(* reading is used up.                                                     *)
hal_vote_sensors(primary) ==
  /\ "voting" \in services
  /\ IF redundant.has = 0 THEN UNCHANGED votes ELSE votes' = votes + 1
  /\ redundant' = [redundant EXCEPT !.has = 0]
  /\ IF redundant.has = 1 /\ Difference(primary, redundant.value) > Tolerance
     THEN Disagree
     ELSE UNCHANGED last_error /\ Returns("hal_vote_sensors", "OK")
  /\ UNCHANGED <<sensor, bus, watchdog, aging, services, now, idle_checks, good_at>>

-----------------------------------------------------------------------------
(* The ages of the frame ids.                                              *)

hal_frame_age_record(id) ==
  /\ "aging" \in services
  /\ aging' = Recorded(id)
  /\ Returns("hal_frame_age_record", "OK")
  /\ UNCHANGED <<sensor, bus, last_error, watchdog, redundant, services, now, history>>

Next == \/ Restart
        \/ AdvanceClock
        \/ \E raw \in [kind : Kinds, data : Data] : hal_ingest_sensor_frame(raw)
        \/ ReadNothing
        \/ ReadFrom
        \/ Refuse
        \/ RefuseSilently
        \/ hal_encode_sensor_frame
        \/ \E frame \in BusFrames : hal_receive_bus(frame)
        \/ \E frame \in BusFrames : hal_transmit_bus(frame)
        \/ \E timeout \in WatchdogTimeouts : hal_watchdog_configure(timeout)
        \/ hal_watchdog_kick
        \/ hal_watchdog_check
        \/ \E value \in Temperatures : hal_submit_redundant_temp(value)
        \/ \E primary \in Temperatures : hal_vote_sensors(primary)
        \/ \E id \in FrameIds : hal_frame_age_record(id)

Spec == Init /\ [][Next]_vars
=============================================================================
