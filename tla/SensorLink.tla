----------------------------- MODULE SensorLink -----------------------------
(***************************************************************************)
(* The sensor path of the hardware abstraction layer, src/src/platform/    *)
(* hal.c: ingest of transport frames, decoding, and the detection of a     *)
(* silent sensor.  The receive ring is seen here as the FIFO it            *)
(* implements; Hal.tla keeps the ring, its indices and the rest of the     *)
(* HAL's state, and is shown to implement this view.                       *)
(*                                                                         *)
(* A link is a record: the frames waiting, the tick of the last good       *)
(* sample (if there was one) and the last error the HAL recorded.          *)
(***************************************************************************)
EXTENDS Integers, Sequences

CONSTANTS
  RxCapacity,      \* HAL_MAX_RX_FRAMES, slots of the receive ring
  SensorTimeout,   \* HAL_SENSOR_TIMEOUT_TICKS
  TickModulus      \* ticks are uint32_t: 2^32 in the code

ASSUME LinkAssumption == /\ RxCapacity \in Nat \ {0}
                         /\ SensorTimeout \in Nat
                         /\ TickModulus \in Nat \ {0}

(* HAL_SensorFrame, with the ranges of validate_sensor_frame().            *)
HAL_MAX_RPM  == 10000
HAL_MIN_TEMP == -500
HAL_MAX_TEMP == 2000
HAL_MAX_OIL  == 1000

SensorFrames == [rpm : 0..HAL_MAX_RPM, temperature : HAL_MIN_TEMP..HAL_MAX_TEMP,
                 oil_pressure : 0..HAL_MAX_OIL, is_running : {0, 1}]

(***************************************************************************)
(* What a transport frame turns out to be: "sensor" decodes to a sample in *)
(* range; "corrupt" fails its checksum; "out_of_range" has a good checksum *)
(* and impossible values; "error" is a sensor error frame; "unsupported"   *)
(* has an id or a length the sensor path does not accept.                  *)
(***************************************************************************)
FrameKinds == {"sensor", "corrupt", "out_of_range", "error", "unsupported"}
RawFrames(data) == [kind : FrameKinds, data : data]

Supported(raw) == raw.kind # "unsupported"

(* decode_sensor_frame() and the error-frame test in front of it.          *)
DecodeStatus(raw) ==
  CASE raw.kind = "sensor" -> "OK"
    [] raw.kind = "out_of_range" -> "INVALID_ARGUMENT"
    [] OTHER -> "PARSE_ERROR"

(* ErrorInfo as hal_set_error() fills it.                                  *)
Error(code, function, tick, severity) ==
  [code |-> code, function |-> function, tick |-> tick, severity |-> severity]

(* hal_init(): nothing queued, no sample seen.                             *)
FreshLink == [rx |-> << >>, last_sensor_tick |-> 0, has_sensor_tick |-> 0,
              last_error |-> Error("OK", "hal_init", 0, "INFO")]

(* hal_encode_sensor_frame() of a frame in range, as the callers prepare a *)
(* script: all it leaves in the HAL is its trace in the last error.        *)
AfterEncode(link) ==
  [link EXCEPT !.last_error = Error("OK", "hal_encode_sensor_frame", 0, "INFO")]

(* uint32_t subtraction of two ticks.                                      *)
TicksSince(now, then) ==
  IF now >= then THEN now - then ELSE now - then + TickModulus

(* hal_ingest_sensor_frame()                                               *)
IngestStatus(link, raw) ==
  CASE ~Supported(raw) -> "INVALID_ARGUMENT"
    [] Supported(raw) /\ Len(link.rx) >= RxCapacity -> "BUFFER_OVERFLOW"
    [] Supported(raw) /\ Len(link.rx) < RxCapacity -> "OK"

AfterIngest(link, raw, tick) ==
  LET status == IngestStatus(link, raw)
      severity == IF status = "OK" THEN "INFO" ELSE "ERROR"
  IN  [link EXCEPT
         !.rx = IF status = "OK" THEN Append(@, raw) ELSE @,
         !.last_error = Error(status, "hal_ingest_sensor_frame", tick, severity)]

(* Faulty variant: the silence is noticed a tick late.                     *)
SilentLate(link, tick) ==
  TicksSince(tick, link.last_sensor_tick) > SensorTimeout + 1

(* An empty queue is a timeout once the sensor was silent too long.        *)
Silent(link, tick) ==
  IF link.has_sensor_tick = 1
  THEN TicksSince(tick, link.last_sensor_tick) > SensorTimeout
  ELSE tick > SensorTimeout

(* hal_read_sensors()                                                      *)
ReadStatus(link, tick) ==
  CASE link.rx = << >> /\ Silent(link, tick)  -> "TIMEOUT"
    [] link.rx = << >> /\ ~Silent(link, tick) -> "INVALID_ARGUMENT"
    [] link.rx # << >>                        -> DecodeStatus(Head(link.rx))

ReadSeverity(link, tick) ==
  CASE ReadStatus(link, tick) = "OK"      -> "INFO"
    [] ReadStatus(link, tick) = "TIMEOUT" -> "FATAL"
    [] ReadStatus(link, tick) \notin {"OK", "TIMEOUT"}
         -> IF link.rx = << >> THEN "WARNING" ELSE "ERROR"

(* Faulty variant: the frame is looked at but not taken out.               *)
AfterReadWithoutPop(link, tick) ==
  [link EXCEPT
     !.last_sensor_tick = IF ReadStatus(link, tick) = "OK" THEN tick ELSE @,
     !.has_sensor_tick = IF ReadStatus(link, tick) = "OK" THEN 1 ELSE @,
     !.last_error = Error(ReadStatus(link, tick), "hal_read_sensors", tick,
                          ReadSeverity(link, tick))]

AfterRead(link, tick) ==
  LET status == ReadStatus(link, tick)
  IN  [rx |-> IF link.rx = << >> THEN link.rx ELSE Tail(link.rx),
       last_sensor_tick |-> IF status = "OK" THEN tick ELSE link.last_sensor_tick,
       has_sensor_tick |-> IF status = "OK" THEN 1 ELSE link.has_sensor_tick,
       last_error |-> Error(status, "hal_read_sensors", tick, ReadSeverity(link, tick))]

(* The sample hal_read_sensors() hands out when its status is OK.          *)
ReadFrame(link) == Head(link.rx).data

(* hal_apply_sensors()                                                     *)
ApplySensors(frame, engine) ==
  [engine EXCEPT !.is_running = frame.is_running, !.rpm = frame.rpm,
                 !.temperature = frame.temperature,
                 !.oil_pressure = frame.oil_pressure]
=============================================================================
