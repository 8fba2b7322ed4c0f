------------------------------ MODULE HalProofs ------------------------------
(***************************************************************************)
(* Theorems about the HAL, for rings of any size, any timeout and any      *)
(* width of the tick and of the watchdog counter.                          *)
(***************************************************************************)
EXTENDS HalProperties, TLAPS

-----------------------------------------------------------------------------
(* The ring.                                                               *)

(* An index up to two turns round the ring.                                *)
LEMMA OneTurn ==
  ASSUME NEW cap \in Nat \ {0}, NEW x \in Nat, x < cap + cap
  PROVE  Slot(x, cap) = IF x < cap THEN x ELSE x - cap
<1>1. CASE x < cap
  BY <1>1, Z3 DEF Slot
<1>2. CASE x >= cap
  BY <1>2, Z3 DEF Slot
<1>3. QED
  BY <1>1, <1>2

LEMMA SlotFacts ==
  ASSUME NEW cap \in Nat \ {0}, NEW h \in 0..(cap - 1), NEW i \in 0..cap
  PROVE  /\ Slot(h + i, cap) \in 0..(cap - 1)
         /\ Slot(h + i, cap) = IF h + i < cap THEN h + i ELSE h + i - cap
<1>1. h + i \in Nat /\ h + i < cap + cap
  OBVIOUS
<1>2. PICK s : s = Slot(h + i, cap)
  OBVIOUS
<1>3. s = IF h + i < cap THEN h + i ELSE h + i - cap
  BY <1>1, <1>2, OneTurn
<1>4. s \in 0..(cap - 1)
  BY <1>3
<1>5. QED
  BY <1>2, <1>3, <1>4

(* Two indices a step apart, taken from either end of the step.            *)
LEMMA SlotStep ==
  ASSUME NEW cap \in Nat \ {0}, NEW h \in 0..(cap - 1), NEW i \in 0..(cap - 1)
  PROVE  /\ Slot(Slot(h + 1, cap) + i, cap) = Slot(h + (i + 1), cap)
         /\ Slot(Slot(h + i, cap) + 1, cap) = Slot(h + (i + 1), cap)
<1>1. i + 1 \in 0..cap /\ i \in 0..cap /\ 1 \in 0..cap
  OBVIOUS
<1>2. PICK s \in 0..(cap - 1) : /\ s = Slot(h + (i + 1), cap)
                                /\ s = IF h + (i + 1) < cap THEN h + (i + 1)
                                       ELSE h + (i + 1) - cap
  BY <1>1, SlotFacts
<1>3. PICK u \in 0..(cap - 1) : u = Slot(h + 1, cap)
                                /\ u = IF h + 1 < cap THEN h + 1 ELSE h + 1 - cap
  BY <1>1, SlotFacts
<1>4. PICK v \in 0..(cap - 1) : v = Slot(h + i, cap)
                                /\ v = IF h + i < cap THEN h + i ELSE h + i - cap
  BY <1>1, SlotFacts
<1>5. PICK x : x = Slot(u + i, cap) /\ x = IF u + i < cap THEN u + i ELSE u + i - cap
  BY <1>1, SlotFacts
<1>6. PICK y : y = Slot(v + 1, cap) /\ y = IF v + 1 < cap THEN v + 1 ELSE v + 1 - cap
  BY <1>1, SlotFacts
<1>7. x = s
  BY <1>2, <1>3, <1>5
<1>8. y = s
  BY <1>2, <1>4, <1>6
<1>9. QED
  BY <1>2, <1>3, <1>4, <1>5, <1>6, <1>7, <1>8

(* Different places of a ring that is not over-full have different slots.  *)
LEMMA SlotsDiffer ==
  ASSUME NEW cap \in Nat \ {0}, NEW h \in 0..(cap - 1),
         NEW i \in 0..(cap - 1), NEW j \in 0..(cap - 1), i # j
  PROVE  Slot(h + i, cap) # Slot(h + j, cap)
<1>1. i \in 0..cap /\ j \in 0..cap
  OBVIOUS
<1>2. PICK s : s = Slot(h + i, cap) /\ s = IF h + i < cap THEN h + i ELSE h + i - cap
  BY <1>1, SlotFacts
<1>3. PICK t : t = Slot(h + j, cap) /\ t = IF h + j < cap THEN h + j ELSE h + j - cap
  BY <1>1, SlotFacts
<1>4. s # t
  BY <1>2, <1>3
<1>5. QED
  BY <1>2, <1>3, <1>4

(* Two sequences of the same length and elements are the same.             *)
LEMMA SameFrames ==
  ASSUME NEW S, NEW s \in Seq(S), NEW t \in Seq(S), Len(s) = Len(t),
         \A i \in 1..Len(s) : s[i] = t[i]
  PROVE  s = t
OBVIOUS

(* The waiting frames are a sequence.                                      *)
LEMMA ContentsFacts ==
  ASSUME NEW S, NEW cap \in Nat \ {0}, NEW q, QueueOK(q, S, cap)
  PROVE  /\ Contents(q, cap) \in Seq(S)
         /\ Len(Contents(q, cap)) = q.count
         /\ \A i \in 1..q.count :
              Contents(q, cap)[i] = q.frames[Slot(q.head + (i - 1), cap)]
<1>1. /\ q.count \in 0..cap /\ q.frames \in [0..(cap - 1) -> S]
      /\ q.head \in 0..(cap - 1)
  BY DEF QueueOK
<1>2. \A i \in 1..q.count : q.frames[Slot(q.head + (i - 1), cap)] \in S
  <2> SUFFICES ASSUME NEW i \in 1..q.count
               PROVE  q.frames[Slot(q.head + (i - 1), cap)] \in S
    OBVIOUS
  <2>1. i - 1 \in 0..cap
    BY <1>1
  <2>2. Slot(q.head + (i - 1), cap) \in 0..(cap - 1)
    BY <1>1, <2>1, SlotFacts
  <2>3. QED
    BY <1>1, <2>2
<1>3. QED
  BY <1>1, <1>2 DEF Contents

(* queue_reset() leaves an empty ring.                                     *)
LEMMA ResetFacts ==
  ASSUME NEW S, NEW cap \in Nat \ {0}, NEW blank \in S
  PROVE  /\ QueueOK(QueueReset(blank, cap), S, cap)
         /\ Contents(QueueReset(blank, cap), cap) = << >>
<1>1. Slot(0, cap) = 0
  BY OneTurn
<1>2. QueueOK(QueueReset(blank, cap), S, cap)
  BY <1>1 DEF QueueOK, QueueReset
<1>3. QueueReset(blank, cap).count = 0
  BY DEF QueueReset
<1>4. QED
  BY <1>2, <1>3, ContentsFacts

(* queue_push() on a ring with room appends the frame.                     *)
LEMMA PushFacts ==
  ASSUME NEW S, NEW cap \in Nat \ {0}, NEW q, QueueOK(q, S, cap), NEW frame \in S,
         q.count < cap
  PROVE  /\ QueueOK(QueuePush(q, frame, cap), S, cap)
         /\ Contents(QueuePush(q, frame, cap), cap) = Append(Contents(q, cap), frame)
<1> DEFINE r == QueuePush(q, frame, cap)
<1>1. PICK h \in 0..(cap - 1), c \in 0..(cap - 1) :
        /\ h = q.head /\ c = q.count
        /\ q.frames \in [0..(cap - 1) -> S] /\ q.tail = Slot(h + c, cap)
  BY DEF QueueOK
<1>2. q.tail \in 0..(cap - 1) /\ c \in 0..cap /\ c + 1 \in 1..cap
  BY <1>1, SlotFacts
<1>3. /\ r.frames = [q.frames EXCEPT ![q.tail] = frame] /\ r.head = h
      /\ r.tail = Slot(q.tail + 1, cap) /\ r.count = c + 1
  BY <1>1 DEF QueuePush
<1> HIDE DEF r
<1>4. r.tail = Slot(h + (c + 1), cap)
  BY <1>1, <1>3, SlotStep
<1>5. QueueOK(r, S, cap)
  BY <1>1, <1>2, <1>3, <1>4 DEF QueueOK
<1>6. /\ Contents(r, cap) \in Seq(S) /\ Len(Contents(r, cap)) = c + 1
      /\ \A i \in 1..(c + 1) : Contents(r, cap)[i] = r.frames[Slot(h + (i - 1), cap)]
  <2>1. /\ Contents(r, cap) \in Seq(S) /\ Len(Contents(r, cap)) = r.count
        /\ \A i \in 1..r.count :
             Contents(r, cap)[i] = r.frames[Slot(r.head + (i - 1), cap)]
    BY ONLY <1>5, cap \in Nat \ {0}, ContentsFacts
  <2>2. r.head = h /\ r.count = c + 1
    BY <1>3
  <2>3. QED
    BY <2>1, <2>2
<1>7. /\ Contents(q, cap) \in Seq(S) /\ Len(Contents(q, cap)) = c
      /\ \A i \in 1..c : Contents(q, cap)[i] = q.frames[Slot(h + (i - 1), cap)]
  BY <1>1, ContentsFacts
<1> DEFINE a == Append(Contents(q, cap), frame)
<1>8. /\ a \in Seq(S) /\ Len(a) = c + 1 /\ a[c + 1] = frame
      /\ \A i \in 1..c : a[i] = Contents(q, cap)[i]
  BY <1>7
<1> HIDE DEF a
<1>9. \A i \in 1..(c + 1) : Contents(r, cap)[i] = a[i]
  <2> SUFFICES ASSUME NEW i \in 1..(c + 1) PROVE Contents(r, cap)[i] = a[i]
    OBVIOUS
  <2>1. PICK s \in 0..(cap - 1) : s = Slot(h + (i - 1), cap)
    <3>1. i - 1 \in 0..cap
      BY <1>2
    <3>2. QED
      BY <3>1, SlotFacts
  <2>2. CASE i = c + 1
    <3>1. i - 1 = c
      BY <2>2
    <3>2. s = q.tail
      BY <1>1, <2>1, <3>1
    <3>3. QED
      BY <1>1, <1>2, <1>3, <1>6, <1>8, <2>1, <2>2, <3>2
  <2>3. CASE i # c + 1
    <3>1. i \in 1..c /\ i - 1 \in 0..(cap - 1) /\ i - 1 # c
      BY <1>2, <2>3
    <3>2. s # q.tail
      BY <1>1, <2>1, <3>1, SlotsDiffer
    <3>3. r.frames[s] = q.frames[s]
      BY <1>1, <1>2, <1>3, <3>2
    <3>4. QED
      BY <1>6, <1>7, <1>8, <2>1, <3>1, <3>3
  <2>4. QED
    BY <2>2, <2>3
<1>10. QED
  BY <1>5, <1>6, <1>8, <1>9, SameFrames DEF r, a

(* queue_pop() on a ring that is not empty hands out its oldest frame.     *)
LEMMA PopFacts ==
  ASSUME NEW S, NEW cap \in Nat \ {0}, NEW q, QueueOK(q, S, cap), q.count # 0
  PROVE  /\ QueueOK(QueuePop(q, cap), S, cap)
         /\ Contents(q, cap) # << >> /\ QueueFront(q) = Head(Contents(q, cap))
         /\ QueueFront(q) \in S
         /\ Contents(QueuePop(q, cap), cap) = Tail(Contents(q, cap))
<1> DEFINE r == QueuePop(q, cap)
<1>1. PICK h \in 0..(cap - 1), c \in 1..cap :
        /\ h = q.head /\ c = q.count
        /\ q.frames \in [0..(cap - 1) -> S] /\ q.tail = Slot(h + c, cap)
  BY DEF QueueOK
<1>2. PICK b \in 0..(cap - 1) : b = Slot(h + 1, cap)
  BY SlotFacts
<1>3. /\ r.frames = q.frames /\ r.head = b /\ r.tail = q.tail /\ r.count = c - 1
  BY <1>1, <1>2 DEF QueuePop
<1> HIDE DEF r
<1>4. \A i \in 0..(cap - 1) : Slot(b + i, cap) = Slot(h + (i + 1), cap)
  BY <1>2, SlotStep
<1>5. QueueOK(r, S, cap)
  <2>1. c - 1 \in 0..(cap - 1) /\ (c - 1) + 1 = c
    OBVIOUS
  <2>2. r.tail = Slot(b + (c - 1), cap)
    BY <1>1, <1>3, <1>4, <2>1
  <2>3. QED
    BY <1>1, <1>3, <2>1, <2>2 DEF QueueOK
<1>6. /\ Contents(q, cap) \in Seq(S) /\ Len(Contents(q, cap)) = c
      /\ \A i \in 1..c : Contents(q, cap)[i] = q.frames[Slot(h + (i - 1), cap)]
  BY <1>1, ContentsFacts
<1>7. /\ Contents(r, cap) \in Seq(S) /\ Len(Contents(r, cap)) = c - 1
      /\ \A i \in 1..(c - 1) : Contents(r, cap)[i] = q.frames[Slot(b + (i - 1), cap)]
  <2>1. /\ Contents(r, cap) \in Seq(S) /\ Len(Contents(r, cap)) = r.count
        /\ \A i \in 1..r.count :
             Contents(r, cap)[i] = r.frames[Slot(r.head + (i - 1), cap)]
    BY <1>5, ContentsFacts
  <2>2. QED
    BY <1>3, <2>1
<1>8. Contents(q, cap) # << >>
  BY <1>6
<1>9. Head(Contents(q, cap)) = QueueFront(q) /\ QueueFront(q) \in S
  <2>1. 1 \in 1..c /\ h + (1 - 1) = h /\ h \in Nat /\ h < cap + cap /\ h < cap
    OBVIOUS
  <2>2. Slot(h, cap) = h
    BY <2>1, OneTurn
  <2>3. Contents(q, cap)[1] = q.frames[h]
    BY <1>6, <2>1, <2>2
  <2>4. QED
    BY <1>1, <1>6, <1>8, <2>3 DEF QueueFront
<1> DEFINE t == Tail(Contents(q, cap))
<1>10. /\ t \in Seq(S) /\ Len(t) = c - 1
       /\ \A i \in 1..(c - 1) : t[i] = Contents(q, cap)[i + 1]
  BY <1>6, <1>8
<1> HIDE DEF t
<1>11. \A i \in 1..(c - 1) : Contents(r, cap)[i] = t[i]
  <2> SUFFICES ASSUME NEW i \in 1..(c - 1) PROVE Contents(r, cap)[i] = t[i]
    OBVIOUS
  <2>1. /\ i - 1 \in 0..(cap - 1) /\ (i - 1) + 1 = i
        /\ i + 1 \in 1..c /\ (i + 1) - 1 = i
    OBVIOUS
  <2>2. Slot(b + (i - 1), cap) = Slot(h + i, cap)
    BY <1>4, <2>1
  <2>3. Contents(q, cap)[i + 1] = q.frames[Slot(h + i, cap)]
    BY <1>6, <2>1
  <2>4. QED
    BY <1>7, <1>10, <2>2, <2>3
<1>12. QED
  BY <1>5, <1>7, <1>8, <1>9, <1>10, <1>11, SameFrames DEF r, t

-----------------------------------------------------------------------------
(* Types.                                                                  *)

HalInv == HalTypeOK /\ now \in Nat

Frames == RawFrames(Data)
OnBus == BusFrames \cup {NoBusFrame}

LEMMA BlankFacts == BlankFrame \in Frames /\ NoBusFrame \in OnBus
BY HalAssumption DEF BlankFrame, Frames, RawFrames, FrameKinds, OnBus

LEMMA TickRange == now \in Nat => tick \in 0..(TickModulus - 1)
BY LinkAssumption, Z3 DEF tick

LEMMA CounterRange == \A x \in Nat : x % CounterModulus \in 0..(CounterModulus - 1)
BY HalAssumption, Z3

LEMMA SupportedFrame ==
  ASSUME NEW raw \in [kind : Kinds, data : Data]
  PROVE  raw \in Frames
BY HalAssumption DEF Frames, RawFrames

LEMMA DecodeCode ==
  ASSUME NEW raw
  PROVE  DecodeStatus(raw) \in {"OK", "INVALID_ARGUMENT", "PARSE_ERROR"}
BY DEF DecodeStatus

LEMMA ResetType ==
  ASSUME NEW name, Reset(name), now' \in Nat
  PROVE  HalInv'
<1>1. /\ QueueOK(sensor_rx', Frames, RxCapacity)
      /\ QueueOK(bus_rx', OnBus, RxCapacity) /\ QueueOK(bus_tx', OnBus, TxCapacity)
  BY BlankFacts, ResetFacts, LinkAssumption, HalAssumption DEF Reset
<1>2. 0 \in 0..(TickModulus - 1) /\ 0 \in 0..(CounterModulus - 1) /\ 0 \in 0..WatchdogMax
  BY LinkAssumption, HalAssumption
<1>3. QED
  BY <1>1, <1>2 DEF Reset, Records, Error, Codes, NoAges, HalInv, HalTypeOK, Frames, OnBus

LEMMA InitType == Init => HalInv
<1> SUFFICES ASSUME Init PROVE HalInv
  OBVIOUS
<1>1. /\ QueueOK(sensor_rx, Frames, RxCapacity)
      /\ QueueOK(bus_rx, OnBus, RxCapacity) /\ QueueOK(bus_tx, OnBus, TxCapacity)
  BY BlankFacts, ResetFacts, LinkAssumption, HalAssumption DEF Init
<1>2. 0 \in 0..(TickModulus - 1) /\ 0 \in 0..(CounterModulus - 1) /\ 0 \in 0..WatchdogMax
  BY LinkAssumption, HalAssumption
<1>3. QED
  BY <1>1, <1>2 DEF Init, Error, Codes, NoAges, HalInv, HalTypeOK, Frames, OnBus

LEMMA IngestType ==
  ASSUME HalInv, NEW raw \in [kind : Kinds, data : Data], hal_ingest_sensor_frame(raw)
  PROVE  HalInv'
<1>1. raw \in Frames /\ tick \in 0..(TickModulus - 1)
  BY SupportedFrame, TickRange DEF HalInv
<1>2. CASE UNCHANGED <<sensor_rx, aging>>
  BY <1>2 DEF hal_ingest_sensor_frame, Records, Error, Codes, HalInv, HalTypeOK, bus, history
<1>3. CASE ~UNCHANGED <<sensor_rx, aging>>
  <2>1. /\ ~Full(sensor_rx, RxCapacity)
        /\ sensor_rx' = QueuePush(sensor_rx, raw, RxCapacity)
        /\ aging' = Recorded(IdOf(raw)) /\ last_error'.code \in Codes
        /\ UNCHANGED <<last_sensor_tick, has_sensor_tick, bus_rx, bus_tx, watchdog,
                       redundant, now>>
    BY <1>3 DEF hal_ingest_sensor_frame, Records, Error, Codes, bus
  <2>2. QueueOK(sensor_rx, Frames, RxCapacity)
    BY DEF HalInv, HalTypeOK, Frames
  <2>3. sensor_rx.count < RxCapacity
    BY <2>1, <2>2, LinkAssumption DEF Full, QueueOK
  <2>4. QueueOK(sensor_rx', Frames, RxCapacity)
    BY <1>1, <2>1, <2>2, <2>3, PushFacts, LinkAssumption
  <2>5. aging' \in [FrameIds -> [last_tick : 0..(TickModulus - 1), received : {0, 1}]]
    BY <1>1, <2>1 DEF Recorded, IdOf, HalInv, HalTypeOK
  <2>6. QED
    BY <2>1, <2>4, <2>5 DEF HalInv, HalTypeOK, Frames
<1>4. QED
  BY <1>2, <1>3

LEMMA ReadFromType ==
  ASSUME HalInv, ReadFrom
  PROVE  HalInv'
<1>1. tick \in 0..(TickModulus - 1)
  BY TickRange DEF HalInv
<1>2. QueueOK(sensor_rx', Frames, RxCapacity)
  BY PopFacts, LinkAssumption DEF ReadFrom, HalInv, HalTypeOK, Frames
<1>3. last_error'.code \in Codes
  BY DecodeCode DEF ReadFrom, Records, Error, Codes
<1>4. last_sensor_tick' \in 0..(TickModulus - 1) /\ has_sensor_tick' \in {0, 1}
  BY <1>1 DEF ReadFrom, HalInv, HalTypeOK
<1>5. QED
  BY <1>2, <1>3, <1>4 DEF ReadFrom, HalInv, HalTypeOK, Frames, bus

LEMMA EnqueuedType ==
  ASSUME NEW cap \in Nat \ {0}, NEW q, QueueOK(q, OnBus, cap), NEW frame \in BusFrames
  PROVE  QueueOK(Enqueued(q, frame, cap), OnBus, cap)
<1>1. q.count \in 0..cap
  BY DEF QueueOK
<1>2. CASE Full(q, cap)
  BY <1>2 DEF Enqueued
<1>3. CASE ~Full(q, cap)
  <2>1. q.count < cap
    BY <1>1, <1>3 DEF Full
  <2>2. frame \in OnBus
    BY DEF OnBus
  <2>3. QueueOK(QueuePush(q, frame, cap), OnBus, cap)
    BY <2>1, <2>2, PushFacts
  <2>4. QED
    BY <1>3, <2>3 DEF Enqueued
<1>4. QED
  BY <1>2, <1>3

LEMMA BusType ==
  ASSUME HalInv, NEW frame \in BusFrames, hal_receive_bus(frame) \/ hal_transmit_bus(frame)
  PROVE  HalInv'
<1>1. QueueOK(bus_rx, OnBus, RxCapacity) /\ QueueOK(bus_tx, OnBus, TxCapacity)
  BY DEF HalInv, HalTypeOK, OnBus
<1>2. QueueOK(bus_rx', OnBus, RxCapacity) /\ QueueOK(bus_tx', OnBus, TxCapacity)
  BY <1>1, EnqueuedType, LinkAssumption, HalAssumption DEF hal_receive_bus, hal_transmit_bus
<1>3. last_error'.code \in Codes
  BY DEF hal_receive_bus, hal_transmit_bus, BusCall, Records, Error, Codes, HalInv, HalTypeOK
<1>4. UNCHANGED <<sensor, watchdog, redundant, aging, now>>
  BY DEF hal_receive_bus, hal_transmit_bus, BusCall
<1>5. QED
  BY <1>2, <1>3, <1>4 DEF HalInv, HalTypeOK, OnBus, sensor

LEMMA WatchdogType ==
  ASSUME HalInv, \/ \E timeout \in WatchdogTimeouts : hal_watchdog_configure(timeout)
                 \/ hal_watchdog_kick \/ hal_watchdog_check
  PROVE  HalInv'
<1>1. watchdog \in [timeout : 0..WatchdogMax, counter : 0..(CounterModulus - 1),
                    enabled : {0, 1}] /\ (watchdog.enabled = 1 <=> watchdog.timeout > 0)
  BY DEF HalInv, HalTypeOK
<1>2. 0 \in 0..(CounterModulus - 1)
  BY HalAssumption
<1>3. last_error'.code \in Codes
  BY DEF hal_watchdog_configure, hal_watchdog_kick, hal_watchdog_check, Records, Error,
         Codes, HalInv, HalTypeOK
<1>4. UNCHANGED <<sensor, bus, redundant, aging, now>>
  BY DEF hal_watchdog_configure, hal_watchdog_kick, hal_watchdog_check
<1>5. /\ watchdog' \in [timeout : 0..WatchdogMax, counter : 0..(CounterModulus - 1),
                        enabled : {0, 1}]
      /\ watchdog'.enabled = 1 <=> watchdog'.timeout > 0
  <2>1. CASE \E timeout \in WatchdogTimeouts : hal_watchdog_configure(timeout)
    BY <1>2, <2>1, HalAssumption DEF hal_watchdog_configure, Configured
  <2>2. CASE hal_watchdog_kick
    BY <1>1, <1>2, <2>2 DEF hal_watchdog_kick
  <2>3. CASE hal_watchdog_check
    <3>1. watchdog.counter + 1 \in Nat
      BY <1>1, HalAssumption
    <3>2. PICK c \in 0..(CounterModulus - 1) : c = (watchdog.counter + 1) % CounterModulus
      BY <3>1, CounterRange
    <3>3. watchdog' = watchdog \/ watchdog' = [watchdog EXCEPT !.counter = c]
      BY <2>3, <3>2 DEF hal_watchdog_check
    <3>4. QED
      BY <1>1, <3>3
  <2>4. QED
    BY <2>1, <2>2, <2>3
<1>6. QED
  BY <1>3, <1>4, <1>5 DEF HalInv, HalTypeOK, sensor, bus

LEMMA RestType ==
  ASSUME HalInv,
         \/ AdvanceClock \/ ReadNothing \/ Refuse \/ RefuseSilently
         \/ hal_encode_sensor_frame
         \/ \E value \in Temperatures : hal_submit_redundant_temp(value)
         \/ \E primary \in Temperatures : hal_vote_sensors(primary)
         \/ UNCHANGED vars
  PROVE  HalInv'
<1>1. UNCHANGED <<sensor, bus, watchdog, aging>> /\ now' \in Nat
  BY DEF AdvanceClock, ReadNothing, Refuse, RefuseSilently, hal_encode_sensor_frame,
         hal_submit_redundant_temp, hal_vote_sensors, vars, HalInv
<1>2. last_error'.code \in Codes
  BY DEF AdvanceClock, ReadNothing, Refuse, RefuseSilently, hal_encode_sensor_frame,
         hal_submit_redundant_temp, hal_vote_sensors, vars, Records, Error, Codes, Disagree,
         HalInv, HalTypeOK
<1>3. redundant' \in [value : Int, has : {0, 1}]
  BY HalAssumption
     DEF AdvanceClock, ReadNothing, Refuse, RefuseSilently, hal_encode_sensor_frame,
         hal_submit_redundant_temp, hal_vote_sensors, vars, HalInv, HalTypeOK
<1>4. QED
  BY <1>1, <1>2, <1>3 DEF HalInv, HalTypeOK, sensor, bus

LEMMA AgeType ==
  ASSUME HalInv, NEW id \in FrameIds, hal_frame_age_record(id)
  PROVE  HalInv'
<1>1. tick \in 0..(TickModulus - 1)
  BY TickRange DEF HalInv
<1>2. QED
  BY <1>1 DEF hal_frame_age_record, Recorded, HalInv, HalTypeOK, sensor, bus

LEMMA HalInductive == HalInv /\ [Next]_vars => HalInv'
<1> SUFFICES ASSUME HalInv, [Next]_vars PROVE HalInv'
  OBVIOUS
<1>1. CASE Restart
  BY <1>1, ResetType DEF Restart, HalInv
<1>2. CASE ~Restart
  BY <1>2, IngestType, ReadFromType, BusType, WatchdogType, RestType, AgeType DEF Next
<1>3. QED
  BY <1>1, <1>2

LEMMA HalCorrect == Spec => []HalInv
BY InitType, HalInductive, PTL DEF Spec

(* The HAL's globals keep their types, the indices of its rings agree      *)
(* (HalTypeOK), whatever calls are made in whatever order.                 *)
THEOREM HalTypeCorrect == Spec => []HalTypeOK
<1>1. HalInv => HalTypeOK
  BY DEF HalInv
<1>2. QED
  BY <1>1, HalCorrect, PTL

-----------------------------------------------------------------------------
(* The sensor path implements the FIFO service, step by step.              *)

LEMMA LinkInit == Init => Link!Init
<1> SUFFICES ASSUME Init PROVE Link!Init
  OBVIOUS
<1>1. Contents(sensor_rx, RxCapacity) = << >>
  BY BlankFacts, ResetFacts, LinkAssumption DEF Init
<1>2. QED
  BY <1>1 DEF Init, Link!Init, LinkView, Link!FreshLink, Link!Error, Error

LEMMA LinkReset ==
  ASSUME NEW name \in {"hal_init", "hal_shutdown"}, Reset(name)
  PROVE  Link!Restart
<1>1. Contents(sensor_rx', RxCapacity) = << >>
  BY BlankFacts, ResetFacts, LinkAssumption DEF Reset
<1>2. LinkView' = [Link!FreshLink EXCEPT !.last_error = Link!Error("OK", name, 0, "INFO")]
  BY <1>1 DEF Reset, Records, LinkView, Link!FreshLink, Link!Error, Error
<1>3. QED
  BY <1>2 DEF Link!Restart

(* A step that leaves the sensor path alone records an error at most.      *)
LEMMA LinkRecord ==
  ASSUME UNCHANGED sensor
  PROVE  Link!Record
BY DEF sensor, LinkView, Link!Record

LEMMA LinkContents ==
  ASSUME HalInv
  PROVE  /\ QueueOK(sensor_rx, Frames, RxCapacity)
         /\ sensor_rx.count \in 0..RxCapacity
         /\ Contents(sensor_rx, RxCapacity) \in Seq(Frames)
         /\ Len(Contents(sensor_rx, RxCapacity)) = sensor_rx.count
<1>1. QueueOK(sensor_rx, Frames, RxCapacity)
  BY DEF HalInv, HalTypeOK, Frames
<1>2. sensor_rx.count \in 0..RxCapacity
  BY <1>1 DEF QueueOK
<1>3. RxCapacity \in Nat \ {0}
  BY LinkAssumption
<1>4. QED
  BY <1>1, <1>2, <1>3, ContentsFacts

(* The record an ingest leaves, field by field.                            *)
LEMMA IngestRecord ==
  ASSUME NEW raw, NEW status, status = Link!IngestStatus(LinkView, raw)
  PROVE  Link!AfterIngest(LinkView, raw, tick) =
           [rx |-> IF status = "OK" THEN Append(Contents(sensor_rx, RxCapacity), raw)
                   ELSE Contents(sensor_rx, RxCapacity),
            last_sensor_tick |-> last_sensor_tick,
            has_sensor_tick |-> has_sensor_tick,
            last_error |-> Error(status, "hal_ingest_sensor_frame", tick,
                                 IF status = "OK" THEN "INFO" ELSE "ERROR")]
<1> DEFINE waiting == Contents(sensor_rx, RxCapacity)
           error == Error(status, "hal_ingest_sensor_frame", tick,
                          IF status = "OK" THEN "INFO" ELSE "ERROR")
           frames == IF status = "OK" THEN Append(waiting, raw) ELSE waiting
<1>1. Link!AfterIngest(LinkView, raw, tick) =
        [LinkView EXCEPT !.rx = IF status = "OK" THEN Append(@, raw) ELSE @,
                         !.last_error = error]
  BY Zenon DEF Link!AfterIngest, Link!Error, Error
<1>2. LinkView.rx = waiting
  BY DEF LinkView
<1>3. Link!AfterIngest(LinkView, raw, tick) =
        [LinkView EXCEPT !.rx = frames, !.last_error = error]
  BY <1>1, <1>2, Zenon
<1> HIDE DEF error, frames, waiting
<1>4. [LinkView EXCEPT !.rx = frames, !.last_error = error] =
        [[LinkView EXCEPT !.rx = frames] EXCEPT !.last_error = error]
  OBVIOUS
<1>5. [LinkView EXCEPT !.rx = frames] =
        [rx |-> frames, last_sensor_tick |-> last_sensor_tick,
         has_sensor_tick |-> has_sensor_tick, last_error |-> last_error]
  BY DEF LinkView
<1>6. [[LinkView EXCEPT !.rx = frames] EXCEPT !.last_error = error] =
        [rx |-> frames, last_sensor_tick |-> last_sensor_tick,
         has_sensor_tick |-> has_sensor_tick, last_error |-> error]
  <2>1. [[LinkView EXCEPT !.rx = frames] EXCEPT !.last_error = error] =
          [[rx |-> frames, last_sensor_tick |-> last_sensor_tick,
            has_sensor_tick |-> has_sensor_tick, last_error |-> last_error]
           EXCEPT !.last_error = error]
    BY <1>5, Zenon
  <2>2. QED
    BY <2>1
<1>7. Link!AfterIngest(LinkView, raw, tick) =
        [rx |-> frames, last_sensor_tick |-> last_sensor_tick,
         has_sensor_tick |-> has_sensor_tick, last_error |-> error]
  BY <1>3, <1>4, <1>6, Zenon
<1>8. QED
  BY <1>7, Zenon DEF error, frames, waiting

LEMMA LinkPush ==
  ASSUME NEW frame \in Frames, QueueOK(sensor_rx, Frames, RxCapacity),
         sensor_rx.count < RxCapacity
  PROVE  Contents(QueuePush(sensor_rx, frame, RxCapacity), RxCapacity) =
           Append(Contents(sensor_rx, RxCapacity), frame)
<1>1. RxCapacity \in Nat \ {0}
  BY LinkAssumption
<1>2. QED
  BY <1>1, PushFacts, Zenon

LEMMA LinkIngest ==
  ASSUME HalInv, NEW raw \in [kind : Kinds, data : Data], hal_ingest_sensor_frame(raw)
  PROVE  Link!Ingest(raw, tick)
<1> DEFINE waiting == Contents(sensor_rx, RxCapacity)
<1>1. /\ Len(waiting) = sensor_rx.count /\ sensor_rx.count \in 0..RxCapacity
      /\ QueueOK(sensor_rx, Frames, RxCapacity) /\ RxCapacity \in Nat \ {0}
  BY LinkContents, LinkAssumption
<1>2. raw \in Frames
  BY SupportedFrame
<1>3. UNCHANGED <<last_sensor_tick, has_sensor_tick>>
  BY DEF hal_ingest_sensor_frame
<1> SUFFICES LinkView' = Link!AfterIngest(LinkView, raw, tick)
  BY DEF Link!Ingest
<1>4. CASE ~Supported(raw)
  <2>1. /\ sensor_rx' = sensor_rx
        /\ last_error' = Error("INVALID_ARGUMENT", "hal_ingest_sensor_frame", tick, "ERROR")
    BY <1>4 DEF hal_ingest_sensor_frame, Records
  <2>2. Link!IngestStatus(LinkView, raw) = "INVALID_ARGUMENT"
    BY <1>4 DEF Link!IngestStatus, Link!Supported, Supported
  <2>3. QED
    BY <1>3, <2>1, <2>2, IngestRecord DEF LinkView
<1>5. CASE Supported(raw) /\ Full(sensor_rx, RxCapacity)
  <2>1. /\ sensor_rx' = sensor_rx
        /\ last_error' = Error("BUFFER_OVERFLOW", "hal_ingest_sensor_frame", tick, "ERROR")
    BY <1>5 DEF hal_ingest_sensor_frame, Records
  <2>2. Len(waiting) >= RxCapacity
    BY <1>1, <1>5 DEF Full
  <2>3. Link!IngestStatus(LinkView, raw) = "BUFFER_OVERFLOW"
    BY <1>1, <1>5, <2>2 DEF Link!IngestStatus, Link!Supported, Supported, LinkView
  <2>4. QED
    BY <1>3, <2>1, <2>3, IngestRecord DEF LinkView
<1>6. CASE Supported(raw) /\ ~Full(sensor_rx, RxCapacity)
  <2>1. /\ sensor_rx' = QueuePush(sensor_rx, raw, RxCapacity)
        /\ last_error' = Error("OK", "hal_ingest_sensor_frame", tick, "INFO")
    BY <1>6 DEF hal_ingest_sensor_frame, Records
  <2>2. sensor_rx.count < RxCapacity
    BY <1>1, <1>6 DEF Full
  <2>3. Link!IngestStatus(LinkView, raw) = "OK"
    BY <1>1, <1>6, <2>2 DEF Link!IngestStatus, Link!Supported, Supported, LinkView
  <2>4. Contents(QueuePush(sensor_rx, raw, RxCapacity), RxCapacity) = Append(waiting, raw)
    BY <1>1, <1>2, <2>2, LinkPush
  <2>5. QED
    BY <1>3, <2>1, <2>3, <2>4, IngestRecord DEF LinkView
<1>7. QED
  BY <1>4, <1>5, <1>6

(* The two descriptions of a silent sensor.                                *)
LEMMA LinkSilence == Silence <=> Link!Silent(LinkView, tick)
BY DEF Silence, Link!Silent, LinkView, TicksSince, Link!TicksSince

LEMMA LinkReadNothing ==
  ASSUME HalInv, ReadNothing
  PROVE  Link!Read(tick)
<1>1. Contents(sensor_rx, RxCapacity) = << >>
  BY LinkContents DEF ReadNothing
<1>2. UNCHANGED <<sensor_rx, last_sensor_tick, has_sensor_tick>>
  BY DEF ReadNothing, sensor
<1>3. CASE Silence
  <2>1. last_error' = Error("TIMEOUT", "hal_read_sensors", tick, "FATAL")
    BY <1>3 DEF ReadNothing, Records
  <2>2. Link!ReadStatus(LinkView, tick) = "TIMEOUT"
    BY <1>1, <1>3, LinkSilence DEF Link!ReadStatus, LinkView
  <2>3. QED
    BY <1>1, <1>2, <2>1, <2>2
       DEF Link!Read, Link!AfterRead, Link!ReadSeverity, LinkView, Link!Error, Error
<1>4. CASE ~Silence
  <2>1. last_error' = Error("INVALID_ARGUMENT", "hal_read_sensors", tick, "WARNING")
    BY <1>4 DEF ReadNothing, Records
  <2>2. Link!ReadStatus(LinkView, tick) = "INVALID_ARGUMENT"
    BY <1>1, <1>4, LinkSilence DEF Link!ReadStatus, LinkView
  <2>3. QED
    BY <1>1, <1>2, <2>1, <2>2
       DEF Link!Read, Link!AfterRead, Link!ReadSeverity, LinkView, Link!Error, Error
<1>5. QED
  BY <1>3, <1>4

LEMMA LinkReadFrom ==
  ASSUME HalInv, ReadFrom
  PROVE  Link!Read(tick)
<1> DEFINE waiting == Contents(sensor_rx, RxCapacity)
           status == DecodeStatus(QueueFront(sensor_rx))
<1>1. /\ waiting # << >> /\ QueueFront(sensor_rx) = Head(waiting)
      /\ Contents(sensor_rx', RxCapacity) = Tail(waiting)
  BY PopFacts, LinkContents, LinkAssumption DEF ReadFrom
<1>2. Link!ReadStatus(LinkView, tick) = status
  BY <1>1 DEF Link!ReadStatus, LinkView, Link!DecodeStatus, DecodeStatus
<1>3. status \in {"OK", "INVALID_ARGUMENT", "PARSE_ERROR"}
  BY DecodeCode
<1>4. CASE status = "OK"
  <2>1. /\ last_sensor_tick' = tick /\ has_sensor_tick' = 1
        /\ last_error' = Error("OK", "hal_read_sensors", tick, "INFO")
    BY <1>4 DEF ReadFrom, Records
  <2>2. QED
    BY <1>1, <1>2, <1>4, <2>1
       DEF Link!Read, Link!AfterRead, Link!ReadSeverity, LinkView, Link!Error, Error
<1>5. CASE status # "OK"
  <2>1. /\ UNCHANGED <<last_sensor_tick, has_sensor_tick>>
        /\ last_error' = Error(status, "hal_read_sensors", tick, "ERROR")
    BY <1>5 DEF ReadFrom, Records
  <2>2. Link!ReadSeverity(LinkView, tick) = "ERROR"
    BY <1>1, <1>2, <1>3, <1>5 DEF Link!ReadSeverity, LinkView
  <2>3. QED
    BY <1>1, <1>2, <1>5, <2>1, <2>2 DEF Link!Read, Link!AfterRead, LinkView, Link!Error, Error
<1>6. QED
  BY <1>4, <1>5

LEMMA LinkStep ==
  ASSUME HalInv, [Next]_vars
  PROVE  [Link!Next]_LinkView
<1>1. tick \in 0..(TickModulus - 1)
  BY TickRange DEF HalInv
<1>2. CASE \E raw \in [kind : Kinds, data : Data] : hal_ingest_sensor_frame(raw)
  <2>1. PICK raw \in [kind : Kinds, data : Data] : hal_ingest_sensor_frame(raw)
    BY <1>2
  <2>2. raw \in Link!RawFrames(Data)
    BY SupportedFrame DEF Frames, RawFrames, FrameKinds, Link!RawFrames, Link!FrameKinds
  <2>3. QED
    BY <1>1, <2>1, <2>2, LinkIngest DEF Link!Next
<1>3. CASE ReadNothing \/ ReadFrom
  BY <1>1, <1>3, LinkReadNothing, LinkReadFrom DEF Link!Next
<1>4. CASE Restart
  BY <1>4, LinkReset DEF Restart, Link!Next
<1>5. CASE UNCHANGED sensor
  BY <1>5, LinkRecord DEF Link!Next
<1>6. QED
  BY <1>2, <1>3, <1>4, <1>5
     DEF Next, vars, AdvanceClock, Refuse, RefuseSilently, hal_encode_sensor_frame,
         hal_receive_bus, hal_transmit_bus, BusCall, hal_watchdog_configure,
         hal_watchdog_kick, hal_watchdog_check, hal_submit_redundant_temp,
         hal_vote_sensors, hal_frame_age_record

(* Whatever the capacity of the ring and wherever its indices wrap, the    *)
(* sensor path behaves as the FIFO that the scenario loop relies on        *)
(* (ImplementsLinkService): each frame comes out once, in order, and no    *)
(* other service of the HAL disturbs it.                                   *)
THEOREM HalImplementsLink == Spec => ImplementsLinkService
<1>1. Spec => Link!Init /\ [][Link!Next]_LinkView
  BY LinkInit, LinkStep, HalCorrect, PTL DEF Spec
<1>2. QED
  BY <1>1, PTL DEF ImplementsLinkService, Link!Spec

-----------------------------------------------------------------------------
(* Ticks that wrap.                                                        *)

LEMMA Divided ==
  ASSUME NEW m \in Nat \ {0}, NEW x \in Nat
  PROVE  x = m * (x \div m) + (x % m) /\ (x % m) \in 0..(m - 1) /\ x \div m \in Int
BY Z3

LEMMA Multiples ==
  ASSUME NEW m \in Nat \ {0}, NEW a \in Int, NEW b \in Int
  PROVE  /\ m * a - m * b = m * (a - b) /\ m * a \in Int /\ m * b \in Int
         /\ a - b >= 1 => m * (a - b) >= m
BY Z3

LEMMA SameRemainder ==
  ASSUME NEW m \in Nat \ {0}, NEW k \in Int, NEW q \in Int,
         NEW r \in 0..(m - 1), NEW s \in 0..(m - 1), m * k + r = m * q + s
  PROVE  r = s
<1>1. CASE k - q >= 1
  BY <1>1, Multiples
<1>2. CASE q - k >= 1
  <2>1. /\ m * q - m * k = m * (q - k) /\ m * k \in Int /\ m * q \in Int
        /\ m * (q - k) >= m
    BY <1>2, Multiples
  <2>2. QED
    BY <2>1
<1>3. CASE k = q
  BY <1>3, Multiples
<1>4. QED
  BY <1>1, <1>2, <1>3

(* The difference of two wrapped ticks is the time that passed, as long as *)
(* that is less than a turn of the tick.                                   *)
LEMMA TicksMeasureTime ==
  ASSUME NEW m \in Nat \ {0}, NEW g \in Nat, NEW x \in Nat, g <= x, x - g < m
  PROVE  x - g = IF (x % m) >= (g % m) THEN (x % m) - (g % m)
                  ELSE (x % m) - (g % m) + m
<1>1. PICK k \in Int, r \in 0..(m - 1) : g = m * k + r /\ r = g % m
  BY Divided
<1>2. PICK q \in Int, s \in 0..(m - 1) : x = m * q + s /\ s = x % m
  BY Divided
<1>3. PICK d \in 0..(m - 1) : d = x - g
  OBVIOUS
<1>4. PICK u \in Int : u = m * k /\ g = u + r
  BY <1>1, Multiples
<1>5. PICK v \in Int : v = m * q /\ x = v + s
  BY <1>2, Multiples
<1> SUFFICES x - g = IF s >= r THEN s - r ELSE s - r + m
  BY <1>1, <1>2, Zenon
<1>6. CASE r + d < m
  <2>1. PICK w \in 0..(m - 1) : w = r + d /\ u + w = v + s
    BY <1>3, <1>4, <1>5, <1>6
  <2>2. m * k + w = m * q + s
    BY <1>4, <1>5, <2>1, Zenon
  <2>3. w = s
    BY <2>2, SameRemainder, Zenon
  <2>4. QED
    BY <1>3, <2>1, <2>3
<1>7. CASE r + d >= m
  <2>1. PICK w \in 0..(m - 1) : w = r + d - m /\ (u + m) + w = v + s
    BY <1>3, <1>4, <1>5, <1>7
  <2>2. m * (k + 1) = m * k + m /\ k + 1 \in Int
    BY Z3
  <2>3. m * (k + 1) + w = m * q + s
    BY <1>4, <1>5, <2>1, <2>2, Zenon
  <2>4. w = s
    BY <2>2, <2>3, SameRemainder, Zenon
  <2>5. QED
    BY <1>3, <2>1, <2>4
<1>8. QED
  BY <1>6, <1>7

-----------------------------------------------------------------------------
(* The time since the last good sample.                                    *)

Wrapped(time) == time % TickModulus

LEMMA WrappedTime ==
  ASSUME NEW g \in Nat, NEW t \in Nat, g <= t, t - g < TickModulus
  PROVE  TicksSince(Wrapped(t), Wrapped(g)) = t - g
<1>1. TickModulus \in Nat \ {0}
  BY LinkAssumption
<1>2. PICK m \in Nat \ {0} : m = TickModulus
  BY <1>1
<1>3. t - g = IF (t % m) >= (g % m) THEN (t % m) - (g % m) ELSE (t % m) - (g % m) + m
  BY <1>2, TicksMeasureTime, Zenon
<1>4. QED
  BY <1>2, <1>3, Zenon DEF TicksSince, Wrapped

LEMMA WrappedZero == Wrapped(0) = 0
BY LinkAssumption, Z3 DEF Wrapped

(* What the HAL's 32-bit tick says of the sample, and what is so.          *)
SampleInv ==
  /\ good_at \in Nat /\ good_at <= now
  /\ last_sensor_tick = Wrapped(good_at)
  /\ has_sensor_tick = 0 => good_at = 0

LEMMA SampleInit == Init => SampleInv
BY WrappedZero DEF Init, SampleInv

LEMMA SampleStep == HalInv /\ SampleInv /\ [Next]_vars => SampleInv'
<1> SUFFICES ASSUME HalInv, SampleInv, [Next]_vars PROVE SampleInv'
  OBVIOUS
<1>1. now \in Nat /\ tick = Wrapped(now)
  BY DEF HalInv, tick, Wrapped
<1>2. CASE Restart
  BY <1>1, <1>2, WrappedZero DEF Restart, Reset, SampleInv
<1>3. CASE ReadFrom
  BY <1>1, <1>3 DEF ReadFrom, SampleInv
<1>4. CASE UNCHANGED <<last_sensor_tick, has_sensor_tick, good_at>> /\ now' \in {now, now + 1}
  BY <1>1, <1>4 DEF SampleInv
<1>5. QED
  BY <1>2, <1>3, <1>4
     DEF Next, vars, sensor, history, AdvanceClock, hal_ingest_sensor_frame, ReadNothing,
         Refuse, RefuseSilently, hal_encode_sensor_frame, hal_receive_bus,
         hal_transmit_bus, BusCall, hal_watchdog_configure, hal_watchdog_kick,
         hal_watchdog_check, hal_submit_redundant_temp, hal_vote_sensors,
         hal_frame_age_record

LEMMA SilenceIsTime ==
  ASSUME HalInv, SampleInv, now - good_at < TickModulus
  PROVE  Silence <=> now - good_at > SensorTimeout
<1>1. TicksSince(tick, last_sensor_tick) = now - good_at
  BY WrappedTime DEF SampleInv, HalInv, tick, Wrapped
<1>2. CASE has_sensor_tick = 1
  BY <1>1, <1>2 DEF Silence
<1>3. CASE has_sensor_tick # 1
  <2>1. good_at = 0 /\ last_sensor_tick = 0
    BY <1>3, WrappedZero DEF SampleInv, HalInv, HalTypeOK
  <2>2. tick \in 0..(TickModulus - 1)
    BY TickRange DEF HalInv
  <2>3. tick = now - good_at
    BY <1>1, <2>1, <2>2 DEF TicksSince
  <2>4. QED
    BY <1>3, <2>3 DEF Silence
<1>4. QED
  BY <1>2, <1>3

(* With nothing to read the HAL reports TIMEOUT exactly when the last good *)
(* sample is older than the timeout (SilenceIsTimedExactly), whatever the  *)
(* width of the tick and wherever it wraps.                                *)
THEOREM SilenceIsTimedCorrectly == Spec => SilenceIsTimedExactly
<1>1. HalInv /\ SampleInv /\ [Next]_vars =>
        [ReadNothing /\ now - good_at < TickModulus =>
           (call'.status = "TIMEOUT" <=> now - good_at > SensorTimeout)]_vars
  BY SilenceIsTime DEF ReadNothing, Returns
<1>2. Spec => [](HalInv /\ SampleInv)
  BY SampleInit, SampleStep, HalCorrect, PTL DEF Spec
<1>3. QED
  BY <1>1, <1>2, PTL DEF Spec, SilenceIsTimedExactly

-----------------------------------------------------------------------------
(* The watchdog.                                                           *)

LEMMA SmallCount == \A x \in Nat : x < CounterModulus => x % CounterModulus = x
BY HalAssumption, Z3

(* The HAL's counter is the number of checks, as long as it can be.        *)
WatchdogInv ==
  /\ idle_checks \in Nat
  /\ idle_checks < CounterModulus => watchdog.counter = idle_checks
  /\ WatchdogFiresInTime

LEMMA WatchdogInit == Init => WatchdogInv
BY DEF Init, WatchdogInv, WatchdogFiresInTime

LEMMA CheckStep ==
  ASSUME HalInv, WatchdogInv, hal_watchdog_check
  PROVE  WatchdogInv'
<1>1. /\ watchdog \in [timeout : 0..WatchdogMax, counter : 0..(CounterModulus - 1),
                       enabled : {0, 1}]
      /\ CounterModulus \in Nat /\ idle_checks \in Nat
  BY HalAssumption DEF HalInv, HalTypeOK, WatchdogInv
<1>2. CASE watchdog.enabled = 0
  BY <1>1, <1>2 DEF hal_watchdog_check, Returns, WatchdogInv, WatchdogFiresInTime
<1>3. CASE watchdog.enabled # 0
  <2>1. watchdog.counter + 1 \in Nat
    BY <1>1
  <2>2. PICK c \in 0..(CounterModulus - 1) : c = (watchdog.counter + 1) % CounterModulus
    BY <2>1, CounterRange
  <2>3. /\ watchdog' = [watchdog EXCEPT !.counter = c] /\ idle_checks' = idle_checks + 1
        /\ call'.status = IF c > watchdog.timeout THEN "TIMEOUT" ELSE "OK"
    BY <1>3, <2>2 DEF hal_watchdog_check, Returns
  <2>4. /\ watchdog'.counter = c /\ watchdog'.timeout = watchdog.timeout
        /\ watchdog'.enabled = 1
    BY <1>1, <1>3, <2>3
  <2>5. idle_checks' < CounterModulus => c = idle_checks'
    <3>1. SUFFICES ASSUME idle_checks + 1 < CounterModulus PROVE c = idle_checks + 1
      BY <2>3
    <3>2. watchdog.counter + 1 = idle_checks + 1
      BY <1>1, <3>1 DEF WatchdogInv
    <3>3. (idle_checks + 1) % CounterModulus = idle_checks + 1
      BY <1>1, <3>1, SmallCount
    <3>4. QED
      BY <2>2, <3>2, <3>3, Zenon
  <2>6. QED
    BY <1>1, <2>3, <2>4, <2>5 DEF WatchdogInv, WatchdogFiresInTime
<1>4. QED
  BY <1>2, <1>3

LEMMA WatchdogStep == HalInv /\ WatchdogInv /\ [Next]_vars => WatchdogInv'
<1> SUFFICES ASSUME HalInv, WatchdogInv, [Next]_vars PROVE WatchdogInv'
  OBVIOUS
<1>1. CASE hal_watchdog_check
  BY <1>1, CheckStep
<1>2. CASE hal_watchdog_kick \/ \E timeout \in WatchdogTimeouts : hal_watchdog_configure(timeout)
  BY <1>2
     DEF hal_watchdog_kick, hal_watchdog_configure, Configured, Returns, WatchdogInv,
         WatchdogFiresInTime, HalInv, HalTypeOK
<1>3. CASE Restart
  BY <1>3 DEF Restart, Reset, Returns, WatchdogInv, WatchdogFiresInTime
<1>4. CASE AdvanceClock \/ UNCHANGED vars
  BY <1>4 DEF AdvanceClock, vars, history, WatchdogInv, WatchdogFiresInTime
<1>5. CASE UNCHANGED <<watchdog, idle_checks>> /\ call'.function # "hal_watchdog_check"
  BY <1>5 DEF WatchdogInv, WatchdogFiresInTime
<1>6. QED
  BY <1>1, <1>2, <1>3, <1>4, <1>5
     DEF Next, history, hal_ingest_sensor_frame, ReadNothing, ReadFrom,
         Refuse, RefusedCalls, RefuseSilently, hal_encode_sensor_frame, hal_receive_bus,
         hal_transmit_bus, BusCall, hal_submit_redundant_temp, hal_vote_sensors, Disagree,
         hal_frame_age_record, Returns

(* The watchdog reports TIMEOUT on exactly the checks that come more than  *)
(* its period after the last kick (WatchdogFiresInTime), for every period  *)
(* and every width of its counter, until the counter wraps.                *)
THEOREM WatchdogFiresCorrectly == Spec => []WatchdogFiresInTime
<1>1. WatchdogInv => WatchdogFiresInTime
  BY DEF WatchdogInv
<1>2. QED
  BY <1>1, WatchdogInit, WatchdogStep, HalCorrect, PTL DEF Spec

-----------------------------------------------------------------------------
(* The redundant reading.                                                  *)

(* A reading that waits for a vote has taken part in none.                 *)
VoteInv == votes \in {0, 1} /\ (redundant.has = 1 => votes = 0)

LEMMA VoteInit == Init => VoteInv
BY DEF Init, VoteInv

LEMMA VoteStep == HalInv /\ VoteInv /\ [Next]_vars => VoteInv'
<1> SUFFICES ASSUME HalInv, VoteInv, [Next]_vars PROVE VoteInv'
  OBVIOUS
<1>1. redundant \in [value : Int, has : {0, 1}]
  BY DEF HalInv, HalTypeOK
<1>2. CASE \E primary \in Temperatures : hal_vote_sensors(primary)
  BY <1>1, <1>2 DEF hal_vote_sensors, VoteInv
<1>3. CASE \E value \in Temperatures : hal_submit_redundant_temp(value)
  BY <1>3 DEF hal_submit_redundant_temp, VoteInv
<1>4. CASE Restart
  BY <1>4 DEF Restart, Reset, VoteInv
<1>5. CASE UNCHANGED <<redundant, votes>>
  BY <1>5 DEF VoteInv
<1>6. QED
  BY <1>2, <1>3, <1>4, <1>5
     DEF Next, vars, history, AdvanceClock, hal_ingest_sensor_frame, ReadNothing, ReadFrom,
         Refuse, RefuseSilently, hal_encode_sensor_frame, hal_receive_bus,
         hal_transmit_bus, BusCall, hal_watchdog_configure, hal_watchdog_kick,
         hal_watchdog_check, hal_frame_age_record

(* A redundant reading takes part in one vote at most (ReadingVotesOnce),  *)
(* however calls to submit and to vote alternate.                          *)
THEOREM ReadingVotesOnceCorrect == Spec => []ReadingVotesOnce
<1>1. VoteInv => ReadingVotesOnce
  BY DEF VoteInv, ReadingVotesOnce
<1>2. QED
  BY <1>1, VoteInit, VoteStep, HalCorrect, PTL DEF Spec

-----------------------------------------------------------------------------
(* The bus queues.                                                         *)

(* A call that enqueues, seen on the frames that wait.                     *)
LEMMA EnqueuedContents ==
  ASSUME NEW cap \in Nat \ {0}, NEW q, QueueOK(q, OnBus, cap), NEW frame \in BusFrames
  PROVE  /\ Full(q, cap) => /\ Enqueued(q, frame, cap) = q
                            /\ Len(Contents(q, cap)) = cap
         /\ ~Full(q, cap) => Contents(Enqueued(q, frame, cap), cap) =
                               Append(Contents(q, cap), frame)
<1>1. q.count \in 0..cap /\ Len(Contents(q, cap)) = q.count
  BY ContentsFacts DEF QueueOK
<1>2. CASE Full(q, cap)
  BY <1>1, <1>2 DEF Full, Enqueued
<1>3. CASE ~Full(q, cap)
  <2>1. q.count < cap /\ frame \in OnBus
    BY <1>1, <1>3 DEF Full, OnBus
  <2>2. Contents(QueuePush(q, frame, cap), cap) = Append(Contents(q, cap), frame)
    BY <2>1, PushFacts
  <2>3. QED
    BY <1>3, <2>2 DEF Enqueued
<1>4. QED
  BY <1>2, <1>3

(* The overflow policy of both queues, as one formula.                     *)
DropsNewest ==
  /\ Kept("hal_receive_bus", Contents(bus_rx, RxCapacity), Contents(bus_rx', RxCapacity),
          RxCapacity)
  /\ Kept("hal_transmit_bus", Contents(bus_tx, TxCapacity), Contents(bus_tx', TxCapacity),
          TxCapacity)

LEMMA ReceiveDropsNewest ==
  ASSUME HalInv, NEW frame \in BusFrames, hal_receive_bus(frame)
  PROVE  DropsNewest
<1>1. QueueOK(bus_rx, OnBus, RxCapacity) /\ RxCapacity \in Nat \ {0}
  BY LinkAssumption DEF HalInv, HalTypeOK, OnBus
<1>2. bus_rx' = Enqueued(bus_rx, frame, RxCapacity) /\ bus_tx' = bus_tx
  BY DEF hal_receive_bus
<1>3. Kept("hal_receive_bus", Contents(bus_rx, RxCapacity), Contents(bus_rx', RxCapacity),
           RxCapacity)
  <2>1. CASE Full(bus_rx, RxCapacity)
    <3>1. bus_rx' = bus_rx /\ Len(Contents(bus_rx, RxCapacity)) = RxCapacity
      BY <1>1, <1>2, <2>1, EnqueuedContents
    <3>2. /\ Returned("hal_receive_bus", "BUFFER_OVERFLOW")
          /\ last_error'.code = "BUFFER_OVERFLOW"
          /\ last_error'.function = "hal_receive_bus"
      BY <2>1 DEF hal_receive_bus, BusCall, Records, Error, Returns, Returned
    <3>3. QED
      BY <3>1, <3>2 DEF Kept
  <2>2. CASE ~Full(bus_rx, RxCapacity)
    <3>1. Contents(bus_rx', RxCapacity) = Append(Contents(bus_rx, RxCapacity), frame)
      BY <1>1, <1>2, <2>2, EnqueuedContents
    <3>2. Returned("hal_receive_bus", "OK")
      BY <2>2 DEF hal_receive_bus, BusCall, Returns, Returned
    <3>3. QED
      BY <3>1, <3>2, Zenon DEF Kept
  <2>3. QED
    BY <2>1, <2>2
<1>4. call'.function = "hal_receive_bus"
  BY DEF hal_receive_bus, BusCall, Returns
<1>5. QED
  BY <1>2, <1>3, <1>4 DEF DropsNewest, Kept

LEMMA TransmitDropsNewest ==
  ASSUME HalInv, NEW frame \in BusFrames, hal_transmit_bus(frame)
  PROVE  DropsNewest
<1>1. QueueOK(bus_tx, OnBus, TxCapacity) /\ TxCapacity \in Nat \ {0}
  BY HalAssumption DEF HalInv, HalTypeOK, OnBus
<1>2. bus_tx' = Enqueued(bus_tx, frame, TxCapacity) /\ bus_rx' = bus_rx
  BY DEF hal_transmit_bus
<1>3. Kept("hal_transmit_bus", Contents(bus_tx, TxCapacity), Contents(bus_tx', TxCapacity),
           TxCapacity)
  <2>1. CASE Full(bus_tx, TxCapacity)
    <3>1. bus_tx' = bus_tx /\ Len(Contents(bus_tx, TxCapacity)) = TxCapacity
      BY <1>1, <1>2, <2>1, EnqueuedContents
    <3>2. /\ Returned("hal_transmit_bus", "BUFFER_OVERFLOW")
          /\ last_error'.code = "BUFFER_OVERFLOW"
          /\ last_error'.function = "hal_transmit_bus"
      BY <2>1 DEF hal_transmit_bus, BusCall, Records, Error, Returns, Returned
    <3>3. QED
      BY <3>1, <3>2 DEF Kept
  <2>2. CASE ~Full(bus_tx, TxCapacity)
    <3>1. Contents(bus_tx', TxCapacity) = Append(Contents(bus_tx, TxCapacity), frame)
      BY <1>1, <1>2, <2>2, EnqueuedContents
    <3>2. Returned("hal_transmit_bus", "OK")
      BY <2>2 DEF hal_transmit_bus, BusCall, Returns, Returned
    <3>3. QED
      BY <3>1, <3>2, Zenon DEF Kept
  <2>3. QED
    BY <2>1, <2>2
<1>4. call'.function = "hal_transmit_bus"
  BY DEF hal_transmit_bus, BusCall, Returns
<1>5. QED
  BY <1>2, <1>3, <1>4 DEF DropsNewest, Kept

LEMMA RestartDropsAll ==
  ASSUME Restart
  PROVE  DropsNewest
<1>1. /\ Contents(bus_rx', RxCapacity) = << >> /\ Contents(bus_tx', TxCapacity) = << >>
  BY BlankFacts, ResetFacts, LinkAssumption, HalAssumption DEF Restart, Reset
<1>2. Restarted
  BY DEF Restart, Reset, Returns, Restarted
<1>3. QED
  BY <1>1, <1>2 DEF DropsNewest, Kept

(* Every other call leaves both queues alone; it is not a bus call or one  *)
(* that refused its argument.                                              *)
LEMMA OthersKeep ==
  ASSUME UNCHANGED bus,
         \/ call'.function \notin {"hal_receive_bus", "hal_transmit_bus"}
         \/ \E f \in {"hal_receive_bus", "hal_transmit_bus"} : Returned(f, "INVALID_ARGUMENT")
  PROVE  DropsNewest
BY DEF bus, DropsNewest, Kept, Returned

LEMMA BusStep ==
  ASSUME HalInv, [Next]_vars, call' # call \/ bus' # bus
  PROVE  DropsNewest
<1>1. CASE \E frame \in BusFrames : hal_receive_bus(frame) \/ hal_transmit_bus(frame)
  BY <1>1, ReceiveDropsNewest, TransmitDropsNewest
<1>2. CASE Restart
  BY <1>2, RestartDropsAll
<1>3. CASE Refuse
  BY <1>3, OthersKeep DEF Refuse, RefusedCalls, Returns, Returned
<1>4. CASE AdvanceClock \/ UNCHANGED vars
  BY <1>4 DEF AdvanceClock, vars
<1>5. CASE UNCHANGED bus /\ call'.function \notin {"hal_receive_bus", "hal_transmit_bus"}
  BY <1>5, OthersKeep
<1>6. QED
  BY <1>1, <1>2, <1>3, <1>4, <1>5
     DEF Next, hal_ingest_sensor_frame, ReadNothing, ReadFrom, RefuseSilently,
         hal_encode_sensor_frame, hal_watchdog_configure, hal_watchdog_kick,
         hal_watchdog_check, hal_submit_redundant_temp, hal_vote_sensors, Disagree,
         hal_frame_age_record, Returns

(* A full bus queue refuses the newest frame, says so and keeps what waits *)
(* (BusDropsNewest), for queues of any capacity.                           *)
THEOREM BusDropsNewestCorrect == Spec => BusDropsNewest
<1>1. HalInv /\ [Next]_vars => [call' # call \/ bus' # bus => DropsNewest]_vars
  BY BusStep
<1>2. QED
  BY <1>1, HalCorrect, PTL DEF Spec, BusDropsNewest, DropsNewest
=============================================================================
