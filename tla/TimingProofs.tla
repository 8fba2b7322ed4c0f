---------------------------- MODULE TimingProofs ----------------------------
(***************************************************************************)
(* Sensor timing is right for every script, timeout and gap: samples are   *)
(* fresh, a silent sensor stops the engine at the first tick it must, and  *)
(* a run fails for no other reason than a corrupted frame.                 *)
(***************************************************************************)
EXTENDS EvaluationProofs

-----------------------------------------------------------------------------
(* The clock.                                                              *)

LEMMA TickTypes ==
  ASSUME Inv
  PROVE  /\ tick_index \in Nat /\ tick_count \in Nat
         /\ current_tick \in Nat /\ target_tick \in Nat /\ sim_tick \in Nat
         /\ engine \in EngineStates /\ link \in Links
         /\ SensorTimeout \in Nat /\ TickModulus \in Nat \ {0}
BY RunAssumption, LinkAssumption DEF Inv, RunTypeOK

(* In the gap loop a poll times out exactly when the tick is more than     *)
(* SensorTimeout past the last sample, whether there was one or not.       *)
LEMMA PollTimesOut ==
  ASSUME Inv, ClockInv, pc = "ingest"
  PROVE  /\ LastTick \in Nat /\ current_tick = LastTick /\ link.rx = << >>
         /\ ReadStatus(link, sim_tick) = IF sim_tick - LastTick > SensorTimeout
                                         THEN "TIMEOUT" ELSE "INVALID_ARGUMENT"
<1>1. /\ link.rx = << >> /\ current_tick = LastTick
      /\ link.last_sensor_tick = LastTick
      /\ link.has_sensor_tick = IF tick_index = 0 THEN 0 ELSE 1
      /\ Len(tick_reports) = tick_index + 1
      /\ current_tick < sim_tick
  BY DEF Inv, LoopInv, ClockInv, Looping, InLine
<1>2. LastTick \in Nat
  BY <1>1, TickTypes
<1>3. tick_index = 0 => LastTick = 0
  BY <1>1 DEF LastTick, SampleCount
<1>4. TicksSince(sim_tick, LastTick) = sim_tick - LastTick
  BY <1>1, <1>2, TickTypes DEF TicksSince
<1>5. Silent(link, sim_tick) <=> sim_tick - LastTick > SensorTimeout
  BY <1>1, <1>2, <1>3, <1>4, TickTypes DEF Silent
<1>6. QED
  BY <1>1, <1>2, <1>5, TickTypes, PollFacts

LEMMA ClockBegin == Inv /\ ClockInv /\ Begin => ClockInv'
<1> SUFFICES ASSUME Inv, ClockInv, Begin PROVE ClockInv'
  OBVIOUS
<1>1. /\ pc = "begin" /\ link = AfterEncode(FreshLink) /\ tick_index = 0 /\ current_tick = 0
      /\ tick_reports = << >> /\ engine \in EngineStates /\ engine.mode = "INIT"
  BY EngineInitFacts DEF Inv, LoopInv, ClockInv, Begin
<1>2. pc' = "next" /\ UNCHANGED <<link, clock>>
  BY <1>1, EngineStartFacts DEF Begin, Continue
<1>3. LastTick' = 0
  BY DEF Begin, LastTick, SampleCount
<1>4. link.last_sensor_tick = 0 /\ link.has_sensor_tick = 0 /\ link.last_error.code # "TIMEOUT"
  BY <1>1, FreshLinkFacts
<1>5. QED
  BY <1>1, <1>2, <1>3, <1>4 DEF ClockInv, Looping, InLine, clock

LEMMA NextLineStep ==
  ASSUME Inv, NEW gap \in Gaps, NEW raw \in Lines, NextLine(gap, raw)
  PROVE  pc = "next" /\ pc' = "ingest" /\ outcome' = outcome
<1>1. gap \in Nat \ {0} /\ current_tick \in Nat /\ target_tick' = current_tick + gap
  BY RunAssumption DEF Inv, RunTypeOK, NextLine
<1>2. ~(target_tick' <= current_tick)
  BY <1>1
<1>3. QED
  BY <1>2 DEF NextLine, Continue

LEMMA ClockNextLine ==
  ASSUME Inv, ClockInv, NEW gap \in Gaps, NEW raw \in Lines, NextLine(gap, raw)
  PROVE  ClockInv'
<1>1. gap \in Nat \ {0}
  BY RunAssumption
<1>2. /\ pc = "next" /\ pc' = "ingest"
      /\ target_tick' = current_tick + gap /\ sim_tick' = current_tick + 1
      /\ UNCHANGED <<link, tick_index, current_tick>>
      /\ LastTick' = LastTick
  BY <1>1, NextLineStep DEF NextLine, reporting, LastTick, SampleCount, Sample
<1>3. QED
  BY <1>1, <1>2, TickTypes DEF ClockInv, Looping, InLine

LEMMA ClockPollGap == Inv /\ ClockInv /\ PollGap => ClockInv'
<1> SUFFICES ASSUME Inv, ClockInv, PollGap PROVE ClockInv'
  OBVIOUS
<1>1. /\ pc = "ingest" /\ sim_tick < target_tick
      /\ link' = AfterRead(link, sim_tick)
      /\ UNCHANGED <<tick_index, current_tick, target_tick>>
      /\ LastTick' = LastTick
  BY DEF PollGap, reporting, LastTick, SampleCount, Sample
<1>2. /\ link'.last_sensor_tick = link.last_sensor_tick
      /\ link'.has_sensor_tick = link.has_sensor_tick
      /\ link'.last_error.code = ReadStatus(link, sim_tick)
  BY <1>1, TickTypes, PollTimesOut, PollFacts
<1>3. CASE ReadStatus(link, sim_tick) = "TIMEOUT"
  <2>1. pc' = "done"
    BY <1>3 DEF PollGap, Return
  <2>2. QED
    BY <2>1 DEF ClockInv, Looping, InLine
<1>4. CASE ReadStatus(link, sim_tick) # "TIMEOUT"
  <2>1. pc' = "ingest" /\ sim_tick' = sim_tick + 1
    BY <1>4 DEF PollGap, Continue
  <2>2. sim_tick <= current_tick + SensorTimeout
    BY <1>1, <1>4, PollTimesOut, TickTypes
  <2>3. QED
    BY <1>1, <1>2, <1>4, <2>1, <2>2, TickTypes DEF ClockInv, Looping, InLine
<1>5. QED
  BY <1>3, <1>4

LEMMA IngestStep ==
  ASSUME Inv, Ingest
  PROVE  /\ pc = "ingest" /\ pc' = "read" /\ outcome' = outcome
         /\ link'.last_sensor_tick = link.last_sensor_tick
         /\ link'.has_sensor_tick = link.has_sensor_tick
         /\ link'.last_error.code = "OK"
<1>1. pc = "ingest" /\ link' = AfterIngest(link, line, target_tick)
  BY DEF Ingest
<1>2. link.rx = << >> /\ line \in RawFrames(Frames) /\ line.kind \in {"sensor", "corrupt"}
  BY <1>1 DEF Inv, RunTypeOK, LoopInv, Looping
<1>3. /\ IngestStatus(link, line) = "OK"
      /\ link'.last_sensor_tick = link.last_sensor_tick
      /\ link'.has_sensor_tick = link.has_sensor_tick
  BY <1>1, <1>2, TickTypes, IngestFacts
<1>4. link'.last_error.code = "OK"
  <2> DEFINE error == Error("OK", "hal_ingest_sensor_frame", target_tick, "INFO")
             a == [link EXCEPT !.rx = Append(@, line)]
  <2>1. link' = [a EXCEPT !.last_error = error]
    BY <1>1, <1>3 DEF AfterIngest
  <2>2. error.code = "OK"
    BY DEF Error
  <2>3. "last_error" \in DOMAIN a
    BY TickTypes DEF Links
  <2> HIDE DEF error, a
  <2>4. QED
    BY <2>1, <2>2, <2>3
<1>5. pc' = "read" /\ outcome' = outcome
  BY <1>3 DEF Ingest, Continue
<1>6. QED
  BY <1>1, <1>3, <1>4, <1>5

LEMMA ClockIngest == Inv /\ ClockInv /\ Ingest => ClockInv'
<1> SUFFICES ASSUME Inv, ClockInv, Ingest PROVE ClockInv'
  OBVIOUS
<1>1. /\ sim_tick >= target_tick
      /\ UNCHANGED clock
      /\ LastTick' = LastTick
  BY DEF Ingest, reporting, LastTick, SampleCount, Sample
<1>2. QED
  BY <1>1, IngestStep, TickTypes DEF ClockInv, Looping, InLine, clock

LEMMA ClockRead == Inv /\ ClockInv /\ Read => ClockInv'
<1> SUFFICES ASSUME Inv, ClockInv, Read PROVE ClockInv'
  OBVIOUS
<1>1. pc = "read" /\ UNCHANGED clock /\ LastTick' = LastTick
  BY ReadStep DEF reporting, LastTick, SampleCount, Sample
<1>2. CASE pc' = "evaluate"
  <2>1. /\ link'.last_sensor_tick = target_tick /\ link'.has_sensor_tick = 1
        /\ link'.last_error.code = "OK"
    BY <1>2, ReadStep DEF Error
  <2>2. QED
    BY <1>1, <1>2, <2>1 DEF ClockInv, Looping, InLine, clock
<1>3. CASE pc' = "done"
  BY <1>3 DEF ClockInv, Looping, InLine
<1>4. QED
  BY <1>2, <1>3, ReadStep

LEMMA NewSampleTick ==
  ASSUME Inv, Evaluate
  PROVE  Sample(SampleCount)'.tick = target_tick /\ LastTick' = target_tick
<1>1. SampleCount \in Nat /\ SampleCount' = SampleCount + 1 /\ Len(tick_reports) = SampleCount + 1
  BY SampleStep, EvaluateStep DEF SampleCount
<1>2. Sample(SampleCount)' = tick_reports'[Len(tick_reports) + 1]
  BY <1>1 DEF Sample
<1>3. QED
  BY <1>1, <1>2, EvaluateStep DEF LastTick

LEMMA ClockEvaluate == Inv /\ ClockInv /\ Evaluate => ClockInv'
<1> SUFFICES ASSUME Inv, ClockInv, Evaluate PROVE ClockInv'
  OBVIOUS
<1>1. pc = "evaluate" /\ pc' = "update" /\ UNCHANGED <<link, clock>>
  BY EvaluateStep
<1>2. QED
  BY <1>1, NewSampleTick DEF ClockInv, Looping, InLine, clock

LEMMA ClockUpdate == Inv /\ ClockInv /\ Update => ClockInv'
<1> SUFFICES ASSUME Inv, ClockInv, Update PROVE ClockInv'
  OBVIOUS
<1>1. LastTick' = LastTick
  BY UpdateStep DEF reporting, LastTick, SampleCount, Sample
<1>2. QED
  BY <1>1, UpdateStep, TickTypes DEF ClockInv, Looping, InLine

LEMMA ClockInductive == Inv /\ ClockInv /\ [Next]_vars => ClockInv'
<1> SUFFICES ASSUME Inv, ClockInv, [Next]_vars PROVE ClockInv'
  OBVIOUS
<1>1. CASE RefuseArguments \/ PrintFails \/ Finish
  BY <1>1 DEF RefuseArguments, PrintFails, Finish, Return, ClockInv, Looping, InLine
<1>2. CASE UNCHANGED vars
  <2>1. LastTick' = LastTick
    BY <1>2 DEF vars, reporting, LastTick, SampleCount, Sample
  <2>2. QED
    BY <1>2, <2>1 DEF ClockInv, Looping, InLine, vars, clock
<1>3. QED
  BY <1>1, <1>2, ClockBegin, ClockNextLine, ClockPollGap, ClockIngest, ClockRead,
     ClockEvaluate, ClockUpdate
     DEF Next, Step

LEMMA ClockCorrect == Spec => []ClockInv
<1>1. Init => ClockInv
  BY FreshLinkFacts DEF Init, ClockInv, Looping, InLine
<1>2. QED
  BY <1>1, ClockInductive, LoopCorrect, PTL DEF Spec

-----------------------------------------------------------------------------
(* Samples are fresh.                                                      *)

LEMMA TimelyInductive ==
  ASSUME Inv, ClockInv, SamplesAreTimely, [Next]_vars
  PROVE  SamplesAreTimely'
<1> DEFINE Previous(n) == IF n = 1 THEN 0 ELSE Sample(n - 1).tick
<1>1. PICK m \in Nat : m = SampleCount
  BY CountTypes
<1>2. \A n \in 1..m : Sample(n)' = Sample(n)
  BY <1>1, StableStep, SampleStep
<1>3. \A n \in 1..m : Sample(n).tick - Previous(n) \in 1..(SensorTimeout + 1)
  BY <1>1 DEF SamplesAreTimely
<1>4. \A n \in 1..m : Sample(n)'.tick - (IF n = 1 THEN 0 ELSE Sample(n - 1)'.tick)
                        \in 1..(SensorTimeout + 1)
  <2> SUFFICES ASSUME NEW n \in 1..m
               PROVE  Sample(n)'.tick - (IF n = 1 THEN 0 ELSE Sample(n - 1)'.tick)
                        \in 1..(SensorTimeout + 1)
    OBVIOUS
  <2>1. n # 1 => n - 1 \in 1..m
    OBVIOUS
  <2>2. QED
    BY <1>2, <1>3, <2>1
<1>5. CASE ~Evaluate
  BY <1>1, <1>4, <1>5, StableStep DEF SamplesAreTimely
<1>6. CASE Evaluate
  <2>1. SampleCount' = m + 1
    BY <1>1, <1>6, SampleStep
  <2>2. Sample(m + 1)'.tick = target_tick
    BY <1>6, <2>1, NewSampleTick DEF Sample
  <2>3. /\ target_tick - LastTick \in 1..(SensorTimeout + 1)
        /\ LastTick \in Nat
    <3>1. pc = "evaluate"
      BY <1>6, EvaluateStep
    <3>2. QED
      BY <3>1, TickTypes DEF ClockInv, Looping, InLine
  <2>4. (IF m + 1 = 1 THEN 0 ELSE Sample(m)'.tick) = LastTick
    <3>1. CASE m = 0
      BY <1>1, <3>1 DEF LastTick
    <3>2. CASE m # 0
      BY <1>1, <1>2, <3>2 DEF LastTick
    <3>3. QED
      BY <3>1, <3>2
  <2>5. Sample(m + 1)'.tick - (IF m + 1 = 1 THEN 0 ELSE Sample(m + 1 - 1)'.tick)
          \in 1..(SensorTimeout + 1)
    <3>1. m + 1 - 1 = m
      OBVIOUS
    <3>2. QED
      BY <2>2, <2>3, <2>4, <3>1
  <2>6. QED
    BY <1>4, <2>1, <2>5 DEF SamplesAreTimely
<1>7. QED
  BY <1>5, <1>6

(* No sample is evaluated after a silence longer than the sensor timeout,  *)
(* and ticks strictly increase from sample to sample (SamplesAreTimely of  *)
(* the timing run).                                                        *)
THEOREM SamplesTimely == Spec => []SamplesAreTimely
<1>1. Init => SamplesAreTimely
  BY DEF Init, SamplesAreTimely, SampleCount
<1>2. Inv /\ ClockInv /\ SamplesAreTimely /\ [Next]_vars => SamplesAreTimely'
  BY TimelyInductive
<1>3. QED
  BY <1>1, <1>2, LoopCorrect, ClockCorrect, PTL DEF Spec

-----------------------------------------------------------------------------
(* A silent sensor stops the engine, promptly.                             *)

LEMMA SafeStateFacts ==
  ASSUME NEW e \in EngineStates, e = engine,
         e.mode \in {"STARTING", "RUNNING", "WARNING", "SHUTDOWN"}
  PROVE  /\ SafeState.mode = "SHUTDOWN"
         /\ SafeState.is_running = 0 /\ SafeState.rpm = 0
<1> DEFINE t == TransitionMode(e, "SHUTDOWN").engine
<1>1. t \in EngineStates /\ t.mode = "SHUTDOWN"
  <2>1. LegalTransition(e.mode, "SHUTDOWN") /\ "SHUTDOWN" \in Modes
    BY DEF LegalTransition, LegalSteps, Modes
  <2>2. QED
    BY <2>1, TransitionModeFacts
<1>2. SafeState = Stopped(t)
  BY DEF SafeState
<1> HIDE DEF t
<1>3. QED
  BY <1>1, <1>2, StoppedFacts

LEMMA TimeoutStep ==
  ASSUME Inv, ClockInv, TimeoutIsPromptAndSafe, [Next]_vars
  PROVE  TimeoutIsPromptAndSafe'
<1> SUFFICES ASSUME pc' = "done", link'.last_error.code = "TIMEOUT"
             PROVE  TimeoutIsPromptAndSafe'
  BY DEF TimeoutIsPromptAndSafe, TimedOut
<1>1. CASE PollGap
  <2>1. /\ pc = "ingest" /\ sim_tick < target_tick
        /\ link' = AfterRead(link, sim_tick)
        /\ UNCHANGED target_tick
        /\ LastTick' = LastTick
    BY <1>1 DEF PollGap, reporting, LastTick, SampleCount, Sample
  <2>2. ReadStatus(link, sim_tick) = "TIMEOUT"
    BY <1>1 DEF PollGap, Continue
  <2>3. engine' = SafeState /\ sim_tick' = sim_tick /\ outcome' = "SHUTDOWN"
    BY <1>1, <2>2 DEF PollGap, Return
  <2>4. engine \in EngineStates
        /\ engine.mode \in {"STARTING", "RUNNING", "WARNING", "SHUTDOWN"}
    BY <2>1, TickTypes DEF Inv, LoopInv, Looping
  <2>5. /\ engine'.mode = "SHUTDOWN" /\ engine'.is_running = 0 /\ engine'.rpm = 0
    BY <2>3, <2>4, SafeStateFacts
  <2>6. sim_tick = LastTick + SensorTimeout + 1
    <3>1. sim_tick - LastTick > SensorTimeout /\ current_tick = LastTick /\ LastTick \in Nat
      BY <2>1, <2>2, PollTimesOut
    <3>2. sim_tick <= current_tick + SensorTimeout + 1
      BY <2>1 DEF ClockInv, InLine
    <3>3. QED
      BY <3>1, <3>2, TickTypes
  <2>7. QED
    BY <2>1, <2>3, <2>5, <2>6 DEF TimeoutIsPromptAndSafe
<1>2. CASE UNCHANGED vars
  <2>1. LastTick' = LastTick
    BY <1>2 DEF vars, reporting, LastTick, SampleCount, Sample
  <2>2. TimedOut
    BY <1>2 DEF TimedOut, vars
  <2>3. QED
    BY <1>2, <2>1, <2>2 DEF TimeoutIsPromptAndSafe, vars, clock
<1>3. CASE RefuseArguments \/ PrintFails \/ Begin \/ Evaluate \/ Update \/ Finish
  <2>1. link' = link /\ pc # "done"
    BY <1>3, EvaluateStep, UpdateStep DEF RefuseArguments, PrintFails, Begin, Finish
  <2>2. QED
    BY <2>1 DEF ClockInv, InLine
<1>4. CASE Ingest
  BY <1>4, IngestStep
<1>5. CASE Read
  BY <1>5, ReadStep DEF Error
<1>6. CASE \E gap \in Gaps, raw \in Lines : NextLine(gap, raw)
  BY <1>6, NextLineStep
<1>7. QED
  BY <1>1, <1>2, <1>3, <1>4, <1>5, <1>6 DEF Next, Step

(* A silent sensor ends the run in the safe state at the first tick it     *)
(* must, and only while the next frame is still to come                    *)
(* (TimeoutIsPromptAndSafe of the timing run).                             *)
THEOREM TimeoutsArePromptAndSafe == Spec => []TimeoutIsPromptAndSafe
<1>1. Init => TimeoutIsPromptAndSafe
  BY DEF Init, TimeoutIsPromptAndSafe, TimedOut
<1>2. Inv /\ ClockInv /\ TimeoutIsPromptAndSafe /\ [Next]_vars => TimeoutIsPromptAndSafe'
  BY TimeoutStep
<1>3. QED
  BY <1>1, <1>2, LoopCorrect, ClockCorrect, PTL DEF Spec

-----------------------------------------------------------------------------
(* Nothing else fails.                                                     *)

LEMMA CauseStep ==
  ASSUME Inv, ClockInv, ErrorHasCause, [Next]_vars
  PROVE  ErrorHasCause'
<1>1. CASE RefuseArguments
  BY <1>1 DEF RefuseArguments, ErrorHasCause, BadArguments, clock
<1>2. CASE Begin
  <2>1. outcome' = outcome /\ outcome = "none"
    BY <1>2, EngineInitFacts, EngineStartFacts DEF Begin, Continue, Inv, LoopInv
  <2>2. QED
    BY <2>1 DEF ErrorHasCause
<1>3. CASE \E gap \in Gaps, raw \in Lines : NextLine(gap, raw)
  BY <1>3, NextLineStep DEF ErrorHasCause, Inv, LoopInv
<1>4. CASE PollGap
  BY <1>4 DEF PollGap, Continue, Return, ErrorHasCause, Inv, LoopInv
<1>5. CASE Ingest
  BY <1>5, IngestStep DEF ErrorHasCause, Inv, LoopInv
<1>6. CASE Read
  BY <1>6, ReadStep DEF ErrorHasCause, Inv, LoopInv, clock
<1>7. CASE Evaluate
  BY <1>7, EvaluateStep DEF ErrorHasCause, Inv, LoopInv
<1>8. CASE Update
  BY <1>8, UpdateStep DEF ErrorHasCause, Inv, LoopInv
<1>9. CASE Finish
  BY <1>9 DEF Finish, Return, ErrorHasCause, Inv, RunTypeOK, Results
<1>10. CASE PrintFails
  <2>1. LastTick' = LastTick /\ target_tick' = target_tick /\ pc = "update"
    BY <1>10 DEF PrintFails, reporting, clock, LastTick, SampleCount, Sample
  <2>2. LastTick = target_tick /\ LastTick # 0
    BY <2>1, TickTypes DEF ClockInv, Looping, InLine
  <2>3. QED
    BY <1>10, <2>1, <2>2 DEF PrintFails, ErrorHasCause
<1>11. CASE UNCHANGED vars
  <2>1. LastTick' = LastTick
    BY <1>11 DEF vars, reporting, LastTick, SampleCount, Sample
  <2>2. QED
    BY <1>11, <2>1 DEF ErrorHasCause, BadArguments, vars, clock
<1>12. QED
  BY <1>1, <1>2, <1>3, <1>4, <1>5, <1>6, <1>7, <1>8, <1>9, <1>10, <1>11 DEF Next, Step

(* A run fails only on refused arguments, a corrupted frame or output that *)
(* fails (ErrorHasCause of the timing run): engine_start(), the ingest     *)
(* into the receive ring, evaluate_engine() and engine_update() never      *)
(* refuse a call of the loop.                                              *)
THEOREM ErrorsHaveCause == Spec => []ErrorHasCause
<1>1. Init => ErrorHasCause
  BY DEF Init, ErrorHasCause
<1>2. Inv /\ ClockInv /\ ErrorHasCause /\ [Next]_vars => ErrorHasCause'
  BY CauseStep
<1>3. QED
  BY <1>1, <1>2, LoopCorrect, ClockCorrect, PTL DEF Spec

-----------------------------------------------------------------------------
(* The loop comes to an end.                                               *)

LEMMA CostFacts ==
  ASSUME NEW lines \in Nat
  PROVE  /\ CostOf(lines) \in Nat
         /\ CostOf(lines + 1) = CostOf(lines) + SensorTimeout + 5
<1>1. SensorTimeout \in Nat
  BY LinkAssumption
<1>2. QED
  BY <1>1 DEF CostOf

(* Lines are left while one is being processed.                            *)
LinesLeft == pc = "next" => tick_index <= tick_count

LEMMA LinesLeftInductive == Inv /\ LinesLeft /\ [Next]_vars => LinesLeft'
<1> SUFFICES ASSUME Inv, LinesLeft, [Next]_vars, pc' = "next"
             PROVE  tick_index' <= tick_count'
  BY DEF LinesLeft
<1>1. CASE Begin
  BY <1>1, TickTypes DEF Begin, clock, Inv, LoopInv
<1>2. CASE Update
  <2>1. tick_index < tick_count
    BY <1>2, UpdateStep DEF Inv, LoopInv, InLine
  <2>2. QED
    BY <1>2, <2>1, UpdateStep, TickTypes
<1>3. CASE UNCHANGED vars
  BY <1>3 DEF LinesLeft, vars, clock
<1>4. CASE RefuseArguments \/ PrintFails \/ Finish
  BY <1>4 DEF RefuseArguments, PrintFails, Finish, Return
<1>5. CASE PollGap
  BY <1>5 DEF PollGap, Return, Continue
<1>6. QED
  BY <1>1, <1>2, <1>3, <1>4, <1>5, NextLineStep, IngestStep, ReadStep, EvaluateStep
     DEF Next, Step

LEMMA AfterLineFacts ==
  ASSUME Inv, InLine
  PROVE  /\ AfterLine \in Nat /\ AfterLine >= 1
         /\ 1 + CostOf(tick_count - tick_index) = AfterLine + SensorTimeout + 5
         /\ CostOf(tick_count) >= CostOf(tick_count - tick_index)
<1> DEFINE rest == tick_count - tick_index - 1
<1>1. tick_index < tick_count
  BY DEF Inv, LoopInv
<1>2. rest \in Nat /\ rest + 1 = tick_count - tick_index
  BY <1>1, TickTypes
<1>3. AfterLine = 1 + CostOf(rest)
  BY DEF AfterLine
<1> HIDE DEF rest
<1>4. CostOf(tick_count) >= CostOf(tick_count - tick_index)
  BY <1>1, TickTypes DEF CostOf
<1>5. CostOf(rest) \in Nat /\ CostOf(rest + 1) = CostOf(rest) + SensorTimeout + 5
  BY <1>2, CostFacts
<1>6. AfterLine \in Nat /\ AfterLine >= 1
  BY <1>3, <1>5
<1>7. 1 + CostOf(tick_count - tick_index) = AfterLine + SensorTimeout + 5
  BY <1>2, <1>3, <1>5, TickTypes
<1>8. QED
  BY <1>4, <1>6, <1>7

(* Where the loop stands, every step leaves fewer steps than there were.   *)
LEMMA StepCounts ==
  ASSUME Inv, ClockInv, LinesLeft, Next
  PROVE  StepsLeft \in Nat /\ StepsLeft' \in Nat /\ StepsLeft' < StepsLeft
<1>1. ASSUME pc' = "done", pc # "done"
      PROVE  StepsLeft' = 0 /\ StepsLeft \in Nat \ {0}
  <2>1. StepsLeft' = 0
    BY <1>1 DEF StepsLeft
  <2>2. StepsLeft \in Nat \ {0}
    <3>1. CASE pc = "begin"
      <4>1. StepsLeft = 2 + CostOf(tick_count)
        BY <3>1 DEF StepsLeft
      <4>2. QED
        BY <4>1, CostFacts, TickTypes
    <3>2. CASE pc = "next"
      <4>1. tick_count - tick_index \in Nat
        BY <3>2, TickTypes DEF LinesLeft
      <4>2. StepsLeft = 1 + CostOf(tick_count - tick_index)
        BY <3>2 DEF StepsLeft
      <4>3. QED
        BY <4>1, <4>2, CostFacts
    <3>3. CASE InLine
      <4>1. current_tick + SensorTimeout + 1 - sim_tick \in Nat
        BY <3>3, TickTypes DEF ClockInv
      <4>2. AfterLine \in Nat
        BY <3>3, AfterLineFacts
      <4>3. QED
        BY <3>3, <4>1, <4>2 DEF StepsLeft, InLine
    <3>4. QED
      BY <1>1, <3>1, <3>2, <3>3 DEF Inv, RunTypeOK, InLine
  <2>3. QED
    BY <2>1, <2>2
<1>2. CASE pc' = "done"
  <2>1. pc # "done"
    BY <1>2, EvaluateStep, UpdateStep, IngestStep, NextLineStep, ReadStep
       DEF Next, Step, RefuseArguments, Begin, PollGap, PrintFails, Finish
  <2>2. QED
    BY <1>1, <1>2, <2>1
<1>3. CASE pc' # "done" /\ Begin
  <2>1. /\ pc = "begin" /\ pc' = "next" /\ tick_index = 0
        /\ UNCHANGED <<tick_count, tick_index>>
    BY <1>3 DEF Begin, Continue, Return, clock, Inv, LoopInv
  <2>2. StepsLeft = 2 + CostOf(tick_count) /\ StepsLeft' = 1 + CostOf(tick_count - tick_index)
    BY <2>1 DEF StepsLeft, CostOf
  <2>3. tick_count - tick_index = tick_count
    BY <2>1, TickTypes
  <2>4. CostOf(tick_count) \in Nat
    BY CostFacts, TickTypes
  <2>5. QED
    BY <2>2, <2>3, <2>4
<1>4. ASSUME NEW gap \in Gaps, NEW raw \in Lines, NextLine(gap, raw)
      PROVE  StepsLeft \in Nat /\ StepsLeft' \in Nat /\ StepsLeft' < StepsLeft
  <2> DEFINE rest == tick_count - tick_index - 1
  <2>1. /\ pc = "next" /\ pc' = "ingest" /\ tick_index < tick_count
        /\ sim_tick' = current_tick + 1
        /\ UNCHANGED <<tick_count, tick_index, current_tick>>
    BY <1>4, NextLineStep DEF NextLine
  <2>2. /\ StepsLeft = 1 + CostOf(tick_count - tick_index)
        /\ StepsLeft' = 1 + CostOf(rest) + 4 + (current_tick + SensorTimeout + 1 - sim_tick')
    BY <2>1 DEF StepsLeft, AfterLine, CostOf
  <2>3. rest \in Nat /\ tick_count - tick_index = rest + 1
    BY <2>1, TickTypes
  <2> HIDE DEF rest
  <2>4. CostOf(rest) \in Nat /\ CostOf(rest + 1) = CostOf(rest) + SensorTimeout + 5
    BY <2>3, CostFacts
  <2>5. current_tick + SensorTimeout + 1 - sim_tick' = SensorTimeout
    BY <2>1, TickTypes
  <2>6. QED
    BY <2>2, <2>3, <2>4, <2>5, TickTypes
<1>5. CASE pc' # "done" /\ PollGap
  <2>1. /\ pc = "ingest" /\ pc' = "ingest" /\ sim_tick' = sim_tick + 1
        /\ UNCHANGED <<tick_count, tick_index, current_tick>>
        /\ sim_tick - current_tick <= SensorTimeout
    <3>1. pc = "ingest" /\ ReadStatus(link, sim_tick) # "TIMEOUT"
      BY <1>5 DEF PollGap, Return
    <3>2. sim_tick - current_tick <= SensorTimeout
      BY <3>1, PollTimesOut, TickTypes
    <3>3. QED
      BY <1>5, <3>1, <3>2 DEF PollGap, Continue
  <2>2. AfterLine' = AfterLine /\ AfterLine \in Nat
    BY <2>1, AfterLineFacts DEF AfterLine, CostOf, InLine
  <2>3. /\ StepsLeft = AfterLine + 4 + (current_tick + SensorTimeout + 1 - sim_tick)
        /\ StepsLeft' = AfterLine + 4 + (current_tick + SensorTimeout + 1 - (sim_tick + 1))
    BY <2>1, <2>2 DEF StepsLeft
  <2>4. QED
    BY <2>1, <2>2, <2>3, TickTypes
<1>6. CASE pc' # "done" /\ Ingest
  <2>1. pc = "ingest" /\ pc' = "read" /\ UNCHANGED <<tick_count, tick_index>>
    BY <1>6, IngestStep DEF Ingest, clock
  <2>2. AfterLine' = AfterLine /\ AfterLine \in Nat
    BY <2>1, AfterLineFacts DEF AfterLine, CostOf, InLine
  <2>3. /\ StepsLeft = AfterLine + 4 + (current_tick + SensorTimeout + 1 - sim_tick)
        /\ StepsLeft' = AfterLine + 3
    BY <2>1, <2>2 DEF StepsLeft
  <2>4. sim_tick <= current_tick + SensorTimeout + 1
    BY <2>1 DEF ClockInv, InLine
  <2>5. QED
    BY <2>2, <2>3, <2>4, TickTypes
<1>7. CASE pc' # "done" /\ (Read \/ Evaluate)
  <2>1. /\ \/ pc = "read" /\ pc' = "evaluate"
           \/ pc = "evaluate" /\ pc' = "update"
        /\ UNCHANGED <<tick_count, tick_index>>
    BY <1>7, ReadStep, EvaluateStep DEF clock
  <2>2. AfterLine' = AfterLine /\ AfterLine \in Nat
    BY <2>1, AfterLineFacts DEF AfterLine, CostOf, InLine
  <2>3. QED
    BY <2>1, <2>2 DEF StepsLeft
<1>8. CASE Update
  <2> DEFINE rest == tick_count - tick_index - 1
  <2>1. /\ pc = "update" /\ pc' = "next" /\ tick_index' = tick_index + 1
        /\ UNCHANGED tick_count
    BY <1>8, UpdateStep
  <2>2. AfterLine = 1 + CostOf(rest) /\ AfterLine \in Nat
    BY <2>1, AfterLineFacts DEF AfterLine, InLine
  <2>3. StepsLeft = AfterLine + 1 /\ StepsLeft' = 1 + CostOf(tick_count - (tick_index + 1))
    BY <2>1 DEF StepsLeft, CostOf
  <2>4. tick_count - (tick_index + 1) = rest
    BY TickTypes
  <2>5. QED
    BY <2>2, <2>3, <2>4
<1>9. QED
  BY <1>2, <1>3, <1>4, <1>5, <1>6, <1>7, <1>8
     DEF Next, Step, RefuseArguments, PrintFails, Finish, Return

LEMMA LinesLeftCorrect == Spec => []LinesLeft
<1>1. Init => LinesLeft
  BY DEF Init, LinesLeft
<1>2. QED
  BY <1>1, LinesLeftInductive, LoopCorrect, PTL DEF Spec

(* execute_profile_frames_internal() returns, however long the gaps of the *)
(* script are: every step leaves fewer steps than there were.  This is the *)
(* safety half of Termination, which the timing run checks.                *)
THEOREM EveryStepIsCounted == Spec => EveryStepCounts
<1>1. Inv /\ ClockInv /\ LinesLeft /\ [Next]_vars => [StepsLeft' < StepsLeft]_vars
  BY StepCounts
<1>2. QED
  BY <1>1, LoopCorrect, ClockCorrect, LinesLeftCorrect, PTL DEF Spec, EveryStepCounts

(* There are two steps and SensorTimeout + 5 for each line at most.        *)
THEOREM RunIsBounded == Spec => []StepsAreBounded
<1>1. Init => StepsAreBounded
  <2> SUFFICES ASSUME Init PROVE StepsAreBounded
    OBVIOUS
  <2>1. tick_count \in Nat /\ pc = "begin"
    BY RunAssumption DEF Init
  <2>2. StepsLeft = 2 + CostOf(tick_count)
    BY <2>1 DEF StepsLeft
  <2>3. QED
    BY <2>1, <2>2, CostFacts DEF StepsAreBounded
<1>2. Inv /\ ClockInv /\ LinesLeft /\ StepsAreBounded /\ [Next]_vars => StepsAreBounded'
  <2> SUFFICES ASSUME Inv, ClockInv, LinesLeft, StepsAreBounded, [Next]_vars
               PROVE  StepsAreBounded'
    OBVIOUS
  <2>1. CostOf(tick_count) \in Nat
    BY CostFacts, TickTypes
  <2>2. CASE Next
    <3>1. tick_count' = tick_count
      BY <2>2, EvaluateStep, UpdateStep, ReadStep
         DEF Next, Step, RefuseArguments, Begin, NextLine, PollGap, Ingest, PrintFails,
             Finish, clock
    <3>2. CostOf(tick_count)' = CostOf(tick_count)
      BY <3>1 DEF CostOf
    <3>3. QED
      BY <2>1, <2>2, <3>2, StepCounts DEF StepsAreBounded
  <2>3. CASE UNCHANGED vars
    <3>1. StepsLeft' = StepsLeft /\ CostOf(tick_count)' = CostOf(tick_count)
      BY <2>3 DEF vars, clock, StepsLeft, AfterLine, CostOf
    <3>2. QED
      BY <3>1 DEF StepsAreBounded
  <2>4. QED
    BY <2>2, <2>3
<1>3. QED
  BY <1>1, <1>2, LoopCorrect, ClockCorrect, LinesLeftCorrect, PTL DEF Spec
=============================================================================
