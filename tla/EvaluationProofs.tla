-------------------------- MODULE EvaluationProofs --------------------------
(***************************************************************************)
(* The safety evaluation is right for every script: the counters are the   *)
(* lengths of fault runs over the samples, no persistent fault is missed,  *)
(* none is invented, and the run implements PersistenceMonitor.            *)
(***************************************************************************)
EXTENDS ScenarioProofs

(***************************************************************************)
(* Only Evaluate adds a sample or counts a fault.                          *)
(***************************************************************************)

LEMMA StableStep ==
  ASSUME Inv, [Next]_vars, ~Evaluate
  PROVE  /\ cal' = cal
         /\ SampleCount' = SampleCount
         /\ LastResult' = LastResult
         /\ \A n \in 1..SampleCount : Sample(n)' = Sample(n)
         /\ engine'.fault_counters = engine.fault_counters
<1>1. CASE Begin
  <2>1. /\ tick_reports = << >> /\ engine \in EngineStates /\ engine.mode = "INIT"
    BY <1>1, EngineInitFacts DEF Begin, Inv, LoopInv
  <2>2. cal' = cal /\ engine'.fault_counters = engine.fault_counters
    BY <1>1, <2>1, EngineStartFacts DEF Begin
  <2>3. SampleCount = 0 /\ SampleCount' = 0
    BY <1>1, <2>1 DEF Begin, SampleCount
  <2>4. QED
    BY <2>2, <2>3 DEF LastResult
<1>2. CASE UNCHANGED <<cal, tick_reports>> /\ engine'.fault_counters = engine.fault_counters
  BY <1>2 DEF SampleCount, LastResult, Sample
<1>3. CASE PollGap
  <2>1. engine \in EngineStates /\ "SHUTDOWN" \in Modes
    BY DEF Inv, RunTypeOK, Modes
  <2> DEFINE tripped == TransitionMode(engine, "SHUTDOWN").engine
  <2>2. SafeState.fault_counters = engine.fault_counters
    <3>1. tripped \in EngineStates /\ tripped.fault_counters = engine.fault_counters
      BY <2>1, TransitionModeFacts
    <3>2. SafeState = Stopped(tripped)
      BY DEF SafeState
    <3> HIDE DEF tripped
    <3>3. QED
      BY <3>1, <3>2, StoppedFacts
  <2>3. QED
    BY <1>2, <1>3, <2>2 DEF PollGap, reporting
<1>4. CASE Read
  <2>1. engine \in EngineStates
    BY DEF Inv, RunTypeOK
  <2>2. QED
    BY <1>2, <1>4, <2>1, ReadStep, ApplySensorsFacts DEF reporting
<1>5. CASE Update
  BY <1>2, <1>5, UpdateStep DEF reporting
<1>6. CASE RefuseArguments \/ PrintFails \/ Ingest \/ Finish \/ UNCHANGED vars
  BY <1>2, <1>6 DEF RefuseArguments, PrintFails, Ingest, Finish, vars, reporting
<1>7. CASE \E gap \in Gaps, raw \in Lines : NextLine(gap, raw)
  BY <1>2, <1>7 DEF NextLine, reporting
<1>8. QED
  BY <1>1, <1>3, <1>4, <1>5, <1>6, <1>7 DEF Next, Step

(* What Evaluate does to the samples and the counters.                     *)
LEMMA SampleStep ==
  ASSUME Inv, Evaluate
  PROVE  /\ cal' = cal /\ cal \in CalibrationRecords
         /\ SampleCount \in Nat /\ SampleCount = tick_index
         /\ SampleCount < CounterCap
         /\ SampleCount' = SampleCount + 1
         /\ LastResult' = ResultOf(engine'.mode)
         /\ Sample(SampleCount)'.result = LastResult'
         /\ \A n \in 1..SampleCount : Sample(n)' = Sample(n)
         /\ \A f \in Faults : Shows(SampleCount, f)' <=> FaultActive(cal, engine, f)
<1>1. /\ tick_index \in Nat /\ Len(tick_reports) = tick_index + 1
      /\ tick_index < tick_count /\ tick_count <= MaxProfileTicks
      /\ tick_count \in Nat /\ cal \in Calibrations
  <2>1. tick_count \in Nat
    BY RunAssumption DEF Inv, RunTypeOK
  <2>2. QED
    BY <2>1, RunAssumption, EvaluateStep
       DEF Inv, RunTypeOK, LoopInv, Looping, InLine, BadArguments
<1>2. SampleCount = tick_index /\ SampleCount \in Nat
  BY <1>1 DEF SampleCount
<1>3. SampleCount < CounterCap
  BY <1>1, <1>2, RunAssumption, CounterAssumption
<1>4. SampleCount' = SampleCount + 1 /\ SampleCount' = Len(tick_reports)
  BY <1>1, <1>2, EvaluateStep DEF SampleCount
<1>5. \A n \in 1..SampleCount : Sample(n)' = Sample(n)
  BY <1>1, <1>2, EvaluateStep DEF Sample
<1>6. Sample(SampleCount)' = tick_reports'[Len(tick_reports) + 1]
  BY <1>4 DEF Sample
<1>7. cal' = cal
  BY EvaluateStep
<1>8. LastResult' = Sample(SampleCount)'.result
  BY <1>2, <1>4 DEF LastResult
<1>9. Sample(SampleCount)'.result = ResultOf(engine'.mode)
  BY <1>6, EvaluateStep
<1>10. \A f \in Faults : Shows(SampleCount, f)' <=> FaultActive(cal, engine, f)
  BY <1>6, <1>7, EvaluateStep DEF Shows
<1>11. QED
  BY <1>1, <1>2, <1>3, <1>4, <1>5, <1>7, <1>8, <1>9, <1>10, CalibrationFacts

LEMMA CounterStep ==
  ASSUME Inv, Evaluate
  PROVE  \A f \in Faults :
           /\ engine.fault_counters[f] \in Nat
           /\ engine.fault_counters[f] < CounterCap =>
                engine'.fault_counters[f] = IF FaultActive(cal, engine, f)
                                            THEN engine.fault_counters[f] + 1 ELSE 0
<1>1. engine \in EngineStates /\ cal \in CalibrationRecords
  BY SampleStep DEF Inv, RunTypeOK
<1>2. QED
  BY <1>1, EvaluateStep, UpdateFaultCountersFacts DEF EngineStates

-----------------------------------------------------------------------------
(***************************************************************************)
(* The counters count samples.                                             *)
(***************************************************************************)

LEMMA CountTypes ==
  ASSUME Inv
  PROVE  /\ SampleCount \in Nat
         /\ \A f \in Faults : engine.fault_counters[f] \in Nat
         /\ \A f \in Faults : cal.persistence[f] \in Nat \ {0}
         /\ LastResult \in Results
<1>1. engine \in EngineStates /\ cal \in Calibrations /\ tick_reports \in Seq(Reports)
  BY DEF Inv, RunTypeOK
<1>2. SampleCount \in Nat
  BY <1>1 DEF SampleCount
<1>3. \A f \in Faults : engine.fault_counters[f] \in Nat
  BY <1>1 DEF EngineStates
<1>4. \A f \in Faults : cal.persistence[f] \in Nat \ {0}
  <2>1. cal \in CalibrationRecords /\ \A f \in Faults : cal.persistence[f] # 0
    BY <1>1, RunAssumption DEF CalibrationValid
  <2>2. QED
    BY <2>1 DEF CalibrationRecords
<1>5. LastResult \in Results
  <2>1. CASE SampleCount = 0
    BY <2>1 DEF LastResult, Results
  <2>2. CASE SampleCount # 0
    <3>1. SampleCount + 1 \in 1..Len(tick_reports)
      BY <1>1, <1>2, <2>2 DEF SampleCount
    <3>2. tick_reports[SampleCount + 1] \in Reports
      BY <1>1, <3>1
    <3>3. QED
      BY <2>2, <3>2 DEF LastResult, Sample, Reports
  <2>3. QED
    BY <2>1, <2>2
<1>6. QED
  BY <1>2, <1>3, <1>4, <1>5

(* The faults old samples show do not change, with or without a new one.   *)
LEMMA ShownStays ==
  ASSUME Inv, [Next]_vars
  PROVE  \A f \in Faults : \A n \in 1..SampleCount : Shows(n, f)' <=> Shows(n, f)
<1>1. cal' = cal /\ \A n \in 1..SampleCount : Sample(n)' = Sample(n)
  BY StableStep, SampleStep
<1>2. QED
  BY <1>1 DEF Shows

LEMMA NewSampleShows ==
  ASSUME Inv, Evaluate, NEW f \in Faults, NEW n \in Nat, n = SampleCount + 1
  PROVE  Shows(n, f)' <=> FaultActive(cal, engine, f)
<1>1. n = SampleCount'
  BY SampleStep
<1>2. Shows(n, f)' <=> Shows(SampleCount, f)'
  BY <1>1 DEF Shows, Sample
<1>3. QED
  BY <1>2, SampleStep

LEMMA CountersStay ==
  ASSUME Inv, CountersMatchReports, [Next]_vars, ~Evaluate
  PROVE  CountersMatchReports'
<1> SUFFICES ASSUME NEW f \in Faults
             PROVE  TrailingRun(f, engine.fault_counters[f])'
  BY DEF CountersMatchReports
<1> DEFINE c == engine.fault_counters[f]
<1>1. /\ SampleCount \in Nat /\ c \in Nat
      /\ SampleCount' = SampleCount /\ c' = c
      /\ \A n \in 1..SampleCount : Shows(n, f)' <=> Shows(n, f)
  BY CountTypes, StableStep, ShownStays
<1>2. TrailingRun(f, c)
  BY DEF CountersMatchReports
<1> HIDE DEF c
<1>3. TrailingRun(f, c)'
  BY <1>1, <1>2 DEF TrailingRun, AllShow
<1>4. QED
  BY <1>3 DEF c

LEMMA CountersCount ==
  ASSUME Inv, CountersMatchReports, Evaluate
  PROVE  CountersMatchReports'
<1> SUFFICES ASSUME NEW f \in Faults,
                    NEW n \in Nat, n = SampleCount,
                    NEW c \in Nat, c = engine.fault_counters[f]
             PROVE  TrailingRun(f, engine.fault_counters[f])'
  BY CountTypes DEF CountersMatchReports
<1> DEFINE Old(k) == Shows(k, f)
           New(k) == Shows(k, f)'
<1>1. /\ c <= n
      /\ c < n => ~Old(n - c)
      /\ \A k \in 1..n : n - c + 1 <= k /\ k <= n => Old(k)
  BY DEF CountersMatchReports, TrailingRun, AllShow
<1>2. n < CounterCap /\ SampleCount' = n + 1
  BY SampleStep
<1>3. PICK d \in Nat : /\ d = engine'.fault_counters[f]
                       /\ d = IF FaultActive(cal, engine, f) THEN c + 1 ELSE 0
  BY <1>1, <1>2, CounterStep, CounterAssumption
<1>4. \A k \in 1..n : New(k) <=> Old(k)
  BY ShownStays DEF Next, Step
<1>5. New(n + 1) <=> FaultActive(cal, engine, f)
  BY NewSampleShows
<1>6. /\ d <= n + 1
      /\ d < n + 1 => ~New(n + 1 - d)
      /\ \A k \in 1..(n + 1) : n + 1 - d + 1 <= k /\ k <= n + 1 => New(k)
  <2> HIDE DEF Old, New
  <2>1. CASE FaultActive(cal, engine, f)
    <3>1. d = c + 1 /\ n + 1 - d = n - c /\ n + 1 - d + 1 = n - c + 1
      BY <1>3, <2>1
    <3>2. d < n + 1 => n - c \in 1..n
      BY <3>1
    <3>3. \A k \in 1..(n + 1) : n - c + 1 <= k => New(k)
      BY <1>1, <1>4, <1>5, <2>1
    <3>4. QED
      BY <1>1, <1>4, <3>1, <3>2, <3>3
  <2>2. CASE ~FaultActive(cal, engine, f)
    BY <1>1, <1>3, <1>4, <1>5, <2>2
  <2>3. QED
    BY <2>1, <2>2
<1>7. QED
  BY <1>2, <1>3, <1>6 DEF TrailingRun, AllShow, Shows, Sample

(* Each fault counter is the length of the latest run of samples showing   *)
(* its fault (CountersMatchReports of the timing run), for every script,   *)
(* calibration and plant.                                                  *)
THEOREM CountersCorrect == Spec => []CountersMatchReports
<1>1. Init => CountersMatchReports
  <2> SUFFICES ASSUME Init, NEW f \in Faults
               PROVE  TrailingRun(f, engine.fault_counters[f])
    BY DEF CountersMatchReports
  <2>1. engine.fault_counters[f] = 0 /\ SampleCount = 0
    BY DEF Init, EngineInit, SampleCount
  <2>2. QED
    BY <2>1 DEF TrailingRun, AllShow
<1>2. Inv /\ CountersMatchReports /\ [Next]_vars => CountersMatchReports'
  BY CountersStay, CountersCount
<1>3. QED
  BY <1>1, <1>2, LoopCorrect, PTL DEF Spec

-----------------------------------------------------------------------------
(***************************************************************************)
(* The alarm.                                                              *)
(***************************************************************************)

(* How one evaluation moves the mode, in terms of the counters it leaves.  *)
LEMMA EscalationStep ==
  ASSUME Inv, Evaluate
  PROVE  \E code \in {"OK", "WARNING", "SHUTDOWN"} :
           /\ engine'.mode = RequestedMode(engine.mode, code)
           /\ code = "SHUTDOWN" <=>
                \E f \in ShutdownFaults : engine'.fault_counters[f] >= cal.persistence[f]
           /\ code = "OK" <=>
                \A f \in Faults : engine'.fault_counters[f] < cal.persistence[f]
<1> DEFINE counted == UpdateFaultCounters(cal, engine)
           code == EvaluationCode(cal, counted)
<1>1. /\ engine'.mode = RequestedMode(engine.mode, code)
      /\ engine'.fault_counters = counted.fault_counters
  BY EvaluateStep
<1>2. \A f \in Faults : /\ engine'.fault_counters[f] \in Nat
                        /\ cal.persistence[f] \in Nat
                        /\ Persistent(cal, counted, f)
                             <=> engine'.fault_counters[f] >= cal.persistence[f]
  BY <1>1, CountTypes, EvaluateStep DEF Persistent, EngineStates
<1> HIDE DEF counted
<1>3. Faults = ShutdownFaults \cup {"COMBINED"}
  BY DEF Faults, ShutdownFaults
<1>4. /\ code \in {"OK", "WARNING", "SHUTDOWN"}
      /\ code = "SHUTDOWN" <=> \E f \in ShutdownFaults : Persistent(cal, counted, f)
      /\ code = "OK" <=> \A f \in Faults : ~Persistent(cal, counted, f)
  <2>1. CASE \E f \in ShutdownFaults : Persistent(cal, counted, f)
    BY <1>3, <2>1 DEF EvaluationCode
  <2>2. CASE /\ \A f \in ShutdownFaults : ~Persistent(cal, counted, f)
             /\ Persistent(cal, counted, "COMBINED")
    BY <1>3, <2>2 DEF EvaluationCode
  <2>3. CASE /\ \A f \in ShutdownFaults : ~Persistent(cal, counted, f)
             /\ ~Persistent(cal, counted, "COMBINED")
    BY <1>3, <2>3 DEF EvaluationCode
  <2>4. QED
    BY <2>1, <2>2, <2>3
<1> HIDE DEF code
<1>5. QED
  BY <1>1, <1>2, <1>3, <1>4

(* The mode an evaluation starts from, and the result seen so far.         *)
LEMMA ModeBefore ==
  ASSUME Inv, Evaluate
  PROVE  /\ LastResult = ResultOf(engine.mode)
         /\ engine.mode \in IF SampleCount = 0 THEN {"STARTING"}
                            ELSE {"RUNNING", "WARNING", "SHUTDOWN"}
         /\ SampleCount # 0 => Sample(SampleCount).result = LastResult
<1>1. pc = "evaluate" /\ SampleCount = tick_index
  BY EvaluateStep, SampleStep
<1>2. QED
  BY <1>1 DEF Inv, LoopInv, Looping, LastResult

-----------------------------------------------------------------------------
(* No fault is missed.                                                     *)

LEMMA NoticedInductive ==
  ASSUME Inv, NoticedInv, [Next]_vars
  PROVE  NoticedInv'
<1> SUFFICES ASSUME NEW f \in ShutdownFaults,
                    SampleCount' >= 2,
                    engine'.fault_counters[f] >= cal'.persistence[f]
             PROVE  LastResult' # "OK"
  BY DEF NoticedInv
<1>1. CASE ~Evaluate
  BY <1>1, StableStep DEF NoticedInv
<1>2. CASE Evaluate
  <2>1. SampleCount \in Nat /\ SampleCount # 0 /\ cal' = cal
    BY <1>2, SampleStep
  <2>2. engine'.mode = RequestedMode(engine.mode, "SHUTDOWN")
    BY <1>2, <2>1, EscalationStep
  <2>3. engine.mode \in {"RUNNING", "WARNING", "SHUTDOWN"}
    BY <1>2, <2>1, ModeBefore
  <2>4. LastResult' = ResultOf(engine'.mode)
    BY <1>2, SampleStep
  <2>5. QED
    BY <2>2, <2>3, <2>4 DEF RequestedMode, ResultOf, Severe
<1>3. QED
  BY <1>1, <1>2

LEMMA StoppedInductive ==
  ASSUME Inv, CountersMatchReports, NoticedInv, StoppedInv, [Next]_vars
  PROVE  StoppedInv'
<1> SUFFICES ASSUME NEW f \in ShutdownFaults,
                    SampleCount' >= 3,
                    engine'.fault_counters[f] > cal'.persistence[f]
             PROVE  LastResult' = "SHUTDOWN"
  BY DEF StoppedInv
<1>0. f \in Faults
  BY DEF Faults, ShutdownFaults
<1>1. CASE ~Evaluate
  BY <1>1, StableStep DEF StoppedInv
<1>2. CASE Evaluate
  <2>1. /\ SampleCount \in Nat /\ SampleCount >= 2 /\ cal' = cal
        /\ SampleCount < CounterCap
    BY <1>2, SampleStep
  <2>2. engine.fault_counters[f] < CounterCap
    BY <1>0, <2>1, CountTypes, CounterAssumption DEF CountersMatchReports, TrailingRun
  <2>3. engine.fault_counters[f] >= cal.persistence[f]
    BY <1>0, <1>2, <2>1, <2>2, CountTypes, CounterStep
  <2>4. LastResult # "OK"
    BY <2>1, <2>3 DEF NoticedInv
  <2>5. engine.mode \in {"WARNING", "SHUTDOWN"}
    BY <1>2, <2>1, <2>4, ModeBefore DEF ResultOf, Severe
  <2>6. engine'.fault_counters[f] >= cal.persistence[f]
    BY <1>0, <1>2, <2>1, <2>2, CountTypes, CounterStep
  <2>7. engine'.mode = RequestedMode(engine.mode, "SHUTDOWN")
    BY <1>2, <2>6, EscalationStep
  <2>8. LastResult' = ResultOf(engine'.mode)
    BY <1>2, SampleStep
  <2>9. QED
    BY <2>5, <2>7, <2>8 DEF RequestedMode, ResultOf, Severe
<1>3. QED
  BY <1>1, <1>2

LEMMA StoppedMeansNoMiss ==
  ASSUME Inv, CountersMatchReports, StoppedInv
  PROVE  NoMissedShutdown
<1> SUFFICES ASSUME NEW f \in ShutdownFaults,
                    SampleCount >= 3, SampleCount > cal.persistence[f],
                    AllShow(SampleCount - cal.persistence[f], SampleCount, f)
             PROVE  LastResult = "SHUTDOWN"
  BY DEF NoMissedShutdown
<1> DEFINE c == engine.fault_counters[f]
           p == cal.persistence[f]
<1>1. /\ f \in Faults /\ SampleCount \in Nat /\ c \in Nat /\ p \in Nat \ {0}
      /\ TrailingRun(f, c)
  BY CountTypes DEF Faults, ShutdownFaults, CountersMatchReports
<1>2. c > p
  <2> SUFFICES ASSUME c <= p PROVE FALSE
    BY <1>1
  <2>1. SampleCount - c \in 1..SampleCount /\ SampleCount - p <= SampleCount - c
    BY <1>1
  <2>2. Shows(SampleCount - c, f)
    BY <2>1 DEF AllShow
  <2>3. QED
    BY <1>1, <2>2 DEF TrailingRun
<1>3. QED
  BY <1>2 DEF StoppedInv

(* evaluate_engine() never sleeps through a fault (NoMissedShutdown of the *)
(* fault run): from the third sample on, a shutdown fault shown by one     *)
(* sample more than its persistence has stopped the engine.                *)
THEOREM FaultsAreNotMissed == Spec => []NoMissedShutdown
<1>1. Init => NoticedInv /\ StoppedInv
  BY DEF Init, NoticedInv, StoppedInv, SampleCount
<1>2. Inv /\ CountersMatchReports /\ NoticedInv /\ StoppedInv /\ [Next]_vars
        => NoticedInv' /\ StoppedInv'
  BY NoticedInductive, StoppedInductive
<1>3. Inv /\ CountersMatchReports /\ StoppedInv => NoMissedShutdown
  BY StoppedMeansNoMiss
<1>4. QED
  BY <1>1, <1>2, <1>3, LoopCorrect, CountersCorrect, PTL DEF Spec

-----------------------------------------------------------------------------
(* No shutdown is invented.                                                *)

LEMMA NoFalseInductive ==
  ASSUME Inv, CountersMatchReports, CountersMatchReports', NoFalseShutdown, [Next]_vars
  PROVE  NoFalseShutdown'
<1> SUFFICES ASSUME LastResult' = "SHUTDOWN"
             PROVE  \E n \in 2..SampleCount', f \in ShutdownFaults :
                      /\ n >= cal'.persistence[f]
                      /\ \A k \in 1..SampleCount' :
                           n - cal'.persistence[f] + 1 <= k /\ k <= n => Shows(k, f)'
                      /\ Sample(n - 1)'.result = "WARNING"
                      /\ Sample(n)'.result = "SHUTDOWN"
  BY DEF NoFalseShutdown, AllShow
<1> ShutdownFaults \subseteq Faults
  BY DEF Faults, ShutdownFaults
<1>0. /\ SampleCount \in Nat /\ SampleCount' \in Nat /\ SampleCount <= SampleCount'
      /\ cal' = cal
      /\ \A n \in 1..SampleCount : Sample(n)' = Sample(n)
  BY CountTypes, StableStep, SampleStep
<1>1. CASE LastResult = "SHUTDOWN"
  <2>1. PICK n \in 2..SampleCount, f \in ShutdownFaults :
          /\ n >= cal.persistence[f]
          /\ AllShow(n - cal.persistence[f] + 1, n, f)
          /\ Sample(n - 1).result = "WARNING" /\ Sample(n).result = "SHUTDOWN"
    BY <1>1 DEF NoFalseShutdown
  <2>2. n \in 2..SampleCount' /\ n \in 1..SampleCount /\ n - 1 \in 1..SampleCount
    BY <1>0
  <2>3. Sample(n - 1)'.result = "WARNING" /\ Sample(n)'.result = "SHUTDOWN"
    BY <1>0, <2>1, <2>2
  <2>4. \A k \in 1..SampleCount' :
          n - cal'.persistence[f] + 1 <= k /\ k <= n => Shows(k, f)'
    <3> SUFFICES ASSUME NEW k \in 1..SampleCount',
                        n - cal.persistence[f] + 1 <= k, k <= n
                 PROVE  Shows(k, f)'
      BY <1>0
    <3>1. k \in 1..SampleCount
      BY <1>0, <2>2
    <3>2. Shows(k, f)
      BY <2>1, <3>1 DEF AllShow
    <3>3. QED
      BY <3>1, <3>2, ShownStays
  <2>5. QED
    BY <1>0, <2>1, <2>2, <2>3, <2>4
<1>2. CASE LastResult # "SHUTDOWN"
  <2>1. Evaluate
    BY <1>2, StableStep
  <2>2. PICK m \in Nat : m = SampleCount
    BY <1>0
  <2>3. /\ SampleCount' = m + 1
        /\ LastResult' = ResultOf(engine'.mode)
        /\ Sample(SampleCount)'.result = LastResult'
    BY <2>1, <2>2, SampleStep
  <2>4. /\ LastResult = ResultOf(engine.mode)
        /\ engine.mode \in IF m = 0 THEN {"STARTING"}
                           ELSE {"RUNNING", "WARNING", "SHUTDOWN"}
        /\ m # 0 => Sample(m).result = LastResult
    BY <2>1, <2>2, ModeBefore
  <2>5. engine.mode = "WARNING" /\ \E f \in ShutdownFaults :
                                    engine'.fault_counters[f] >= cal.persistence[f]
    BY <1>2, <2>1, <2>3, <2>4, EscalationStep DEF RequestedMode, ResultOf, Severe
  <2>6. PICK f \in ShutdownFaults : engine'.fault_counters[f] >= cal.persistence[f]
    BY <2>5
  <2>7. PICK c \in Nat : /\ c = engine'.fault_counters[f]
                         /\ c \in Nat
    BY <2>1, EvaluateStep DEF EngineStates
  <2>8. TrailingRun(f, engine.fault_counters[f])'
    BY DEF CountersMatchReports
  <2>9. /\ c <= m + 1
        /\ \A k \in 1..(m + 1) : m + 1 - c + 1 <= k /\ k <= m + 1 => Shows(k, f)'
    BY <2>3, <2>7, <2>8 DEF TrailingRun, AllShow
  <2>10. m # 0 /\ Sample(m).result = "WARNING"
    BY <2>4, <2>5 DEF ResultOf, Severe
  <2>11. Sample(m)'.result = "WARNING"
    BY <1>0, <2>2, <2>10
  <2>12. Sample(m + 1)'.result = "SHUTDOWN"
    BY <2>3 DEF Sample
  <2>13. PICK p \in Nat : p = cal.persistence[f]
    BY CountTypes
  <2>14. /\ m + 1 >= p
         /\ \A k \in 1..(m + 1) : m + 1 - p + 1 <= k /\ k <= m + 1 => Shows(k, f)'
    BY <2>6, <2>7, <2>9, <2>13
  <2>15. m + 1 \in 2..SampleCount' /\ m + 1 - 1 = m
    BY <2>3, <2>10
  <2>16. QED
    BY <1>0, <2>3, <2>11, <2>12, <2>13, <2>14, <2>15
<1>3. QED
  BY <1>1, <1>2

(* evaluate_engine() never cries wolf (NoFalseShutdown of the fault run):  *)
(* a SHUTDOWN result was preceded by a WARNING and by as many samples      *)
(* showing a shutdown fault as its persistence asks.                       *)
THEOREM ShutdownsAreFounded == Spec => []NoFalseShutdown
<1>1. Init => NoFalseShutdown
  BY DEF Init, NoFalseShutdown, LastResult, SampleCount
<1>2. Inv /\ CountersMatchReports /\ CountersMatchReports' /\ NoFalseShutdown /\ [Next]_vars
        => NoFalseShutdown'
  BY NoFalseInductive
<1>3. QED
  BY <1>1, <1>2, LoopCorrect, CountersCorrect, PTL DEF Spec

-----------------------------------------------------------------------------
(* The run implements the monitor.                                         *)

History == [n \in 1..SampleCount |-> {f \in Faults : Shows(n, f)}]

LEMMA HistoryFacts ==
  ASSUME Inv
  PROVE  /\ History \in Seq(SUBSET Faults) /\ Len(History) = SampleCount
         /\ \A n \in 1..SampleCount : History[n] = {f \in Faults : Shows(n, f)}
<1>1. SampleCount \in Nat
  BY CountTypes
<1>2. QED
  BY <1>1 DEF History

(* Two sequences of the same length and elements are the same.             *)
LEMMA SameSequence ==
  ASSUME NEW S, NEW s \in Seq(S), NEW t \in Seq(S), Len(s) = Len(t),
         \A i \in 1..Len(s) : s[i] = t[i]
  PROVE  s = t
OBVIOUS

LEMMA HistoryStays ==
  ASSUME Inv, Inv', [Next]_vars, ~Evaluate
  PROVE  UNCHANGED <<cal.persistence, History, LastResult>>
<1>1. /\ cal' = cal /\ LastResult' = LastResult
      /\ SampleCount' = SampleCount /\ SampleCount \in Nat
      /\ \A f \in Faults : \A n \in 1..SampleCount : Shows(n, f)' <=> Shows(n, f)
  BY CountTypes, StableStep, ShownStays
<1>2. \A n \in 1..SampleCount :
        {f \in Faults : Shows(n, f)'} = {f \in Faults : Shows(n, f)}
  BY <1>1
<1>3. [n \in 1..SampleCount |-> {f \in Faults : Shows(n, f)'}] = History
  BY <1>2 DEF History
<1>4. History' = History
  BY <1>1, <1>3 DEF History
<1>5. QED
  BY <1>1, <1>4

LEMMA HistoryGrows ==
  ASSUME Inv, Inv', Evaluate
  PROVE  History' = Append(History, {f \in Faults : FaultActive(cal, engine, f)})
<1> DEFINE shown == {f \in Faults : FaultActive(cal, engine, f)}
<1>1. PICK m \in Nat : m = SampleCount
  BY CountTypes
<1>2. SampleCount' = m + 1
  BY <1>1, SampleStep
<1>3. /\ History' \in Seq(SUBSET Faults) /\ Len(History') = m + 1
      /\ \A n \in 1..(m + 1) : History'[n] = {f \in Faults : Shows(n, f)'}
  BY <1>2, CountTypes DEF History
<1>4. /\ Append(History, shown) \in Seq(SUBSET Faults)
      /\ Len(Append(History, shown)) = m + 1
      /\ \A n \in 1..m : Append(History, shown)[n] = {f \in Faults : Shows(n, f)}
      /\ Append(History, shown)[m + 1] = shown
  BY <1>1, HistoryFacts
<1>5. \A n \in 1..(m + 1) : History'[n] = Append(History, shown)[n]
  <2> SUFFICES ASSUME NEW n \in 1..(m + 1)
               PROVE  {f \in Faults : Shows(n, f)'} = Append(History, shown)[n]
    BY <1>3
  <2>1. CASE n = m + 1
    <3>1. \A f \in Faults : Shows(n, f)' <=> FaultActive(cal, engine, f)
      BY <1>1, <2>1, NewSampleShows
    <3>2. QED
      BY <1>4, <2>1, <3>1
  <2>2. CASE n # m + 1
    <3>1. n \in 1..m
      BY <2>2
    <3>2. \A f \in Faults : Shows(n, f)' <=> Shows(n, f)
      BY <1>1, <3>1, ShownStays DEF Next, Step
    <3>3. QED
      BY <1>4, <3>1, <3>2
  <2>3. QED
    BY <2>1, <2>2
<1> HIDE DEF shown
<1>6. QED
  BY <1>3, <1>4, <1>5, SameSequence DEF shown

(* A window of the last p elements is full exactly when the trailing run   *)
(* of c elements reaches it.                                               *)
LEMMA WindowCount ==
  ASSUME NEW f \in Faults, NEW h \in Seq(SUBSET Faults),
         NEW c \in Nat, c <= Len(h),
         \A k \in 1..Len(h) : Len(h) - c + 1 <= k => f \in h[k],
         c < Len(h) => f \notin h[Len(h) - c],
         cal.persistence[f] \in Nat \ {0}
  PROVE  Monitor!Persisted(h, f) <=> c >= cal.persistence[f]
<1>1. PICK p \in Nat \ {0} : p = cal.persistence[f]
  OBVIOUS
<1>2. PICK m \in Nat : m = Len(h)
  OBVIOUS
<1>3. CASE c >= p
  BY <1>1, <1>2, <1>3 DEF Monitor!Persisted
<1>4. CASE c < p
  <2> SUFFICES ASSUME m >= p PROVE \E i \in 1..m : i > m - p /\ f \notin h[i]
    BY <1>1, <1>2, <1>4 DEF Monitor!Persisted
  <2>1. m - c \in 1..m /\ m - c > m - p
    BY <1>2, <1>4
  <2>2. QED
    BY <1>2, <1>4, <2>1
<1>5. QED
  BY <1>1, <1>3, <1>4

LEMMA PersistedIsCounted ==
  ASSUME Inv, Inv', Evaluate, CountersMatchReports', NEW f \in Faults
  PROVE  Monitor!Persisted(History', f)
           <=> engine'.fault_counters[f] >= cal.persistence[f]
<1>1. PICK m \in Nat : m = SampleCount'
  BY CountTypes, SampleStep
<1>2. PICK c \in Nat : c = engine'.fault_counters[f]
  BY EvaluateStep DEF EngineStates
<1>3. /\ History' \in Seq(SUBSET Faults) /\ Len(History') = m
      /\ \A n \in 1..m : History'[n] = {g \in Faults : Shows(n, g)'}
  BY <1>1 DEF History
<1>4. TrailingRun(f, engine.fault_counters[f])'
  BY DEF CountersMatchReports
<1>5. c <= m
  BY <1>1, <1>2, <1>4 DEF TrailingRun
<1>6. \A k \in 1..m : m - c + 1 <= k => Shows(k, f)'
  BY <1>1, <1>2, <1>4 DEF TrailingRun, AllShow
<1>7. c < m => \A k \in 1..m : k = m - c => ~Shows(k, f)'
  <2> SUFFICES ASSUME c < m, NEW k \in 1..m, k = m - c
               PROVE  ~Shows(k, f)'
    OBVIOUS
  <2>1. ~Shows(SampleCount - engine.fault_counters[f], f)'
    BY <1>1, <1>2, <1>4 DEF TrailingRun
  <2>2. Shows(k, f)' <=> Shows(SampleCount - engine.fault_counters[f], f)'
    BY <1>1, <1>2 DEF Shows, Sample
  <2>3. QED
    BY <2>1, <2>2
<1>8. PICK h \in Seq(SUBSET Faults) : h = History'
  BY <1>3
<1>9. /\ Len(h) = m
      /\ \A k \in 1..m : m - c + 1 <= k => f \in h[k]
      /\ c < m => f \notin h[m - c]
  BY <1>3, <1>6, <1>7, <1>8
<1>10. Monitor!Persisted(h, f) <=> c >= cal.persistence[f]
  BY <1>5, <1>9, CountTypes, WindowCount
<1>11. QED
  BY <1>2, <1>8, <1>10

LEMMA MonitorObserves ==
  ASSUME Inv, Inv', CountersMatchReports', Evaluate
  PROVE  Monitor!Next
<1> DEFINE shown == {f \in Faults : FaultActive(cal, engine, f)}
<1>1. History' = Append(History, shown) /\ shown \in SUBSET Faults
  BY HistoryGrows
<1>2. cal'.persistence = cal.persistence
  BY SampleStep
<1>3. LastResult' = Monitor!Raised(History')
  <2>1. PICK code \in {"OK", "WARNING", "SHUTDOWN"} :
          /\ engine'.mode = RequestedMode(engine.mode, code)
          /\ code = "SHUTDOWN" <=>
               \E f \in ShutdownFaults : Monitor!Persisted(History', f)
          /\ code = "OK" <=> \A f \in Faults : ~Monitor!Persisted(History', f)
    <3>1. \A f \in Faults : /\ engine'.fault_counters[f] \in Nat
                            /\ cal.persistence[f] \in Nat
      BY CountTypes, EvaluateStep DEF EngineStates
    <3>2. ShutdownFaults \subseteq Faults
      BY DEF Faults, ShutdownFaults
    <3>3. QED
      BY <3>1, <3>2, EscalationStep, PersistedIsCounted
  <2>2. PICK m \in Nat : m = SampleCount
    BY CountTypes
  <2>3. Len(History') = m + 1
    BY <2>2, SampleStep DEF History
  <2>4. /\ LastResult = ResultOf(engine.mode)
        /\ LastResult' = ResultOf(engine'.mode)
        /\ engine.mode \in IF m = 0 THEN {"STARTING"}
                           ELSE {"RUNNING", "WARNING", "SHUTDOWN"}
    BY <2>2, ModeBefore, SampleStep
  <2>5. ShutdownFaults \subseteq Faults
    BY DEF Faults, ShutdownFaults
  <2>6. CASE m = 0
    BY <2>1, <2>3, <2>4, <2>6 DEF Monitor!Raised, RequestedMode, ResultOf, Severe
  <2>7. CASE m # 0 /\ engine.mode = "RUNNING"
    BY <2>1, <2>3, <2>4, <2>7 DEF Monitor!Raised, RequestedMode, ResultOf, Severe
  <2>8. CASE m # 0 /\ engine.mode = "WARNING"
    BY <2>1, <2>3, <2>4, <2>5, <2>8 DEF Monitor!Raised, RequestedMode, ResultOf, Severe
  <2>9. CASE m # 0 /\ engine.mode = "SHUTDOWN"
    BY <2>1, <2>3, <2>4, <2>9 DEF Monitor!Raised, RequestedMode, ResultOf, Severe
  <2>10. QED
    BY <2>4, <2>6, <2>7, <2>8, <2>9
<1> HIDE DEF shown
<1>4. QED
  BY <1>1, <1>2, <1>3 DEF Monitor!Next, Monitor!Observe, History

(* Counters, modes, frames, gaps and timeouts implement windows over the   *)
(* samples (ImplementsMonitor of the fault run): what the reports show of  *)
(* any run of evaluate_engine() and the loop around it is a behaviour of   *)
(* PersistenceMonitor.                                                     *)
THEOREM RunImplementsMonitor == Spec => ImplementsMonitor
<1>1. Init => Monitor!Init
  <2> SUFFICES ASSUME Init PROVE Monitor!Init
    OBVIOUS
  <2>1. cal.persistence \in [Faults -> Nat \ {0}]
    <3>1. cal \in CalibrationRecords /\ \A f \in Faults : cal.persistence[f] # 0
      BY RunAssumption DEF Init, CalibrationValid
    <3>2. QED
      BY <3>1 DEF CalibrationRecords
  <2>2. SampleCount = 0
    BY DEF Init, SampleCount
  <2>3. History = << >>
    BY <2>2 DEF History
  <2>4. QED
    BY <2>1, <2>2, <2>3 DEF Monitor!Init, History, LastResult
<1>2. Inv /\ Inv' /\ CountersMatchReports' /\ [Next]_vars => [Monitor!Next]_(Monitor!vars)
  <2> SUFFICES ASSUME Inv, Inv', CountersMatchReports', [Next]_vars
               PROVE  Monitor!Next \/ UNCHANGED Monitor!vars
    OBVIOUS
  <2>1. CASE Evaluate
    BY <2>1, MonitorObserves
  <2>2. CASE ~Evaluate
    BY <2>2, HistoryStays DEF Monitor!vars, History
  <2>3. QED
    BY <2>1, <2>2
<1>3. QED
  BY <1>1, <1>2, LoopCorrect, CountersCorrect, PTL DEF Spec, ImplementsMonitor, Monitor!Spec

-----------------------------------------------------------------------------
(* The mode climbs.                                                        *)

LEMMA ClimbStep ==
  ASSUME Inv, [Next]_vars, engine'.mode # engine.mode
  PROVE  \/ Rung[engine'.mode] = Rung[engine.mode] + 1
         \/ engine'.mode = "SHUTDOWN" /\ link'.last_error.code = "TIMEOUT"
<1>0. /\ Rung["INIT"] = 0 /\ Rung["STARTING"] = 1 /\ Rung["RUNNING"] = 2
      /\ Rung["WARNING"] = 3 /\ Rung["SHUTDOWN"] = 4
  BY DEF Rung, Modes
<1> engine \in EngineStates /\ link \in Links /\ sim_tick \in Nat
  BY DEF Inv, RunTypeOK
<1>1. CASE Begin
  <2>1. engine.mode = "INIT"
    BY <1>1, EngineInitFacts DEF Begin, Inv, LoopInv
  <2>2. QED
    BY <1>0, <1>1, <2>1, EngineStartFacts DEF Begin
<1>2. CASE PollGap
  <2>1. /\ pc = "ingest" /\ link' = AfterRead(link, sim_tick)
        /\ ReadStatus(link, sim_tick) = "TIMEOUT" /\ engine' = SafeState
    BY <1>2 DEF PollGap
  <2>2. link.rx = << >> /\ engine.mode \in {"STARTING", "RUNNING", "WARNING", "SHUTDOWN"}
    BY <2>1 DEF Inv, LoopInv, Looping
  <2>3. link'.last_error.code = "TIMEOUT"
    BY <2>1, <2>2, PollFacts
  <2> DEFINE t == TransitionMode(engine, "SHUTDOWN").engine
  <2>4. t \in EngineStates /\ t.mode = "SHUTDOWN"
    BY <2>2, TransitionModeFacts DEF LegalTransition, LegalSteps, Modes
  <2>5. engine' = Stopped(t)
    BY <2>1 DEF SafeState
  <2> HIDE DEF t
  <2>6. QED
    BY <2>3, <2>4, <2>5, StoppedFacts
<1>3. CASE Read
  BY <1>3, ReadStep, ApplySensorsFacts
<1>4. CASE Evaluate
  <2>1. PICK code \in {"OK", "WARNING", "SHUTDOWN"} :
          engine'.mode = RequestedMode(engine.mode, code)
    BY <1>4, EscalationStep
  <2>2. QED
    BY <1>0, <2>1 DEF RequestedMode, Severe
<1>5. CASE Update
  BY <1>0, <1>5, UpdateStep
<1>6. CASE RefuseArguments \/ PrintFails \/ Ingest \/ Finish \/ UNCHANGED vars
  BY <1>6 DEF RefuseArguments, PrintFails, Ingest, Finish, vars
<1>7. CASE \E gap \in Gaps, raw \in Lines : NextLine(gap, raw)
  BY <1>7 DEF NextLine
<1>8. QED
  BY <1>1, <1>2, <1>3, <1>4, <1>5, <1>6, <1>7 DEF Next, Step

(* Outside a sensor timeout the mode climbs one rung at a time and never   *)
(* comes back (ModeClimbs of the fault run).                               *)
THEOREM ModeOnlyClimbs == Spec => ModeClimbs
<1>1. Inv /\ [Next]_vars =>
        [engine'.mode # engine.mode =>
           \/ Rung[engine'.mode] = Rung[engine.mode] + 1
           \/ engine'.mode = "SHUTDOWN" /\ link'.last_error.code = "TIMEOUT"]_vars
  BY ClimbStep
<1>2. QED
  BY <1>1, LoopCorrect, PTL DEF Spec, ModeClimbs

-----------------------------------------------------------------------------
(* What a run that ends normally leaves behind.                            *)

(* In SHUTDOWN the plant stands still whenever a tick is complete.         *)
StandsStill == pc = "next" /\ engine.mode = "SHUTDOWN" =>
                 engine.is_running = 0 /\ engine.rpm = 0

LEMMA StandsStillInductive ==
  ASSUME Inv, StandsStill, [Next]_vars
  PROVE  StandsStill'
<1> SUFFICES ASSUME pc' = "next" PROVE StandsStill'
  BY DEF StandsStill
<1>1. CASE Begin
  <2>1. engine.mode = "INIT" /\ engine \in EngineStates
    BY <1>1, EngineInitFacts DEF Begin, Inv, LoopInv
  <2>2. engine'.mode = "STARTING"
    BY <1>1, <2>1, EngineStartFacts DEF Begin
  <2>3. QED
    BY <2>2 DEF StandsStill
<1>2. CASE Update
  BY <1>2, UpdateStep DEF StandsStill
<1>3. CASE UNCHANGED vars
  BY <1>3 DEF StandsStill, vars
<1>4. ~(\/ RefuseArguments \/ PrintFails \/ PollGap \/ Ingest \/ Read \/ Evaluate \/ Finish
        \/ \E gap \in Gaps, raw \in Lines : NextLine(gap, raw))
  BY ReadStep, EvaluateStep
     DEF RefuseArguments, PrintFails, PollGap, Ingest, Finish, NextLine, Return, Continue
<1>5. QED
  BY <1>1, <1>2, <1>3, <1>4 DEF Next, Step

LEMMA EndStep ==
  ASSUME Inv, StandsStill, NormalEndIsConsistent, [Next]_vars
  PROVE  NormalEndIsConsistent'
<1> SUFFICES ASSUME outcome' \in Results, ~TimedOut'
             PROVE  NormalEndIsConsistent'
  BY DEF NormalEndIsConsistent
<1>1. CASE Finish
  <2>1. /\ pc = "next" /\ tick_index >= tick_count
        /\ tick_index \in 0..tick_count /\ tick_count \in Nat
        /\ Len(tick_reports) = tick_index + 1
        /\ LastResult = ResultOf(engine.mode) /\ result = LastResult
    BY <1>1, RunAssumption DEF Finish, Inv, RunTypeOK, LoopInv, Looping
  <2>2. /\ tick_report_count' = tick_count + 1 /\ outcome' = result
        /\ UNCHANGED <<engine, clock, tick_reports>>
    BY <1>1 DEF Finish, Return
  <2>3. LastResult' = LastResult /\ SampleCount' = tick_count
    BY <2>1, <2>2 DEF LastResult, SampleCount, Sample
  <2>4. outcome' = "SHUTDOWN" => engine.is_running = 0 /\ engine.rpm = 0
    BY <2>1, <2>2 DEF StandsStill, ResultOf, Severe
  <2>5. QED
    BY <2>1, <2>2, <2>3, <2>4 DEF NormalEndIsConsistent, clock
<1>2. CASE UNCHANGED vars
  <2>1. LastResult' = LastResult /\ SampleCount' = SampleCount /\ TimedOut' = TimedOut
    BY <1>2 DEF vars, reporting, LastResult, SampleCount, Sample, TimedOut
  <2>2. QED
    BY <1>2, <2>1 DEF NormalEndIsConsistent, vars, clock, reporting
<1>3. CASE PollGap
  <2>1. link \in Links /\ link.rx = << >> /\ sim_tick \in Nat
    BY <1>3 DEF PollGap, Inv, RunTypeOK, LoopInv, Looping
  <2>2. link'.last_error.code = ReadStatus(link, sim_tick)
    BY <1>3, <2>1, PollFacts DEF PollGap
  <2>3. outcome # "SHUTDOWN" /\ outcome \notin Results
    BY <1>3 DEF PollGap, Inv, LoopInv, Results
  <2>4. QED
    BY <1>3, <2>2, <2>3 DEF PollGap, Return, Continue, TimedOut
<1>4. CASE Begin
  <2>1. outcome' = outcome /\ outcome = "none"
    BY <1>4, EngineInitFacts, EngineStartFacts DEF Begin, Continue, Inv, LoopInv
  <2>2. QED
    BY <2>1 DEF Results
<1>5. CASE \/ RefuseArguments \/ PrintFails \/ Read \/ Evaluate \/ Update
           \/ \E gap \in Gaps, raw \in Lines : NextLine(gap, raw)
  <2>1. outcome' \in {outcome, "ERROR"} /\ outcome = "none"
    BY <1>5, ReadStep, EvaluateStep, UpdateStep
       DEF RefuseArguments, PrintFails, NextLine, Return, Continue, Inv, LoopInv
  <2>2. QED
    BY <2>1 DEF Results
<1>6. CASE Ingest
  <2>1. outcome' \in {outcome, "ERROR"} /\ outcome = "none"
    BY <1>6 DEF Ingest, Return, Continue, Inv, LoopInv
  <2>2. QED
    BY <2>1 DEF Results
<1>7. QED
  BY <1>1, <1>2, <1>3, <1>4, <1>5, <1>6 DEF Next, Step

(* A run that ends normally published one report per line and the initial  *)
(* one, and returns what the last of them says (NormalEndIsConsistent of   *)
(* the timing run).                                                        *)
THEOREM NormalEndsAreConsistent == Spec => []NormalEndIsConsistent
<1>1. Init => StandsStill /\ NormalEndIsConsistent
  BY DEF Init, StandsStill, NormalEndIsConsistent, Results
<1>2. Inv /\ StandsStill /\ [Next]_vars => StandsStill'
  BY StandsStillInductive
<1>3. Inv /\ StandsStill /\ NormalEndIsConsistent /\ [Next]_vars => NormalEndIsConsistent'
  BY EndStep
<1>4. QED
  BY <1>1, <1>2, <1>3, LoopCorrect, PTL DEF Spec
=============================================================================
