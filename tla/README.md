# A verification development of the engine control test rig simulator

The program under `src/` is a deterministic simulator of an engine control unit
on a test rig. A *scenario* (built in, or a script file) lists sensor samples at
increasing ticks. Each sample is packed into a CAN-like frame, goes through a
hardware abstraction layer (HAL), is evaluated against a calibration, and
drives a small engine plant; a result (OK, WARNING, SHUTDOWN) and a JSON
document come out. It is one C thread without dynamic memory: what is hard is
not concurrency but long call sequences over module-level state, timeouts
counted in ticks, failures halfway through a tick, and what all this leaves
behind for the next caller.

Everything here is written from the C code; where a document of the repository
says something else, a run shows the difference (section 5).

## 1. Inventory

| Part | State | Operations | Correct when |
|---|---|---|---|
| `domain/engine.c` plant and modes | `EngineState` of the caller; `g_physics` | init/reset, start, mode transition, update, configure | only legal mode changes; SHUTDOWN stands still |
| `domain/control.c` evaluation | three counters in `EngineState`; `g_calibration` | evaluate, control output, configure/reset | no persisted fault is missed, none is invented, warning before shutdown |
| `platform/hal.c` HAL | three rings, last good tick, last error, watchdog, redundant channel, frame ages | ingest, read, encode, apply, bus receive/transmit, watchdog, voting, ages | FIFO, drop newest, timeouts exact, errors recorded |
| `scenario/scenario_profiles.c` loop | locals of one run, the caller's reports | one run of a scenario | samples judged at their own tick, timeout prompt and safe, every error has a cause, it returns |
| `scenario/scenario_catalog.c` | tables | find, count | expectations agree with the samples |
| `app/test_runner.c` | locals, stdout | `--run-all`, `--scenario`, `--script` | scenarios isolated, status deserved, one complete document |
| `scenario/scenario_report.c`, `reporting/*` | log level | JSON parts, log lines | nothing but the document in JSON mode |
| `scenario/script_parser.c` | lines accepted, last sample, message | parse a file, strict or not | accepts exactly the language, names the first bad line, hands over nothing the runner cannot run |
| `app/main.c` command line | locals the flags go to | read the command, its name and its flags; apply them | options mean what the line says; a refused line runs nothing |
| `app/config.c` | the structs of its caller | load calibration, load physics | all of a usable file or nothing |
| settings of `control.c`, `engine.c` | `g_calibration`, `g_physics`, configured or not | configure, reset | written once, valid, kept until reset |
| `visualizer_loader.c`, `main.c`, `visualizer_config.c` | scenario set, theme | read the arguments, load documents | every file or no window; what a document says is what is loaded |
| `visualizer_playback.c`, `visualizer_app.c` | `VisualizerAppState` | a frame: dialog, keys, drag, switch, advance | playhead inside the scenario, speed that of the scenario, dialog modal |
| `visualizer_ui.c` | none | layout, meters, labels, fault rates | parts of a picture agree; meters agree with the control law |
| `tools/`, `tests/` | none | build, audit, unit tests | not part of the program |

Interactions: `main` calls the runner; the runner calls `hal_init`, prepares an
engine and calls the scenario loop, directly or through the catalog's function
pointer; the loop calls HAL, evaluation and plant in a fixed order each tick and
fills the runner's array of reports; the report functions turn that array into
JSON; everything that can be printed, log lines too, goes to stdout. The HAL and
the calibration are module-level state that outlives a run: `--run-all` uses one
`hal_init` for ten scenarios. The visualizer is a separate program that reads the
JSON, a file or several, and shows them; it shares no state with the program, but
repeats the limits of its calibration. The watchdog, the voting, the bus queues and the frame ages have no caller
in the program; only unit tests call them.

What is hard to test is listed, line by line, under `hazards` in `PROJECT.json`.

## 2. Modules

| Module | Models | Notes |
|---|---|---|
| `Engine` | `engine.c` | operators from an engine record to an outcome `[status, engine]`, one per C function |
| `Control` | `control.c` | faults, counters, escalation, actuator command |
| `SensorLink` | sensor path of `hal.c` | ring seen as a FIFO; status and effect of each call |
| `ScenarioRun` | `execute_profile_frames_internal` | one action per call of the loop; `pc` says which comes next |
| `PersistenceMonitor` | abstract specification | windows over samples, no counters, modes or frames |
| `ScenarioProperties` | | properties of a run, and the invariants the proofs use |
| `Catalog` | scenario tables, registry, aliases | every sample value of the C tables |
| `TextNumbers` | `strtoul()`, `strtof()` as the parsers use them | a number, a value that is not finite, or none |
| `ScriptParser` | `script_parser.c` | one action per kind of line; the file is revealed as it is read |
| `Configuration` | `config.c`, the settings of `control.c` and `engine.c` | a file is its key/value pairs in the order of the text |
| `CommandLine` | argument handling of `main.c` | arguments are revealed as they are read |
| `FrontEnd` | `main()` up to the command | composes the three modules above; or an application that calls loaders and setters in any order, as the unit tests do |
| `WriteOnce` | abstract specification | a setting with a default that is written once |
| `FrontEndProperties` | | arguments, settings, the language of scripts |
| `TestRunner` | `test_runner.c`, status handling of `main.c`, JSON structure | composes `ScenarioRun` (its actions as they are) and `Catalog` with a stdout whose writes may fail |
| `TestRunnerProperties` | | verdicts from samples, exit status, document |
| `FrameQueue` | `HAL_FrameQueue`, `HAL_TxFrameQueue` | head, tail, count |
| `Hal` | all of `hal.c` | one action per state-changing function |
| `LinkService` | abstract specification | what `SensorLink` promises, as a state machine |
| `HalProperties` | | contracts of the HAL |
| `VisualizerLoader` | `visualizer_loader.c`, arguments of the visualizer | documents as their objects in order |
| `VisualizerLayout` | layout of `visualizer_ui.c` | rectangles in hundredths of a pixel |
| `Playback` | `visualizer_playback.c`, the deciding parts of `visualizer_ui.c` | operators from ticks and a playhead to what is shown |
| `Visualizer` | `visualizer_app.c` | composes the three above; one action per frame |
| `VisualizerProperties` | | loading, playing, showing |
| `MC*` | | instances for TLC |
| `*Proofs` | | theorems (section 6) |

How code becomes model:

* A C function that changes a struct passed to it is an operator from the old
  record to the new one with its status; a caller's `if (status != OK) return`
  is a disjunct of the caller's action. Trailing effects belong to the action:
  `Evaluate` is `evaluate_engine()` *and* the slot of `tick_reports` *and* the
  early return between them.
* Numbers are integers in the resolution of the sensor frame (RPM, tenths of a
  degree, hundredths of a bar): exact for what the frames carry, and for the
  ramps 150, 0.6 and 0.01. The actuator command is in thousandths of a percent.
  Rounding of 32-bit floats is not modelled.
* A frame is what its decoding gives: a sample, a corrupted frame (checksum), an
  impossible sample, a sensor error frame, an unsupported one.
* A script is revealed a line at a time: `NextLine` picks any distance in ticks
  and any frame the parser lets through, so that a run covers all scripts of its
  length. The built-in scenarios of `TestRunner` take their lines from `Catalog`.
* Text is seen as what it is recognised as: a script line by its form and the
  numbers of its fields, an argument as one of a small set of texts, a document as
  its objects. What a reader does across an object's end is kept: a key a tick
  lacks is taken from the next tick that has it, and the first occurrence of a
  configuration key counts, at any depth.
* The visualizer's time is in quarters of a second and its playhead in eighths of
  a tick, so that every position and the half-way points are exact.
* stdout is a sequence of tokens (header, object, comma, footer, text); a write
  that fails leaves a fragment and the writer returns as the code does.
* NULL arguments are refused calls in `Hal`; the scenario loop never makes one.

Three specifications are abstract. `PersistenceMonitor` says what the evaluation
is for: a fault persists when the last *n* samples show it, an alarm rises one
level per sample and never falls. `LinkService` says what the HAL's sensor path
is to the loop. `WriteOnce` says what a setting is to whoever reads it. The loop
implements the first, `Hal` the second, so what is checked of the loop with a FIFO
holds with the ring, and `FrontEnd` the third, once for the calibration and once
for the physics.

The front end and the runner meet at `ScriptIsRunnable` and `RunsAsConfigured`:
what they say of a script and of a calibration is what `ScenarioRun` and
`TestRunner` assume of theirs.

## 3. Runs

| Run | Question | Bounds |
|---|---|---|
| `MCScenarioFaults` | Is a fault ever missed or invented? Does the loop implement the monitor? | 6 samples from 4 that lie on and just past every threshold; two calibrations (3/3/2 and 1/2/1). Six is two more than the longest wait (persistence 3 plus the warning), with room for a reset in between. Scripts of 0 and 7 lines are refused. |
| `MCScenarioTiming` | When does a run time out, fail, end, and with what left behind? | up to 4 lines and one too many; distances 1, 2, 4, 5, 7 around the timeout of 3 (4 is the last that is in time, 5 the first that is not); corrupted frames anywhere but first; a print that fails at any tick |
| `MCTestRunner` | Are the ten scenarios isolated, the exit status and the document right? | all of the registry with the real sizes (ring 32, reports 26, timeout 3); default calibration and one under which expectations fail; scripts of 2 and 3 lines with and without timeout; one failing write per process (`MaxWriteFailures`), which ends a command, so that a second could only follow in a `--run-all` |
| `MCHal` | Do ring, bus, watchdog, voting and timeout keep their contracts? | rings of 2 and 3 slots (they wrap), ticks modulo 4 over 5 ticks (they wrap), a watchdog counter modulo 6 with 7 checks (it wraps); services one or two at a time (`ServiceSets`): they share nothing but the last error |
| `MCFrontEnd` | Do arguments, configuration and script mean what they say, whatever is wrong with them? | lines of up to 6 arguments over 13 texts, the program's name included, and one too many; 17 configuration files, with every fault and each kind of bad field, loaded in any order by an application; scripts of up to 4 lines over one line of each kind, with room for 2 entries, so that the limit is passed; a CI environment, the only one that changes a level |
| `MCVisualizer` | Where can keys, drags and switches lead? Do the parts of a picture agree? | 19 documents, one or two files: 1 to 4 ticks (4 is the capacity), shorter and longer than the limit of a short scenario (2) and of a dense axis (3), values on and past every threshold, each reason to refuse a file; one frame may find any key, seven pairs of keys, two held keys, the slider pressed, moved and released at both ends and inside, and two window sizes |

Bounds that stand for types: `TickModulus` is 2^32 in the code (64, 2^30 or 4 in
the runs; only `MCHal` lets it wrap, since a script whose ticks wrap is refused
by the parser), `CounterModulus` is 2^32, `CounterCap` is 1000000. `ReportCapacity`
is 26 for built-in scenarios and 65 for scripts; the runner's model uses 26 for
both, and no script of a run is longer than that.

In `MCVisualizer` the speeds (2 to 6 half ticks a second) and the constants of a
held key are smaller than in the code, in the same order, so that several frames
fit between two ticks.

Deadlock is not checked where the program stops (the loop, the runner and the
front end return, the window closes);
`Hal` is checked for it.

What the passing runs show:

* Evaluation: `NoMissedShutdown` and `NoFalseShutdown` judge the result against
  the samples in the reports, never against the counters. A fault on samples 1
  to 3 of a run needs care: the first sample finds the engine in STARTING, where
  the evaluation raises nothing, so with persistence 1 the alarm is a sample
  late; hence "from the third sample on". `CountersMatchReports` is the meaning
  of the counters; `ModeClimbs` the ladder; `ImplementsMonitor` all at once.
* Timing: `SamplesAreTimely`, `TimeoutIsPromptAndSafe`, `LinkDrained`. The HAL
  stamps a frame with the tick it is *read* at; samples are judged at their own
  tick only because the ring is empty between two lines.
* Failure: `ErrorHasCause` excludes all error returns but three kinds;
  `NormalEndIsConsistent` ties reports, result and engine together at the end.
* Runner: `ScenariosAreIsolated` compares each built-in run with a verdict read
  off its table, whatever the nine others left in the HAL, and although the ticks
  start again at 1 (hal.h asks for increasing ticks). `StatusIsDeserved`,
  `JsonIsComplete`, `ScriptFailureIsExplained` follow the output token by token.
* HAL: `ImplementsLinkService` (the refinement), `BusDropsNewest`,
  `WatchdogFiresInTime`, `ReadingVotesOnce`, `SilenceIsTimedExactly` across the
  wrap of the tick.
* Front end: `OptionsAreAsGiven` reads the whole line at once, by a definition of
  its flags that knows nothing of the code's index, and compares; a flag taken for
  a value, or a value for a flag, shows. `ParserAgreesWithGrammar` does the same
  for scripts: a line-by-line parser against a definition of the acceptable files.
  `RunsAsConfigured` and `LoadIsAllOrNothing` follow a file that is half right
  from the loader to the command; the two refinements of `WriteOnce` any sequence
  of loads, configurations, failures and resets. `ScriptIsRunnable` is the
  contract with the test runner.
* Visualizer: `LoadedAsWritten` compares what is loaded with what the documents
  say, over several files; `PlayheadInside` and `SpeedFitsScenario` hold after any
  sequence of frames; `DisplayAgrees` compares the three places that compute the
  current tick (interpolation, tick counter, fault rates), each by a formula of its
  own; `ModalIsModal` and
  `PlaybackFinishes` relate dialog, pause, drag and time.
  `MetersAgreeWithControl` ties the visualizer's own thresholds to `Control`.

## 4. Fairness

The scenario runs and the runner use weak fairness of the whole next-state
relation and nothing finer: the program is one thread that runs until it
returns, and each C statement terminates. No single action is fair; the choice
among them is determined by `pc` (or is input). `Termination` holds because the
gap loop cannot outlast the sensor timeout. The front end is the same thread and
has the same fairness; `FrontEndTerminates` speaks of the program, since an
application may call the loaders for ever. The visualizer is fair to `IdleFrame`
only: its loop goes on drawing frames while the user does nothing. No input of the
user is fair, so `PlaybackFinishes` is about a user who leaves it alone from some
time on. `Hal` is called by others and makes
no liveness promise.

## 5. Where documents and code differ

| Run | Document | Code |
|---|---|---|
| `DocShutdownAtPersistence` | `docs/safety_case.md:34`: SHUTDOWN after `temp_persistence_ticks` ticks | that sample gives WARNING, the next one SHUTDOWN |
| `DocConsecutiveTicks` | `README.md:40`: *N* consecutive ticks | *N* consecutive samples, whatever ticks lie between |
| `DocLostReports` | `README.md:84`: JSON for the tick is appended | a timeout drops the reports of every tick before it |
| `DocCorruptFrame` | `docs/fmea.md:27`: frame rejected, timeout if persistent | one corrupted frame ends the run with an error |
| `DocJsonOnly` | `README.md:414`: `--json` emits machine-readable output | a sensor timeout logs a text line to stdout first |
| `DocErrorPaths` | `docs/error_severity_model.md:49`: error paths call `hal_set_error()` | five functions return errors without it |

Noted without a run: corrupted frames on every tick never become a timeout
(`docs/safety_case.md:73` speaks of valid data); a mismatch in `--run-all` and an
unknown name leave no `error` object; the loop calls neither voting nor watchdog;
the strict-mode check of parse warnings in the runner cannot be reached, since
the parser refuses comments in strict mode; the configurable physics is never
loaded by the program.

Of the front end: all documented options together, with a scenario or a script,
are 13 arguments, one more than `MAX_CLI_ARGS`; `calibration.schema.json` bounds
the persistence by 1000 and the temperature limit by -50 from below, where
`calibration_valid()` takes any persistence and positive limits only; a comment in
`config.c` calls all physics parameters required, the code is content with one;
the physics loader lets NaN and infinity through, the setter refuses them; a
`--config` that fails says so on stdout in JSON mode too, and not at all when its
path makes the log line too long; a read error ends a script like its end.

Of the visualizer: a key that an object lacks is taken from the next object, also
across scenarios; an empty `ticks` list refuses the whole file, so a document
in which a scenario timed out cannot be shown; a drag that is under way when the quit
dialog opens goes on after it closes, wherever the button was released; the
thresholds of the meters are those of the default calibration, whatever the run
was configured with.

## 6. Theorems

All are proved by TLAPS for every value of the constants that satisfies the
assumptions of the modules: any set of samples in the HAL's range, any valid
calibrations, any ring of at least one slot, any timeout, any script length up to
`MaxProfileTicks`, gaps of any size; any arguments, configuration files and script
lines; any documents, themes and inputs, in windows of any size. `RunAssumption` asks that a script be no
longer than the cap of the counters (64 against 1000000): otherwise a counter
would no longer be the number of samples it stands for.

The other assumptions say as little: `RunnerAssumption` that the arrays of reports
have room for a built-in table and for a script (`MAX_PROFILE_TICKS`, and one more
than `SCRIPT_PARSER_MAX_TICKS`), that a table holds frames and that the loop
accepts a sensor frame one tick on;
`CommandLineAssumption` that any text may be an argument, the flags included;
`PlaybackAssumption` that the lengths at which the playback changes its speed are
numbers.

The properties are not inductive; they rest on one another in this order.

1. `ScenarioProofs` begins with lemmas on the operators: what `EvaluateEngine`
   returns from a given mode, that its status is OK from the modes the loop reaches,
   that the outcome keeps its type, what a counter is after one sample. Then
   `LoopInv`, the invariant of the loop's position: which mode
   an engine may have at which line (STARTING before the first update, never INIT
   later), how many reports there are, that `result`, mode and last report agree,
   and that the ring holds exactly the line just ingested or nothing. Without the
   mode part `Evaluate` could return an error; without the ring part `Read` could
   decode another line. `TypeCorrect` and `LinkIsDrained` follow.
2. `EvaluationProofs`: each counter is the trailing run of faulty samples.
   Only `Evaluate` appends a sample and only it changes a counter; the plant and
   the safe state leave counters alone.
   `NoticedInv` (a persisted fault has at least warned) and
   `StoppedInv` (one sample later it has stopped the engine) strengthen
   `NoMissedShutdown`; `NoFalseShutdown` follows from the counters and from the
   rule that SHUTDOWN is only reached from WARNING. `RunImplementsMonitor` maps
   `Evaluate` to the monitor's step and everything else to a stutter.
3. `TimingProofs`: `ClockInv` relates the gap loop to the last good sample and to
   the timeout; the timing properties and `ErrorHasCause` follow. `StepsLeft` is a
   variant of the loop: the lines left, the polls until the sensor has timed out, and
   the calls left for the line. `EveryStepIsCounted` says that every step lowers it,
   `RunIsBounded` that it starts at `2 + tick_count * (SensorTimeout + 5)`,
   however long the gaps of the script are; the longest run of the timing instance
   takes exactly as many steps.
4. `TestRunnerProofs` uses the lemmas of the three modules before it for the loop
   inside the runner, where `Prepare` starts it again and again on what the last
   scenario left. `StageInv` says what it finds there. `BuiltInRunInv` is the
   isolation: the samples reported so far are those of the scenario's own table,
   the counters are theirs, and the result at every sample is `VerdictAt` that
   sample, a definition over the table alone. It is inductive because a table has a
   sample for every tick, so no gap is polled and no timeout can come. `ScenariosIsolated`
   leaves out the scenario cut short by a tick it cannot print, which has no
   verdict to compare; ticks are not printed in the test-runner run, where the
   property is checked as it stands. `SuiteCounts` ties `passed` to the
   tests dealt with and to the writes that failed, `StatusCounts` the exit status to
   both: so `StatusesAreDeserved`, under the same hypothesis. That every
   expectation is right under the default calibration is proved table by
   table, from the samples that decide each. `DocumentOpen` describes the document
   of a suite under way, `DocumentComplete` the one that is left at the exit, for
   `JsonCompleted` and `ScriptFailuresExplained`; the second also needs `ScriptRunInv`
   (the clock and the cause of failure of a script's run, and that a run writes
   nothing but the log line of a timeout).
5. `HalProofs`: what pushing and popping do to the frames a ring holds, by the
   arithmetic of `Slot` (an index up to two turns round), then `HalInv`, the type
   invariant with the agreement of head, tail and count, which is inductive as
   it stands.
   From it and the ring lemmas the refinement of `LinkService` follows. The other
   properties `MCHal` checks need the callers' history tied to the HAL's counters:
   `SampleInv` (`last_sensor_tick` is the wrapped time of the last good sample; the
   difference of two wrapped ticks is the time between them if less than a turn),
   `WatchdogInv` (the counter is the number of checks until it wraps), `VoteInv`
   (a reading that waits has not voted).
6. `FrontEndProofs`: `FrontEndInv` has a part for each of the modules `FrontEnd`
   composes. `CommandInv` keeps the output empty until the exit, so that a success
   can only be the version. `RunInv` ties the stage of the program to the setting:
   untouched before the options are applied and after an exit, from a usable file
   after `--config`; without it nothing says that the setter finds the setting
   unwritten. `CalibrationInv` and `PhysicsInv` remember that a setting has passed
   the check of its setter and that the caller's struct is a default or a file.
   `ScriptInv` ties the last entry to the last sample, which is why a corrupt line
   repeats its predecessor, and the count handed out to the status.
   Two parts compare a reading that goes line by line with a definition over the
   whole. `GrammarInv`: what has been read is acceptable until a line is refused,
   and the list agrees with it (`ListAgrees`: an entry for each directive, at the
   place of its rank, with the sample of the sensor line before it); a refused line
   is the first that makes the script unacceptable. `ParserDecidesGrammar` follows.
   `OptionsInv`: there is a set of places of flags in the line so far, each flag
   is sound, and the options are what the flags say. `OptionsAsGiven` needs that
   a line has one such set, whatever `CHOOSE` takes: two would differ at a least
   place, and what stands before that place decides it.
   `EveryReadIsCounted`, from `ReadingInv`, is the variant of `main()`: an argument
   more, a line more or a stage further on at every step.
7. `VisualizerProofs`: `LayoutFitsEveryWindow` is about the layout alone, for every
   width and height of at least a pixel. `VisualizerInvariant` says that a window
   opens on scenarios that can be played, that the playhead and the speed fit the
   active one (`Fits`; a switch must establish it for another scenario than a frame
   started with), that an answer is selected in an open dialog only (`Sound`), and
   that a picture is the one of the active scenario at the playhead (`ShownFrom`).
   The frame is proved function by function, in the order of the code.
   `MetersAlwaysAgree` also needs that a reading between two ticks is in range,
   `DisplayAlwaysAgrees` what rounding and thinning do to the labels and the points.
   `DocumentsLoadedAsWritten` rests on `FilesLoaded`: a scenario's place is the
   number of scenarios in the files before its own plus its own place there, and
   nothing moves it; and on what the first occurrence of a key, in its own tick or a
   later one, gives a reader that scans onwards.

What stays with TLC: `Termination`, `FrontEndTerminates` and `PlaybackFinishes`.
They are liveness under fairness, and `ENABLED` is out of the prover's reach. Of the
first two the safety half is proved, by the variants above: what is left to TLC is
that a run that has not ended can take a step and that fairness makes it.
Every other property that a passing run checks is a theorem.

Induction over data is not available as the library's induction theorems, which take an
operator as a parameter. Where a proof needs it, the invariant carries the
definition over the data from step to step, or a set of numbers has a least
element (`LeastNumber`, from the well-foundedness of `<`). `RECURSIVE`
operators are out of the prover's reach; the modules with theorems use none.

## 7. Not modelled, and why

* Wording, colours, number formats, fonts and drawing primitives; which log lines
  a level lets through; per-tick console reports (that they may fail is modelled).
* 32-bit float rounding: values that come off the frames are multiples of the
  model's units; the ramps between two samples may differ in the last bits, and
  no sample is evaluated against a ramped value. In the visualizer a playhead
  within 0.0001 of a tick counts as on it; positions of the model are an eighth
  apart or equal.
* The bytes of a frame and the arithmetic of its checksum: a frame has a checksum
  that fits or one that does not. Recognising a line of a script, a key of a
  configuration file or a document, character by character; braces inside a quoted text
  of a document. What follows from each outcome is modelled.
* `hal_frame_is_stale()` and `hal_frame_id_is_known()`, which answer a question and
  change nothing, but for the last error of a refused call.
* The engine's physics with other parameters than the defaults: nothing in the
  program configures them, and the setting itself is modelled.
* Of the visualizer: F11, `restart_feedback_timer` and `animated_mode_color`, on
  which nothing depends.
* `tools/`, `tests/` and the build: scripts around the program.

Two hazards in `PROJECT.json` have no property: the watchdog's counter after 2^32
checks, where the code promises nothing, and a read error of a script, which the
code cannot tell from the end of the file and the model therefore does not either.

## 8. How the development grew, and what is left

The core (engine, evaluation, loop) came first, with its abstract monitor and its
theorems; then the catalog and the runner; the HAL, its refinement and its
theorems; the front end (command line, configuration, parser), its refinement and
its theorems; the visualizer (loader, playback, layout) and its theorems.

Then what `TestRunner`, the options, the grammar of scripts, the loader and the
picture promise, which had been left to TLC, became theorems, and with them the
bounds on the steps of a run and of `main()`.

Left, in this order: a variant for the whole of `--run-all`, from that of the loop
and the tests left, and one for the playback of a user who leaves it alone; the
bytes and the checksum of a frame (for TLC only: it needs bit operations);
`hal_frame_is_stale()` over the ages `Hal` keeps.
