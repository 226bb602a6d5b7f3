# Verification of the hull-coverage rover

This directory holds TLA+ models of the rover in this repository, the TLC
configurations that check them, and TLAPS proofs about them. It is read next to
the sources: every definition that stands for code is listed with its lines under
`map` in `PROJECT.json`, every danger the code is exposed to under `hazards`, and
every disagreement between code and documentation under `findings`.

Paths below are relative to the repository; `.ino` is
`firmware/openrb_robot_controller/openrb_robot_controller.ino`.

## 1. The system

The robot is a skid-steered rover on an OpenRB-150 board. One Arduino sketch is
compiled with different flags into several controllers that share a `loop()`. A
station talks to it over an HC-12 radio, a laptop over USB serial, a pilot through
a PPM receiver. The laptop side, `tools/physical_path_planning`, plans coverage
paths, calibrates motions, aligns the rover and drives the path in short pulses or
live chunks whose safety gate stays in the firmware.

| Part | State it keeps | Operations | What is hard | What makes it correct |
|---|---|---|---|---|
| PPM receiver (`ppmISR`, `readRcChannels`) | channel pulses, index, last frame | interrupt per edge, guarded read | interrupt against loop, lost and spurious edges | a reading mixes two frames at most, and a valid one is recent |
| Integrated control loop (default build) | link and manual timers, E-stop, AUTO command, mode, output | `processHC12Line`, `handleCommand`, arbitration | priorities, staleness, RC dropouts, frames lost or batched | one driver at a time, with a current licence |
| Guarded pulse and live drive (Stages 16, 17, 18, 20) | armed, latched stop, pulse and live timers, output | `ARM`, `CMD`, `STOP`, `LIVE SET/STOP`, `stage16UpdatePulse`, takeover | deadlines, stale lines, pulse beside live drive | bounded motion, one arm per pulse, the pilot wins |
| RC auto pattern | armed, manual timer, run state, steps, timers, retries | `rcAutoPatternTick`, manual and signal-loss hooks | arming, pause and resume, retry, shifted clocks | runs are licensed, end, and drive the lawnmower |
| Pulse executor (`executor.py`) | position in the handshake, rows collected | `send_pulse`, `send_live_drive` | timeouts, stale rows, rejects, crash | when it returns, the rover is at rest |
| Supervised controllers (`controller.py`) | segment, chunk, pose, headings, heartbeat in hand | `run_controller`, `run_stop_correct_go`, the turn engine | stale telemetry, faults judged late, abort paths | every exit has stopped; turns and lanes end where they should |
| Segment planner (`geometry.py`) | none | workspace, lanes, corners, budgets | body against travel on lanes driven astern | a rover that follows the segments is where the plan says |
| Heading alignment (`alignment.py`) | heading error, yaw turned | probe, plan of the turn, turn loop | yaw that wraps and has lost its sign, old and missing rows | ALIGNED means aligned, as far as it can |
| Calibration store and tuning (`tuning.py`, `calibration.py`) | `motion_calibration.json`, its backups, a tuning session | set, reset, tune: backup, merge, write | death between two writes, candidates at their limits | values are valid, driven before they are approved, and not lost |
| Field sessions (`cli.py`) | plan directory, the session's choices | preview, run, auto-relative-run, align-heading | files rewritten while they are read, old rows | one plan, the pilot's licence |
| Bench builds (motor pulse, ground crawl, Stage 15), path-following build, print guard, IMU filters | latch, episode timer, mute timers | per-loop update | latches against dropouts | one bounded motion per AUTO entry |
| Codec, core planners and parsers (`gps_coverage_core`) | none (pure functions) | codec, coverage path | boundaries | round trips; full coverage |
| Bench commands, plots, log analysis, probes, ROS skeletons, `legacy/`, `archive/` | reports | I/O | | |

How they interact. The receiver interrupt writes channel values that every build
reads once or more per pass. Station and USB lines are buffered by the serial
drivers and drained at the start of a pass; the pass then decides about the output
with the samples it took, and prints status rows. The executor sees only those
rows: it shares no state with the firmware and reacts to event names. The
controllers call the executor and read heartbeats between its calls. The command
line reaches the controllers through files (plan directory, calibration store)
that other commands of the same laptop rewrite. The pilot's switch and sticks act
on every build through the receiver, and on the host through the rows that report
them.

## 2. The modules

| Module | Role |
|---|---|
| `StationControl` | the default build's loop |
| `MotionAuthority` | the abstract promise of that loop |
| `GuardedUsb` | the firmware of the USB pulse and live builds |
| `MotionPermit` | the abstract promise of that firmware |
| `PulseHost` | `executor.py` composed with `GuardedUsb` over a slow serial link |
| `GuardedCall` | the abstract promise of that composition to a caller |
| `PpmReceiver` | the receiver's wire, its interrupt and the reads the interrupt preempts |
| `RcAutoPattern`, `PatternSteps` | the onboard pattern: arming, outages, execution; the list of its steps |
| `SupervisedRun`, `SupervisedRows` | `run_controller` and `run_stop_correct_go`; the rows they read, gates, headings and poses |
| `SerpentinePlan` | the segments `geometry.py` lays over a coverage rectangle; the instance of `SupervisedRun` drives them |
| `MotionCalibration` | tuning, setting and resetting the calibration, write by write |
| `CalibrationStore` | the abstract promise of the store to its readers |
| `FieldSession` | previews and a driving session on one laptop: plan directory, wait for AUTO, alignment |
| `MC...` | the instances TLC checks |
| `...Proofs` | the theorems |

Times are kept as ages (`millis()` minus a mark) and advance by whole ticks. An
age saturates just above the largest value the code compares it with.

### StationControl

A loop first drains the HC-12 buffer, then samples the receiver and arbitrates.

- `ProcessLine` is one turn of the receive loop: `processHC12Line` with
  `handleCommand`. `Stop`, `acceptStationManualCommand`, `AcceptAuto`, `RejectAuto`
  and `MalformedAuto` are its outcomes; `IgnoreFrame` stands for heartbeats,
  refused frames and frames that fail the checksum. Every frame that decodes
  refreshes the link before it is looked at, and `AUTO` reads the receiver at the
  moment its line is handled.
- `Arbitrate` is everything after the receive loop. Its five disjuncts are the
  code's if-chain (E-stop, station manual, pilot, AUTO, nobody). A timed-out AUTO
  command is cleared before the chain whichever branch follows (`KeepAuto`).
- `Receive`, `RcChange` and `Tick` are the environment. Loss is a frame that is
  never received; repetition, reordering and corruption are frames received.
- `manual`, `manualAge`, `linkAge`, `stationEstop`, `autoCommandActive` and
  `currentMode` are the variables of those names in the sketch. A command is
  reduced to whether it asks for a non-zero output, and `out` names whose command
  that is.

### GuardedUsb

One pass of `loop()` takes three kinds of step: `Top` samples the clock and the
receiver (a pilot's takeover ends the pass there), `HandleLine` handles one USB line
with those samples, `UpdatePulse` is `stage16UpdatePulse`, `stage16Heartbeat` the
end. `armed` and `latched` are `stage16ArmedFlag` and `stage16LatchedStopFlag`;
`pulse` and `live` gather the fields of a pulse and of a live drive with the ages
of their marks. A command's size is zero, within the limits, or too large; its
duration and time to live include 0 and one tick beyond the limit. `said` is the
status row a step printed, which `PulseHost` delivers.

The builds are constants: `RcRequired`, `Stage20`, `LiveEnabled`.

### PulseHost

The firmware is `GuardedUsb`, unchanged; `tx` and `rx` are the two directions of
the serial link, ordered and reliable but arbitrarily slow. `host` is the wait
`send_pulse` or `send_live_drive` is in: a wait skips the rows it does not look for
(`SkipRow`), is satisfied by the first row with a wanted event name (`Answered`) or
gives up (`TimedOut`). Rows carry no sequence number here because no wait compares
one. `Crash` kills the process with any suffix of its output unsent. `late` and the
`saw...` flags are history for the properties (`sawStop` also decides whether the
last STOP is waited for, as in the code).

`GuardedCall` is what a caller of the executor sees: no lines, no rows, no waits.
`Contract` maps the wait to the call it belongs to (`Calling`), what is active in
the firmware to `Doing`, an ARM in transit to `Asked`, and `late` to `Trust`, the
abstract variable that says how much of the promise stands.

### PpmReceiver

The wire is an environment: frames of `Sent` channels and a gap, any of whose edges
may be lost (`LostEdge`), cut by a spurious one (`Glitch`), or followed by silence
(`Dropout`). Each edge runs `ppmISR`. `EdgeAtZero` is the one edge at which `micros()`
reads 0, which the code takes for "no edge yet". The readers are steps between which
edges may fall, because only `readRcChannels` and the copy of `printModeSwitchFields`
run with interrupts off: `TakeSample`, then `FirstOperand`, `ReadClock` and `ReadStamp`,
the operands of `rcFrameRecent`, the last two in either order since C++ does not fix
it; `ReadSwitch` is the second sample an AUTO command takes. `held`, `written`, `whole`,
`clean`, `began`, `seen` and `older` are history: whose width a channel holds and how
old it is. The station, USB and pattern modules take the verdict of this module as an
input that may change at any pass.

### RcAutoPattern and PatternSteps

One action is one pass of `loop()`: `rcAutoPatternNoteRcLost`,
`rcAutoPatternNoteManual` or `rcAutoPatternTick`, with the output the pass sets.
`manualAge`, `lostAge` and `stepAge` are the ages of `rcAutoPatternManualSinceMs`,
`rcAutoPatternRcLostSinceMs` and `rcAutoPatternStepStartMs`. Heading hold, stall
escalation and the coast estimate only scale motor amounts, so the body's heading
enters as one of four zones chosen freely in each pass: on target, on target once
coasting is added, off, and beyond the abort angle. `moved` and `held` are history:
how long the step has really driven, and the MANUAL period a run can rest on.

`PatternSteps` computes the steps with a fold and compares the places they reach
with a lawnmower written down independently.

### SupervisedRun, SupervisedRows and SerpentinePlan

`opt` is the run: its loop (`continuous` and `pulse` are `run_controller`, `scg` is
`run_stop_correct_go`) and the arguments that change control. `pc` is the place in
the loop over segments and chunks: preflight (`check`), wait for centred sticks
(`neutral`), capture and GPS policy (`go`), the motion call (`drive`), settling
(`settle`), a measured turn (`turn`, `burst`, `measure`), the row (`record`). A call
that drives begins in one step and returns in another, so the pilot's switch
(`FlipSwitch`) and the port (`SerialDisconnect`) come in between. A row is reduced to
the facts the controllers read: receiver verdict, mode, yaw or none, position and
whether it is a fix. `heading` and `place` are the rover itself, which does not do
what it is told; `driving` says that a motion line is out without a stop line after
it, `coasting` that the stop of a turning burst is not confirmed. `called` (what calls for
the end of the run), `excess` (the motion begun since), `basis` and `begun` (where the
rover was when its segment began) are history. Motor amounts (`compute_b_correction`, calibrated A and B)
are left out: what they achieve is the nondeterminism of `Moves`. What
`send_pulse` and `send_live_drive` return are the row classes `DriveRows`, which
`PulseHost` produces in detail.

`SerpentinePlan` counts distances in a unit that divides them all and headings in
quarter turns: exact for a rectangle along the local axes. `connector_style`
`single_turn`, which the code calls legacy and never driven, and the motor values
of the primitives are left out.

### MotionCalibration and CalibrationStore

A command holds the store in phases: open the backup, write it, read and empty the
file, write it; a death (`Die`) may come between any two and leaves a torn file.
`Trial`, `Approve` and `Adjust` are a tuning session's loop with the real step
sizes; the limits are constants; what the operator and the IMU say is chosen freely. `tried` is
history. One command at a time is a bound: the code
takes no lock.
`CalibrationStore` is what a reader sees: entries are added until a reset, and the
only other loss is a writer that dies in its write.

### FieldSession

The plan directory is the number of the plan each file holds, or a torn file.
`cmd_preview`, `write_plan_artifact` and `PreviewDies` write it file by file;
`load_plan` and `load_segments` read it, in the order of each command. A session reads
the calibration file once, when it begins, and later asks what it has read at
`calibration_gate`; nothing in between can change the answer, so the reading (a torn
file ends the command) and the gate each have both outcomes here, and the file itself
is `CalibrationStore`. `TelemetryRow` and `read_row` put the operating system's buffer
between the switch and `wait_for_auto`. The alignment counts headings in units. Between
two setpoints of its turn the rover swings either way, or not at all (`YawRow`); the row
that is read may be an older one (`yaws`) or have no yaw; and the yaw counts without its
sign, as in the code (`remaining_heading_error`). What happens inside the phase `drive`
is `SupervisedRun`.

## 3. What is checked

### Runs that pass

| Run | Instance | States | Properties |
|---|---|---|---|
| `station` | timeout 2, pass 1 tick, 2 lines waiting | 1 536 616 | `EstopSilences`, `StationDeadline`, `CommandsExclusive`, `Authority`, `SilenceStops`, `PilotRegains` |
| `receiver` | 3 channels, of which 2 are read; 2 widths, 1 fault, 3 ticks of `millis()`, a timeout of 2 | 3 769 754 | `SelfSynchronises`, `TwoFramesAtMost`, `ValidIsRecent`, `LossIsReal`, `CleanFramesCount` |
| `usb_pulse` | Stage 20 pulse build, pulses up to 3 ticks, passes 0-2 | 455 | `MotionBounded`, `PilotWins`, `LossRevokes`, `Guarded`, `PulseEnds` |
| `host` | live build, pulses, drives and times to live of 1, setpoints that move or ask for nothing, 2 lines and 2 rows in transit, crash and restart | 1 355 558 | `SettlesDisarmed`, `PulseBounded`, `MotionBounded`, `CrashComesToRest`, `CallsAreGuarded` |
| `pattern` | default four lanes; lane 6, step-over 2, pivot 2, grace 2, hold 3, pause 1, 2 retries, passes 1-2 | 3 948 | `MotionIsARun`, `ClockIsMotion`, `RunsTheLawnmower`, `StartsLicensed`, `RunEnds` |
| `supervised` | the planner's lane, corner and lane back; 24 sets of arguments over three loops; headings in eighths of a turn | 2 060 091 | `PlanIsDrivable`, `CallsAreHeeded`, `RestsUnlessUnplugged`, `CompletedMeansTurned`, `CorrectsHeading`, `OverrunBounded`, `RunEnds` |
| `tuning` | backward and turn-left-90, limits of 250-2400 ms and 300, 3 trials, 2 commands, 2 seconds | 1 196 769 | `StoreValid`, `ApprovedWasDriven`, `BackupKeepsValues`, `KeepsStore` |
| `field` | 2 plans, 1 session, 5 heading units in half a turn, a tolerance of 1, swings up to 1, 6 samples, 2 rows buffered | 7 550 973 | `DrivesOnePlan`, `LicensedMotion`, `AlignedFacesTarget` |

What they show. Type correctness and what follows from it (`TypeOK`, and a few
invariants named in section 4) is proved instead of run.

- **The station's authority.** While a station E-stop stands nobody drives, from
  the line that set it on. Motion the station asked for ends a timeout and one
  pass after its last frame. The loop implements `MotionAuthority`: AUTO drives
  only on a grant, and STOP, the station's sticks, the pilot and a lost link each
  revoke it for good. A station that falls silent for ever drives nothing for
  ever, and a pilot in MANUAL then gets the rover unless the station left its
  E-stop set.
- **The guarded pulse.** USB motion is always inside a pulse or a live setpoint
  that is at most one pass overdue (pulses in `usb_pulse`, setpoints in `host`). The arm is used up by the pulse it pays for.
  A takeover or a lost signal leaves nothing pending that could fire later.
- **The receiver.** Whatever edges were lost or added, one frame start in sight puts
  the decoder back in its place, and from the second on every channel that is read
  holds its own width, of this frame or the one before: readers may mix two frames,
  never more, never shifted. No whole frame is refused. A sample taken for valid has
  a frame within the timeout before it, or one accepted while it was judged. A loss
  is real but for one case, a frame accepted under the reader's hands.
- **Host and firmware.** However slow the link and whichever waits time out, an
  idle host leaves neither an arm nor a live drive. As long as no wait gives up early
  the executor implements `GuardedCall`: calls begin and return at rest, fire one
  pulse at most, and never mix a pulse with a live drive. A live drive that hides the pulse beside it, which the firmware
  alone permits, does not happen under this host. A host that dies leaves a rover
  that comes to rest.
- **The pattern.** It moves only in AUTO, with a signal, inside a run. Outages
  pause a step without shortening or lengthening it by more than a pass, in any
  rhythm. Every run follows a MANUAL pass after the last run and the last long
  outage. Every run ends. The steps are the lawnmower for 1 to 12 lanes, and for
  the values outside that range, which the code clamps.
- **The plan.** For every goal, width and spacing of a small grid, a rover that
  turns by the angles and drives by the lengths of the segments, astern where they
  say so, is where the plan says after each of them; the tool has then passed
  within half a spacing of every point.
- **A supervised run.** What still begins once something has called for its end is
  bounded. After MANUAL in a chunk or a turn: nothing. After a bad chunk: the one
  correction turn that comes before its rows are judged, whose success does not excuse
  it. After a row without the receiver, read where nothing asks for it: one correction or
  one turn. After MANUAL in such a row: one chunk, if the row ended the wait for centred
  sticks, and one burst, if the rover settled with it. Whatever ends the run, a stop line follows the last motion line, unless the
  port failed. A turn that is reported complete has turned the rover, however many
  rows or yaws were missing. What a corner leaves undone is seen as the error of the
  next lane. A lane is overrun by less than two chunks, or by one if the rover was
  beyond its end when it began. Every run ends.
- **Calibration.** What is stored always passes the validator that only `set` calls;
  what is approved was sent as it stands and not jerked the wrong way; wherever a
  set or a reset dies, the values it replaces are in the file or a backup; readers
  see `CalibrationStore`.
- **A session.** Start, goal and lanes come from one plan unless a preview died, or
  was at work, between the first two of its files; that a run may then mix two plans is
  not prevented by the code. `auto-relative-run` moves only when the switch has been in
  AUTO since it started, or the operator had the keyboard allowed. A turn that ends
  ALIGNED faces its target within the tolerance and what the rover swings behind the
  rows, wherever it has been on the way, as long as the last yaw is on the side it was
  told to turn to. If the yaw is on the other side (the command or the sensor has the
  wrong sign, or the turn went through half a turn), it faces the mirror image of the
  target just as closely, and ALIGNED is reported all the same.

### Runs that show a disagreement

Each checks one statement of a document or comment, which the code does not keep.

| Run | Statement | What happens |
|---|---|---|
| `station_failsafe_resume` | `docs/safety_and_failures.md:29,36-37`: a failsafe is a stop, after which motion does not resume by itself | FAILSAFE leaves `autoCommandActive`; when the receiver comes back, AUTO drives again without a new frame |
| `host_complete` | `safety.py:45`: the stop row marks the controlled end of a pulse | after late answers, the rows of one pulse satisfy the waits of the next, which is returned as complete before it has run |
| `pattern_arming` | `.ino:5515`, `docs/README_physical_path_planning.md:241`: a run follows one second of stable MANUAL | the MANUAL mark survives a return to AUTO, so time in AUTO counts and a later flick of the switch arms |
| `supervised_dead_reckoning` | `controller.py:667`: dead reckoning keeps the signed cross-track offset | the offset is laid off on the other side of the lane in each chunk |

### Observations without a run

Met while modelling; the models follow the code in each.

- Station. AUTO is accepted over a station E-stop and clears it
  (`docs/protocol.md:121-126` says otherwise; `.ino:3825`). A fresh station manual
  frame drives with an invalid receiver (`docs/architecture.md:128-129`; `.ino:6187`).
- Receiver. `rcFrameRecent` reads `millis()` and the volatile `lastPpmFrameMs` with
  interrupts on: a frame accepted in a later millisecond between the two makes the age
  wrap, and the loop takes a healthy receiver for lost for one pass, which costs a
  guarded build its arm (`.ino:1708`; `docs/known_issues.md:1233` has control healthy
  "the whole time" while the printed ages underflow). `ppmISR` refuses a short width
  before the first channel only and stores it elsewhere (`.ino:1028`;
  `docs/known_issues.md:1236` says a glitch is rejected). AUTO takes one sample to be
  valid and another to be on (`.ino:3805`; `docs/protocol.md:121`).
- Executor. `executor.py:209` writes the command after a rejected or unanswered ARM;
  the firmware rejects it, which costs a row and a wait.
- Controllers. The rows of a pulse are judged after the settling and the correction
  turn that follow it, where `controller.py:23` calls RC_INVALID during a pulse a hard
  abort (2695). The GPS policy `pause` uses up the chunk budget without driving
  (`controller.py:1301,1493,2580`). With `gps_reanchor` off, a valid fix freezes the
  pose (711-728). A rejected or unanswered turning burst still records a valid row
  (2325). The stop of a burst is not verified (1851-1856). A correction turn has no
  preflight, and the row with centred sticks is not asked for its mode. A GPS jump may
  be rejected for ever (2628-2655). The pulse loop ends a lane by the pose from before
  the pulse. `completed_segment_count` counts a segment with one valid row (979-985).
- Alignment. Neither the probe nor the turn looks at the mode switch, where
  `docs/field_test_manual.md` has MANUAL stop the rover; a rejected probe is not
  noticed; the yaw is taken without its sign (`alignment.py:136-148`) from the next row
  in the buffer (327-349), so a turn the wrong way, or past half a turn, ends ALIGNED at
  the mirror image of the heading, and a row that has waited ends it late; an interrupt in the inline turn leaves without a STOP, and
  the setpoint's time to live ends the motion.
- Sessions. `wait_for_auto` decides on a row that may be old, and offers the keyboard
  before any row has come or on a row cut by the read timeout (`cli.py:6043-6046`;
  `docs/README_physical_path_planning.md:210` offers it when no receiver is
  attached). The calibration is read before a wait of up to ten minutes.
  `auto-relative-run` may report that nothing was executed after its probe has moved.
  A torn calibration file ends a command with an uncaught error. `gps-wait --from-log`
  writes an old position as a fresh cache.
- Tuning. An approval has no backup, so a death in its write loses every entry;
  backups of one second overwrite each other; the yaw of an approved 90 degree turn
  is not compared with 90 degrees.

### Bounds

- Ages matter only through comparisons with a limit, so the smallest limits
  that still have a value below, at and above each comparison show every outcome.
  `MaxLoop`, `MaxStep` and `MaxPass` let a deadline be passed over between two
  passes; without them every bound would hold exactly and the slack in
  `StationDeadline` and `MotionBounded` would be untested.
- Two waiting lines are the least at which a STOP and an AUTO meet in one pass.
  The order of more lines is covered, as each line may arrive after another has been
  taken and before the arbitration.
- Two lines and two rows in transit hold an ARM with its CMD and one pulse's answers
  beside the next pulse's waits; `host_complete` needs three. One sequence number is
  enough there, as no wait of the host compares one.
- In `receiver` widths are in units of 0.1 ms, in the proportions of the default build;
  a millisecond clock of 4 values lets a frame be fresh, just within and just past
  the timeout, and lets it come in the reader's own millisecond or a later one. Time
  and edges are not tied together, so frames of any rate are included. One fault may
  fall anywhere in any frame. The third channel is sent and not read. `millis()` does
  not wrap (49.7 days).
- The pattern's times are not to scale. Each is compared with its own mark only, so
  what counts is that every step, pause, hold and grace spans a pass of one tick and
  may be overshot by a pass of two, that a step is long enough for several outages,
  and that outages fall on both sides of the grace.
- A supervised run has one corner, the least after which an error of a turn meets a
  lane; the step-over, a lane across the axis on which places are counted, is left
  out. Advances and turns are up to twice what was asked. Each set of arguments
  differs from a plain run in one place, and the sky, the lanes and the turns vary
  one at a time: all at once is beyond TLC. `PlanIsDrivable` takes goals within 3
  units of the start, widths to 4 and spacings to 3: lanes along each axis in either
  direction, odd and even numbers of them, and a last spacing that is short.
- The limits of `tuning` are narrower than those of the code (100-3000 ms, 0.35 in
  thousandths; `tuning.py:58-61`): three trials then reach both limits of a pulse length
  and the growth of a command beyond its own from the initial candidates, for which the
  code's limits would take seven trials and more. The theorems hold for every limit.
  Two commands are a writer and the one after it; two seconds separate two backups or
  let them share a name.
- In `host` a drive is as short as a time to live, so the end of the drive is what stops
  a setpoint there. That an old setpoint stops before its drive is over takes a drive two
  ticks longer than the time to live, beyond a run of this size; `MotionIsBounded` proves
  it for every length of both.
- In `field` previews write while a session is awaited or reads the directory: elsewhere
  the session does not look at it. One session at a time has the port, and its own
  output goes to another directory than the plan it reads. Six samples of a unit each
  and two rows that wait take the rover past half a turn either way, into and out of the
  tolerance, and exactly as far from it as `AlignedFacesTarget` allows.
- A run that takes the yaw it starts from late, because its first rows have none, is
  among the arguments of `supervised`, but `CorrectsHeading` is about runs whose start
  yaw is given: the others have no reference to be held against.

### Fairness

`loop()` never returns, so a pending line is handled, an empty buffer leads to the
arbitration, and the clock advances (`WF` on those steps of `StationControl`, `WF`
on `Next` in `RcAutoPattern`). In `GuardedUsb` the read loop could be kept busy by an
endless stream; a line takes longer to arrive at 115 200 baud than to be read, so
the update is reached again and again (`SF` on `UpdatePulse`), and a pass that takes
no tick cannot be the only kind (`SF` on `TimePasses`). `PulseHost` adds that a line
written is read (`SF` on `FirmwareReads`). In `SupervisedRun` every wait of the host
has a timeout (`WF` on `Host`), and what it leaves driving ends with its time to live
(`WF` on `LeaseRunsOut`, which `usb_pulse` and `host` show in detail). Nothing is
assumed of the station, the pilot, the receiver or, in `PulseHost`, the host. The
store and the sessions have safety properties only: an operator may stop at any
prompt.

## 4. What is proved

The theorems hold for every value of the constants allowed by the named assumptions
(`StationConstants`, `GuardedConstants`, `PatternConstants`, `AngleConstants`,
`RunConstants`, `StoreAssumption`, `FieldAssumption`, `WireConstants`,
`DecoderConstants`, `FittingReceiver`): naturals that are positive
where the code needs it, every combination of build flags that compiles, every plan
and every set of arguments, every set of motions and proposals. Four theorems take a
hypothesis of their own, named with them below.

| Module | Theorem | Establishes |
|---|---|---|
| `StationControlProofs` | `TypeCorrect`, `EstopIsImmediate`, `DeadlineHolds`, `OneCommandAtATime`, `ModeIsTruthful` | `TypeOK`, `EstopSilences`, `StationDeadline`, `CommandsExclusive`, `ModeTellsDriver` |
| | `LoopImplementsAuthority` | `Authority`: the loop implements `MotionAuthority` |
| `GuardedUsbProofs` | `TypeCorrect`, `MotionIsBounded`, `PilotAlwaysWins`, `LossAlwaysRevokes` | `TypeOK`, `MotionBounded`, `PilotWins`, `LossRevokes` |
| | `FirmwareIsGuarded` | `Guarded`: the firmware implements `MotionPermit` |
| `PulseHostProofs` | `IdleHostLeavesNothing`, `PulseIsBounded` | `SettlesDisarmed`, `PulseBounded` |
| | `IdleMeansRest` | `ReturnsAtRest`, if only a firmware with live drive is sent setpoints |
| | `ExecutorKeepsContract` | `CallsAreGuarded`: host, link and firmware implement `GuardedCall`, under the same hypothesis |
| `PpmReceiverProofs` | `ReceiverTypes`, `NothingOlderThanAccepted`, `RowsAreWhole` | `TypeOK`, `AcceptedIsWhole`, `RowIsWhole` |
| | `FindsItsPlace`, `SamplesMixTwoFrames`, `WholeFramesAreAccepted` | `SelfSynchronises`, `TwoFramesAtMost`, `CleanFramesCount` |
| | `ValidSamplesAreRecent`, `LossesAreReal` | `ValidIsRecent`, `LossIsReal` |
| `RcAutoPatternProofs` | `TypeCorrect`, `OnlyRunsMove`, `OutagesOnlyPause`, `RunsAreLicensed` | `TypeOK`, `MotionIsARun`, `ClockIsMotion`, `StartsLicensed` |
| `SupervisedRunProofs` | `TypeCorrect`, `EndingsCostLittle`, `RunsEndStopped` | `TypeOK`, `CallsAreHeeded`, `RestsUnlessUnplugged` |
| | `ReportedTurnsAreTurned` | `CompletedMeansTurned`, for a tolerance no wider than the threshold |
| | `LanesEnd` | `OverrunBounded` |
| | `ChunksCorrectHeading` | `CorrectsHeading`, for a tolerance no wider than the threshold |
| `MotionCalibrationProofs` | `EntriesValid`, `ApprovedEntriesDriven`, `BackupsKeepValues` | `StoreValid`, `ApprovedWasDriven`, `BackupKeepsValues` |
| | `ImplementsStore` | `KeepsStore`: the commands implement `CalibrationStore` |
| `FieldSessionProofs` | `OnePlanDriven`, `LicenceHolds`, `AlignedMeansFacing` | `DrivesOnePlan`, `LicensedMotion`, `AlignedFacesTarget` |

Each module proves an inductive invariant, or one for each question (initial
states, one lemma per action or group of actions, the step), and the theorems
follow from it. TLC checked each invariant on the instance before it was proved.

- **Station.** `StationDeadline` says that motion has an age, which is not
  inductive: the saturated age has lost the reason. `DeadlineInv` keeps the reason:
  the link is at least as fresh as the manual command, and a moving output is at
  most `Timeout + sinceLoop` old, which the arbitration restores to `Timeout` and a
  tick may lengthen only together with `sinceLoop`. `CommandsExclusive` is needed in
  the arbitration, where a station driver must not leave a grant behind; the
  refinement uses it the same way. The refinement maps each line to the step of
  the authority it stands for, the arbitration to `Decide`, time to `Contact`.
- **Guarded USB.** `MotionBounded` has to survive the steps between the top of a
  pass, which ages everything, and the update, which ends what is over. `Ages`
  states it with `Slack`, one pass while lines are being read and none afterwards;
  it leaves out a pulse beside a live drive, whose clock is not looked at. `Causes`
  says why something may move: an arm means rest, and a moving output has an
  active pulse or live drive behind it. The refinement to `MotionPermit` follows
  from `Causes`.
- **Host and firmware.** The firmware's `IInv` is reused: the host's own steps leave
  it alone. `SettlesDisarmed` and `PulseBounded` have to hold whatever times out, so
  `Leftovers` does not follow the handshake: it looks at the lines in transit. An
  arm can only be left by an ARM that is the last line (`ArmWaits`), a live drive
  only by a setpoint with no stop after it (`LiveWaits`), each while the host is
  still in the wait that goes with it; and no ARM or CMD is in transit behind a
  setpoint without a stop between them (`LiveApart`). `ReturnsAtRest` is about rows
  too: `InStep` says for each wait of the host which lines and rows are in transit
  and what the firmware is doing, as long as no wait has given up. Stop rows may be
  left over anywhere; any other row answers the line last written. Its hypothesis is
  that only a firmware that knows setpoints is sent any, as every profile of the
  command line is built (`cli.py:182,219`): another would answer LIVE_STOP with a
  reject, which stays in transit and may be taken for the answer to a later line.
  The refinement of `GuardedCall` reads both: `InStep` says which line the firmware may
  read in which wait (`CallRead`), hence what each call may make of the rover, and that
  a wait that ends a call leaves it at rest (`CallHost`); `Leftovers` keeps a pulse from
  hiding under a live drive once a wait has given up.
- **Receiver.** `SyncInv` follows the wire: after a frame start in sight `ppmIndex` is
  its slot, and the channels below it are this frame's (`now`), those above it the
  one's before it (`last`) from the second start on. `FittingReceiver` is needed there: a channel
  that looked like a gap, or like noise, would put the decoder out of step for ever. `DecoderInv`
  says of `written` that the index counts it, so an accepted frame has written every
  channel that is read. `ReaderInv` adds, for each place of a reader, how its clock, its
  stamp and what it found at its start are ordered (`ClockFacts`, `StampFacts`); it does
  not depend on the order of the two reads. Before the subtraction wraps the stamp must
  be later than the clock, which is the exception `LossIsReal` names.
- **Pattern.** `ClockIsMotion` holds because the mark of an outage is subtracted
  when the outage ends: `Clock` is the step's age without the outage, and
  `ClockFacts` bounds how far it may lead `moved`, in every phase of a pass that
  begins a step. `License` says that an arm has a MANUAL pass behind it, which a long
  outage takes away together with the arm.
- **Supervised run.** `CallFacts` keeps what a chunk or a turn has shown until its row is
  recorded (`fault`, `manual`), which ends the run, and has the gate let nothing pass but
  a row that calls for nothing. `ExcessFacts` counts from there: what has begun since is
  no more than the bursts of the turn under way. `RestFacts` says that a motion line is
  out only in the two places that wait for it. `TurnFacts` ties what is left of a turn to
  the rover's own heading as long as every stop was confirmed, which is what makes
  `ok` mean something. The hypothesis of that theorem (the defaults are 5 and 8
  degrees) is needed where a correction starts from a row older than the chunk: with
  a wider tolerance it would be complete before the rover has been looked at.
- **Where a run takes the rover.** `OverrunInv` says how old the position is by which
  a lane ends (`Seen`): the rover's own before a chunk, at most a chunk old after it.
  One that is not past the end leaves the rover within a chunk of it, so another
  chunk begins only within `Reach` and ends at most a chunk beyond. A rover that
  was beyond the end when the lane began drives one chunk all the same, hence
  `begun`. `HeadingInv` follows a correction: it is asked for the error of its first
  row, and where none was asked for, a fresh row has shown none; the frame given at
  the start is never taken again (`FrameKept`). `ErrorIsTrue` turns both into the
  error of the rover itself: headings that differ by whole turns (`Same`) add up and
  wrap to the same value.
- **Calibration.** `Signed` is the part of the validator that no adjustment breaks;
  with it clamping makes a candidate valid whatever its amounts (`ClampValid`,
  `AdjustSigned`). `BackupFacts` carries the intact backup from the copy to the step
  that replaces the file. The refinement reads the entries of a file that is being
  written from the job that writes it.
- **Session.** `DirFacts` relates the two files of the directory through the writer's
  place, `PlanFacts` the two reads of a session through the number of plans made in
  between. The licence holds because what a session has passed is never written again.
  For `AlignedFacesTarget` the rows of yaw that wait are tied to the rover: neighbours
  differ by one swing at most, and so do the last of them and what it has turned
  (`YawRowFacts`), hence the oldest is within `Lag` of it once the stop has arrived
  (`SampleFacts`). `WhereAligned` then does the arithmetic of the code: with its sign
  dropped, a yaw on the side of the error leaves the error less the yaw, and one on the
  other side the error plus the yaw, up to whole turns (`WrappedTurns`, `WrappedLeast`).

Only model-checked: the liveness properties (`SilenceStops`, `PilotRegains`,
`PulseEnds`, `CrashComesToRest`, both `RunEnds`), which need fairness, and the layouts
of the pattern (`RunsTheLawnmower`) and of the plan (`PlanIsDrivable`), folds over
sequences that would need an induction over their length. Every other property of a
passing run is a theorem.

## 5. What is not modelled, and limits

- The length of a pass is bounded by assumption. The status rows of
  `stage16PrintStatus` are written without the stall guard other prints use, so a
  host that holds the port open and does not read can lengthen a pass; the USB
  driver that decides by how much is not part of this repository. The guard's own
  timers are not modelled.
- `millis()` does not wrap in `PpmReceiver`. The other modules take its verdict as an
  input that may change at any pass, which allows more than it does.
- A fault of the wire leaves channels shifted until the next gap. As long as their
  widths are in range and the index is far enough the code accepts them, and no
  property says otherwise; `TwoFramesAtMost` begins at the second frame start after a
  fault.
- The bench builds (motor pulse, ground crawl, Stage 15 harness) and the
  path-following build, whose output is off by default.
- An arm has no age in the code. It waits until it is used, until a takeover, a
  lost signal, a reject or a stop takes it; no property says otherwise.
- A takeover drops a pulse and an arm without a status row and without a latch,
  so a host learns of it by a timeout only. The model does the same.
- Sizes of commands are classes. What a `nan` does in the limit tests is outside.
- `executor.py:287` tests a row for `_raw`, which nothing sets; the test is dead
  and has no counterpart.
- `SupervisedRun` counts headings and places in steps and has no measurement noise
  but missing, bad and jumping rows; how well the motor corrections work is outside.
- The bench commands of `cli.py` (uploads, pulse and live tests, receiver and station
  diagnosis, GPS wait) are straight sequences around the executor, which `PulseHost`
  models; their reports, the argument parser, previews and plots decide nothing.
- The resolution of calibration entries into commands (`calibration.py:129-437`) and the
  completeness gate, which tests one reading of the file against the lanes.
- That a run drives one plan is checked but where a preview died, or was at work,
  between the first two files of its directory: nothing in the code tells.
- Rectangles at an angle, geodesy, the core and side-tool planners, filters, plots
  and log analysis are floating-point algorithms or reports: TLC cannot check them
  at a useful resolution. They are most of the repository's lines, which is why the
  map covers a small share of it.
- The heap that a long HC-12 line would use, serial drivers, EEPROM and the motor
  drivers are outside the model. So is telemetry, debug and status output of the
  firmware except for the rows the host waits for.
- ROS skeletons, bench sketches, `legacy/` and `archive/` are unused code.
  `PROJECT.json` lists each part with its status.

## 6. What could follow

1. One module for the builds that move once per AUTO entry (`.ino:1375-1578`,
   `1758-1803`, `1884-1972`, `6032-6132`).
2. `usbDebugPrintAllowed` (`.ino:2909-2944`) against a host that stalls and returns,
   in place of the assumption on the length of a pass.
3. A second axis in `SupervisedRun`, so that step-overs are driven too, and a
   refinement of its `DriveRows` by `PulseHost`.
4. An abstract specification of a supervised run, which drives a plan lane by lane,
   over `GuardedCall`.
