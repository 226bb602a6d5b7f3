-------------------------- MODULE MotionCalibration --------------------------
(* The store of calibrated motions, motion_calibration.json, and the commands  *)
(* that write it (tools/physical_path_planning/tuning.py and cli.py):          *)
(*   tune-motion             drives a candidate, asks the operator, adjusts it *)
(*                           and saves the one that is approved;               *)
(*   set-motion-calibration  backs the file up and merges checked entries;     *)
(*   reset-motion-calibration  backs the file up and removes it.               *)
(* A command may die between any two writes. A file is opened, and so emptied, *)
(* before it is written: a death in between leaves it "torn". Commands are in  *)
(* thousandths of full scale, times in milliseconds.                           *)
EXTENDS Integers

CONSTANTS
  Primitives,   \* the motions in use, a subset of AllPrimitives
  MinMs,        \* shortest pulse of a candidate, MIN_MS
  MaxMs,        \* longest pulse of a candidate, MAX_MS
  MaxAbs,       \* largest command, MAX_ABS_A and MAX_ABS_B
  MaxTrials,    \* --max-iterations
  Proposals,    \* commands an operator gives to set-motion-calibration
  MaxClock,     \* seconds that pass: bound on backups with distinct names
  MaxJobs       \* commands started: bound on the length of a history

AllPrimitives ==
  {"forward", "backward", "left", "right", "turn-left-90", "turn-right-90"}

ASSUME StoreAssumption ==
  /\ Primitives \subseteq AllPrimitives
  /\ MinMs \in Nat \ {0} /\ MaxMs \in Nat /\ MinMs <= MaxMs
  /\ MaxAbs \in Nat /\ MaxAbs >= 300
  /\ Proposals \subseteq [a : Int, b : Int, ms : Int]
  /\ MaxTrials \in Nat \ {0} /\ MaxClock \in Nat \ {0} /\ MaxJobs \in Nat

VARIABLES
  file,      \* motion_calibration.json
  backups,   \* the backup of each second
  clock,     \* the second of the wall clock, which names a backup
  job,       \* the command that holds the store, and how far it is
  tried,     \* history: commands sent as a pulse whose rows did not refuse it
  started    \* commands started

vars == <<file, backups, clock, job, tried, started>>

-----------------------------------------------------------------------------
(* Commands and their limits.                                                *)
Command == [a : Int, b : Int, ms : Int]

Abs(x) == IF x < 0 THEN -x ELSE x
Bound(x, low, high) == IF x < low THEN low ELSE IF x > high THEN high ELSE x

Turns90 == {"turn-left-90", "turn-right-90"}
Lefts == {"left", "turn-left-90"}
Rights == {"right", "turn-right-90"}

\* validate_manual_calibration_entry raises nothing.
Valid(p, c) ==
  /\ c.ms \in 1..MaxMs
  /\ Abs(c.a) <= MaxAbs /\ Abs(c.b) <= MaxAbs
  /\ p = "forward" => c.a > 0
  /\ p = "backward" => c.a < 0
  /\ p \in Lefts => c.b > 0
  /\ p \in Rights => c.b < 0

InitialCandidates ==
  [p \in AllPrimitives |->
    CASE p = "forward" -> [a |-> 300, b |-> 0, ms |-> 800]
      [] p = "backward" -> [a |-> -80, b |-> 0, ms |-> 300]
      [] p = "left" -> [a |-> 0, b |-> 260, ms |-> 700]
      [] p = "right" -> [a |-> 0, b |-> -80, ms |-> 250]
      [] p = "turn-left-90" -> [a |-> 0, b |-> 240, ms |-> 2200]
      [] p = "turn-right-90" -> [a |-> 0, b |-> -120, ms |-> 2200]]

\* Mutant for StoreValid: the longest pulse is not enforced.
ClampShortest(p, c) ==
  [c EXCEPT !.a = Bound(@, -MaxAbs, MaxAbs), !.b = Bound(@, -MaxAbs, MaxAbs),
            !.ms = IF @ < MinMs THEN MinMs ELSE @]

clamp_candidate(p, c) ==
  LET a == Bound(c.a, -MaxAbs, MaxAbs)
      b == Bound(c.b, -MaxAbs, MaxAbs)
  IN [a |-> CASE p = "forward" -> Abs(a) [] p = "backward" -> -Abs(a) [] OTHER -> a,
      b |-> CASE p \in Lefts -> Abs(b) [] p \in Rights -> -Abs(b) [] OTHER -> b,
      ms |-> Bound(c.ms, MinMs, MaxMs)]

\* What a pulse is lengthened or shortened by, and how its command grows once
\* the longest pulse is too short.
Stretch(p) == CASE p \in Turns90 -> 150 [] p = "backward" -> 50 [] OTHER -> 100
Harder(p, c) ==
  CASE p = "forward" -> [c EXCEPT !.a = @ + 20]
    [] p = "backward" -> [c EXCEPT !.a = @ - 10]
    [] p \in Lefts -> [c EXCEPT !.b = @ + 20]
    [] OTHER -> [c EXCEPT !.b = @ - 20]
Steered(p, c, side) ==
  [c EXCEPT !.b = IF (p = "forward") = (side = "left") THEN @ - 20 ELSE @ + 20]

Feedbacks == {"good", "weak", "strong", "left", "right", "retry"}

\* A measured yaw overrules what the operator says of a turn by 90 degrees.
Graded(p, feedback, yaw) ==
  IF feedback # "retry" /\ p \in Turns90 /\ yaw # "none" THEN yaw ELSE feedback

adjust_candidate(p, c, feedback, yaw) ==
  LET grade == Graded(p, feedback, yaw)
      longer == [c EXCEPT !.ms = @ + Stretch(p)]
  IN clamp_candidate(p,
       CASE grade = "weak" ->
              IF longer.ms > MaxMs THEN Harder(p, longer) ELSE longer
         [] grade = "strong" -> [c EXCEPT !.ms = @ - Stretch(p)]
         [] grade \in {"left", "right"} /\ p \in {"forward", "backward"} ->
              Steered(p, c, grade)
         [] OTHER -> c)

-----------------------------------------------------------------------------
(* The store.                                                                *)
NoEntry == [a |-> 0, b |-> 0, ms |-> 0, by |-> "none"]
Entry(c, by) == [a |-> c.a, b |-> c.b, ms |-> c.ms, by |-> by]
Driven(p, e) == [primitive |-> p, a |-> e.a, b |-> e.b, ms |-> e.ms]

Empty == [p \in Primitives |-> NoEntry]
File(kind, entries) == [kind |-> kind, entries |-> entries]
Absent == File("absent", Empty)
Torn == File("torn", Empty)

\* MANUAL_CALIBRATION_PRESETS, as far as its motions are in use.
Preset ==
  [p \in Primitives \ {"left", "right"} |->
    CASE p = "forward" -> [a |-> 300, b |-> 0, ms |-> 1000]
      [] p = "backward" -> [a |-> -80, b |-> 0, ms |-> 350]
      [] p = "turn-left-90" -> [a |-> 0, b |-> 260, ms |-> 2400]
      [] p = "turn-right-90" -> [a |-> 0, b |-> -80, ms |-> 1000]]
Overrides == {[p \in {q} |-> c] : q \in Primitives, c \in Proposals}
Updates == {u \in Overrides \cup {Preset} : \A p \in DOMAIN u : Valid(p, u[p])}

Merged(entries, u) ==
  [p \in Primitives |-> IF p \in DOMAIN u THEN Entry(u[p], "manual") ELSE entries[p]]

-----------------------------------------------------------------------------
(* One command at a time holds the store.                                    *)
Idle == [name |-> "idle", phase |-> "idle", primitive |-> "none",
         candidate |-> [a |-> 0, b |-> 0, ms |-> 0], trial |-> 0,
         opposite |-> FALSE, yaw |-> "none", entries |-> Empty, stamp |-> 0]

Init ==
  /\ file \in {Absent} \cup {File("whole", Merged(Empty, u)) : u \in Updates}
  /\ backups = [s \in 1..MaxClock |-> Absent]
  /\ clock = 1
  /\ job = Idle
  /\ tried = {}
  /\ started = 0

Started(j) ==
  /\ job = Idle /\ started < MaxJobs
  /\ job' = j
  /\ started' = started + 1
  /\ UNCHANGED <<file, backups, clock, tried>>

cmd_set_motion_calibration ==
  \E u \in Updates :
    Started([Idle EXCEPT !.name = "set", !.phase = "backup", !.entries = Merged(Empty, u)])
cmd_reset_motion_calibration ==
  Started([Idle EXCEPT !.name = "reset", !.phase = "backup"])
cmd_tune_motion ==
  \E p \in Primitives, reset \in BOOLEAN :
    Started([Idle EXCEPT !.name = "tune", !.phase = IF reset THEN "backup" ELSE "trial",
                         !.primitive = p, !.candidate = InitialCandidates[p], !.trial = 1])

AfterBackup == IF job.name = "set" THEN "merge" ELSE "unlink"

\* Mutant for BackupKeepsValues: the file is backed up for a set, but not for a reset.
OpenBackupOfSet ==
  /\ job.phase = "backup"
  /\ IF file.kind = "absent" \/ job.name = "reset"
       THEN /\ job' = [job EXCEPT !.phase = AfterBackup]
            /\ UNCHANGED backups
       ELSE /\ job' = [job EXCEPT !.phase = "copy", !.stamp = clock]
            /\ backups' = [backups EXCEPT ![clock] = Torn]
  /\ UNCHANGED <<file, clock, tried, started>>

\* backup_calibration opens the backup of this second, emptying an earlier one.
OpenBackup ==
  /\ job.phase = "backup"
  /\ IF file.kind = "absent"
       THEN /\ job' = [job EXCEPT !.phase = AfterBackup]
            /\ UNCHANGED backups
       ELSE /\ job' = [job EXCEPT !.phase = "copy", !.stamp = clock]
            /\ backups' = [backups EXCEPT ![clock] = Torn]
  /\ UNCHANGED <<file, clock, tried, started>>

WriteBackup ==
  /\ job.phase = "copy"
  /\ backups' = [backups EXCEPT ![job.stamp] = file]
  /\ job' = [job EXCEPT !.phase = AfterBackup]
  /\ UNCHANGED <<file, clock, tried, started>>

\* reset_calibration removes the file; tune-motion goes on to its first trial.
Unlink ==
  /\ job.phase = "unlink"
  /\ file' = Absent
  /\ job' = IF job.name = "tune" THEN [job EXCEPT !.phase = "trial"] ELSE Idle
  /\ UNCHANGED <<backups, clock, tried, started>>

\* Mutant for KeepsStore: what the file holds is not read back before it is written.
OpenFileAnew ==
  /\ job.phase = "merge"
  /\ job' = [job EXCEPT !.phase = "write"]
  /\ file' = Torn
  /\ UNCHANGED <<backups, clock, tried, started>>

\* The entries are merged into what the file holds; a torn file is refused.
OpenFile ==
  /\ job.phase = "merge"
  /\ IF file.kind = "torn"
       THEN job' = Idle /\ UNCHANGED file
       ELSE /\ job' = [job EXCEPT
                 !.phase = "write",
                 !.entries = [p \in Primitives |->
                   IF @[p] = NoEntry THEN file.entries[p] ELSE @[p]]]
            /\ file' = Torn
  /\ UNCHANGED <<backups, clock, tried, started>>

WriteFile ==
  /\ job.phase = "write"
  /\ file' = File("whole", job.entries)
  /\ job' = Idle
  /\ UNCHANGED <<backups, clock, tried, started>>

-----------------------------------------------------------------------------
(* A tuning session.                                                         *)
Trialled(p, c) == tried' = tried \cup {Driven(p, c)}

\* A transient against the commanded direction is looked for on straight motion.
Opposites(p) == IF p \in {"forward", "backward"} THEN BOOLEAN ELSE {FALSE}
Yaws == {"none", "weak", "good", "strong"}

Trial ==
  /\ job.phase = "trial"
  /\ LET p == job.primitive
         c == clamp_candidate(p, job.candidate)
     IN \/ job' = Idle /\ UNCHANGED tried  \* no heartbeat, abort, lost port, bad pulse
        \/ \E opposite \in Opposites(p), yaw \in IF p \in Turns90 THEN Yaws ELSE {"none"} :
             /\ job' = [job EXCEPT !.phase = "ask", !.candidate = c,
                                   !.opposite = opposite, !.yaw = yaw]
             /\ IF opposite THEN UNCHANGED tried ELSE Trialled(p, c)
  /\ UNCHANGED <<file, backups, clock, started>>

\* Mutant for ApprovedWasDriven: a transient the wrong way is not looked at.
ApproveAnyPulse ==
  /\ job.phase = "ask"
  /\ job' = [job EXCEPT !.phase = "merge",
       !.entries = [Empty EXCEPT ![job.primitive] = Entry(job.candidate, "tuned")]]
  /\ UNCHANGED <<file, backups, clock, tried, started>>

\* save_approved_calibration: no backup; a torn file ends the command.
Approve ==
  /\ job.phase = "ask"
  /\ IF job.opposite
       THEN job' = Idle
       ELSE job' = [job EXCEPT !.phase = "merge",
                      !.entries = [Empty EXCEPT ![job.primitive] = Entry(job.candidate, "tuned")]]
  /\ UNCHANGED <<file, backups, clock, tried, started>>

Adjust ==
  /\ job.phase = "ask"
  /\ \E feedback \in Feedbacks :
       job' = IF job.trial = MaxTrials THEN Idle
              ELSE [job EXCEPT !.phase = "trial", !.trial = @ + 1, !.opposite = FALSE,
                      !.yaw = "none",
                      !.candidate = adjust_candidate(job.primitive, @, feedback, job.yaw)]
  /\ UNCHANGED <<file, backups, clock, tried, started>>

\* The process is killed, loses power or is interrupted.
Die ==
  /\ job # Idle
  /\ job' = Idle
  /\ UNCHANGED <<file, backups, clock, tried, started>>

Tick ==
  /\ clock < MaxClock
  /\ clock' = clock + 1
  /\ UNCHANGED <<file, backups, job, tried, started>>

Next ==
  \/ cmd_set_motion_calibration \/ cmd_reset_motion_calibration \/ cmd_tune_motion
  \/ OpenBackup \/ WriteBackup \/ Unlink \/ OpenFile \/ WriteFile
  \/ Trial \/ Approve \/ Adjust \/ Die \/ Tick

Spec == Init /\ [][Next]_vars

-----------------------------------------------------------------------------
(* What a reader sees of the store.                                          *)
Calibrated(entries) == {p \in Primitives : entries[p] # NoEntry}
Writing == job.phase = "write"

Store == INSTANCE CalibrationStore WITH
  approved <- IF Writing THEN Calibrated(job.entries) ELSE Calibrated(file.entries),
  status <- IF Writing THEN "writing" ELSE IF file.kind = "torn" THEN "lost" ELSE "whole"

-----------------------------------------------------------------------------
(* Properties.                                                               *)
Contents == {file} \cup {backups[s] : s \in 1..MaxClock}

\* The validator runs in set-motion-calibration only: what tune-motion saves
\* after any series of adjustments passes it too.
StoreValid ==
  \A f \in Contents : \A p \in Primitives :
    f.entries[p] # NoEntry => Valid(p, f.entries[p])

\* An entry approved by an operator is the command of a pulse that was sent, that
\* its rows did not block and that did not jerk the wrong way: never the adjusted
\* candidate that was to come next.
ApprovedWasDriven ==
  \A f \in Contents : \A p \in Primitives :
    f.entries[p].by = "tuned" => Driven(p, f.entries[p]) \in tried

\* The command at work replaces or removes values it has not written itself.
Replacing == job.name = "set" \/ job.phase = "unlink"

\* Readers of the file see the store CalibrationStore describes: values are lost
\* by a reset, or by a death between the emptying of the file and its writing.
KeepsStore == Store!StoreSpec

\* Wherever set-motion-calibration or a reset dies, the values it replaces are in
\* the file or in an intact backup.
BackupKeepsValues ==
  [][file' # file /\ file.kind = "whole" /\ Replacing
       => \E s \in 1..MaxClock : backups'[s] = file]_vars
=============================================================================
