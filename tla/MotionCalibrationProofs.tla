------------------------ MODULE MotionCalibrationProofs ------------------------
(* Proofs about MotionCalibration, for every set of motions, every proposal,    *)
(* all limits, and any number of trials, commands and backups.                  *)
EXTENDS MotionCalibration, TLAPS

Makers == {"none", "manual", "tuned"}
EntryType == [a : Int, b : Int, ms : Int, by : Makers]
FileType == [kind : {"absent", "whole", "torn"}, entries : [Primitives -> EntryType]]
JobNames == {"idle", "set", "reset", "tune"}
JobPhases == {"idle", "backup", "copy", "merge", "unlink", "write", "trial", "ask"}
JobType ==
  [name : JobNames, phase : JobPhases, primitive : Primitives \cup {"none"},
   candidate : Command, trial : Nat, opposite : BOOLEAN, yaw : Yaws,
   entries : [Primitives -> EntryType], stamp : 0..MaxClock]

StoreTypes ==
  /\ file \in FileType
  /\ backups \in [1..MaxClock -> FileType]
  /\ clock \in 1..MaxClock
  /\ job \in JobType

\* The side a candidate has to keep: what no adjustment and no clamping changes.
Signed(p, c) ==
  /\ p = "forward" => c.a > 0
  /\ p = "backward" => c.a < 0
  /\ p \in Lefts => c.b > 0
  /\ p \in Rights => c.b < 0

Sound(entries) ==
  \A p \in Primitives :
    /\ entries[p] # NoEntry => Valid(p, entries[p])
    /\ entries[p].by = "tuned" => Driven(p, entries[p]) \in tried

EntryFacts ==
  /\ Sound(file.entries) /\ Sound(job.entries)
  /\ \A s \in 1..MaxClock : Sound(backups[s].entries)

CandidateFacts ==
  /\ job.phase \in {"trial", "ask"} => job.name = "tune"
  /\ job.name = "tune" => job.primitive \in Primitives /\ Signed(job.primitive, job.candidate)
  /\ job.phase = "ask" =>
       /\ Valid(job.primitive, job.candidate)
       /\ ~job.opposite => Driven(job.primitive, job.candidate) \in tried

WriteFacts ==
  /\ file.kind # "whole" => file.entries = Empty
  /\ job.phase = "write" => file = Torn

BackupFacts ==
  /\ job.phase = "copy" => job.stamp \in 1..MaxClock
  /\ job.phase = "unlink" \/ (job.phase = "merge" /\ job.name = "set") =>
       (file.kind = "whole" => \E s \in 1..MaxClock : backups[s] = file)

CalibrationFacts == StoreTypes /\ EntryFacts /\ CandidateFacts /\ WriteFacts /\ BackupFacts

-----------------------------------------------------------------------------
(* Commands.                                                                 *)

LEMMA ClampValid ==
  ASSUME NEW p \in Primitives, NEW c \in Command, Signed(p, c)
  PROVE  /\ clamp_candidate(p, c) \in Command
         /\ Valid(p, clamp_candidate(p, c))
         /\ Signed(p, clamp_candidate(p, c))
<1>. DEFINE a == Bound(c.a, -MaxAbs, MaxAbs)
            b == Bound(c.b, -MaxAbs, MaxAbs)
            m == Bound(c.ms, MinMs, MaxMs)
            d == clamp_candidate(p, c)
<1>1. c.a \in Int /\ c.b \in Int /\ c.ms \in Int
  BY DEF Command
<1>2. a \in -MaxAbs..MaxAbs /\ (c.a > 0 => a > 0) /\ (c.a < 0 => a < 0)
  BY <1>1, StoreAssumption DEF Bound
<1>3. b \in -MaxAbs..MaxAbs /\ (c.b > 0 => b > 0) /\ (c.b < 0 => b < 0)
  BY <1>1, StoreAssumption DEF Bound
<1>4. m \in 1..MaxMs
  BY <1>1, StoreAssumption DEF Bound
<1>. HIDE DEF a, b, m
<1>5. /\ d.a = CASE p = "forward" -> Abs(a) [] p = "backward" -> -Abs(a) [] OTHER -> a
      /\ d.b = CASE p \in Lefts -> Abs(b) [] p \in Rights -> -Abs(b) [] OTHER -> b
      /\ d.ms = m
      /\ d = [a |-> d.a, b |-> d.b, ms |-> d.ms]
  BY DEF clamp_candidate, a, b, m
<1>. HIDE DEF d
<1>6. MaxAbs \in Nat /\ MaxMs \in Nat
  BY StoreAssumption
<1>7. d.a \in -MaxAbs..MaxAbs /\ (p = "forward" => d.a > 0) /\ (p = "backward" => d.a < 0)
  BY <1>2, <1>5, <1>6 DEF Abs, Signed
<1>8. d.b \in -MaxAbs..MaxAbs /\ (p \in Lefts => d.b > 0) /\ (p \in Rights => d.b < 0)
  BY <1>3, <1>5, <1>6 DEF Abs, Signed, Lefts, Rights
<1>9. d \in Command
  BY <1>4, <1>5, <1>6, <1>7, <1>8 DEF Command
<1>10. Valid(p, d) /\ Signed(p, d)
  BY <1>4, <1>5, <1>6, <1>7, <1>8 DEF Valid, Signed, Abs
<1>. QED  BY <1>9, <1>10 DEF d

LEMMA AdjustSigned ==
  ASSUME NEW p \in Primitives, NEW c \in Command, Signed(p, c),
         NEW feedback \in Feedbacks, NEW yaw \in Yaws
  PROVE  /\ adjust_candidate(p, c, feedback, yaw) \in Command
         /\ Signed(p, adjust_candidate(p, c, feedback, yaw))
<1>. DEFINE longer == [c EXCEPT !.ms = @ + Stretch(p)]
            shorter == [c EXCEPT !.ms = @ - Stretch(p)]
<1>1. Stretch(p) \in Int
  BY DEF Stretch
<1>2. longer \in Command /\ Signed(p, longer) /\ shorter \in Command /\ Signed(p, shorter)
  BY <1>1 DEF Command, Signed
<1>3. Harder(p, longer) \in Command /\ Signed(p, Harder(p, longer))
  <2>. HIDE DEF longer
  <2>1. p \in AllPrimitives
    BY StoreAssumption
  <2>. QED  BY <1>2, <2>1 DEF Harder, Command, Signed, Lefts, Rights, AllPrimitives
<1>4. ASSUME NEW side, p \in {"forward", "backward"}
      PROVE  Steered(p, c, side) \in Command /\ Signed(p, Steered(p, c, side))
  BY <1>4 DEF Steered, Command, Signed, Lefts, Rights
<1>5. PICK d \in Command : Signed(p, d)
                           /\ adjust_candidate(p, c, feedback, yaw) = clamp_candidate(p, d)
  <2>. DEFINE grade == Graded(p, feedback, yaw)
  <2>1. CASE grade = "weak"
    BY <1>2, <1>3, <2>1 DEF adjust_candidate
  <2>2. CASE grade = "strong"
    BY <1>2, <2>2 DEF adjust_candidate
  <2>3. CASE grade \in {"left", "right"} /\ p \in {"forward", "backward"}
    BY <1>4, <2>3 DEF adjust_candidate
  <2>4. CASE ~(grade \in {"weak", "strong"})
             /\ ~(grade \in {"left", "right"} /\ p \in {"forward", "backward"})
    BY <2>4 DEF adjust_candidate
  <2>. QED  BY <2>1, <2>2, <2>3, <2>4
<1>. QED  BY <1>5, ClampValid

-----------------------------------------------------------------------------
(* Entries.                                                                  *)

LEMMA EmptyType == Empty \in [Primitives -> EntryType] /\ Absent \in FileType /\ Torn \in FileType
  BY DEF Empty, NoEntry, EntryType, Makers, Absent, Torn, File, FileType

LEMMA IdleType == Idle \in JobType
  BY EmptyType, StoreAssumption DEF Idle, JobType, JobNames, JobPhases, Command, Yaws

LEMMA EntryIsValid ==
  ASSUME NEW p \in Primitives, NEW c \in Command, NEW by \in Makers, Valid(p, c)
  PROVE  Entry(c, by) \in EntryType /\ Valid(p, Entry(c, by)) /\ Entry(c, by).by = by
  BY DEF Entry, EntryType, Command, Valid

\* Preset and Proposals, as far as they pass the validator.
LEMMA UpdateTypes ==
  ASSUME NEW u \in Updates, NEW p \in Primitives, p \in DOMAIN u
  PROVE  u[p] \in Command /\ Valid(p, u[p])
<1>1. Valid(p, u[p])
  BY DEF Updates
<1>2. CASE u \in Overrides
  <2>1. PICK q \in Primitives, c \in Proposals : u = [r \in {q} |-> c]
    BY <1>2 DEF Overrides
  <2>2. u[p] = c /\ c \in Command
    BY <2>1, StoreAssumption DEF Command
  <2>. QED  BY <1>1, <2>2
<1>3. CASE u = Preset
  <2>1. p \in Primitives \ {"left", "right"} /\ p \in AllPrimitives
    BY <1>3, StoreAssumption DEF Preset
  <2>2. u[p] = CASE p = "forward" -> [a |-> 300, b |-> 0, ms |-> 1000]
                 [] p = "backward" -> [a |-> -80, b |-> 0, ms |-> 350]
                 [] p = "turn-left-90" -> [a |-> 0, b |-> 260, ms |-> 2400]
                 [] p = "turn-right-90" -> [a |-> 0, b |-> -80, ms |-> 1000]
    BY <1>3, <2>1 DEF Preset
  <2>3. /\ [a |-> 300, b |-> 0, ms |-> 1000] \in Command /\ [a |-> -80, b |-> 0, ms |-> 350] \in Command
        /\ [a |-> 0, b |-> 260, ms |-> 2400] \in Command /\ [a |-> 0, b |-> -80, ms |-> 1000] \in Command
    BY DEF Command
  <2>4. p \in {"forward", "backward", "turn-left-90", "turn-right-90"}
    BY <2>1 DEF AllPrimitives
  <2>. QED  BY <1>1, <2>2, <2>3, <2>4
<1>. QED  BY <1>2, <1>3 DEF Updates

LEMMA MergedSound ==
  ASSUME NEW u \in Updates
  PROVE  /\ Merged(Empty, u) \in [Primitives -> EntryType]
         /\ \A p \in Primitives :
              /\ Merged(Empty, u)[p] # NoEntry => Valid(p, Merged(Empty, u)[p])
              /\ Merged(Empty, u)[p].by # "tuned"
<1>1. ASSUME NEW p \in Primitives
      PROVE  /\ Merged(Empty, u)[p] \in EntryType
             /\ Merged(Empty, u)[p] # NoEntry => Valid(p, Merged(Empty, u)[p])
             /\ Merged(Empty, u)[p].by # "tuned"
  <2>1. CASE p \in DOMAIN u
    <3>1. Merged(Empty, u)[p] = Entry(u[p], "manual")
      BY <2>1 DEF Merged
    <3>. QED  BY <2>1, <3>1, UpdateTypes, EntryIsValid DEF Makers
  <2>2. CASE p \notin DOMAIN u
    <3>1. Merged(Empty, u)[p] = NoEntry
      BY <2>2 DEF Merged, Empty
    <3>. QED  BY <3>1 DEF NoEntry, EntryType, Makers
  <2>. QED  BY <2>1, <2>2
<1>2. Merged(Empty, u) \in [Primitives -> EntryType]
  BY <1>1 DEF Merged
<1>. QED  BY <1>1, <1>2

LEMMA InitialSigned ==
  ASSUME NEW p \in Primitives
  PROVE  InitialCandidates[p] \in Command /\ Signed(p, InitialCandidates[p])
<1>1. p \in AllPrimitives
  BY StoreAssumption
<1>2. InitialCandidates[p] =
        CASE p = "forward" -> [a |-> 300, b |-> 0, ms |-> 800]
          [] p = "backward" -> [a |-> -80, b |-> 0, ms |-> 300]
          [] p = "left" -> [a |-> 0, b |-> 260, ms |-> 700]
          [] p = "right" -> [a |-> 0, b |-> -80, ms |-> 250]
          [] p = "turn-left-90" -> [a |-> 0, b |-> 240, ms |-> 2200]
          [] p = "turn-right-90" -> [a |-> 0, b |-> -120, ms |-> 2200]
  BY <1>1 DEF InitialCandidates
<1>. QED  BY <1>1, <1>2 DEF AllPrimitives, Command, Signed, Lefts, Rights

-----------------------------------------------------------------------------
LEMMA InitFacts == Init => CalibrationFacts
<1>. SUFFICES ASSUME Init PROVE CalibrationFacts
  OBVIOUS
<1>1. Idle \in JobType
  BY IdleType
<1>2. PICK f \in [Primitives -> EntryType], kind \in {"absent", "whole"} :
        /\ file = File(kind, f)
        /\ kind = "absent" => f = Empty
        /\ \A p \in Primitives : (f[p] # NoEntry => Valid(p, f[p])) /\ f[p].by # "tuned"
  <2>1. CASE file = Absent
    BY <2>1, EmptyType DEF Absent, Empty, NoEntry
  <2>2. CASE file # Absent
    <3>1. PICK u \in Updates : file = File("whole", Merged(Empty, u))
      BY <2>2 DEF Init
    <3>. QED  BY <3>1, MergedSound
  <2>. QED  BY <2>1, <2>2
<1>3. StoreTypes
  BY <1>1, <1>2, EmptyType, StoreAssumption DEF Init, StoreTypes, File, FileType
<1>4. Sound(Empty)
  BY DEF Sound, Empty, NoEntry
<1>5. EntryFacts
  <2>1. Sound(file.entries)
    BY <1>2 DEF Sound, File
  <2>2. Sound(job.entries) /\ \A s \in 1..MaxClock : Sound(backups[s].entries)
    BY <1>4 DEF Init, Idle, Absent, File
  <2>. QED  BY <2>1, <2>2 DEF EntryFacts
<1>6. CandidateFacts /\ WriteFacts /\ BackupFacts
  BY <1>2 DEF Init, CandidateFacts, WriteFacts, BackupFacts, Idle, File
<1>. QED  BY <1>3, <1>5, <1>6 DEF CalibrationFacts

-----------------------------------------------------------------------------
(* Steps. What a command does to its own record.                             *)

\* A command that ends, or has not begun, promises nothing.
LEMMA IdleFacts ==
  ASSUME CalibrationFacts, job' = Idle, UNCHANGED <<file, backups, clock, tried>>
  PROVE  CalibrationFacts'
<1>1. Idle \in JobType
  BY IdleType
<1>2. StoreTypes'
  BY <1>1 DEF CalibrationFacts, StoreTypes
<1>3. EntryFacts'
  BY DEF CalibrationFacts, EntryFacts, Sound, Idle, Empty, NoEntry
<1>4. CandidateFacts' /\ WriteFacts' /\ BackupFacts'
  BY DEF CalibrationFacts, CandidateFacts, WriteFacts, BackupFacts, Idle
<1>. QED  BY <1>2, <1>3, <1>4 DEF CalibrationFacts

LEMMA StartedFacts ==
  ASSUME CalibrationFacts,
         cmd_set_motion_calibration \/ cmd_reset_motion_calibration \/ cmd_tune_motion
  PROVE  CalibrationFacts'
<1>1. UNCHANGED <<file, backups, clock, tried>>
  BY DEF cmd_set_motion_calibration, cmd_reset_motion_calibration, cmd_tune_motion, Started
<1>2. /\ job' \in JobType
      /\ job'.phase \in {"backup", "trial"}
      /\ \A p \in Primitives :
           /\ job'.entries[p] # NoEntry => Valid(p, job'.entries[p])
           /\ job'.entries[p].by # "tuned"
      /\ job'.phase = "trial" => job'.name = "tune"
      /\ job'.name = "tune" =>
           job'.primitive \in Primitives /\ Signed(job'.primitive, job'.candidate)
  <2>1. /\ Idle \in JobType /\ Idle.entries = Empty /\ Idle.phase = "idle"
        /\ Empty \in [Primitives -> EntryType]
        /\ \A p \in Primitives : Empty[p] = NoEntry /\ Empty[p].by # "tuned"
    BY IdleType, EmptyType DEF Idle, Empty, NoEntry
  <2>2. CASE cmd_set_motion_calibration
    <3>1. PICK u \in Updates :
            job' = [Idle EXCEPT !.name = "set", !.phase = "backup", !.entries = Merged(Empty, u)]
      BY <2>2 DEF cmd_set_motion_calibration, Started
    <3>. DEFINE e == Merged(Empty, u)
    <3>2. /\ e \in [Primitives -> EntryType]
          /\ \A p \in Primitives : (e[p] # NoEntry => Valid(p, e[p])) /\ e[p].by # "tuned"
      BY MergedSound
    <3>. HIDE DEF e
    <3>3. /\ job' \in JobType /\ job'.phase = "backup" /\ job'.name = "set" /\ job'.entries = e
      BY <2>1, <3>1, <3>2 DEF JobType, JobNames, JobPhases, e
    <3>. QED  BY <3>2, <3>3
  <2>3. CASE cmd_reset_motion_calibration
    <3>1. job' = [Idle EXCEPT !.name = "reset", !.phase = "backup"]
      BY <2>3 DEF cmd_reset_motion_calibration, Started
    <3>2. /\ job' \in JobType /\ job'.phase = "backup" /\ job'.name = "reset" /\ job'.entries = Empty
      BY <2>1, <3>1 DEF JobType, JobNames, JobPhases
    <3>. QED  BY <2>1, <3>2
  <2>4. CASE cmd_tune_motion
    <3>1. PICK p \in Primitives, phase \in {"backup", "trial"} :
            job' = [Idle EXCEPT !.name = "tune", !.phase = phase, !.primitive = p,
                                !.candidate = InitialCandidates[p], !.trial = 1]
      <4>1. PICK p \in Primitives, reset \in BOOLEAN :
              job' = [Idle EXCEPT !.name = "tune", !.phase = IF reset THEN "backup" ELSE "trial",
                                  !.primitive = p, !.candidate = InitialCandidates[p], !.trial = 1]
        BY <2>4 DEF cmd_tune_motion, Started
      <4>. QED  BY <4>1
    <3>2. InitialCandidates[p] \in Command /\ Signed(p, InitialCandidates[p])
      BY InitialSigned
    <3>3. /\ job' \in JobType /\ job'.phase = phase /\ job'.name = "tune" /\ job'.entries = Empty
          /\ job'.primitive = p /\ job'.candidate = InitialCandidates[p]
      <4>. DEFINE c == InitialCandidates[p]
      <4>. HIDE DEF c
      <4>1. job' = [Idle EXCEPT !.name = "tune", !.phase = phase, !.primitive = p,
                                !.candidate = c, !.trial = 1]
        BY <3>1 DEF c
      <4>2. c \in Command
        BY <3>2 DEF c
      <4>3. /\ job' \in JobType /\ job'.phase = phase /\ job'.name = "tune" /\ job'.entries = Empty
            /\ job'.primitive = p /\ job'.candidate = c
        BY <2>1, <4>1, <4>2 DEF JobType, JobNames, JobPhases
      <4>. QED  BY <4>3 DEF c
    <3>. QED  BY <2>1, <3>2, <3>3
  <2>. QED  BY <2>2, <2>3, <2>4
<1>3. StoreTypes'
  BY <1>1, <1>2 DEF CalibrationFacts, StoreTypes
<1>4. EntryFacts'
  BY <1>1, <1>2 DEF CalibrationFacts, EntryFacts, Sound
<1>5. CandidateFacts' /\ WriteFacts' /\ BackupFacts'
  BY <1>1, <1>2 DEF CalibrationFacts, CandidateFacts, WriteFacts, BackupFacts
<1>. QED  BY <1>3, <1>4, <1>5 DEF CalibrationFacts

\* The file and its backups.
LEMMA BackupStepFacts ==
  ASSUME CalibrationFacts, OpenBackup \/ WriteBackup
  PROVE  CalibrationFacts'
<1>1. job \in JobType /\ file \in FileType /\ backups \in [1..MaxClock -> FileType]
      /\ clock \in 1..MaxClock
  BY DEF CalibrationFacts, StoreTypes
<1>2. CASE OpenBackup
  <2>. DEFINE p == IF file.kind = "absent" THEN AfterBackup ELSE "copy"
              n == IF file.kind = "absent" THEN job.stamp ELSE clock
  <2>1. job' = [job EXCEPT !.phase = p, !.stamp = n]
    BY <1>1, <1>2 DEF OpenBackup, JobType
  <2>2. p \in JobPhases /\ p \in {"copy", "merge", "unlink"} /\ n \in 0..MaxClock
        /\ (p = "merge" => job.name = "set") /\ (p = "copy" => n = clock)
        /\ (p # "copy" => file.kind = "absent")
    BY <1>1, StoreAssumption DEF JobPhases, AfterBackup, JobType
  <2>. HIDE DEF p, n
  <2>3. /\ job' \in JobType /\ job'.phase = p /\ job'.stamp = n /\ job'.name = job.name
        /\ job'.entries = job.entries /\ job'.primitive = job.primitive
        /\ job'.candidate = job.candidate
    BY ONLY <1>1, <2>1, <2>2 DEF JobType
  <2>4. UNCHANGED <<file, clock, tried>> /\ backups' \in [1..MaxClock -> FileType]
        /\ \A s \in 1..MaxClock : backups'[s] \in {backups[s], Torn}
    BY <1>1, <1>2, EmptyType DEF OpenBackup
  <2>5. StoreTypes'
    BY <1>1, <2>3, <2>4 DEF StoreTypes
  <2>6. EntryFacts'
    BY <2>3, <2>4 DEF CalibrationFacts, EntryFacts, Sound, Torn, File, Empty, NoEntry
  <2>7. CandidateFacts' /\ WriteFacts' /\ BackupFacts'
    BY <1>1, <2>2, <2>3, <2>4 DEF CalibrationFacts, CandidateFacts, WriteFacts, BackupFacts
  <2>. QED  BY <2>5, <2>6, <2>7 DEF CalibrationFacts
<1>3. CASE WriteBackup
  <2>. DEFINE p == AfterBackup
  <2>1. job' = [job EXCEPT !.phase = p] /\ job.phase = "copy" /\ UNCHANGED <<file, clock, tried>>
    BY <1>3 DEF WriteBackup
  <2>2. p \in JobPhases /\ p \in {"merge", "unlink"}
    BY DEF JobPhases, AfterBackup
  <2>. HIDE DEF p
  <2>3. /\ job' \in JobType /\ job'.phase = p /\ job'.stamp = job.stamp /\ job'.name = job.name
        /\ job'.entries = job.entries /\ job'.primitive = job.primitive
        /\ job'.candidate = job.candidate
    BY ONLY <1>1, <2>1, <2>2 DEF JobType
  <2>4. /\ backups' \in [1..MaxClock -> FileType] /\ backups'[job.stamp] = file
        /\ job.stamp \in 1..MaxClock
        /\ \A s \in 1..MaxClock : backups'[s] \in {backups[s], file}
    BY <1>1, <1>3, <2>1 DEF WriteBackup, CalibrationFacts, BackupFacts
  <2>5. StoreTypes'
    BY <1>1, <2>1, <2>3, <2>4 DEF StoreTypes
  <2>6. EntryFacts'
    <3>1. \A s \in 1..MaxClock : Sound(backups'[s].entries)
      BY <2>4 DEF CalibrationFacts, EntryFacts
    <3>. QED  BY <2>1, <2>3, <3>1 DEF CalibrationFacts, EntryFacts, Sound
  <2>7. CandidateFacts' /\ WriteFacts' /\ BackupFacts'
    BY <2>1, <2>2, <2>3, <2>4 DEF CalibrationFacts, CandidateFacts, WriteFacts, BackupFacts
  <2>. QED  BY <2>5, <2>6, <2>7 DEF CalibrationFacts
<1>. QED  BY <1>2, <1>3

LEMMA FileStepFacts ==
  ASSUME CalibrationFacts, Unlink \/ OpenFile \/ WriteFile
  PROVE  CalibrationFacts'
<1>1. job \in JobType /\ file \in FileType /\ backups \in [1..MaxClock -> FileType]
      /\ clock \in 1..MaxClock
  BY DEF CalibrationFacts, StoreTypes
<1>2. UNCHANGED <<backups, clock, tried>>
  BY DEF Unlink, OpenFile, WriteFile
<1>3. CASE Unlink
  <2>. DEFINE p == "trial"
  <2>1. /\ file' = Absent
        /\ job' # Idle => job.name = "tune" /\ job' = [job EXCEPT !.phase = p]
    <3>1. CASE job.name = "tune"
      BY <1>3, <3>1 DEF Unlink
    <3>2. CASE job.name # "tune"
      BY <1>3, <3>2 DEF Unlink
    <3>. QED  BY <3>1, <3>2
  <2>2. p \in JobPhases
    BY DEF JobPhases
  <2>3. CASE job' = Idle
    <3>1. StoreTypes'
      BY <1>1, <1>2, <2>1, <2>3, IdleType, EmptyType DEF StoreTypes
    <3>2. EntryFacts'
      BY <1>2, <2>1, <2>3 DEF CalibrationFacts, EntryFacts, Sound, Idle, Absent, File, Empty, NoEntry
    <3>3. CandidateFacts' /\ WriteFacts' /\ BackupFacts'
      BY <2>1, <2>3 DEF CandidateFacts, WriteFacts, BackupFacts, Idle, Absent, File
    <3>. QED  BY <3>1, <3>2, <3>3 DEF CalibrationFacts
  <2>4. CASE job' # Idle
    <3>1. /\ job' \in JobType /\ job'.phase = "trial" /\ job'.name = "tune" /\ job.name = "tune"
          /\ job'.entries = job.entries /\ job'.primitive = job.primitive
          /\ job'.candidate = job.candidate
      BY ONLY <1>1, <2>1, <2>2, <2>4 DEF JobType
    <3>2. StoreTypes'
      BY <1>1, <1>2, <2>1, <3>1, EmptyType DEF StoreTypes
    <3>3. EntryFacts'
      BY <1>2, <2>1, <3>1 DEF CalibrationFacts, EntryFacts, Sound, Absent, File, Empty, NoEntry
    <3>4. CandidateFacts' /\ WriteFacts' /\ BackupFacts'
      BY <2>1, <3>1 DEF CalibrationFacts, CandidateFacts, WriteFacts, BackupFacts, Absent, File
    <3>. QED  BY <3>2, <3>3, <3>4 DEF CalibrationFacts
  <2>. QED  BY <2>3, <2>4
<1>4. CASE OpenFile
  <2>1. CASE file.kind = "torn"
    BY <1>2, <1>4, <2>1, IdleFacts DEF OpenFile
  <2>2. CASE file.kind # "torn"
    <3>. DEFINE e == [p \in Primitives |->
                        IF job.entries[p] = NoEntry THEN file.entries[p] ELSE job.entries[p]]
                q == "write"
    <3>1. job' = [job EXCEPT !.phase = q, !.entries = e] /\ file' = Torn
      BY <1>4, <2>2 DEF OpenFile
    <3>2. e \in [Primitives -> EntryType] /\ Sound(e) /\ q \in JobPhases
      BY <1>1 DEF JobType, FileType, CalibrationFacts, EntryFacts, Sound, JobPhases
    <3>. HIDE DEF e
    <3>3. /\ job' \in JobType /\ job'.phase = "write" /\ job'.entries = e
          /\ job'.name = job.name /\ job'.primitive = job.primitive
          /\ job'.candidate = job.candidate
      BY ONLY <1>1, <3>1, <3>2 DEF JobType
    <3>4. StoreTypes'
      BY <1>1, <1>2, <3>1, <3>3, EmptyType DEF StoreTypes
    <3>5. EntryFacts'
      BY <1>2, <3>1, <3>2, <3>3 DEF CalibrationFacts, EntryFacts, Sound, Torn, File, Empty, NoEntry
    <3>6. CandidateFacts' /\ WriteFacts' /\ BackupFacts'
      BY <3>1, <3>3 DEF CalibrationFacts, CandidateFacts, WriteFacts, BackupFacts, Torn, File
    <3>. QED  BY <3>4, <3>5, <3>6 DEF CalibrationFacts
  <2>. QED  BY <2>1, <2>2
<1>5. CASE WriteFile
  <2>1. file' = File("whole", job.entries) /\ job' = Idle
    BY <1>5 DEF WriteFile
  <2>2. file' \in FileType
    BY <1>1, <2>1 DEF File, FileType, JobType
  <2>3. StoreTypes'
    BY <1>1, <1>2, <2>1, <2>2, IdleType DEF StoreTypes
  <2>4. EntryFacts'
    BY <1>2, <2>1 DEF CalibrationFacts, EntryFacts, Sound, Idle, File, Empty, NoEntry
  <2>5. CandidateFacts' /\ WriteFacts' /\ BackupFacts'
    BY <2>1 DEF CandidateFacts, WriteFacts, BackupFacts, Idle, File
  <2>. QED  BY <2>3, <2>4, <2>5 DEF CalibrationFacts
<1>. QED  BY <1>3, <1>4, <1>5

\* A tuning session: trial, judgement, adjustment.
LEMMA TuneStepFacts ==
  ASSUME CalibrationFacts, Trial \/ Approve \/ Adjust
  PROVE  CalibrationFacts'
<1>1. /\ job \in JobType /\ job.name = "tune" /\ job.primitive \in Primitives
      /\ job.candidate \in Command /\ Signed(job.primitive, job.candidate)
      /\ job.yaw \in Yaws /\ job.trial \in Nat
  BY DEF CalibrationFacts, StoreTypes, CandidateFacts, JobType, Trial, Approve, Adjust
<1>2. UNCHANGED <<file, backups, clock>>
  BY DEF Trial, Approve, Adjust
<1>3. CASE job' = Idle
  BY <1>2, <1>3, IdleFacts DEF Trial, Approve, Adjust, Idle
<1>4. CASE Trial /\ job' # Idle
  <2>. DEFINE c == clamp_candidate(job.primitive, job.candidate)
              q == "ask"
  <2>1. PICK o \in BOOLEAN, y \in Yaws :
          /\ job' = [job EXCEPT !.phase = q, !.candidate = c, !.opposite = o, !.yaw = y]
          /\ tried' = IF o THEN tried ELSE tried \cup {Driven(job.primitive, c)}
    BY <1>4 DEF Trial, Trialled, Opposites, Yaws
  <2>2. c \in Command /\ Valid(job.primitive, c) /\ Signed(job.primitive, c) /\ q \in JobPhases
    BY <1>1, ClampValid DEF JobPhases
  <2>. HIDE DEF c
  <2>3. /\ job' \in JobType /\ job'.phase = "ask" /\ job'.candidate = c /\ job'.opposite = o
        /\ job'.entries = job.entries /\ job'.primitive = job.primitive /\ job'.name = job.name
    BY <1>1, <2>1, <2>2 DEF JobType
  <2>4. tried \subseteq tried'
    BY <2>1
  <2>5. StoreTypes'
    BY <1>2, <2>3 DEF CalibrationFacts, StoreTypes
  <2>6. EntryFacts'
    BY <1>2, <2>3, <2>4 DEF CalibrationFacts, EntryFacts, Sound
  <2>7. ~o => Driven(job.primitive, c) \in tried'
    BY <2>1
  <2>8. CandidateFacts' /\ WriteFacts' /\ BackupFacts'
    BY <1>1, <1>2, <2>2, <2>3, <2>7 DEF CalibrationFacts, CandidateFacts, WriteFacts, BackupFacts
  <2>. QED  BY <2>5, <2>6, <2>8 DEF CalibrationFacts
<1>5. CASE Approve /\ job' # Idle
  <2>. DEFINE t == Entry(job.candidate, "tuned")
              e == [Empty EXCEPT ![job.primitive] = t]
              q == "merge"
  <2>1. /\ job' = [job EXCEPT !.phase = q, !.entries = e] /\ UNCHANGED tried
        /\ job.phase = "ask" /\ ~job.opposite
    BY <1>5 DEF Approve
  <2>2. /\ Valid(job.primitive, job.candidate)
        /\ Driven(job.primitive, job.candidate) \in tried
    BY <2>1 DEF CalibrationFacts, CandidateFacts
  <2>3. t \in EntryType /\ Valid(job.primitive, t) /\ Driven(job.primitive, t) \in tried
    BY <1>1, <2>2, EntryIsValid DEF Makers, Driven, Entry
  <2>. HIDE DEF t
  <2>4. e \in [Primitives -> EntryType] /\ q \in JobPhases
    BY <2>3, EmptyType DEF JobPhases
  <2>5. \A p \in Primitives : e[p] = IF p = job.primitive THEN t ELSE NoEntry
    BY <1>1 DEF Empty
  <2>. HIDE DEF e
  <2>6. /\ job' \in JobType /\ job'.phase = "merge" /\ job'.candidate = job.candidate
        /\ job'.entries = e /\ job'.primitive = job.primitive /\ job'.name = job.name
    BY ONLY <1>1, <2>1, <2>4 DEF JobType
  <2>7. StoreTypes'
    BY <1>2, <2>6 DEF CalibrationFacts, StoreTypes
  <2>8. EntryFacts'
    BY <1>2, <2>1, <2>3, <2>5, <2>6 DEF CalibrationFacts, EntryFacts, Sound, NoEntry
  <2>9. CandidateFacts' /\ WriteFacts' /\ BackupFacts'
    BY <1>1, <1>2, <2>1, <2>6 DEF CalibrationFacts, CandidateFacts, WriteFacts, BackupFacts
  <2>. QED  BY <2>7, <2>8, <2>9 DEF CalibrationFacts
<1>6. CASE Adjust /\ job' # Idle
  <2>1. PICK feedback \in Feedbacks :
          job' = [job EXCEPT !.phase = "trial", !.trial = @ + 1, !.opposite = FALSE,
                    !.yaw = "none",
                    !.candidate = adjust_candidate(job.primitive, @, feedback, job.yaw)]
    BY <1>6 DEF Adjust
  <2>. DEFINE c == adjust_candidate(job.primitive, job.candidate, feedback, job.yaw)
              q == "trial"
              y == "none"
              n == job.trial + 1
  <2>2. c \in Command /\ Signed(job.primitive, c) /\ q \in JobPhases /\ y \in Yaws /\ n \in Nat
    BY <1>1, AdjustSigned DEF JobPhases, Yaws
  <2>3. job' = [job EXCEPT !.phase = q, !.trial = n, !.opposite = FALSE, !.yaw = y, !.candidate = c]
    BY <2>1
  <2>. HIDE DEF c, n
  <2>4. /\ job' \in JobType /\ job'.phase = "trial" /\ job'.candidate = c
        /\ job'.entries = job.entries /\ job'.primitive = job.primitive /\ job'.name = job.name
    BY ONLY <1>1, <2>2, <2>3 DEF JobType
  <2>5. UNCHANGED tried
    BY <1>6 DEF Adjust
  <2>6. StoreTypes'
    BY <1>2, <2>4 DEF CalibrationFacts, StoreTypes
  <2>7. EntryFacts'
    BY <1>2, <2>4, <2>5 DEF CalibrationFacts, EntryFacts, Sound
  <2>8. CandidateFacts' /\ WriteFacts' /\ BackupFacts'
    BY <1>1, <1>2, <2>2, <2>4 DEF CalibrationFacts, CandidateFacts, WriteFacts, BackupFacts
  <2>. QED  BY <2>6, <2>7, <2>8 DEF CalibrationFacts
<1>. QED  BY <1>3, <1>4, <1>5, <1>6

-----------------------------------------------------------------------------
LEMMA StepFacts == CalibrationFacts /\ [Next]_vars => CalibrationFacts'
<1>. SUFFICES ASSUME CalibrationFacts, [Next]_vars PROVE CalibrationFacts'
  OBVIOUS
<1>1. CASE cmd_set_motion_calibration \/ cmd_reset_motion_calibration \/ cmd_tune_motion
  BY <1>1, StartedFacts
<1>2. CASE OpenBackup \/ WriteBackup
  BY <1>2, BackupStepFacts
<1>3. CASE Unlink \/ OpenFile \/ WriteFile
  BY <1>3, FileStepFacts
<1>4. CASE Trial \/ Approve \/ Adjust
  BY <1>4, TuneStepFacts
<1>5. CASE Die
  BY <1>5, IdleFacts DEF Die
<1>6. CASE Tick \/ UNCHANGED vars
  <2>1. UNCHANGED <<file, backups, job, tried>> /\ clock' \in 1..MaxClock
    BY <1>6, StoreAssumption DEF Tick, vars, CalibrationFacts, StoreTypes
  <2>2. StoreTypes' /\ EntryFacts'
    BY <2>1 DEF CalibrationFacts, StoreTypes, EntryFacts, Sound
  <2>3. CandidateFacts' /\ WriteFacts' /\ BackupFacts'
    BY <2>1 DEF CalibrationFacts, CandidateFacts, WriteFacts, BackupFacts
  <2>. QED  BY <2>2, <2>3 DEF CalibrationFacts
<1>. QED  BY <1>1, <1>2, <1>3, <1>4, <1>5, <1>6 DEF Next

THEOREM CalibrationInvariant == Spec => []CalibrationFacts
<1>. QED  BY InitFacts, StepFacts, PTL DEF Spec

\* Every entry of the file and of its backups passes the validator, although
\* tune-motion never runs it.
THEOREM EntriesValid == Spec => []StoreValid
<1>1. CalibrationFacts => StoreValid
  BY DEF CalibrationFacts, EntryFacts, Sound, StoreValid, Contents
<1>. QED  BY <1>1, CalibrationInvariant, PTL

\* What an operator approved was sent to the rover as it is saved.
THEOREM ApprovedEntriesDriven == Spec => []ApprovedWasDriven
<1>1. CalibrationFacts => ApprovedWasDriven
  BY DEF CalibrationFacts, EntryFacts, Sound, ApprovedWasDriven, Contents
<1>. QED  BY <1>1, CalibrationInvariant, PTL

\* The values a set or a reset replaces are in an intact backup.
THEOREM BackupsKeepValues == Spec => BackupKeepsValues
<1>. DEFINE Kept == file' # file /\ file.kind = "whole" /\ Replacing
                      => \E s \in 1..MaxClock : backups'[s] = file
<1>1. CalibrationFacts /\ [Next]_vars => [Kept]_vars
  <2>. SUFFICES ASSUME CalibrationFacts, [Next]_vars, file' # file, file.kind = "whole", Replacing
                PROVE  \E s \in 1..MaxClock : backups'[s] = file
    OBVIOUS
  <2>1. Unlink \/ OpenFile \/ WriteFile
    <3>1. CASE cmd_set_motion_calibration \/ cmd_reset_motion_calibration \/ cmd_tune_motion
      BY <3>1 DEF cmd_set_motion_calibration, cmd_reset_motion_calibration, cmd_tune_motion, Started
    <3>2. CASE OpenBackup \/ WriteBackup \/ Trial \/ Approve \/ Adjust \/ Die \/ Tick
      BY <3>2 DEF OpenBackup, WriteBackup, Trial, Approve, Adjust, Die, Tick
    <3>3. CASE UNCHANGED vars
      BY <3>3 DEF vars
    <3>. QED  BY <3>1, <3>2, <3>3 DEF Next
  <2>2. UNCHANGED backups
    BY <2>1 DEF Unlink, OpenFile, WriteFile
  <2>3. job.phase # "write"
    BY DEF CalibrationFacts, WriteFacts, Torn, File
  <2>. QED  BY <2>1, <2>2, <2>3 DEF CalibrationFacts, BackupFacts, Replacing, Unlink, OpenFile,
               WriteFile
<1>. QED  BY <1>1, CalibrationInvariant, PTL DEF Spec, BackupKeepsValues

-----------------------------------------------------------------------------
(* The store implements CalibrationStore.                                    *)

LEMMA CalibratedTypes ==
  /\ \A e : Calibrated(e) \in SUBSET Primitives
  /\ Calibrated(Empty) = {}
  BY DEF Calibrated, Empty

\* Steps that readers of the file do not see.
Unseen ==
  UNCHANGED file /\ ~Writing /\ ~Writing'

LEMMA UnseenStutters == Unseen => UNCHANGED Store!storeVars
  BY DEF Unseen, Store!storeVars

LEMMA StoreStep == CalibrationFacts /\ [Next]_vars => [Store!StoreNext]_(Store!storeVars)
<1>. SUFFICES ASSUME CalibrationFacts, [Next]_vars
              PROVE  Store!StoreNext \/ UNCHANGED Store!storeVars
  OBVIOUS
<1>. USE DEF Writing
<1>1. CASE cmd_set_motion_calibration \/ cmd_reset_motion_calibration \/ cmd_tune_motion
  <2>1. UNCHANGED file /\ job = Idle /\ job'.phase \in {"backup", "trial"}
    <3>1. CASE cmd_set_motion_calibration
      BY <3>1 DEF cmd_set_motion_calibration, Started, Idle
    <3>2. CASE cmd_reset_motion_calibration
      BY <3>2 DEF cmd_reset_motion_calibration, Started, Idle
    <3>3. CASE cmd_tune_motion
      BY <3>3 DEF cmd_tune_motion, Started, Idle
    <3>. QED  BY <1>1, <3>1, <3>2, <3>3
  <2>. QED  BY <2>1, UnseenStutters DEF Unseen, Idle
<1>2. CASE OpenBackup \/ WriteBackup \/ Trial \/ Approve \/ Adjust
  <2>1. job \in JobType
    BY DEF CalibrationFacts, StoreTypes
  <2>2. job.phase # "write" /\ UNCHANGED file
    BY <1>2 DEF OpenBackup, WriteBackup, Trial, Approve, Adjust
  <2>3. job'.phase # "write"
    <3>1. CASE OpenBackup \/ WriteBackup
      BY <2>1, <3>1 DEF OpenBackup, WriteBackup, AfterBackup, JobType
    <3>2. CASE Trial
      <4>1. CASE job' = Idle
        BY <4>1 DEF Idle
      <4>2. CASE job' # Idle
        <5>. DEFINE c == clamp_candidate(job.primitive, job.candidate)
        <5>1. \E o, y : job' = [job EXCEPT !.phase = "ask", !.candidate = c, !.opposite = o,
                                           !.yaw = y]
          BY <3>2, <4>2 DEF Trial
        <5>. HIDE DEF c
        <5>. QED  BY ONLY <2>1, <5>1 DEF JobType
      <4>. QED  BY <4>1, <4>2
    <3>3. CASE Approve
      <4>1. CASE job' = Idle
        BY <4>1 DEF Idle
      <4>2. CASE job' # Idle
        <5>1. PICK e : job' = [job EXCEPT !.phase = "merge", !.entries = e]
          BY <3>3, <4>2 DEF Approve
        <5>. QED  BY ONLY <2>1, <5>1 DEF JobType
      <4>. QED  BY <4>1, <4>2
    <3>4. CASE Adjust
      <4>1. CASE job' = Idle
        BY <4>1 DEF Idle
      <4>2. CASE job' # Idle
        <5>1. PICK n, c : job' = [job EXCEPT !.phase = "trial", !.trial = n, !.opposite = FALSE,
                                             !.yaw = "none", !.candidate = c]
          BY <3>4, <4>2 DEF Adjust
        <5>. QED  BY ONLY <2>1, <5>1 DEF JobType
      <4>. QED  BY <4>1, <4>2
    <3>. QED  BY <1>2, <3>1, <3>2, <3>3, <3>4
  <2>. QED  BY <2>2, <2>3, UnseenStutters DEF Unseen
<1>3. CASE Unlink
  <2>1. file' = Absent /\ job.phase = "unlink" /\ job'.phase # "write"
    BY <1>3 DEF Unlink, Idle, CalibrationFacts, StoreTypes, JobType
  <2>2. Store!Clear
    BY <2>1, CalibratedTypes DEF Store!Clear, Absent, File
  <2>. QED  BY <2>2 DEF Store!StoreNext
<1>4. CASE OpenFile
  <2>1. CASE file.kind = "torn"
    <3>1. Unseen
      BY <1>4, <2>1 DEF OpenFile, Unseen, Idle
    <3>. QED  BY <3>1, UnseenStutters
  <2>2. CASE file.kind # "torn"
    <3>. DEFINE e == [p \in Primitives |->
                        IF job.entries[p] = NoEntry THEN file.entries[p] ELSE job.entries[p]]
    <3>1. job' = [job EXCEPT !.phase = "write", !.entries = e] /\ job.phase = "merge" /\ file' = Torn
      BY <1>4, <2>2 DEF OpenFile
    <3>. HIDE DEF e
    <3>2. job'.phase = "write" /\ job'.entries = e
      BY <3>1 DEF CalibrationFacts, StoreTypes, JobType
    <3>3. Calibrated(e) = Calibrated(file.entries) \cup Calibrated(job.entries)
      BY DEF e, Calibrated
    <3>4. Store!Open
      BY <2>2, <3>1, <3>2, <3>3, CalibratedTypes DEF Store!Open
    <3>. QED  BY <3>4 DEF Store!StoreNext
  <2>. QED  BY <2>1, <2>2
<1>5. CASE WriteFile
  <2>1. file' = File("whole", job.entries) /\ job.phase = "write" /\ job'.phase = "idle"
    BY <1>5 DEF WriteFile, Idle
  <2>2. Store!Write
    BY <2>1 DEF Store!Write, File
  <2>. QED  BY <2>2 DEF Store!StoreNext
<1>6. CASE Die
  <2>1. UNCHANGED file /\ job'.phase = "idle"
    BY <1>6 DEF Die, Idle
  <2>2. CASE job.phase = "write"
    <3>1. file = Torn
      BY <2>2 DEF CalibrationFacts, WriteFacts
    <3>2. Store!Lose
      BY <2>1, <2>2, <3>1, CalibratedTypes DEF Store!Lose, Torn, File
    <3>. QED  BY <3>2 DEF Store!StoreNext
  <2>3. CASE job.phase # "write"
    BY <2>1, <2>3, UnseenStutters DEF Unseen
  <2>. QED  BY <2>2, <2>3
<1>7. CASE Tick \/ UNCHANGED vars
  <2>1. UNCHANGED <<file, job>>
    BY <1>7 DEF Tick, vars
  <2>. QED  BY <2>1 DEF Store!storeVars
<1>. QED  BY <1>1, <1>2, <1>3, <1>4, <1>5, <1>6, <1>7 DEF Next

LEMMA StoreStart == Init => Store!StoreInit
<1>. SUFFICES ASSUME Init PROVE Store!StoreInit
  OBVIOUS
<1>1. job.phase = "idle" /\ file.kind \in {"absent", "whole"}
  BY DEF Init, Idle, Absent, File
<1>. QED  BY <1>1, CalibratedTypes DEF Store!StoreInit, Writing

\* What readers see of the file is the abstract store: a value is lost only by a
\* reset or by the death of a writer between emptying and filling the file.
THEOREM ImplementsStore == Spec => KeepsStore
<1>. QED  BY StoreStart, StoreStep, CalibrationInvariant, PTL
          DEF Spec, KeepsStore, Store!StoreSpec
=============================================================================
