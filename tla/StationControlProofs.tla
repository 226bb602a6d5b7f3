------------------------ MODULE StationControlProofs ------------------------
(***************************************************************************)
(* Proofs about StationControl for every Timeout, MaxLoop and InboxCap.    *)
(***************************************************************************)
EXTENDS StationControl, TLAPS

\* Ages against the loop: motion the station asked for is at most Timeout old
\* at the arbitration and ages with sinceLoop until the next one.  The link is
\* never older than the manual command, since every manual frame is a frame.
DeadlineInv ==
  /\ linkAge <= manualAge
  /\ out \in {"station", "auto"} => linkAge <= Timeout + sinceLoop
  /\ out = "station" => manualAge <= Timeout + sinceLoop

IInv ==
  /\ TypeOK
  /\ DeadlineInv
  /\ EstopSilences
  /\ CommandsExclusive
  /\ ModeTellsDriver

USE StationConstants DEF Never, Age

\* Advancing a saturated age keeps it an age.
LEMMA AdvanceAge ==
  ASSUME NEW a \in Age
  PROVE  /\ Advance(a) \in Age
         /\ Advance(a) <= a + 1
         /\ \A b \in Age : b <= a => Advance(b) <= Advance(a)
  BY DEF Advance

\* Taking the first line leaves a well-formed buffer and picks a frame.
LEMMA FirstFrame ==
  ASSUME inbox \in Seq(Frames), Len(inbox) <= InboxCap, inbox # <<>>
  PROVE  /\ Head(inbox) \in Frames
         /\ Tail(inbox) \in Seq(Frames)
         /\ Len(Tail(inbox)) <= InboxCap
  <1>1. Len(Tail(inbox)) = Len(inbox) - 1 /\ Tail(inbox) \in Seq(Frames) /\ Head(inbox) \in Frames
    OBVIOUS
  <1>. QED  BY <1>1

LEMMA ManualFrame ==
  ASSUME NEW f \in Frames, f.type = "MANUAL"
  PROVE  f.move \in BOOLEAN /\ f.deadman \in BOOLEAN /\ f.estop \in BOOLEAN
  BY DEF Frames

LEMMA AutoFrame ==
  ASSUME NEW f \in Frames, f.type = "AUTO"
  PROVE  f.move \in BOOLEAN
  BY DEF Frames

\* The receive buffer and the link age after any line.
LEMMA TakeFrameType ==
  ASSUME IInv, NEW t, TakeFrame(t)
  PROVE  /\ inbox' \in Seq(Frames) /\ Len(inbox') <= InboxCap
         /\ linkAge' \in Age /\ linkAge' <= linkAge
         /\ rc' = rc /\ sinceLoop' = sinceLoop
         /\ Head(inbox) \in Frames /\ Head(inbox).type = t
  <1>1. /\ Head(inbox) \in Frames
        /\ Tail(inbox) \in Seq(Frames)
        /\ Len(Tail(inbox)) <= InboxCap
    BY FirstFrame DEF IInv, TypeOK, TakeFrame
  <1>. QED  BY <1>1 DEF IInv, TypeOK, TakeFrame

LEMMA InitInv == Init => IInv
<1>. SUFFICES ASSUME Init PROVE IInv
  OBVIOUS
<1>1. inbox \in Seq(Frames) /\ Len(inbox) <= InboxCap
  BY DEF Init
<1>2. linkAge \in Age /\ manualAge \in Age /\ sinceLoop \in 0..MaxLoop
  BY DEF Init
<1>3. manual \in [deadman : BOOLEAN, move : BOOLEAN] /\ currentMode \in Modes /\ out \in Drivers
  BY DEF Init, NoManual, Modes, Drivers
<1>4. DeadlineInv /\ EstopSilences /\ CommandsExclusive /\ ModeTellsDriver
  BY DEF Init, DeadlineInv, EstopSilences, CommandsExclusive, ModeTellsDriver
<1>. QED  BY <1>1, <1>2, <1>3, <1>4 DEF Init, IInv, TypeOK

\* What a step must re-establish: the types of the commands and the output,
\* and the four relations.  The buffer, the ages and the clock are dealt with
\* apart, since most steps leave them alone.
CommandTypes ==
  /\ manual \in [deadman : BOOLEAN, move : BOOLEAN]
  /\ stationEstop \in BOOLEAN
  /\ autoCommandActive \in BOOLEAN
  /\ autoMove \in BOOLEAN
  /\ currentMode \in Modes
  /\ out \in Drivers

ClockTypes ==
  /\ inbox \in Seq(Frames) /\ Len(inbox) <= InboxCap
  /\ rc \in RcStates
  /\ linkAge \in Age
  /\ manualAge \in Age
  /\ sinceLoop \in 0..MaxLoop

Relations == DeadlineInv /\ EstopSilences /\ CommandsExclusive /\ ModeTellsDriver

LEMMA Parts == IInv <=> CommandTypes /\ ClockTypes /\ Relations
  BY DEF IInv, TypeOK, CommandTypes, ClockTypes, Relations

LEMMA PartsNext == IInv' <=> CommandTypes' /\ ClockTypes' /\ Relations'
  BY DEF IInv, TypeOK, CommandTypes, ClockTypes, Relations

USE DEF Relations, DeadlineInv, EstopSilences, CommandsExclusive, ModeTellsDriver

LEMMA LineStep == IInv /\ ProcessLine => IInv'
<1>. SUFFICES ASSUME IInv, ProcessLine
              PROVE  CommandTypes' /\ ClockTypes' /\ Relations'
  BY PartsNext
<1>. USE Parts
<1>0. Never \in Age
  OBVIOUS
<1>1. CASE IgnoreFrame
  <2>. PICK t \in {"BAD", "HB", "ERR"} : TakeFrame(t)
    BY <1>1 DEF IgnoreFrame
  <2>1. CommandTypes'
    BY <1>1 DEF IgnoreFrame, CommandTypes
  <2>2. ClockTypes'
    BY <1>1, TakeFrameType DEF IgnoreFrame, ClockTypes
  <2>3. Relations'
    BY <1>1, TakeFrameType DEF IgnoreFrame, ClockTypes
  <2>. QED  BY <2>1, <2>2, <2>3
<1>2. CASE Stop
  <2>. USE <1>2 DEF Stop, clearStationManualCommand, clearAutoCommand, motorStop
  <2>1. CommandTypes'
    BY DEF CommandTypes, NoManual, Drivers
  <2>2. ClockTypes'
    BY <1>0, TakeFrameType DEF ClockTypes
  <2>3. Relations'
    BY TakeFrameType DEF NoManual, ClockTypes
  <2>. QED  BY <2>1, <2>2, <2>3
<1>3. CASE acceptStationManualCommand
  <2>. USE <1>3 DEF acceptStationManualCommand, clearAutoCommand, motorStop
  <2>1. /\ Head(inbox).move \in BOOLEAN
        /\ Head(inbox).deadman \in BOOLEAN
        /\ Head(inbox).estop \in BOOLEAN
    BY TakeFrameType, ManualFrame
  <2>2. CommandTypes'
    BY <2>1 DEF CommandTypes, Drivers
  <2>3. ClockTypes'
    BY TakeFrameType DEF ClockTypes
  <2>4. linkAge' = 0 /\ manualAge' = 0
    BY DEF TakeFrame
  <2>5. Relations'
    BY <2>4, TakeFrameType DEF ClockTypes
  <2>. QED  BY <2>2, <2>3, <2>5
<1>4. CASE RejectAuto
  <2>. PICK t \in {"AUTO", "AUTO_ERR"} : TakeFrame(t)
    BY <1>4 DEF RejectAuto
  <2>. USE <1>4 DEF RejectAuto, clearAutoCommand, motorStop
  <2>1. CommandTypes'
    BY DEF CommandTypes, Drivers
  <2>2. ClockTypes'
    BY TakeFrameType DEF ClockTypes
  <2>3. Relations'
    BY TakeFrameType DEF ClockTypes
  <2>. QED  BY <2>1, <2>2, <2>3
<1>5. CASE MalformedAuto
  <2>. USE <1>5 DEF MalformedAuto
  <2>1. CommandTypes'
    BY DEF CommandTypes
  <2>2. ClockTypes'
    BY TakeFrameType DEF ClockTypes
  <2>3. Relations'
    BY TakeFrameType DEF ClockTypes
  <2>. QED  BY <2>1, <2>2, <2>3
<1>6. CASE AcceptAuto
  <2>. USE <1>6 DEF AcceptAuto, clearStationManualCommand, Drive
  <2>1. Head(inbox).move \in BOOLEAN
    BY TakeFrameType, AutoFrame
  <2>2. CommandTypes'
    BY <2>1 DEF CommandTypes, Drivers, Modes, NoManual
  <2>3. ClockTypes'
    BY <1>0, TakeFrameType DEF ClockTypes
  <2>4. linkAge' = 0
    BY DEF TakeFrame
  <2>5. Relations'
    BY <2>4, TakeFrameType DEF ClockTypes, NoManual
  <2>. QED  BY <2>2, <2>3, <2>5
<1>. QED  BY <1>1, <1>2, <1>3, <1>4, <1>5, <1>6 DEF ProcessLine

LEMMA ArbitrateStep == IInv /\ Arbitrate => IInv'
<1>. SUFFICES ASSUME IInv, Arbitrate
              PROVE  CommandTypes' /\ ClockTypes' /\ Relations'
  BY PartsNext
<1>. USE Parts DEF Arbitrate, KeepAuto, clearAutoCommand, motorStop, Drive
<1>1. ClockTypes'
  BY DEF ClockTypes
<1>2. CASE ArbitrateEstop
  BY <1>1, <1>2 DEF ArbitrateEstop, CommandTypes, ClockTypes, Drivers, Modes
<1>3. CASE ArbitrateStationManual
  <2>1. linkAge <= Timeout /\ manualAge <= Timeout
    BY <1>3 DEF ArbitrateStationManual, stationManualActive, stationManualValid, ClockTypes
  <2>2. ~autoCommandActive /\ ~stationEstop
    BY <1>3 DEF ArbitrateStationManual, stationManualActive
  <2>3. CommandTypes'
    BY <1>3 DEF ArbitrateStationManual, CommandTypes, Drivers, Modes
  <2>4. DeadlineInv'
    BY <1>1, <2>1, <1>3 DEF ArbitrateStationManual, ClockTypes
  <2>5. (EstopSilences /\ CommandsExclusive /\ ModeTellsDriver)'
    BY <2>2, <1>3 DEF ArbitrateStationManual
  <2>. QED  BY <1>1, <2>3, <2>4, <2>5
<1>4. CASE ArbitrateRcManual
  BY <1>1, <1>4 DEF ArbitrateRcManual, CommandTypes, ClockTypes, Drivers, Modes
<1>5. CASE ArbitrateAuto
  BY <1>1, <1>5 DEF ArbitrateAuto, autoActive, stationLinkValid,
                    CommandTypes, ClockTypes, Drivers, Modes
<1>6. CASE ArbitrateStop
  BY <1>1, <1>6 DEF ArbitrateStop, CommandTypes, ClockTypes, Drivers, Modes
<1>. QED  BY <1>2, <1>3, <1>4, <1>5, <1>6

LEMMA EnvironmentStep == IInv /\ Environment => IInv'
<1>. SUFFICES ASSUME IInv, Environment
              PROVE  CommandTypes' /\ ClockTypes' /\ Relations'
  BY PartsNext
<1>. USE Parts
<1>1. ASSUME NEW f \in Frames, Receive(f)
      PROVE  CommandTypes' /\ ClockTypes' /\ Relations'
  <2>1. ClockTypes'
    BY <1>1 DEF Receive, ClockTypes
  <2>. QED  BY <1>1, <2>1 DEF Receive, CommandTypes
<1>2. ASSUME NEW r \in RcStates, RcChange(r)
      PROVE  CommandTypes' /\ ClockTypes' /\ Relations'
  BY <1>2 DEF RcChange, CommandTypes, ClockTypes
<1>3. CASE Tick
  <2>1. linkAge' \in Age /\ manualAge' \in Age
    BY <1>3, AdvanceAge DEF Tick, ClockTypes
  <2>2. linkAge' <= manualAge' /\ linkAge' <= linkAge + 1 /\ manualAge' <= manualAge + 1
    BY <1>3, AdvanceAge DEF Tick, ClockTypes
  <2>3. autoCommandActive => manualAge' = Never
    BY <1>3 DEF Tick, Advance
  <2>4. CommandTypes' /\ ClockTypes'
    BY <1>3, <2>1 DEF Tick, CommandTypes, ClockTypes
  <2>5. Relations'
    BY <1>3, <2>1, <2>2, <2>3 DEF Tick, ClockTypes
  <2>. QED  BY <2>4, <2>5
<1>. QED  BY <1>1, <1>2, <1>3 DEF Environment

\* The inductive invariant of the loop.
THEOREM Invariance == Spec => []IInv
<1>1. IInv /\ [Next]_vars => IInv'
  <2>1. IInv /\ UNCHANGED vars => IInv'
    BY Parts, PartsNext DEF vars, CommandTypes, ClockTypes
  <2>. QED  BY <2>1, LineStep, ArbitrateStep, EnvironmentStep DEF Next
<1>. QED  BY InitInv, <1>1, PTL DEF Spec

\* Types, for every size of the instance.
THEOREM TypeCorrect == Spec => []TypeOK
  BY Invariance, PTL DEF IInv

\* A station E-stop leaves nobody driving, also before the next arbitration.
THEOREM EstopIsImmediate == Spec => []EstopSilences
  BY Invariance, PTL DEF IInv

\* Station motion ends within Timeout and one pass of the loop of its last frame.
THEOREM DeadlineHolds == Spec => []StationDeadline
<1>1. IInv => StationDeadline
  BY DEF IInv, TypeOK, StationDeadline
<1>. QED  BY Invariance, <1>1, PTL

\* Manual and AUTO commands of the station never stand beside each other, whatever
\* frames arrive in whatever order (acceptStationManualCommand, AcceptAuto).
THEOREM OneCommandAtATime == Spec => []CommandsExclusive
  BY Invariance, PTL DEF IInv

\* The mode that STAT reports names the driver.
THEOREM ModeIsTruthful == Spec => []ModeTellsDriver
  BY Invariance, PTL DEF IInv

-----------------------------------------------------------------------------
(* The refinement.                                                         *)

LEMMA InitRefines == Init => A!Init
  BY DEF Init, A!Init, stationLinkValid

LEMMA LineRefines == IInv /\ ProcessLine => A!Next
<1>. SUFFICES ASSUME IInv, ProcessLine PROVE A!Next
  OBVIOUS
<1>. USE DEF A!Next, stationLinkValid, clearAutoCommand, motorStop
<1>1. CASE IgnoreFrame
  BY <1>1 DEF IgnoreFrame, A!Contact
<1>2. CASE Stop
  BY <1>2 DEF Stop, TakeFrame, A!EmergencyStop
<1>3. CASE acceptStationManualCommand
  <2>1. Head(inbox).estop \in BOOLEAN
    BY <1>3, TakeFrameType, ManualFrame DEF acceptStationManualCommand
  <2>. QED  BY <1>3, <2>1 DEF acceptStationManualCommand, TakeFrame, A!TakeSticks
<1>4. CASE RejectAuto
  BY <1>4 DEF RejectAuto, TakeFrame, A!Refuse
<1>5. CASE MalformedAuto
  BY <1>5 DEF MalformedAuto, A!Contact
<1>6. CASE AcceptAuto
  BY <1>6 DEF AcceptAuto, TakeFrame, Drive, A!Grant
<1>. QED  BY <1>1, <1>2, <1>3, <1>4, <1>5, <1>6 DEF ProcessLine

LEMMA ArbitrateRefines == IInv /\ Arbitrate => A!Decide
<1>. SUFFICES ASSUME IInv, Arbitrate PROVE A!Decide
  OBVIOUS
<1>. USE Parts DEF CommandTypes, ClockTypes, Arbitrate, A!Decide, KeepAuto,
             clearAutoCommand, motorStop, Drive,
             stationLinkValid, linkLost
<1>1. CASE ArbitrateEstop
  BY <1>1 DEF ArbitrateEstop
<1>2. CASE ArbitrateStationManual
  <2>1. linkAge <= Timeout
    BY <1>2 DEF ArbitrateStationManual, stationManualActive, stationManualValid
  <2>. QED  BY <1>2, <2>1 DEF ArbitrateStationManual
<1>3. CASE ArbitrateRcManual
  BY <1>3 DEF ArbitrateRcManual
<1>4. CASE ArbitrateAuto
  BY <1>4 DEF ArbitrateAuto, autoActive
<1>5. CASE ArbitrateStop
  BY <1>5 DEF ArbitrateStop
<1>. QED  BY <1>1, <1>2, <1>3, <1>4, <1>5

LEMMA EnvironmentRefines ==
  IInv /\ Environment => A!Next
<1>. SUFFICES ASSUME IInv, Environment PROVE A!Next
  OBVIOUS
<1>. USE DEF A!Next, A!Contact, stationLinkValid
<1>1. ASSUME NEW f \in Frames, Receive(f) PROVE A!Next
  BY <1>1 DEF Receive
<1>2. ASSUME NEW r \in RcStates, RcChange(r) PROVE A!Next
  BY <1>2 DEF RcChange
<1>3. CASE Tick
  BY <1>3 DEF Tick
<1>. QED  BY <1>1, <1>2, <1>3 DEF Environment

\* The loop implements MotionAuthority: AUTO moves the rover only on a grant
\* that nothing has ended.
THEOREM LoopImplementsAuthority == Spec => Authority
<1>1. IInv /\ [Next]_vars => [A!Next]_(A!authority)
  <2>1. UNCHANGED vars => UNCHANGED A!authority
    BY DEF vars, A!authority, stationLinkValid
  <2>2. IInv /\ Arbitrate => A!Next
    BY ArbitrateRefines DEF A!Next
  <2>. QED  BY <2>1, <2>2, LineRefines, EnvironmentRefines DEF Next
<1>. QED  BY Invariance, InitRefines, <1>1, PTL DEF Spec, Authority, A!Spec
=============================================================================
