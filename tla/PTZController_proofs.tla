------------------------ MODULE PTZController_proofs ------------------------
(***************************************************************************)
(* Machine-checked proofs about PTZController, for any callers, targets,   *)
(* scale and travel.                                                       *)
(***************************************************************************)
EXTENDS PTZController, TLAPS

\* round() is off by at most half a motor unit, either way.
LEMMA Rounding ==
    ASSUME NEW delta \in Int
    PROVE  /\ RoundUnits(delta) \in Int
           /\ -Scale <= 2 * (delta - Scale * RoundUnits(delta))
           /\ 2 * (delta - Scale * RoundUnits(delta)) <= Scale
<1> DEFINE q == delta \div Scale
           r == delta % Scale
<1>1. /\ q \in Int /\ r \in 0..(Scale - 1)
      /\ delta = Scale * q + r
  BY PTZAssumption
<1>2. Scale * (q + 1) = Scale * q + Scale
  BY <1>1, PTZAssumption
<1>3. RoundUnits(delta) \in {q, q + 1}
  BY DEF RoundUnits
<1>4. CASE RoundUnits(delta) = q
  <2>1. 2 * r <= Scale
    BY <1>1, <1>4, PTZAssumption DEF RoundUnits
  <2>2. delta - Scale * q = r
    BY <1>1, PTZAssumption
  <2> QED BY <1>1, <1>4, <2>1, <2>2, PTZAssumption
<1>5. CASE RoundUnits(delta) = q + 1
  <2>1. 2 * r >= Scale
    BY <1>1, <1>5, PTZAssumption DEF RoundUnits
  <2>2. delta - Scale * (q + 1) = r - Scale
    BY <1>1, <1>2, PTZAssumption
  <2> QED BY <1>1, <1>5, <2>1, <2>2, PTZAssumption
<1> QED BY <1>3, <1>4, <1>5
-----------------------------------------------------------------------------
(* The inductive invariant.                                                *)

Holding(c) == pc[c] \in {"moving", "moved"}

LockInv == \A c \in Callers : Holding(c) <=> lock = c

\* The angle is within n half units of where the motor is.
Within(angle, n) ==
    /\ -(Scale * n) <= 2 * (angle - Scale * motor)
    /\ 2 * (angle - Scale * motor) <= Scale * n

\* A command in flight is the rounded way from the estimate to the target:
\* the lock keeps the estimate still meanwhile.
CommandInv ==
    \A c \in Callers : pc[c] = "moving" =>
        /\ -Scale <= 2 * (target[c] - estimate - Scale * command[c])
        /\ 2 * (target[c] - estimate - Scale * command[c]) <= Scale

HomedInv == \A c \in Callers \ raced : pc[c] = "homed" => motor = 0

DriftInv ==
    stray = {} =>
        /\ (\A c \in Callers : pc[c] # "moved") => Within(estimate, moves)
        /\ \A c \in Callers : pc[c] = "moved" => Within(target[c], moves + 1)

IInv == TypeOK /\ LockInv /\ CommandInv /\ HomedInv /\ DriftInv

LEMMA InitIInv == Init => IInv
<1> SUFFICES ASSUME Init PROVE IInv
  OBVIOUS
<1> USE PTZAssumption DEF Init
<1>1. TypeOK
  BY DEF TypeOK, Places, Strays, Callers
<1>2. LockInv /\ CommandInv /\ HomedInv
  BY DEF LockInv, Holding, CommandInv, HomedInv, Callers
<1>3. DriftInv
  <2>1. Scale * 0 = 0
    OBVIOUS
  <2> QED BY <2>1 DEF DriftInv, Within
<1> QED BY <1>1, <1>2, <1>3 DEF IInv

\* Steps that only change where a caller is, to a place of no consequence.
Quiet == {"idle", "wantMove", "nudging", "nudged", "homing", "wantStatus"}

LEMMA QuietStep ==
    ASSUME IInv, NEW c \in Callers, NEW p \in Quiet,
           GoTo(c, p), pc[c] # "moved", target' \in [Callers -> Int],
           \A d \in Callers \ {c} : target'[d] = target[d] /\ command'[d] = command[d],
           command' \in [Callers -> Int], raced' \in {raced, raced \ {c}},
           lock' = IF lock = c THEN NoCaller ELSE lock,
           UNCHANGED <<estimate, motor, stray, moves>>
    PROVE  IInv'
<1> USE PTZAssumption DEF IInv
<1>1. \A d \in Callers : pc'[d] = IF d = c THEN p ELSE pc[d]
  BY DEF GoTo, TypeOK
<1>2. TypeOK'
  <2>1. pc' \in [Callers -> Places]
    BY DEF GoTo, TypeOK, Quiet, Places
  <2> QED BY <2>1 DEF TypeOK
<1>3. LockInv'
  BY <1>1 DEF LockInv, Holding, Quiet, TypeOK
<1>4. CommandInv'
  BY <1>1 DEF CommandInv, Quiet
<1>5. HomedInv'
  BY <1>1 DEF HomedInv, Quiet
<1>6. DriftInv'
  BY <1>1 DEF DriftInv, Quiet, Within
<1> QED BY <1>2, <1>3, <1>4, <1>5, <1>6

LEMMA CallKeeps ==
    ASSUME IInv, NEW c \in Callers, Call(c) \/ CallStatus \/ StatusReturns
    PROVE  IInv'
<1> USE PTZAssumption DEF IInv
<1>1. CASE \E t \in Targets : CallMove(c, t)
  <2>1. PICK t \in Targets : CallMove(c, t)
    BY <1>1
  <2>2. /\ GoTo(c, "wantMove") /\ pc[c] = "idle" /\ target' = [target EXCEPT ![c] = t]
        /\ UNCHANGED <<estimate, lock, command, motor, stray, raced, moves>>
    BY <2>1 DEF CallMove, CanStart, camera
  <2>3. lock # c
    BY <2>2 DEF LockInv, Holding
  <2>4. target' \in [Callers -> Int] /\ \A d \in Callers \ {c} : target'[d] = target[d]
    BY <2>2 DEF TypeOK
  <2> QED BY <2>2, <2>3, <2>4, QuietStep DEF Quiet, TypeOK
<1>2. ASSUME NEW p \in {"nudging", "homing"},
             CanStart(c), GoTo(c, p), UNCHANGED <<estimate, lock, target, command, camera, moves>>
      PROVE  IInv'
  <2>1. pc[c] = "idle" /\ lock # c
    BY <1>2 DEF CanStart, LockInv, Holding
  <2> QED BY <1>2, <2>1, QuietStep DEF Quiet, TypeOK, camera
<1>3. CASE CallStatus \/ StatusReturns
  <2>1. PICK p \in {"wantStatus", "idle"} : GoTo(Loop, p)
    BY <1>3 DEF CallStatus, StatusReturns
  <2>2. /\ pc[Loop] \in {"idle", "wantStatus"} /\ Loop \in Callers
        /\ UNCHANGED <<estimate, lock, target, command, motor, stray, raced, moves>>
    BY <1>3 DEF CallStatus, StatusReturns, CanStart, Callers, camera
  <2>3. lock # Loop
    BY <2>2 DEF LockInv, Holding
  <2> QED BY <2>1, <2>2, <2>3, QuietStep DEF Quiet, TypeOK
<1> QED BY <1>1, <1>2, <1>3 DEF Call, CallNudge, CallCalibrate

\* What a request leaves behind when it is over.
LEMMA Returned ==
    ASSUME TypeOK, NEW c \in Callers, Return(c)
    PROVE  /\ pc' \in [Callers -> Places] /\ target' \in [Callers -> Int]
           /\ command' \in [Callers -> Int] /\ raced' \in SUBSET Callers
           /\ \A d \in Callers : pc'[d] = IF d = c THEN "idle" ELSE pc[d]
           /\ \A d \in Callers \ {c} : target'[d] = target[d] /\ command'[d] = command[d]
           /\ raced' = raced \ {c} /\ GoTo(c, "idle")
BY DEF TypeOK, Return, GoTo, Places

LEMMA MoveKeeps ==
    ASSUME IInv, NEW c \in Callers,
           AcquireMove(c) \/ MotorMoves(c) \/ MoveReturns(c) \/ MoveFails(c)
    PROVE  IInv'
<1> USE PTZAssumption DEF IInv
<1> DEFINE x == RoundUnits(target[c] - estimate)
<1>1. /\ target[c] \in Int /\ estimate \in Int /\ motor \in Int /\ moves \in Nat
      /\ command[c] \in Int
  BY DEF TypeOK
<1>2. /\ x \in Int
      /\ -Scale <= 2 * (target[c] - estimate - Scale * x)
      /\ 2 * (target[c] - estimate - Scale * x) <= Scale
  BY <1>1, Rounding
<1>3. Scale * (moves + 1) = Scale * moves + Scale
  BY <1>1
<1>4. CASE AcquireMove(c) /\ x = 0
  <2>1. /\ pc[c] = "wantMove" /\ lock = NoCaller /\ Return(c)
        /\ estimate' = target[c] /\ moves' = moves + 1
        /\ UNCHANGED <<lock, motor, stray>>
    BY <1>4 DEF AcquireMove
  <2>2. \A d \in Callers : ~Holding(d)
    BY <2>1 DEF LockInv
  <2>3. TypeOK'
    BY <1>1, <2>1, Returned DEF TypeOK
  <2>4. LockInv' /\ CommandInv'
    BY <2>1, <2>2, Returned DEF LockInv, CommandInv, Holding, TypeOK
  <2>5. HomedInv'
    BY <2>1, Returned DEF HomedInv
  <2>6. DriftInv'
    <3>1. ASSUME stray = {} PROVE Within(estimate, moves)'
      <4>1. Within(estimate, moves)
        BY <2>2, <3>1 DEF DriftInv, Holding
      <4>2. /\ -Scale <= 2 * (target[c] - estimate)
            /\ 2 * (target[c] - estimate) <= Scale
        BY <1>1, <1>2, <1>4
      <4>3. Scale * motor \in Int /\ Scale * moves \in Int
        BY <1>1
      <4> QED BY <1>1, <1>3, <2>1, <4>1, <4>2, <4>3 DEF Within
    <3>2. \A d \in Callers : pc'[d] # "moved"
      BY <2>1, <2>2, Returned DEF Holding
    <3> QED BY <2>1, <3>1, <3>2 DEF DriftInv
  <2> QED BY <2>3, <2>4, <2>5, <2>6
<1>5. CASE AcquireMove(c) /\ x # 0
  <2>1. /\ pc[c] = "wantMove" /\ lock = NoCaller /\ lock' = c
        /\ command' = [command EXCEPT ![c] = x] /\ GoTo(c, "moving")
        /\ UNCHANGED <<estimate, target, raced, moves, motor, stray>>
    BY <1>5 DEF AcquireMove
  <2>2. /\ \A d \in Callers : pc'[d] = IF d = c THEN "moving" ELSE pc[d]
        /\ pc' \in [Callers -> Places] /\ command' \in [Callers -> Int] /\ command'[c] = x
    BY <1>2, <2>1 DEF GoTo, TypeOK, Places
  <2>3. \A d \in Callers : ~Holding(d)
    BY <2>1 DEF LockInv
  <2>4. TypeOK'
    BY <2>1, <2>2 DEF TypeOK
  <2>5. LockInv' /\ HomedInv'
    BY <2>1, <2>2, <2>3 DEF LockInv, HomedInv, Holding
  <2>6. CommandInv'
    BY <1>2, <2>1, <2>2, <2>3 DEF CommandInv, Holding
  <2>7. DriftInv'
    BY <2>1, <2>2, <2>3 DEF DriftInv, Within, Holding
  <2> QED BY <2>4, <2>5, <2>6, <2>7
<1>6. CASE MotorMoves(c)
  <2>1. /\ pc[c] = "moving" /\ motor' = motor + command[c] /\ GoTo(c, "moved")
        /\ raced' = raced \cup Overtaken(c)
        /\ UNCHANGED <<estimate, lock, target, command, moves, stray>>
    BY <1>6 DEF MotorMoves
  <2>2. /\ \A d \in Callers : pc'[d] = IF d = c THEN "moved" ELSE pc[d]
        /\ pc' \in [Callers -> Places]
    BY <2>1 DEF GoTo, TypeOK, Places
  <2>3. \A d \in Callers \ {c} : ~Holding(d)
    BY <2>1 DEF LockInv, Holding
  <2>4. TypeOK'
    BY <1>1, <2>1, <2>2 DEF TypeOK, Overtaken
  <2>5. LockInv' /\ CommandInv'
    BY <2>1, <2>2, <2>3 DEF LockInv, CommandInv, Holding
  <2>6. HomedInv'
    BY <2>1, <2>2 DEF HomedInv, Overtaken
  <2>7. ASSUME stray = {} PROVE Within(target[c], moves + 1)'
    <3>1. Within(estimate, moves)
      BY <2>1, <2>3, <2>7 DEF DriftInv, Holding
    <3>2. /\ -Scale <= 2 * (target[c] - estimate - Scale * command[c])
          /\ 2 * (target[c] - estimate - Scale * command[c]) <= Scale
      BY <2>1 DEF CommandInv
    <3>3. /\ Scale * (motor + command[c]) = Scale * motor + Scale * command[c]
          /\ Scale * motor \in Int /\ Scale * command[c] \in Int /\ Scale * moves \in Int
      BY <1>1
    <3> QED BY <1>1, <1>3, <2>1, <3>1, <3>2, <3>3 DEF Within
  <2>8. DriftInv'
    BY <2>1, <2>2, <2>3, <2>7 DEF DriftInv, Holding
  <2> QED BY <2>4, <2>5, <2>6, <2>8
<1>7. CASE MoveReturns(c)
  <2>1. /\ pc[c] = "moved" /\ lock = c /\ lock' = NoCaller /\ Return(c)
        /\ estimate' = target[c] /\ moves' = moves + 1
        /\ UNCHANGED <<motor, stray>>
    BY <1>7 DEF MoveReturns
  <2>2. \A d \in Callers \ {c} : ~Holding(d)
    BY <2>1 DEF LockInv
  <2>3. TypeOK'
    BY <1>1, <2>1, Returned DEF TypeOK
  <2>4. LockInv' /\ CommandInv' /\ HomedInv'
    BY <2>1, <2>2, Returned DEF LockInv, CommandInv, HomedInv, Holding, TypeOK
  <2>5. DriftInv'
    <3>1. \A d \in Callers : pc'[d] # "moved"
      BY <2>1, <2>2, Returned DEF Holding
    <3>2. stray = {} => Within(estimate, moves)'
      BY <2>1 DEF DriftInv, Within
    <3> QED BY <2>1, <3>1, <3>2 DEF DriftInv
  <2> QED BY <2>3, <2>4, <2>5
<1>8. CASE MoveFails(c)
  <2>1. /\ Holding(c) /\ lock' = NoCaller /\ Return(c) /\ UNCHANGED <<estimate, motor, moves>>
        /\ stray' = IF pc[c] = "moved" THEN stray \cup {"lostReply"} ELSE stray
    BY <1>8 DEF MoveFails, Holding
  <2>2. lock = c /\ \A d \in Callers \ {c} : ~Holding(d)
    BY <2>1 DEF LockInv
  <2>3. TypeOK'
    BY <2>1, Returned DEF TypeOK, Strays
  <2>4. LockInv' /\ CommandInv' /\ HomedInv'
    BY <2>1, <2>2, Returned DEF LockInv, CommandInv, HomedInv, Holding, TypeOK
  <2>5. DriftInv'
    BY <2>1, <2>2, Returned DEF DriftInv, Within, Holding
  <2> QED BY <2>3, <2>4, <2>5
<1> QED BY <1>4, <1>5, <1>6, <1>7, <1>8

LEMMA NudgeKeeps ==
    ASSUME IInv, NEW c \in Callers, NudgeRuns(c) \/ NudgeEnds(c)
    PROVE  IInv'
<1> USE PTZAssumption DEF IInv
<1>1. CASE NudgeRuns(c)
  <2>1. /\ pc[c] = "nudging" /\ GoTo(c, "nudged") /\ motor' \in Int
        /\ stray' = stray \cup {"nudge"} /\ raced' = raced \cup Overtaken(c)
        /\ UNCHANGED <<estimate, lock, target, command, moves>>
    BY <1>1 DEF NudgeRuns, TypeOK
  <2>2. /\ \A d \in Callers : pc'[d] = IF d = c THEN "nudged" ELSE pc[d]
        /\ pc' \in [Callers -> Places]
    BY <2>1 DEF GoTo, TypeOK, Places
  <2>3. TypeOK'
    BY <2>1, <2>2 DEF TypeOK, Overtaken, Strays
  <2>4. LockInv' /\ CommandInv' /\ HomedInv'
    BY <2>1, <2>2 DEF LockInv, CommandInv, HomedInv, Holding, Overtaken
  <2>5. DriftInv'
    BY <2>1 DEF DriftInv
  <2> QED BY <2>3, <2>4, <2>5
<1>2. CASE NudgeEnds(c)
  <2>1. /\ pc[c] \in {"nudging", "nudged"} /\ Return(c)
        /\ UNCHANGED <<estimate, lock, motor, stray, moves>>
    BY <1>2 DEF NudgeEnds
  <2>2. lock # c
    BY <2>1 DEF LockInv, Holding
  <2> QED BY <2>1, <2>2, Returned, QuietStep DEF Quiet
<1> QED BY <1>1, <1>2

LEMMA CalibrateKeeps ==
    ASSUME IInv, NEW c \in Callers,
           MotorHomes(c) \/ ResetEstimate(c) \/ CalibrateFails(c)
    PROVE  IInv'
<1> USE PTZAssumption DEF IInv
<1>1. CASE MotorHomes(c)
  <2>1. /\ pc[c] = "homing" /\ GoTo(c, "homed") /\ motor' = 0
        /\ stray' = stray \cup {"homed"} /\ raced' \in SUBSET Callers
        /\ UNCHANGED <<estimate, lock, target, command, moves>>
    BY <1>1 DEF MotorHomes, TypeOK, Overtaken
  <2>2. /\ \A d \in Callers : pc'[d] = IF d = c THEN "homed" ELSE pc[d]
        /\ pc' \in [Callers -> Places]
    BY <2>1 DEF GoTo, TypeOK, Places
  <2>3. TypeOK'
    BY <2>1, <2>2 DEF TypeOK, Strays
  <2>4. LockInv' /\ CommandInv' /\ HomedInv' /\ DriftInv'
    BY <2>1, <2>2 DEF LockInv, CommandInv, HomedInv, DriftInv, Holding
  <2> QED BY <2>3, <2>4
<1>2. CASE ResetEstimate(c)
  <2>1. /\ pc[c] = "homed" /\ lock = NoCaller /\ estimate' = 0 /\ Return(c)
        /\ stray' = IF c \in raced THEN stray \cup {"homed"} ELSE {}
        /\ moves' = IF c \in raced THEN moves ELSE 0
        /\ UNCHANGED <<lock, motor>>
    BY <1>2 DEF ResetEstimate
  <2>2. \A d \in Callers : ~Holding(d)
    BY <2>1 DEF LockInv
  <2>3. TypeOK'
    BY <2>1, Returned DEF TypeOK, Strays
  <2>4. LockInv' /\ CommandInv' /\ HomedInv'
    BY <2>1, <2>2, Returned DEF LockInv, CommandInv, HomedInv, Holding, TypeOK
  <2>5. DriftInv'
    <3>1. \A d \in Callers : pc'[d] # "moved"
      BY <2>1, <2>2, Returned DEF Holding
    <3>2. CASE c \in raced
      BY <2>1, <3>2 DEF DriftInv
    <3>3. CASE c \notin raced
      <4>1. motor' = 0 /\ estimate' = 0 /\ moves' = 0 /\ Scale * 0 = 0
        BY <2>1, <3>3 DEF HomedInv
      <4> QED BY <3>1, <4>1 DEF DriftInv, Within
    <3> QED BY <3>2, <3>3
  <2> QED BY <2>3, <2>4, <2>5
<1>3. CASE CalibrateFails(c)
  <2>1. /\ pc[c] \in {"homing", "homed"} /\ Return(c)
        /\ UNCHANGED <<estimate, lock, motor, stray, moves>>
    BY <1>3 DEF CalibrateFails
  <2>2. lock # c
    BY <2>1 DEF LockInv, Holding
  <2> QED BY <2>1, <2>2, Returned, QuietStep DEF Quiet
<1> QED BY <1>1, <1>2, <1>3

LEMMA NextIInv == IInv /\ [Next]_vars => IInv'
<1> SUFFICES ASSUME IInv, [Next]_vars PROVE IInv'
  OBVIOUS
<1>1. CASE \E c \in Callers : Call(c) \/ CallStatus \/ StatusReturns
  BY <1>1, CallKeeps
<1>2. ASSUME NEW c \in Callers, Proceed(c) PROVE IInv'
  BY <1>2, MoveKeeps, NudgeKeeps, CalibrateKeeps DEF Proceed
<1>3. CASE UNCHANGED vars
  BY <1>3 DEF vars, camera, IInv, TypeOK, LockInv, Holding, CommandInv, HomedInv, DriftInv, Within
<1>4. Loop \in Callers
  BY DEF Callers
<1> QED BY <1>1, <1>2, <1>3, <1>4 DEF Next

LEMMA Invariance == Spec => []IInv
BY InitIInv, NextIInv, PTL DEF Spec

-----------------------------------------------------------------------------
(* The theorems.                                                           *)

\* Every state of every run is well typed.
THEOREM TypeCorrect == Spec => []TypeOK
BY Invariance, PTL DEF IInv

\* The estimate drifts by at most half a motor unit per move, unless the motor
\* was moved behind its back.
THEOREM DriftIsBounded == Spec => []DriftBounded
<1>1. IInv => DriftBounded
  <2> SUFFICES ASSUME IInv, stray = {}, \A c \in Callers : pc[c] # "moved"
               PROVE  2 * Off(estimate) <= Scale * moves
    BY DEF DriftBounded
  <2>1. Within(estimate, moves)
    BY DEF IInv, DriftInv
  <2>2. Scale * moves \in Int /\ Scale * motor \in Int /\ estimate \in Int
    BY PTZAssumption DEF IInv, TypeOK
  <2> QED BY <2>1, <2>2 DEF Within, Off
<1> QED BY <1>1, Invariance, PTL

\* A calibration no other command overtook makes the estimate exact.
THEOREM CalibrationIsExact == Spec => CalibrateIsExact
<1>1. IInv /\ [Next]_vars =>
        [\A c \in Callers \ raced : ResetEstimate(c) => estimate' = Scale * motor' /\ motor' = 0]_vars
  <2> SUFFICES ASSUME IInv, NEW c \in Callers \ raced, ResetEstimate(c)
               PROVE  estimate' = Scale * motor' /\ motor' = 0
    OBVIOUS
  <2>1. motor = 0
    BY DEF IInv, HomedInv, ResetEstimate
  <2> QED BY <2>1, PTZAssumption DEF ResetEstimate
<1> QED BY <1>1, Invariance, PTL DEF Spec, CalibrateIsExact
=============================================================================
