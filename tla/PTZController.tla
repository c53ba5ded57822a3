--------------------------- MODULE PTZController ---------------------------
(***************************************************************************)
(* camera/app/ptz: the open-loop pan/tilt controller, its HTTP handlers    *)
(* (which run it on worker threads) and the event dispatcher (which runs it*)
(* on the event loop itself).                                              *)
(*                                                                         *)
(* One axis is modelled: the axes share the lock and the command, and are  *)
(* otherwise alike.  Angles are integers, Scale of them to one motor unit, *)
(* so that a target need not be a whole number of units.  The motor is the *)
(* camera's: moveMotor, moveMotorStep and calibrateMotor are requests that *)
(* take effect some time before they return, or not at all, or take effect *)
(* and then raise (the reply is lost).                                     *)
(***************************************************************************)
EXTENDS Integers

CONSTANTS
    Workers,    \* threads of asyncio.to_thread
    Loop,       \* the event-loop thread
    NoCaller,   \* the lock is free
    Targets,    \* angles clients ask for
    Scale,      \* angle steps per motor unit
    Step,       \* motor units of one nudge, fixed by the firmware
    Travel,     \* motor units from home to either end stop
    MaxMoves    \* bound: no move is asked for after so many without a calibration

Callers == Workers \cup {Loop}

ASSUME PTZAssumption ==
    /\ Loop \notin Workers
    /\ NoCaller \notin Callers
    /\ Targets \subseteq Int
    /\ Scale \in Nat \ {0}
    /\ Step \in Nat \ {0}
    /\ Travel \in Nat
    /\ MaxMoves \in Nat

VARIABLES
    estimate,   \* _pan_deg
    lock,       \* who holds _lock
    pc,         \* where each caller is
    target,     \* the argument of each caller's move_to
    command,    \* the x of each caller's moveMotor
    motor,      \* the camera's true position, in motor units
    moves,      \* history: move_to calls completed since the last clean calibration
    stray,      \* history: what moved the motor behind the estimate's back since then
    raced       \* history: callers during whose request another one moved the motor

camera  == <<motor, stray, raced>>
vars == <<estimate, lock, pc, target, command, camera, moves>>

Places == {"idle", "wantMove", "moving", "moved", "nudging", "nudged",
           "homing", "homed", "wantStatus"}
Strays == {"nudge", "lostReply", "homed"}

TypeOK ==
    /\ estimate \in Int
    /\ lock \in Callers \cup {NoCaller}
    /\ pc \in [Callers -> Places]
    /\ target \in [Callers -> Int]
    /\ command \in [Callers -> Int]
    /\ motor \in Int
    /\ moves \in Nat
    /\ stray \in SUBSET Strays
    /\ raced \in SUBSET Callers

Init ==
    /\ estimate = 0
    /\ lock = NoCaller
    /\ pc = [c \in Callers |-> "idle"]
    /\ target = [c \in Callers |-> 0]
    /\ command = [c \in Callers |-> 0]
    /\ motor = 0
    /\ moves = 0
    /\ stray = {}
    /\ raced = {}

\* Mutation: int() in place of round().
TruncateUnits(delta) == IF delta < 0 THEN -((-delta) \div Scale) ELSE delta \div Scale

\* Python's round(delta / Scale): to the nearest unit, halves to the even one.
RoundUnits(delta) ==
    LET floor == delta \div Scale
        twice == 2 * (delta % Scale)
    IN  IF twice < Scale \/ (twice = Scale /\ floor % 2 = 0) THEN floor ELSE floor + 1

\* The loop runs one handler at a time, and it is the loop that hands calls
\* to the worker threads.
CanStart(c) == pc[c] = "idle" /\ pc[Loop] = "idle"

GoTo(c, place) == pc' = [pc EXCEPT ![c] = place]

\* A request is over: its thread or handler forgets its arguments.
Return(c) ==
    /\ GoTo(c, "idle")
    /\ target' = [target EXCEPT ![c] = 0]
    /\ command' = [command EXCEPT ![c] = 0]
    /\ raced' = raced \ {c}

\* Everybody else whose request is in progress while c moves the motor.
Overtaken(c) == {d \in Callers \ {c} : pc[d] \in {"moving", "moved", "homed"}}

-----------------------------------------------------------------------------
(* move_to(pan, tilt).                                                     *)

CallMove(c, t) ==
    /\ CanStart(c)
    /\ moves < MaxMoves
    /\ GoTo(c, "wantMove")
    /\ target' = [target EXCEPT ![c] = t]
    /\ UNCHANGED <<estimate, lock, command, camera, moves>>

\* Under the lock, the delta from the estimate is rounded to motor units.  A
\* delta that rounds to nothing sends no command, and still sets the estimate.
AcquireMove(c) ==
    LET x == RoundUnits(target[c] - estimate) IN
    /\ pc[c] = "wantMove"
    /\ lock = NoCaller
    /\ \/ /\ x = 0
          /\ estimate' = target[c]
          /\ moves' = moves + 1
          /\ Return(c)
          /\ UNCHANGED lock
       \/ /\ x # 0
          /\ lock' = c
          /\ command' = [command EXCEPT ![c] = x]
          /\ GoTo(c, "moving")
          /\ UNCHANGED <<estimate, target, raced, moves>>
    /\ UNCHANGED <<motor, stray>>

\* The camera carries the command out; beyond an end stop it only raises.
MotorMoves(c) ==
    /\ pc[c] = "moving"
    /\ motor + command[c] \in -Travel..Travel
    /\ motor' = motor + command[c]
    /\ raced' = raced \cup Overtaken(c)
    /\ GoTo(c, "moved")
    /\ UNCHANGED <<estimate, lock, target, command, moves, stray>>

MoveReturns(c) ==
    /\ pc[c] = "moved"
    /\ lock = c
    /\ estimate' = target[c]
    /\ moves' = moves + 1
    /\ lock' = NoCaller
    /\ Return(c)
    /\ UNCHANGED <<motor, stray>>

\* Mutation: the lock is not released when moveMotor raises.
MoveFailsLocked(c) ==
    /\ pc[c] \in {"moving", "moved"}
    /\ stray' = IF pc[c] = "moved" THEN stray \cup {"lostReply"} ELSE stray
    /\ Return(c)
    /\ UNCHANGED <<estimate, lock, motor, moves>>

\* moveMotor raises, before or after the motor moved: the estimate stays.
MoveFails(c) ==
    /\ pc[c] \in {"moving", "moved"}
    /\ stray' = IF pc[c] = "moved" THEN stray \cup {"lostReply"} ELSE stray
    /\ lock' = NoCaller
    /\ Return(c)
    /\ UNCHANGED <<estimate, motor, moves>>

-----------------------------------------------------------------------------
(* nudge(direction): no lock, no estimate.  An invalid direction raises    *)
(* before anything happens and is left out.                                *)

CallNudge(c) ==
    /\ CanStart(c)
    /\ GoTo(c, "nudging")
    /\ UNCHANGED <<estimate, lock, target, command, camera, moves>>

NudgeRuns(c) ==
    /\ pc[c] = "nudging"
    /\ \E s \in {-Step, Step} :
          /\ motor + s \in -Travel..Travel
          /\ motor' = motor + s
    /\ stray' = stray \cup {"nudge"}
    /\ raced' = raced \cup Overtaken(c)
    /\ GoTo(c, "nudged")
    /\ UNCHANGED <<estimate, lock, target, command, moves>>

\* The call returns or raises; only the response differs.
NudgeEnds(c) ==
    /\ pc[c] \in {"nudging", "nudged"}
    /\ Return(c)
    /\ UNCHANGED <<estimate, lock, motor, stray, moves>>

-----------------------------------------------------------------------------
(* calibrate(): home the motor without the lock, then reset the estimate   *)
(* under it.                                                               *)

CallCalibrate(c) ==
    /\ CanStart(c)
    /\ GoTo(c, "homing")
    /\ UNCHANGED <<estimate, lock, target, command, camera, moves>>

MotorHomes(c) ==
    /\ pc[c] = "homing"
    /\ motor' = 0
    /\ raced' = raced \cup {d \in Overtaken(c) : pc[d] # "homed"}
    /\ stray' = stray \cup {"homed"}
    /\ GoTo(c, "homed")
    /\ UNCHANGED <<estimate, lock, target, command, moves>>

\* Mutation: the estimate is only reset when it was off by a whole unit.
ResetIfFar(c) ==
    /\ pc[c] = "homed"
    /\ lock = NoCaller
    /\ estimate' = IF estimate \in -Scale..Scale THEN estimate ELSE 0
    /\ stray' = IF c \in raced THEN stray \cup {"homed"} ELSE {}
    /\ moves' = IF c \in raced THEN moves ELSE 0
    /\ Return(c)
    /\ UNCHANGED <<lock, motor>>

\* Clean when no other request moved the motor since it was homed.
ResetEstimate(c) ==
    /\ pc[c] = "homed"
    /\ lock = NoCaller
    /\ estimate' = 0
    /\ stray' = IF c \in raced THEN stray \cup {"homed"} ELSE {}
    /\ moves' = IF c \in raced THEN moves ELSE 0
    /\ Return(c)
    /\ UNCHANGED <<lock, motor>>

\* calibrateMotor raises, before or after the motor was homed.
CalibrateFails(c) ==
    /\ pc[c] \in {"homing", "homed"}
    /\ Return(c)
    /\ UNCHANGED <<estimate, lock, motor, stray, moves>>

-----------------------------------------------------------------------------
(* status(), which GET /ptz/status and the tail of POST /ptz/nudge call on *)
(* the loop thread: the lock is taken, and the loop waits for it.          *)

CallStatus ==
    /\ CanStart(Loop)
    /\ GoTo(Loop, "wantStatus")
    /\ UNCHANGED <<estimate, lock, target, command, camera, moves>>

StatusReturns ==
    /\ pc[Loop] = "wantStatus"
    /\ lock = NoCaller
    /\ GoTo(Loop, "idle")
    /\ UNCHANGED <<estimate, lock, target, command, camera, moves>>

Call(c) == CallNudge(c) \/ CallCalibrate(c) \/ \E t \in Targets : CallMove(c, t)

Proceed(c) ==
    \/ AcquireMove(c) \/ MotorMoves(c) \/ MoveReturns(c) \/ MoveFails(c)
    \/ NudgeRuns(c) \/ NudgeEnds(c)
    \/ MotorHomes(c) \/ ResetEstimate(c) \/ CalibrateFails(c)

Next ==
    \/ \E c \in Callers : Call(c) \/ Proceed(c)
    \/ CallStatus \/ StatusReturns

(***************************************************************************)
(* Threads run, and a request to the camera returns or times out.  Nothing *)
(* is assumed of who gets a contended lock.                                *)
(***************************************************************************)
Fairness == WF_vars(StatusReturns) /\ \A c \in Callers : WF_vars(Proceed(c))

Spec == Init /\ [][Next]_vars
FairSpec == Spec /\ Fairness

-----------------------------------------------------------------------------
(* Properties.                                                             *)

Off(angle) == IF angle < Scale * motor THEN Scale * motor - angle ELSE angle - Scale * motor

\* The estimate is wrong by at most half a motor unit per move since the last
\* clean calibration, as long as no nudge, no lost reply and no half-done
\* calibration moved the motor behind its back (move_to rounds every delta).
DriftBounded ==
    stray = {} /\ (\A c \in Callers : pc[c] # "moved") => 2 * Off(estimate) <= Scale * moves

\* A calibration that no other motor command overtook between the homing and
\* the reset leaves the estimate and the motor in agreement.
CalibrateIsExact ==
    [][\A c \in Callers \ raced :
          ResetEstimate(c) => estimate' = Scale * motor' /\ motor' = 0]_vars

\* The event loop, which waits for the lock and for the camera in status()
\* and in the event dispatcher, always gets to run again.
LoopNeverStuck == pc[Loop] # "idle" ~> pc[Loop] = "idle"
=============================================================================
