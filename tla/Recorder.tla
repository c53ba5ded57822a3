------------------------------ MODULE Recorder ------------------------------
(***************************************************************************)
(* What the recording half of RTSPCamera (camera/app/camera/service.py)    *)
(* promises to the handlers of camera/app/camera/router.py: recordings     *)
(* happen one at a time, a file grows only while its recording is active,  *)
(* and a file that was closed never changes again.  When flushing or       *)
(* closing the muxer raises, the code leaves its _recording flag set: that *)
(* is the session "stuck", which only a further stop clears.               *)
(* RTSPCamera implements this module; Recordings is composed from it.      *)
(***************************************************************************)
EXTENDS Naturals

CONSTANT Files      \* the names generate_filename() hands out, never twice

VARIABLES
    session,    \* "idle", "recording", or "stuck" after a failed close
    file        \* per name: where the file is in its life, and its length

recorderVars == <<session, file>>

FileStates == {"absent", "open", "closed", "damaged"}

RecorderTypeOK ==
    /\ session \in {"idle", "recording", "stuck"}
    /\ file \in [Files -> [state : FileStates, size : Nat]]

RecorderInit ==
    /\ session = "idle"
    /\ file = [f \in Files |-> [state |-> "absent", size |-> 0]]

\* start_recording: a new output container on a name never used before.
Begin(f) ==
    /\ session = "idle"
    /\ file[f].state = "absent"
    /\ session' = "recording"
    /\ file' = [file EXCEPT ![f].state = "open"]

\* The decode loop muxes one frame into the active recording.
Grow(f) ==
    /\ session = "recording"
    /\ file[f].state = "open"
    /\ file' = [file EXCEPT ![f].size = @ + 1]
    /\ UNCHANGED session

\* stop_recording, or the close that stop() and reset() make: flush, close.
Finish(f) ==
    /\ session = "recording"
    /\ file[f].state = "open"
    /\ session' = "idle"
    /\ file' = [file EXCEPT ![f].state = "closed"]

\* The same, when the flush or the close raises: _recording stays set.
Break(f) ==
    /\ session = "recording"
    /\ file[f].state = "open"
    /\ session' = "stuck"
    /\ file' = [file EXCEPT ![f].state = "damaged"]

\* A later stop finds the muxer gone and clears the flag.
Unstick ==
    /\ session = "stuck"
    /\ session' = "idle"
    /\ UNCHANGED file

RecorderNext ==
    \/ \E f \in Files : Begin(f) \/ Grow(f) \/ Finish(f) \/ Break(f)
    \/ Unstick

RecorderSpec == RecorderInit /\ [][RecorderNext]_recorderVars

(***************************************************************************)
(* One writer: a file is open exactly while its recording is the active    *)
(* one, and no two files are ever open (the muxer is a single slot, set at *)
(* service.py:147 and emptied at 199).                                     *)
(***************************************************************************)
OneWriter ==
    /\ \A f \in Files : file[f].state = "open" => session = "recording"
    /\ \A f, g \in Files : file[f].state = "open" /\ file[g].state = "open" => f = g
    /\ session = "recording" => \E f \in Files : file[f].state = "open"
=============================================================================
