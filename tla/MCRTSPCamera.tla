---------------------------- MODULE MCRTSPCamera ----------------------------
(* RTSPCamera on a small instance: two decode threads (one reset), so a    *)
(* thread that outlived a join can meet its successor.                     *)
EXTENDS RTSPCamera
=============================================================================
