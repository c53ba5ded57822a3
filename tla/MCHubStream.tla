---------------------------- MODULE MCHubStream ----------------------------
(* A small instance of HubStream for TLC. *)
EXTENDS HubStream
=============================================================================
