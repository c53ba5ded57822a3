--------------------------- MODULE MCPTZController ---------------------------
(* A small instance of PTZController for TLC. *)
EXTENDS PTZController

\* Three quarters and five quarters of a motor unit.
QuarterTargets == {3, 5}
=============================================================================
