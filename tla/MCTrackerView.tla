--------------------------- MODULE MCTrackerView ---------------------------
(* TrackerView with two polls in flight, two cats, and one detection more  *)
(* than fits on a page.                                                    *)
EXTENDS TrackerView
=============================================================================
