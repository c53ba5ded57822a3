------------------------ MODULE MCDetectionPipeline ------------------------
(* A small instance of DetectionPipeline for TLC. *)
EXTENDS DetectionPipeline, TLC

CONSTANTS z1, z2

\* Three places: the second exactly at the distance limit from the two others,
\* and they out of reach of each other.
ThreePlaces == {<<0, 0>>, <<3, 4>>, <<6, 8>>}

Corner == {<<0, 0>>}

\* A zone around the first place, with no other in it.
Triangle == <<<<-1, -1>>, <<2, -1>>, <<-1, 2>>>>

OneZone == z1 :> Triangle

\* Two zones that overlap in that place.
TwoZones == z1 :> Triangle @@ z2 :> <<<<-1, 0>>, <<0, -1>>, <<1, 0>>, <<0, 1>>>>
=============================================================================
