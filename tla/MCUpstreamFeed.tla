--------------------------- MODULE MCUpstreamFeed ---------------------------
(* UpstreamFeed on a few pictures.                                         *)
EXTENDS UpstreamFeed
=============================================================================
