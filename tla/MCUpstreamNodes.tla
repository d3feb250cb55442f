--------------------------- MODULE MCUpstreamNodes ---------------------------
(* Model checking instances of UpstreamNodes; the values of the constants  *)
(* are in the nodes_*.cfg files.  Liveness is checked without symmetry.    *)
EXTENDS UpstreamNodes
=============================================================================
