---------------------------- MODULE MCImageQueue ----------------------------
(* Model checking of ImageQueue.  No symmetry: liveness is checked.        *)
EXTENDS ImageQueue
=============================================================================
