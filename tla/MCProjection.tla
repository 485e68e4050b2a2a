---------------------------- MODULE MCProjection ----------------------------
(* Small instances of Projection for TLC.                                  *)
EXTENDS Projection

CONSTANTS w1, w2, a, b
=============================================================================
