------------------------- MODULE MCProcessLifecycle -------------------------
(* Instances of ProcessLifecycle for TLC.                                  *)
EXTENDS ProcessLifecycle

CONSTANTS r, s, q
=============================================================================
