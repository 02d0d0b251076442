-------------------------- MODULE MCAsyncPipeline ---------------------------
(***************************************************************************)
(* AsyncPipeline for TLC.  The safety properties treat connections alike,  *)
(* so the safety run uses their symmetry; the liveness runs do not.        *)
(***************************************************************************)
EXTENDS AsyncPipeline, TLC

ConnSymmetry == Permutations(Conns)
=============================================================================
