-------------------------- MODULE MCFasterWamCache --------------------------
(***************************************************************************)
(* FasterWamTwoPhase for TLC: a request without a text has one token, two  *)
(* instructions have two tokens and a third one has three.                 *)
(***************************************************************************)
EXTENDS FasterWamTwoPhase, TLC

CONSTANTS a, b, c

MCShape == (NoText :> 1) @@ (a :> 2) @@ (b :> 2) @@ (c :> 3)
=============================================================================
