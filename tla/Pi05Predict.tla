---------------------------- MODULE Pi05Predict ----------------------------
(***************************************************************************)
(* What pi0.5 promises its callers, with or without a pipeline: requests   *)
(* are computed in the order they were accepted, each from its own inputs  *)
(* and the next draw of the noise generator, as if there were no cached    *)
(* graph; or they fail.  A failed one may have drawn.                      *)
(***************************************************************************)
EXTENDS Pi05Rtc, Sequences

VARIABLES
  queue,        (* the requests accepted and not computed                   *)
  rng,          (* the state of the noise generator                         *)
  out           (* the actions computed last, as a set: empty on failure    *)

vars == <<queue, rng, out>>

NextDraw(r, s) == IF r.noise THEN s ELSE (s + 1) % Period

\* The rows that guidance acts on, of n left over.
Prefix(n) == {i \in Rows : i < n /\ i < Horizon}

\* The actions a request is given when the generator is in state s.
Actions(r, s) ==
  LET n == NPrevChunk(r.prev) IN
  [call      |-> r,
   noise     |-> IF r.noise THEN -1 ELSE s,
   inpainted |-> IF Inpaint THEN Prefix(n) ELSE {},
   known     |-> {i \in Rows : Rtc /\ i < n},
   steered   |-> IF Rtc THEN Prefix(n) ELSE {},
   pinned    |-> {i \in Prefix(n) : Rtc /\ i < Delay}]

Init == queue = <<>> /\ rng = 0 /\ out = {}

Accept(r) ==
  /\ Len(queue) < MaxInFlight
  /\ queue' = Append(queue, r)
  /\ UNCHANGED <<rng, out>>

Answer ==
  /\ queue # <<>> /\ queue' = Tail(queue)
  /\ rng' = NextDraw(Head(queue), rng)
  /\ out' = {Actions(Head(queue), rng)}

Fail ==
  /\ queue # <<>> /\ queue' = Tail(queue)
  /\ rng' \in {rng, NextDraw(Head(queue), rng)}
  /\ out' = {}

Next == (\E r \in Requests : Accept(r)) \/ Answer \/ Fail

SafeSpec == Init /\ [][Next]_vars
Spec     == SafeSpec /\ WF_vars(Answer \/ Fail)
=============================================================================
