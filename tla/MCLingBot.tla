----------------------------- MODULE MCLingBot -----------------------------
(***************************************************************************)
(* LingBot for TLC: instructions of two lengths, one of them of length 2   *)
(* so that it is neither the first nor the last row, requests that are     *)
(* refused for each reason, with and without a state; a robot of two       *)
(* numbers that are swapped and spread in the canonical state of three.    *)
(***************************************************************************)
EXTENDS LingBot

MCRawMap == <<2, 0>>

MCEnvironments == {e \in [flash : BOOLEAN, fa_f16 : BOOLEAN, dump : BOOLEAN, no_cache : BOOLEAN] :
                     ~e.flash => e.fa_f16}

Good == [views |-> 3, sized |-> TRUE, lang |-> 1, known |-> TRUE, state |-> <<1, 2>>]

MCRequests ==
  {Good, [Good EXCEPT !.lang = 2, !.state = <<3, 4>>], [Good EXCEPT !.state = <<>>],
   [Good EXCEPT !.views = 2], [Good EXCEPT !.sized = FALSE], [Good EXCEPT !.lang = 0], [Good EXCEPT !.known = FALSE]}

\* Expand keeps the order that the proof about the caches asks of it.
ASSUME ExpandsInOrder == GraphInOrder
=============================================================================
