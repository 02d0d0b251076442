---------------------------- MODULE MCPi05Graph ----------------------------
(***************************************************************************)
(* Pi05Graph for TLC: requests with the same and with different token      *)
(* counts; without a previous chunk, with one shorter than the horizon,    *)
(* as long, longer, and longer than a chunk; and one that does not parse.  *)
(***************************************************************************)
EXTENDS Pi05Graph

MCRequests ==
  {[img |-> 1, lang |-> 1, prev |-> 0,  noise |-> TRUE],
   [img |-> 1, lang |-> 1, prev |-> 4,  noise |-> FALSE],
   [img |-> 1, lang |-> 2, prev |-> 6,  noise |-> FALSE],
   [img |-> 2, lang |-> 1, prev |-> 10, noise |-> TRUE],
   [img |-> 2, lang |-> 2, prev |-> 18, noise |-> FALSE],
   [img |-> 1, lang |-> 1, prev |-> 5,  noise |-> FALSE]}
=============================================================================
