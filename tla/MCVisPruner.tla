---------------------------- MODULE MCVisPruner ----------------------------
(***************************************************************************)
(* VisPruner for TLC: views whose tokens all differ, are all alike, and    *)
(* fall into classes of attention and embedding that cut across each other.*)
(***************************************************************************)
EXTENDS VisPruner

Att(f(_)) == [t \in Tokens |-> f(t)]

MCViewData ==
  LET Up(t)   == t
      Down(t) == Patches - t
      Odd(t)  == t % 2
      Half(t) == (t - 1) \div 3
  IN {[att |-> Att(Up),   emb |-> Att(Half)],
      [att |-> Att(Odd),  emb |-> Att(Down)],
      [att |-> Att(Half), emb |-> Att(Odd)]}
=============================================================================
