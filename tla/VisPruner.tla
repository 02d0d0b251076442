----------------------------- MODULE VisPruner -----------------------------
(***************************************************************************)
(* The vision part of pi0.5's prepare_inputs: each camera view is encoded  *)
(* into Patches tokens, which vispruner_prune (pi05_vispruner.cpp) cuts    *)
(* down to the view's share of VLA_PI05_VIS_PRUNER_TOKENS, some by the     *)
(* attention they receive, the rest by dropping the most similar pairs     *)
(* round by round.                                                         *)
(*                                                                         *)
(* A token is its place in the view, counted from 1 as sequences are.      *)
(* Attention and embeddings are numbers that order tokens and tell how     *)
(* close two of them are; std::sort may put equals in any order.           *)
(***************************************************************************)
EXTENDS Integers, SequencesExt

CONSTANTS
  Patches,      (* the tokens the vision tower makes of a view              *)
  MaxImages,    (* bound: the views of a request                            *)
  Budgets,      (* the values of VLA_PI05_VIS_PRUNER_TOKENS                 *)
  Percents,     (* the values of VLA_PI05_VIS_PRUNER_RATIO, in percent      *)
  ViewData      (* what views encode to: attention and embedding of tokens  *)

Tokens == 1..Patches

ASSUME PrunerAssumption ==
  /\ Patches \in Nat \ {0} /\ MaxImages \in Nat
  /\ Budgets \subseteq Int /\ Percents \subseteq Int
  /\ ViewData \subseteq [att : [Tokens -> Nat], emb : [Tokens -> Nat]]

VARIABLES
  config,       (* the pruner's settings, read once per process, and the    *)
                (* number of images of the request                          *)
  pc,           (* "encode", "rank", "round", "append", "done", "failed",   *)
                (* "thrown"                                                 *)
  view,         (* the data of the view in hand                             *)
  selected,     (* tokens taken by importance                               *)
  remaining,    (* tokens the budget for diversity is chosen from           *)
  embeddings,   (* img_emb_host: what each view was cut down to             *)
  count         (* n_img_tokens                                             *)

vars == <<config, pc, view, selected, remaining, embeddings, count>>

Init ==
  /\ config \in [budget : Budgets, percent : Percents, keepOrder : BOOLEAN, images : 0..MaxImages]
  /\ pc = "encode" /\ view \in ViewData
  /\ selected = <<>> /\ remaining = <<>>
  /\ embeddings = <<>> /\ count = 0

-----------------------------------------------------------------------------
Larger(a, b) == IF a >= b THEN a ELSE b
Smaller(a, b) == IF a <= b THEN a ELSE b

\* vp_per_view: a view's share, 0 if the pruner is off.
Target ==
  IF config.budget > 0 THEN Larger(1, config.budget \div Larger(1, config.images)) ELSE 0

\* T_imp and T_div.
Important == (Target * config.percent) \div 100
Diverse   == Target - Important

\* Both the caller and vispruner_prune leave a view alone that is small enough, and
\* the latter one whose settings give no important token, or too many.
Prunes == 0 < Target /\ Target < Patches /\ Important >= 1 /\ Diverse >= 0

\* The ways std::sort may order n places by falling f.  The provers do not know TLC's
\* Permutations, so what they are is said besides.
Rankings(f, n) ==
  {q \in Permutations(1..n) : (\A i, j \in 1..n : i < j => f[q[i]] >= f[q[j]]) /\ q \in Bijection(1..n, 1..n)}

\* Cosine similarity: two tokens are the closer the less their embeddings differ.
Similarity(a, b) ==
  LET e == view.emb IN IF e[a] >= e[b] THEN e[b] - e[a] ELSE e[a] - e[b]

-----------------------------------------------------------------------------
\* All views are done; a request without images fails.
Finish ==
  /\ pc = "encode"
  /\ Len(embeddings) = config.images
  /\ pc' = IF config.images = 0 THEN "failed" ELSE "done"
  /\ UNCHANGED <<config, view, selected, remaining, embeddings, count>>

\* An image of the wrong size, or clip_encode_float_image fails.
EncodeFails ==
  /\ pc = "encode" /\ pc' = "failed"
  /\ Len(embeddings) < config.images
  /\ UNCHANGED <<config, view, selected, remaining, embeddings, count>>

\* The next view.  Without attention data the pruner is skipped.
Encode ==
  /\ pc = "encode"
  /\ Len(embeddings) < config.images
  /\ view' \in ViewData
  /\ \/ Prunes /\ pc' = "rank" /\ selected' = <<>>
     \/ pc' = "append" /\ selected' = [i \in 1..Patches |-> i]
  /\ remaining' = <<>>
  /\ UNCHANGED <<config, embeddings, count>>

\* Mutant: the least important tokens are taken.
RankUpwards ==
  /\ pc = "rank" /\ pc' = "round"
  /\ \E order \in Rankings(view.att, Patches) :
       /\ selected'  = SubSeq(Reverse(order), 1, Important)
       /\ remaining' = SubSeq(Reverse(order), Important + 1, Patches)
  /\ UNCHANGED <<config, view, embeddings, count>>

\* Stage 1: the most important tokens are selected, the others remain by rank.
Rank ==
  /\ pc = "rank" /\ pc' = "round"
  /\ \E order \in Rankings(view.att, Patches) :
       /\ selected'  = SubSeq(order, 1, Important)
       /\ remaining' = SubSeq(order, Important + 1, Patches)
  /\ UNCHANGED <<config, view, embeddings, count>>

\* Mutant: r may be 0.
DroppedPairsOrNone(R) == Smaller((R - Diverse + 1) \div 2, R \div 2)

\* r: the pairs a round drops, of R tokens.
DroppedPairs(R) == Larger(1, Smaller((R - Diverse + 1) \div 2, R \div 2))

\* Mutant: pairs are ranked the other way round.
PairSimFalling(n) == [i \in 1..n |-> -Similarity(remaining[2*i-1], remaining[2*i])]

\* pair_sim: neighbours in `remaining` are a pair.
PairSim(n) == [i \in 1..n |-> Similarity(remaining[2*i-1], remaining[2*i])]

\* new_remaining: the pairs left when r are dropped, the least similar last, and the
\* odd token at the end, which always survives.
Survivors(order, r) ==
  LET R == Len(remaining)
  IN [j \in 1..R - 2 * r |->
        IF j > 2 * ((R \div 2) - r) THEN remaining[R]
        ELSE remaining[2 * order[r + ((j + 1) \div 2)] - (j % 2)]]

\* Stage 2, a round.  If there is no pair, `new_remaining.reserve` is given a negative
\* number, taken for a huge one, and throws.
Round ==
  LET R == Len(remaining)
      r == DroppedPairs(R)
  IN
  /\ pc = "round" /\ R > Diverse
  /\ IF R < 2 * r THEN pc' = "thrown" /\ UNCHANGED remaining
     ELSE /\ \E order \in Rankings(PairSim(R \div 2), R \div 2) : remaining' = Survivors(order, r)
          /\ UNCHANGED pc
  /\ UNCHANGED <<config, view, selected, embeddings, count>>

\* Mutant: the order is not restored.
MergeUnsorted ==
  /\ pc = "round" /\ Len(remaining) <= Diverse
  /\ pc' = "append"
  /\ selected' = selected \o remaining
  /\ remaining' = <<>>
  /\ UNCHANGED <<config, view, embeddings, count>>

\* Selected and remaining tokens together, in their places' order if asked for.
Merge ==
  LET all == selected \o remaining IN
  /\ pc = "round" /\ Len(remaining) <= Diverse
  /\ pc' = "append"
  /\ IF config.keepOrder
     THEN \E q \in Rankings([i \in DOMAIN all |-> -all[i]], Len(all)) :
            selected' = [i \in DOMAIN all |-> all[q[i]]]
     ELSE selected' = all
  /\ remaining' = <<>>
  /\ UNCHANGED <<config, view, embeddings, count>>

\* Mutant: tokens are counted before pruning.
AppendUnpruned ==
  /\ pc = "append" /\ pc' = "encode"
  /\ embeddings' = Append(embeddings, [view |-> view, kept |-> selected])
  /\ count' = count + Patches
  /\ UNCHANGED <<config, view, selected, remaining>>

\* img_emb_host.insert
AppendView ==
  /\ pc = "append" /\ pc' = "encode"
  /\ embeddings' = Append(embeddings, [view |-> view, kept |-> selected])
  /\ count' = count + Len(selected)
  /\ UNCHANGED <<config, view, selected, remaining>>

-----------------------------------------------------------------------------
Step == Encode \/ EncodeFails \/ Finish \/ Rank \/ Round \/ Merge \/ AppendView

Next == Step

\* prepare_inputs runs.
Spec == Init /\ [][Next]_vars /\ WF_vars(Next)

-----------------------------------------------------------------------------
(* Properties. *)

Kept(e)    == {e.kept[i] : i \in DOMAIN e.kept}
Dropped(e) == Tokens \ Kept(e)

\* The rows of img_emb_host: those of one view after those of another.
EmbeddingRows == {r \in (DOMAIN embeddings) \X Tokens : r[2] <= Len(embeddings[r[1]].kept)}

\* What becomes of a view: all of it, or its share, or one less when pairs cannot hit it.
Share(tokens) ==
  /\ IsInjective(tokens)
  /\ Len(tokens) \in {Patches, Target - ((Patches - Target) % 2)}
  /\ ~Prunes => Len(tokens) = Patches

\* No token is duplicated, invented or miscounted over the views, and a view the
\* pruner cuts comes out at its share.
CountsAgree ==
  /\ count = Cardinality(EmbeddingRows)
  /\ \A i \in DOMAIN embeddings : Share(embeddings[i].kept)

\* The tokens kept that no dropped one receives more attention than.
Foremost(e) == {t \in Kept(e) : \A d \in Dropped(e) : e.view.att[t] >= e.view.att[d]}
Weighty(e)  == Dropped(e) # {} => Cardinality(Foremost(e)) >= Important

\* As many tokens as the ratio says are kept for their attention: no token dropped
\* receives more than any of them.
KeepsMostImportant == \A i \in DOMAIN embeddings : Weighty(embeddings[i])

LeastSimilarStay ==
  Round /\ pc' = "round" =>
    LET pairs == 1..Len(remaining) \div 2
        left  == {i \in pairs : \E j \in DOMAIN remaining' : remaining'[j] = remaining[2*i]}
    IN \A i \in left, d \in pairs \ left :
         Similarity(remaining[2*i-1], remaining[2*i]) <= Similarity(remaining[2*d-1], remaining[2*d])

\* The pairs a round keeps are none more similar than a pair it drops.
DropsMostSimilar == [][LeastSimilarStay]_vars

InOrder(tokens) == \A j, k \in DOMAIN tokens : j < k => tokens[j] < tokens[k]

\* "retain the original positional order of kept tokens", over two stages that each
\* reorder them, and views pruned or not.
OrderKept == config.keepOrder => \A i \in DOMAIN embeddings : InOrder(embeddings[i].kept)

\* prepare_inputs returns, for every budget and ratio: the rounds end, and throw only
\* where all tokens are chosen by importance and an odd number is left over.
Returns ==
  <>(\/ pc \in {"done", "failed"}
     \/ pc = "thrown" /\ Diverse = 0 /\ (Patches - Target) % 2 = 1)

-----------------------------------------------------------------------------
(* Why: what holds between the steps of a view, from which the above       *)
(* follows.                                                                *)

TypeOK ==
  /\ config \in [budget : Budgets, percent : Percents, keepOrder : BOOLEAN, images : 0..MaxImages]
  /\ pc \in {"encode", "rank", "round", "append", "done", "failed", "thrown"}
  /\ view \in ViewData
  /\ selected \in Seq(Tokens) /\ remaining \in Seq(Tokens)
  /\ embeddings \in Seq([view : ViewData, kept : Seq(Tokens)])
  /\ count \in Nat

\* Between the stages a token is selected or remaining or dropped, once; the rounds
\* drop pairs, down to the budget or one below.
Rounds ==
  pc = "round" =>
    /\ Prunes /\ Len(selected) = Important
    /\ IsInjective(selected) /\ IsInjective(remaining)
    /\ \A i \in DOMAIN selected, j \in DOMAIN remaining : selected[i] # remaining[j]
    /\ Len(remaining) >= Diverse - 1
    /\ (Len(remaining) - (Patches - Important)) % 2 = 0

\* Nothing outside has more attention than what is selected first.
Selection ==
  pc = "round" => \A i \in DOMAIN selected, t \in Tokens \ Range(selected) :
                    view.att[selected[i]] >= view.att[t]

\* A view that is ready to be appended is as those that were.
Ready ==
  /\ pc = "rank" => Prunes
  /\ pc = "append" =>
       /\ Share(selected) /\ Weighty([view |-> view, kept |-> selected])
       /\ config.keepOrder => InOrder(selected)

Inv == TypeOK /\ Rounds /\ Selection /\ Ready /\ CountsAgree /\ KeepsMostImportant /\ OrderKept
=============================================================================
