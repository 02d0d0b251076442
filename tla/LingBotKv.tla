----------------------------- MODULE LingBotKv -----------------------------
(***************************************************************************)
(* The compute graph of LingBot-VLA v2 as far as its KV caches go.  With   *)
(* flash attention each layer has one buffer for the keys and values of    *)
(* prefix and suffix: the prefix is staged in it once, every denoising     *)
(* step overwrites the suffix, and attention reads it.  Nothing in the     *)
(* data flow orders the copies before the read: it is the order in which   *)
(* nodes are registered with ggml_build_forward_expand that does.          *)
(***************************************************************************)
EXTENDS Integers, Sequences, FiniteSetsExt, SequencesExt

CONSTANTS
  Layers,       (* cfg.n_layers                                             *)
  Steps         (* cfg.num_steps                                            *)

ASSUME KvAssumption == Layers \in Nat \ {0} /\ Steps \in Nat \ {0}

Node(kind, s, l) == [kind |-> kind, step |-> s, layer |-> l]

Nodes == [kind : {"prefix", "stage", "put", "attend", "moe", "x"}, step : 0..Steps, layer : 0..Layers]

\* What layer l of step s starts from: the layer before, or the step before.
Hidden(s, l) == IF l > 1 THEN <<Node("moe", s, l - 1)>> ELSE IF s > 1 THEN <<Node("x", s - 1, 0)>> ELSE <<>>

\* A node's sources.  Without flash attention prefix and suffix are concatenated, so
\* attention depends on the prefix.
Sources(n, f16) ==
  CASE n.kind = "prefix" -> IF n.layer > 1 THEN <<Node("prefix", 0, n.layer - 1)>> ELSE <<>>
    [] n.kind = "stage"  -> <<Node("prefix", 0, n.layer)>>
    [] n.kind = "put"    -> Hidden(n.step, n.layer)
    [] n.kind = "attend" -> Hidden(n.step, n.layer) \o (IF f16 THEN <<>> ELSE <<Node("prefix", 0, n.layer)>>)
    [] n.kind = "moe"    -> <<Node("attend", n.step, n.layer)>>
    [] n.kind = "x"      -> <<Node("moe", n.step, Layers)>>

\* ggml_build_forward_expand: a node is added after its sources, each node once.
Expand[f16 \in BOOLEAN, graph \in Seq(Nodes), node \in Nodes] ==
  IF Contains(graph, node) THEN graph
  ELSE Append(FoldLeft(LAMBDA g, n : Expand[f16, g, n], graph, Sources(node, f16)), node)

\* build_vlm_layer, and the copies that stage its keys and values.
PrefixPass(f16) == IF f16 THEN [l \in 1..Layers |-> Node("stage", 0, l)] ELSE <<>>

\* Mutant: the suffix is copied when the layer is complete.
ExpertLayerPutLate(f16, s, l) ==
  <<Node("moe", s, l)>> \o (IF f16 THEN <<Node("put", s, l)>> ELSE <<>>)

\* build_expert_layer registers the copy of the suffix, then build_moe_ffn what
\* depends on the attention.
ExpertLayer(f16, s, l) ==
  (IF f16 THEN <<Node("put", s, l)>> ELSE <<>>) \o <<Node("moe", s, l)>>

\* The copies that stage the prefix, the layers of one step after the other, the result.
Registered(f16) ==
  LET part == Len(ExpertLayer(f16, 1, 1))
      layers == [k \in 1..Steps * Layers * part |->
                   LET layer == (k - 1) \div part
                   IN ExpertLayer(f16, 1 + (layer \div Layers), 1 + (layer % Layers))[1 + ((k - 1) % part)]]
  IN PrefixPass(f16) \o layers \o <<Node("x", Steps, 0)>>

Graph == [f16 \in BOOLEAN |-> FoldLeft(LAMBDA g, n : Expand[f16, g, n], <<>>, Registered(f16))]

\* What a layer's cache holds before node i: what was copied there last.
PrefixAt(g, i, kv, id, l) == IF \E j \in 1..i-1 : g[j] = Node("stage", 0, l) THEN id ELSE kv[l].prefix

SuffixAt(g, i, kv, id, l) ==
  LET puts == {j \in 1..i-1 : g[j].kind = "put" /\ g[j].layer = l}
  IN IF puts = {} THEN kv[l].suffix ELSE <<id, g[Max(puts)].step>>

\* ggml_backend_graph_compute: the caches after a run, and what attention read.
RunGraph(f16, kv, id) ==
  LET g == Graph[f16]
  IN [kv    |-> [l \in 1..Layers |-> [prefix |-> PrefixAt(g, Len(g) + 1, kv, id, l),
                                      suffix |-> SuffixAt(g, Len(g) + 1, kv, id, l)]],
      reads |-> {[layer |-> g[i].layer, step |-> g[i].step,
                  prefix |-> IF f16 THEN PrefixAt(g, i, kv, id, g[i].layer) ELSE id,
                  suffix |-> IF f16 THEN SuffixAt(g, i, kv, id, g[i].layer) ELSE <<id, g[i].step>>]
                  : i \in {i \in DOMAIN g : g[i].kind = "attend"}}]

-----------------------------------------------------------------------------
(* Why: what expanding one root after the other makes of the order of nodes. *)

\* Node i was added when the k-th root was expanded, or earlier.
AddedBy(i, k, g, roots) == \E p \in i..Len(g), m \in 1..k : g[p] = roots[m]

\* Every node is there once, behind its sources, because of a root; and what the first
\* roots added is one of them, or a source of what comes later and was added by them, too.
InOrderOf(g, roots, f16) ==
  /\ g \in Seq(Nodes)
  /\ \A i, j \in DOMAIN g : g[i] = g[j] => i = j
  /\ \A k \in DOMAIN roots : \E i \in DOMAIN g : g[i] = roots[k]
  /\ \A i \in DOMAIN g : \A n \in Range(Sources(g[i], f16)) : \E j \in 1..i-1 : g[j] = n
  /\ \A i \in DOMAIN g : AddedBy(i, Len(roots), g, roots)
  /\ \A k \in DOMAIN roots, i \in DOMAIN g : AddedBy(i, k, g, roots) =>
       \/ \E m \in 1..k : g[i] = roots[m]
       \/ \E j \in i+1..Len(g) : AddedBy(j, k, g, roots) /\ g[i] \in Range(Sources(g[j], f16))

GraphInOrder == \A f16 \in BOOLEAN : InOrderOf(Graph[f16], Registered(f16), f16)
=============================================================================
