---------------------------- MODULE MCModelLoad ----------------------------
(***************************************************************************)
(* ModelLoad for TLC: complete checkpoints, checkpoints with one defect,   *)
(* and one that declares two architectures; a machine with and without     *)
(* CUDA, each option of HY-VLA, a mmproj that does not fit, and a build    *)
(* without any architecture.                                               *)
(***************************************************************************)
EXTENDS ModelLoad

Needs ==
  [pi05 |-> {"vlm", "expert", "heads"}, lingbot |-> {"vlm", "expert", "heads", "embed"},
   fasterwam |-> {"video", "action", "proprio"}, hy_vla |-> {"expert", "heads", "text", "vision"}]

Complete(a) ==
  [suffix |-> TRUE, opens |-> TRUE, keys |-> TRUE, general |-> "absent",
   own |-> [b \in Archs |-> IF b = a THEN a ELSE "absent"],
   tensors |-> Needs[a], damaged |-> {}, norm |-> "there"]

OneDefect(a) ==
  LET f == Complete(a) IN
  {[f EXCEPT !.suffix = FALSE], [f EXCEPT !.opens = FALSE], [f EXCEPT !.keys = FALSE]}
  \cup {[f EXCEPT !.general = g] : g \in Archs \cup {"other"}}
  \cup {[f EXCEPT !.own[a] = "other"], [f EXCEPT !.own[a] = "absent", !.general = a]}
  \cup {[f EXCEPT !.tensors = @ \ {g}] : g \in Needs[a]}
  \cup {[f EXCEPT !.damaged = {g}] : g \in Needs[a]}
  \cup {[f EXCEPT !.norm = n] : n \in {"absent", "unsupported"}}

MCFiles ==
  UNION {{Complete(a)} \cup OneDefect(a) : a \in Archs}
  \cup {[Complete("hy_vla") EXCEPT !.own["pi05"] = "pi05"]}

Plain ==
  [built |-> Archs, cuda |-> TRUE, mmproj |-> TRUE, text |-> FALSE, vision |-> FALSE,
   sideload |-> FALSE, fallback |-> FALSE]

MCSetups ==
  {Plain, [Plain EXCEPT !.built = {}], [Plain EXCEPT !.cuda = FALSE], [Plain EXCEPT !.mmproj = FALSE],
   [Plain EXCEPT !.text = TRUE], [Plain EXCEPT !.vision = TRUE], [Plain EXCEPT !.fallback = TRUE],
   [Plain EXCEPT !.vision = TRUE, !.sideload = TRUE, !.fallback = TRUE],
   [Plain EXCEPT !.text = TRUE, !.vision = TRUE, !.fallback = TRUE]}
=============================================================================
