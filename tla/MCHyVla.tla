------------------------------ MODULE MCHyVla ------------------------------
(***************************************************************************)
(* HyVla for TLC: images of four tokens, up to four of them, one of them   *)
(* not to be prepared; prefixes of the client with every mask of their     *)
(* length, and with masks that are too long; the environments that serve,  *)
(* and each debug output.                                                  *)
(***************************************************************************)
EXTENDS HyVla

Serving ==
  [debug |-> "", steps |-> 2, history |-> 1, per_image |-> 4, keep_vision |-> FALSE, keep_routed |-> FALSE,
   cuda |-> TRUE, sideload |-> FALSE, text_layers |-> 1, prefix_vision |-> TRUE,
   vision |-> TRUE, vision_layers |-> 4, batched |-> FALSE]

Debugs == VisionDebugs \cup JointDebugs \cup {"lang", "prefix", "suffix", "block", "vt", "other"}

MCEnvironments ==
       {[Serving EXCEPT !.history = h, !.keep_vision = kv, !.keep_routed = kr, !.sideload = s] :
          h \in 1..2, kv, kr, s \in BOOLEAN}
  \cup {[Serving EXCEPT !.history = 2, !.vision_layers = 3], [Serving EXCEPT !.per_image = 3],
        [Serving EXCEPT !.per_image = 1], [Serving EXCEPT !.text_layers = 0], [Serving EXCEPT !.prefix_vision = FALSE],
        [Serving EXCEPT !.vision = FALSE], [Serving EXCEPT !.cuda = FALSE, !.keep_routed = TRUE]}
  \cup {[Serving EXCEPT !.debug = d, !.steps = n, !.text_layers = t, !.vision_layers = 4 * t] :
          d \in Debugs, n \in 1..2, t \in 0..1}

Batched == {[Serving EXCEPT !.batched = TRUE, !.history = 2]}

Sent(images, visual, mask, lang) == [images |-> images, visual |-> visual, mask |-> mask, lang |-> lang]

MCRequests ==
       {Sent(i, 0, <<>>, 1) : i \in {<<>>, <<TRUE>>, <<TRUE, TRUE>>, <<TRUE, TRUE, TRUE>>,
                               <<TRUE, TRUE, TRUE, TRUE>>, <<TRUE, FALSE>>}}
  \cup {Sent(<<TRUE>>, 0, <<>>, 0), Sent(<<>>, 8, <<>>, 2), Sent(<<TRUE>>, 3, <<>>, 1), Sent(<<>>, 4, <<0, 1>>, 1)}
  \cup {Sent(<<>>, 4, m, 1) : m \in [1..4 -> 0..1]}
  \cup {Sent(<<>>, 2, m, 1) : m \in [1..2 -> 0..1]}

FewRequests == {Sent(<<TRUE, TRUE>>, 0, <<>>, 1)}
=============================================================================
