------------------------- MODULE FasterWamTwoPhase --------------------------
(***************************************************************************)
(* FasterWamCache used one request at a time: by predict, or by prepare    *)
(* and then its compute.  Once predict has returned early nothing is       *)
(* prepared any more: what prepare makes of the caches that such a call    *)
(* left is not claimed to be right.                                        *)
(***************************************************************************)
EXTENDS FasterWamCache

VARIABLE failed (* has predict returned early?                             *)

ReturnsEarly == pc # "idle" /\ pc' = "idle" /\ out' = {}

TwoPhaseInit == Init /\ failed = FALSE

TwoPhaseNext ==
  /\ Next
  /\ failed' = (failed \/ ReturnsEarly)
  /\ failed' => prepared' = <<>>

TwoPhaseSpec == TwoPhaseInit /\ [][TwoPhaseNext]_<<vars, failed>>

-----------------------------------------------------------------------------
(* Why: the invariant, if the allocations of Benign alone may fail. *)

OneAtATime == MaxInFlight = 1 /\ BenignOnly

\* A request is prepared: its text is the cached one, whose KV is not in the buffer yet.
Waiting ==
  /\ ~failed /\ pc = "idle" /\ call = {}
  /\ \E r \in Inputs : prepared = <<[call |-> r, emb |-> {r}]>> /\ cachedText = r.text

\* What the prefill computed last is the KV of the text under way, or of the cached one.
FusedOfText ==
  LET IsOf(t) == Answerable(t) => fused = t /\ prefill.graph = Shape[t]
  IN IF pc \in {"proprio", "textemb", "const", "vidKV"} THEN \A r \in call : IsOf(r.text)
     ELSE cachedText # "none" => IsOf(cachedText)

\* Once there has been a predict, the embedding graph is there and of the length that
\* const_buf has, or will have in this call: prepare refuses any other.
EmbeddingOfText ==
  IF pc \in {"const", "vidKV", "denoise"}
  THEN proprio /\ \A r \in call : textemb.graph = Shape[r.text]
  ELSE /\ cachedText # "none" \/ pc = "textemb" => proprio
       /\ IF cachedText = "none" THEN textemb.graph = 0
          ELSE textemb.graph = Shape[cachedText]

Warmed == FusedOfText /\ EmbeddingOfText

SerialInv ==
  /\ TypeOK /\ failed \in BOOLEAN
  /\ GraphsWhole /\ BufferOfText /\ Progress
  /\ FreshKV /\ FreshEmbedding /\ DenoiseOnLiveBuffer
  /\ pc # "idle" => out = {}
  /\ (OneCall /\ CachedKV) \/ Waiting
  /\ failed \/ Warmed
=============================================================================
