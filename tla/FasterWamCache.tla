--------------------------- MODULE FasterWamCache ---------------------------
(***************************************************************************)
(* The caches FasterWAMModel (models/fasterwam/fasterwam.cpp) keeps from   *)
(* one call to the next: the last text context, the video prefill graph    *)
(* and the KV it computes, the text embedding graph, the constant buffer   *)
(* with the KV the action expert reads, and the unrolled denoising graph.  *)
(* Each has its own validity key, and every early return of predict leaves *)
(* them as they are at that point.                                         *)
(*                                                                         *)
(* predict runs in steps, each with the allocations it may fail at.        *)
(* prepare and compute are one action each: prepare writes only what       *)
(* compute reads once, at its copy of the KV.                              *)
(***************************************************************************)
EXTENDS Naturals, Sequences

CONSTANTS
  Texts,        (* the text contexts requests carry                         *)
  NoText,       (* the one-token zero context of a request without a text   *)
  Shape,        (* the number of tokens of each text                        *)
  Images,       (* may requests carry images?  A subset of BOOLEAN.         *)
  Faults,       (* the allocations that may fail, see FaultPoints           *)
  TwoPhase,     (* are prepare and compute called too?                      *)
  MaxInFlight   (* bound: requests prepared and not computed, or predicted  *)

FaultPoints == {"tmod", "prefill_init", "prefill_alloc", "proprio",
                "textemb_init", "textemb_alloc", "const", "step_init"}

\* Contents of a KV buffer that are not the KV of a text: no buffer, a freed one,
\* memory never written, the zeros of the video fallback, the KV of a prefill
\* without time modulation.
NoKV == {"null", "dangling", "garbage", "zero", "unmodulated"}

ASSUME CacheAssumption ==
  /\ NoText \in Texts
  /\ "none" \notin Texts
  /\ Texts \cap NoKV = {}
  /\ Shape \in [Texts -> Nat \ {0}]
  /\ Images \subseteq BOOLEAN
  /\ Faults \subseteq FaultPoints
  /\ TwoPhase \in BOOLEAN /\ MaxInFlight \in Nat

\* parse_request hands the model precomputed embeddings or images, never both.
Inputs == {i \in [text : Texts, images : Images] : i.images => i.text = NoText}

VARIABLES
  cachedText,   (* cached_text_ctx_f32, or "none"                           *)
  tmod,         (* cached_vid_t_mod: "none", "computed" or "zero"           *)
  prefill,      (* static_prefill_graph's shape, 0 if null, and its key     *)
  fused,        (* what vp_fused_k/v point to                               *)
  proprio,      (* proprio_graph is built                                   *)
  textemb,      (* textemb_graph's shape, is it allocated, and its key      *)
  constBuf,     (* const_buf's text_seq, which is its key too; 0 if null    *)
  vidKV,        (* what tc_vid_k/v hold                                     *)
  denoise,      (* the denoising graph: "unbuilt", without even a context,  *)
                (* "invalid", "current", or "stale" if it passes for valid  *)
                (* and was built on tensors of a const_buf since freed      *)
  pc,           (* the next step of predict                                 *)
  call,         (* the inputs of the predict call under way, as a set       *)
  emb,          (* the request the text embedding it computed is that of,   *)
                (* as a set: empty before, or if it is undefined            *)
  prepared,     (* what prepare returned and compute has not taken          *)
  out           (* what the last call computed its actions from, as a set   *)

prefillVars == <<tmod, prefill, fused>>
inputVars   == <<proprio, textemb>>
constVars   == <<constBuf, vidKV, denoise>>
vars == <<cachedText, prefillVars, inputVars, constVars, pc, call, emb, prepared, out>>

Shapes  == {Shape[t] : t \in Texts}
KVs     == Texts \cup NoKV

Results == [call : Inputs, kv : KVs, emb : SUBSET Inputs, graph : {"current", "stale"}]

TypeOK ==
  /\ cachedText \in Texts \cup {"none"}
  /\ tmod \in {"none", "computed", "zero"}
  /\ prefill \in [graph : Shapes \cup {0}, key : Shapes \cup {0}]
  /\ fused \in KVs
  /\ proprio \in BOOLEAN
  /\ textemb \in [graph : Shapes \cup {0}, allocated : BOOLEAN, key : Shapes \cup {0}]
  /\ constBuf \in Shapes \cup {0}
  /\ vidKV \in KVs
  /\ denoise \in {"unbuilt", "invalid", "current", "stale"}
  /\ pc \in {"idle", "prefill", "proprio", "textemb", "const", "vidKV", "denoise"}
  /\ call \subseteq Inputs
  /\ emb \subseteq Inputs
  /\ prepared \in Seq([call : Inputs, emb : SUBSET Inputs])
  /\ out \subseteq Results

Init ==
  /\ cachedText = "none"
  /\ tmod = "none"
  /\ prefill = [graph |-> 0, key |-> 0]
  /\ fused = "null"
  /\ proprio = FALSE
  /\ textemb = [graph |-> 0, allocated |-> FALSE, key |-> 0]
  /\ constBuf = 0 /\ vidKV = "garbage" /\ denoise = "unbuilt"
  /\ pc = "idle" /\ call = {} /\ emb = {}
  /\ prepared = <<>> /\ out = {}

-----------------------------------------------------------------------------
(* predict *)

\* The results an allocation may have.
Allocated(f) == {TRUE} \cup {x \in {FALSE} : f \in Faults}

\* vid_kv_stale
Stale(r) == r.text # cachedText

\* The KV the prefill computes for a text.
PrefillKV(text, tm) == IF tm = "zero" THEN "unmodulated" ELSE text

\* What the existing graph computes: it is of use for texts of its own length only.
RanPrefill(text, tm) ==
  IF prefill.graph = Shape[text] THEN PrefillKV(text, tm) ELSE "garbage"

Predict(r) ==
  /\ pc = "idle" /\ pc' = "prefill"
  /\ Len(prepared) < MaxInFlight
  /\ call' = {r} /\ emb' = {} /\ out' = {}
  /\ UNCHANGED <<cachedText, prefillVars, inputVars, constVars, prepared>>

\* return {}
GoOn(ok, next) ==
  /\ pc' = IF ok THEN next ELSE "idle"
  /\ call' = IF ok THEN call ELSE {}

\* The KV of this text is there already, or the request carries images, for which
\* there is no prefill.
SkipPrefill ==
  /\ pc = "prefill" /\ pc' = "proprio"
  /\ \E r \in call : ~Stale(r) \/ r.images
  /\ UNCHANGED <<cachedText, prefillVars, inputVars, constVars, call, emb, prepared, out>>

\* Without a first time modulation there is one of zeros, for good.
ModulateTime ==
  IF tmod # "none" THEN tmod' = tmod
  ELSE \E ok \in Allocated("tmod") : tmod' = IF ok THEN "computed" ELSE "zero"

\* Mutant: the prefill graph is kept for a text of another length.
PrefillKeptForShape(n) == prefill.graph # 0

PrefillReady(n) == prefill.graph # 0 /\ prefill.key = n

RunPrefill ==
  /\ pc = "prefill" /\ pc' = "proprio"
  /\ \E r \in call :
       /\ Stale(r) /\ ~r.images /\ PrefillReady(Shape[r.text])
       /\ ModulateTime
       /\ fused' = RanPrefill(r.text, tmod')
  /\ UNCHANGED <<cachedText, prefill, inputVars, constVars, call, emb, prepared, out>>

\* Frees the old graph, and the KV with it.  After a failure the graph is null,
\* whatever its key.
RebuildPrefill ==
  /\ pc = "prefill"
  /\ \E r \in call, init \in Allocated("prefill_init"), alloc \in Allocated("prefill_alloc") :
       /\ Stale(r) /\ ~r.images /\ ~PrefillReady(Shape[r.text])
       /\ ModulateTime
       /\ prefill' = IF init /\ alloc THEN [graph |-> Shape[r.text], key |-> Shape[r.text]]
                                      ELSE [prefill EXCEPT !.graph = 0]
       /\ fused' = IF init /\ alloc THEN PrefillKV(r.text, tmod')
                   ELSE IF init \/ fused # "null" THEN "dangling" ELSE "null"
       /\ GoOn(init /\ alloc, "proprio")
  /\ UNCHANGED <<cachedText, inputVars, constVars, emb, prepared, out>>

\* Its shape never changes, and after a failure it is built again.
Proprio ==
  /\ pc = "proprio"
  /\ \E ok \in IF proprio THEN {TRUE} ELSE Allocated("proprio") :
       /\ proprio' = ok
       /\ GoOn(ok, "textemb")
  /\ UNCHANGED <<cachedText, prefillVars, textemb, constVars, emb, prepared, out>>

\* Mutant: an embedding graph, once built, serves every length.
TextembKeptForShape(n) == textemb.graph # 0

TextembReady(n) == textemb.graph # 0 /\ textemb.key = n

\* What running the existing embedding graph for r gives.
Embed(r) == {x \in {r} : textemb.allocated /\ textemb.graph = Shape[r.text]}

RunTextemb ==
  /\ pc = "textemb" /\ pc' = "const"
  /\ \E r \in call :
       /\ TextembReady(Shape[r.text])
       /\ emb' = Embed(r)
  /\ UNCHANGED <<cachedText, prefillVars, inputVars, constVars, call, prepared, out>>

\* The graph is null after a failed ggml_init, but not after a failed allocation;
\* the key is written last.
RebuildTextemb ==
  /\ pc = "textemb"
  /\ \E r \in call, init \in Allocated("textemb_init"), alloc \in Allocated("textemb_alloc") :
       LET n == Shape[r.text] IN
       /\ ~TextembReady(n)
       /\ textemb' = [graph     |-> IF init THEN n ELSE 0,
                      allocated |-> init /\ alloc,
                      key       |-> IF init /\ alloc THEN n ELSE textemb.key]
       /\ emb' = IF init /\ alloc THEN {r} ELSE {}
       /\ GoOn(init /\ alloc, "const")
  /\ UNCHANGED <<cachedText, prefillVars, proprio, constVars, prepared, out>>

KeepConst ==
  /\ pc = "const" /\ pc' = "vidKV"
  /\ \E r \in call : constBuf = Shape[r.text]
  /\ UNCHANGED <<cachedText, prefillVars, inputVars, constVars, call, emb, prepared, out>>

\* Mutant: the denoising graph is not rebuilt with the buffer.
ReallocConstOnly ==
  /\ pc = "const"
  /\ \E r \in call, ok \in Allocated("const") :
       /\ constBuf # Shape[r.text]
       /\ constBuf' = IF ok THEN Shape[r.text] ELSE 0
       /\ GoOn(ok, "vidKV")
  /\ vidKV' = "garbage"
  /\ denoise' = IF denoise = "current" THEN "stale" ELSE denoise
  /\ UNCHANGED <<cachedText, prefillVars, inputVars, emb, prepared, out>>

\* Mutant: the buffer's key counts the proprio token twice.
ReallocConstMiskeyed ==
  /\ pc = "const"
  /\ \E r \in call, ok \in Allocated("const") :
       /\ constBuf # Shape[r.text]
       /\ constBuf' = IF ok THEN Shape[r.text] + 1 ELSE 0
       /\ GoOn(ok, "vidKV")
  /\ vidKV' = "garbage"
  /\ denoise' = IF denoise = "unbuilt" THEN denoise ELSE "invalid"
  /\ UNCHANGED <<cachedText, prefillVars, inputVars, emb, prepared, out>>

\* Frees const_buf, and the denoising graph with it, but not cached_text_ctx_f32.
\* The new buffer's KV tensors hold nothing yet.
ReallocConst ==
  /\ pc = "const"
  /\ \E r \in call, ok \in Allocated("const") :
       /\ constBuf # Shape[r.text]
       /\ constBuf' = IF ok THEN Shape[r.text] ELSE 0
       /\ GoOn(ok, "vidKV")
  /\ vidKV' = "garbage"
  /\ denoise' = IF denoise = "unbuilt" THEN denoise ELSE "invalid"
  /\ UNCHANGED <<cachedText, prefillVars, inputVars, emb, prepared, out>>

\* Section 6's copy of vp_fused_k/v, and compute's.
CopyOfFused == IF fused = "dangling" THEN "garbage" ELSE fused

UploadVidKV ==
  /\ pc = "vidKV" /\ pc' = "denoise"
  /\ \E r \in call :
       /\ vidKV' = IF ~Stale(r) THEN vidKV
                   ELSE IF fused # "null" THEN CopyOfFused
                   ELSE IF r.images THEN "zero" ELSE vidKV
       /\ cachedText' = r.text
  /\ UNCHANGED <<prefillVars, inputVars, constBuf, denoise, call, emb, prepared, out>>

\* The context of the graph is allocated once.
Denoise ==
  /\ pc = "denoise" /\ pc' = "idle"
  /\ \E r \in call,
        ok \in IF denoise = "unbuilt" THEN Allocated("step_init") ELSE {TRUE} :
       /\ denoise' = IF denoise \in {"current", "stale"} THEN denoise
                     ELSE IF ok THEN "current" ELSE "unbuilt"
       /\ out' = IF ok THEN {[call |-> r, kv |-> vidKV, emb |-> emb, graph |-> denoise']} ELSE {}
  /\ call' = {} /\ emb' = {}
  /\ UNCHANGED <<cachedText, prefillVars, inputVars, constBuf, vidKV, prepared>>

-----------------------------------------------------------------------------
(* prepare and compute *)

RunsPrefill(r) == Stale(r) /\ ~r.images

\* prepare builds no graph: those it needs must be there from a predict.
Warm(r) ==
  /\ RunsPrefill(r) => PrefillReady(Shape[r.text])
  /\ proprio
  /\ TextembReady(Shape[r.text])

\* A prepare that fails may have run the prefill.
Prepare(r) ==
  /\ TwoPhase /\ pc = "idle"
  /\ Len(prepared) < MaxInFlight
  /\ fused' = IF RunsPrefill(r) /\ PrefillReady(Shape[r.text])
              THEN RanPrefill(r.text, tmod) ELSE fused
  /\ cachedText' = IF Warm(r) THEN r.text ELSE cachedText
  /\ prepared' = IF Warm(r) THEN Append(prepared, [call |-> r, emb |-> Embed(r)]) ELSE prepared
  /\ out' = {}
  /\ UNCHANGED <<tmod, prefill, inputVars, constVars, pc, call, emb>>

\* compute gives up if const_buf is not that of the text's length or there is no
\* graph, having copied the KV in between.
Compute ==
  /\ pc = "idle"
  /\ prepared # <<>> /\ prepared' = Tail(prepared)
  /\ \E p \in {Head(prepared)} :
       LET fits == constBuf = Shape[p.call.text] IN
       /\ vidKV' = IF fits /\ fused # "null" THEN CopyOfFused ELSE vidKV
       /\ out' = IF fits /\ denoise \in {"current", "stale"}
                 THEN {[call |-> p.call, kv |-> vidKV', emb |-> p.emb, graph |-> denoise]}
                 ELSE {}
  /\ UNCHANGED <<cachedText, prefillVars, inputVars, constBuf, denoise, pc, call, emb>>

-----------------------------------------------------------------------------
PredictStep ==
  \/ SkipPrefill \/ RunPrefill \/ RebuildPrefill
  \/ Proprio \/ RunTextemb \/ RebuildTextemb
  \/ KeepConst \/ ReallocConst \/ UploadVidKV \/ Denoise

Next ==
  \/ \E r \in Inputs : Predict(r) \/ Prepare(r)
  \/ PredictStep \/ Compute

Spec == Init /\ [][Next]_vars

-----------------------------------------------------------------------------
(* Properties. *)

\* Actions are computed from the KV of the request's own text, whatever calls came
\* before, with texts of the same length or another, and wherever they failed; a
\* request without a text only where none carries images.
FreshKV ==
  \A o \in out : o.call.text # NoText \/ TRUE \notin Images => o.kv = o.call.text

\* They are computed from the text and state of the request, by an embedding
\* graph allocated for its length.
FreshEmbedding == \A o \in out : o.emb = {o.call}

\* The denoising graph that runs refers to the constant buffer that exists.
DenoiseOnLiveBuffer == \A o \in out : o.graph = "current"

-----------------------------------------------------------------------------
(* Why: the invariant of a model on which only predict is called, and where *)
(* the allocations of Benign alone may fail.                                *)

Benign == {"prefill_init", "prefill_alloc", "proprio", "textemb_init", "step_init"}

BenignOnly == Faults \subseteq Benign

PredictOnly == ~TwoPhase /\ BenignOnly

\* One call at a time, and no prepare.
OneCall ==
  /\ prepared = <<>>
  /\ IF pc = "idle" THEN call = {} ELSE \E r \in Inputs : call = {r}

\* A graph that is not null is whole, and its key is its shape.
GraphsWhole ==
  /\ tmod # "zero"
  /\ prefill.graph # 0 => prefill.graph = prefill.key
  /\ textemb.graph # 0 => textemb.allocated /\ textemb.graph = textemb.key
  /\ denoise # "stale"

\* The constant buffer is that of the text it was last filled for, except between
\* its reallocation and the upload.
BufferOfText ==
  IF pc = "vidKV" THEN \A r \in call : constBuf = Shape[r.text]
  ELSE IF cachedText = "none" THEN constBuf = 0
  ELSE constBuf = Shape[cachedText]

Answerable(t) == t # NoText \/ TRUE \notin Images

\* A buffer that fits the cached text holds its KV.
CachedKV ==
  cachedText # "none" /\ constBuf = Shape[cachedText] /\ Answerable(cachedText)
    => vidKV = cachedText

\* What the steps done leave for those to come.
Progress ==
  /\ pc \in {"proprio", "textemb", "const", "vidKV"} =>
       \A r \in call : RunsPrefill(r) => fused = r.text
  /\ pc \in {"const", "vidKV", "denoise"} => emb = call
  /\ pc = "denoise" => \A r \in call : cachedText = r.text

Inv ==
  /\ TypeOK /\ OneCall /\ GraphsWhole /\ BufferOfText /\ CachedKV /\ Progress
  /\ FreshKV /\ FreshEmbedding /\ DenoiseOnLiveBuffer
=============================================================================
