------------------------ MODULE FasterWamCacheProof -------------------------
(***************************************************************************)
(* Proofs about FasterWamCache when only predict is called and only the    *)
(* allocations of Benign may fail.                                         *)
(***************************************************************************)
EXTENDS FasterWamTwoPhase, TLAPS

\* The texts are told apart from what a buffer holds that is no text's KV.
LEMMA TextFacts ==
  /\ NoText \in Texts
  /\ "none" \notin Texts
  /\ \A t \in Texts : t \notin NoKV
  /\ \A t \in Texts : Shape[t] \in Nat \ {0} /\ Shape[t] \in Shapes
  /\ 0 \notin Shapes
  /\ \A r \in Inputs : r.text \in Texts /\ r.images \in BOOLEAN /\ (r.images => r.text = NoText)
  /\ \A r \in Inputs : r.images => TRUE \in Images
BY CacheAssumption DEF Shapes, Inputs

LEMMA BenignFaults ==
  ASSUME BenignOnly
  PROVE  /\ Allocated("tmod") = {TRUE}
         /\ Allocated("textemb_alloc") = {TRUE}
         /\ Allocated("const") = {TRUE}
         /\ \A f : Allocated(f) \subseteq BOOLEAN
BY DEF BenignOnly, Benign, Allocated

LEMMA InitInv == Init => Inv
<1> SUFFICES ASSUME Init PROVE Inv
  OBVIOUS
<1>1. TypeOK
  <2>1. prepared \in Seq([call : Inputs, emb : SUBSET Inputs])
    BY DEF Init
  <2>2. fused \in KVs /\ vidKV \in KVs
    BY DEF Init, KVs, NoKV
  <2>3. prefill \in [graph : Shapes \cup {0}, key : Shapes \cup {0}]
    BY DEF Init
  <2>4. textemb \in [graph : Shapes \cup {0}, allocated : BOOLEAN, key : Shapes \cup {0}]
    BY DEF Init
  <2> QED BY <2>1, <2>2, <2>3, <2>4 DEF Init, TypeOK
<1>2. OneCall /\ GraphsWhole /\ BufferOfText /\ CachedKV /\ Progress
  BY DEF Init, OneCall, GraphsWhole, BufferOfText, CachedKV, Progress
<1>3. FreshKV /\ FreshEmbedding /\ DenoiseOnLiveBuffer
  BY DEF Init, FreshKV, FreshEmbedding, DenoiseOnLiveBuffer
<1> QED BY <1>1, <1>2, <1>3 DEF Inv

LEMMA PredictInv ==
  ASSUME BenignOnly, Inv, NEW r \in Inputs, Predict(r)
  PROVE  Inv'
<1>1. TypeOK'
  BY DEF Inv, TypeOK, Predict, prefillVars, inputVars, constVars
<1>2. OneCall' /\ GraphsWhole' /\ BufferOfText' /\ CachedKV' /\ Progress'
  BY DEF Inv, OneCall, GraphsWhole, BufferOfText, CachedKV, Progress, Predict,
         prefillVars, inputVars, constVars
<1>3. FreshKV' /\ FreshEmbedding' /\ DenoiseOnLiveBuffer'
  BY DEF FreshKV, FreshEmbedding, DenoiseOnLiveBuffer, Predict
<1> QED BY <1>1, <1>2, <1>3 DEF Inv

\* A step that leaves out empty answers nothing.
LEMMA NoAnswer == out' = {} => FreshKV' /\ FreshEmbedding' /\ DenoiseOnLiveBuffer'
BY DEF FreshKV, FreshEmbedding, DenoiseOnLiveBuffer

LEMMA SameAnswer ==
  Inv /\ UNCHANGED out => FreshKV' /\ FreshEmbedding' /\ DenoiseOnLiveBuffer'
BY DEF Inv, FreshKV, FreshEmbedding, DenoiseOnLiveBuffer

\* The call under way, as an element.
LEMMA TheCall == Inv /\ pc # "idle" => \E r \in Inputs : call = {r}
BY DEF Inv, OneCall

LEMMA SkipPrefillInv == BenignOnly /\ Inv /\ SkipPrefill => Inv'
<1> SUFFICES ASSUME BenignOnly, Inv, SkipPrefill PROVE Inv'
  OBVIOUS
<1>1. TypeOK'
  BY DEF Inv, TypeOK, SkipPrefill, prefillVars, inputVars, constVars
<1>2. OneCall' /\ GraphsWhole' /\ BufferOfText' /\ CachedKV'
  BY DEF Inv, OneCall, GraphsWhole, BufferOfText, CachedKV, SkipPrefill,
         prefillVars, inputVars, constVars
<1>3. Progress'
  BY TheCall DEF Inv, Progress, RunsPrefill, Stale, SkipPrefill, prefillVars, inputVars, constVars
<1> QED BY <1>1, <1>2, <1>3, SameAnswer DEF Inv, SkipPrefill

LEMMA RunPrefillInv == BenignOnly /\ Inv /\ RunPrefill => Inv'
<1> SUFFICES ASSUME BenignOnly, Inv, RunPrefill PROVE Inv'
  OBVIOUS
<1>1. PICK r \in Inputs : call = {r}
  BY TheCall DEF RunPrefill
<1>2. /\ tmod' \in {"none", "computed"}
      /\ fused' = r.text
  BY <1>1, BenignFaults DEF Inv, GraphsWhole, TypeOK, RunPrefill, RanPrefill, PrefillKV,
     PrefillReady, ModulateTime
<1>3. TypeOK'
  BY <1>1, <1>2, TextFacts DEF Inv, TypeOK, RunPrefill, inputVars, constVars, KVs
<1>4. OneCall' /\ GraphsWhole' /\ BufferOfText' /\ CachedKV'
  BY <1>2 DEF Inv, OneCall, GraphsWhole, BufferOfText, CachedKV, RunPrefill, inputVars, constVars
<1>5. Progress'
  BY <1>1, <1>2 DEF Progress, RunPrefill
<1> QED BY <1>3, <1>4, <1>5, SameAnswer DEF Inv, RunPrefill

LEMMA RebuildPrefillInv == BenignOnly /\ Inv /\ RebuildPrefill => Inv'
<1> SUFFICES ASSUME BenignOnly, Inv, RebuildPrefill PROVE Inv'
  OBVIOUS
<1>1. PICK r \in Inputs : call = {r}
  BY TheCall DEF RebuildPrefill
<1>2. PICK ok \in BOOLEAN :
        /\ tmod' \in {"none", "computed"}
        /\ prefill' = IF ok THEN [graph |-> Shape[r.text], key |-> Shape[r.text]]
                            ELSE [prefill EXCEPT !.graph = 0]
        /\ fused' \in KVs /\ (ok => fused' = r.text)
        /\ GoOn(ok, "proprio")
  <2>1. PICK init \in BOOLEAN, alloc \in BOOLEAN :
          /\ ModulateTime
          /\ prefill' = IF init /\ alloc THEN [graph |-> Shape[r.text], key |-> Shape[r.text]]
                                         ELSE [prefill EXCEPT !.graph = 0]
          /\ fused' = IF init /\ alloc THEN PrefillKV(r.text, tmod')
                      ELSE IF init \/ fused # "null" THEN "dangling" ELSE "null"
          /\ GoOn(init /\ alloc, "proprio")
    BY <1>1, BenignFaults DEF RebuildPrefill
  <2>2. tmod' \in {"none", "computed"}
    BY <2>1, BenignFaults DEF Inv, TypeOK, GraphsWhole, ModulateTime
  <2> QED BY <2>1, <2>2, TextFacts DEF PrefillKV, KVs, NoKV
<1>3. TypeOK'
  BY <1>1, <1>2, TextFacts DEF Inv, TypeOK, RebuildPrefill, GoOn, inputVars, constVars, KVs
<1>4. OneCall' /\ GraphsWhole' /\ BufferOfText' /\ CachedKV' /\ Progress'
  BY <1>1, <1>2 DEF Inv, TypeOK, OneCall, GraphsWhole, BufferOfText, CachedKV, Progress,
     RebuildPrefill, GoOn, inputVars, constVars
<1> QED BY <1>3, <1>4, SameAnswer DEF Inv, RebuildPrefill

LEMMA ProprioInv == BenignOnly /\ Inv /\ Proprio => Inv'
<1> SUFFICES ASSUME BenignOnly, Inv, Proprio PROVE Inv'
  OBVIOUS
<1>1. PICK ok \in BOOLEAN : proprio' = ok /\ GoOn(ok, "textemb")
  <2>1. PICK x \in IF proprio THEN {TRUE} ELSE Allocated("proprio") :
          proprio' = x /\ GoOn(x, "textemb")
    BY DEF Proprio
  <2>2. x \in BOOLEAN
    BY <2>1, BenignFaults
  <2> QED BY <2>1, <2>2, Zenon
<1>2. TypeOK'
  BY <1>1 DEF Inv, TypeOK, Proprio, GoOn, prefillVars, constVars
<1>3. OneCall' /\ GraphsWhole' /\ BufferOfText' /\ CachedKV' /\ Progress'
  BY <1>1 DEF Inv, TypeOK, OneCall, GraphsWhole, BufferOfText, CachedKV, Progress, RunsPrefill,
     Stale, Proprio, GoOn, prefillVars, constVars
<1> QED BY <1>2, <1>3, SameAnswer DEF Inv, Proprio

LEMMA RunTextembInv == BenignOnly /\ Inv /\ RunTextemb => Inv'
<1> SUFFICES ASSUME BenignOnly, Inv, RunTextemb PROVE Inv'
  OBVIOUS
<1>1. PICK r \in Inputs : call = {r}
  BY TheCall DEF RunTextemb
<1>2. emb' = {r}
  BY <1>1 DEF Inv, GraphsWhole, RunTextemb, Embed, TextembReady
<1>3. TypeOK'
  BY <1>2 DEF Inv, TypeOK, RunTextemb, prefillVars, inputVars, constVars
<1>4. OneCall' /\ GraphsWhole' /\ BufferOfText' /\ CachedKV' /\ Progress'
  BY <1>1, <1>2 DEF Inv, OneCall, GraphsWhole, BufferOfText, CachedKV, Progress, RunsPrefill,
     Stale, RunTextemb, prefillVars, inputVars, constVars
<1> QED BY <1>3, <1>4, SameAnswer DEF Inv, RunTextemb

LEMMA RebuildTextembInv == BenignOnly /\ Inv /\ RebuildTextemb => Inv'
<1> SUFFICES ASSUME BenignOnly, Inv, RebuildTextemb PROVE Inv'
  OBVIOUS
<1>1. PICK r \in Inputs : call = {r}
  BY TheCall DEF RebuildTextemb
<1>2. PICK init \in BOOLEAN :
        /\ textemb' = [graph     |-> IF init THEN Shape[r.text] ELSE 0,
                       allocated |-> init,
                       key       |-> IF init THEN Shape[r.text] ELSE textemb.key]
        /\ emb' = IF init THEN {r} ELSE {}
        /\ GoOn(init, "const")
  BY <1>1, BenignFaults DEF RebuildTextemb
<1>3. TypeOK'
  BY <1>1, <1>2, TextFacts DEF Inv, TypeOK, RebuildTextemb, GoOn, prefillVars, constVars
<1>4. OneCall' /\ GraphsWhole' /\ BufferOfText' /\ CachedKV' /\ Progress'
  BY <1>1, <1>2, TextFacts DEF Inv, TypeOK, OneCall, GraphsWhole, BufferOfText, CachedKV,
     Progress, RunsPrefill, Stale, RebuildTextemb, GoOn, prefillVars, constVars
<1> QED BY <1>3, <1>4, SameAnswer DEF Inv, RebuildTextemb

LEMMA KeepConstInv == BenignOnly /\ Inv /\ KeepConst => Inv'
<1> SUFFICES ASSUME BenignOnly, Inv, KeepConst PROVE Inv'
  OBVIOUS
<1>1. PICK r \in Inputs : call = {r}
  BY TheCall DEF KeepConst
<1>2. TypeOK'
  BY DEF Inv, TypeOK, KeepConst, prefillVars, inputVars, constVars
<1>3. OneCall' /\ GraphsWhole' /\ BufferOfText' /\ CachedKV' /\ Progress'
  BY <1>1 DEF Inv, OneCall, GraphsWhole, BufferOfText, CachedKV, Progress, RunsPrefill,
     Stale, KeepConst, prefillVars, inputVars, constVars
<1> QED BY <1>2, <1>3, SameAnswer DEF Inv, KeepConst

\* The buffer is reallocated for another length than the cached text's.
LEMMA ReallocConstInv == BenignOnly /\ Inv /\ ReallocConst => Inv'
<1> SUFFICES ASSUME BenignOnly, Inv, ReallocConst PROVE Inv'
  OBVIOUS
<1>1. PICK r \in Inputs : call = {r}
  BY TheCall DEF ReallocConst
<1>2. constBuf # Shape[r.text] /\ constBuf' = Shape[r.text] /\ GoOn(TRUE, "vidKV")
  BY <1>1, BenignFaults DEF ReallocConst
<1>3. TypeOK'
  BY <1>1, <1>2, TextFacts DEF Inv, TypeOK, ReallocConst, GoOn, prefillVars, inputVars, KVs, NoKV
<1>4. OneCall' /\ GraphsWhole' /\ BufferOfText' /\ Progress'
  BY <1>1, <1>2 DEF Inv, TypeOK, OneCall, GraphsWhole, BufferOfText, Progress, RunsPrefill,
     Stale, ReallocConst, GoOn, prefillVars, inputVars
<1>5. CachedKV'
  BY <1>1, <1>2 DEF Inv, BufferOfText, CachedKV, ReallocConst
<1> QED BY <1>3, <1>4, <1>5, SameAnswer DEF Inv, ReallocConst

LEMMA UploadVidKVInv == BenignOnly /\ Inv /\ UploadVidKV => Inv'
<1> SUFFICES ASSUME BenignOnly, Inv, UploadVidKV PROVE Inv'
  OBVIOUS
<1>1. PICK r \in Inputs : call = {r}
  BY TheCall DEF UploadVidKV
<1>2. /\ vidKV' = IF ~Stale(r) THEN vidKV
                  ELSE IF fused # "null" THEN CopyOfFused
                  ELSE IF r.images THEN "zero" ELSE vidKV
      /\ cachedText' = r.text
  BY <1>1 DEF UploadVidKV
<1>3. vidKV' \in KVs
  BY <1>2 DEF Inv, TypeOK, CopyOfFused, KVs, NoKV
<1>4. TypeOK'
  BY <1>2, <1>3, TextFacts DEF Inv, TypeOK, UploadVidKV, prefillVars, inputVars
<1>5. constBuf' = Shape[r.text]
  BY <1>1 DEF Inv, BufferOfText, UploadVidKV
<1>6. Answerable(r.text) => vidKV' = r.text
  <2>1. CASE ~Stale(r)
    BY <1>1, <1>2, <1>5, <2>1, TextFacts DEF Inv, CachedKV, Stale, UploadVidKV
  <2>2. CASE Stale(r) /\ ~r.images
    <3>1. fused = r.text
      BY <1>1, <2>2 DEF Inv, Progress, RunsPrefill, UploadVidKV
    <3> QED BY <1>2, <2>2, <3>1, TextFacts DEF CopyOfFused, NoKV
  <2>3. CASE r.images
    BY <2>3, TextFacts DEF Answerable
  <2> QED BY <2>1, <2>2, <2>3
<1>7. OneCall' /\ GraphsWhole' /\ BufferOfText' /\ CachedKV' /\ Progress'
  BY <1>1, <1>2, <1>5, <1>6, TextFacts DEF Inv, OneCall, GraphsWhole, BufferOfText, CachedKV,
     Progress, UploadVidKV, prefillVars, inputVars
<1> QED BY <1>4, <1>7, SameAnswer DEF Inv, UploadVidKV

LEMMA DenoiseInv == BenignOnly /\ Inv /\ Denoise => Inv'
<1> SUFFICES ASSUME BenignOnly, Inv, Denoise PROVE Inv'
  OBVIOUS
<1>1. PICK r \in Inputs : call = {r}
  BY TheCall DEF Denoise
<1>2. PICK ok \in BOOLEAN :
        /\ ok \/ denoise = "unbuilt"
        /\ denoise' = IF denoise \in {"current", "stale"} THEN denoise
                      ELSE IF ok THEN "current" ELSE "unbuilt"
        /\ out' = IF ok THEN {[call |-> r, kv |-> vidKV, emb |-> emb, graph |-> denoise']} ELSE {}
  BY <1>1, BenignFaults DEF Denoise
<1>3. denoise' \in {"unbuilt", "current"} /\ (ok => denoise' = "current")
  BY <1>2 DEF Inv, TypeOK, GraphsWhole
<1>4. TypeOK'
  <2>1. out' \subseteq Results
    BY <1>1, <1>2, <1>3 DEF Inv, TypeOK, Results
  <2> QED BY <1>3, <2>1 DEF Inv, TypeOK, Denoise, prefillVars, inputVars
<1>5. OneCall' /\ GraphsWhole' /\ BufferOfText' /\ CachedKV' /\ Progress'
  BY <1>3 DEF Inv, OneCall, GraphsWhole, BufferOfText, CachedKV, Progress, Denoise,
     prefillVars, inputVars
<1>6. FreshKV' /\ FreshEmbedding' /\ DenoiseOnLiveBuffer'
  <2>1. emb = {r} /\ cachedText = r.text
    BY <1>1 DEF Inv, Progress, Denoise
  <2>2. Answerable(r.text) => vidKV = r.text
    BY <2>1, TextFacts DEF Inv, BufferOfText, CachedKV, Denoise
  <2>3. \A o \in out' : o.call = r /\ o.kv = vidKV /\ o.emb = emb /\ o.graph = "current"
    BY <1>2, <1>3
  <2>4. FreshKV'
    BY <2>2, <2>3 DEF FreshKV, Answerable
  <2>5. FreshEmbedding' /\ DenoiseOnLiveBuffer'
    BY <2>1, <2>3 DEF FreshEmbedding, DenoiseOnLiveBuffer
  <2> QED BY <2>4, <2>5
<1> QED BY <1>4, <1>5, <1>6 DEF Inv

LEMMA NextInv == PredictOnly /\ Inv /\ [Next]_vars => Inv'
<1> SUFFICES ASSUME PredictOnly, Inv, [Next]_vars PROVE Inv'
  OBVIOUS
<1>0. BenignOnly
  BY DEF PredictOnly
<1>1. CASE \E r \in Inputs : Predict(r)
  BY <1>0, <1>1, PredictInv
<1>2. CASE (\E r \in Inputs : Prepare(r)) \/ Compute
  BY <1>2 DEF PredictOnly, Inv, OneCall, Prepare, Compute
<1>3. CASE PredictStep
  BY <1>0, <1>3, SkipPrefillInv, RunPrefillInv, RebuildPrefillInv, ProprioInv, RunTextembInv,
     RebuildTextembInv, KeepConstInv, ReallocConstInv, UploadVidKVInv, DenoiseInv
  DEF PredictStep
<1>4. CASE UNCHANGED vars
  <2>1. TypeOK'
    BY <1>4 DEF Inv, TypeOK, vars, prefillVars, inputVars, constVars
  <2>2. OneCall' /\ GraphsWhole' /\ BufferOfText' /\ CachedKV' /\ Progress'
    BY <1>4 DEF Inv, OneCall, GraphsWhole, BufferOfText, CachedKV, Progress, RunsPrefill, Stale,
       vars, prefillVars, inputVars, constVars
  <2> QED BY <1>4, <2>1, <2>2, SameAnswer DEF Inv, vars
<1> QED BY <1>1, <1>2, <1>3, <1>4 DEF Next

\* Every state predict goes through satisfies Inv, whatever the texts, the order of
\* the requests and the benign failures.
THEOREM CacheInvariance == PredictOnly => (Spec => []Inv)
<1> SUFFICES ASSUME PredictOnly PROVE Spec => []Inv
  OBVIOUS
<1>1. Inv /\ [Next]_vars => Inv'
  BY NextInv
<1> QED BY <1>1, InitInv, PTL DEF Spec

\* Type correctness.
THEOREM CacheTypes == PredictOnly => (Spec => []TypeOK)
<1>1. Inv => TypeOK
  BY DEF Inv
<1> QED BY <1>1, CacheInvariance, PTL

\* predict never computes an action chunk from the KV of another text: the skipped
\* prefill and the kept buffers are sound.
THEOREM AnswersAreFresh == PredictOnly => (Spec => []FreshKV)
<1>1. Inv => FreshKV
  BY DEF Inv
<1> QED BY <1>1, CacheInvariance, PTL

\* Nor from the embedding of another text or state: the graph that computes it is of
\* the length of the request's text, or is rebuilt.
THEOREM EmbeddingsAreFresh == PredictOnly => (Spec => []FreshEmbedding)
<1>1. Inv => FreshEmbedding
  BY DEF Inv
<1> QED BY <1>1, CacheInvariance, PTL

\* predict never runs a denoising graph that refers to a constant buffer it freed.
THEOREM GraphIsLive == PredictOnly => (Spec => []DenoiseOnLiveBuffer)
<1>1. Inv => DenoiseOnLiveBuffer
  BY DEF Inv
<1> QED BY <1>1, CacheInvariance, PTL

-----------------------------------------------------------------------------
(* One request at a time, by predict or by prepare and compute. *)

\* What is cached stays that of one text through a call that does not return early.
LEMMA WarmedStep ==
  ASSUME BenignOnly, Inv, Warmed, PredictStep, out = {}, ~ReturnsEarly
  PROVE  Warmed'
<1>1. PICK r \in Inputs : call = {r}
  BY TheCall DEF PredictStep, SkipPrefill, RunPrefill, RebuildPrefill, Proprio, RunTextemb, RebuildTextemb,
     KeepConst, ReallocConst, UploadVidKV, Denoise
<1>2. r.text \in Texts /\ Shape[r.text] # 0 /\ r.text # "none" /\ (r.images => ~Answerable(r.text))
  BY TextFacts DEF Answerable
<1>3. CASE SkipPrefill
  <2>1. Answerable(r.text) => r.text = cachedText
    BY <1>1, <1>2, <1>3 DEF SkipPrefill, Stale
  <2> QED BY <1>1, <1>2, <1>3, <2>1 DEF Warmed, FusedOfText, EmbeddingOfText, Answerable, SkipPrefill,
             prefillVars, inputVars, constVars
<1>4. CASE RunPrefill
  <2>1. fused' = r.text /\ prefill'.graph = Shape[r.text]
    BY <1>1, <1>4, BenignFaults DEF Inv, GraphsWhole, TypeOK, RunPrefill, RanPrefill, PrefillKV,
       PrefillReady, ModulateTime
  <2> QED BY <1>1, <1>4, <2>1 DEF Warmed, FusedOfText, EmbeddingOfText, Answerable, RunPrefill, inputVars, constVars
<1>5. CASE RebuildPrefill
  <2>1. PICK init \in BOOLEAN, alloc \in BOOLEAN :
          /\ ModulateTime
          /\ prefill' = IF init /\ alloc THEN [graph |-> Shape[r.text], key |-> Shape[r.text]]
                                         ELSE [prefill EXCEPT !.graph = 0]
          /\ fused' = IF init /\ alloc THEN PrefillKV(r.text, tmod')
                      ELSE IF init \/ fused # "null" THEN "dangling" ELSE "null"
          /\ GoOn(init /\ alloc, "proprio")
    BY <1>1, <1>5, BenignFaults DEF RebuildPrefill
  <2>2. init /\ alloc
    BY <1>5, <2>1 DEF RebuildPrefill, GoOn, ReturnsEarly
  <2>3. tmod' # "zero"
    BY <2>1, BenignFaults DEF Inv, TypeOK, GraphsWhole, ModulateTime
  <2>4. fused' = r.text /\ prefill'.graph = Shape[r.text] /\ pc' = "proprio" /\ call' = call
    BY <2>1, <2>2, <2>3 DEF PrefillKV, GoOn
  <2> QED BY <1>1, <1>5, <2>4 DEF Warmed, FusedOfText, EmbeddingOfText, Answerable, RebuildPrefill,
             inputVars, constVars
<1>6. CASE Proprio
  <2>1. PICK ok \in BOOLEAN : proprio' = ok /\ GoOn(ok, "textemb")
    <3>1. PICK x \in IF proprio THEN {TRUE} ELSE Allocated("proprio") :
            proprio' = x /\ GoOn(x, "textemb")
      BY <1>6 DEF Proprio
    <3>2. x \in BOOLEAN
      BY <3>1, BenignFaults
    <3> QED BY <3>1, <3>2, Zenon
  <2>2. ok
    BY <1>6, <2>1 DEF Proprio, GoOn, ReturnsEarly
  <2>3. proprio' /\ pc' = "textemb" /\ call' = call
    BY <2>1, <2>2 DEF GoOn
  <2> QED BY <1>1, <1>6, <2>3 DEF Warmed, FusedOfText, EmbeddingOfText, Answerable, Proprio,
             prefillVars, constVars
<1>7. CASE RunTextemb
  <2>1. textemb.graph = Shape[r.text]
    BY <1>1, <1>7 DEF Inv, GraphsWhole, RunTextemb, TextembReady
  <2> QED BY <1>1, <1>7, <2>1 DEF Warmed, FusedOfText, EmbeddingOfText, Answerable, RunTextemb,
             prefillVars, inputVars, constVars
<1>8. CASE RebuildTextemb
  <2>1. PICK init \in BOOLEAN :
          /\ textemb' = [graph     |-> IF init THEN Shape[r.text] ELSE 0,
                         allocated |-> init,
                         key       |-> IF init THEN Shape[r.text] ELSE textemb.key]
          /\ GoOn(init, "const")
    BY <1>1, <1>8, BenignFaults DEF RebuildTextemb
  <2>2. init
    BY <1>8, <2>1 DEF RebuildTextemb, GoOn, ReturnsEarly
  <2>3. textemb'.graph = Shape[r.text] /\ pc' = "const" /\ call' = call
    BY <2>1, <2>2 DEF GoOn
  <2> QED BY <1>1, <1>8, <2>3 DEF Warmed, FusedOfText, EmbeddingOfText, Answerable, RebuildTextemb,
             prefillVars, constVars
<1>9. CASE KeepConst
  BY <1>1, <1>9 DEF Warmed, FusedOfText, EmbeddingOfText, Answerable, KeepConst, prefillVars, inputVars, constVars
<1>10. CASE ReallocConst
  <2>1. pc' = "vidKV" /\ call' = call
    BY <1>1, <1>10, BenignFaults DEF ReallocConst, GoOn
  <2> QED BY <1>1, <1>10, <2>1 DEF Warmed, FusedOfText, EmbeddingOfText, Answerable, ReallocConst,
             prefillVars, inputVars
<1>11. CASE UploadVidKV
  BY <1>1, <1>11 DEF Warmed, FusedOfText, EmbeddingOfText, Answerable, UploadVidKV, prefillVars, inputVars
<1>12. CASE Denoise
  <2>1. cachedText = r.text
    BY <1>1, <1>12 DEF Inv, Progress, Denoise
  <2> QED BY <1>1, <1>2, <1>12, <2>1 DEF Warmed, FusedOfText, EmbeddingOfText, Answerable, Denoise,
             prefillVars, inputVars
<1> QED BY <1>3, <1>4, <1>5, <1>6, <1>7, <1>8, <1>9, <1>10, <1>11, <1>12 DEF PredictStep

\* With nothing prepared, the invariant of predict holds.
LEMMA SerialIsInv == SerialInv /\ prepared = <<>> => Inv
<1> SUFFICES ASSUME SerialInv, prepared = <<>> PROVE Inv
  OBVIOUS
<1>1. ~Waiting
  BY DEF Waiting
<1> QED BY <1>1 DEF SerialInv, Inv

LEMMA SerialPredictStep ==
  ASSUME BenignOnly, SerialInv, PredictStep, failed' = (failed \/ ReturnsEarly)
  PROVE  SerialInv'
<1>1. pc # "idle"
  BY DEF PredictStep, SkipPrefill, RunPrefill, RebuildPrefill, Proprio, RunTextemb, RebuildTextemb,
     KeepConst, ReallocConst, UploadVidKV, Denoise
<1>2. Inv
  BY <1>1, SerialIsInv DEF SerialInv, Waiting, OneCall
<1>3. Inv'
  BY <1>2, SkipPrefillInv, RunPrefillInv, RebuildPrefillInv, ProprioInv, RunTextembInv,
     RebuildTextembInv, KeepConstInv, ReallocConstInv, UploadVidKVInv, DenoiseInv
  DEF PredictStep
<1>4. out = {}
  BY <1>1 DEF SerialInv
<1>5. pc' # "idle" => out' = {}
  BY <1>4 DEF PredictStep, SkipPrefill, RunPrefill, RebuildPrefill, Proprio, RunTextemb, RebuildTextemb,
     KeepConst, ReallocConst, UploadVidKV, Denoise
<1>6. failed' \/ Warmed'
  BY <1>2, <1>4, WarmedStep DEF SerialInv
<1> QED BY <1>3, <1>5, <1>6 DEF Inv, SerialInv

LEMMA SerialPredict ==
  ASSUME BenignOnly, MaxInFlight = 1, SerialInv, NEW r \in Inputs, Predict(r), failed' = (failed \/ ReturnsEarly)
  PROVE  SerialInv'
<1>1. prepared = <<>>
  <2>1. prepared \in Seq([call : Inputs, emb : SUBSET Inputs]) /\ Len(prepared) < 1
    BY DEF SerialInv, TypeOK, Predict
  <2> QED BY <2>1
<1>2. Inv'
  BY <1>1, SerialIsInv, PredictInv
<1>3. failed' \/ Warmed'
  BY DEF SerialInv, Warmed, FusedOfText, EmbeddingOfText, Answerable, ReturnsEarly, Predict,
     prefillVars, inputVars, constVars
<1>4. out' = {}
  BY DEF Predict
<1> QED BY <1>2, <1>3, <1>4 DEF Inv, SerialInv

\* What is prepared fits the buffer, or is refused.
LEMMA SerialPrepare ==
  ASSUME MaxInFlight = 1, SerialInv, NEW r \in Inputs, Prepare(r),
         failed' = (failed \/ ReturnsEarly), failed' => prepared' = <<>>
  PROVE  SerialInv'
<1>1. prepared = <<>> /\ pc = "idle" /\ failed' = failed
  <2>1. prepared \in Seq([call : Inputs, emb : SUBSET Inputs]) /\ Len(prepared) < 1
    BY DEF SerialInv, TypeOK, Prepare
  <2>2. prepared = <<>>
    BY <2>1
  <2>3. pc = "idle" /\ ~ReturnsEarly
    BY DEF Prepare, ReturnsEarly
  <2> QED BY <2>2, <2>3 DEF SerialInv
<1>2. Inv
  BY <1>1, SerialIsInv
<1>3. r.text \in Texts /\ Shape[r.text] # 0 /\ r.text # "none" /\ (r.images => ~Answerable(r.text))
  BY TextFacts DEF Answerable
<1>4. RunsPrefill(r) /\ PrefillReady(Shape[r.text]) => fused' = r.text /\ prefill.graph = Shape[r.text]
  BY DEF Inv, SerialInv, GraphsWhole, Prepare, PrefillReady, RanPrefill, PrefillKV
<1>5. ~(RunsPrefill(r) /\ PrefillReady(Shape[r.text])) => fused' = fused
  BY DEF Prepare
<1>6. /\ out' = {}
      /\ UNCHANGED <<tmod, prefill, inputVars, constVars, pc, call, emb>>
  BY DEF Prepare
<1>7. fused' \in KVs
  BY <1>2, <1>3, <1>4, <1>5 DEF Inv, TypeOK, KVs
<1>8. GraphsWhole' /\ Progress' /\ FreshKV' /\ FreshEmbedding' /\ DenoiseOnLiveBuffer'
  BY <1>1, <1>2, <1>6, NoAnswer DEF Inv, GraphsWhole, Progress, inputVars, constVars
<1>9. CASE ~Warm(r)
  <2>1. cachedText' = cachedText /\ prepared' = prepared
    BY <1>9 DEF Prepare
  <2>2. TypeOK'
    BY <1>2, <1>6, <1>7, <2>1 DEF Inv, TypeOK, inputVars, constVars
  <2>3. BufferOfText' /\ OneCall' /\ CachedKV'
    BY <1>1, <1>2, <1>6, <2>1 DEF Inv, BufferOfText, OneCall, CachedKV, Answerable, inputVars, constVars
  <2>4. Warmed => Warmed'
    <3> SUFFICES ASSUME Warmed PROVE Warmed'
      OBVIOUS
    <3>1. EmbeddingOfText'
      BY <1>1, <1>6, <2>1 DEF Warmed, EmbeddingOfText, inputVars, constVars
    <3>2. CASE fused' = fused
      BY <1>1, <1>6, <2>1, <3>1, <3>2 DEF Warmed, FusedOfText, Answerable, inputVars, constVars
    <3>3. CASE fused' # fused
      <4>1. RunsPrefill(r) /\ PrefillReady(Shape[r.text]) /\ prefill.graph = Shape[r.text]
        BY <1>4, <1>5, <3>3
      <4>2. cachedText # "none" => ~Answerable(cachedText)
        <5> SUFFICES ASSUME cachedText # "none", Answerable(cachedText) PROVE FALSE
          OBVIOUS
        <5>1. Shape[cachedText] = Shape[r.text]
          BY <1>1, <4>1 DEF Warmed, FusedOfText
        <5>2. proprio /\ textemb.graph = Shape[r.text]
          BY <1>1, <5>1 DEF Warmed, EmbeddingOfText
        <5>3. TextembReady(Shape[r.text])
          BY <1>2, <1>3, <5>2 DEF Inv, GraphsWhole, TextembReady
        <5> QED BY <1>9, <4>1, <5>2, <5>3 DEF Warm
      <4> QED BY <1>1, <1>6, <2>1, <3>1, <4>2 DEF Warmed, FusedOfText, Answerable
    <3> QED BY <3>2, <3>3
  <2> QED BY <1>1, <1>6, <1>8, <2>2, <2>3, <2>4 DEF SerialInv
<1>10. CASE Warm(r)
  <2>1. textemb.graph = Shape[r.text] /\ Embed(r) = {r} /\ proprio
    BY <1>2, <1>10 DEF Inv, GraphsWhole, Warm, TextembReady, Embed
  <2>2. cachedText' = r.text /\ prepared' = <<[call |-> r, emb |-> {r}]>>
    <3>1. cachedText' = r.text /\ prepared' = Append(prepared, [call |-> r, emb |-> Embed(r)])
      BY <1>10 DEF Prepare
    <3>2. prepared' = Append(<<>>, [call |-> r, emb |-> {r}])
      BY <1>1, <2>1, <3>1
    <3>3. \A x : Append(<<>>, x) = <<x>>
      <4> SUFFICES ASSUME NEW x PROVE Append(<<>>, x) = <<x>>
        OBVIOUS
      <4>1. <<>> \in Seq({x}) /\ x \in {x}
        OBVIOUS
      <4> QED BY <4>1
    <3> QED BY <3>1, <3>2, <3>3
  <2>3. ~failed /\ Warmed
    <3>1. prepared' # <<>>
      BY <2>2
    <3> QED BY <1>1, <3>1 DEF SerialInv
  <2>4. cachedText # "none" /\ Shape[cachedText] = Shape[r.text]
    BY <1>1, <1>3, <2>1, <2>3 DEF Warmed, EmbeddingOfText
  <2>5. TypeOK'
    <3>1. prepared' \in Seq([call : Inputs, emb : SUBSET Inputs])
      BY <2>2
    <3> QED BY <1>2, <1>3, <1>6, <1>7, <2>2, <3>1 DEF Inv, TypeOK, inputVars, constVars
  <2>6. BufferOfText'
    BY <1>1, <1>2, <1>3, <1>6, <2>2, <2>4 DEF Inv, BufferOfText, constVars
  <2>7. Answerable(r.text) => fused' = r.text /\ prefill.graph = Shape[r.text]
    <3>1. CASE RunsPrefill(r)
      BY <1>4, <1>10, <3>1 DEF Warm
    <3>2. CASE ~RunsPrefill(r) /\ ~r.images
      BY <1>1, <1>5, <2>3, <2>4, <3>2 DEF RunsPrefill, Stale, Warmed, FusedOfText
    <3> QED BY <1>3, <3>1, <3>2
  <2>8. Warmed'
    <3>1. pc' = "idle" /\ prefill' = prefill /\ proprio' = proprio /\ textemb' = textemb /\ cachedText' = r.text
      BY <1>1, <1>6, <2>2 DEF inputVars
    <3>2. FusedOfText'
      BY <2>7, <3>1 DEF FusedOfText, Answerable
    <3>3. EmbeddingOfText'
      BY <1>3, <2>1, <3>1 DEF EmbeddingOfText
    <3> QED BY <3>2, <3>3 DEF Warmed
  <2>9. Waiting'
    BY <1>1, <1>2, <1>6, <2>2, <2>3 DEF Waiting, Inv, OneCall
  <2> QED BY <1>1, <1>6, <1>8, <2>5, <2>6, <2>8, <2>9 DEF SerialInv
<1> QED BY <1>9, <1>10

\* What is computed then is of the request that was prepared.
LEMMA SerialCompute ==
  ASSUME SerialInv, Compute, failed' = (failed \/ ReturnsEarly)
  PROVE  SerialInv'
<1>1. Waiting
  BY DEF Compute, SerialInv, OneCall
<1>2. PICK r \in Inputs : prepared = <<[call |-> r, emb |-> {r}]>> /\ cachedText = r.text
  BY <1>1 DEF Waiting
<1>3. r.text \in Texts /\ r.text # "none" /\ r.text # "null" /\ r.text # "dangling"
  BY TextFacts DEF NoKV
<1>4. ~failed /\ ~failed' /\ pc = "idle" /\ call = {} /\ Warmed
  BY <1>1 DEF Waiting, Compute, ReturnsEarly, SerialInv
<1>5. constBuf = Shape[r.text]
  BY <1>2, <1>3, <1>4 DEF SerialInv, BufferOfText
<1>6. /\ prepared' = <<>>
      /\ vidKV' = IF fused # "null" THEN CopyOfFused ELSE vidKV
      /\ out' = IF denoise \in {"current", "stale"}
                THEN {[call |-> r, kv |-> vidKV', emb |-> {r}, graph |-> denoise]} ELSE {}
  <2>1. Head(prepared) = [call |-> r, emb |-> {r}] /\ Tail(prepared) = <<>>
    <3>1. \A x : Head(<<x>>) = x /\ Tail(<<x>>) = <<>>
      OBVIOUS
    <3> QED BY <1>2, <3>1
  <2>2. PICK p \in {Head(prepared)} :
          LET fits == constBuf = Shape[p.call.text] IN
          /\ vidKV' = IF fits /\ fused # "null" THEN CopyOfFused ELSE vidKV
          /\ out' = IF fits /\ denoise \in {"current", "stale"}
                    THEN {[call |-> p.call, kv |-> vidKV', emb |-> p.emb, graph |-> denoise]}
                    ELSE {}
    BY DEF Compute
  <2>3. p.call = r /\ p.emb = {r} /\ constBuf = Shape[p.call.text]
    BY <1>5, <2>1, <2>2
  <2>4. prepared' = <<>>
    BY <2>1 DEF Compute
  <2>5. vidKV' = IF fused # "null" THEN CopyOfFused ELSE vidKV
    BY <2>2, <2>3
  <2>6. out' = IF denoise \in {"current", "stale"}
               THEN {[call |-> r, kv |-> vidKV', emb |-> {r}, graph |-> denoise]} ELSE {}
    BY <2>2, <2>3
  <2> QED BY <2>4, <2>5, <2>6
<1>7. UNCHANGED <<cachedText, prefillVars, inputVars, constBuf, denoise, pc, call, emb>>
  BY DEF Compute
<1>8. Answerable(r.text) => vidKV' = r.text
  BY <1>2, <1>3, <1>4, <1>6 DEF Warmed, FusedOfText, CopyOfFused
<1>9. vidKV' \in KVs
  BY <1>6 DEF SerialInv, TypeOK, CopyOfFused, KVs, NoKV
<1>10. denoise # "stale"
  BY DEF SerialInv, GraphsWhole
<1>11. TypeOK'
  <2>1. out' \subseteq Results
    BY <1>6, <1>9 DEF Results
  <2> QED BY <1>6, <1>7, <1>9, <2>1 DEF SerialInv, TypeOK, prefillVars, inputVars
<1>12. GraphsWhole' /\ BufferOfText' /\ Progress' /\ OneCall' /\ CachedKV'
  BY <1>2, <1>4, <1>6, <1>7, <1>8 DEF SerialInv, GraphsWhole, BufferOfText, Progress, OneCall, CachedKV,
     Answerable, prefillVars, inputVars
<1>13. FreshKV' /\ FreshEmbedding' /\ DenoiseOnLiveBuffer'
  <2>1. \A o \in out' : o.call = r /\ o.kv = vidKV' /\ o.emb = {r} /\ o.graph = denoise /\ denoise = "current"
    BY <1>6, <1>10
  <2>2. FreshKV'
    BY <1>8, <2>1 DEF FreshKV, Answerable
  <2> QED BY <2>1, <2>2 DEF FreshEmbedding, DenoiseOnLiveBuffer
<1>14. Warmed'
  BY <1>4, <1>7 DEF Warmed, FusedOfText, EmbeddingOfText, Answerable, prefillVars, inputVars
<1> QED BY <1>4, <1>7, <1>11, <1>12, <1>13, <1>14 DEF SerialInv

\* The caches stay in step with the requests if these are predicted, or prepared and
\* computed, one at a time, and prepared only as long as no predict has returned early.
THEOREM SerialInvariance == OneAtATime => (TwoPhaseSpec => []SerialInv)
<1> SUFFICES ASSUME OneAtATime PROVE TwoPhaseSpec => []SerialInv
  OBVIOUS
<1>0. BenignOnly /\ MaxInFlight = 1
  BY DEF OneAtATime
<1>1. TwoPhaseInit => SerialInv
  <2> SUFFICES ASSUME TwoPhaseInit PROVE SerialInv
    OBVIOUS
  <2>1. Inv
    BY InitInv DEF TwoPhaseInit
  <2>2. Warmed
    BY DEF TwoPhaseInit, Init, Warmed, FusedOfText, EmbeddingOfText
  <2> QED BY <2>1, <2>2 DEF Inv, SerialInv, TwoPhaseInit, Init
<1>2. SerialInv /\ [TwoPhaseNext]_<<vars, failed>> => SerialInv'
  <2> SUFFICES ASSUME SerialInv, [TwoPhaseNext]_<<vars, failed>> PROVE SerialInv'
    OBVIOUS
  <2>1. CASE TwoPhaseNext
    <3>1. failed' = (failed \/ ReturnsEarly) /\ (failed' => prepared' = <<>>)
      BY <2>1 DEF TwoPhaseNext
    <3>2. ASSUME NEW r \in Inputs, Predict(r) PROVE SerialInv'
      BY <1>0, <3>1, <3>2, SerialPredict
    <3>3. ASSUME NEW r \in Inputs, Prepare(r) PROVE SerialInv'
      BY <1>0, <3>1, <3>3, SerialPrepare
    <3>4. CASE PredictStep
      BY <1>0, <3>1, <3>4, SerialPredictStep
    <3>5. CASE Compute
      BY <3>1, <3>5, SerialCompute
    <3> QED BY <2>1, <3>2, <3>3, <3>4, <3>5 DEF TwoPhaseNext, Next
  <2>2. CASE UNCHANGED <<vars, failed>>
    <3>1. /\ TypeOK' /\ GraphsWhole' /\ BufferOfText' /\ Progress'
          /\ FreshKV' /\ FreshEmbedding' /\ DenoiseOnLiveBuffer'
      <4>1. TypeOK'
        BY <2>2 DEF SerialInv, TypeOK, vars, prefillVars, inputVars, constVars
      <4>2. GraphsWhole' /\ BufferOfText' /\ Progress'
        BY <2>2 DEF SerialInv, GraphsWhole, BufferOfText, Progress, RunsPrefill, Stale,
           vars, prefillVars, inputVars, constVars
      <4>3. FreshKV' /\ FreshEmbedding' /\ DenoiseOnLiveBuffer'
        BY <2>2 DEF SerialInv, FreshKV, FreshEmbedding, DenoiseOnLiveBuffer, vars
      <4> QED BY <4>1, <4>2, <4>3
    <3>2. (OneCall' /\ CachedKV') \/ Waiting'
      BY <2>2 DEF SerialInv, OneCall, CachedKV, Waiting, Answerable, vars, constVars
    <3>3. failed' \/ Warmed'
      BY <2>2 DEF SerialInv, Warmed, FusedOfText, EmbeddingOfText, Answerable, vars, prefillVars, inputVars, constVars
    <3>4. pc' # "idle" => out' = {}
      BY <2>2 DEF SerialInv, vars
    <3>5. failed' \in BOOLEAN
      BY <2>2 DEF SerialInv
    <3> QED BY <3>1, <3>2, <3>3, <3>4, <3>5 DEF SerialInv
  <2> QED BY <2>1, <2>2
<1> QED BY <1>1, <1>2, PTL DEF TwoPhaseSpec

\* prepare and compute, one request at a time, answer from the KV and the embedding of
\* the request they were called for, on a live graph, as predict does between them.
THEOREM TwoPhaseIsFresh ==
  OneAtATime => (TwoPhaseSpec => [](FreshKV /\ FreshEmbedding /\ DenoiseOnLiveBuffer))
<1>1. SerialInv => FreshKV /\ FreshEmbedding /\ DenoiseOnLiveBuffer
  BY DEF SerialInv
<1> QED BY <1>1, SerialInvariance, PTL
=============================================================================
