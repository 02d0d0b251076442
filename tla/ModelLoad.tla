----------------------------- MODULE ModelLoad -----------------------------
(***************************************************************************)
(* model_load (model.cpp), the four factories it calls and the destructor  *)
(* that ends a model, half built or whole.  A factory fills the members of *)
(* its model stage by stage and returns nullptr from any of them; what it  *)
(* had acquired is then freed by the unique_ptr's destructor, in an order  *)
(* of its own for every architecture.                                      *)
(*                                                                         *)
(* Tensors are named by group.  A resource is a pair of the member that    *)
(* owns it and the device it was made for, which tells the backend on CPU  *)
(* from the one on CUDA that it replaces.                                  *)
(***************************************************************************)
EXTENDS Integers, Sequences

CONSTANTS
  Files,        (* checkpoint files                                         *)
  Setups        (* builds, machines and environments                        *)

Archs   == {"pi05", "hy_vla", "fasterwam", "lingbot"}
Groups  == {"vlm", "expert", "heads", "embed", "text", "vision", "video", "action", "proprio"}
Devices == {"cpu", "cuda"}

Caches ==
  [pi05      |-> {"comp_ctx", "galloc"},
   lingbot   |-> {"comp_ctx", "galloc"},
   hy_vla    |-> {"vision_galloc", "routed_galloc"},
   fasterwam |-> {"ctx_const", "const_buf", "ctx_step", "galloc", "ctx_vid_prefill", "prefill_galloc",
                  "ctx_proprio", "proprio_galloc", "ctx_textemb", "textemb_galloc"}]

Members == {"backend", "clip", "ctx_weights", "weight_buf", "vision_backend", "ctx_vision_weights",
            "vision_weight_buf"} \cup UNION {Caches[a] : a \in Archs}

ASSUME LoadAssumption ==
  /\ Files \subseteq [suffix : BOOLEAN, opens : BOOLEAN, keys : BOOLEAN,
                      general : Archs \cup {"absent", "other"},
                      own : [Archs -> Archs \cup {"absent", "other"}],
                      tensors : SUBSET Groups, damaged : SUBSET Groups,
                      norm : {"there", "absent", "unsupported"}]
  /\ Setups \subseteq [built : SUBSET Archs, cuda : BOOLEAN, mmproj : BOOLEAN, text : BOOLEAN,
                       vision : BOOLEAN, sideload : BOOLEAN, fallback : BOOLEAN]

VARIABLES
  file,         (* the checkpoint                                           *)
  setup,        (* what is compiled in, the machine, mmproj, environment    *)
  arch,         (* the detected architecture                                *)
  pc,           (* stage of loading, and of the handle's life               *)
  model,        (* the device of what each member holds, "null" if nothing  *)
  heap,         (* what is allocated                                        *)
  wired,        (* groups whose tensor pointers are all set                 *)
  stats,        (* normalisation statistics: "none", "file", "identity"     *)
  oom           (* an allocation failed and nothing made up for it          *)

vars == <<file, setup, arch, pc, model, heap, wired, stats, oom>>

Init ==
  /\ file \in Files /\ setup \in Setups
  /\ arch = "none" /\ pc = "detect"
  /\ model = [m \in Members |-> "null"] /\ heap = {}
  /\ wired = {} /\ stats = "none" /\ oom = FALSE

-----------------------------------------------------------------------------
(* Stages of a factory. *)

At(a, stage) == arch = a /\ pc = stage

\* A check that returns nullptr, in a factory where members may hold something.
Check(ok, next) ==
  /\ pc' = IF ok THEN next ELSE "destroy"
  /\ UNCHANGED <<file, setup, arch, model, heap, wired, stats, oom>>

\* Member m is given a resource of device d; if that fails, the factory returns.
Acquire(m, d, next) ==
  /\ \/ /\ model' = [model EXCEPT ![m] = d]
        /\ heap' = heap \cup {<<m, d>>}
        /\ pc' = next /\ UNCHANGED oom
     \/ pc' = "destroy" /\ oom' = TRUE /\ UNCHANGED <<model, heap>>
  /\ UNCHANGED <<file, setup, arch, wired, stats>>

\* CUDA if there is one and it starts, else CPU.
AcquireBackend(next) ==
  \/ setup.cuda /\ Acquire("backend", "cuda", next) /\ pc' = next
  \/ Acquire("backend", "cpu", next)

\* Tensors of these groups are made of those the file has.
Wire(groups, ok, next) ==
  /\ wired' = wired \cup (groups \cap file.tensors)
  /\ pc' = IF ok THEN next ELSE "destroy"
  /\ UNCHANGED <<file, setup, arch, model, heap, stats, oom>>

\* What the file holds is as long as what the tensors of these groups take.
Sizes(groups) == wired \cap groups \cap file.damaged = {}

Normalise(ok, norm) ==
  /\ pc' = IF ok THEN "loaded" ELSE "destroy"
  /\ stats' = IF ok THEN norm ELSE stats
  /\ UNCHANGED <<file, setup, arch, model, heap, wired, oom>>

NormOrIdentity == IF file.norm = "there" THEN "file" ELSE "identity"

-----------------------------------------------------------------------------
(* model.cpp *)

\* The keys in the order they are tried: the first one the file has decides.
Declared ==
  LET tried == <<file.general, file.own["pi05"], file.own["hy_vla"], file.own["fasterwam"], file.own["lingbot"]>>
      there == {i \in 1..5 : tried[i] # "absent"}
  IN IF there = {} THEN "absent" ELSE tried[CHOOSE i \in there : \A j \in there : i <= j]

Detect ==
  /\ pc = "detect"
  /\ IF file.suffix /\ file.opens /\ Declared \in Archs
     THEN pc' = "dispatch" /\ arch' = Declared
     ELSE pc' = "null" /\ UNCHANGED arch
  /\ UNCHANGED <<file, setup, model, heap, wired, stats, oom>>

Dispatch ==
  /\ pc = "dispatch"
  /\ pc' = IF arch \in setup.built THEN "open" ELSE "null"
  /\ UNCHANGED <<file, setup, arch, model, heap, wired, stats, oom>>

-----------------------------------------------------------------------------
(* pi05.cpp *)

\* Mutant: the architecture is not tested again.
Pi05OpenAny == At("pi05", "open") /\ Check(TRUE, "config")

Pi05Open    == At("pi05", "open") /\ Check(file.own["pi05"] = "pi05", "config")
Pi05Config  == At("pi05", "config") /\ Check(file.keys, "backend")
Pi05Backend == At("pi05", "backend") /\ AcquireBackend("clip")
Pi05Clip    == At("pi05", "clip") /\ Acquire("clip", model["backend"], "mmproj")
Pi05Mmproj  == At("pi05", "mmproj") /\ Check(setup.mmproj, "context")
Pi05Context == At("pi05", "context") /\ Acquire("ctx_weights", "cpu", "layers")

\* Mutant: a missing layer tensor is not noticed.
Pi05LayersUnchecked == At("pi05", "layers") /\ Wire({"vlm", "expert"}, TRUE, "heads")

Pi05Layers  == At("pi05", "layers") /\ Wire({"vlm", "expert"}, {"vlm", "expert"} \subseteq file.tensors, "heads")
Pi05Heads   == At("pi05", "heads") /\ Wire({"heads"}, "heads" \in file.tensors, "alloc")
Pi05Alloc   == At("pi05", "alloc") /\ Acquire("weight_buf", model["backend"], "upload")
Pi05Upload  == At("pi05", "upload") /\ Check(Sizes(Groups), "stats")
Pi05Stats   == At("pi05", "stats") /\ Normalise(file.norm # "unsupported", NormOrIdentity)

Pi05Create ==
  \/ Pi05Open \/ Pi05Config \/ Pi05Backend \/ Pi05Clip \/ Pi05Mmproj \/ Pi05Context
  \/ Pi05Layers \/ Pi05Heads \/ Pi05Alloc \/ Pi05Upload \/ Pi05Stats

\* Mutant: the backend first.
Pi05DestroyedBackendFirst == <<"backend", "galloc", "comp_ctx", "weight_buf", "ctx_weights", "clip">>

Pi05Destroyed == <<"galloc", "comp_ctx", "weight_buf", "ctx_weights", "backend", "clip">>

-----------------------------------------------------------------------------
(* lingbot_vla_v2.cpp *)

LingBotOpen    == At("lingbot", "open") /\ Check(file.own["lingbot"] = "lingbot", "config")
LingBotConfig  == At("lingbot", "config") /\ Check(file.keys, "backend")
LingBotBackend == At("lingbot", "backend") /\ AcquireBackend("clip")
LingBotClip    == At("lingbot", "clip") /\ Acquire("clip", model["backend"], "mmproj")
LingBotMmproj  == At("lingbot", "mmproj") /\ Check(setup.mmproj, "context")
LingBotContext == At("lingbot", "context") /\ Acquire("ctx_weights", "cpu", "layers")
LingBotLayers  == At("lingbot", "layers") /\ Wire({"vlm", "expert"}, {"vlm", "expert"} \subseteq file.tensors, "heads")

\* The heads, and the two rows of the token table that frame a view.
LingBotHeads ==
  At("lingbot", "heads") /\ Wire({"heads", "embed"}, {"heads", "embed"} \subseteq file.tensors, "alloc")

LingBotAlloc   == At("lingbot", "alloc") /\ Acquire("weight_buf", model["backend"], "upload")
LingBotUpload  == At("lingbot", "upload") /\ Check(Sizes(Groups \ {"embed"}), "stats")
LingBotStats   == At("lingbot", "stats") /\ Normalise(file.norm = "there", "file")

LingBotCreate ==
  \/ LingBotOpen \/ LingBotConfig \/ LingBotBackend \/ LingBotClip \/ LingBotMmproj \/ LingBotContext
  \/ LingBotLayers \/ LingBotHeads \/ LingBotAlloc \/ LingBotUpload \/ LingBotStats

LingBotDestroyed == <<"galloc", "comp_ctx", "weight_buf", "ctx_weights", "backend", "clip">>

-----------------------------------------------------------------------------
(* fasterwam.cpp.  A missing key of the configuration reads as 0, a missing tensor
   leaves its pointer null and is not among those looked at afterwards. *)

FasterWamOpen    == At("fasterwam", "open") /\ Check(file.own["fasterwam"] = "fasterwam", "backend")
FasterWamBackend == At("fasterwam", "backend") /\ AcquireBackend("config")
FasterWamConfig  == At("fasterwam", "config") /\ Check(TRUE, "context")
FasterWamContext == At("fasterwam", "context") /\ Acquire("ctx_weights", "cpu", "layers")
FasterWamWeights == At("fasterwam", "layers") /\ Wire({"video", "action", "proprio"}, TRUE, "alloc")
FasterWamAlloc   == At("fasterwam", "alloc") /\ Acquire("weight_buf", model["backend"], "upload")
FasterWamUpload  == At("fasterwam", "upload") /\ Check(Sizes(Groups), "stats")
FasterWamStats   == At("fasterwam", "stats") /\ Normalise(TRUE, NormOrIdentity)

FasterWamCreate ==
  \/ FasterWamOpen \/ FasterWamBackend \/ FasterWamConfig \/ FasterWamContext
  \/ FasterWamWeights \/ FasterWamAlloc \/ FasterWamUpload \/ FasterWamStats

\* Mutant: the denoising graph's context is forgotten.
FasterWamDestroyedButOne ==
  <<"const_buf", "ctx_const", "ctx_vid_prefill", "prefill_galloc", "ctx_proprio", "proprio_galloc",
    "ctx_textemb", "textemb_galloc", "weight_buf", "galloc", "ctx_weights", "backend">>

FasterWamDestroyed ==
  <<"const_buf", "ctx_const", "ctx_step", "ctx_vid_prefill", "prefill_galloc", "ctx_proprio", "proprio_galloc",
    "ctx_textemb", "textemb_galloc", "weight_buf", "galloc", "ctx_weights", "backend">>

-----------------------------------------------------------------------------
(* hy_vla.cpp.  Text layers and vision tower are loaded on demand; the tower may live
   on a CPU backend of its own.  Only the tower's tensors are missed. *)

HyVlaOpen    == At("hy_vla", "open") /\ Check(file.own["hy_vla"] = "hy_vla", "config")
HyVlaConfig  == At("hy_vla", "config") /\ Check(file.keys, "backend")
HyVlaBackend == At("hy_vla", "backend") /\ AcquireBackend("context")
HyVlaContext == At("hy_vla", "context") /\ Acquire("ctx_weights", "cpu", "layers")
HyVlaLayers  == At("hy_vla", "layers") /\ Wire({"expert"}, TRUE, "heads")
HyVlaHeads   == At("hy_vla", "heads") /\ Wire({"heads"}, TRUE, "text")
HyVlaText    == At("hy_vla", "text") /\ Wire(IF setup.text THEN {"text"} ELSE {}, TRUE, "vision")

\* Mutant: the tower is loaded whether asked for or not.
HyVlaVisionAlways ==
  /\ At("hy_vla", "vision")
  /\ IF setup.sideload THEN Acquire("vision_backend", "cpu", "side context") ELSE Check(TRUE, "vision tensors")

HyVlaVision ==
  /\ At("hy_vla", "vision")
  /\ IF setup.vision /\ setup.sideload THEN Acquire("vision_backend", "cpu", "side context")
     ELSE Check(TRUE, IF setup.vision THEN "vision tensors" ELSE "alloc")

HyVlaSideContext == At("hy_vla", "side context") /\ Acquire("ctx_vision_weights", "cpu", "vision tensors")

HyVlaVisionTensors ==
  /\ At("hy_vla", "vision tensors")
  /\ Wire({"vision"}, "vision" \in file.tensors, IF setup.sideload THEN "sidecar" ELSE "alloc")

HyVlaSidecar ==
  /\ At("hy_vla", "sidecar")
  /\ IF model["vision_weight_buf"] = "null" THEN Acquire("vision_weight_buf", "cpu", "sidecar")
     ELSE Check(Sizes({"vision"}), "alloc")

\* Out of memory on CUDA, the weights may be tried again on CPU.
HyVlaAlloc ==
  /\ At("hy_vla", "alloc")
  /\ IF model["backend"] = "cuda" /\ setup.fallback
     THEN \/ Check(TRUE, "retry")
          \/ Acquire("weight_buf", "cuda", "upload") /\ pc' = "upload"
     ELSE Acquire("weight_buf", model["backend"], "upload")

\* Mutant: the CUDA backend is replaced without being freed.
HyVlaRetryKeepingCuda ==
  /\ At("hy_vla", "retry")
  /\ \/ /\ model' = [model EXCEPT !["backend"] = "cpu"]
        /\ heap' = heap \cup {<<"backend", "cpu">>}
        /\ pc' = "realloc" /\ UNCHANGED oom
     \/ /\ model' = [model EXCEPT !["backend"] = "null"]
        /\ UNCHANGED heap /\ pc' = "destroy" /\ oom' = TRUE
  /\ UNCHANGED <<file, setup, arch, wired, stats>>

HyVlaRetry ==
  /\ At("hy_vla", "retry")
  /\ \/ /\ model' = [model EXCEPT !["backend"] = "cpu"]
        /\ heap' = (heap \ {<<"backend", "cuda">>}) \cup {<<"backend", "cpu">>}
        /\ pc' = "realloc" /\ UNCHANGED oom
     \/ /\ model' = [model EXCEPT !["backend"] = "null"]
        /\ heap' = heap \ {<<"backend", "cuda">>}
        /\ pc' = "destroy" /\ oom' = TRUE
  /\ UNCHANGED <<file, setup, arch, wired, stats>>

HyVlaRealloc == At("hy_vla", "realloc") /\ Acquire("weight_buf", model["backend"], "upload")

HyVlaUpload ==
  /\ At("hy_vla", "upload")
  /\ Check(Sizes(IF setup.sideload THEN Groups \ {"vision"} ELSE Groups), "stats")

HyVlaStats == At("hy_vla", "stats") /\ Normalise(TRUE, NormOrIdentity)

HyVlaCreate ==
  \/ HyVlaOpen \/ HyVlaConfig \/ HyVlaBackend \/ HyVlaContext \/ HyVlaLayers \/ HyVlaHeads \/ HyVlaText
  \/ HyVlaVision \/ HyVlaSideContext \/ HyVlaVisionTensors \/ HyVlaSidecar
  \/ HyVlaAlloc \/ HyVlaRetry \/ HyVlaRealloc \/ HyVlaUpload \/ HyVlaStats

HyVlaDestroyed ==
  <<"vision_weight_buf", "vision_galloc", "routed_galloc", "ctx_vision_weights", "vision_backend",
    "weight_buf", "ctx_weights", "backend">>

-----------------------------------------------------------------------------
(* The handle *)

Destroyed == CASE arch = "pi05" -> Pi05Destroyed   [] arch = "lingbot"   -> LingBotDestroyed
               [] arch = "hy_vla" -> HyVlaDestroyed [] arch = "fasterwam" -> FasterWamDestroyed

\* Requests leave any of the caches allocated; HY-VLA keeps allocators for CUDA only,
\* and none for a tower with a backend of its own.
Kept == IF arch # "hy_vla" THEN Caches[arch]
        ELSE {m \in Caches["hy_vla"] : IF m = "routed_galloc" THEN model["backend"] = "cuda" ELSE ~setup.sideload}

Predict ==
  /\ pc = "loaded" /\ pc' = "in use"
  /\ \E S \in SUBSET Kept :
       /\ model' = [m \in Members |-> IF m \in S THEN model["backend"] ELSE model[m]]
       /\ heap' = heap \cup {<<m, model["backend"]>> : m \in S}
  /\ UNCHANGED <<file, setup, arch, wired, stats, oom>>

ModelFree ==
  /\ pc \in {"loaded", "in use"} /\ pc' = "destroy"
  /\ UNCHANGED <<file, setup, arch, model, heap, wired, stats, oom>>

\* The destructor, a member at a time.
Destroy ==
  LET held == {i \in DOMAIN Destroyed : model[Destroyed[i]] # "null"} IN
  /\ pc = "destroy"
  /\ IF held = {}
     THEN pc' = (IF stats = "none" THEN "null" ELSE "freed") /\ UNCHANGED <<model, heap>>
     ELSE LET m == Destroyed[CHOOSE i \in held : \A j \in held : i <= j] IN
          /\ model' = [model EXCEPT ![m] = "null"]
          /\ heap' = heap \ {<<m, model[m]>>}
          /\ UNCHANGED pc
  /\ UNCHANGED <<file, setup, arch, wired, stats, oom>>

Next ==
  \/ Detect \/ Dispatch \/ Pi05Create \/ LingBotCreate \/ FasterWamCreate \/ HyVlaCreate
  \/ Predict \/ ModelFree \/ Destroy

Spec == Init /\ [][Next]_vars

-----------------------------------------------------------------------------
(* Properties. *)

\* Tensors a model of this kind reads.
Required ==
  CASE arch = "pi05"      -> {"vlm", "expert", "heads"}
    [] arch = "lingbot"   -> {"vlm", "expert", "heads", "embed"}
    [] arch = "fasterwam" -> {"video", "action", "proprio"}
    [] arch = "hy_vla"    -> {"expert", "heads"} \cup (IF setup.text THEN {"text"} ELSE {})
                                                 \cup (IF setup.vision THEN {"vision"} ELSE {})

\* Whatever a factory or a request was doing, each live resource has exactly one
\* member pointing at it and each pointer is live: nothing leaks through an early
\* return or a replaced backend, and no destructor frees anything twice.
Owned == heap = {<<m, model[m]>> : m \in {n \in Members : model[n] # "null"}}

\* When model_load has returned nullptr, or model_free has run, nothing is left.
NothingLeft == pc \in {"null", "freed"} => heap = {}

\* No buffer and no allocator outlives the backend it was made for.
NoneOutlivesBackend ==
  \A r \in heap :
    /\ r[1] \in {"weight_buf", "galloc", "const_buf", "prefill_galloc", "proprio_galloc", "textemb_galloc",
                 "vision_galloc", "routed_galloc"} => <<"backend", r[2]>> \in heap
    /\ r[1] = "vision_weight_buf" => <<"vision_backend", r[2]>> \in heap

\* A handle that is returned is of the architecture the file declares under that
\* architecture's own key and, if it has one, under general.architecture; and where
\* tensors are looked for they are all there: in pi0.5, LingBot, which also insists on
\* its statistics, and HY-VLA's vision tower.
HandleSound ==
  pc \in {"loaded", "in use"} =>
    /\ file.own[arch] = arch /\ file.general \in {arch, "absent"} /\ arch \in setup.built
    /\ arch \in {"pi05", "lingbot"} => Required \subseteq wired
    /\ arch = "lingbot" => stats = "file"
    /\ Required \cap {"vision"} \subseteq wired

\* A complete file is refused only for want of memory or of a matching mmproj.
CompleteIsLoaded ==
  /\ pc = "null" /\ arch \in setup.built
  /\ file.own[arch] = arch /\ file.keys /\ file.norm = "there"
  /\ Required \subseteq file.tensors \ file.damaged
  => oom \/ (arch \in {"pi05", "lingbot"} /\ ~setup.mmproj)
-----------------------------------------------------------------------------
(* Why: the invariant from which they follow.  The stages from which on a   *)
(* member may be held are nested, as every factory acquires its members in  *)
(* the same order.                                                          *)

WithCaches        == {"in use", "destroy"}
WithWeights       == WithCaches \cup {"upload", "stats", "loaded"}
WithSidecar       == WithWeights \cup {"alloc", "retry", "realloc", "sidecar"}
WithTowerTensors  == WithSidecar \cup {"vision tensors"}
WithTower         == WithTowerTensors \cup {"side context"}
WithContext       == WithTower \cup {"layers", "heads", "text", "vision"}
WithClip          == WithContext \cup {"mmproj", "context"}
WithBackend       == WithClip \cup {"clip"} \cup (IF arch = "fasterwam" THEN {"config"} ELSE {})

Early == {"detect", "dispatch", "open", "config", "backend", "null", "freed"}

TypeOK ==
  /\ file \in Files /\ setup \in Setups
  /\ arch \in Archs \cup {"none"}
  /\ pc \in Early \cup WithBackend
  /\ model \in [Members -> Devices \cup {"null"}]
  /\ wired \subseteq Groups
  /\ stats \in {"none", "file", "identity"}
  /\ oom \in BOOLEAN

HeldOnly(members, stages) == \A m \in members : model[m] # "null" => pc \in stages

\* What the destructor knows of.
Known == {Destroyed[i] : i \in DOMAIN Destroyed}

\* What is held was acquired at an earlier stage, and the destructor knows of it.
Inventory ==
  /\ \A m \in Members : model[m] # "null" => arch # "none" /\ m \in Known
  /\ HeldOnly({"backend"}, WithBackend)
  /\ HeldOnly({"clip"}, WithClip)
  /\ HeldOnly({"ctx_weights"}, WithContext)
  /\ HeldOnly({"vision_backend"}, WithTower)
  /\ HeldOnly({"ctx_vision_weights"}, WithTowerTensors)
  /\ HeldOnly({"vision_weight_buf"}, WithSidecar)
  /\ HeldOnly({"weight_buf"}, WithWeights)
  /\ HeldOnly(UNION {Caches[a] : a \in Archs}, WithCaches)

Buffers == {"weight_buf", "galloc", "const_buf", "prefill_galloc", "proprio_galloc", "textemb_galloc",
            "vision_galloc", "routed_galloc"}

\* The backends are there from the stage that makes them on, and the buffers are theirs.
Attached ==
  /\ pc \in WithBackend \ {"destroy"} => model["backend"] # "null"
  /\ \A m \in Buffers : model[m] # "null" => model[m] = model["backend"]
  /\ pc \in {"side context", "vision tensors", "sidecar"} => setup.vision
  /\ pc = "sidecar" => setup.sideload
  /\ pc = "retry" => arch = "hy_vla" /\ model["backend"] = "cuda"
  /\ pc \in {"side context", "vision tensors", "sidecar"} /\ setup.sideload => model["vision_backend"] = "cpu"
  /\ model["vision_weight_buf"] # "null" => model["vision_weight_buf"] = model["vision_backend"]

\* What the stages passed say of the architecture.
Detected ==
  /\ pc = "detect" => arch = "none"
  /\ arch # "none" => file.general \in {arch, "absent"}
  /\ pc \notin {"detect", "null"} => arch # "none"
  /\ pc \notin {"detect", "dispatch", "null"} => arch \in setup.built
  /\ pc \notin {"detect", "dispatch", "open", "destroy", "null", "freed"} => file.own[arch] = arch

\* What they say of the tensors and statistics: what is wired is read, and is in the file.
Filled ==
  /\ arch = "none" => wired = {}
  /\ arch # "none" => wired \subseteq Required
  /\ arch \in {"pi05", "lingbot"} =>
       /\ pc \in {"heads", "alloc", "upload", "stats", "loaded", "in use"} => {"vlm", "expert"} \subseteq wired
       /\ pc \in {"alloc", "upload", "stats", "loaded", "in use"} => Required \subseteq wired
  /\ arch = "hy_vla" /\ setup.vision /\ pc \in (WithSidecar \ {"destroy"}) => "vision" \in wired
  /\ pc \notin {"loaded", "in use", "destroy", "freed"} => stats = "none"
  /\ pc \in {"loaded", "in use"} => stats # "none" /\ (arch = "lingbot" => stats = "file")

\* A factory that gives up has a reason.
Excused ==
  /\ pc \in {"destroy", "null"} /\ stats = "none" /\ arch \in setup.built
  /\ file.own[arch] = arch /\ file.keys /\ file.norm = "there"
  /\ Required \subseteq file.tensors \ file.damaged
  => oom \/ (arch \in {"pi05", "lingbot"} /\ ~setup.mmproj)

Inv ==
  /\ TypeOK /\ Owned /\ Inventory /\ Attached
  /\ Detected /\ Filled /\ Excused
=============================================================================
