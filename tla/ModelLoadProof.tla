--------------------------- MODULE ModelLoadProof ---------------------------
(***************************************************************************)
(* Loading and freeing a model leaks nothing and frees nothing twice: the  *)
(* invariant Inv of ModelLoad is inductive, and what the runs check of the *)
(* module follows from it.  One lemma stands for a stage, in all of the    *)
(* factories that have it.                                                 *)
(***************************************************************************)
EXTENDS ModelLoad, TLAPS

\* What the sets of members and of stages come down to.

LEMMA MembersAre ==
  /\ Members = {"backend", "clip", "ctx_weights", "weight_buf", "vision_backend", "ctx_vision_weights",
                "vision_weight_buf", "comp_ctx", "galloc", "vision_galloc", "routed_galloc", "ctx_const", "const_buf",
                "ctx_step", "ctx_vid_prefill", "prefill_galloc", "ctx_proprio", "proprio_galloc", "ctx_textemb",
                "textemb_galloc"}
  /\ UNION {Caches[a] : a \in Archs} =
       {"comp_ctx", "galloc", "vision_galloc", "routed_galloc", "ctx_const", "const_buf", "ctx_step",
        "ctx_vid_prefill", "prefill_galloc", "ctx_proprio", "proprio_galloc", "ctx_textemb", "textemb_galloc"}
<1>1. UNION {Caches[a] : a \in Archs} = Caches["pi05"] \cup Caches["lingbot"] \cup Caches["hy_vla"]
                                     \cup Caches["fasterwam"]
  BY DEF Archs
<1>2. UNION {Caches[a] : a \in Archs} =
       {"comp_ctx", "galloc", "vision_galloc", "routed_galloc", "ctx_const", "const_buf", "ctx_step",
        "ctx_vid_prefill", "prefill_galloc", "ctx_proprio", "proprio_galloc", "ctx_textemb", "textemb_galloc"}
  BY <1>1 DEF Caches
<1> QED BY <1>2 DEF Members

\* The members on each destructor's list.
LEMMA KnownAre ==
  /\ arch \in {"pi05", "lingbot"} => Known = {"galloc", "comp_ctx", "weight_buf", "ctx_weights", "backend", "clip"}
  /\ arch = "hy_vla" => Known = {"vision_weight_buf", "vision_galloc", "routed_galloc", "ctx_vision_weights",
                                 "vision_backend", "weight_buf", "ctx_weights", "backend"}
  /\ arch = "fasterwam" => Known = {"const_buf", "ctx_const", "ctx_step", "ctx_vid_prefill", "prefill_galloc",
                                    "ctx_proprio", "proprio_galloc", "ctx_textemb", "textemb_galloc", "weight_buf",
                                    "galloc", "ctx_weights", "backend"}
<1>1. ASSUME NEW s, s = Pi05Destroyed \/ s = LingBotDestroyed
      PROVE  {s[i] : i \in DOMAIN s} = {"galloc", "comp_ctx", "weight_buf", "ctx_weights", "backend", "clip"}
  BY <1>1 DEF Pi05Destroyed, LingBotDestroyed
<1>2. {HyVlaDestroyed[i] : i \in DOMAIN HyVlaDestroyed}
        = {"vision_weight_buf", "vision_galloc", "routed_galloc", "ctx_vision_weights",
           "vision_backend", "weight_buf", "ctx_weights", "backend"}
  BY DEF HyVlaDestroyed
<1>3. {FasterWamDestroyed[i] : i \in DOMAIN FasterWamDestroyed}
        = {"const_buf", "ctx_const", "ctx_step", "ctx_vid_prefill", "prefill_galloc",
           "ctx_proprio", "proprio_galloc", "ctx_textemb", "textemb_galloc", "weight_buf",
           "galloc", "ctx_weights", "backend"}
  BY DEF FasterWamDestroyed
<1>4. /\ arch = "pi05" => Destroyed = Pi05Destroyed
      /\ arch = "lingbot" => Destroyed = LingBotDestroyed
      /\ arch = "hy_vla" => Destroyed = HyVlaDestroyed
      /\ arch = "fasterwam" => Destroyed = FasterWamDestroyed
  BY DEF Destroyed
<1> QED BY <1>1, <1>2, <1>3, <1>4 DEF Known

\* It is the architecture that decides which destructor runs.
LEMMA KnownStays == UNCHANGED arch => Known' = Known
BY DEF Known, Destroyed

\* What Acquire does, when the member held nothing.
Acquired(m, d, next) ==
  /\ model' \in [Members -> Devices \cup {"null"}] /\ Owned'
  /\ \/ pc' = next /\ oom' = oom /\ \A n \in Members : model'[n] = IF n = m THEN d ELSE model[n]
     \/ pc' = "destroy" /\ oom' = TRUE /\ model' = model
  /\ UNCHANGED <<file, setup, arch, wired, stats>>

\* A member that held nothing is given a resource, or nothing is acquired at all.
LEMMA AcquireGives ==
  ASSUME Inv, NEW m \in Members, NEW d \in Devices, NEW next, model[m] = "null", Acquire(m, d, next)
  PROVE  Acquired(m, d, next)
BY DEF Inv, TypeOK, Owned, Acquire, Acquired, Devices

\* An allocation that fails ends in the destructor, with what is held.
LEMMA OutOfMemory ==
  ASSUME Inv, arch # "none", arch \in setup.built, pc' = "destroy", oom' = TRUE, Owned',
         UNCHANGED <<file, setup, arch, model, wired, stats>>
  PROVE  Inv'
<1> USE DEF Inv,
   WithBackend, WithClip, WithContext, WithTower, WithTowerTensors, WithSidecar, WithWeights, WithCaches
<1>1. TypeOK'
  BY DEF TypeOK
<1>2. Inventory'
  BY KnownStays DEF Inventory, HeldOnly
<1>3. Attached'
  BY DEF Attached
<1>4. Detected' /\ Filled' /\ Excused'
  BY DEF Detected, Filled, Excused, Required
<1> QED BY <1>1, <1>2, <1>3, <1>4

\* The checks of a file's keys.
LEMMA ConfigInv ==
  Inv /\ (Pi05Open \/ Pi05Config \/ LingBotOpen \/ LingBotConfig \/ FasterWamOpen \/ FasterWamConfig \/
          HyVlaOpen \/ HyVlaConfig)
    => Inv'
<1> SUFFICES ASSUME Inv,
                    Pi05Open \/ Pi05Config \/ LingBotOpen \/ LingBotConfig \/ FasterWamOpen \/
                    FasterWamConfig \/ HyVlaOpen \/ HyVlaConfig
             PROVE  Inv'
  OBVIOUS
<1> USE DEF Inv, At, Check,
   WithBackend, WithClip, WithContext, WithTower, WithTowerTensors, WithSidecar, WithWeights, WithCaches,
           Pi05Open, Pi05Config, LingBotOpen, LingBotConfig, FasterWamOpen, FasterWamConfig, HyVlaOpen,
           HyVlaConfig
<1>1. TypeOK' /\ Owned'
  BY DEF TypeOK, Early, Owned
<1>2. Inventory'
  BY KnownStays DEF Inventory, HeldOnly
<1>3. Attached' /\ Detected'
  BY DEF Attached, Detected
<1>4. Filled'
  BY DEF Filled, Required
<1>5. Excused'
  BY DEF Excused, Required, Filled, Sizes
<1> QED BY <1>1, <1>2, <1>3, <1>4, <1>5

\* The checks that the vision encoder fits.
LEMMA MmprojInv ==
  Inv /\ (Pi05Mmproj \/ LingBotMmproj)
    => Inv'
<1> SUFFICES ASSUME Inv,
                    Pi05Mmproj \/ LingBotMmproj
             PROVE  Inv'
  OBVIOUS
<1> USE DEF Inv, At, Check,
   WithBackend, WithClip, WithContext, WithTower, WithTowerTensors, WithSidecar, WithWeights, WithCaches,
           Pi05Mmproj, LingBotMmproj
<1>1. TypeOK' /\ Owned'
  BY DEF TypeOK, Early, Owned
<1>2. Inventory'
  BY KnownStays DEF Inventory, HeldOnly
<1>3. Attached' /\ Detected'
  BY DEF Attached, Detected
<1>4. Filled'
  BY DEF Filled, Required
<1>5. Excused'
  BY DEF Excused, Required, Filled, Sizes
<1> QED BY <1>1, <1>2, <1>3, <1>4, <1>5

\* The checks of the sizes of the tensors.
LEMMA UploadInv ==
  Inv /\ (Pi05Upload \/ LingBotUpload \/ FasterWamUpload \/ HyVlaUpload)
    => Inv'
<1> SUFFICES ASSUME Inv,
                    Pi05Upload \/ LingBotUpload \/ FasterWamUpload \/ HyVlaUpload
             PROVE  Inv'
  OBVIOUS
<1> USE DEF Inv, At, Check,
   WithBackend, WithClip, WithContext, WithTower, WithTowerTensors, WithSidecar, WithWeights, WithCaches,
           Pi05Upload, LingBotUpload, FasterWamUpload, HyVlaUpload
<1>1. TypeOK' /\ Owned'
  BY DEF TypeOK, Early, Owned
<1>2. Inventory'
  BY KnownStays DEF Inventory, HeldOnly
<1>3. Attached' /\ Detected'
  BY DEF Attached, Detected
<1>4. Filled'
  BY DEF Filled, Required
<1>5. Excused'
  BY DEF Excused, Required, Filled, Sizes, Groups
<1> QED BY <1>1, <1>2, <1>3, <1>4, <1>5

\* The backend, on CUDA or CPU.
LEMMA BackendInv ==
  Inv /\ (Pi05Backend \/ LingBotBackend \/ FasterWamBackend \/ HyVlaBackend)
    => Inv'
<1> SUFFICES ASSUME Inv,
                    Pi05Backend \/ LingBotBackend \/ FasterWamBackend \/ HyVlaBackend
             PROVE  Inv'
  OBVIOUS
<1>1. arch # "none" /\ arch \in setup.built /\ pc = "backend"
  BY DEF Inv, Detected, Attached, At,
     Pi05Backend, LingBotBackend, FasterWamBackend, HyVlaBackend
<1>2. {"backend"} \subseteq Members \cap Known
  BY <1>1, MembersAre, KnownAre DEF Inv, TypeOK, Archs
<1>3. \A n \in Members \ {} : model[n] = "null"
  BY <1>1, MembersAre DEF Inv, TypeOK, Inventory, HeldOnly,
     WithBackend, WithClip, WithContext, WithTower, WithTowerTensors, WithSidecar, WithWeights, WithCaches
<1>4. TRUE
  OBVIOUS
<1>5. PICK d \in Devices, next \in {"clip", "config", "context"} :
        Acquired("backend", d, next) /\ (next = "config" => arch = "fasterwam")
  BY <1>1, <1>2, <1>3, <1>4, AcquireGives DEF Devices, At, AcquireBackend,
     Pi05Backend, LingBotBackend, FasterWamBackend, HyVlaBackend
<1>6. CASE pc' = "destroy"
  BY <1>1, <1>5, <1>6, OutOfMemory DEF Acquired
<1>7. CASE pc' = next /\ oom' = oom /\ \A n \in Members : model'[n] = IF n = "backend" THEN d ELSE model[n]
  <2>1. TypeOK' /\ Owned'
    BY <1>1, <1>5, <1>7 DEF Inv, Acquired, TypeOK, Early,
       WithBackend, WithClip, WithContext, WithTower, WithTowerTensors, WithSidecar, WithWeights, WithCaches
  <2>2. UNCHANGED <<file, setup, arch, wired, stats>> /\ Known' = Known
    BY <1>5, KnownStays DEF Acquired
  <2>3. \A n \in Members \ {"backend"} : model'[n] = "null"
    BY <1>3, <1>7
  <2>4. pc' \in WithBackend'
    BY <1>1, <1>5, <1>7, <2>2 DEF
       WithBackend, WithClip, WithContext, WithTower, WithTowerTensors, WithSidecar, WithWeights, WithCaches
  <2>5. Inventory'
    <3>1. \A n \in Members : model'[n] # "null" => arch' # "none" /\ n \in Known'
      BY <1>1, <1>2, <1>7, <2>2 DEF Inv, Inventory
    <3> QED BY <2>3, <2>4, <3>1, MembersAre DEF Inventory, HeldOnly
  <2>6. Attached'
    <3>1. \A n \in Buffers : model'[n] # "null" => model'[n] = model'["backend"]
      BY <1>2, <1>5, <1>7, <2>3, MembersAre DEF Buffers
    <3> QED BY <1>1, <1>4, <1>5, <1>7, <2>2, <2>3, <3>1, MembersAre DEF Inv, Attached, Devices
  <2>7. Detected' /\ Excused'
    BY <1>1, <1>5, <1>7, <2>2 DEF Inv, Detected, Excused, Required
  <2>8. Filled'
    BY <1>1, <1>5, <1>7, <2>2 DEF Inv, Filled, Required,
       WithBackend, WithClip, WithContext, WithTower, WithTowerTensors, WithSidecar, WithWeights, WithCaches
  <2> QED BY <2>1, <2>5, <2>6, <2>7, <2>8 DEF Inv
<1> QED BY <1>5, <1>6, <1>7 DEF Acquired

\* The vision encoder.
LEMMA ClipInv ==
  Inv /\ (Pi05Clip \/ LingBotClip)
    => Inv'
<1> SUFFICES ASSUME Inv,
                    Pi05Clip \/ LingBotClip
             PROVE  Inv'
  OBVIOUS
<1>1. arch # "none" /\ arch \in setup.built /\ pc = "clip" /\ arch \in {"pi05", "lingbot"}
  BY DEF Inv, Detected, Attached, At,
     Pi05Clip, LingBotClip
<1>2. {"clip"} \subseteq Members \cap Known
  BY <1>1, MembersAre, KnownAre DEF Inv, TypeOK, Archs
<1>3. \A n \in Members \ {"backend"} : model[n] = "null"
  BY <1>1, MembersAre DEF Inv, TypeOK, Inventory, HeldOnly,
     WithBackend, WithClip, WithContext, WithTower, WithTowerTensors, WithSidecar, WithWeights, WithCaches
<1>4. model["backend"] \in Devices
  BY <1>1, MembersAre DEF Inv, TypeOK, Attached,
     WithBackend, WithClip, WithContext, WithTower, WithTowerTensors, WithSidecar, WithWeights, WithCaches
<1>5. PICK d \in Devices : Acquired("clip", d, "mmproj")
  BY <1>1, <1>2, <1>3, <1>4, AcquireGives DEF Devices, At,
     Pi05Clip, LingBotClip
<1>6. CASE pc' = "destroy"
  BY <1>1, <1>5, <1>6, OutOfMemory DEF Acquired
<1>7. CASE pc' = "mmproj" /\ oom' = oom /\ \A n \in Members : model'[n] = IF n = "clip" THEN d ELSE model[n]
  <2>1. TypeOK' /\ Owned'
    BY <1>1, <1>5, <1>7 DEF Inv, Acquired, TypeOK, Early,
       WithBackend, WithClip, WithContext, WithTower, WithTowerTensors, WithSidecar, WithWeights, WithCaches
  <2>2. UNCHANGED <<file, setup, arch, wired, stats>> /\ Known' = Known
    BY <1>5, KnownStays DEF Acquired
  <2>3. \A n \in Members \ {"backend", "clip"} : model'[n] = "null"
    BY <1>3, <1>7
  <2>4. pc' \in WithBackend' /\ pc' \in WithClip
    BY <1>1, <1>5, <1>7, <2>2 DEF
       WithBackend, WithClip, WithContext, WithTower, WithTowerTensors, WithSidecar, WithWeights, WithCaches
  <2>5. Inventory'
    <3>1. \A n \in Members : model'[n] # "null" => arch' # "none" /\ n \in Known'
      BY <1>1, <1>2, <1>7, <2>2 DEF Inv, Inventory
    <3> QED BY <2>3, <2>4, <3>1, MembersAre DEF Inventory, HeldOnly
  <2>6. Attached'
    <3>1. \A n \in Buffers : model'[n] # "null" => model'[n] = model'["backend"]
      BY <1>2, <1>5, <1>7, <2>3, MembersAre DEF Buffers
    <3> QED BY <1>1, <1>4, <1>5, <1>7, <2>2, <2>3, <3>1, MembersAre DEF Inv, Attached, Devices
  <2>7. Detected' /\ Excused'
    BY <1>1, <1>5, <1>7, <2>2 DEF Inv, Detected, Excused, Required
  <2>8. Filled'
    BY <1>1, <1>5, <1>7, <2>2 DEF Inv, Filled, Required,
       WithBackend, WithClip, WithContext, WithTower, WithTowerTensors, WithSidecar, WithWeights, WithCaches
  <2> QED BY <2>1, <2>5, <2>6, <2>7, <2>8 DEF Inv
<1> QED BY <1>5, <1>6, <1>7 DEF Acquired

\* The context of the weights.
LEMMA ContextInv ==
  Inv /\ (Pi05Context \/ LingBotContext \/ FasterWamContext \/ HyVlaContext)
    => Inv'
<1> SUFFICES ASSUME Inv,
                    Pi05Context \/ LingBotContext \/ FasterWamContext \/ HyVlaContext
             PROVE  Inv'
  OBVIOUS
<1>1. arch # "none" /\ arch \in setup.built /\ pc = "context"
  BY DEF Inv, Detected, Attached, At,
     Pi05Context, LingBotContext, FasterWamContext, HyVlaContext
<1>2. {"ctx_weights"} \subseteq Members \cap Known
  BY <1>1, MembersAre, KnownAre DEF Inv, TypeOK, Archs
<1>3. \A n \in Members \ {"backend", "clip"} : model[n] = "null"
  BY <1>1, MembersAre DEF Inv, TypeOK, Inventory, HeldOnly,
     WithBackend, WithClip, WithContext, WithTower, WithTowerTensors, WithSidecar, WithWeights, WithCaches
<1>4. model["backend"] \in Devices
  BY <1>1, MembersAre DEF Inv, TypeOK, Attached,
     WithBackend, WithClip, WithContext, WithTower, WithTowerTensors, WithSidecar, WithWeights, WithCaches
<1>5. PICK d \in Devices : Acquired("ctx_weights", d, "layers")
  BY <1>1, <1>2, <1>3, <1>4, AcquireGives DEF Devices, At,
     Pi05Context, LingBotContext, FasterWamContext, HyVlaContext
<1>6. CASE pc' = "destroy"
  BY <1>1, <1>5, <1>6, OutOfMemory DEF Acquired
<1>7. CASE pc' = "layers" /\ oom' = oom /\ \A n \in Members : model'[n] = IF n = "ctx_weights" THEN d ELSE model[n]
  <2>1. TypeOK' /\ Owned'
    BY <1>1, <1>5, <1>7 DEF Inv, Acquired, TypeOK, Early,
       WithBackend, WithClip, WithContext, WithTower, WithTowerTensors, WithSidecar, WithWeights, WithCaches
  <2>2. UNCHANGED <<file, setup, arch, wired, stats>> /\ Known' = Known
    BY <1>5, KnownStays DEF Acquired
  <2>3. \A n \in Members \ {"backend", "clip", "ctx_weights"} : model'[n] = "null"
    BY <1>3, <1>7
  <2>4. pc' \in WithBackend' /\ pc' \in WithClip /\ pc' \in WithContext
    BY <1>1, <1>5, <1>7, <2>2 DEF
       WithBackend, WithClip, WithContext, WithTower, WithTowerTensors, WithSidecar, WithWeights, WithCaches
  <2>5. Inventory'
    <3>1. \A n \in Members : model'[n] # "null" => arch' # "none" /\ n \in Known'
      BY <1>1, <1>2, <1>7, <2>2 DEF Inv, Inventory
    <3> QED BY <2>3, <2>4, <3>1, MembersAre DEF Inventory, HeldOnly
  <2>6. Attached'
    <3>1. \A n \in Buffers : model'[n] # "null" => model'[n] = model'["backend"]
      BY <1>2, <1>5, <1>7, <2>3, MembersAre DEF Buffers
    <3> QED BY <1>1, <1>4, <1>5, <1>7, <2>2, <2>3, <3>1, MembersAre DEF Inv, Attached, Devices
  <2>7. Detected' /\ Excused'
    BY <1>1, <1>5, <1>7, <2>2 DEF Inv, Detected, Excused, Required
  <2>8. Filled'
    BY <1>1, <1>5, <1>7, <2>2 DEF Inv, Filled, Required,
       WithBackend, WithClip, WithContext, WithTower, WithTowerTensors, WithSidecar, WithWeights, WithCaches
  <2> QED BY <2>1, <2>5, <2>6, <2>7, <2>8 DEF Inv
<1> QED BY <1>5, <1>6, <1>7 DEF Acquired

\* The tensors of a checkpoint.
LEMMA WireInv ==
  Inv /\ (Pi05Layers \/ Pi05Heads \/ LingBotLayers \/ LingBotHeads \/ FasterWamWeights \/ HyVlaLayers \/
          HyVlaHeads \/ HyVlaText)
    => Inv'
<1> SUFFICES ASSUME Inv,
                    Pi05Layers \/ Pi05Heads \/ LingBotLayers \/ LingBotHeads \/ FasterWamWeights \/
                    HyVlaLayers \/ HyVlaHeads \/ HyVlaText
             PROVE  Inv'
  OBVIOUS
<1> USE DEF Inv, At, Wire,
   WithBackend, WithClip, WithContext, WithTower, WithTowerTensors, WithSidecar, WithWeights, WithCaches,
           Pi05Layers, Pi05Heads, LingBotLayers, LingBotHeads, FasterWamWeights, HyVlaLayers,
           HyVlaHeads, HyVlaText
<1>1. TypeOK' /\ Owned'
  BY DEF TypeOK, Early, Groups, Owned
<1>2. Inventory'
  BY KnownStays DEF Inventory, HeldOnly
<1>3. Attached' /\ Detected'
  BY DEF Attached, Detected
<1>4. Filled'
  BY DEF Filled, Required
<1>5. Excused'
  BY DEF Excused, Required
<1> QED BY <1>1, <1>2, <1>3, <1>4, <1>5

\* The buffer of the weights, on the backend there is.
LEMMA AllocInv ==
  Inv /\ (Pi05Alloc \/ LingBotAlloc \/ FasterWamAlloc \/ HyVlaRealloc)
    => Inv'
<1> SUFFICES ASSUME Inv,
                    Pi05Alloc \/ LingBotAlloc \/ FasterWamAlloc \/ HyVlaRealloc
             PROVE  Inv'
  OBVIOUS
<1>1. arch # "none" /\ arch \in setup.built /\ pc \in {"alloc", "realloc"} /\ (pc = "realloc" => arch = "hy_vla")
  BY DEF Inv, Detected, Attached, At,
     Pi05Alloc, LingBotAlloc, FasterWamAlloc, HyVlaRealloc
<1>2. {"weight_buf"} \subseteq Members \cap Known
  BY <1>1, MembersAre, KnownAre DEF Inv, TypeOK, Archs
<1>3. \A n \in Members \ {"backend", "clip", "ctx_weights", "vision_backend", "ctx_vision_weights",
                          "vision_weight_buf"} : model[n] = "null"
  BY <1>1, MembersAre DEF Inv, TypeOK, Inventory, HeldOnly,
     WithBackend, WithClip, WithContext, WithTower, WithTowerTensors, WithSidecar, WithWeights, WithCaches
<1>4. model["backend"] \in Devices
  BY <1>1, MembersAre DEF Inv, TypeOK, Attached,
     WithBackend, WithClip, WithContext, WithTower, WithTowerTensors, WithSidecar, WithWeights, WithCaches
<1>5. PICK d \in {model["backend"]} : d \in Devices /\ Acquired("weight_buf", d, "upload")
  BY <1>1, <1>2, <1>3, <1>4, AcquireGives DEF Devices, At,
     Pi05Alloc, LingBotAlloc, FasterWamAlloc, HyVlaRealloc
<1>6. CASE pc' = "destroy"
  BY <1>1, <1>5, <1>6, OutOfMemory DEF Acquired
<1>7. CASE pc' = "upload" /\ oom' = oom /\ \A n \in Members : model'[n] = IF n = "weight_buf" THEN d ELSE model[n]
  <2>1. TypeOK' /\ Owned'
    BY <1>1, <1>5, <1>7 DEF Inv, Acquired, TypeOK, Early,
       WithBackend, WithClip, WithContext, WithTower, WithTowerTensors, WithSidecar, WithWeights, WithCaches
  <2>2. UNCHANGED <<file, setup, arch, wired, stats>> /\ Known' = Known
    BY <1>5, KnownStays DEF Acquired
  <2>3. \A n \in Members \ {"backend", "clip", "ctx_weights", "vision_backend",
                            "ctx_vision_weights", "vision_weight_buf", "weight_buf"} : model'[n] = "null"
    BY <1>3, <1>7
  <2>4. pc' \in WithBackend' /\ pc' \in WithClip /\ pc' \in WithContext /\ pc' \in WithTower /\
          pc' \in WithTowerTensors /\ pc' \in WithSidecar /\ pc' \in WithWeights
    BY <1>1, <1>5, <1>7, <2>2 DEF
       WithBackend, WithClip, WithContext, WithTower, WithTowerTensors, WithSidecar, WithWeights, WithCaches
  <2>5. Inventory'
    <3>1. \A n \in Members : model'[n] # "null" => arch' # "none" /\ n \in Known'
      BY <1>1, <1>2, <1>7, <2>2 DEF Inv, Inventory
    <3> QED BY <2>3, <2>4, <3>1, MembersAre DEF Inventory, HeldOnly
  <2>6. Attached'
    <3>1. \A n \in Buffers : model'[n] # "null" => model'[n] = model'["backend"]
      BY <1>2, <1>5, <1>7, <2>3, MembersAre DEF Buffers
    <3> QED BY <1>1, <1>4, <1>5, <1>7, <2>2, <2>3, <3>1, MembersAre DEF Inv, Attached, Devices
  <2>7. Detected' /\ Excused'
    BY <1>1, <1>5, <1>7, <2>2 DEF Inv, Detected, Excused, Required
  <2>8. Filled'
    BY <1>1, <1>5, <1>7, <2>2 DEF Inv, Filled, Required,
       WithBackend, WithClip, WithContext, WithTower, WithTowerTensors, WithSidecar, WithWeights, WithCaches
  <2> QED BY <2>1, <2>5, <2>6, <2>7, <2>8 DEF Inv
<1> QED BY <1>5, <1>6, <1>7 DEF Acquired

\* HY-VLA may fall back to CPU for its weights.
LEMMA FallBackInv == Inv /\ HyVlaAlloc /\ pc' = "retry" => Inv'
<1> SUFFICES ASSUME Inv, HyVlaAlloc, pc' = "retry" PROVE Inv'
  OBVIOUS
<1>1. /\ pc = "alloc" /\ arch = "hy_vla" /\ model["backend"] = "cuda"
      /\ UNCHANGED <<file, setup, arch, model, heap, wired, stats, oom>>
  BY DEF HyVlaAlloc, At, Check, Acquire
<1> USE <1>1 DEF Inv, WithBackend, WithClip, WithContext, WithTower, WithTowerTensors, WithSidecar,
                 WithWeights, WithCaches
<1>2. TypeOK' /\ Owned'
  BY DEF TypeOK, Owned
<1>3. Inventory'
  BY KnownStays DEF Inventory, HeldOnly
<1>4. Attached' /\ Detected' /\ Excused'
  BY DEF Attached, Detected, Excused
<1>5. Filled'
  BY DEF Filled, Required
<1> QED BY <1>2, <1>3, <1>4, <1>5

\* HY-VLA's weights, on the backend it has.
LEMMA HyVlaAllocInv == Inv /\ HyVlaAlloc /\ pc' # "retry" => Inv'
<1> SUFFICES ASSUME Inv, HyVlaAlloc /\ pc' # "retry" PROVE Inv'
  OBVIOUS
<1>1. arch # "none" /\ arch \in setup.built /\ pc = "alloc" /\ arch = "hy_vla"
  BY DEF Inv, Detected, Attached, At,
     HyVlaAlloc
<1>2. {"weight_buf"} \subseteq Members \cap Known
  BY <1>1, MembersAre, KnownAre DEF Inv, TypeOK, Archs
<1>3. \A n \in Members \ {"backend", "clip", "ctx_weights", "vision_backend", "ctx_vision_weights",
                          "vision_weight_buf"} : model[n] = "null"
  BY <1>1, MembersAre DEF Inv, TypeOK, Inventory, HeldOnly,
     WithBackend, WithClip, WithContext, WithTower, WithTowerTensors, WithSidecar, WithWeights, WithCaches
<1>4. model["backend"] \in Devices
  BY <1>1, MembersAre DEF Inv, TypeOK, Attached,
     WithBackend, WithClip, WithContext, WithTower, WithTowerTensors, WithSidecar, WithWeights, WithCaches
<1>5. PICK d \in {model["backend"]} : d \in Devices /\ Acquired("weight_buf", d, "upload")
  BY <1>1, <1>2, <1>3, <1>4, AcquireGives DEF Devices, At, Check, Acquire,
     HyVlaAlloc
<1>6. CASE pc' = "destroy"
  BY <1>1, <1>5, <1>6, OutOfMemory DEF Acquired
<1>7. CASE pc' = "upload" /\ oom' = oom /\ \A n \in Members : model'[n] = IF n = "weight_buf" THEN d ELSE model[n]
  <2>1. TypeOK' /\ Owned'
    BY <1>1, <1>5, <1>7 DEF Inv, Acquired, TypeOK, Early,
       WithBackend, WithClip, WithContext, WithTower, WithTowerTensors, WithSidecar, WithWeights, WithCaches
  <2>2. UNCHANGED <<file, setup, arch, wired, stats>> /\ Known' = Known
    BY <1>5, KnownStays DEF Acquired
  <2>3. \A n \in Members \ {"backend", "clip", "ctx_weights", "vision_backend",
                            "ctx_vision_weights", "vision_weight_buf", "weight_buf"} : model'[n] = "null"
    BY <1>3, <1>7
  <2>4. pc' \in WithBackend' /\ pc' \in WithClip /\ pc' \in WithContext /\ pc' \in WithTower /\
          pc' \in WithTowerTensors /\ pc' \in WithSidecar /\ pc' \in WithWeights
    BY <1>1, <1>5, <1>7, <2>2 DEF
       WithBackend, WithClip, WithContext, WithTower, WithTowerTensors, WithSidecar, WithWeights, WithCaches
  <2>5. Inventory'
    <3>1. \A n \in Members : model'[n] # "null" => arch' # "none" /\ n \in Known'
      BY <1>1, <1>2, <1>7, <2>2 DEF Inv, Inventory
    <3> QED BY <2>3, <2>4, <3>1, MembersAre DEF Inventory, HeldOnly
  <2>6. Attached'
    <3>1. \A n \in Buffers : model'[n] # "null" => model'[n] = model'["backend"]
      BY <1>2, <1>5, <1>7, <2>3, MembersAre DEF Buffers
    <3> QED BY <1>1, <1>4, <1>5, <1>7, <2>2, <2>3, <3>1, MembersAre DEF Inv, Attached, Devices
  <2>7. Detected' /\ Excused'
    BY <1>1, <1>5, <1>7, <2>2 DEF Inv, Detected, Excused, Required
  <2>8. Filled'
    BY <1>1, <1>5, <1>7, <2>2 DEF Inv, Filled, Required,
       WithBackend, WithClip, WithContext, WithTower, WithTowerTensors, WithSidecar, WithWeights, WithCaches
  <2> QED BY <2>1, <2>5, <2>6, <2>7, <2>8 DEF Inv
<1> QED BY <1>5, <1>6, <1>7 DEF Acquired

\* The statistics, the last stage.
LEMMA StatsInv ==
  Inv /\ (Pi05Stats \/ LingBotStats \/ FasterWamStats \/ HyVlaStats)
    => Inv'
<1> SUFFICES ASSUME Inv,
                    Pi05Stats \/ LingBotStats \/ FasterWamStats \/ HyVlaStats
             PROVE  Inv'
  OBVIOUS
<1> USE DEF Inv, At, Normalise, NormOrIdentity,
   WithBackend, WithClip, WithContext, WithTower, WithTowerTensors, WithSidecar, WithWeights, WithCaches,
           Pi05Stats, LingBotStats, FasterWamStats, HyVlaStats
<1>1. TypeOK' /\ Owned'
  BY DEF TypeOK, Early, Owned
<1>2. Inventory'
  BY KnownStays DEF Inventory, HeldOnly
<1>3. Attached' /\ Detected'
  BY DEF Attached, Detected
<1>4. Filled' /\ Excused'
  BY DEF Filled, Excused, Required
<1> QED BY <1>1, <1>2, <1>3, <1>4

\* HY-VLA's vision tower is not loaded, or lives with the other weights.
LEMMA NoSideVisionInv == Inv /\ HyVlaVision /\ ~(setup.vision /\ setup.sideload) => Inv'
<1> SUFFICES ASSUME Inv, HyVlaVision /\ ~(setup.vision /\ setup.sideload) PROVE Inv'
  OBVIOUS
<1> USE DEF Inv, At, Check,
   WithBackend, WithClip, WithContext, WithTower, WithTowerTensors, WithSidecar, WithWeights, WithCaches,
           HyVlaVision
<1>1. TypeOK' /\ Owned'
  BY DEF TypeOK, Early, Owned
<1>2. Inventory'
  BY KnownStays DEF Inventory, HeldOnly
<1>3. Attached' /\ Detected'
  BY DEF Attached, Detected
<1>4. Filled'
  BY DEF Filled, Required
<1>5. Excused'
  BY DEF Excused, Required, Filled, Sizes
<1> QED BY <1>1, <1>2, <1>3, <1>4, <1>5

\* The vision tower, on a backend of its own.
LEMMA SideVisionInv == Inv /\ HyVlaVision /\ setup.vision /\ setup.sideload => Inv'
<1> SUFFICES ASSUME Inv, HyVlaVision /\ setup.vision /\ setup.sideload PROVE Inv'
  OBVIOUS
<1>1. arch # "none" /\ arch \in setup.built /\ pc = "vision" /\ arch = "hy_vla" /\ setup.vision /\ setup.sideload
  BY DEF Inv, Detected, Attached, At,
     HyVlaVision
<1>2. {"vision_backend"} \subseteq Members \cap Known
  BY <1>1, MembersAre, KnownAre DEF Inv, TypeOK, Archs
<1>3. \A n \in Members \ {"backend", "clip", "ctx_weights"} : model[n] = "null"
  BY <1>1, MembersAre DEF Inv, TypeOK, Inventory, HeldOnly,
     WithBackend, WithClip, WithContext, WithTower, WithTowerTensors, WithSidecar, WithWeights, WithCaches
<1>4. model["backend"] \in Devices
  BY <1>1, MembersAre DEF Inv, TypeOK, Attached,
     WithBackend, WithClip, WithContext, WithTower, WithTowerTensors, WithSidecar, WithWeights, WithCaches
<1>5. PICK d \in {"cpu"} : Acquired("vision_backend", d, "side context")
  BY <1>1, <1>2, <1>3, <1>4, AcquireGives DEF Devices, At,
     HyVlaVision
<1>6. CASE pc' = "destroy"
  BY <1>1, <1>5, <1>6, OutOfMemory DEF Acquired
<1>7. CASE pc' = "side context" /\ oom' = oom /\ \A n \in Members : model'[n] = IF n = "vision_backend" THEN d ELSE model[n]
  <2>1. TypeOK' /\ Owned'
    BY <1>1, <1>5, <1>7 DEF Inv, Acquired, TypeOK, Early,
       WithBackend, WithClip, WithContext, WithTower, WithTowerTensors, WithSidecar, WithWeights, WithCaches
  <2>2. UNCHANGED <<file, setup, arch, wired, stats>> /\ Known' = Known
    BY <1>5, KnownStays DEF Acquired
  <2>3. \A n \in Members \ {"backend", "clip", "ctx_weights", "vision_backend"} : model'[n] = "null"
    BY <1>3, <1>7
  <2>4. pc' \in WithBackend' /\ pc' \in WithClip /\ pc' \in WithContext /\ pc' \in WithTower
    BY <1>1, <1>5, <1>7, <2>2 DEF
       WithBackend, WithClip, WithContext, WithTower, WithTowerTensors, WithSidecar, WithWeights, WithCaches
  <2>5. Inventory'
    <3>1. \A n \in Members : model'[n] # "null" => arch' # "none" /\ n \in Known'
      BY <1>1, <1>2, <1>7, <2>2 DEF Inv, Inventory
    <3> QED BY <2>3, <2>4, <3>1, MembersAre DEF Inventory, HeldOnly
  <2>6. Attached'
    <3>1. \A n \in Buffers : model'[n] # "null" => model'[n] = model'["backend"]
      BY <1>2, <1>5, <1>7, <2>3, MembersAre DEF Buffers
    <3> QED BY <1>1, <1>4, <1>5, <1>7, <2>2, <2>3, <3>1, MembersAre DEF Inv, Attached, Devices
  <2>7. Detected' /\ Excused'
    BY <1>1, <1>5, <1>7, <2>2 DEF Inv, Detected, Excused, Required
  <2>8. Filled'
    BY <1>1, <1>5, <1>7, <2>2 DEF Inv, Filled, Required,
       WithBackend, WithClip, WithContext, WithTower, WithTowerTensors, WithSidecar, WithWeights, WithCaches
  <2> QED BY <2>1, <2>5, <2>6, <2>7, <2>8 DEF Inv
<1> QED BY <1>5, <1>6, <1>7 DEF Acquired

\* The vision tower's context.
LEMMA TowerInv ==
  Inv /\ (HyVlaSideContext)
    => Inv'
<1> SUFFICES ASSUME Inv,
                    HyVlaSideContext
             PROVE  Inv'
  OBVIOUS
<1>1. arch # "none" /\ arch \in setup.built /\ pc = "side context" /\ arch = "hy_vla"
      /\ setup.vision /\ (setup.sideload => model["vision_backend"] = "cpu")
  BY DEF Inv, Detected, Attached, At,
     HyVlaSideContext
<1>2. {"ctx_vision_weights"} \subseteq Members \cap Known
  BY <1>1, MembersAre, KnownAre DEF Inv, TypeOK, Archs
<1>3. \A n \in Members \ {"backend", "clip", "ctx_weights", "vision_backend"} : model[n] = "null"
  BY <1>1, MembersAre DEF Inv, TypeOK, Inventory, HeldOnly,
     WithBackend, WithClip, WithContext, WithTower, WithTowerTensors, WithSidecar, WithWeights, WithCaches
<1>4. model["backend"] \in Devices
  BY <1>1, MembersAre DEF Inv, TypeOK, Attached,
     WithBackend, WithClip, WithContext, WithTower, WithTowerTensors, WithSidecar, WithWeights, WithCaches
<1>5. PICK d \in Devices : Acquired("ctx_vision_weights", d, "vision tensors")
  BY <1>1, <1>2, <1>3, <1>4, AcquireGives DEF Devices, At,
     HyVlaSideContext
<1>6. CASE pc' = "destroy"
  BY <1>1, <1>5, <1>6, OutOfMemory DEF Acquired
<1>7. CASE pc' = "vision tensors" /\ oom' = oom /\ \A n \in Members : model'[n] = IF n = "ctx_vision_weights" THEN d ELSE model[n]
  <2>1. TypeOK' /\ Owned'
    BY <1>1, <1>5, <1>7 DEF Inv, Acquired, TypeOK, Early,
       WithBackend, WithClip, WithContext, WithTower, WithTowerTensors, WithSidecar, WithWeights, WithCaches
  <2>2. UNCHANGED <<file, setup, arch, wired, stats>> /\ Known' = Known
    BY <1>5, KnownStays DEF Acquired
  <2>3. \A n \in Members \ {"backend", "clip", "ctx_weights", "vision_backend",
                            "ctx_vision_weights"} : model'[n] = "null"
    BY <1>3, <1>7
  <2>4. pc' \in WithBackend' /\ pc' \in WithClip /\ pc' \in WithContext /\ pc' \in WithTower /\
          pc' \in WithTowerTensors
    BY <1>1, <1>5, <1>7, <2>2 DEF
       WithBackend, WithClip, WithContext, WithTower, WithTowerTensors, WithSidecar, WithWeights, WithCaches
  <2>5. Inventory'
    <3>1. \A n \in Members : model'[n] # "null" => arch' # "none" /\ n \in Known'
      BY <1>1, <1>2, <1>7, <2>2 DEF Inv, Inventory
    <3> QED BY <2>3, <2>4, <3>1, MembersAre DEF Inventory, HeldOnly
  <2>6. Attached'
    <3>1. \A n \in Buffers : model'[n] # "null" => model'[n] = model'["backend"]
      BY <1>2, <1>5, <1>7, <2>3, MembersAre DEF Buffers
    <3> QED BY <1>1, <1>4, <1>5, <1>7, <2>2, <2>3, <3>1, MembersAre DEF Inv, Attached, Devices
  <2>7. Detected' /\ Excused'
    BY <1>1, <1>5, <1>7, <2>2 DEF Inv, Detected, Excused, Required
  <2>8. Filled'
    BY <1>1, <1>5, <1>7, <2>2 DEF Inv, Filled, Required,
       WithBackend, WithClip, WithContext, WithTower, WithTowerTensors, WithSidecar, WithWeights, WithCaches
  <2> QED BY <2>1, <2>5, <2>6, <2>7, <2>8 DEF Inv
<1> QED BY <1>5, <1>6, <1>7 DEF Acquired

\* The vision tower's tensors, the only ones HY-VLA misses.
LEMMA TowerTensorsInv ==
  Inv /\ (HyVlaVisionTensors)
    => Inv'
<1> SUFFICES ASSUME Inv,
                    HyVlaVisionTensors
             PROVE  Inv'
  OBVIOUS
<1> USE DEF Inv, At, Wire,
   WithBackend, WithClip, WithContext, WithTower, WithTowerTensors, WithSidecar, WithWeights, WithCaches,
           HyVlaVisionTensors
<1>1. TypeOK' /\ Owned'
  BY DEF TypeOK, Early, Groups, Owned
<1>2. Inventory'
  BY KnownStays DEF Inventory, HeldOnly
<1>3. Attached' /\ Detected'
  BY DEF Attached, Detected
<1>4. Filled'
  BY DEF Filled, Required, Attached
<1>5. Excused'
  BY DEF Excused, Required, Attached
<1> QED BY <1>1, <1>2, <1>3, <1>4, <1>5

\* The tower's own buffer, and the sizes of what goes there.
LEMMA SidecarInv == Inv /\ HyVlaSidecar => Inv'
<1> SUFFICES ASSUME Inv, HyVlaSidecar PROVE Inv'
  OBVIOUS
<1> USE DEF At, HyVlaSidecar, WithBackend, WithClip, WithContext, WithTower, WithTowerTensors, WithSidecar,
            WithWeights, WithCaches
<1>1. CASE model["vision_weight_buf"] # "null"
  <2> USE <1>1 DEF Check, Inv
  <2>1. TypeOK' /\ Owned'
    BY DEF TypeOK, Early, Owned
  <2>2. Inventory'
    BY KnownStays DEF Inventory, HeldOnly
  <2>3. Attached' /\ Detected'
    BY DEF Attached, Detected
  <2>4. Filled'
    BY DEF Filled, Required
  <2>5. Excused'
    BY DEF Excused, Required, Filled, Attached, Sizes
  <2> QED BY <2>1, <2>2, <2>3, <2>4, <2>5
<1>2. CASE model["vision_weight_buf"] = "null"
  <2>1. arch # "none" /\ arch \in setup.built
    BY DEF Inv, Detected
  <2>2. "vision_weight_buf" \in Members /\ "vision_weight_buf" \in Known
    BY MembersAre, KnownAre
  <2>3. Acquired("vision_weight_buf", "cpu", "sidecar")
    BY <1>2, <2>2, AcquireGives DEF Devices
  <2>4. CASE pc' = "destroy"
    BY <2>1, <2>3, <2>4, OutOfMemory DEF Acquired
  <2>5. CASE /\ pc' = "sidecar" /\ oom' = oom
             /\ \A n \in Members : model'[n] = IF n = "vision_weight_buf" THEN "cpu" ELSE model[n]
    <3> USE <1>2, <2>3, <2>5 DEF Acquired
    <3>1. TypeOK'
      BY DEF Inv, TypeOK, Early
    <3>2. Known' = Known
      BY KnownStays
    <3>3. Inventory'
      BY <2>2, <3>2, MembersAre DEF Inv, Inventory, HeldOnly
    <3>4. Attached'
      BY <2>2, MembersAre DEF Inv, Attached, Inventory, HeldOnly, Buffers
    <3>5. Detected' /\ Filled' /\ Excused'
      BY DEF Inv, Detected, Filled, Excused, Required
    <3> QED BY <3>1, <3>3, <3>4, <3>5 DEF Inv
  <2> QED BY <2>3, <2>4, <2>5 DEF Acquired
<1> QED BY <1>1, <1>2

\* The CUDA backend is freed before the CPU backend is made in its place; no buffer was made of it yet.
LEMMA RetryInv == Inv /\ HyVlaRetry => Inv'
<1> SUFFICES ASSUME Inv, HyVlaRetry PROVE Inv'
  OBVIOUS
<1>1. /\ arch = "hy_vla" /\ arch \in setup.built /\ pc = "retry" /\ model["backend"] = "cuda"
      /\ pc' \in {"realloc", "destroy"} /\ (pc' = "destroy" => oom')
      /\ UNCHANGED <<file, setup, arch, wired, stats>>
  BY DEF Inv, Detected, Attached, At, HyVlaRetry
<1>2. \A n \in Members \ {"backend", "clip", "ctx_weights", "vision_backend", "ctx_vision_weights",
                           "vision_weight_buf"} : model[n] = "null"
  BY <1>1, MembersAre DEF Inv, TypeOK, Inventory, HeldOnly,
     WithBackend, WithClip, WithContext, WithTower, WithTowerTensors, WithSidecar, WithWeights, WithCaches
<1>3. PICK d \in {"cpu", "null"} :
        /\ model' = [model EXCEPT !["backend"] = d] /\ (d = "null" <=> pc' = "destroy")
        /\ heap' = (heap \ {<<"backend", "cuda">>}) \cup {<<"backend", e>> : e \in {d} \ {"null"}}
        /\ (d = "cpu" => oom' = oom) /\ (d = "null" => oom' = TRUE)
  <2>1. CASE pc' = "realloc"
    BY <2>1 DEF HyVlaRetry
  <2>2. CASE pc' = "destroy"
    BY <2>2 DEF HyVlaRetry
  <2> QED BY <1>1, <2>1, <2>2
<1>4. "backend" \in Members /\ \A n \in Members : model'[n] = IF n = "backend" THEN d ELSE model[n]
  BY <1>3, MembersAre DEF Inv, TypeOK
<1>5. TypeOK'
  BY <1>1, <1>3 DEF Inv, TypeOK, Early, Devices,
     WithBackend, WithClip, WithContext, WithTower, WithTowerTensors, WithSidecar, WithWeights, WithCaches
<1>6. Owned'
  BY <1>1, <1>3, <1>4 DEF Inv, Owned
<1>7. Inventory'
  <2>1. \A n \in Members : model'[n] # "null" => arch' # "none" /\ n \in Known'
    BY <1>1, <1>4, KnownStays DEF Inv, Inventory
  <2>2. \A n \in Members : model'[n] # "null" => n \in {"backend", "clip", "ctx_weights", "vision_backend",
                                                       "ctx_vision_weights", "vision_weight_buf"}
    BY <1>2, <1>4
  <2>3. pc' \in WithBackend' /\ pc' \in WithClip /\ pc' \in WithContext /\ pc' \in WithTower
        /\ pc' \in WithTowerTensors /\ pc' \in WithSidecar
    BY <1>1 DEF
       WithBackend, WithClip, WithContext, WithTower, WithTowerTensors, WithSidecar, WithWeights, WithCaches
  <2> QED BY <2>1, <2>2, <2>3, MembersAre DEF Inventory, HeldOnly
<1>8. Attached'
  <2>1. \A n \in Buffers : model'[n] = "null"
    BY <1>2, <1>4, MembersAre DEF Buffers
  <2>2. model'["backend"] = d /\ model'["vision_weight_buf"] = model["vision_weight_buf"]
        /\ model'["vision_backend"] = model["vision_backend"]
    BY <1>4, MembersAre
  <2> QED BY <1>1, <1>3, <2>1, <2>2 DEF Inv, Attached
<1>9. Detected' /\ Excused'
  BY <1>1, <1>3 DEF Inv, Detected, Excused, Required
<1>10. Filled'
  BY <1>1 DEF Inv, Filled, Required,
     WithBackend, WithClip, WithContext, WithTower, WithTowerTensors, WithSidecar, WithWeights, WithCaches
<1> QED BY <1>5, <1>6, <1>7, <1>8, <1>9, <1>10 DEF Inv

\* Detection decides by the first key there is.
LEMMA DeclaredIs ==
  ASSUME Inv, Declared \in Archs
  PROVE  file.general \in {Declared, "absent"}
<1> DEFINE tried == <<file.general, file.own["pi05"], file.own["hy_vla"], file.own["fasterwam"], file.own["lingbot"]>>
           there == {i \in 1..5 : tried[i] # "absent"}
<1>1. CASE file.general = "absent"
  BY <1>1
<1>2. CASE file.general # "absent"
  <2>1. tried[1] = file.general
    OBVIOUS
  <2>2. 1 \in there /\ \A j \in there : 1 <= j
    BY <1>2, <2>1
  <2>3. (CHOOSE i \in there : \A j \in there : i <= j) = 1
    <3>1. ASSUME NEW i \in there, \A j \in there : i <= j PROVE i = 1
      BY <2>2, <3>1
    <3> HIDE DEF there, tried
    <3> QED BY <2>2, <3>1
  <2> HIDE DEF tried
  <2>4. Declared = tried[CHOOSE i \in there : \A j \in there : i <= j]
    BY <2>2 DEF Declared, tried
  <2> QED BY <2>1, <2>3, <2>4
<1> QED BY <1>1, <1>2

\* An architecture is one that the file declares.
LEMMA DetectInv == Inv /\ Detect => Inv'
<1> SUFFICES ASSUME Inv, Detect PROVE Inv'
  OBVIOUS
<1>1. /\ pc = "detect" /\ UNCHANGED <<file, setup, model, heap, wired, stats, oom>>
      /\ \/ pc' = "dispatch" /\ arch' = Declared /\ arch' \in Archs
         \/ pc' = "null" /\ arch' = arch
  BY DEF Detect
<1>2. \A m \in Members : model'[m] = "null"
  BY <1>1, MembersAre DEF Inv, TypeOK, Inventory, HeldOnly,
     WithBackend, WithClip, WithContext, WithTower, WithTowerTensors, WithSidecar, WithWeights, WithCaches
<1>3. TypeOK' /\ Owned'
  BY <1>1 DEF Inv, TypeOK, Early, Owned
<1>4. Inventory'
  BY <1>2, MembersAre DEF Inventory, HeldOnly
<1>5. Attached'
  BY <1>1, <1>2, MembersAre DEF Attached, Buffers,
     WithBackend, WithClip, WithContext, WithTower, WithTowerTensors, WithSidecar, WithWeights, WithCaches
<1>6. Detected'
  BY <1>1, DeclaredIs DEF Inv, Detected, Archs
<1>7. wired = {}
  BY <1>1 DEF Inv, Detected, Filled
<1>8. Filled'
  BY <1>1, <1>7 DEF Inv, Filled,
     WithBackend, WithClip, WithContext, WithTower, WithTowerTensors, WithSidecar, WithWeights, WithCaches
<1>9. Excused'
  BY <1>1, LoadAssumption DEF Inv, TypeOK, Detected, Excused, Archs
<1> QED BY <1>3, <1>4, <1>5, <1>6, <1>8, <1>9 DEF Inv

\* An architecture that is not compiled in is refused before anything is acquired.
LEMMA DispatchInv == Inv /\ Dispatch => Inv'
<1> SUFFICES ASSUME Inv, Dispatch PROVE Inv'
  OBVIOUS
<1>1. /\ pc = "dispatch" /\ UNCHANGED <<file, setup, arch, model, heap, wired, stats, oom>>
      /\ pc' = IF arch \in setup.built THEN "open" ELSE "null"
  BY DEF Dispatch
<1> USE <1>1 DEF Inv, WithBackend, WithClip, WithContext, WithTower, WithTowerTensors, WithSidecar,
                 WithWeights, WithCaches
<1>2. TypeOK' /\ Owned'
  BY DEF TypeOK, Owned, Early
<1>3. Inventory'
  BY KnownStays DEF Inventory, HeldOnly
<1>4. Attached' /\ Detected' /\ Excused'
  BY DEF Attached, Detected, Excused
<1>5. Filled'
  BY DEF Filled, Required
<1> QED BY <1>2, <1>3, <1>4, <1>5

\* model_free runs the destructor.
LEMMA ModelFreeInv == Inv /\ ModelFree => Inv'
<1> SUFFICES ASSUME Inv, ModelFree PROVE Inv'
  OBVIOUS
<1>1. /\ pc \in {"loaded", "in use"} /\ UNCHANGED <<file, setup, arch, model, heap, wired, stats, oom>>
      /\ pc' = "destroy"
  BY DEF ModelFree
<1> USE <1>1 DEF Inv, WithBackend, WithClip, WithContext, WithTower, WithTowerTensors, WithSidecar,
                 WithWeights, WithCaches
<1>2. TypeOK' /\ Owned'
  BY DEF TypeOK, Owned, Early
<1>3. Inventory'
  BY KnownStays DEF Inventory, HeldOnly
<1>4. Attached' /\ Detected'
  BY DEF Attached, Detected
<1>5. Filled' /\ Excused'
  BY DEF Filled, Required, Excused
<1> QED BY <1>2, <1>3, <1>4, <1>5

\* What a request may leave allocated is nothing yet, and known to the destructor.
LEMMA KeptAre ==
  ASSUME Inv, pc = "loaded"
  PROVE  /\ Kept \subseteq Members \cap Known /\ \A m \in Kept : model[m] = "null"
         /\ Kept \cap {"backend", "vision_backend", "vision_weight_buf", "weight_buf", "clip", "ctx_weights",
                       "ctx_vision_weights"} = {}
<1>1. arch \in Archs
  BY DEF Inv, TypeOK, Detected
<1>2. Kept \subseteq Caches[arch]
  <2>1. CASE arch = "hy_vla"
    BY <2>1 DEF Kept
  <2>2. CASE arch # "hy_vla"
    BY <2>2 DEF Kept
  <2> QED BY <2>1, <2>2
<1>3. Caches[arch] \subseteq Known
  BY <1>1, KnownAre DEF Archs, Caches
<1>4. Caches[arch] \subseteq UNION {Caches[a] : a \in Archs}
  BY <1>1
<1>5. \A m \in UNION {Caches[a] : a \in Archs} : model[m] = "null"
  BY MembersAre DEF Inv, Inventory, HeldOnly, WithCaches
<1> QED BY <1>2, <1>3, <1>4, <1>5, MembersAre

\* A request allocates caches on the backend there is.
LEMMA PredictInv == Inv /\ Predict => Inv'
<1> SUFFICES ASSUME Inv, Predict PROVE Inv'
  OBVIOUS
<1>1. pc = "loaded" /\ pc' = "in use" /\ UNCHANGED <<file, setup, arch, wired, stats, oom>>
  BY DEF Predict
<1>2. arch # "none" /\ Known' = Known
  BY <1>1, KnownStays DEF Inv, Detected
<1>3. model["backend"] \in Devices /\ "backend" \in Members
  BY <1>1, MembersAre DEF Inv, TypeOK, Attached,
     WithBackend, WithClip, WithContext, WithTower, WithTowerTensors, WithSidecar, WithWeights, WithCaches
<1>4. PICK S \in SUBSET Kept :
        /\ model' = [m \in Members |-> IF m \in S THEN model["backend"] ELSE model[m]]
        /\ heap' = heap \cup {<<m, model["backend"]>> : m \in S}
  BY DEF Predict
<1>5. /\ S \subseteq Members \cap Known /\ \A m \in S : model[m] = "null"
      /\ \A m \in {"backend", "vision_backend", "vision_weight_buf"} : m \notin S
  BY <1>1, <1>4, KeptAre
<1>6. TypeOK'
  BY <1>1, <1>3, <1>4 DEF Inv, TypeOK,
     WithBackend, WithClip, WithContext, WithTower, WithTowerTensors, WithSidecar, WithWeights, WithCaches
<1>7. Owned'
  BY <1>3, <1>4, <1>5 DEF Inv, Owned, Devices
<1>8. Inventory'
  <2>1. \A n \in Members : model'[n] # "null" => arch' # "none" /\ n \in Known'
    BY <1>1, <1>2, <1>4, <1>5 DEF Inv, Inventory
  <2>2. pc' \in WithCaches /\ pc' \in WithWeights /\ pc' \in WithSidecar /\ pc' \in WithTowerTensors
        /\ pc' \in WithTower /\ pc' \in WithContext /\ pc' \in WithClip /\ pc' \in WithBackend'
    BY <1>1 DEF
       WithBackend, WithClip, WithContext, WithTower, WithTowerTensors, WithSidecar, WithWeights, WithCaches
  <2> QED BY <2>1, <2>2 DEF Inventory, HeldOnly
<1>9. Attached'
  <2>1. model'["backend"] = model["backend"] /\ model'["vision_backend"] = model["vision_backend"]
        /\ model'["vision_weight_buf"] = model["vision_weight_buf"]
    BY <1>4, <1>5, MembersAre
  <2>2. \A m \in Buffers : model'[m] # "null" => model'[m] = model'["backend"]
    <3>1. Buffers \subseteq Members
      BY MembersAre DEF Buffers
    <3> QED BY <1>4, <2>1, <3>1 DEF Inv, Attached
  <2> QED BY <1>1, <1>3, <2>1, <2>2 DEF Inv, Attached, Devices
<1>10. Detected' /\ Excused'
  BY <1>1 DEF Inv, Detected, Excused
<1>11. Filled'
  BY <1>1 DEF Inv, Filled, Required,
     WithBackend, WithClip, WithContext, WithTower, WithTowerTensors, WithSidecar, WithWeights, WithCaches
<1> QED BY <1>6, <1>7, <1>8, <1>9, <1>10, <1>11 DEF Inv

-----------------------------------------------------------------------------
(* The destructor. *)

\* The list of each destructor.
LEMMA DestroyedIs ==
  /\ arch = "pi05" => Destroyed = Pi05Destroyed
  /\ arch = "lingbot" => Destroyed = LingBotDestroyed
  /\ arch = "hy_vla" => Destroyed = HyVlaDestroyed
  /\ arch = "fasterwam" => Destroyed = FasterWamDestroyed
BY DEF Destroyed

\* The members are freed in the order of the list.
LEMMA FirstIs ==
  ASSUME NEW held \in SUBSET (1..13), held # {}
  PROVE  LET k == CHOOSE i \in held : \A j \in held : i <= j IN k \in held /\ \A j \in held : k <= j
<1>1. \E i \in held : \A j \in held : i <= j
  <2> SUFFICES ASSUME \A i \in held : \E j \in held : j < i
               PROVE  FALSE
    OBVIOUS
  <2>1. 1 \notin held /\ 2 \notin held /\ 3 \notin held /\ 4 \notin held
    OBVIOUS
  <2>2. 5 \notin held /\ 6 \notin held /\ 7 \notin held
    BY <2>1
  <2>3. 8 \notin held /\ 9 \notin held /\ 10 \notin held
    BY <2>1, <2>2
  <2>4. 11 \notin held /\ 12 \notin held /\ 13 \notin held
    BY <2>1, <2>2, <2>3
  <2>5. PICK i \in held : TRUE
    OBVIOUS
  <2>6. i \in Int /\ 1 <= i /\ i <= 13
    OBVIOUS
  <2> QED BY <2>1, <2>2, <2>3, <2>4, <2>5, <2>6
<1> QED BY <1>1

\* What is freed first is no backend that a buffer still needs.
LEMMA FirstFreed ==
  ASSUME Inv, arch \in Archs, NEW held, held = {i \in DOMAIN Destroyed : model[Destroyed[i]] # "null"}, held # {},
         NEW m, m = Destroyed[CHOOSE i \in held : \A j \in held : i <= j]
  PROVE  /\ m \in Members /\ model[m] # "null"
         /\ m = "backend" => \A b \in Buffers : model[b] = "null"
         /\ m = "vision_backend" => model["vision_weight_buf"] = "null"
<1> DEFINE k == CHOOSE i \in held : \A j \in held : i <= j
<1>1. DOMAIN Destroyed \subseteq 1..13
  BY DestroyedIs DEF Archs, Pi05Destroyed, LingBotDestroyed, HyVlaDestroyed, FasterWamDestroyed
<1>2. k \in held /\ \A j \in held : k <= j
  BY <1>1, FirstIs
<1> HIDE DEF k
<1>3. model[m] # "null" /\ m = Destroyed[k]
  BY <1>2 DEF k
<1>4. m \in Known /\ Known \subseteq Members
  BY <1>2, <1>3, KnownAre, MembersAre DEF Known, Archs
<1>5. \A b \in Buffers : model[b] # "null" => b \in Known
  BY MembersAre DEF Inv, Inventory, Buffers
<1>6. CASE arch \in {"pi05", "lingbot"}
  <2>1. Destroyed = <<"galloc", "comp_ctx", "weight_buf", "ctx_weights", "backend", "clip">>
    BY <1>6, DestroyedIs DEF Pi05Destroyed, LingBotDestroyed
  <2>2. m = "backend" => \A i \in {1, 3} : model[Destroyed[i]] = "null"
    BY <1>2, <1>3, <2>1
  <2>3. \A b \in Buffers : b \in Known => b \in {Destroyed[1], Destroyed[3]}
    BY <1>6, <2>1, KnownAre DEF Buffers
  <2>4. "vision_backend" \notin Known
    BY <1>6, KnownAre
  <2> QED BY <1>3, <1>4, <1>5, <2>2, <2>3, <2>4
<1>7. CASE arch = "hy_vla"
  <2>1. Destroyed = <<"vision_weight_buf", "vision_galloc", "routed_galloc", "ctx_vision_weights",
                      "vision_backend", "weight_buf", "ctx_weights", "backend">>
    BY <1>7, DestroyedIs DEF HyVlaDestroyed
  <2>2. /\ m = "backend" => \A i \in {2, 3, 6} : model[Destroyed[i]] = "null"
        /\ m = "vision_backend" => model[Destroyed[1]] = "null"
    BY <1>2, <1>3, <2>1
  <2>3. \A b \in Buffers : b \in Known => b \in {Destroyed[2], Destroyed[3], Destroyed[6]}
    BY <1>7, <2>1, KnownAre DEF Buffers
  <2>4. Destroyed[1] = "vision_weight_buf"
    BY <2>1
  <2> QED BY <1>3, <1>4, <1>5, <2>2, <2>3, <2>4
<1>8. CASE arch = "fasterwam"
  <2>1. Destroyed = <<"const_buf", "ctx_const", "ctx_step", "ctx_vid_prefill", "prefill_galloc", "ctx_proprio",
                      "proprio_galloc", "ctx_textemb", "textemb_galloc", "weight_buf", "galloc", "ctx_weights",
                      "backend">>
    BY <1>8, DestroyedIs DEF FasterWamDestroyed
  <2>2. m = "backend" => \A i \in {1, 5, 7, 9, 10, 11} : model[Destroyed[i]] = "null"
    BY <1>2, <1>3, <2>1
  <2>3. \A b \in Buffers : b \in Known => b \in {Destroyed[i] : i \in {1, 5, 7, 9, 10, 11}}
    BY <1>8, <2>1, KnownAre DEF Buffers
  <2>4. "vision_backend" \notin Known
    BY <1>8, KnownAre
  <2> QED BY <1>3, <1>4, <1>5, <2>2, <2>3, <2>4
<1> QED BY <1>6, <1>7, <1>8 DEF Archs


\* A member is freed, or none is left.
LEMMA DestroyInv == Inv /\ Destroy => Inv'
<1> SUFFICES ASSUME Inv, Destroy PROVE Inv'
  OBVIOUS
<1> DEFINE held == {i \in DOMAIN Destroyed : model[Destroyed[i]] # "null"}
<1>1. pc = "destroy" /\ UNCHANGED <<file, setup, arch, wired, stats, oom>> /\ Known' = Known
  BY KnownStays DEF Destroy
<1>2. arch \in Archs
  BY <1>1 DEF Inv, TypeOK, Detected
<1>3. CASE held = {}
  <2>1. pc' = (IF stats = "none" THEN "null" ELSE "freed") /\ model' = model /\ heap' = heap
    BY <1>3 DEF Destroy
  <2>2. \A m \in Members : model'[m] = "null"
    BY <1>3, <2>1 DEF Inv, Inventory, Known
  <2>3. TypeOK' /\ Owned'
    BY <1>1, <2>1 DEF Inv, TypeOK, Owned, Early
  <2>4. Inventory'
    BY <2>2, MembersAre DEF Inventory, HeldOnly
  <2>5. Attached'
    BY <2>1, <2>2, MembersAre DEF Attached, Buffers,
       WithBackend, WithClip, WithContext, WithTower, WithTowerTensors, WithSidecar, WithWeights, WithCaches
  <2>6. Detected' /\ Excused'
    BY <1>1, <2>1 DEF Inv, Detected, Excused, Required
  <2>7. Filled'
    BY <1>1, <2>1 DEF Inv, Filled, Required,
       WithBackend, WithClip, WithContext, WithTower, WithTowerTensors, WithSidecar, WithWeights, WithCaches
  <2> QED BY <2>3, <2>4, <2>5, <2>6, <2>7 DEF Inv
<1>4. CASE held # {}
  <2> DEFINE m == Destroyed[CHOOSE i \in held : \A j \in held : i <= j]
  <2>1. pc' = pc /\ model' = [model EXCEPT ![m] = "null"] /\ heap' = heap \ {<<m, model[m]>>}
    BY <1>4 DEF Destroy
  <2>2. /\ m \in Members /\ model[m] # "null"
        /\ m = "backend" => \A b \in Buffers : model[b] = "null"
        /\ m = "vision_backend" => model["vision_weight_buf"] = "null"
    BY <1>2, <1>4, FirstFreed
  <2> HIDE DEF m
  <2>3. \A n \in Members : model'[n] = IF n = m THEN "null" ELSE model[n]
    BY <2>1, <2>2 DEF Inv, TypeOK
  <2>4. TypeOK'
    BY <1>1, <2>1, <2>2 DEF Inv, TypeOK, WithBackend, WithClip, WithContext, WithTower, WithTowerTensors,
       WithSidecar, WithWeights, WithCaches
  <2>5. Owned'
    BY <2>1, <2>2, <2>3 DEF Inv, Owned
  <2>6. Inventory'
    BY <1>1, <2>1, <2>3, MembersAre DEF Inv, Inventory, HeldOnly,
       WithBackend, WithClip, WithContext, WithTower, WithTowerTensors, WithSidecar, WithWeights, WithCaches
  <2>7. Attached'
    <3>1. Buffers \subseteq Members /\ "backend" \notin Buffers
      BY MembersAre DEF Buffers
    <3>2. \A b \in Buffers : model'[b] # "null" => model'[b] = model'["backend"]
      <4>1. "backend" \in Members /\ \A b \in Buffers : model[b] # "null" => model[b] = model["backend"]
        BY MembersAre DEF Inv, Attached
      <4>2. CASE m = "backend"
        BY <2>2, <2>3, <3>1, <4>2
      <4>3. CASE m # "backend"
        BY <2>3, <3>1, <4>1, <4>3
      <4> QED BY <4>2, <4>3
    <3> QED BY <1>1, <2>1, <2>2, <2>3, <3>2, MembersAre DEF Inv, Attached
  <2>8. Detected' /\ Excused'
    BY <1>1, <2>1 DEF Inv, Detected, Excused, Required
  <2>9. Filled'
    BY <1>1, <2>1 DEF Inv, Filled, Required,
       WithBackend, WithClip, WithContext, WithTower, WithTowerTensors, WithSidecar, WithWeights, WithCaches
  <2> QED BY <2>4, <2>5, <2>6, <2>7, <2>8, <2>9 DEF Inv
<1> QED BY <1>3, <1>4

-----------------------------------------------------------------------------

\* Nothing is held at first.
LEMMA InitInv == Init => Inv
<1> SUFFICES ASSUME Init PROVE Inv
  OBVIOUS
<1>1. \A m \in Members : model[m] = "null"
  BY DEF Init
<1>2. TypeOK /\ Owned
  BY <1>1 DEF Init, TypeOK, Owned, Early
<1>3. Inventory
  BY <1>1, MembersAre DEF Inventory, HeldOnly
<1>4. Attached
  BY <1>1, MembersAre DEF Init, Attached, Buffers,
     WithBackend, WithClip, WithContext, WithTower, WithTowerTensors, WithSidecar, WithWeights, WithCaches
<1>5. Detected /\ Excused
  BY DEF Init, Detected, Excused
<1>6. Filled
  BY DEF Init, Filled
<1> QED BY <1>2, <1>3, <1>4, <1>5, <1>6 DEF Inv

\* The invariant is about the variables only.
LEMMA StutterInv == Inv /\ UNCHANGED vars => Inv'
<1> SUFFICES ASSUME Inv, UNCHANGED vars PROVE Inv'
  OBVIOUS
<1>1. Known' = Known
  BY KnownStays DEF vars
<1> USE DEF Inv, vars, WithBackend, WithClip, WithContext, WithTower, WithTowerTensors, WithSidecar,
            WithWeights, WithCaches
<1>2. TypeOK' /\ Owned'
  BY DEF TypeOK, Owned
<1>3. Inventory' /\ Attached'
  BY <1>1 DEF Inventory, HeldOnly, Attached
<1>4. Detected' /\ Excused'
  BY DEF Detected, Required, Excused
<1>5. Filled'
  BY DEF Filled, Required
<1> QED BY <1>2, <1>3, <1>4, <1>5

\* The invariant is inductive.
LEMMA NextInv == Inv /\ Next => Inv'
<1> SUFFICES ASSUME Inv, Next PROVE Inv'
  OBVIOUS
<1>1. CASE Detect \/ Dispatch
  BY <1>1, DetectInv, DispatchInv
<1>2. CASE Pi05Create
  BY <1>2, ConfigInv, BackendInv, ClipInv, MmprojInv, ContextInv, WireInv, AllocInv, UploadInv, StatsInv DEF Pi05Create
<1>3. CASE LingBotCreate
  BY <1>3, ConfigInv, BackendInv, ClipInv, MmprojInv, ContextInv, WireInv, AllocInv, UploadInv, StatsInv
  DEF LingBotCreate
<1>4. CASE FasterWamCreate
  BY <1>4, ConfigInv, BackendInv, ContextInv, WireInv, AllocInv, UploadInv, StatsInv DEF FasterWamCreate
<1>5. CASE HyVlaCreate
  BY <1>5, ConfigInv, BackendInv, ContextInv, WireInv, SideVisionInv, NoSideVisionInv, TowerInv, TowerTensorsInv,
     SidecarInv, FallBackInv, HyVlaAllocInv, RetryInv, AllocInv, UploadInv, StatsInv DEF HyVlaCreate
<1>6. CASE Predict \/ ModelFree \/ Destroy
  BY <1>6, PredictInv, ModelFreeInv, DestroyInv
<1> QED BY <1>1, <1>2, <1>3, <1>4, <1>5, <1>6 DEF Next

\* Why the properties below hold: whatever files, machines and builds there are, at
\* every stage of a factory the members that hold something are those that earlier
\* stages acquired, they are on the list of the architecture's destructor, and the
\* buffers among them were made for the backend that is there.
THEOREM LoadInvariance == Spec => []Inv
<1>1. Inv /\ [Next]_vars => Inv'
  BY NextInv, StutterInv
<1> QED BY InitInv, <1>1, PTL DEF Spec

\* Every live resource has one member pointing at it and every pointer is live, in a
\* factory that gives up as in a handle that is freed: nothing leaks, nothing is freed
\* twice, for every checkpoint and machine.
THEOREM NeverOrphaned == Spec => []Owned
<1>1. Inv => Owned
  BY DEF Inv
<1> QED BY LoadInvariance, <1>1, PTL

\* When model_load has returned nullptr, or model_free has run, nothing is left: the
\* destructor of each architecture knows of all that its factory and its requests acquire.
THEOREM NothingIsLeft == Spec => []NothingLeft
<1>1. Inv => NothingLeft
  <2> SUFFICES ASSUME Inv, pc \in {"null", "freed"} PROVE heap = {}
    BY DEF NothingLeft
  <2>1. \A n \in Members : model[n] = "null"
    BY MembersAre DEF Inv, Inventory, HeldOnly,
       WithBackend, WithClip, WithContext, WithTower, WithTowerTensors, WithSidecar, WithWeights, WithCaches
  <2> QED BY <2>1 DEF Inv, Owned
<1> QED BY LoadInvariance, <1>1, PTL

\* No buffer and no allocator outlives the backend it was made for, in the destructors
\* and when HY-VLA replaces a CUDA backend that ran out of memory.
THEOREM BackendsOutlive == Spec => []NoneOutlivesBackend
<1>1. Inv => NoneOutlivesBackend
  <2> SUFFICES ASSUME Inv, NEW r \in heap
               PROVE  /\ r[1] \in Buffers => <<"backend", r[2]>> \in heap
                      /\ r[1] = "vision_weight_buf" => <<"vision_backend", r[2]>> \in heap
    BY DEF NoneOutlivesBackend, Buffers
  <2>1. PICK n \in Members : model[n] # "null" /\ r = <<n, model[n]>>
    BY DEF Inv, Owned
  <2>2. \A m \in Members : model[m] # "null" => <<m, model[m]>> \in heap
    BY DEF Inv, Owned
  <2> QED BY <2>1, <2>2, MembersAre DEF Inv, Attached
<1> QED BY LoadInvariance, <1>1, PTL

\* A handle that is returned is of the architecture that the file declares, and has the
\* tensors that its factory looks for.
THEOREM HandlesSound == Spec => []HandleSound
<1>1. Inv => HandleSound
  <2> SUFFICES ASSUME Inv, pc \in {"loaded", "in use"}
               PROVE  /\ file.own[arch] = arch /\ file.general \in {arch, "absent"} /\ arch \in setup.built
                      /\ arch \in {"pi05", "lingbot"} => Required \subseteq wired
                      /\ arch = "lingbot" => stats = "file"
                      /\ Required \cap {"vision"} \subseteq wired
    BY DEF HandleSound
  <2>1. file.own[arch] = arch /\ file.general \in {arch, "absent"} /\ arch \in setup.built /\ arch \in Archs
    BY DEF Inv, TypeOK, Detected
  <2>2. (arch \in {"pi05", "lingbot"} => Required \subseteq wired) /\ (arch = "lingbot" => stats = "file")
    BY DEF Inv, Filled
  <2>3. "vision" \in Required => arch = "hy_vla" /\ setup.vision
    BY <2>1 DEF Required, Archs
  <2>4. "vision" \in Required => "vision" \in wired
    BY <2>3 DEF Inv, Filled, WithSidecar, WithWeights, WithCaches
  <2> QED BY <2>1, <2>2, <2>4
<1> QED BY LoadInvariance, <1>1, PTL

\* A complete checkpoint is refused only for want of memory or of a matching mmproj.
THEOREM CompleteLoads == Spec => []CompleteIsLoaded
<1>1. Inv => CompleteIsLoaded
  BY DEF Inv, Excused, Filled, CompleteIsLoaded
<1> QED BY LoadInvariance, <1>1, PTL
=============================================================================
