------------------------------- MODULE HyVla -------------------------------
(***************************************************************************)
(* HyVLAModel::predict.  A call builds its graphs anew; from one call to   *)
(* the next live only the two graph allocators that the environment may    *)
(* ask to keep, one for the vision tower and one for the actions.          *)
(*                                                                         *)
(* A call goes through a graph once, or once more for every camera.  A     *)
(* graph is what predict does with it: the inputs it has, the inputs that  *)
(* predict fills without asking whether they were allocated, the images it *)
(* prepares, and the allocator it is given to.                             *)
(***************************************************************************)
EXTENDS HyPrefix, HyVision, TLC

CONSTANTS
  Environments,   (* what the process finds in its environment and checkpoint *)
  Requests,       (* Inputs                                                  *)
  Actions,        (* cfg.n_suffix                                            *)
  PerImage,       (* visual tokens of an image the tower encodes             *)
  MaxJobs         (* calls of predict                                        *)

ASSUME HyAssumption ==
  /\ \A e \in Environments : e.history \in Nat \ {0} /\ e.per_image \in Nat \ {0}
  /\ \A r \in Requests : /\ r.images \in Seq(BOOLEAN) /\ r.visual \in Nat
                         /\ r.mask \in Seq({0, 1}) /\ r.lang \in Nat
  /\ Actions \in Nat \ {0} /\ PerImage \in Nat \ {0} /\ MaxJobs \in Nat

VARIABLES
  env,      (* as Environments, never changed                               *)
  pc,       (* where in predict                                             *)
  left,     (* calls to come                                                *)
  job,      (* the request being answered                                   *)
  encoded,  (* images of the cameras in built_visual_tokens                 *)
  prefix,   (* rows of built_prefix                                         *)
  graph,    (* the graph being built and computed                           *)
  live,     (* what is on the heap: a context, an allocator                 *)
  kept,     (* vision_galloc and routed_galloc                              *)
  answer    (* how the last call was answered, "none" for an empty vector   *)

vars == <<env, pc, left, job, encoded, prefix, graph, live, kept, answer>>

NoJob      == [images |-> <<>>, visual |-> 0, mask |-> <<>>, lang |-> 0]
NoGraph    == [kind |-> "none", uses |-> {}, fills |-> {}, images |-> <<>>, shape |-> <<>>, keep |-> "none"]
NoAlloc    == [shape |-> <<>>, buffer |-> FALSE]

Init ==
  /\ env \in Environments
  /\ pc = "idle" /\ left = MaxJobs
  /\ job = NoJob /\ encoded = <<>> /\ prefix = <<>> /\ graph = NoGraph
  /\ live = {} /\ kept = [vision |-> NoAlloc, routed |-> NoAlloc] /\ answer = "none"

-----------------------------------------------------------------------------
(* The graphs *)

One(names) == {<<name, 1>> : name \in names}
Times      == {<<"time", i>> : i \in 1..env.steps}

\* Debug graphs of the vision tower: one image, one block after the other.
VisionDebug ==
  [NoGraph EXCEPT !.kind = env.debug, !.uses = One({"pixels"}), !.fills = One({"pixels"}), !.images = <<1>>]

\* prefix: the instruction alone.
TextDebug ==
  [NoGraph EXCEPT !.kind = "prefix",
     !.uses  = One({"text"}) \cup IF env.text_layers > 0 THEN One({"pref_pos", "pref_mask"}) ELSE {},
     !.fills = One({"text", "pref_pos", "pref_mask"})]

\* mixed_prefix: the instruction and tokens as two segments.
MixedDebug ==
  [NoGraph EXCEPT !.kind = "mixed_prefix",
     !.uses = One({"text", "vision", "pref_pos", "pref_mask"}), !.fills = One({"text", "vision", "pref_pos", "pref_mask"})]

\* mixed_joint, routed_prefix, routed_joint and joint fill what has been allocated.
GuardedDebug ==
  [NoGraph EXCEPT !.kind = env.debug]

\* One camera: its frames, and the time of each if there are memory layers.
UsesMemory(frames) == frames > 1 /\ env.vision_layers >= 4

\* Mutant: a camera starts one image late.
VisionGroupLate(frames, first) ==
  LET inputs == {<<"pixels", f>> : f \in 1..frames} \cup IF UsesMemory(frames) THEN One({"time_pe", "time_mask"}) ELSE {}
  IN [kind   |-> "group",
      uses   |-> inputs,
      fills  |-> inputs,
      images |-> [f \in 1..frames |-> first + f],
      shape  |-> <<frames>>,
      keep   |-> IF env.keep_vision /\ ~env.sideload THEN "vision" ELSE "none"]

\* Mutant: the time of the frames is filled in without memory layers, too.
VisionGroupTimed(frames, first) ==
  LET inputs == {<<"pixels", f>> : f \in 1..frames} \cup IF UsesMemory(frames) THEN One({"time_pe", "time_mask"}) ELSE {}
  IN [kind   |-> "group",
      uses   |-> inputs,
      fills  |-> inputs \cup IF frames > 1 THEN One({"time_pe", "time_mask"}) ELSE {},
      images |-> [f \in 1..frames |-> first + f - 1],
      shape  |-> <<frames>>,
      keep   |-> IF env.keep_vision /\ ~env.sideload THEN "vision" ELSE "none"]

VisionGroup(frames, first) ==
  LET inputs == {<<"pixels", f>> : f \in 1..frames} \cup IF UsesMemory(frames) THEN One({"time_pe", "time_mask"}) ELSE {}
  IN [kind   |-> "group",
      uses   |-> inputs,
      fills  |-> inputs,
      images |-> [f \in 1..frames |-> first + f - 1],
      shape  |-> <<frames>>,
      keep   |-> IF env.keep_vision /\ ~env.sideload THEN "vision" ELSE "none"]

\* Prefix and actions in one graph that fills what has been allocated.
Routed(mask) ==
  [NoGraph EXCEPT !.kind = "routed",
     !.shape = [k \in DOMAIN Runs(mask) |-> Runs(mask)[k].len],
     !.keep  = IF env.keep_routed /\ env.cuda THEN "routed" ELSE "none"]

\* State and actions without a prefix.
SuffixOnly ==
  [NoGraph EXCEPT !.kind = "suffix",
     !.uses  = CASE env.debug = "suffix"           -> One({"state", "x0", "time"})
                 [] env.debug \in {"block", "vt"}  -> One({"state", "x0", "pos", "mask", "time"})
                 [] OTHER                          -> One({"state", "x0", "pos", "mask"}) \cup Times,
     !.fills = One({"state", "x0"}) \cup Times \cup IF env.debug = "suffix" THEN {} ELSE One({"pos", "mask"})]

-----------------------------------------------------------------------------
(* Leaving a call *)

Stays == UNCHANGED <<env, left, job>>

\* What every way out frees: the context, and the allocator unless it is kept.
Released == {"context"} \cup IF graph.keep = "none" THEN {"allocator"} ELSE {}

\* Mutant: a way out that forgets the allocator.
LeaveForgetting(result) ==
  /\ pc' = "idle" /\ answer' = result
  /\ live' = live \ {"context"} /\ graph' = NoGraph
  /\ Stays /\ UNCHANGED <<encoded, prefix>>

Leave(result) ==
  /\ pc' = "idle" /\ answer' = result
  /\ live' = live \ Released /\ graph' = NoGraph
  /\ Stays /\ UNCHANGED <<encoded, prefix>>

Refuse == Leave("none") /\ UNCHANGED kept

Build(g) == pc' = "context" /\ graph' = g /\ Stays /\ UNCHANGED <<encoded, prefix, live, kept, answer>>

-----------------------------------------------------------------------------
Predict(r) ==
  /\ pc = "idle" /\ left > 0
  /\ left' = left - 1 /\ job' = r /\ pc' = "start"
  /\ encoded' = <<>> /\ prefix' = <<>> /\ answer' = "none"
  /\ UNCHANGED <<env, graph, live, kept>>

VisionDebugs == {"vision_pixels", "vision_patch", "vision_vit", "vision_merger"}
JointDebugs  == {"mixed_prefix", "mixed_joint", "joint", "routed_prefix", "routed_joint"}

\* lang: rows of the checkpoint, without a graph.
DebugLang ==
  /\ pc = "start" /\ env.debug = "lang"
  /\ \/ Refuse
     \/ job.lang >= 1 /\ Leave("debug") /\ UNCHANGED kept

\* vision_pixels, vision_patch, vision_vit, vision_merger
DebugVision ==
  /\ pc = "start" /\ env.debug \in VisionDebugs
  /\ IF ~env.vision \/ job.images = <<>> THEN Refuse
     ELSE \/ /\ env.debug = "vision_pixels"
             /\ Leave(IF job.images[1] THEN "debug" ELSE "none") /\ UNCHANGED kept
          \/ /\ env.debug # "vision_pixels"
             /\ IF env.debug = "vision_vit" /\ env.vision_layers < 1 THEN Refuse ELSE Build(VisionDebug)

\* The rows of the instruction may not be found in the checkpoint.
DebugPrefix ==
  /\ pc = "start" /\ env.debug = "prefix"
  /\ \/ Refuse
     \/ job.lang >= 1 /\ Build(TextDebug)

DebugJoint ==
  /\ pc = "start" /\ env.debug \in JointDebugs
  /\ LET layers == env.text_layers >= 1 /\ (env.debug = "joint" \/ env.prefix_vision)
         visual == env.debug = "joint" \/ job.visual >= 1
         text   == IF env.debug \in {"routed_prefix", "routed_joint"}
                   THEN Len(job.mask) = job.visual ELSE job.lang >= 1
     IN \/ Refuse
        \/ layers /\ visual /\ text /\ Build(IF env.debug = "mixed_prefix" THEN MixedDebug ELSE GuardedDebug)

Cameras == env.debug = "" /\ job.visual = 0 /\ job.images # <<>>
VisualTokens == env.debug = "" /\ job.visual > 0 /\ job.mask = <<>>

\* Mutant: a history that does not divide the images is kept.
HistoryUnchecked == IF env.history > 1 /\ Len(job.images) < env.history THEN 1 ELSE env.history

\* hy_vla_video_history_from_env
History ==
  LET n == Len(job.images)
  IN IF env.history > 1 /\ (n < env.history \/ n % env.history # 0) THEN 1 ELSE env.history

Groups == Len(job.images) \div History

\* Neither images nor tokens to build a prefix of: it is as the client sent it.
TakeAsSent ==
  /\ pc = "start" /\ env.debug \notin VisionDebugs \cup JointDebugs \cup {"lang", "prefix"}
  /\ ~Cameras /\ ~VisualTokens
  /\ pc' = "select"
  /\ Stays /\ UNCHANGED <<encoded, prefix, graph, live, kept, answer>>

\* run_hy_vision_frontend_224, one camera after the other.
NextCamera ==
  /\ pc = "start" /\ Cameras /\ Len(encoded) < Groups
  /\ IF env.vision THEN Build(VisionGroup(History, Len(encoded) * History + 1)) ELSE Refuse

\* The tokens of all cameras, or those of the client, become a prefix; the checkpoint's
\* rows for the text may not be found.
BuildPrefix ==
  LET visual   == IF Cameras THEN PerImage * Groups ELSE job.visual
      perImage == IF Cameras THEN PerImage ELSE env.per_image
  IN /\ pc = "start" /\ (VisualTokens \/ (Cameras /\ Len(encoded) = Groups))
     /\ \/ Refuse
        \/ /\ Buildable(visual, perImage, job.lang)
           /\ prefix' = PrefixRows(visual, perImage, job.lang)
           /\ pc' = "select"
           /\ Stays /\ UNCHANGED <<encoded, graph, live, kept, answer>>

\* A prefix with a mask of its length is routed; all else is answered without one.
Select ==
  LET mask   == IF prefix # <<>> THEN Modality(prefix) ELSE job.mask
      n      == IF prefix # <<>> THEN Len(prefix) ELSE job.visual
      routed == env.debug = "" /\ n > 0 /\ Len(mask) = n
  IN /\ pc = "select"
     /\ IF ~routed THEN Build(SuffixOnly)
        ELSE IF env.text_layers < 1 \/ ~env.prefix_vision THEN Refuse
        ELSE Build(Routed(mask))

-----------------------------------------------------------------------------
(* Through a graph *)

NewContext ==
  /\ pc = "context"
  /\ \/ Refuse
     \/ /\ pc' = "alloc" /\ live' = live \cup {"context"}
        /\ Stays /\ UNCHANGED <<encoded, prefix, graph, kept, answer>>

Given     == IF graph.keep = "none" THEN NoAlloc ELSE kept[graph.keep]
Keeps(a)  == kept' = IF graph.keep = "none" THEN kept ELSE [kept EXCEPT ![graph.keep] = a]

\* ggml_gallocr_needs_realloc: a graph of the same nodes, none of them larger, is placed as before.
Fits(a, shape) == a.shape # <<>> /\ Len(a.shape) = Len(shape) /\ \A k \in DOMAIN shape : shape[k] <= a.shape[k]

Allocated ==
  /\ pc' = "fill" /\ live' = live \cup IF graph.keep = "none" THEN {"allocator"} ELSE {}
  /\ Stays /\ UNCHANGED <<encoded, prefix, graph, answer>>

Stop ==
  /\ pc' = "stopped"
  /\ Stays /\ UNCHANGED <<encoded, prefix, graph, live, kept, answer>>

\* ggml_gallocr_alloc_graph: a reservation notes the graph before it gets a buffer for it,
\* and may fail to get one (it needs none if an older one is large enough, which is not told apart).
AllocGraph ==
  /\ pc = "alloc"
  /\ IF Fits(Given, graph.shape)
     THEN \/ Given.buffer /\ Allocated /\ UNCHANGED kept
          \/ ~Given.buffer /\ Stop
     ELSE \/ Allocated /\ Keeps([shape |-> graph.shape, buffer |-> TRUE])
          \/ Leave("none") /\ Keeps([shape |-> graph.shape, buffer |-> FALSE])

\* ggml_backend_tensor_set stops the process at a tensor without a buffer.
FillInputs ==
  /\ pc = "fill"
  /\ IF \E k \in DOMAIN graph.images : ~job.images[graph.images[k]] THEN Refuse
     ELSE IF ~(graph.fills \subseteq graph.uses) THEN Stop
     ELSE /\ pc' = "compute"
          /\ Stays /\ UNCHANGED <<encoded, prefix, graph, live, kept, answer>>

ComputeGraph ==
  /\ pc = "compute"
  /\ \/ Refuse
     \/ /\ graph.kind = "group"
        /\ encoded' = Append(encoded, graph.images)
        /\ pc' = "start" /\ live' = live \ Released /\ graph' = NoGraph
        /\ Stays /\ UNCHANGED <<prefix, kept, answer>>
     \/ /\ graph.kind # "group"
        /\ Leave(IF graph.kind \in {"routed", "suffix"} THEN graph.kind ELSE "debug")
        /\ UNCHANGED kept

Next ==
  \/ \E r \in Requests : Predict(r)
  \/ DebugLang \/ DebugVision \/ DebugPrefix \/ DebugJoint
  \/ TakeAsSent \/ NextCamera \/ BuildPrefix \/ Select
  \/ NewContext \/ AllocGraph \/ FillInputs \/ ComputeGraph

Spec == Init /\ [][Next]_vars

-----------------------------------------------------------------------------
Typed ==
  LET positions == 1..Len(job.images)
  IN /\ env \in Environments /\ job \in Requests \cup {NoJob} /\ left \in 0..MaxJobs
     /\ pc \in {"idle", "start", "select", "context", "alloc", "fill", "compute", "stopped"}
     /\ encoded \in Seq(Seq(positions)) /\ graph.images \in Seq(positions)
     /\ prefix \in Seq([of : Rows, image : Int, token : -1..PerImage * Len(job.images) + job.visual - 1])
     /\ graph.keep \in {"none", "vision", "routed"}
     /\ live \subseteq {"context", "allocator"}
     /\ DOMAIN kept = {"vision", "routed"} /\ \A a \in Range(kept) : a.buffer \in BOOLEAN
     /\ answer \in {"none", "debug", "routed", "suffix"}

\* The variables have their types; no image is read that the request does not have.
TypeOK == Typed /\ \A a \in Range(kept) : a.shape \in Seq(Nat)

\* Whatever failed on the way, a call that has returned left nothing on the heap but the
\* allocators it was asked to keep (the frees before each return of predict and of
\* run_hy_vision_frontend_group_224).
NothingLeft ==
  /\ pc = "idle" => live = {}
  /\ ~env.keep_vision \/ env.sideload => kept.vision = NoAlloc
  /\ ~env.keep_routed \/ ~env.cuda => kept.routed = NoAlloc

\* Groups are found by counting text rows in the mask, and still are the images; routing by
\* runs, and replacing attention by segments, leaves every row in its place, also for a
\* mask that the client made; and the state is not influenced by the actions (make_prefix_runs,
\* make_visual_patch_groups, make_visual_override_segments, make_prefix_mask, full_mask).
PrefixSound ==
  /\ pc = "start" => InPlace(job.mask)
  /\ pc = "select" /\ prefix # <<>> =>
       InPlace(Modality(prefix)) /\ ImagesApart(prefix) /\ StateAlone(Len(prefix), Actions)

\* A request without images and visual tokens, or with a mask that is of no use.
Imageless ==
  \/ job.visual = 0 /\ job.images = <<>>
  \/ job.visual > 0 /\ Len(job.mask) \notin {0, job.visual}

\* A request with images or visual tokens is not answered as if it had none, unless its mask
\* has a length of its own; and what is answered saw every image once, each camera with
\* its frames in order, and every token at the place of its own camera (the routing in
\* predict, run_hy_vision_frontend_224, build_hy_vla_prefix_from_visual_tokens).
SeesItsImages ==
  pc = "idle" /\ env.debug = "" =>
    /\ answer = "suffix" => Imageless
    /\ answer = "routed" /\ job.visual = 0 =>
         /\ LET frames == Len(job.images) \div Len(encoded)
            IN /\ Len(encoded) * frames = Len(job.images)
               /\ \A k \in DOMAIN encoded : encoded[k] = [f \in 1..frames |-> (k - 1) * frames + f]
         /\ {<<row.image, row.token>> : row \in {r \in Range(prefix) : r.of = "patch"}}
              = {<<t \div PerImage, t>> : t \in 0..PerImage * Len(encoded) - 1}

\* predict stops the process in two ways only: in a debug mode that fills inputs its graph
\* does not use, or at an allocator that was kept although it has no buffer since an
\* earlier call failed (the tensor_set calls without a check, persist_vision_galloc and
\* persist_routed_galloc).
StopsOnlyWhenKept ==
  pc = "stopped" => \/ env.debug \in {"prefix", "suffix", "block", "vt"}
                    \/ graph.keep # "none" /\ ~kept[graph.keep].buffer

\* The attention over time of the memory layers mixes every head of every patch with the
\* same head and patch in its own and earlier frames only (the comment at the vectorized
\* way of build_hy_vision_block_mem says that it preserves this).
CausalMemory ==
  graph.kind = "group" /\ UsesMemory(Len(graph.images)) => CausalInTime(env.batched, Len(graph.images))

-----------------------------------------------------------------------------
(* Why: what holds between the steps of a call, from which the above follows. *)

\* The heap holds what the graph needs at its stage; only a graph with an allocator to
\* keep keeps one, as the environment asks for it.
Heap ==
  /\ pc \in {"idle", "start", "select"} => graph = NoGraph
  /\ pc \in {"idle", "start", "select", "context"} => live = {}
  /\ pc = "alloc" => live = {"context"}
  /\ pc \in {"fill", "compute"} => live = Released
  /\ graph.keep = "vision" => env.keep_vision /\ ~env.sideload
  /\ graph.keep = "routed" => env.keep_routed /\ env.cuda

\* Only some debug graphs have inputs filled that they do not use.
Filled == graph.fills \subseteq graph.uses \/ env.debug \in {"prefix", "suffix", "block", "vt"}

\* The images of camera k.
FramesOf(k) == [f \in 1..History |-> (k - 1) * History + f]

\* Cameras are encoded in order, up to the one whose graph is computed.
InOrder ==
  /\ \A k \in DOMAIN encoded : encoded[k] = FramesOf(k)
  /\ graph.kind = "group" =>
       /\ pc \in {"context", "alloc", "fill", "compute", "stopped"}
       /\ Cameras /\ Len(encoded) < Groups /\ graph.images = FramesOf(Len(encoded) + 1)

\* The tokens of all cameras are a prefix.
AllCameras ==
  /\ Cameras /\ Len(encoded) = Groups
  /\ Buildable(PerImage * Groups, PerImage, job.lang)
  /\ prefix = PrefixRows(PerImage * Groups, PerImage, job.lang)

\* What is routed without tokens of the client has all cameras; what is answered by the
\* actions alone has nothing to see.
Chosen ==
  /\ prefix # <<>> => VisualTokens \/ AllCameras
  /\ pc = "select" /\ prefix = <<>> => ~Cameras /\ ~VisualTokens
  /\ pc # "idle" => answer = "none"
  /\ env.debug = "" /\ pc \in {"context", "alloc", "fill", "compute"} =>
       /\ graph.kind \in {"group", "routed", "suffix"}
       /\ graph.kind = "routed" /\ job.visual = 0 => AllCameras
       /\ graph.kind = "suffix" => Imageless

\* A prefix is that of the client's tokens or of all cameras.
Built ==
  prefix # <<>> =>
    \/ /\ Buildable(job.visual, env.per_image, job.lang)
       /\ prefix = PrefixRows(job.visual, env.per_image, job.lang)
    \/ AllCameras

\* Sizes of graphs are numbers.
Shaped == graph.shape \in Seq(Nat) /\ \A name \in {"vision", "routed"} : kept[name].shape \in Seq(Nat)

Inv == Typed /\ NothingLeft /\ Heap /\ Filled /\ StopsOnlyWhenKept /\ InOrder /\ Chosen /\ SeesItsImages
=============================================================================
