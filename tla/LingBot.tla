------------------------------ MODULE LingBot ------------------------------
(***************************************************************************)
(* LingBot-VLA v2 (lingbot_vla_v2.cpp): prepare_inputs, compute_actions    *)
(* with its cached compute graph, dump_debug, and predict, which runs both *)
(* after stashing the robot's state in last_state_.  A caller may use      *)
(* predict, or prepare and compute by themselves.                          *)
(*                                                                         *)
(* A pointer into the graph is the number of the build it was made by, 0   *)
(* if it is null.  Noise that is drawn and the statistics the state and    *)
(* the actions are normalised by are left out.                             *)
(***************************************************************************)
EXTENDS LingBotPrefix, LingBotKv

CONSTANTS
  Environments, (* what the environment and the backend ask for             *)
  Requests,     (* inputs of predict and prepare                            *)
  MaxJobs       (* prepared inputs that wait                                *)

ASSUME LingBotAssumption ==
  /\ Environments \subseteq [flash : BOOLEAN, fa_f16 : BOOLEAN, dump : BOOLEAN, no_cache : BOOLEAN]
  /\ Requests \subseteq [views : Nat, sized : BOOLEAN, lang : Nat, known : BOOLEAN,
                         state : {<<>>} \cup [1..RealDim -> Int]]
  /\ MaxJobs \in Nat \ {0}

VARIABLES
  env,          (* dump_dir_, lp.use_flash and two environment variables    *)
  stage,        (* of compute_actions                                       *)
  job,          (* the input being computed, with the request it is of      *)
  caller,       (* of compute_actions: predict, or compute                  *)
  jobs,         (* prepared inputs, in order                                *)
  last_state,   (* last_state_                                              *)
  graph,        (* comp_ctx_, galloc_, gf_, the inputs' pointers, c_n_lang_ *)
  taps,         (* dbg_taps_                                                *)
  kept,         (* tensors pinned to the end of the graph                   *)
  kv,           (* the F16 caches, by layer                                 *)
  turn,         (* tells a run from the one before                          *)
  out           (* the last answer                                          *)

vars == <<env, stage, job, caller, jobs, last_state, graph, taps, kept, kv, turn, out>>

NoJob == [lang |-> -1]
Empty == [of |-> NoJob]

\* t_prefix_emb_ and the other inputs, and what is tapped while the graph is built.
GraphInputs == {"prefix_emb", "ds", "prefix_pos", "suffix_pos", "prefix_mask", "suffix_mask", "state", "x0", "time"}
Tapped      == {"hid_in", "k", "v", "pre_final_out", "x_in", "suffix_embs", "hid_in_E", "k_full", "v_full", "velocity"}

Unused == [l \in 1..Layers |-> [prefix |-> 2, suffix |-> <<2, 0>>]]

Pointers == 0..6

\* A number no pointer has.
Fresh == CHOOSE b \in Pointers \ {0} : b \notin {graph.ctx, graph.galloc, graph.gf, graph.inputs} \cup {t.build : t \in taps}

\* prepare_inputs: the vision tower, and the file the embeddings are read from, may fail.
Outcomes(r) == IF r.views = 3 /\ r.sized /\ r.lang >= 1 /\ r.known THEN BOOLEAN ELSE {FALSE}

Prepared == {r \in Requests : TRUE \in Outcomes(r)}

\* The type of all but the caches, which only runs of the graph write.
Typed ==
  /\ env \in Environments
  /\ stage \in {"idle", "graph", "run"}
  /\ job \in Prepared \cup {NoJob} /\ (job = NoJob) = (stage = "idle")
  /\ caller \in {"predict", "compute"}
  /\ jobs \in Seq(Prepared) /\ Len(jobs) <= MaxJobs
  /\ last_state \in {<<>>} \cup {r.state : r \in Requests}
  /\ graph \in [ctx : Pointers, galloc : Pointers, gf : Pointers, inputs : Pointers, n_lang : {-1} \cup {r.lang : r \in Requests}]
  /\ taps \subseteq [name : Tapped, build : Pointers]
  /\ kept \subseteq Tapped \cup GraphInputs
  /\ turn \in {0, 1}
  /\ out = Empty \/ (out.of \in Prepared /\ out.dumped \subseteq Tapped \cup GraphInputs \cup {"final"})

TypeOK == Typed /\ kv \in [1..Layers -> [prefix : 0..2, suffix : (0..2) \X (0..Steps)]]

Init ==
  /\ env \in Environments
  /\ stage = "idle" /\ job = NoJob /\ caller = "predict" /\ jobs = <<>> /\ last_state = <<>>
  /\ graph = [ctx |-> 0, galloc |-> 0, gf |-> 0, inputs |-> 0, n_lang |-> -1]
  /\ taps = {} /\ kept = {} /\ kv = Unused /\ turn = 0 /\ out = Empty

-----------------------------------------------------------------------------
(* predict, prepare *)

\* Mutant: predict does not look at what prepare_inputs returns.
PredictUnprepared(r) ==
  /\ stage = "idle" /\ caller' = "predict"
  /\ last_state' = r.state
  /\ stage' = "graph" /\ job' = r
  /\ UNCHANGED <<env, jobs, graph, taps, kept, kv, turn, out>>

\* Mutant: predict stashes the state once its input is prepared, if it has one.
PredictKeepingState(r) ==
  /\ stage = "idle" /\ caller' = "predict"
  /\ last_state' = IF r.state = <<>> THEN last_state ELSE r.state
  /\ \E ok \in Outcomes(r) :
       /\ stage' = IF ok THEN "graph" ELSE "idle"
       /\ job' = IF ok THEN r ELSE NoJob
       /\ out' = IF ok THEN out ELSE Empty
  /\ UNCHANGED <<env, jobs, graph, taps, kept, kv, turn>>

Predict(r) ==
  /\ stage = "idle" /\ caller' = "predict"
  /\ last_state' = r.state
  /\ \E ok \in Outcomes(r) :
       /\ stage' = IF ok THEN "graph" ELSE "idle"
       /\ job' = IF ok THEN r ELSE NoJob
       /\ out' = IF ok THEN out ELSE Empty
  /\ UNCHANGED <<env, jobs, graph, taps, kept, kv, turn>>

\* The state is not among what prepare copies.
Prepare(r) ==
  /\ Len(jobs) < MaxJobs
  /\ \E ok \in Outcomes(r) : jobs' = IF ok THEN Append(jobs, r) ELSE jobs
  /\ UNCHANGED <<env, stage, job, caller, last_state, graph, taps, kept, kv, turn, out>>

Compute ==
  /\ stage = "idle" /\ jobs # <<>>
  /\ job' = Head(jobs) /\ jobs' = Tail(jobs) /\ caller' = "compute" /\ stage' = "graph"
  /\ UNCHANGED <<env, last_state, graph, taps, kept, kv, turn, out>>

-----------------------------------------------------------------------------
(* compute_actions *)

\* Mutant: the length of the instruction is not compared.
NeedRebuildForNothing(j) == env.no_cache \/ graph.gf = 0

NeedRebuild(j) == env.no_cache \/ graph.gf = 0 \/ graph.n_lang # j.lang

F16 == env.flash /\ env.fa_f16 /\ ~env.dump

KeepGraph ==
  /\ stage = "graph" /\ ~NeedRebuild(job)
  /\ stage' = "run"
  /\ UNCHANGED <<env, job, caller, jobs, last_state, graph, taps, kept, kv, turn, out>>

\* Mutant: the taps of the graph that was freed stay in the list.
NewTapsToo(b) == taps \cup (IF env.dump THEN {[name |-> n, build |-> b] : n \in Tapped} ELSE {})

NewTaps(b) == IF env.dump THEN {[name |-> n, build |-> b] : n \in Tapped} ELSE {}

\* Mutant: the time embeddings are not pinned.
PinnedButTime(t) == IF t = {} THEN {} ELSE {x.name : x \in t} \cup (GraphInputs \ {"time"})

\* The keep-alive views.
Pinned(t) == IF t = {} THEN {} ELSE {x.name : x \in t} \cup GraphInputs

BuildGraph ==
  /\ stage = "graph" /\ NeedRebuild(job)
  /\ LET b == Fresh IN
     /\ graph' = [ctx |-> b, galloc |-> b, gf |-> b, inputs |-> b, n_lang |-> job.lang]
     /\ taps' = NewTaps(b)
  /\ kept' = Pinned(taps') /\ kv' = Unused
  /\ stage' = "run"
  /\ UNCHANGED <<env, job, caller, jobs, last_state, turn, out>>

\* Mutant: after a failed allocation the graph is not reset.
AfterFailureKeepingGraph(what, b) ==
  IF what = "init" THEN [graph EXCEPT !.ctx = 0, !.galloc = 0, !.gf = 0, !.inputs = 0]
  ELSE [graph EXCEPT !.ctx = 0, !.galloc = 0, !.gf = b, !.inputs = b]

\* The context cannot be made; or the graph cannot be allocated, and the inputs and
\* taps point into a context that is freed.
AfterFailure(what, b) ==
  IF what = "init" THEN [graph EXCEPT !.ctx = 0, !.galloc = 0, !.gf = 0, !.inputs = 0]
  ELSE [graph EXCEPT !.ctx = 0, !.galloc = 0, !.gf = 0, !.inputs = b]

BuildFails ==
  /\ stage = "graph" /\ NeedRebuild(job)
  /\ \E what \in {"init", "alloc"} : LET b == Fresh IN
       /\ graph' = AfterFailure(what, b)
       /\ taps' = IF what = "init" THEN {} ELSE NewTaps(b)
  /\ kept' = {} /\ kv' = Unused
  /\ stage' = "idle" /\ job' = NoJob /\ out' = Empty
  /\ UNCHANGED <<env, caller, jobs, last_state, turn>>

\* dump_debug re-reads taps, inputs and result, unless it cannot make its directory.
Dumped == IF env.dump /\ taps # {} THEN {{}, {t.name : t \in taps} \cup GraphInputs \cup {"final"}} ELSE {{}}

Run ==
  /\ stage = "run"
  /\ LET ran == RunGraph(F16, kv, turn)
         st  == Canonical(last_state)
     IN \E files \in Dumped :
        /\ kv' = ran.kv
        /\ out' = [of |-> job, by |-> caller, id |-> turn, state |-> st, raw |-> Raw(st), reads |-> ran.reads, dumped |-> files]
  /\ turn' = 1 - turn
  /\ stage' = "idle" /\ job' = NoJob
  /\ UNCHANGED <<env, caller, jobs, last_state, graph, taps, kept>>

\* The backend may have failed after any node.
RunFails ==
  /\ stage = "run"
  /\ kv' \in {kv, RunGraph(F16, kv, turn).kv}
  /\ turn' = 1 - turn
  /\ stage' = "idle" /\ job' = NoJob /\ out' = Empty
  /\ UNCHANGED <<env, caller, jobs, last_state, graph, taps, kept>>

Next ==
  \/ \E r \in Requests : Predict(r) \/ Prepare(r)
  \/ Compute \/ KeepGraph \/ BuildGraph \/ BuildFails \/ Run \/ RunFails

Spec == Init /\ [][Next]_vars

-----------------------------------------------------------------------------
(* Properties. *)

\* Whatever failed before, a graph that is run, with the tensors filled before it and
\* the taps read after it, is one that is alive, nothing of a freed context is used,
\* and it has the length of the instruction it is run for.
RunsLiveGraph ==
  stage = "run" =>
    /\ graph.ctx # 0 /\ {graph.galloc, graph.gf, graph.inputs} = {graph.ctx}
    /\ {t.build : t \in taps} \subseteq {graph.ctx}
    /\ graph.n_lang = job.lang

\* Every attention of every step reads the prefix of its own request and the suffix of
\* its own step, whichever of the two caches the graph was built with.
ReadsOwnKv ==
  out # Empty => \A a \in out.reads : a.prefix = out.id /\ a.suffix = <<out.id, a.step>>

\* What dump_debug writes has survived to the end of the graph.
DumpIsIntact == out # Empty => out.dumped \subseteq kept \cup {"final"}

\* An answer is to the state of its own request: in the robot's order it is the state
\* that was sent, zeros if none was, with nothing in places the robot does not use.
ToOwnState ==
  /\ out.raw = IF out.of.state = <<>> THEN [j \in 1..RealDim |-> 0] ELSE out.of.state
  /\ \A c \in DOMAIN out.state : out.state[c] # 0 => \E j \in 1..RealDim : CanonicalPlace[j] = c

\* It is for predict, whatever was prepared or computed or failed before.
OwnState == out # Empty /\ out.by = "predict" => ToOwnState

\* model.h, of prepare and compute: "Together they reproduce predict bit-for-bit".
BitForBit == out # Empty => ToOwnState

\* The lengths of an instruction for which what is uploaded is sound.
SoundLengths ==
  {n \in {r.lang : r \in Requests} \ {0} : RowsFilled(n) /\ PositionsAdvance(n) /\ AttentionSound(n)}

\* Every row of the prefix is filled, once, with what belongs there (RowsFilled); no row
\* shares its rotary position with another, and what comes later is further on
\* (PositionsAdvance); the prefix does not see the actions, so its keys can be computed
\* once (AttentionSound).
PrefixSound == stage = "run" => job.lang \in SoundLengths

-----------------------------------------------------------------------------
(* Why: the invariant from which those that are not about the caches follow. *)

\* A graph that is not null is whole, with the taps and pins of its build; whatever is
\* left of a failed build, its taps are of that build only.
GraphWhole ==
  /\ graph.gf # 0 => /\ graph.ctx = graph.gf /\ graph.galloc = graph.gf /\ graph.inputs = graph.gf
                     /\ taps = NewTaps(graph.gf) /\ kept = Pinned(taps)
  /\ \A t, u \in taps : t.build = u.build
  /\ stage = "run" => graph.gf # 0 /\ graph.n_lang = job.lang

\* An answer's graph is still there, or another with the same taps.
Answered ==
  out # Empty => graph.gf # 0 /\ out.dumped \subseteq (IF env.dump THEN Tapped \cup GraphInputs \cup {"final"} ELSE {})

\* predict computes with the state it stashed.
Stashed == stage # "idle" /\ caller = "predict" => last_state = job.state

Inv == Typed /\ GraphWhole /\ Answered /\ Stashed

\* The raw map names no place twice: no two numbers of the robot's state share a place.
MapInjective == \A i, j \in 1..RealDim : CanonicalPlace[i] = CanonicalPlace[j] => i = j
=============================================================================
