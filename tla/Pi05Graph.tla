----------------------------- MODULE Pi05Graph -----------------------------
(***************************************************************************)
(* Pi05Model (models/pi05/pi05.cpp) under the two threads of the server:   *)
(* prepare_inputs for one request while compute_actions runs on another.   *)
(* They share the compute graph, cached from one call to the next under a  *)
(* key, the noise generator, and what prepare_inputs hands over.           *)
(*                                                                         *)
(* predict is the case of one request in flight.  A graph is represented   *)
(* by the token counts it was built for; the suffix length and the RTC     *)
(* mode, the other two parts of its key, never change in a process.  The   *)
(* debugging switch VLA_PI05_NO_CACHE and the timings are left out.        *)
(***************************************************************************)
EXTENDS Pi05Rtc, Sequences

CONSTANT
  Faults        (* what may fail                                            *)

ASSUME GraphAssumption == Faults \subseteq {"init", "alloc", "run"}

VARIABLES
  jobs,   (* the server's jobs: requests and what was prepared for them,    *)
          (* the first of them being computed unless pc is "idle"           *)
  pc,     (* the step of compute_actions: "idle", "graph", "run"            *)
  graph,  (* gf_'s token counts, as a set: empty if null                    *)
  key,    (* c_n_img_tokens_, c_n_lang_, c_rtc_horizon_                     *)
  rng,    (* the state of the noise generator                               *)
  out     (* the actions computed last, as a set: empty on failure          *)

graphVars == <<graph, key>>
vars == <<jobs, pc, graphVars, rng, out>>

Shape(p) == [img |-> p.img, lang |-> p.lang]
Shapes   == {Shape(r) : r \in Requests}

\* PreparedInput, which owns copies of all it takes from the request.
PrepareInputs(r) ==
  [img |-> r.img, lang |-> r.lang, noise |-> r.noise, nPrev |-> NPrevChunk(r.prev)]

Jobs    == {[call |-> r, input |-> PrepareInputs(r)] : r \in Requests}
Results == [call : Requests, noise : -1..Period-1, inpainted : SUBSET Rows,
            known : SUBSET Rows, steered : SUBSET Rows, pinned : SUBSET Rows]

TypeOK ==
  /\ jobs \in Seq(Jobs) /\ Len(jobs) <= MaxInFlight
  /\ pc \in {"idle", "graph", "run"} /\ (pc # "idle" => jobs # <<>>)
  /\ graph \subseteq Shapes
  /\ key \in {[img |-> -1, lang |-> -1, horizon |-> 0]}
             \cup [img : {s.img : s \in Shapes}, lang : {s.lang : s \in Shapes}, horizon : Nat]
  /\ rng \in 0..Period-1
  /\ out \subseteq Results

Init ==
  /\ jobs = <<>> /\ pc = "idle"
  /\ graph = {} /\ key = [img |-> -1, lang |-> -1, horizon |-> 0]
  /\ rng = 0 /\ out = {}

-----------------------------------------------------------------------------
(* prepare_inputs.  A request it or parse_request turns down leaves nothing.*)

Prepare(r) ==
  /\ Len(jobs) < MaxInFlight
  /\ Parsed(r.prev)
  /\ jobs' = Append(jobs, [call |-> r, input |-> PrepareInputs(r)])
  /\ UNCHANGED <<pc, graphVars, rng, out>>

-----------------------------------------------------------------------------
(* compute_actions                                                         *)

Start ==
  /\ pc = "idle" /\ pc' = "graph"
  /\ jobs # <<>>
  /\ UNCHANGED <<jobs, graphVars, rng, out>>

Current == Head(jobs).input

\* Mutant: the horizon is never recorded.
KeyWithoutHorizon(p) == [img |-> p.img, lang |-> p.lang, horizon |-> 0]

\* The key of a graph just built.
KeyOf(p) == [img |-> p.img, lang |-> p.lang, horizon |-> IF Rtc THEN Horizon ELSE 0]

\* Mutant: a graph is good for instructions of any length.
NeedRebuildForImages(p) == graph = {} \/ key.img # p.img \/ key.horizon # Horizon

\* The horizon is compared with the configured one whether RTC is enabled or not.
NeedRebuild(p) ==
  graph = {} \/ key.img # p.img \/ key.lang # p.lang \/ key.horizon # Horizon

\* The call is over.
Return(result) ==
  /\ pc' = "idle"
  /\ jobs' = Tail(jobs)
  /\ out' = result

KeepGraph ==
  /\ pc = "graph" /\ pc' = "run"
  /\ ~NeedRebuild(Current)
  /\ UNCHANGED <<jobs, graphVars, rng, out>>

\* Frees the old graph, its context and its memory first.
BuildGraph ==
  /\ pc = "graph" /\ pc' = "run"
  /\ NeedRebuild(Current)
  /\ graph' = {Shape(Current)}
  /\ key' = KeyOf(Current)
  /\ UNCHANGED <<jobs, rng, out>>

\* ggml_init or the graph's memory fails: no graph is left, whatever the key says.
BuildFails ==
  /\ pc = "graph"
  /\ {"init", "alloc"} \cap Faults # {}
  /\ NeedRebuild(Current)
  /\ graph' = {}
  /\ Return({})
  /\ UNCHANGED <<key, rng>>

\* The generator's state after a call.
Drawn(p) == IF p.noise THEN rng ELSE (rng + 1) % Period

\* Mutant: of the inputs of the last request prepared.
ComputeNewest(job) ==
  LET n == jobs[Len(jobs)].input.nPrev IN
  {[call      |-> job.call,
    noise     |-> IF job.input.noise THEN -1 ELSE rng,
    inpainted |-> Inpainted(n),
    known     |-> {i \in Known(n) : Rtc},
    steered   |-> {i \in Rows : Rtc /\ Schedule(n)[i] > 0},
    pinned    |-> {i \in Rows : Rtc /\ Schedule(n)[i] = Unit(n)}] :
      s \in graph \cap {Shape(job.input)}}

\* What the graph makes of the inputs uploaded, if it has their shape.
Compute(job) ==
  LET n == job.input.nPrev IN
  {[call      |-> job.call,
    noise     |-> IF job.input.noise THEN -1 ELSE rng,
    inpainted |-> Inpainted(n),
    known     |-> {i \in Known(n) : Rtc},
    steered   |-> {i \in Rows : Rtc /\ Schedule(n)[i] > 0},
    pinned    |-> {i \in Rows : Rtc /\ Schedule(n)[i] = Unit(n)}] :
      s \in graph \cap {Shape(job.input)}}

Run ==
  /\ pc = "run"
  /\ rng' = Drawn(Current)
  /\ Return(Compute(Head(jobs)))
  /\ UNCHANGED graphVars

RunFails ==
  /\ pc = "run"
  /\ "run" \in Faults
  /\ rng' = Drawn(Current)
  /\ Return({})
  /\ UNCHANGED graphVars

-----------------------------------------------------------------------------
ComputeStep == Start \/ KeepGraph \/ BuildGraph \/ BuildFails \/ Run \/ RunFails

Next == (\E r \in Requests : Prepare(r)) \/ ComputeStep

\* The compute thread runs.
Spec     == Init /\ [][Next]_vars
FairSpec == Spec /\ WF_vars(ComputeStep)

-----------------------------------------------------------------------------
(* Properties. *)

\* What the step "run" finds: a graph of the shape of the request in hand.  A graph
\* that is not null has the shape its key says.
GraphFits ==
  /\ \A s \in graph : key.img = s.img /\ key.lang = s.lang
  /\ pc = "run" => graph = {Shape(Current)}

\* Guidance pulls towards rows of the previous chunk the client sent, never towards
\* the zeros prevh is padded with, and reads no float beyond them.
GuidedByLeftover ==
  \A o \in out :
    /\ o.steered \subseteq o.known
    /\ \A i \in o.known \cup o.inpainted : (i + 1) * RealDim <= o.call.prev

\* The pull towards the previous chunk is total on the rows executed meanwhile (the
\* delay) at most, weakens from row to row after them, and is never a push.
GuidanceFades == \A i \in DOMAIN jobs : WellGuided(jobs[i].input.nPrev)

\* prepare and compute of overlapping requests, on a cached graph, with failures:
\* "together they reproduce predict bit-for-bit", and every request accepted is
\* computed or fails in the end.
Predict == INSTANCE Pi05Predict WITH queue <- [i \in DOMAIN jobs |-> jobs[i].call]
ReproducesPredict == Predict!Spec

-----------------------------------------------------------------------------
(* What comments of the code say. *)

\* "Rebuilt only when input token counts change".
RebuiltOnChange ==
  [][pc = "graph" /\ graph = {Shape(Current)} => ~BuildGraph]_vars
=============================================================================
