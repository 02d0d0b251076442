--------------------------- MODULE Pi05GraphProof ---------------------------
(***************************************************************************)
(* Proofs about Pi05Graph, for any requests, any RTC configuration and any *)
(* sequence of failures: the invariant of the cached graph, the shape of   *)
(* the guidance, and that the pipeline computes what Pi05Predict says.     *)
(***************************************************************************)
EXTENDS Pi05Graph, TLAPS

-----------------------------------------------------------------------------
(* The guidance.                                                           *)

\* The adapter's division never counts more rows than the floats hold.
LEMMA RowsFit ==
  ASSUME NEW f \in Nat
  PROVE  /\ NPrevChunk(f) \in Nat
         /\ NPrevChunk(f) * RealDim <= f
  <1>1. NPrevChunk(f) \in Nat /\ NPrevChunk(f) * MaxDim <= f
    BY RtcAssumption, SMTT(60) DEF NPrevChunk
  <1>2. NPrevChunk(f) * RealDim <= NPrevChunk(f) * MaxDim
    BY <1>1, RtcAssumption, SMTT(60)
  <1>3. QED  BY <1>1, <1>2, RtcAssumption, SMTT(60)

\* The row i, if it is one of the rows counted, ends within the floats.
LEMMA RowEnds ==
  ASSUME NEW f \in Nat, NEW i \in Nat, i < NPrevChunk(f)
  PROVE  (i + 1) * RealDim <= f
  <1>1. NPrevChunk(f) \in Nat /\ NPrevChunk(f) * RealDim <= f
    BY RowsFit
  <1>2. (i + 1) * RealDim <= NPrevChunk(f) * RealDim
    BY <1>1, RtcAssumption, SMTT(60)
  <1>3. QED  BY <1>1, <1>2, RtcAssumption, SMTT(60)

LEMMA LeastFacts ==
  ASSUME NEW a \in Nat, NEW b \in Nat
  PROVE  /\ Least(a, b) \in Nat
         /\ Least(a, b) <= a /\ Least(a, b) <= b
         /\ \A i \in Nat : i < Least(a, b) <=> i < a /\ i < b
  BY DEF Least

LEMMA RowsAreNat == Rows \subseteq Nat
  BY RtcAssumption DEF Rows

\* The rows guided are those of the leftover before the horizon; the rows frozen
\* are those of them before the delay.
LEMMA GuidedFacts ==
  ASSUME NEW n \in Nat
  PROVE  /\ Guided(n) \in Nat /\ Frozen(n) \in Nat
         /\ Frozen(n) <= Guided(n) /\ Frozen(n) <= Delay
         /\ \A i \in Nat : i < Guided(n) <=> i < Horizon /\ i < n
         /\ \A i \in Nat : i < Frozen(n) <=> i < Delay /\ i < Guided(n)
  <1>1. /\ Guided(n) \in Nat
        /\ \A i \in Nat : i < Guided(n) <=> i < Horizon /\ i < n
    BY LeastFacts, RtcAssumption DEF Guided
  <1>2. /\ Frozen(n) \in Nat /\ Frozen(n) <= Guided(n) /\ Frozen(n) <= Delay
        /\ \A i \in Nat : i < Frozen(n) <=> i < Delay /\ i < Guided(n)
    BY <1>1, LeastFacts, RtcAssumption DEF Frozen
  <1>3. QED  BY <1>1, <1>2

\* The rows that hold data of the leftover, and those of them that are inpainted.
LEMMA KnownRows ==
  ASSUME NEW n \in Nat
  PROVE  /\ Known(n) = {i \in Rows : i < n}
         /\ Inpainted(n) = {i \in Rows : Inpaint /\ i < Horizon /\ i < n}
  <1>1. ASSUME NEW i \in Rows  PROVE  i < Least(n, ChunkSize) <=> i < n
    <2>1. i \in Nat /\ i < ChunkSize  BY RtcAssumption DEF Rows
    <2>2. QED  BY <2>1, RtcAssumption DEF Least
  <1>2. Known(n) = {i \in Rows : i < n}  BY <1>1 DEF Known
  <1>3. ASSUME NEW i \in Rows  PROVE  i < Guided(n) <=> i < Horizon /\ i < n
    BY GuidedFacts, RowsAreNat
  <1>4. Inpainted(n) = {i \in Rows : Inpaint /\ i < Horizon /\ i < n}
    BY <1>3 DEF Inpainted
  <1>5. QED  BY <1>2, <1>4

\* The rows guided and pinned are those of the leftover before the horizon and the
\* delay; a row that is not guided has no weight.
LEMMA ScheduleRows ==
  ASSUME NEW n \in Nat, NEW i \in Rows
  PROVE  /\ Schedule(n)[i] > 0 <=> i < n /\ i < Horizon
         /\ Schedule(n)[i] = Unit(n) <=> i < n /\ i < Horizon /\ i < Delay
  <1>1. /\ Guided(n) \in Nat /\ Frozen(n) \in Nat /\ Frozen(n) <= Guided(n)
        /\ i < Guided(n) <=> i < Horizon /\ i < n
        /\ i < Frozen(n) <=> i < Delay /\ i < Guided(n)
    BY GuidedFacts, RowsAreNat
  <1>2. i \in Nat  BY RowsAreNat
  <1>3. Schedule(n)[i] = IF i < Frozen(n) THEN Unit(n)
                         ELSE IF i < Guided(n) THEN Guided(n) - i ELSE 0
    BY DEF Schedule
  <1>4. Unit(n) = Guided(n) - Frozen(n) + 1  BY DEF Unit
  <1>5. QED  BY <1>1, <1>2, <1>3, <1>4, RtcAssumption

\* The pull of guidance is total on rows before the delay at most, weakens from row
\* to row after them, and is never a push, for any leftover, horizon and
\* delay (the weights of compute_actions).
THEOREM GuidanceWeakens ==
  ASSUME NEW n \in Nat
  PROVE  WellGuided(n)
  <1> DEFINE w == Schedule(n)
  <1>1. /\ Guided(n) \in Nat /\ Frozen(n) \in Nat /\ Frozen(n) <= Guided(n)
        /\ Frozen(n) <= Delay
    BY GuidedFacts
  <1>2. Unit(n) = Guided(n) - Frozen(n) + 1  BY DEF Unit
  <1>3. ASSUME NEW i \in Rows
        PROVE  w[i] = IF i < Frozen(n) THEN Unit(n)
                      ELSE IF i < Guided(n) THEN Guided(n) - i ELSE 0
    BY DEF Schedule
  <1>4. Rows \subseteq Nat  BY RtcAssumption DEF Rows
  <1> HIDE DEF w
  <1>5. ASSUME NEW i \in Rows
        PROVE  /\ 0 <= w[i] /\ w[i] <= Unit(n)
               /\ w[i] = Unit(n) => i < Delay
               /\ \A j \in Rows : i < j => w[j] <= w[i] /\ (Delay <= i /\ w[i] > 0 => w[j] < w[i])
    <2>1. 0 <= w[i] /\ w[i] <= Unit(n)
      BY <1>1, <1>2, <1>3, <1>4
    <2>2. ASSUME NEW j \in Rows, i < j
          PROVE  w[j] <= w[i] /\ (Delay <= i /\ w[i] > 0 => w[j] < w[i])
      BY <1>1, <1>2, <1>3, <1>4, <2>2, RtcAssumption
    <2>3. w[i] = Unit(n) => i < Delay
      BY ScheduleRows DEF w
    <2>4. QED  BY <2>1, <2>2, <2>3
  <1>6. QED  BY <1>5 DEF WellGuided, w

-----------------------------------------------------------------------------
(* The invariant.                                                          *)

Inv == TypeOK /\ GraphFits /\ GuidedByLeftover

\* What a job is.
LEMMA JobFacts ==
  ASSUME NEW job \in Jobs
  PROVE  /\ job.call \in Requests
         /\ job.input = PrepareInputs(job.call)
         /\ Shape(job.input) \in Shapes
         /\ job.input.nPrev \in Nat
         /\ job.call.prev \in Nat
         /\ job.input.nPrev = NPrevChunk(job.call.prev)
         /\ job.input.noise = job.call.noise
  <1>1. PICK r \in Requests : job = [call |-> r, input |-> PrepareInputs(r)]
    BY DEF Jobs
  <1>2. r.prev \in Nat  BY RequestAssumption
  <1>3. NPrevChunk(r.prev) \in Nat  BY <1>2, RowsFit
  <1>4. QED  BY <1>1, <1>2, <1>3 DEF PrepareInputs, Shape, Shapes

\* The job in hand.
LEMMA HeadFacts ==
  ASSUME TypeOK, jobs # <<>>
  PROVE  /\ Head(jobs) \in Jobs
         /\ Tail(jobs) \in Seq(Jobs)
         /\ Len(Tail(jobs)) = Len(jobs) - 1
  BY DEF TypeOK

\* What the graph computes has the right form, and is guided by the leftover the
\* client sent.
LEMMA ComputeFacts ==
  ASSUME TypeOK, NEW job \in Jobs, NEW o \in Compute(job)
  PROVE  /\ o \in Results
         /\ o.steered \subseteq o.known
         /\ \A i \in o.known \cup o.inpainted : (i + 1) * RealDim <= o.call.prev
  <1> DEFINE n == job.input.nPrev
  <1>1. n \in Nat /\ n = NPrevChunk(job.call.prev) /\ job.call.prev \in Nat
        /\ job.call \in Requests
    BY JobFacts
  <1>2. o = [call      |-> job.call,
             noise     |-> IF job.input.noise THEN -1 ELSE rng,
             inpainted |-> Inpainted(n),
             known     |-> {i \in Known(n) : Rtc},
             steered   |-> {i \in Rows : Rtc /\ Schedule(n)[i] > 0},
             pinned    |-> {i \in Rows : Rtc /\ Schedule(n)[i] = Unit(n)}]
    BY DEF Compute
  <1>3. Rows \subseteq Nat  BY RtcAssumption DEF Rows
  <1>4. /\ Known(n) = {i \in Rows : i < n}
        /\ Inpainted(n) = {i \in Rows : Inpaint /\ i < Horizon /\ i < n}
    BY <1>1, KnownRows
  <1> HIDE DEF n
  <1>5. o \in Results
    <2>1. (IF job.input.noise THEN -1 ELSE rng) \in -1..Period-1
      BY RequestAssumption DEF TypeOK
    <2>2. /\ Inpainted(n) \subseteq Rows /\ {i \in Known(n) : Rtc} \subseteq Rows
          /\ {i \in Rows : Rtc /\ Schedule(n)[i] > 0} \subseteq Rows
          /\ {i \in Rows : Rtc /\ Schedule(n)[i] = Unit(n)} \subseteq Rows
      BY <1>4
    <2>3. QED  BY <1>1, <1>2, <2>1, <2>2 DEF Results
  <1>6. o.steered \subseteq o.known
    BY <1>1, <1>2, <1>4, ScheduleRows
  <1>7. ASSUME NEW i \in o.known \cup o.inpainted
        PROVE  (i + 1) * RealDim <= o.call.prev
    <2>1. i \in Nat /\ i < n  BY <1>2, <1>3, <1>4
    <2>2. QED  BY <1>1, <1>2, <2>1, RowEnds
  <1>8. QED  BY <1>5, <1>6, <1>7

LEMMA InitInv == Init => Inv
  BY RequestAssumption DEF Init, Inv, TypeOK, GraphFits, GuidedByLeftover

LEMMA PrepareInv ==
  ASSUME Inv, NEW r \in Requests, Prepare(r)
  PROVE  Inv'
  <1> USE DEF Prepare, graphVars
  <1> DEFINE j == [call |-> r, input |-> PrepareInputs(r)]
  <1>1. j \in Jobs  BY DEF Jobs
  <1>2. jobs' = Append(jobs, j) /\ jobs \in Seq(Jobs) /\ MaxInFlight \in Nat
    BY RequestAssumption DEF Inv, TypeOK
  <1> HIDE DEF j
  <1>3. jobs' \in Seq(Jobs) /\ Len(jobs') <= MaxInFlight /\ jobs' # <<>>
    BY <1>1, <1>2
  <1>4. pc # "idle" => Head(jobs') = Head(jobs)
    BY <1>1, <1>2 DEF Inv, TypeOK
  <1>5. TypeOK'  BY <1>3 DEF Inv, TypeOK
  <1>6. GraphFits'  BY <1>4 DEF Inv, GraphFits, Current
  <1>7. GuidedByLeftover'  BY DEF Inv, GuidedByLeftover
  <1>8. QED  BY <1>5, <1>6, <1>7 DEF Inv

\* The steps of compute_actions that do not return.
LEMMA GraphStepInv ==
  ASSUME Inv, Start \/ KeepGraph \/ BuildGraph
  PROVE  Inv'
  <1> USE DEF graphVars
  <1>1. /\ pc' # "idle" /\ jobs' = jobs /\ rng' = rng /\ out' = out /\ jobs # <<>>
        /\ pc' \in {"graph", "run"}
    BY DEF Inv, TypeOK, Start, KeepGraph, BuildGraph
  <1>2. Head(jobs) \in Jobs /\ Current' = Current
    BY <1>1, HeadFacts DEF Inv, Current
  <1>3. GuidedByLeftover'  BY <1>1 DEF Inv, GuidedByLeftover
  <1>4. Shape(Current) \in Shapes
    BY <1>2, JobFacts DEF Current
  <1>5. CASE Start
    BY <1>1, <1>3, <1>5 DEF Inv, Start, TypeOK, GraphFits
  <1>6. CASE KeepGraph
    <2>1. /\ graph' = graph /\ key' = key /\ graph # {}
          /\ key.img = Current.img /\ key.lang = Current.lang
      BY <1>6 DEF KeepGraph, NeedRebuild
    <2>2. ASSUME NEW s \in graph  PROVE  s = Shape(Current)
      <3>1. PICK r \in Requests : s = Shape(r)  BY DEF Inv, TypeOK, Shapes
      <3>2. s.img = Current.img /\ s.lang = Current.lang
        BY <2>1 DEF Inv, GraphFits
      <3>3. QED  BY <3>1, <3>2 DEF Shape
    <2>3. graph = {Shape(Current)}  BY <2>1, <2>2
    <2>4. GraphFits'  BY <1>2, <2>1, <2>3 DEF Inv, GraphFits
    <2>5. TypeOK'  BY <1>1, <2>1 DEF Inv, TypeOK
    <2>6. QED  BY <1>3, <2>4, <2>5 DEF Inv
  <1>7. CASE BuildGraph
    <2>1. graph' = {Shape(Current)} /\ key' = KeyOf(Current)
      BY <1>7 DEF BuildGraph
    <2>2. key' \in [img : {s.img : s \in Shapes}, lang : {s.lang : s \in Shapes}, horizon : Nat]
      <3>1. Current.img \in {s.img : s \in Shapes} /\ Current.lang \in {s.lang : s \in Shapes}
        BY <1>4 DEF Shape
      <3>2. QED  BY <2>1, <3>1, RtcAssumption DEF KeyOf
    <2>3. TypeOK'  BY <1>1, <1>4, <2>1, <2>2 DEF Inv, TypeOK
    <2>4. GraphFits'  BY <1>2, <2>1 DEF GraphFits, KeyOf, Shape
    <2>5. QED  BY <1>3, <2>3, <2>4 DEF Inv
  <1>8. QED  BY <1>5, <1>6, <1>7

\* The steps that do.
LEMMA ReturnInv ==
  ASSUME Inv, BuildFails \/ Run \/ RunFails
  PROVE  Inv'
  <1> USE DEF graphVars
  <1>1. /\ pc' = "idle" /\ jobs' = Tail(jobs) /\ key' = key /\ graph' \subseteq graph /\ jobs # <<>>
    BY DEF Inv, TypeOK, BuildFails, Run, RunFails, Return
  <1>2. Head(jobs) \in Jobs /\ Tail(jobs) \in Seq(Jobs) /\ Len(Tail(jobs)) <= MaxInFlight
    BY <1>1, HeadFacts, RequestAssumption DEF Inv, TypeOK
  <1>3. rng' \in 0..Period-1
    BY RequestAssumption, SMTT(30) DEF Inv, TypeOK, BuildFails, Run, RunFails, Drawn
  <1>4. out' \subseteq Compute(Head(jobs))
    BY DEF BuildFails, Run, RunFails, Return
  <1>5. /\ out' \subseteq Results
        /\ \A o \in out' :
             /\ o.steered \subseteq o.known
             /\ \A i \in o.known \cup o.inpainted : (i + 1) * RealDim <= o.call.prev
    BY <1>2, <1>4, ComputeFacts DEF Inv
  <1>6. TypeOK'
    BY <1>1, <1>2, <1>3, <1>5 DEF Inv, TypeOK
  <1>7. GraphFits'  BY <1>1 DEF Inv, GraphFits
  <1>8. GuidedByLeftover'  BY <1>5 DEF GuidedByLeftover
  <1>9. QED  BY <1>6, <1>7, <1>8 DEF Inv

LEMMA StutterInv ==
  ASSUME Inv, UNCHANGED vars
  PROVE  Inv'
  BY DEF Inv, TypeOK, GraphFits, GuidedByLeftover, Current, vars, graphVars

\* The types, the shape of the cached graph under its key and the origin of the
\* guidance, over any sequence of overlapping prepares, computes and failures.
THEOREM GraphInvariance == Spec => []Inv
  <1>1. Init => Inv  BY InitInv
  <1>2. Inv /\ [Next]_vars => Inv'
    BY PrepareInv, GraphStepInv, ReturnInv, StutterInv DEF Next, ComputeStep
  <1>3. QED  BY <1>1, <1>2, PTL DEF Spec

\* Type correctness of the model's state.
THEOREM GraphTypes == Spec => []TypeOK
  BY GraphInvariance, PTL DEF Inv

\* compute_actions always runs a graph of the shape of the request it computes.
THEOREM GraphAlwaysFits == Spec => []GraphFits
  BY GraphInvariance, PTL DEF Inv

\* Guidance pulls towards rows the client sent, and reads no float beyond them.
THEOREM GuidanceIsKnown == Spec => []GuidedByLeftover
  BY GraphInvariance, PTL DEF Inv

\* The guidance of every job is well shaped.
THEOREM GuidanceAlwaysFades == Spec => []GuidanceFades
  <1>1. TypeOK => GuidanceFades
    <2>1. SUFFICES ASSUME TypeOK, NEW i \in DOMAIN jobs
                   PROVE  WellGuided(jobs[i].input.nPrev)
      BY DEF GuidanceFades
    <2>2. jobs[i] \in Jobs  BY <2>1 DEF TypeOK
    <2>3. QED  BY <2>2, JobFacts, GuidanceWeakens
  <1>2. QED  BY <1>1, GraphTypes, PTL

\* The horizon in the key of a graph is the one it was built for.
KeepsHorizon == graph # {} => key.horizon = IF Rtc THEN Horizon ELSE 0

LEMMA HorizonIsKept == Spec => []KeepsHorizon
  <1>1. Init => KeepsHorizon
    BY DEF Init, KeepsHorizon
  <1>2. KeepsHorizon /\ [Next]_vars => KeepsHorizon'
    <2>1. SUFFICES ASSUME KeepsHorizon, [Next]_vars
                   PROVE  KeepsHorizon'
      OBVIOUS
    <2>2. CASE BuildGraph
      BY <2>2 DEF BuildGraph, KeyOf, KeepsHorizon
    <2>3. CASE BuildFails
      BY <2>3 DEF BuildFails, KeepsHorizon
    <2>4. CASE UNCHANGED graphVars
      BY <2>1, <2>4 DEF KeepsHorizon, graphVars
    <2>5. QED
      BY <2>1, <2>2, <2>3, <2>4 DEF Next, ComputeStep, Prepare, Start, KeepGraph, Run, RunFails,
                                    graphVars, vars
  <1>3. QED  BY <1>1, <1>2, PTL DEF Spec

\* With RTC on, the graph is rebuilt for a request of another shape only: the key a graph
\* was built under never asks for the same graph again.
THEOREM RebuiltForOthersOnly ==
  ASSUME Rtc
  PROVE  Spec => RebuiltOnChange
  <1>1. Inv /\ KeepsHorizon /\ [Next]_vars
          => [pc = "graph" /\ graph = {Shape(Current)} => ~BuildGraph]_vars
    <2>1. SUFFICES ASSUME Inv, KeepsHorizon, graph = {Shape(Current)}
                   PROVE  ~BuildGraph
      OBVIOUS
    <2>2. key.img = Current.img /\ key.lang = Current.lang
      BY <2>1 DEF Inv, GraphFits, Shape
    <2>3. key.horizon = Horizon
      BY <2>1 DEF KeepsHorizon
    <2>4. ~NeedRebuild(Current)
      BY <2>1, <2>2, <2>3 DEF NeedRebuild
    <2>5. QED  BY <2>4 DEF BuildGraph
  <1>2. QED  BY <1>1, GraphInvariance, HorizonIsKept, PTL DEF Spec, RebuiltOnChange

-----------------------------------------------------------------------------
(* Refinement.                                                             *)

Queue(q) == [i \in DOMAIN q |-> q[i].call]

LEMMA QueueAppend ==
  ASSUME NEW q \in Seq(Jobs), NEW j \in Jobs
  PROVE  /\ Len(Queue(q)) = Len(q)
         /\ Queue(Append(q, j)) = Append(Queue(q), j.call)
  <1>1. \A k \in Jobs : k.call \in Requests  BY JobFacts
  <1>2. Queue(q) \in Seq(Requests) /\ Len(Queue(q)) = Len(q)
    BY <1>1 DEF Queue
  <1>3. QED  BY <1>1, <1>2 DEF Queue

LEMMA QueueTail ==
  ASSUME NEW q \in Seq(Jobs), q # <<>>
  PROVE  /\ Queue(q) # <<>>
         /\ Head(Queue(q)) = Head(q).call
         /\ Queue(Tail(q)) = Tail(Queue(q))
  <1>1. \A k \in Jobs : k.call \in Requests  BY JobFacts
  <1>2. Queue(q) \in Seq(Requests) /\ Len(Queue(q)) = Len(q)
    BY <1>1 DEF Queue
  <1>3. QED  BY <1>1, <1>2 DEF Queue

\* The actions of a job whose graph fits are those its request calls for.
LEMMA ComputesActions ==
  ASSUME NEW job \in Jobs, graph = {Shape(job.input)}
  PROVE  Compute(job) = {Predict!Actions(job.call, rng)}
  <1> DEFINE n == job.input.nPrev
  <1>1. n \in Nat /\ n = NPrevChunk(job.call.prev)
        /\ job.input.noise = job.call.noise
    BY JobFacts
  <1>2. Known(n) = {i \in Rows : i < n} /\ Inpainted(n) = {i \in Rows : Inpaint /\ i < Horizon /\ i < n}
    BY <1>1, KnownRows
  <1> HIDE DEF n
  <1>3. Predict!Rows = Rows /\ Predict!NPrevChunk(job.call.prev) = n
    BY <1>1 DEF Rows, NPrevChunk, Predict!Rows, Predict!NPrevChunk
  <1>4. Predict!Prefix(n) = {i \in Rows : i < n /\ i < Horizon}
    BY <1>3 DEF Predict!Prefix
  <1>5. ASSUME NEW i \in Rows
        PROVE  /\ Schedule(n)[i] > 0 <=> i \in Predict!Prefix(n)
               /\ Schedule(n)[i] = Unit(n) <=> i \in Predict!Prefix(n) /\ i < Delay
    BY <1>1, <1>4, ScheduleRows
  <1>6. /\ Inpainted(n) = IF Inpaint THEN Predict!Prefix(n) ELSE {}
        /\ {i \in Known(n) : Rtc} = {i \in Predict!Rows : Rtc /\ i < n}
        /\ {i \in Rows : Rtc /\ Schedule(n)[i] > 0} = IF Rtc THEN Predict!Prefix(n) ELSE {}
        /\ {i \in Rows : Rtc /\ Schedule(n)[i] = Unit(n)}
             = {i \in Predict!Prefix(n) : Rtc /\ i < Delay}
    <2>1. Inpainted(n) = IF Inpaint THEN Predict!Prefix(n) ELSE {}
      BY <1>2, <1>4, Zenon
    <2>2. {i \in Known(n) : Rtc} = {i \in Predict!Rows : Rtc /\ i < n}
      BY <1>2, <1>3, Zenon
    <2>3. {i \in Rows : Rtc /\ Schedule(n)[i] > 0} = IF Rtc THEN Predict!Prefix(n) ELSE {}
      BY <1>4, <1>5, Zenon
    <2>4. {i \in Rows : Rtc /\ Schedule(n)[i] = Unit(n)}
             = {i \in Predict!Prefix(n) : Rtc /\ i < Delay}
      BY <1>4, <1>5, Zenon
    <2>5. QED  BY <2>1, <2>2, <2>3, <2>4
  <1>7. Compute(job) = {[call      |-> job.call,
                         noise     |-> IF job.input.noise THEN -1 ELSE rng,
                         inpainted |-> Inpainted(n),
                         known     |-> {i \in Known(n) : Rtc},
                         steered   |-> {i \in Rows : Rtc /\ Schedule(n)[i] > 0},
                         pinned    |-> {i \in Rows : Rtc /\ Schedule(n)[i] = Unit(n)}]}
    BY DEF Compute, n
  <1>8. QED  BY <1>1, <1>3, <1>6, <1>7, Zenon DEF Predict!Actions

\* Every step of the pipeline is a step of Pi05Predict or leaves it unchanged:
\* overlapping prepare and compute reproduce predict (the safety part of
\* ReproducesPredict).
THEOREM PipelineReproducesPredict == Spec => Predict!SafeSpec
  <1>1. Init => Predict!Init
    BY DEF Init, Predict!Init
  <1>2. Inv /\ [Next]_vars => [Predict!Next]_(Predict!vars)
    <2> SUFFICES ASSUME Inv, [Next]_vars
                 PROVE  Predict!Next \/ UNCHANGED Predict!vars
      OBVIOUS
    <2> USE DEF Predict!vars
    <2>1. ASSUME NEW r \in Requests, Prepare(r)
          PROVE  Predict!Accept(r)
      <3> DEFINE j == [call |-> r, input |-> PrepareInputs(r)]
      <3>1. j \in Jobs /\ jobs \in Seq(Jobs) /\ j.call = r
        BY DEF Jobs, Inv, TypeOK
      <3>2. jobs' = Append(jobs, j) /\ Len(jobs) < MaxInFlight /\ UNCHANGED <<rng, out>>
        BY <2>1 DEF Prepare
      <3> HIDE DEF j
      <3>3. Queue(jobs') = Append(Queue(jobs), r) /\ Len(Queue(jobs)) < MaxInFlight
        BY <3>1, <3>2, QueueAppend
      <3>4. QED  BY <3>2, <3>3 DEF Predict!Accept, Queue
    <2>2. CASE Start \/ KeepGraph \/ BuildGraph
      BY <2>2 DEF Start, KeepGraph, BuildGraph, graphVars
    <2>3. ASSUME BuildFails \/ Run \/ RunFails
          PROVE  Predict!Answer \/ Predict!Fail
      <3>1. jobs \in Seq(Jobs) /\ jobs # <<>> /\ jobs' = Tail(jobs) /\ Head(jobs) \in Jobs
        BY <2>3 DEF Inv, TypeOK, BuildFails, Run, RunFails, Return
      <3>2. /\ Queue(jobs) # <<>> /\ Queue(jobs') = Tail(Queue(jobs))
            /\ Head(Queue(jobs)) = Head(jobs).call
        BY <3>1, QueueTail
      <3>3. Drawn(Current) = Predict!NextDraw(Head(Queue(jobs)), rng)
        BY <3>1, <3>2, JobFacts, Zenon DEF Drawn, Current, Predict!NextDraw
      <3>4. CASE Run
        <4>1. out' = Compute(Head(jobs)) /\ rng' = Drawn(Current) /\ graph = {Shape(Head(jobs).input)}
          BY <3>4 DEF Run, Return, Inv, GraphFits, Current
        <4>2. out' = {Predict!Actions(Head(Queue(jobs)), rng)}
          BY <3>1, <3>2, <4>1, ComputesActions
        <4>3. QED  BY <3>2, <3>3, <4>1, <4>2 DEF Predict!Answer, Queue
      <3>5. CASE BuildFails \/ RunFails
        <4>1. out' = {} /\ rng' \in {rng, Drawn(Current)}
          BY <3>5 DEF BuildFails, RunFails, Return
        <4>2. QED  BY <3>2, <3>3, <4>1 DEF Predict!Fail, Queue
      <3>6. QED  BY <2>3, <3>4, <3>5
    <2>4. CASE UNCHANGED vars
      BY <2>4 DEF vars
    <2>5. QED  BY <2>1, <2>2, <2>3, <2>4 DEF Next, ComputeStep, Predict!Next
  <1>3. QED  BY <1>1, <1>2, GraphInvariance, PTL DEF Spec, Predict!SafeSpec
=============================================================================
