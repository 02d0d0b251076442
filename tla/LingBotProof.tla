---------------------------- MODULE LingBotProof ----------------------------
(***************************************************************************)
(* LingBot-VLA v2 only ever runs a graph that is alive and fits, dumps     *)
(* what is still there and, from predict, answers to the state it was      *)
(* given; and for every length of an instruction the prefix it uploads is  *)
(* complete and its rows are in order.                                     *)
(***************************************************************************)
EXTENDS LingBot, FiniteSetTheorems, SequenceTheorems, WellFoundedInduction, TLAPS

-----------------------------------------------------------------------------
(* The state in canonical order and back. *)

\* The order of the robot's state is a place in the canonical one for each number.
LEMMA PlacesAre == CanonicalPlace \in [1..RealDim -> 0..MaxDim-1]
<1>1. CASE Len(RawMap) = RealDim
  BY <1>1, PrefixAssumption DEF CanonicalPlace
<1>2. CASE Len(RawMap) # RealDim
  BY <1>2, PrefixAssumption DEF CanonicalPlace
<1> QED BY <1>1, <1>2

\* A place that a number of the state goes to gets that number.
LEMMA CanonicalAt ==
  ASSUME MapInjective, NEW state \in [1..RealDim -> Int], NEW j \in 1..RealDim
  PROVE  Canonical(state)[CanonicalPlace[j]] = state[j]
<1> DEFINE c == CanonicalPlace[j]
           Is(k) == CanonicalPlace[k] = c /\ \A i \in k+1..RealDim : CanonicalPlace[i] # c
<1>1. c \in 0..MaxDim-1
  BY PlacesAre
<1>2. RealDim \in Nat
  BY PrefixAssumption
<1>3. Is(j)
  BY <1>2 DEF MapInjective
<1>4. \A k \in 1..RealDim : Is(k) => k = j
  BY DEF MapInjective
<1>5. (CHOOSE k \in 1..RealDim : Is(k)) = j
  <2> HIDE DEF Is
  <2> QED BY <1>3, <1>4
<1>6. state \in Seq(Int) /\ Len(state) = RealDim
  BY <1>2
<1>7. Canonical(state)[c] = state[CHOOSE k \in 1..RealDim : Is(k)]
  BY <1>1, <1>6 DEF Canonical
<1> QED BY <1>5, <1>7

\* Back in the robot's order it is the state that was sent.
LEMMA RoundTrip ==
  ASSUME MapInjective, NEW state \in {<<>>} \cup [1..RealDim -> Int]
  PROVE  /\ Raw(Canonical(state)) = IF state = <<>> THEN [j \in 1..RealDim |-> 0] ELSE state
         /\ \A c \in DOMAIN Canonical(state) :
              Canonical(state)[c] # 0 => \E j \in 1..RealDim : CanonicalPlace[j] = c
<1>1. RealDim \in Nat \ {0}
  BY PrefixAssumption
<1>2. \A c \in DOMAIN Canonical(state) :
        Canonical(state)[c] # 0 => \E j \in 1..RealDim : CanonicalPlace[j] = c
  BY DEF Canonical
<1>3. CASE state = <<>>
  <2>1. Canonical(state) = [c \in 0..MaxDim-1 |-> 0]
    BY <1>1, <1>3 DEF Canonical
  <2>2. Raw(Canonical(state)) = [j \in 1..RealDim |-> 0]
    BY <2>1, PlacesAre DEF Raw
  <2> QED BY <1>2, <1>3, <2>2
<1>4. CASE state \in [1..RealDim -> Int]
  <2>1. Raw(Canonical(state)) = [j \in 1..RealDim |-> state[j]]
    BY <1>4, CanonicalAt DEF Raw
  <2>2. Raw(Canonical(state)) = state
    BY <1>4, <2>1
  <2>3. state # <<>>
    BY <1>1, <1>4
  <2> QED BY <1>2, <2>2, <2>3
<1> QED BY <1>3, <1>4

-----------------------------------------------------------------------------
(* Pointers. *)

\* There is always a number left, as the taps are of one build.
LEMMA FreshIs ==
  ASSUME Typed, GraphWhole
  PROVE  /\ Fresh \in Pointers \ {0} /\ Fresh # graph.ctx
         /\ \A t \in taps : t.build # Fresh
<1> DEFINE used == {graph.ctx, graph.galloc, graph.gf, graph.inputs} \cup {t.build : t \in taps}
<1>1. \E b \in Pointers \ {0} : b \notin used
  <2>1. \E u \in Pointers : {t.build : t \in taps} \subseteq {u}
    <3>1. CASE taps = {}
      BY <3>1 DEF Pointers
    <3>2. CASE taps # {}
      <4>1. PICK t \in taps : TRUE
        BY <3>2
      <4> QED BY <4>1 DEF Typed, GraphWhole
    <3> QED BY <3>1, <3>2
  <2>2. PICK u \in Pointers : {t.build : t \in taps} \subseteq {u}
    BY <2>1
  <2>3. ASSUME \A b \in Pointers \ {0} : b \in {graph.ctx, graph.galloc, graph.gf, graph.inputs, u}
        PROVE  FALSE
    <3>1. \A b \in {1, 2, 3, 4, 5, 6} : b \in {graph.ctx, graph.galloc, graph.gf, graph.inputs, u}
      BY <2>3 DEF Pointers
    <3> QED BY <3>1
  <2> QED BY <2>2, <2>3
<1> HIDE DEF used
<1>2. Fresh \in Pointers \ {0} /\ Fresh \notin used
  BY <1>1 DEF Fresh, used
<1> QED BY <1>2 DEF used

-----------------------------------------------------------------------------
(* The invariant. *)

\* A request that can be prepared has three views and an instruction.
LEMMA PreparedAre ==
  ASSUME NEW r \in Prepared
  PROVE  /\ r \in Requests /\ r # NoJob
         /\ r.lang \in Nat \ {0} /\ r.state \in {<<>>} \cup [1..RealDim -> Int]
<1>1. r \in Requests /\ r.lang >= 1
  BY DEF Prepared, Outcomes
<1> QED BY <1>1, LingBotAssumption DEF NoJob

\* Nothing is built at first.
LEMMA InitInv == Init => Inv
<1> SUFFICES ASSUME Init PROVE Inv
  OBVIOUS
<1>1. Typed
  BY LingBotAssumption DEF Init, Typed, Pointers
<1> QED BY <1>1 DEF Init, Inv, GraphWhole, Answered, Stashed

\* predict stashes the state before its input is prepared.
LEMMA PredictInv == ASSUME Inv, NEW r \in Requests, Predict(r) PROVE Inv'
<1>1. PICK ok \in Outcomes(r) :
        /\ stage' = IF ok THEN "graph" ELSE "idle"
        /\ job' = IF ok THEN r ELSE NoJob
        /\ out' = IF ok THEN out ELSE Empty
  BY DEF Predict
<1>2. /\ stage = "idle" /\ caller' = "predict" /\ last_state' = r.state
      /\ UNCHANGED <<env, jobs, graph, taps, kept, kv, turn>>
  BY DEF Predict
<1>3. ok \in BOOLEAN /\ (ok => r \in Prepared)
  BY DEF Outcomes, Prepared
<1>4. Typed'
  BY <1>1, <1>2, <1>3, PreparedAre DEF Inv, Typed
<1>5. GraphWhole' /\ Stashed'
  BY <1>1, <1>2, <1>3 DEF Inv, GraphWhole, Stashed, NewTaps
<1>6. Answered'
  BY <1>1, <1>2, <1>3 DEF Inv, Answered
<1> QED BY <1>4, <1>5, <1>6 DEF Inv

\* A prepared input waits; the graph is not touched.
LEMMA PrepareInv == ASSUME Inv, NEW r \in Requests, Prepare(r) PROVE Inv'
<1>1. /\ UNCHANGED <<env, stage, job, caller, last_state, graph, taps, kept, kv, turn, out>>
      /\ Len(jobs) < MaxJobs
  BY DEF Prepare
<1>2. PICK ok \in Outcomes(r) : jobs' = IF ok THEN Append(jobs, r) ELSE jobs
  BY DEF Prepare
<1>3. ok \in BOOLEAN /\ (ok => r \in Prepared)
  BY DEF Outcomes, Prepared
<1>4. jobs' \in Seq(Prepared) /\ Len(jobs') <= MaxJobs
  BY <1>1, <1>2, <1>3, LingBotAssumption DEF Inv, Typed
<1>5. Typed'
  BY <1>1, <1>4 DEF Inv, Typed
<1> QED BY <1>1, <1>5 DEF Inv, GraphWhole, Answered, Stashed, NewTaps

\* compute takes a prepared input, and whatever state was stashed last.
LEMMA ComputeInv == ASSUME Inv, Compute PROVE Inv'
<1>1. /\ stage = "idle" /\ jobs # <<>> /\ job' = Head(jobs) /\ jobs' = Tail(jobs)
      /\ caller' = "compute" /\ stage' = "graph"
      /\ UNCHANGED <<env, last_state, graph, taps, kept, kv, turn, out>>
  BY DEF Compute
<1>2. jobs' \in Seq(Prepared) /\ Len(jobs') <= MaxJobs /\ job' \in Prepared
  BY <1>1, LingBotAssumption DEF Inv, Typed
<1>3. Typed'
  BY <1>1, <1>2, PreparedAre DEF Inv, Typed
<1> QED BY <1>1, <1>3 DEF Inv, GraphWhole, Answered, Stashed, NewTaps

\* The graph is kept if it is of the same length.
LEMMA KeepGraphInv == ASSUME Inv, KeepGraph PROVE Inv'
<1>1. /\ stage = "graph" /\ stage' = "run" /\ graph.gf # 0 /\ graph.n_lang = job.lang
      /\ UNCHANGED <<env, job, caller, jobs, last_state, graph, taps, kept, kv, turn, out>>
  BY DEF KeepGraph, NeedRebuild
<1>2. Typed'
  BY <1>1 DEF Inv, Typed
<1> QED BY <1>1, <1>2 DEF Inv, GraphWhole, Answered, Stashed, NewTaps

\* A new graph, with taps and pins of its own.
LEMMA BuildGraphInv == ASSUME Inv, BuildGraph PROVE Inv'
<1> DEFINE b == Fresh
<1>1. b \in Pointers \ {0}
  BY FreshIs DEF Inv
<1>2. /\ stage = "graph" /\ stage' = "run" /\ taps' = NewTaps(b) /\ kept' = Pinned(taps')
      /\ graph' = [ctx |-> b, galloc |-> b, gf |-> b, inputs |-> b, n_lang |-> job.lang]
      /\ UNCHANGED <<env, job, caller, jobs, last_state, turn, out>>
  BY DEF BuildGraph
<1> HIDE DEF b
<1>3. job \in Requests
  BY <1>2, PreparedAre DEF Inv, Typed
<1>4. Typed'
  <2>1. taps' \subseteq [name : Tapped, build : Pointers] /\ kept' \subseteq Tapped \cup GraphInputs
    BY <1>1, <1>2 DEF NewTaps, Pinned
  <2> QED BY <1>1, <1>2, <1>3, <2>1 DEF Inv, Typed
<1>5. GraphWhole'
  BY <1>1, <1>2 DEF GraphWhole, NewTaps
<1>6. Answered' /\ Stashed'
  BY <1>1, <1>2 DEF Inv, Answered, Stashed
<1> QED BY <1>4, <1>5, <1>6 DEF Inv

\* After a failed build there is no graph, and no answer.
LEMMA BuildFailsInv == ASSUME Inv, BuildFails PROVE Inv'
<1> DEFINE b == Fresh
<1>1. b \in Pointers \ {0}
  BY FreshIs DEF Inv
<1>2. /\ \E what \in {"init", "alloc"} :
           graph' = AfterFailure(what, b) /\ taps' = IF what = "init" THEN {} ELSE NewTaps(b)
      /\ kept' = {} /\ stage' = "idle" /\ job' = NoJob /\ out' = Empty
      /\ UNCHANGED <<env, caller, jobs, last_state, turn>>
  BY DEF BuildFails
<1> HIDE DEF b
<1>3. /\ graph'.gf = 0 /\ (taps' = {} \/ taps' = NewTaps(b))
      /\ graph' \in [ctx : Pointers, galloc : Pointers, gf : Pointers, inputs : Pointers,
                     n_lang : {-1} \cup {r.lang : r \in Requests}]
  <2> DEFINE N == {-1} \cup {r.lang : r \in Requests}
             G == [ctx : Pointers, galloc : Pointers, gf : Pointers, inputs : Pointers, n_lang : N]
  <2>1. graph \in G /\ 0 \in Pointers /\ b \in Pointers
    BY <1>1 DEF Inv, Typed, Pointers
  <2> HIDE DEF N
  <2>2. AfterFailure("init", b) \in G /\ AfterFailure("init", b).gf = 0
    BY <2>1 DEF AfterFailure
  <2>3. AfterFailure("alloc", b) \in G /\ AfterFailure("alloc", b).gf = 0
    BY <2>1 DEF AfterFailure
  <2> USE DEF N
  <2> QED BY <1>2, <2>2, <2>3
<1>4. Typed'
  <2>1. taps' \subseteq [name : Tapped, build : Pointers]
    BY <1>1, <1>3 DEF NewTaps
  <2> QED BY <1>2, <1>3, <2>1 DEF Inv, Typed
<1>5. GraphWhole'
  BY <1>2, <1>3 DEF GraphWhole, NewTaps
<1> QED BY <1>2, <1>4, <1>5 DEF Inv, Answered, Stashed

\* A run writes the caches and the answer, and the dump.
LEMMA RunInv == ASSUME Inv, Run PROVE Inv'
<1>1. PICK files \in Dumped :
        out' = [of |-> job, by |-> caller, id |-> turn, state |-> Canonical(last_state),
                raw |-> Raw(Canonical(last_state)), reads |-> RunGraph(F16, kv, turn).reads, dumped |-> files]
  BY DEF Run
<1>2. /\ stage = "run" /\ stage' = "idle" /\ job' = NoJob /\ turn' = 1 - turn
      /\ UNCHANGED <<env, caller, jobs, last_state, graph, taps, kept>>
  BY DEF Run
<1>3. graph.gf # 0 /\ taps = NewTaps(graph.gf) /\ kept = Pinned(taps) /\ job \in Prepared
  BY <1>2 DEF Inv, Typed, GraphWhole
<1>4. out' # Empty /\ out'.of = job /\ out'.dumped = files
  BY <1>1, <1>3, PreparedAre DEF Empty
<1>5. files \subseteq (IF env.dump THEN Tapped \cup GraphInputs \cup {"final"} ELSE {})
  BY <1>1, <1>3 DEF Dumped, NewTaps
<1>6. Typed'
  BY <1>2, <1>3, <1>4, <1>5 DEF Inv, Typed
<1>7. GraphWhole' /\ Answered' /\ Stashed'
  BY <1>2, <1>3, <1>4, <1>5 DEF Inv, GraphWhole, Answered, Stashed, NewTaps
<1> QED BY <1>6, <1>7 DEF Inv

\* The backend fails: no answer, and the graph stays.
LEMMA RunFailsInv == ASSUME Inv, RunFails PROVE Inv'
<1>1. /\ stage' = "idle" /\ job' = NoJob /\ turn' = 1 - turn /\ out' = Empty
      /\ UNCHANGED <<env, caller, jobs, last_state, graph, taps, kept>>
  BY DEF RunFails
<1>2. Typed'
  BY <1>1 DEF Inv, Typed
<1> QED BY <1>1, <1>2 DEF Inv, GraphWhole, Answered, Stashed, NewTaps

\* The invariant is inductive.
LEMMA NextInv == ASSUME Inv, [Next]_vars PROVE Inv'
<1>1. CASE UNCHANGED vars
  BY <1>1 DEF vars, Inv, Typed, GraphWhole, Answered, Stashed, NewTaps
<1> QED BY <1>1, PredictInv, PrepareInv, ComputeInv, KeepGraphInv, BuildGraphInv, BuildFailsInv, RunInv,
           RunFailsInv DEF Next

\* Whatever is prepared, computed or predicted, in any order, and wherever it fails.
THEOREM LingBotInvariance == Spec => []Inv
<1>1. Inv /\ [Next]_vars => Inv'
  BY NextInv
<1> QED BY <1>1, InitInv, PTL DEF Spec

\* A graph that is run is alive, with its inputs and taps, and of the length of the
\* instruction: after failed builds too, and with a cache or without.
THEOREM GraphIsLive == Spec => []RunsLiveGraph
<1>1. Inv => RunsLiveGraph
  BY DEF Inv, GraphWhole, RunsLiveGraph, NewTaps
<1> QED BY <1>1, LingBotInvariance, PTL

\* What dump_debug writes was pinned to the end of the graph.
THEOREM DumpsArePinned == Spec => []DumpIsIntact
<1>1. Inv => DumpIsIntact
  <2> SUFFICES ASSUME Inv, out # Empty PROVE out.dumped \subseteq kept \cup {"final"}
    BY DEF DumpIsIntact
  <2>1. CASE env.dump
    <3>1. taps = {[name |-> n, build |-> graph.gf] : n \in Tapped} /\ kept = Pinned(taps)
      BY <2>1 DEF Inv, Answered, GraphWhole, NewTaps
    <3>2. {x.name : x \in taps} = Tapped /\ taps # {}
      <4>1. [name |-> "k", build |-> graph.gf] \in taps
        BY <3>1 DEF Tapped
      <4>2. \A n \in Tapped : [name |-> n, build |-> graph.gf] \in taps
        BY <3>1
      <4>3. \A n \in Tapped : [name |-> n, build |-> graph.gf].name = n
        OBVIOUS
      <4>4. Tapped \subseteq {x.name : x \in taps}
        BY <4>2, <4>3
      <4>5. \A x \in taps : x.name \in Tapped
        BY <3>1
      <4> QED BY <4>1, <4>4, <4>5
    <3>3. kept = Tapped \cup GraphInputs
      BY <3>1, <3>2 DEF Pinned
    <3> QED BY <2>1, <3>3 DEF Inv, Answered
  <2>2. CASE ~env.dump
    BY <2>2 DEF Inv, Answered
  <2> QED BY <2>1, <2>2
<1> QED BY <1>1, LingBotInvariance, PTL

\* predict answers to the state it was given, whatever happened in between, if no two
\* numbers of the robot's state share a place of the canonical one.
THEOREM PredictsForOwnState == MapInjective => (Spec => []OwnState)
<1> SUFFICES ASSUME MapInjective PROVE Spec => []OwnState
  OBVIOUS
<1>1. Init => OwnState
  BY DEF Init, OwnState
<1>2. Inv /\ OwnState /\ [Next]_vars => OwnState'
  <2> SUFFICES ASSUME Inv, OwnState, [Next]_vars PROVE OwnState'
    OBVIOUS
  <2>1. CASE Run
    <3>1. /\ stage = "run" /\ job \in Prepared
          /\ out'.of = job /\ out'.by = caller
          /\ out'.state = Canonical(last_state) /\ out'.raw = Raw(Canonical(last_state))
      BY <2>1 DEF Run, Inv, Typed
    <3>2. caller = "predict" => last_state = job.state
      BY <3>1 DEF Inv, Stashed
    <3>3. job.state \in {<<>>} \cup [1..RealDim -> Int]
      BY <3>1, PreparedAre
    <3> QED BY <3>1, <3>2, <3>3, RoundTrip DEF OwnState, ToOwnState
  <2>2. CASE out' = out
    BY <2>2 DEF OwnState, ToOwnState
  <2>3. CASE out' = Empty
    BY <2>3 DEF OwnState
  <2>4. Run \/ out' = out \/ out' = Empty
    <3>1. ASSUME NEW r \in Requests, Predict(r) \/ Prepare(r) PROVE out' = out \/ out' = Empty
      BY <3>1 DEF Predict, Prepare
    <3> QED BY <3>1 DEF Next, vars, Compute, KeepGraph, BuildGraph, BuildFails, RunFails
  <2> QED BY <2>1, <2>2, <2>3, <2>4
<1> QED BY <1>1, <1>2, LingBotInvariance, PTL DEF Spec

-----------------------------------------------------------------------------
(* The prefix. *)

\* The view that a row below LangBase is in, and the place in that view.
ViewOf(row) == IF row < 66 THEN 0 ELSE IF row < 132 THEN 1 ELSE 2
Within(row) == row - 66 * ViewOf(row)

\* What a row of the prefix holds.
Held(n, row) ==
  IF row < 198 THEN IF Within(row) = 0 THEN <<"vs", ViewOf(row), 0>>
                    ELSE IF Within(row) = 65 THEN <<"ve", ViewOf(row), 0>>
                    ELSE <<"patch", ViewOf(row), Within(row) - 1>>
  ELSE IF row < 198 + n THEN <<"lang", 0, row - 198>>
  ELSE IF row < 206 + n THEN <<"current", 0, row - (198 + n)>>
  ELSE <<"future", 0, row - (206 + n)>>

\* A copy fills a row of the prefix with what the row is to hold.
LEMMA CopyIs ==
  ASSUME NEW n \in Nat, NEW c \in Copies(n)
  PROVE  c.row \in Prefix(n) /\ c = [row |-> c.row, of |-> Held(n, c.row)]
<1> USE DEF ViewTokens, LangBase, Queries, Views, Patches, NPrefix, Prefix
<1>1. ASSUME NEW k \in Views
      PROVE  /\ ViewOf(66 * k) = k /\ Within(66 * k) = 0
             /\ ViewOf(66 * k + 65) = k /\ Within(66 * k + 65) = 65
             /\ \A j \in Patches : ViewOf(66 * k + 1 + j) = k /\ Within(66 * k + 1 + j) = 1 + j
  BY <1>1 DEF ViewOf, Within
<1>2. CASE \E k \in Views : c = [row |-> k * ViewTokens, of |-> <<"vs", k, 0>>]
  BY <1>1, <1>2 DEF Held
<1>3. CASE \E k \in Views : c = [row |-> k * ViewTokens + ViewTokens - 1, of |-> <<"ve", k, 0>>]
  BY <1>1, <1>3 DEF Held
<1>4. CASE \E k \in Views, j \in Patches : c = [row |-> k * ViewTokens + 1 + j, of |-> <<"patch", k, j>>]
  BY <1>1, <1>4 DEF Held
<1>5. CASE \E i \in 0..n-1 : c = [row |-> LangBase + i, of |-> <<"lang", 0, i>>]
  BY <1>5 DEF Held
<1>6. CASE \E i \in 0..Queries-1 : c = [row |-> LangBase + n + i, of |-> <<"current", 0, i>>]
  BY <1>6 DEF Held
<1>7. CASE \E i \in 0..Queries-1 : c = [row |-> LangBase + n + Queries + i, of |-> <<"future", 0, i>>]
  BY <1>7 DEF Held
<1> QED BY <1>2, <1>3, <1>4, <1>5, <1>6, <1>7 DEF Copies

\* And every row of the prefix is filled.
LEMMA RowIsCopied ==
  ASSUME NEW n \in Nat, NEW row \in Prefix(n)
  PROVE  [row |-> row, of |-> Held(n, row)] \in Copies(n)
<1> DEFINE Copied(r, of) == [row |-> r, of |-> of] \in Copies(n)
<1>1. /\ \A k \in Views : Copied(k * 66, <<"vs", k, 0>>) /\ Copied(k * 66 + 66 - 1, <<"ve", k, 0>>)
      /\ \A k \in Views, j \in Patches : Copied(k * 66 + 1 + j, <<"patch", k, j>>)
      /\ \A i \in 0..n-1 : Copied(198 + i, <<"lang", 0, i>>)
      /\ \A i \in 0..7 : Copied(198 + n + i, <<"current", 0, i>>) /\ Copied(198 + n + 8 + i, <<"future", 0, i>>)
  <2> DEFINE VS == {[row |-> k * ViewTokens, of |-> <<"vs", k, 0>>] : k \in Views}
             VE == {[row |-> k * ViewTokens + ViewTokens - 1, of |-> <<"ve", k, 0>>] : k \in Views}
             PA == {[row |-> k * ViewTokens + 1 + j, of |-> <<"patch", k, j>>] : k \in Views, j \in Patches}
             LA == {[row |-> LangBase + i, of |-> <<"lang", 0, i>>] : i \in 0..n-1}
             CU == {[row |-> LangBase + n + i, of |-> <<"current", 0, i>>] : i \in 0..Queries-1}
             FU == {[row |-> LangBase + n + Queries + i, of |-> <<"future", 0, i>>] : i \in 0..Queries-1}
  <2>0. Copies(n) = VS \cup VE \cup PA \cup LA \cup CU \cup FU
    BY DEF Copies
  <2>1. \A k \in Views : [row |-> k * 66, of |-> <<"vs", k, 0>>] \in VS
    BY DEF ViewTokens, LangBase, Queries
  <2>2. \A k \in Views : [row |-> k * 66 + 66 - 1, of |-> <<"ve", k, 0>>] \in VE
    BY DEF ViewTokens, LangBase, Queries
  <2>3. \A k \in Views, j \in Patches : [row |-> k * 66 + 1 + j, of |-> <<"patch", k, j>>] \in PA
    BY DEF ViewTokens, LangBase, Queries
  <2>4. \A i \in 0..n-1 : [row |-> 198 + i, of |-> <<"lang", 0, i>>] \in LA
    <3>1. LangBase = 198
      BY DEF LangBase, ViewTokens
    <3> QED BY <3>1
  <2>5. \A i \in 0..7 : [row |-> 198 + n + i, of |-> <<"current", 0, i>>] \in CU
    BY DEF ViewTokens, LangBase, Queries
  <2>6. \A i \in 0..7 : [row |-> 198 + n + 8 + i, of |-> <<"future", 0, i>>] \in FU
    BY DEF ViewTokens, LangBase, Queries
  <2> HIDE DEF VS, VE, PA, LA, CU, FU
  <2> QED BY <2>0, <2>1, <2>2, <2>3, <2>4, <2>5, <2>6
<1> HIDE DEF Copied
<1>2. row \in Nat /\ row < n + 214
  BY DEF Prefix, NPrefix, ViewTokens, Queries
<1> SUFFICES Copied(row, Held(n, row))
  BY DEF Copied
<1>3. CASE row < 198
  <2> DEFINE k == ViewOf(row)
             w == Within(row)
  <2>1. k \in Views /\ w \in 0..65 /\ row = k * 66 + w
    BY <1>2, <1>3 DEF ViewOf, Within, Views
  <2>2. Held(n, row) = IF w = 0 THEN <<"vs", k, 0>> ELSE IF w = 65 THEN <<"ve", k, 0>> ELSE <<"patch", k, w - 1>>
    BY <1>3 DEF Held
  <2> HIDE DEF k, w
  <2>3. k \in Int
    BY <2>1 DEF Views
  <2>4. CASE w = 0
    <3>1. row = k * 66
      BY <2>1, <2>3, <2>4
    <3> QED BY <1>1, <2>1, <2>2, <2>4, <3>1
  <2>5. CASE w = 65
    <3>1. row = k * 66 + 66 - 1
      BY <2>1, <2>3, <2>5
    <3>2. Copied(k * 66 + 66 - 1, <<"ve", k, 0>>)
      BY <1>1, <2>1
    <3>3. Held(n, row) = <<"ve", k, 0>>
      BY <2>2, <2>5
    <3> QED BY <3>1, <3>2, <3>3
  <2>6. CASE w \in 1..64
    <3>1. w - 1 \in Patches /\ row = k * 66 + 1 + (w - 1)
      BY <2>1, <2>3, <2>6 DEF Patches
    <3> QED BY <1>1, <2>1, <2>2, <2>6, <3>1
  <2> QED BY <2>1, <2>4, <2>5, <2>6
<1>4. CASE row >= 198 /\ row < 198 + n
  <2>1. row - 198 \in 0..n-1 /\ row = 198 + (row - 198) /\ Held(n, row) = <<"lang", 0, row - 198>>
    BY <1>2, <1>4 DEF Held
  <2> QED BY <1>1, <2>1
<1>5. CASE row >= 198 + n /\ row < 206 + n
  <2>1. /\ row - (198 + n) \in 0..7 /\ row = 198 + n + (row - (198 + n))
        /\ Held(n, row) = <<"current", 0, row - (198 + n)>>
    BY <1>2, <1>5 DEF Held
  <2> QED BY <1>1, <2>1
<1>6. CASE row >= 206 + n
  <2>1. /\ row - (206 + n) \in 0..7 /\ row = 198 + n + 8 + (row - (206 + n))
        /\ Held(n, row) = <<"future", 0, row - (206 + n)>>
    BY <1>2, <1>6 DEF Held
  <2> QED BY <1>1, <2>1
<1> QED BY <1>2, <1>3, <1>4, <1>5, <1>6

\* There are as many copies as rows, one for each; deepstack goes to the patches.
LEMMA RowsAreFilled == ASSUME NEW n \in Nat PROVE RowsFilled(n)
<1>1. {c.row : c \in Copies(n)} = Prefix(n)
  BY CopyIs, RowIsCopied
<1>2. Cardinality(Copies(n)) = NPrefix(n)
  <2> DEFINE f == [row \in Prefix(n) |-> [row |-> row, of |-> Held(n, row)]]
  <2>1. f \in Bijection(Prefix(n), Copies(n))
    <3>1. f \in Injection(Prefix(n), Copies(n))
      BY RowIsCopied DEF Injection, IsInjective
    <3>2. \A c \in Copies(n) : \E row \in Prefix(n) : f[row] = c
      BY CopyIs
    <3> QED BY <3>1, <3>2 DEF Bijection, Surjection, Injection
  <2>2. ExistsBijection(Prefix(n), Copies(n))
    BY <2>1 DEF ExistsBijection
  <2>3. IsFiniteSet(Prefix(n)) /\ Cardinality(Prefix(n)) = NPrefix(n)
    BY FS_Interval DEF Prefix, NPrefix, ViewTokens, Queries
  <2> QED BY <2>2, <2>3, FS_Bijection
<1>3. Deepstack(n) = {c \in Copies(n) : c.of[1] = "patch"}
  BY DEF Deepstack, Copies
<1> QED BY <1>1, <1>2, <1>3 DEF RowsFilled

\* The rows of the suffix see the prefix; the prefix sees neither state nor actions.
LEMMA AttentionIsSound == ASSUME NEW n \in Nat PROVE AttentionSound(n)
BY PrefixAssumption DEF AttentionSound, Sees, Rows, Prefix, Suffix, NPrefix, NSuffix, ViewTokens, Queries, LangBase

\* Positions, in the terms of Held.
LEMMA PositionIs ==
  ASSUME NEW n \in Nat, NEW row \in Rows(n)
  PROVE  /\ row < 198 => /\ Within(row) = 0 =>
                              Position(n)[row] = <<10 * ViewOf(row), 10 * ViewOf(row), 10 * ViewOf(row)>>
                         /\ Within(row) = 65 =>
                              Position(n)[row] = <<10 * ViewOf(row) + 9, 10 * ViewOf(row) + 9, 10 * ViewOf(row) + 9>>
                         /\ Within(row) \in 1..64 =>
                              Position(n)[row] = <<10 * ViewOf(row) + 1, 10 * ViewOf(row) + 1 + ((Within(row) - 1) \div 8),
                                                   10 * ViewOf(row) + 1 + ((Within(row) - 1) % 8)>>
         /\ row >= 198 /\ row < n + 214 => Position(n)[row] = <<row - 168, row - 168, row - 168>>
         /\ row >= n + 214 => Position(n)[row] = <<row - 168, row - 168, row - 168>>
<1>1. NSuffix \in Nat /\ NPrefix(n) = n + 214 /\ LangBase = 198 /\ ViewTokens = 66
  BY PrefixAssumption DEF NSuffix, NPrefix, LangBase, ViewTokens, Queries
<1>2. row \in Nat /\ (row \in Suffix(n) <=> row >= n + 214)
  BY <1>1 DEF Rows, Prefix, Suffix
<1>3. CASE row < 198
  <2>1. row \div 66 = ViewOf(row) /\ row % 66 = Within(row)
    BY <1>2, <1>3 DEF ViewOf, Within
  <2> QED BY <1>1, <1>2, <1>3, <2>1 DEF Position
<1>4. CASE row >= 198 /\ row < n + 214
  BY <1>1, <1>2, <1>4 DEF Position
<1>5. CASE row >= n + 214
  BY <1>1, <1>2, <1>5 DEF Position, SuffixPosition
<1> QED BY <1>2, <1>3, <1>4, <1>5

\* Positions within a view, from view to view and behind the views.
LEMMA PositionsAreInOrder == ASSUME NEW n \in Nat PROVE PositionsAdvance(n)
<1> DEFINE p == Position(n)
           patch == [row \in Rows(n) |-> row < LangBase /\ row % ViewTokens \notin {0, ViewTokens - 1}]
<1> SUFFICES ASSUME NEW a \in Rows(n), NEW b \in Rows(n), a < b
             PROVE  \/ patch[a] /\ patch[b] /\ a \div ViewTokens = b \div ViewTokens /\ p[a] # p[b]
                    \/ \A plane \in 1..3 : p[a][plane] < p[b][plane]
  BY DEF PositionsAdvance
<1>1. a \in Nat /\ b \in Nat
  BY PrefixAssumption DEF Rows, Prefix, Suffix, NPrefix, NSuffix, ViewTokens, Queries
<1>2. ASSUME NEW row \in Rows(n), row < 198
      PROVE  /\ ViewOf(row) \in 0..2 /\ Within(row) \in 0..65 /\ row = 66 * ViewOf(row) + Within(row)
             /\ row \div ViewTokens = ViewOf(row) /\ row % ViewTokens = Within(row)
             /\ patch[row] <=> Within(row) \in 1..64
  <2>1. row \in Nat
    BY PrefixAssumption DEF Rows, Prefix, Suffix, NPrefix, NSuffix, ViewTokens, Queries
  <2>2. ViewOf(row) \in 0..2 /\ Within(row) \in 0..65 /\ row = 66 * ViewOf(row) + Within(row)
    BY <1>2, <2>1 DEF ViewOf, Within
  <2>3. row \div ViewTokens = ViewOf(row) /\ row % ViewTokens = Within(row)
    BY <2>1, <2>2 DEF ViewTokens
  <2>4. ViewTokens = 66 /\ LangBase = 198
    BY DEF LangBase, ViewTokens
  <2>5. patch[row] <=> Within(row) \notin {0, 65}
    <3>1. patch[row] = (row < LangBase /\ row % ViewTokens \notin {0, ViewTokens - 1})
      OBVIOUS
    <3> HIDE DEF patch
    <3>2. row < LangBase /\ row % ViewTokens \notin {0, ViewTokens - 1} <=> Within(row) \notin {0, 65}
      BY <1>2, <2>1, <2>3, <2>4
    <3> QED BY <3>1, <3>2, Zenon
  <2> QED BY <2>2, <2>3, <2>5
<1>3. ASSUME NEW row \in Rows(n), row < 198
      PROVE  /\ Within(row) = 0 => \A plane \in 1..3 : p[row][plane] = 10 * ViewOf(row)
             /\ Within(row) = 65 => \A plane \in 1..3 : p[row][plane] = 10 * ViewOf(row) + 9
             /\ Within(row) \in 1..64 =>
                  /\ p[row][2] = 10 * ViewOf(row) + 1 + ((Within(row) - 1) \div 8)
                  /\ p[row][3] = 10 * ViewOf(row) + 1 + ((Within(row) - 1) % 8)
                  /\ \A plane \in 1..3 : /\ p[row][plane] \in Int
                                         /\ 10 * ViewOf(row) + 1 <= p[row][plane]
                                         /\ p[row][plane] <= 10 * ViewOf(row) + 8
  <2>1. CASE Within(row) \in {0, 65}
    BY <1>3, <2>1, PositionIs
  <2>2. CASE Within(row) \in 1..64
    <3> DEFINE w == Within(row) - 1
               k == ViewOf(row)
    <3>1. p[row] = <<10 * k + 1, 10 * k + 1 + (w \div 8), 10 * k + 1 + (w % 8)>>
      BY <1>3, <2>2, PositionIs
    <3>2. w \in 0..63 /\ k \in 0..2
      BY <1>2, <1>3, <2>2
    <3>3. w \div 8 \in 0..7 /\ w % 8 \in 0..7
      BY <3>2
    <3> HIDE DEF w, k, p
    <3>4. /\ p[row][1] = 10 * k + 1 /\ p[row][2] = 10 * k + 1 + (w \div 8) /\ p[row][3] = 10 * k + 1 + (w % 8)
          /\ \A plane \in 1..3 : plane = 1 \/ plane = 2 \/ plane = 3
      BY <3>1
    <3>5. \A plane \in 1..3 : p[row][plane] \in Int /\ 10 * k + 1 <= p[row][plane] /\ p[row][plane] <= 10 * k + 8
      BY <3>2, <3>3, <3>4
    <3> QED BY <2>2, <3>4, <3>5 DEF w, k
  <2> QED BY <1>2, <1>3, <2>1, <2>2
<1>4. ASSUME NEW row \in Rows(n), row >= 198
      PROVE  \A plane \in 1..3 : p[row][plane] = row - 168
  BY <1>4, PositionIs, PrefixAssumption DEF Rows, Prefix, Suffix, NPrefix, NSuffix, ViewTokens, Queries
<1>5. ASSUME NEW row \in Rows(n), row < 198
      PROVE  \A plane \in 1..3 : /\ p[row][plane] \in Int
                                 /\ 10 * ViewOf(row) <= p[row][plane] /\ p[row][plane] <= 10 * ViewOf(row) + 9
  BY <1>2, <1>3, <1>5
<1> HIDE DEF p, patch
<1>6. CASE a >= 198
  BY <1>1, <1>4, <1>6
<1>7. CASE a < 198 /\ b >= 198
  BY <1>1, <1>2, <1>4, <1>5, <1>7
<1>8. CASE b < 198
  <2>1. CASE ViewOf(a) # ViewOf(b)
    <3>1. ViewOf(a) < ViewOf(b)
      BY <1>1, <1>2, <1>8, <2>1
    <3>2. 10 * ViewOf(a) + 9 < 10 * ViewOf(b)
      BY <1>1, <1>2, <1>8, <3>1
    <3> QED BY <1>1, <1>2, <1>5, <1>8, <3>2
  <2>2. CASE ViewOf(a) = ViewOf(b)
    <3>1. Within(a) < Within(b)
      BY <1>1, <1>2, <1>8, <2>2
    <3>2. CASE Within(a) = 0
      BY <1>1, <1>2, <1>3, <1>8, <2>2, <3>1, <3>2
    <3>3. CASE Within(a) # 0 /\ Within(b) = 65
      <4>1. Within(a) \in 1..64 => \A plane \in 1..3 : p[a][plane] \in Int /\ p[a][plane] <= 10 * ViewOf(a) + 8
        BY <1>1, <1>3, <1>8
      <4>2. \A plane \in 1..3 : p[b][plane] = 10 * ViewOf(b) + 9
        BY <1>3, <1>8, <3>3
      <4>3. Within(a) \in 1..64 /\ ViewOf(a) \in Int
        BY <1>1, <1>2, <1>8, <3>1, <3>2, <3>3
      <4> QED BY <2>2, <4>1, <4>2, <4>3
    <3>4. CASE Within(a) \in 1..64 /\ Within(b) \in 1..64
      <4>1. patch[a] /\ patch[b] /\ a \div ViewTokens = b \div ViewTokens
        BY <1>1, <1>2, <1>8, <2>2, <3>4
      <4>2. \/ (Within(a) - 1) \div 8 # (Within(b) - 1) \div 8
            \/ (Within(a) - 1) % 8 # (Within(b) - 1) % 8
        BY <3>1, <3>4
      <4>3. p[a][2] # p[b][2] \/ p[a][3] # p[b][3]
        <5> DEFINE i == Within(a) - 1
                   j == Within(b) - 1
                   k == ViewOf(a)
        <5>1. p[a][2] = 10 * k + 1 + (i \div 8) /\ p[a][3] = 10 * k + 1 + (i % 8)
          BY <1>1, <1>3, <1>8, <3>4
        <5>2. p[b][2] = 10 * k + 1 + (j \div 8) /\ p[b][3] = 10 * k + 1 + (j % 8)
          BY <1>3, <1>8, <2>2, <3>4
        <5>3. k \in Int /\ i \in Nat /\ j \in Nat
          BY <1>1, <1>2, <1>8, <3>4
        <5>4. i \div 8 \in Int /\ j \div 8 \in Int /\ i % 8 \in Int /\ j % 8 \in Int
          BY <5>3
        <5>5. i \div 8 # j \div 8 \/ i % 8 # j % 8
          BY <4>2
        <5> HIDE DEF i, j, k
        <5> QED BY <5>1, <5>2, <5>3, <5>4, <5>5
      <4> QED BY <4>1, <4>3
    <3> QED BY <1>1, <1>2, <1>8, <3>1, <3>2, <3>3, <3>4
  <2> QED BY <2>1, <2>2
<1> QED BY <1>1, <1>6, <1>7, <1>8

\* For an instruction of any length and a chunk of any size, every row of the prefix is
\* filled once, what is later is further on in every plane, and no row of the prefix
\* depends on an action.
THEOREM PrefixIsSound == Spec => []PrefixSound
<1>1. Inv => PrefixSound
  <2> SUFFICES ASSUME Inv, stage = "run" PROVE job.lang \in SoundLengths
    BY DEF PrefixSound
  <2>1. job \in Requests /\ job.lang \in Nat \ {0}
    BY PreparedAre DEF Inv, Typed
  <2> QED BY <2>1, RowsAreFilled, PositionsAreInOrder, AttentionIsSound DEF SoundLengths
<1> QED BY <1>1, LingBotInvariance, PTL
-----------------------------------------------------------------------------
(* The order in which the caches are written and read. *)

\* Of some positions one is the greatest.
LEMMA Greatest ==
  ASSUME NEW n \in Nat, NEW S \in SUBSET (1..n), S # {}
  PROVE  /\ \E e \in S : \A f \in S : f <= e
         /\ Max(S) \in S /\ \A f \in S : f <= Max(S)
<1> DEFINE T == {n - e : e \in S}
<1>0. \A e \in S : e \in Int /\ n - e \in Nat
  <2>1. \A e \in S : e \in 1..n
    BY Zenon
  <2> QED BY <2>1
<1>1. T \subseteq Nat /\ T # {}
  BY <1>0
<1>2. IsWellFoundedOn(OpToRel(<, Nat), Nat)
  BY NatLessThanWellFounded
<1>3. PICK x \in T : \A y \in T : ~(<<y, x>> \in OpToRel(<, Nat))
  BY <1>1, <1>2, WFMin, Zenon
<1>4. \A y \in T : ~(y < x)
  BY <1>1, <1>3 DEF OpToRel
<1>5. PICK e \in S : x = n - e
  BY <1>3
<1>6. \A f \in S : f <= e
  <2> SUFFICES ASSUME NEW f \in S PROVE f <= e
    OBVIOUS
  <2>1. n - f \in T /\ f \in Int /\ e \in Int
    BY <1>0
  <2>2. ~(n - f < n - e)
    BY <1>4, <1>5, <2>1
  <2> QED BY <2>1, <2>2
<1>7. \E m \in S : \A f \in S : m >= f
  <2>1. e \in Int /\ \A f \in S : f \in Int
    BY <1>0
  <2> QED BY <1>6, <2>1
<1>8. Max(S) \in S /\ \A f \in S : Max(S) >= f
  BY <1>7, Zenon DEF Max
<1>9. \A f \in S : f <= Max(S)
  <2>1. Max(S) \in Int /\ \A f \in S : f \in Int
    BY <1>0, <1>8
  <2> QED BY <1>8, <2>1
<1> QED BY <1>6, <1>8, <1>9

\* The nodes of the graph.
Valid(n) ==
  \/ n.kind \in {"prefix", "stage"} /\ n.step = 0 /\ n.layer \in 1..Layers
  \/ n.kind \in {"put", "attend", "moe"} /\ n.step \in 1..Steps /\ n.layer \in 1..Layers
  \/ n.kind = "x" /\ n.step \in 1..Steps /\ n.layer = 0

\* Layers of the experts before this one.
Before(s, l) == (s - 1) * Layers + (l - 1)

\* The root, counted as they are registered, that a node is added with at the latest.
Due(n) ==
  IF n.kind \in {"prefix", "stage"} THEN n.layer
  ELSE IF n.kind = "x" THEN Layers + 2 * (n.step * Layers) + 1
  ELSE Layers + 2 * Before(n.step, n.layer) + IF n.kind = "put" THEN 1 ELSE 2

LEMMA BeforeIs ==
  ASSUME NEW s \in 1..Steps, NEW l \in 1..Layers
  PROVE  /\ Before(s, l) \in Nat /\ Before(s, l) \in 0..Steps * Layers - 1 /\ Steps * Layers \in Nat
         /\ Before(s, l) + 1 <= s * Layers /\ s * Layers \in Nat
         /\ l > 1 => Before(s, l - 1) = Before(s, l) - 1
         /\ s > 1 => Before(s, 1) = (s - 1) * Layers /\ (s - 1) * Layers \in Nat
         /\ Before(s, Layers) + 1 = s * Layers
         /\ Before(s, l) \div Layers = s - 1 /\ Before(s, l) % Layers = l - 1
<1>1. Layers \in Nat \ {0} /\ Steps \in Nat \ {0} /\ s - 1 \in 0..Steps-1 /\ l - 1 \in 0..Layers-1
  BY KvAssumption
<1>2. (s - 1) * Layers + (l - 1) \in 0..Steps * Layers - 1 /\ (s - 1) * Layers \in Nat /\ Steps * Layers \in Nat
  BY <1>1
<1>3. s * Layers = (s - 1) * Layers + Layers /\ s * Layers \in Nat
  BY <1>1
<1>4. ((s - 1) * Layers + (l - 1)) \div Layers = s - 1 /\ ((s - 1) * Layers + (l - 1)) % Layers = l - 1
  BY <1>1
<1> QED BY <1>1, <1>2, <1>3, <1>4 DEF Before

\* Two layers are in the order of their steps, and within a step in their own.
LEMMA BeforeGrows ==
  ASSUME NEW s \in 1..Steps, NEW t \in 1..Steps, NEW l \in 1..Layers, s < t
  PROVE  Before(s, l) + 1 <= Before(t, l)
<1>1. Layers \in Nat \ {0} /\ s \in Int /\ t \in Int /\ l \in Int
  BY KvAssumption
<1>2. (s - 1) * Layers + Layers <= (t - 1) * Layers /\ (s - 1) * Layers \in Int /\ (t - 1) * Layers \in Int
  <2>1. (s - 1) * Layers + Layers = s * Layers /\ s * Layers <= (t - 1) * Layers
    BY <1>1
  <2> QED BY <1>1, <2>1
<1> QED BY <1>1, <1>2 DEF Before

\* Nodes are due at a number.
LEMMA DueIs == ASSUME NEW n, Valid(n) PROVE Due(n) \in Int
<1>1. Layers \in Nat \ {0} /\ Steps \in Nat \ {0}
  BY KvAssumption
<1>2. CASE n.kind \in {"prefix", "stage"}
  BY <1>2 DEF Due, Valid
<1>3. CASE n.kind = "x"
  <2>1. n.step \in Int
    BY <1>3 DEF Valid
  <2>2. n.step * Layers \in Int
    BY <1>1, <2>1
  <2> QED BY <1>1, <1>3, <2>2 DEF Due
<1>4. CASE n.kind \in {"put", "attend", "moe"}
  <2>1. n.step \in 1..Steps /\ n.layer \in 1..Layers
    BY <1>4 DEF Valid
  <2>2. Before(n.step, n.layer) \in Int
    BY <2>1, BeforeIs
  <2> QED BY <1>1, <1>4, <2>2 DEF Due
<1> QED BY <1>2, <1>3, <1>4 DEF Valid

\* Sources are nodes of the graph and are due no later.
LEMMA SourcesAre ==
  ASSUME NEW n, Valid(n), NEW f16 \in BOOLEAN, NEW m \in Range(Sources(n, f16))
  PROVE  Valid(m) /\ (f16 => Due(m) <= Due(n))
<1>1. Layers \in Nat \ {0} /\ Steps \in Nat \ {0}
  BY KvAssumption
<1>2. CASE n.kind = "prefix"
  <2>1. n.layer > 1 /\ m = Node("prefix", 0, n.layer - 1)
    BY <1>2 DEF Sources, Range
  <2> QED BY <1>1, <1>2, <2>1 DEF Valid, Due, Node
<1>3. CASE n.kind = "stage"
  <2>1. m = Node("prefix", 0, n.layer)
    BY <1>3 DEF Sources, Range
  <2> QED BY <1>1, <1>3, <2>1 DEF Valid, Due, Node
<1>4. ASSUME n.kind \in {"put", "attend"}, m \in Range(Hidden(n.step, n.layer))
      PROVE  Valid(m) /\ Due(m) <= Due(n)
  <2>1. n.step \in 1..Steps /\ n.layer \in 1..Layers
    BY <1>4 DEF Valid
  <2>2. CASE n.layer > 1
    <3>1. m = Node("moe", n.step, n.layer - 1)
      BY <1>4, <2>2 DEF Hidden, Range
    <3>2. n.layer - 1 \in 1..Layers
      BY <1>1, <2>1, <2>2
    <3>3. Valid(m) /\ Due(m) = Layers + 2 * Before(n.step, n.layer - 1) + 2
      BY <2>1, <3>1, <3>2 DEF Valid, Due, Node
    <3>4. Due(n) = Layers + 2 * Before(n.step, n.layer) + IF n.kind = "put" THEN 1 ELSE 2
      BY <1>4 DEF Due
    <3>5. Before(n.step, n.layer - 1) = Before(n.step, n.layer) - 1 /\ Before(n.step, n.layer) \in Nat
      BY <2>1, <2>2, BeforeIs
    <3> QED BY <1>1, <3>3, <3>4, <3>5
  <2>3. CASE ~(n.layer > 1)
    <3>1. n.step > 1 /\ m = Node("x", n.step - 1, 0) /\ n.layer = 1
      BY <1>4, <2>1, <2>3 DEF Hidden, Range
    <3>2. n.step - 1 \in 1..Steps
      BY <1>1, <2>1, <3>1
    <3>3. Valid(m) /\ Due(m) = Layers + 2 * ((n.step - 1) * Layers) + 1
      BY <3>1, <3>2 DEF Valid, Due, Node
    <3>4. Due(n) = Layers + 2 * Before(n.step, 1) + IF n.kind = "put" THEN 1 ELSE 2
      BY <1>4, <3>1 DEF Due
    <3>5. Before(n.step, 1) = (n.step - 1) * Layers /\ (n.step - 1) * Layers \in Nat
      BY <2>1, <3>1, BeforeIs
    <3> QED BY <1>1, <3>3, <3>4, <3>5
  <2> QED BY <2>2, <2>3
<1>5. CASE n.kind = "put"
  BY <1>4, <1>5 DEF Sources
<1>6. CASE n.kind = "attend"
  <2>1. m \in Range(Hidden(n.step, n.layer)) \/ (~f16 /\ m = Node("prefix", 0, n.layer))
    BY <1>6 DEF Sources, Hidden, Range
  <2>2. n.layer \in 1..Layers
    BY <1>6 DEF Valid
  <2>3. CASE ~f16 /\ m = Node("prefix", 0, n.layer)
    BY <2>2, <2>3 DEF Valid, Node
  <2> QED BY <1>4, <1>6, <2>1, <2>3
<1>7. CASE n.kind = "moe"
  <2>1. m = Node("attend", n.step, n.layer)
    BY <1>7 DEF Sources, Range
  <2>2. n.step \in 1..Steps /\ n.layer \in 1..Layers
    BY <1>7 DEF Valid
  <2>3. Before(n.step, n.layer) \in Nat
    BY <2>2, BeforeIs
  <2> QED BY <1>1, <1>7, <2>1, <2>2, <2>3 DEF Valid, Due, Node
<1>8. CASE n.kind = "x"
  <2>1. m = Node("moe", n.step, Layers)
    BY <1>8 DEF Sources, Range
  <2>2. n.step \in 1..Steps
    BY <1>8 DEF Valid
  <2>3. Before(n.step, Layers) + 1 = n.step * Layers /\ n.step * Layers \in Nat /\ Before(n.step, Layers) \in Nat
    <3>1. Layers \in 1..Layers
      BY <1>1
    <3> QED BY <2>2, <3>1, BeforeIs
  <2>4. Due(m) = Layers + 2 * Before(n.step, Layers) + 2 /\ Due(n) = Layers + 2 * (n.step * Layers) + 1
    BY <1>8, <2>1 DEF Due, Node
  <2>5. Due(m) <= Due(n)
    BY <1>1, <2>3, <2>4
  <2>6. Valid(m)
    BY <1>1, <2>1, <2>2 DEF Valid, Node
  <2> QED BY <2>5, <2>6
<1> QED BY <1>2, <1>3, <1>5, <1>6, <1>7, <1>8 DEF Valid

\* Three sequences in a row.
LEMMA Joined ==
  ASSUME NEW S, NEW a \in Seq(S), NEW b \in Seq(S), NEW x \in S,
         NEW r, r = a \o b \o <<x>>
  PROVE  /\ Len(r) = Len(a) + Len(b) + 1 /\ DOMAIN r = 1..Len(a) + Len(b) + 1
         /\ \A i \in 1..Len(a) : r[i] = a[i]
         /\ \A i \in 1..Len(b) : r[Len(a) + i] = b[i]
         /\ r[Len(a) + Len(b) + 1] = x
<1>1. a \o b \in Seq(S) /\ <<x>> \in Seq(S) /\ Len(<<x>>) = 1 /\ <<x>>[1] = x
  OBVIOUS
<1>2. /\ Len(a \o b) = Len(a) + Len(b) /\ Len(a) \in Nat /\ Len(b) \in Nat
      /\ \A i \in 1..Len(a) + Len(b) : (a \o b)[i] = IF i <= Len(a) THEN a[i] ELSE b[i - Len(a)]
  BY ConcatProperties
<1>3. /\ r \in Seq(S) /\ Len(r) = Len(a) + Len(b) + 1
      /\ \A i \in 1..Len(a) + Len(b) + 1 :
           r[i] = IF i <= Len(a) + Len(b) THEN (a \o b)[i] ELSE <<x>>[i - (Len(a) + Len(b))]
  BY <1>1, <1>2, ConcatProperties
<1>4. ASSUME NEW i \in 1..Len(a) PROVE r[i] = a[i]
  BY <1>2, <1>3
<1>5. ASSUME NEW i \in 1..Len(b) PROVE r[Len(a) + i] = b[i]
  <2> DEFINE j == Len(a) + i
  <2>1. j \in 1..Len(a) + Len(b) /\ j \in 1..Len(a) + Len(b) + 1 /\ j <= Len(a) + Len(b)
        /\ ~(j <= Len(a)) /\ j - Len(a) = i
    BY <1>2
  <2> HIDE DEF j
  <2>2. r[j] = b[i]
    BY <1>2, <1>3, <2>1
  <2> QED BY <2>2 DEF j
<1>6. r[Len(a) + Len(b) + 1] = x
  <2> DEFINE j == Len(a) + Len(b) + 1
  <2>1. j \in 1..Len(a) + Len(b) + 1 /\ ~(j <= Len(a) + Len(b)) /\ j - (Len(a) + Len(b)) = 1
    BY <1>2
  <2>2. r[j] = <<x>>[j - (Len(a) + Len(b))]
    BY <1>3, <2>1
  <2> QED BY <1>1, <2>1, <2>2
<1>7. DOMAIN r = 1..Len(a) + Len(b) + 1
  BY <1>3
<1> QED BY <1>3, <1>4, <1>5, <1>6, <1>7

\* What an expert layer registers with F16 caches.
LEMMA LayerIs ==
  ASSUME NEW s, NEW l
  PROVE  ExpertLayer(TRUE, s, l) = <<Node("put", s, l), Node("moe", s, l)>>
<1>1. \A x, y : <<x>> \o <<y>> = <<x, y>>
  <2> SUFFICES ASSUME NEW x, NEW y PROVE <<x>> \o <<y>> = <<x, y>>
    OBVIOUS
  <2>1. <<x>> \in Seq({x, y}) /\ <<y>> \in Seq({x, y}) /\ <<x, y>> \in Seq({x, y})
    OBVIOUS
  <2> DEFINE r == <<x>> \o <<y>>
  <2>2. r \in Seq({x, y}) /\ Len(r) = 2 /\ r[1] = x /\ r[2] = y
    <3>1. Len(<<x>>) = 1 /\ Len(<<y>>) = 1 /\ <<x>>[1] = x /\ <<y>>[1] = y
      OBVIOUS
    <3> QED BY <2>1, <3>1, ConcatProperties
  <2> HIDE DEF r
  <2>3. r = [i \in 1..2 |-> r[i]]
    BY <2>2
  <2>4. r = <<r[1], r[2]>>
    BY <2>3
  <2> QED BY <2>2, <2>4 DEF r
<1>2. ExpertLayer(TRUE, s, l) = <<Node("put", s, l)>> \o <<Node("moe", s, l)>>
  BY Zenon DEF ExpertLayer
<1> QED BY <1>1, <1>2, Zenon

\* Where the roots of the graph with F16 caches are: each is due when it is registered.
LEMMA RootsAre ==
  LET roots == Registered(TRUE)
      last  == Layers + 2 * (Steps * Layers) + 1
  IN /\ Len(roots) = last /\ DOMAIN roots = 1..last /\ last \in Nat
     /\ \A k \in 1..last : Valid(roots[k]) /\ Due(roots[k]) = k
     /\ \A l \in 1..Layers : l \in 1..last /\ roots[l] = Node("stage", 0, l)
     /\ \A s \in 1..Steps, l \in 1..Layers :
          LET k == Layers + 2 * Before(s, l) + 1
          IN /\ k \in 1..last /\ k + 1 \in 1..last
             /\ roots[k] = Node("put", s, l) /\ roots[k + 1] = Node("moe", s, l)
<1> DEFINE n     == 2 * (Steps * Layers)
           s(k)  == 1 + (((k - 1) \div 2) \div Layers)
           l(k)  == 1 + (((k - 1) \div 2) % Layers)
           two(k) == <<Node("put", s(k), l(k)), Node("moe", s(k), l(k))>>
           a     == [i \in 1..Layers |-> Node("stage", 0, i)]
           b     == [k \in 1..n |-> two(k)[1 + ((k - 1) % 2)]]
           x     == Node("x", Steps, 0)
           roots == Registered(TRUE)
           last  == Layers + n + 1
<1>1. Layers \in Nat \ {0} /\ Steps \in Nat \ {0} /\ Steps * Layers \in Nat /\ n \in Nat /\ last \in Nat
  <2>1. Layers \in Nat \ {0} /\ Steps \in Nat \ {0}
    BY KvAssumption
  <2>2. Steps * Layers \in Nat
    BY <2>1
  <2> QED BY <2>1, <2>2
<1>2. roots = a \o b \o <<x>>
  <2>1. Len(ExpertLayer(TRUE, 1, 1)) = 2
    <3>1. ExpertLayer(TRUE, 1, 1) = <<Node("put", 1, 1), Node("moe", 1, 1)>>
      BY LayerIs, Zenon
    <3>2. Len(<<Node("put", 1, 1), Node("moe", 1, 1)>>) = 2
      OBVIOUS
    <3> QED BY <3>1, <3>2, Zenon
  <2>2. Steps * Layers * 2 = n
    BY <1>1
  <2>3. PrefixPass(TRUE) = a
    BY Zenon DEF PrefixPass
  <2>4. \A k : ExpertLayer(TRUE, s(k), l(k)) = two(k)
    BY LayerIs
  <2>5. [k \in 1..n |-> ExpertLayer(TRUE, s(k), l(k))[1 + ((k - 1) % 2)]] = b
    BY <2>4
  <2>6. roots = PrefixPass(TRUE) \o [k \in 1..n |-> ExpertLayer(TRUE, s(k), l(k))[1 + ((k - 1) % 2)]] \o <<x>>
    BY <2>1, <2>2 DEF Registered
  <2> QED BY <2>3, <2>5, <2>6
<1> HIDE DEF roots
<1>3. ASSUME NEW k \in 1..n
      PROVE  /\ s(k) \in 1..Steps /\ l(k) \in 1..Layers
             /\ (k - 1) \div 2 = Before(s(k), l(k))
             /\ \/ b[k] = Node("put", s(k), l(k)) /\ k = 2 * Before(s(k), l(k)) + 1
                \/ b[k] = Node("moe", s(k), l(k)) /\ k = 2 * Before(s(k), l(k)) + 2
  <2> DEFINE p == (k - 1) \div 2
  <2>1. p \in 0..Steps * Layers - 1 /\ ((k - 1 = 2 * p /\ (k - 1) % 2 = 0) \/ (k - 1 = 2 * p + 1 /\ (k - 1) % 2 = 1))
    <3> DEFINE m == Steps * Layers
    <3>1. m \in Nat /\ n = 2 * m
      BY <1>1
    <3> HIDE DEF m, n
    <3>2. k \in Int /\ k >= 1 /\ k <= 2 * m
      BY <3>1
    <3>3. p \in 0..m - 1 /\ ((k - 1 = 2 * p /\ (k - 1) % 2 = 0) \/ (k - 1 = 2 * p + 1 /\ (k - 1) % 2 = 1))
      <4> DEFINE q == (k - 1) % 2
      <4>1. p \in Int /\ q \in 0..1 /\ k - 1 = 2 * p + q
        BY <3>2
      <4> HIDE DEF p, q
      <4>2. p \in 0..m - 1 /\ ((k - 1 = 2 * p /\ q = 0) \/ (k - 1 = 2 * p + 1 /\ q = 1))
        BY <3>1, <3>2, <4>1
      <4> QED BY <4>2 DEF q
    <3> HIDE DEF p
    <3> QED BY <3>3 DEF m
  <2> HIDE DEF p
  <2>2. p \div Layers \in 0..Steps-1 /\ p % Layers \in 0..Layers-1 /\ p = (p \div Layers) * Layers + (p % Layers)
    BY <1>1, <2>1
  <2>3. s(k) = 1 + (p \div Layers) /\ l(k) = 1 + (p % Layers)
    BY DEF p
  <2> HIDE DEF s, l
  <2>4. s(k) \in 1..Steps /\ l(k) \in 1..Layers
    BY <1>1, <2>2, <2>3
  <2>5. Before(s(k), l(k)) = p
    BY <2>2, <2>3 DEF Before
  <2>6. b[k] = two(k)[1 + ((k - 1) % 2)]
    OBVIOUS
  <2>7. (k - 1) % 2 = 0 => b[k] = Node("put", s(k), l(k))
    BY <2>6
  <2>8. (k - 1) % 2 = 1 => b[k] = Node("moe", s(k), l(k))
    BY <2>6
  <2>9. \/ b[k] = Node("put", s(k), l(k)) /\ k = 2 * p + 1
        \/ b[k] = Node("moe", s(k), l(k)) /\ k = 2 * p + 2
    <3> HIDE DEF b
    <3>1. (k = 2 * p + 1 /\ (k - 1) % 2 = 0) \/ (k = 2 * p + 2 /\ (k - 1) % 2 = 1)
      BY <2>1
    <3> QED BY <2>7, <2>8, <3>1
  <2> HIDE DEF b
  <2>10. \/ b[k] = Node("put", s(k), l(k)) /\ k = 2 * Before(s(k), l(k)) + 1
         \/ b[k] = Node("moe", s(k), l(k)) /\ k = 2 * Before(s(k), l(k)) + 2
    BY <2>5, <2>9
  <2>11. (k - 1) \div 2 = Before(s(k), l(k))
    BY <2>5 DEF p
  <2> QED BY <2>4, <2>10, <2>11, Zenon
<1>4. /\ a \in Seq(Nodes) /\ Len(a) = Layers /\ \A i \in 1..Layers : a[i] = Node("stage", 0, i)
      /\ x \in Nodes
  BY <1>1 DEF Node, Nodes
<1>5. b \in Seq(Nodes) /\ Len(b) = n
  <2>1. \A k \in 1..n : b[k] \in Nodes
    <3> SUFFICES ASSUME NEW k \in 1..n PROVE b[k] \in Nodes
      OBVIOUS
    <3> HIDE DEF s, l, b
    <3>1. s(k) \in 0..Steps /\ l(k) \in 0..Layers
      BY <1>1, <1>3
    <3>2. b[k] = Node("put", s(k), l(k)) \/ b[k] = Node("moe", s(k), l(k))
      BY <1>3
    <3> QED BY <3>1, <3>2 DEF Node, Nodes
  <2>2. b = [k \in 1..n |-> b[k]]
    OBVIOUS
  <2> HIDE DEF b, n
  <2>3. b \in [1..n -> Nodes]
    BY <2>1, <2>2
  <2> QED BY <1>1, <2>3
<1> HIDE DEF a, b, x, n, s, l
<1>6. /\ Len(roots) = last /\ DOMAIN roots = 1..last
      /\ \A i \in 1..Layers : roots[i] = a[i]
      /\ \A k \in 1..n : roots[Layers + k] = b[k]
      /\ roots[last] = x
  <2>1. /\ Len(roots) = Len(a) + Len(b) + 1 /\ DOMAIN roots = 1..Len(a) + Len(b) + 1
        /\ \A i \in 1..Len(a) : roots[i] = a[i]
        /\ \A i \in 1..Len(b) : roots[Len(a) + i] = b[i]
        /\ roots[Len(a) + Len(b) + 1] = x
    <3>1. a \in Seq(Nodes) /\ b \in Seq(Nodes) /\ x \in Nodes
      BY <1>4, <1>5
    <3> QED BY <1>2, <3>1, Joined
  <2>2. Len(a) = Layers /\ Len(b) = n
    BY <1>4, <1>5
  <2> QED BY <2>1, <2>2
<1>7. ASSUME NEW i \in 1..Layers
      PROVE  i \in 1..last /\ roots[i] = Node("stage", 0, i) /\ Valid(roots[i]) /\ Due(roots[i]) = i
  <2>1. roots[i] = Node("stage", 0, i)
    BY <1>4, <1>6
  <2> QED BY <1>1, <2>1 DEF Valid, Due, Node
<1>8. ASSUME NEW k \in 1..n
      PROVE  Valid(roots[Layers + k]) /\ Due(roots[Layers + k]) = Layers + k
  <2>1. s(k) \in 1..Steps /\ l(k) \in 1..Layers /\ Before(s(k), l(k)) \in Nat
    BY <1>3, BeforeIs
  <2>2. roots[Layers + k] = b[k]
    BY <1>6
  <2>3. CASE b[k] = Node("put", s(k), l(k)) /\ k = 2 * Before(s(k), l(k)) + 1
    BY <1>1, <2>1, <2>2, <2>3 DEF Valid, Due, Node
  <2>4. CASE b[k] = Node("moe", s(k), l(k)) /\ k = 2 * Before(s(k), l(k)) + 2
    BY <1>1, <2>1, <2>2, <2>4 DEF Valid, Due, Node
  <2> QED BY <1>3, <2>3, <2>4
<1>9. Valid(roots[last]) /\ Due(roots[last]) = last
  <2>1. roots[last] = Node("x", Steps, 0)
    BY <1>6 DEF x
  <2>2. Valid(roots[last]) /\ Due(roots[last]) = Layers + 2 * (Steps * Layers) + 1
    BY <1>1, <2>1 DEF Valid, Due, Node
  <2> QED BY <2>2 DEF n
<1>10. ASSUME NEW k \in 1..last PROVE Valid(roots[k]) /\ Due(roots[k]) = k
  <2>1. CASE k <= Layers
    BY <1>7, <2>1
  <2>2. CASE k > Layers /\ k # last
    <3>1. k - Layers \in 1..n /\ Layers + (k - Layers) = k
      BY <1>1, <2>2
    <3> QED BY <1>8, <3>1
  <2>3. CASE k = last
    BY <1>9, <2>3
  <2> QED BY <1>1, <2>1, <2>2, <2>3
<1>11. ASSUME NEW t \in 1..Steps, NEW m \in 1..Layers
       PROVE  LET k == Layers + 2 * Before(t, m) + 1
              IN /\ k \in 1..last /\ k + 1 \in 1..last
                 /\ roots[k] = Node("put", t, m) /\ roots[k + 1] = Node("moe", t, m)
  <2> DEFINE p == Before(t, m)
  <2>1. p \in 0..Steps * Layers - 1 /\ p \div Layers = t - 1 /\ p % Layers = m - 1
    BY BeforeIs
  <2> HIDE DEF p
  <2>2. 2 * p + 1 \in 1..n /\ 2 * p + 2 \in 1..n
    BY <1>1, <2>1 DEF n
  <2>3. ((2 * p + 1) - 1) \div 2 = p /\ ((2 * p + 2) - 1) \div 2 = p
    BY <2>1
  <2>4. s(2 * p + 1) = t /\ s(2 * p + 2) = t /\ l(2 * p + 1) = m /\ l(2 * p + 2) = m
    BY <2>1, <2>3 DEF s, l
  <2>5. b[2 * p + 1] = Node("put", t, m)
    <3>1. 2 * p + 1 # 2 * p + 2
      BY <2>1
    <3> QED BY <1>3, <2>2, <2>4, <3>1 DEF p
  <2>6. b[2 * p + 2] = Node("moe", t, m)
    <3>1. 2 * p + 1 # 2 * p + 2
      BY <2>1
    <3> QED BY <1>3, <2>2, <2>4, <3>1 DEF p
  <2>7. roots[Layers + (2 * p + 1)] = Node("put", t, m) /\ roots[Layers + (2 * p + 2)] = Node("moe", t, m)
    BY <1>6, <2>2, <2>5, <2>6
  <2>8. /\ Layers + (2 * p + 1) = Layers + 2 * p + 1 /\ Layers + (2 * p + 2) = (Layers + 2 * p + 1) + 1
        /\ Layers + 2 * p + 1 \in 1..last /\ (Layers + 2 * p + 1) + 1 \in 1..last
    BY <1>1, <2>1, <2>2
  <2> QED BY <2>7, <2>8 DEF p
<1> QED BY <1>1, <1>6, <1>7, <1>10, <1>11 DEF roots, n

\* What the first k roots added is valid, and due with one of them.
LEMMA AddedIsDue ==
  ASSUME NEW g, NEW roots, NEW f16 \in BOOLEAN, InOrderOf(g, roots, f16), NEW k \in DOMAIN roots,
         DOMAIN roots = 1..Len(roots), Len(roots) \in Nat,
         \A m \in DOMAIN roots : Valid(roots[m]) /\ (f16 => Due(roots[m]) = m),
         NEW i \in DOMAIN g, AddedBy(i, k, g, roots)
  PROVE  Valid(g[i]) /\ (f16 => Due(g[i]) <= k)
<1> DEFINE good(j) == Valid(g[j]) /\ (f16 => Due(g[j]) <= k)
           bad     == {j \in 1..Len(g) : AddedBy(j, k, g, roots) /\ ~good(j)}
<1>1. g \in Seq(Nodes) /\ Len(g) \in Nat /\ DOMAIN g = 1..Len(g)
  BY DEF InOrderOf
<1>2. \A j \in DOMAIN g : AddedBy(j, k, g, roots) =>
        \/ \E m \in 1..k : g[j] = roots[m]
        \/ \E h \in j+1..Len(g) : AddedBy(h, k, g, roots) /\ g[j] \in Range(Sources(g[h], f16))
  BY DEF InOrderOf
<1>3. SUFFICES ASSUME bad # {} PROVE FALSE
  BY <1>1
<1>4. PICK j \in bad : \A h \in bad : h <= j
  <2>1. bad \in SUBSET (1..Len(g))
    OBVIOUS
  <2> HIDE DEF bad
  <2> QED BY <1>1, <1>3, <2>1, Greatest
<1>5. j \in 1..Len(g) /\ AddedBy(j, k, g, roots) /\ ~good(j)
  OBVIOUS
<1>6. CASE \E m \in 1..k : g[j] = roots[m]
  <2>1. PICK m \in 1..k : g[j] = roots[m]
    BY <1>6
  <2>2. m \in DOMAIN roots /\ m <= k
    OBVIOUS
  <2>3. Valid(g[j]) /\ (f16 => Due(g[j]) = m)
    BY <2>1, <2>2
  <2> QED BY <1>5, <2>2, <2>3
<1>7. CASE \E h \in j+1..Len(g) : AddedBy(h, k, g, roots) /\ g[j] \in Range(Sources(g[h], f16))
  <2>1. PICK h \in j+1..Len(g) : AddedBy(h, k, g, roots) /\ g[j] \in Range(Sources(g[h], f16))
    BY <1>7
  <2>2. h \in 1..Len(g) /\ ~(h <= j)
    BY <1>1, <1>5
  <2>3. good(h)
    BY <1>4, <2>1, <2>2
  <2>4. Valid(g[j]) /\ (f16 => Due(g[j]) <= Due(g[h]))
    BY <2>1, <2>3, SourcesAre
  <2>5. f16 => Due(g[j]) \in Int /\ Due(g[h]) \in Int
    BY <2>3, <2>4, DueIs
  <2> QED BY <1>5, <2>3, <2>4, <2>5
<1> QED BY <1>1, <1>2, <1>5, <1>6, <1>7

\* A root that comes before what a node is due with is in front of the node.
LEMMA RootInFront ==
  ASSUME GraphInOrder, NEW i \in DOMAIN Graph[TRUE],
         NEW k \in 1..Layers + 2 * (Steps * Layers) + 1
  PROVE  /\ Valid(Graph[TRUE][i]) /\ Due(Graph[TRUE][i]) \in Int
         /\ k < Due(Graph[TRUE][i]) => \E p \in 1..i-1 : Graph[TRUE][p] = Registered(TRUE)[k]
<1> DEFINE g == Graph[TRUE]
           roots == Registered(TRUE)
           last  == Layers + 2 * (Steps * Layers) + 1
<1>1. InOrderOf(g, roots, TRUE)
  BY Zenon DEF GraphInOrder
<1>2. /\ Len(roots) = last /\ DOMAIN roots = 1..last /\ last \in Nat
      /\ \A m \in DOMAIN roots : Valid(roots[m]) /\ (TRUE => Due(roots[m]) = m)
  BY RootsAre
<1> HIDE DEF g, roots, last
<1>3. last \in 1..last /\ DOMAIN roots = 1..Len(roots) /\ Len(roots) \in Nat /\ last \in DOMAIN roots
  <2>1. k \in 1..last
    BY DEF last
  <2> QED BY <1>2, <2>1
<1>4. \A h \in DOMAIN roots, j \in DOMAIN g : AddedBy(j, h, g, roots) => Valid(g[j]) /\ (TRUE => Due(g[j]) <= h)
  BY <1>1, <1>2, <1>3, AddedIsDue, Zenon
<1>5. i \in DOMAIN g /\ k \in DOMAIN roots /\ DOMAIN g = 1..Len(g) /\ Len(g) \in Nat
  <2>1. g \in Seq(Nodes)
    BY <1>1, Zenon DEF InOrderOf
  <2>2. i \in DOMAIN g
    BY DEF g
  <2>3. k \in DOMAIN roots
    BY <1>2 DEF last
  <2> QED BY <2>1, <2>2, <2>3
<1>6. Valid(g[i])
  <2>1. AddedBy(i, Len(roots), g, roots)
    BY <1>1, <1>5, Zenon DEF InOrderOf
  <2> QED BY <1>2, <1>3, <1>4, <1>5, <2>1
<1>7. Due(g[i]) \in Int
  BY <1>6, DueIs
<1>8. ASSUME k < Due(g[i]) PROVE \E p \in 1..i-1 : g[p] = roots[k]
  <2>1. PICK p \in DOMAIN g : g[p] = roots[k]
    BY <1>1, <1>5, Zenon DEF InOrderOf
  <2>2. CASE p < i
    BY <1>5, <2>1, <2>2
  <2>3. CASE p >= i
    <3>1. p \in i..Len(g) /\ k \in 1..k
      BY <1>2, <1>5, <2>3
    <3>2. AddedBy(i, k, g, roots)
      BY <2>1, <3>1 DEF AddedBy
    <3>3. Due(g[i]) <= k
      BY <1>4, <1>5, <3>2
    <3> QED BY <1>2, <1>5, <1>7, <1>8, <3>3
  <2> QED BY <1>5, <2>2, <2>3
<1> QED BY <1>6, <1>7, <1>8 DEF g, roots

\* Attention comes after both of its copies, and after no copy of a later step.
LEMMA AttendReads ==
  ASSUME GraphInOrder, NEW i \in DOMAIN Graph[TRUE], Graph[TRUE][i].kind = "attend", NEW cache, NEW id
  PROVE  LET n == Graph[TRUE][i]
         IN /\ PrefixAt(Graph[TRUE], i, cache, id, n.layer) = id
            /\ SuffixAt(Graph[TRUE], i, cache, id, n.layer) = <<id, n.step>>
<1> DEFINE g     == Graph[TRUE]
           roots == Registered(TRUE)
           last  == Layers + 2 * (Steps * Layers) + 1
           s     == g[i].step
           l     == g[i].layer
           At(t) == Layers + 2 * Before(t, l) + 1
           puts  == {j \in 1..i-1 : g[j].kind = "put" /\ g[j].layer = l}
           q     == Max(puts)
<1>1. /\ g \in Seq(Nodes) /\ DOMAIN g = 1..Len(g) /\ Len(g) \in Nat
      /\ \A j, h \in DOMAIN g : g[j] = g[h] => j = h
      /\ \A j \in DOMAIN g : \A n \in Range(Sources(g[j], TRUE)) : \E h \in 1..j-1 : g[h] = n
  <2>1. InOrderOf(g, roots, TRUE)
    BY Zenon DEF GraphInOrder
  <2> HIDE DEF g, roots
  <2>2. /\ g \in Seq(Nodes)
        /\ \A j, h \in DOMAIN g : g[j] = g[h] => j = h
        /\ \A j \in DOMAIN g : \A n \in Range(Sources(g[j], TRUE)) : \E h \in 1..j-1 : g[h] = n
    BY <2>1, Zenon DEF InOrderOf
  <2>3. DOMAIN g = 1..Len(g) /\ Len(g) \in Nat
    BY <2>2
  <2> QED BY <2>2, <2>3, Zenon
<1>2. last \in Nat /\ Layers \in Nat \ {0} /\ (\A m \in 1..Layers : m \in 1..last /\ roots[m] = Node("stage", 0, m))
  BY RootsAre, KvAssumption
<1>3. \A t \in 1..Steps, m \in 1..Layers :
        LET k == Layers + 2 * Before(t, m) + 1
        IN k \in 1..last /\ k + 1 \in 1..last /\ roots[k] = Node("put", t, m) /\ roots[k + 1] = Node("moe", t, m)
  BY RootsAre
<1>4. \A j \in DOMAIN g : \A k \in 1..last :
        Valid(g[j]) /\ (k < Due(g[j]) => \E p \in 1..j-1 : g[p] = roots[k])
  BY RootInFront
<1> HIDE DEF g, roots, last
<1>5. i \in 1..Len(g) /\ Valid(g[i]) /\ g[i].kind = "attend"
  <2>1. 1 \in 1..last
    BY <1>2
  <2> QED BY <1>1, <1>4, <2>1 DEF g
<1>6. s \in 1..Steps /\ l \in 1..Layers /\ Due(g[i]) = At(s) + 1 /\ Before(s, l) \in Nat
  <2>1. s \in 1..Steps /\ l \in 1..Layers
    BY <1>5 DEF Valid
  <2>2. Before(s, l) \in Nat
    BY <2>1, BeforeIs
  <2> QED BY <1>2, <1>5, <2>1, <2>2 DEF Due
<1>7. \A j \in DOMAIN g : g[j] = Node(g[j].kind, g[j].step, g[j].layer)
  <2> SUFFICES ASSUME NEW j \in DOMAIN g PROVE g[j] = Node(g[j].kind, g[j].step, g[j].layer)
    OBVIOUS
  <2>1. g[j] \in Nodes
    BY <1>1
  <2> QED BY <2>1 DEF Nodes, Node
<1> HIDE DEF s, l
<1>8. \A t \in 1..Steps : /\ At(t) \in 1..last /\ At(t) + 1 \in 1..last
                         /\ roots[At(t)] = Node("put", t, l) /\ roots[At(t) + 1] = Node("moe", t, l)
  BY <1>3, <1>6
<1>9. \E j \in 1..i-1 : g[j] = Node("stage", 0, l)
  <2>1. l \in 1..last /\ roots[l] = Node("stage", 0, l) /\ l < Due(g[i])
    BY <1>2, <1>6
  <2> QED BY <1>1, <1>4, <1>5, <2>1
<1>10. PICK p \in 1..i-1 : g[p] = Node("put", s, l)
  <2>1. At(s) \in 1..last /\ roots[At(s)] = Node("put", s, l) /\ At(s) < Due(g[i])
    BY <1>2, <1>6, <1>8
  <2>2. i \in DOMAIN g
    BY <1>1, <1>5
  <2>3. \E p \in 1..i-1 : g[p] = roots[At(s)]
    BY <1>4, <2>1, <2>2, Zenon
  <2> QED BY <2>1, <2>3
<1>11. p \in puts
  BY <1>10 DEF Node
<1>12. q \in puts /\ p <= q
  <2>1. puts \in SUBSET (1..Len(g)) /\ puts # {}
    BY <1>1, <1>5, <1>11
  <2> HIDE DEF puts
  <2> QED BY <1>1, <1>11, <2>1, Greatest
<1> HIDE DEF q
<1>13. /\ q \in 1..i-1 /\ q \in DOMAIN g /\ p \in DOMAIN g /\ i \in DOMAIN g
       /\ g[q].kind = "put" /\ g[q].layer = l
  BY <1>1, <1>5, <1>12
<1> HIDE DEF puts
<1>14. Valid(g[q]) /\ g[q].step \in 1..Steps
  <2>1. 1 \in 1..last
    BY <1>2
  <2>2. Valid(g[q])
    BY <1>4, <1>13, <2>1, Zenon
  <2> QED BY <1>13, <2>2 DEF Valid
<1> DEFINE t == g[q].step
<1>15. g[q] = Node("put", t, l) /\ Due(g[q]) = At(t) /\ Due(g[p]) = At(s) /\ Before(t, l) \in Nat
  <2>1. g[q] = Node("put", t, l)
    BY <1>7, <1>13
  <2>2. Before(t, l) \in Nat
    BY <1>6, <1>14, BeforeIs
  <2> QED BY <1>2, <1>10, <2>1, <2>2 DEF Due, Node
<1> HIDE DEF t
<1>16. t \in 1..Steps
  BY <1>14 DEF t
<1>17. ~(s < t)
  <2> SUFFICES ASSUME s < t PROVE FALSE
    OBVIOUS
  <2>1. Before(s, l) + 1 <= Before(t, l)
    BY <1>6, <1>16, BeforeGrows
  <2>2. At(s) + 1 < Due(g[q]) /\ At(s) + 1 \in 1..last /\ roots[At(s) + 1] = Node("moe", s, l)
    BY <1>2, <1>6, <1>8, <1>15, <2>1
  <2>3. PICK r \in 1..q-1 : g[r] = roots[At(s) + 1]
    BY <1>4, <1>13, <2>2, Zenon
  <2>4. r \in DOMAIN g /\ Node("attend", s, l) \in Range(Sources(g[r], TRUE))
    <3>1. g[r] = Node("moe", s, l)
      BY <2>2, <2>3
    <3> QED BY <1>1, <1>13, <3>1 DEF Sources, Node, Range
  <2>5. PICK h \in 1..r-1 : g[h] = Node("attend", s, l)
    BY <1>1, <2>4, Zenon
  <2>6. g[i] = Node("attend", s, l)
    BY <1>5, <1>7, <1>13 DEF s, l
  <2>7. h \in DOMAIN g
    BY <1>1, <1>13, <2>3
  <2>8. h = i
    BY <1>1, <1>13, <2>5, <2>6, <2>7
  <2> QED BY <1>13, <2>3, <2>8
<1>18. ~(t < s)
  <2> SUFFICES ASSUME t < s PROVE FALSE
    OBVIOUS
  <2>1. Before(t, l) + 1 <= Before(s, l)
    BY <1>6, <1>16, BeforeGrows
  <2>2. At(t) < Due(g[p]) /\ At(t) \in 1..last /\ roots[At(t)] = Node("put", t, l)
    BY <1>2, <1>6, <1>8, <1>15, <1>16, <2>1
  <2>3. PICK r \in 1..p-1 : g[r] = roots[At(t)]
    BY <1>4, <1>13, <2>2, Zenon
  <2>4. r \in DOMAIN g
    BY <1>1, <1>13, <2>3
  <2>5. g[r] = g[q]
    BY <1>15, <2>2, <2>3
  <2>6. r = q
    BY <1>1, <1>13, <2>4, <2>5
  <2> QED BY <1>12, <1>13, <2>3, <2>6
<1>19. t = s
  BY <1>6, <1>16, <1>17, <1>18
<1>20. PrefixAt(g, i, cache, id, l) = id
  BY <1>9 DEF PrefixAt
<1>21. SuffixAt(g, i, cache, id, l) = <<id, s>>
  BY <1>12, <1>19 DEF SuffixAt, puts, q, t
<1> QED BY <1>20, <1>21 DEF g, s, l

\* What attention reads is of the run it is part of, and of its own step.
LEMMA OwnReads ==
  ASSUME GraphInOrder, NEW f16 \in BOOLEAN, NEW cache, NEW id,
         NEW a \in RunGraph(f16, cache, id).reads
  PROVE  a.prefix = id /\ a.suffix = <<id, a.step>>
<1> DEFINE g == Graph[f16]
<1>1. PICK i \in {i \in DOMAIN g : g[i].kind = "attend"} :
        a = [layer |-> g[i].layer, step |-> g[i].step,
             prefix |-> IF f16 THEN PrefixAt(g, i, cache, id, g[i].layer) ELSE id,
             suffix |-> IF f16 THEN SuffixAt(g, i, cache, id, g[i].layer) ELSE <<id, g[i].step>>]
  BY DEF RunGraph
<1>2. CASE f16 = FALSE
  BY <1>1, <1>2
<1>3. CASE f16 = TRUE
  <2>1. g = Graph[TRUE] /\ i \in DOMAIN Graph[TRUE] /\ Graph[TRUE][i].kind = "attend"
    BY <1>1, <1>3
  <2> HIDE DEF g
  <2>2. /\ PrefixAt(Graph[TRUE], i, cache, id, Graph[TRUE][i].layer) = id
        /\ SuffixAt(Graph[TRUE], i, cache, id, Graph[TRUE][i].layer) = <<id, Graph[TRUE][i].step>>
    BY <2>1, AttendReads, Zenon
  <2>3. /\ PrefixAt(g, i, cache, id, g[i].layer) = id
        /\ SuffixAt(g, i, cache, id, g[i].layer) = <<id, g[i].step>>
    BY <2>1, <2>2
  <2> QED BY <1>1, <1>3, <2>3
<1> QED BY <1>2, <1>3

\* A run leaves caches in the caches.
LEMMA CachesAre ==
  ASSUME GraphInOrder, NEW f16 \in BOOLEAN, NEW id \in {0, 1},
         NEW cache \in [1..Layers -> [prefix : 0..2, suffix : (0..2) \X (0..Steps)]]
  PROVE  RunGraph(f16, cache, id).kv \in [1..Layers -> [prefix : 0..2, suffix : (0..2) \X (0..Steps)]]
<1> DEFINE g == Graph[f16]
           i == Len(g) + 1
<1>1. g \in Seq(Nodes) /\ DOMAIN g = 1..Len(g) /\ Len(g) \in Nat
  <2>1. g \in Seq(Nodes)
    BY Zenon DEF GraphInOrder, InOrderOf
  <2> QED BY <2>1
<1> SUFFICES ASSUME NEW l \in 1..Layers
             PROVE  /\ PrefixAt(g, i, cache, id, l) \in 0..2
                    /\ SuffixAt(g, i, cache, id, l) \in (0..2) \X (0..Steps)
  BY DEF RunGraph
<1> HIDE DEF g
<1>2. cache[l].prefix \in 0..2 /\ cache[l].suffix \in (0..2) \X (0..Steps) /\ id \in 0..2
  OBVIOUS
<1>3. PrefixAt(g, i, cache, id, l) \in 0..2
  BY <1>2 DEF PrefixAt
<1>4. SuffixAt(g, i, cache, id, l) \in (0..2) \X (0..Steps)
  <2> DEFINE puts == {j \in 1..i-1 : g[j].kind = "put" /\ g[j].layer = l}
  <2>1. CASE puts = {}
    BY <1>2, <2>1 DEF SuffixAt
  <2>2. CASE puts # {}
    <3>1. puts \in SUBSET (1..Len(g))
      BY <1>1
    <3> HIDE DEF puts
    <3>2. Max(puts) \in DOMAIN g
      BY <1>1, <2>2, <3>1, Greatest
    <3>3. g[Max(puts)].step \in 0..Steps
      <4>1. g[Max(puts)] \in Nodes
        BY <1>1, <3>2
      <4> QED BY <4>1 DEF Nodes
    <3>4. SuffixAt(g, i, cache, id, l) = <<id, g[Max(puts)].step>>
      BY <2>2 DEF SuffixAt, puts
    <3> QED BY <1>2, <3>3, <3>4
  <2> QED BY <2>1, <2>2
<1> QED BY <1>3, <1>4

\* If the graph is in the order that ggml promises, every attention of every step reads
\* the prefix of its own request and the suffix of its own step.
THEOREM CachesAreOwn == GraphInOrder => (Spec => []ReadsOwnKv)
<1> SUFFICES ASSUME GraphInOrder PROVE Spec => []ReadsOwnKv
  OBVIOUS
<1>1. Init => ReadsOwnKv
  BY DEF Init, ReadsOwnKv
<1>2. Inv /\ ReadsOwnKv /\ [Next]_vars => ReadsOwnKv'
  <2> SUFFICES ASSUME Inv, ReadsOwnKv, [Next]_vars PROVE ReadsOwnKv'
    OBVIOUS
  <2>1. CASE Run
    <3>1. out'.reads = RunGraph(F16, kv, turn).reads /\ out'.id = turn
      BY <2>1 DEF Run
    <3>2. F16 \in BOOLEAN
      BY DEF F16
    <3>3. \A a \in RunGraph(F16, kv, turn).reads : a.prefix = turn /\ a.suffix = <<turn, a.step>>
      <4> SUFFICES ASSUME NEW a \in RunGraph(F16, kv, turn).reads
                   PROVE  a.prefix = turn /\ a.suffix = <<turn, a.step>>
        OBVIOUS
      <4> QED BY <3>2, OwnReads
    <3> QED BY <3>1, <3>3 DEF ReadsOwnKv
  <2>2. CASE out' = out
    BY <2>2 DEF ReadsOwnKv
  <2>3. CASE out' = Empty
    BY <2>3 DEF ReadsOwnKv
  <2>4. Run \/ out' = out \/ out' = Empty
    <3>1. ASSUME NEW r \in Requests, Predict(r) \/ Prepare(r) PROVE out' = out \/ out' = Empty
      BY <3>1 DEF Predict, Prepare
    <3> QED BY <3>1 DEF Next, vars, Compute, KeepGraph, BuildGraph, BuildFails, RunFails
  <2> QED BY <2>1, <2>2, <2>3, <2>4
<1> QED BY <1>1, <1>2, LingBotInvariance, PTL DEF Spec

\* The caches hold what runs left there.
THEOREM LingBotTypes == GraphInOrder => (Spec => []TypeOK)
<1> SUFFICES ASSUME GraphInOrder PROVE Spec => []TypeOK
  OBVIOUS
<1> DEFINE Caches == [1..Layers -> [prefix : 0..2, suffix : (0..2) \X (0..Steps)]]
<1>0. Unused \in Caches
  <2>1. <<2, 0>> \in (0..2) \X (0..Steps)
    BY KvAssumption
  <2> QED BY <2>1 DEF Unused
<1>1. Init => TypeOK
  BY <1>0, InitInv DEF Init, Inv, TypeOK
<1>2. Inv /\ TypeOK /\ [Next]_vars => TypeOK'
  <2> SUFFICES ASSUME Inv, kv \in Caches, [Next]_vars PROVE kv' \in Caches
    BY NextInv DEF Inv, TypeOK
  <2>1. RunGraph(F16, kv, turn).kv \in Caches
    <3>1. F16 \in BOOLEAN /\ turn \in {0, 1}
      BY DEF F16, Inv, Typed
    <3> QED BY <3>1, CachesAre
  <2> HIDE DEF Caches
  <2>2. CASE Run \/ RunFails
    BY <2>1, <2>2 DEF Run, RunFails
  <2>3. CASE BuildGraph \/ BuildFails
    BY <1>0, <2>3 DEF BuildGraph, BuildFails
  <2>4. CASE KeepGraph \/ Compute \/ UNCHANGED vars
    BY <2>4 DEF KeepGraph, Compute, vars
  <2>5. ASSUME NEW r \in Requests, Predict(r) \/ Prepare(r) PROVE kv' \in Caches
    BY <2>5 DEF Predict, Prepare
  <2> QED BY <2>2, <2>3, <2>4, <2>5 DEF Next
<1> QED BY <1>1, <1>2, LingBotInvariance, PTL DEF Spec
=============================================================================
