--------------------------- MODULE LingBotPrefix ---------------------------
(***************************************************************************)
(* What LingBot-VLA v2 uploads for a request whose instruction has n       *)
(* tokens: the rows of the prefix, the rotary positions of prefix and      *)
(* suffix, the two attention masks, and the robot's state in the order of  *)
(* the model (compute_actions of lingbot_vla_v2.cpp).  Rows are named by   *)
(* what is copied into them.                                               *)
(***************************************************************************)
EXTENDS Integers, Sequences, FiniteSets

CONSTANTS
  Chunk,        (* cfg.n_suffix: actions of a chunk                         *)
  VlmCausal,    (* vlm_causal_                                              *)
  RealDim,      (* real_state_dim: numbers in the robot's state             *)
  MaxDim,       (* max_state_dim: places in the canonical one               *)
  RawMap        (* the checkpoint's raw map, <<>> if it has none            *)

ASSUME PrefixAssumption ==
  /\ Chunk \in Nat \ {0} /\ VlmCausal \in BOOLEAN
  /\ RealDim \in Nat \ {0} /\ MaxDim \in Nat /\ RealDim <= MaxDim
  /\ RawMap \in Seq(0..MaxDim-1)

Views      == 0..2
ViewTokens == 66
Patches    == 0..63
Queries    == 8
LangBase   == 3 * ViewTokens

NPrefix(n) == 3 * ViewTokens + n + 2 * Queries
NSuffix    == 1 + Chunk
Prefix(n)  == 0..NPrefix(n)-1
Suffix(n)  == NPrefix(n)..NPrefix(n)+NSuffix-1
Rows(n)    == Prefix(n) \cup Suffix(n)

-----------------------------------------------------------------------------
\* Mutant: the end of a view overwrites its last patch.
CopiesShort(n) ==
       {[row |-> k * ViewTokens, of |-> <<"vs", k, 0>>] : k \in Views}
  \cup {[row |-> k * ViewTokens + ViewTokens - 2, of |-> <<"ve", k, 0>>] : k \in Views}
  \cup {[row |-> k * ViewTokens + 1 + j, of |-> <<"patch", k, j>>] : k \in Views, j \in Patches}
  \cup {[row |-> LangBase + i, of |-> <<"lang", 0, i>>] : i \in 0..n-1}
  \cup {[row |-> LangBase + n + i, of |-> <<"current", 0, i>>] : i \in 0..Queries-1}
  \cup {[row |-> LangBase + n + Queries + i, of |-> <<"future", 0, i>>] : i \in 0..Queries-1}

\* The copies into the prefix, which starts as zeros.
Copies(n) ==
       {[row |-> k * ViewTokens, of |-> <<"vs", k, 0>>] : k \in Views}
  \cup {[row |-> k * ViewTokens + ViewTokens - 1, of |-> <<"ve", k, 0>>] : k \in Views}
  \cup {[row |-> k * ViewTokens + 1 + j, of |-> <<"patch", k, j>>] : k \in Views, j \in Patches}
  \cup {[row |-> LangBase + i, of |-> <<"lang", 0, i>>] : i \in 0..n-1}
  \cup {[row |-> LangBase + n + i, of |-> <<"current", 0, i>>] : i \in 0..Queries-1}
  \cup {[row |-> LangBase + n + Queries + i, of |-> <<"future", 0, i>>] : i \in 0..Queries-1}

\* Rows that deepstack features are added to.
Deepstack(n) == {[row |-> k * ViewTokens + 1 + j, of |-> <<"patch", k, j>>] : k \in Views, j \in Patches}

\* Mutant: the suffix starts where the queries do.
SuffixPositionEarly(n) == [row \in Suffix(n) |-> n + 30 + row - NPrefix(n)]

SuffixPosition(n) == [row \in Suffix(n) |-> n + 46 + row - NPrefix(n)]

\* Time, height and width of a row.
Position(n) ==
  LET patch(k, j) == <<10 * k + 1, 10 * k + 1 + (j \div 8), 10 * k + 1 + (j % 8)>>
      flat(p)     == <<p, p, p>>
      view(row)   == row \div ViewTokens
      inView(row) == row % ViewTokens
  IN [row \in Rows(n) |->
        IF row \in Suffix(n) THEN flat(SuffixPosition(n)[row])
        ELSE IF row >= LangBase THEN flat(30 + row - LangBase)
        ELSE IF inView(row) = 0 THEN flat(10 * view(row))
        ELSE IF inView(row) = ViewTokens - 1 THEN flat(10 * view(row) + 9)
        ELSE patch(view(row), inView(row) - 1)]

\* Mutant: every row of the suffix attends to all of it.
SeesAll(n) ==
  [row \in Rows(n) |-> IF row \in Prefix(n) THEN {col \in Prefix(n) : ~VlmCausal \/ col <= row} ELSE Rows(n)]

\* The rows a row attends to: t_prefix_mask_ and t_suffix_mask_.
Sees(n) ==
  [row \in Rows(n) |->
    IF row \in Prefix(n) THEN {col \in Prefix(n) : ~VlmCausal \/ col <= row}
    ELSE IF row = NPrefix(n) THEN {col \in Rows(n) : col <= NPrefix(n)}
    ELSE Rows(n)]

\* A map of the wrong size is replaced by the identity.
CanonicalPlace == IF Len(RawMap) = RealDim THEN [j \in 1..RealDim |-> RawMap[j]] ELSE [j \in 1..RealDim |-> j - 1]

\* Mutant: the map is read the wrong way round.
CanonicalInverse(state) ==
  [c \in 0..MaxDim-1 |-> IF c < RealDim /\ CanonicalPlace[c + 1] < Len(state)
                         THEN state[CanonicalPlace[c + 1] + 1] ELSE 0]

\* last_state_ in canonical places, zeros elsewhere; all zeros if it has another size.
Canonical(state) ==
  [c \in 0..MaxDim-1 |->
    IF Len(state) = RealDim /\ \E j \in 1..RealDim : CanonicalPlace[j] = c
    THEN state[CHOOSE j \in 1..RealDim : CanonicalPlace[j] = c /\ \A i \in j+1..RealDim : CanonicalPlace[i] # c]
    ELSE 0]

\* A row of the result in the robot's order, by a map of its own that has the same fallback.
Raw(row) == [j \in 1..RealDim |-> row[CanonicalPlace[j]]]

-----------------------------------------------------------------------------
(* What such an upload has to be. *)

Kind(n, row) == IF row \in Suffix(n) THEN "suffix" ELSE (CHOOSE c \in Copies(n) : c.row = row).of[1]

\* Every row is filled, by one copy, and every copy of a request's data is in it;
\* deepstack features go to the rows of their own patches.
RowsFilled(n) ==
  /\ {c.row : c \in Copies(n)} = Prefix(n)
  /\ Cardinality(Copies(n)) = NPrefix(n)
  /\ Deepstack(n) = {c \in Copies(n) : c.of[1] = "patch"}

\* Within a view only patches share a time, and no two share all three; a row that
\* starts anything new is behind all that comes before it, in time, height and width.
PositionsAdvance(n) ==
  LET p     == Position(n)
      patch == [row \in Rows(n) |-> row < LangBase /\ row % ViewTokens \notin {0, ViewTokens - 1}]
  IN \A a, b \in Rows(n) : a < b =>
       \/ patch[a] /\ patch[b] /\ a \div ViewTokens = b \div ViewTokens /\ p[a] # p[b]
       \/ \A plane \in 1..3 : p[a][plane] < p[b][plane]

\* The keys and values of the prefix are computed once and serve all denoising steps,
\* so no row of the prefix, nor that of the state, is influenced by an action; every
\* action is influenced by all rows, and the queries by the whole instruction.
AttentionSound(n) ==
  LET sees    == Sees(n)
      actions == Suffix(n) \ {NPrefix(n)}
  IN /\ \A row \in Rows(n) \ actions : sees[row] \cap actions = {}
     /\ \A row \in actions : sees[row] = Rows(n)
     /\ \A row \in LangBase+n..NPrefix(n)-1 : 0..LangBase+n-1 \subseteq sees[row]
=============================================================================
