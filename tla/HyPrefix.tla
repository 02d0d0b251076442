------------------------------ MODULE HyPrefix ------------------------------
(***************************************************************************)
(* The prefix of HY-VLA: its rows for a request with visual tokens, and    *)
(* what is read off the modality mask of such a prefix (0 for text, 1 for  *)
(* a patch): the runs that go through the text or the vision weights, the  *)
(* patches that form a group, the stretches with attention of their own,   *)
(* and the attention masks.  Rows are counted from 0, masks are sequences. *)
(***************************************************************************)
EXTENDS Integers, Sequences, FiniteSets, SequencesExt

-----------------------------------------------------------------------------
(* build_hy_vla_prefix_from_visual_tokens *)

Squares(n) == {g \in 1..n : g * g = n}

\* Whether a prefix can be built: what its caller asks of it and the square grid.
Buildable(visual, perImage, lang) ==
  visual >= 1 /\ lang >= 1 /\ visual % perImage = 0 /\ Squares(perImage) # {}

TextRow(what)      == [of |-> what, image |-> -1, token |-> -1]
PatchRow(k, token) == [of |-> "patch", image |-> k, token |-> token]
Rows               == {"bos", "user", "start", "split", "end", "lang", "patch"}

\* Row c of an image, counted from 0: START, the grid with a SPLIT after each of its lines, END.
ImageRow(k, grid, c) ==
  LET line   == (c - 1) \div (grid + 1)
      column == (c - 1) % (grid + 1)
  IN IF c = 0 THEN TextRow("start")
     ELSE IF c = 1 + grid * (grid + 1) THEN TextRow("end")
     ELSE IF column = grid THEN TextRow("split")
     ELSE PatchRow(k, k * (grid * grid) + line * grid + column)

\* expected_tokens rows: BOS and USER, the images, the text.
PrefixRows(visual, perImage, lang) ==
  LET grid   == CHOOSE g \in Squares(perImage) : TRUE
      height == 1 + grid * (grid + 1) + 1
      images == (visual \div perImage) * height
  IN [i \in 1..2 + images + lang |->
        IF i <= 2 THEN TextRow(IF i = 1 THEN "bos" ELSE "user")
        ELSE IF i <= 2 + images THEN ImageRow((i - 3) \div height, grid, (i - 3) % height)
        ELSE TextRow("lang")]

Modality(rows) == [i \in DOMAIN rows |-> IF rows[i].of = "patch" THEN 1 ELSE 0]

-----------------------------------------------------------------------------
(* What is read off a mask *)

\* The numbers of a finite set in order.
Ascending(S) == [k \in 1..Cardinality(S) |-> CHOOSE e \in S : Cardinality({x \in S : x <= e}) = k]

\* What a sequence has at these places, in order.
Picked(seq, places) ==
  LET at == Ascending(places)
  IN [k \in DOMAIN at |-> seq[at[k]]]

\* Mutant: the last run is dropped when it is a single row.
RunsButLast(mask) ==
  LET ends == Ascending({i \in DOMAIN mask : i < Len(mask) /\ mask[i + 1] # mask[i]})
  IN [k \in DOMAIN ends |->
        LET start == IF k = 1 THEN 0 ELSE ends[k - 1]
        IN [start |-> start, len |-> ends[k] - start, vision |-> mask[ends[k]] # 0]]

\* make_prefix_runs: the longest stretches of one modality.
Runs(mask) ==
  LET ends == Ascending({i \in DOMAIN mask : i = Len(mask) \/ mask[i + 1] # mask[i]})
  IN [k \in DOMAIN ends |->
        LET start == IF k = 1 THEN 0 ELSE ends[k - 1]
        IN [start |-> start, len |-> ends[k] - start, vision |-> mask[ends[k]] # 0]]

\* Mutant: one row of text is enough to separate.
SeparatorsOfOne(mask) ==
  LET runs == Runs(mask)
  IN Picked(runs, {k \in DOMAIN runs : ~runs[k].vision})

\* Two rows of text or more separate what is before from what is behind them.
Separators(mask) ==
  LET runs == Runs(mask)
  IN Picked(runs, {k \in DOMAIN runs : ~runs[k].vision /\ runs[k].len >= 2})

Patches(mask) == {i \in 0..Len(mask)-1 : mask[i + 1] # 0}

\* make_visual_patch_groups: the patches that no separator is between.
PatchGroups(mask) ==
  LET apart(i, j) == \E s \in Range(Separators(mask)) : i < s.start /\ s.start < j
  IN {{j \in Patches(mask) : ~apart(i, j) /\ ~apart(j, i)} : i \in Patches(mask)}

\* make_visual_override_segments: what is between the separators, with the first row of the next one.
OverrideSegments(mask) ==
  LET n       == Len(mask)
      seps    == Separators(mask)
      from(k) == IF k = 1 THEN 0 ELSE seps[k - 1].start + seps[k - 1].len
      upTo(k) == IF k > Len(seps) THEN n
                 ELSE IF seps[k].start > from(k) THEN Min({n, seps[k].start + 1}) ELSE from(k)
      all     == [k \in 1..Len(seps) + 1 |-> [start |-> from(k), end |-> upTo(k)]]
  IN IF n <= 1 THEN <<>> ELSE Picked(all, {k \in DOMAIN all : all[k].end > all[k].start})

\* make_prefix_mask: the rows a row of the prefix attends to; groups is {} if there are none to keep apart.
PrefixSees(n, groups) ==
  [row \in 0..n-1 |->
    {kv \in 0..n-1 : \/ kv <= row /\ ~({row, kv} \subseteq UNION groups)
                     \/ \E g \in groups : {row, kv} \subseteq g}]

\* Mutant: the state attends to the actions.
SuffixSeesAll(n, actions) == [row \in n..n+actions |-> 0..n+actions]

\* full_mask: the state is the first row behind the prefix, the actions the others.
SuffixSees(n, actions) == [row \in n..n+actions |-> {kv \in 0..n+actions : kv < n \/ row # n \/ kv = n}]

-----------------------------------------------------------------------------
(* build_hy_prefix_routed_layer: runs and pieces are concatenated again. *)

\* The attention of all rows, in which the segments are replaced by attention of their own:
\* by turns what is before a segment and the segment, then what is left.
Pieces(n, segments) ==
  LET count   == Len(segments)
      cur(k)  == IF k = 1 THEN 0 ELSE segments[k - 1].end
      next(k) == IF k > count THEN n ELSE segments[k].start
      all     == [j \in 1..2 * count + 1 |->
                    LET k == (j + 1) \div 2
                    IN IF j % 2 = 1 THEN [start |-> cur(k), len |-> next(k) - cur(k)]
                       ELSE [start |-> segments[k].start, len |-> segments[k].end - segments[k].start]]
  IN Picked(all, {j \in DOMAIN all : all[j].len > 0})

-----------------------------------------------------------------------------
(* What a prefix has to be. *)

\* Concatenated, the stretches are n rows in order: each begins where the one before it ends.
Tiles(stretches, n) ==
  LET endOf(k) == IF k = 0 THEN 0 ELSE stretches[k].start + stretches[k].len
  IN /\ \A k \in DOMAIN stretches : stretches[k].len > 0 /\ stretches[k].start = endOf(k - 1)
     /\ endOf(Len(stretches)) = n

\* Every row stays where it is and goes through the weights of its modality,
\* whether stretches are routed or attention is replaced piece by piece.
InPlace(mask) ==
  LET n == Len(mask)
  IN /\ Tiles(Runs(mask), n)
     /\ \A r \in Range(Runs(mask)) : \A i \in r.start..r.start+r.len-1 : r.vision <=> mask[i + 1] # 0
     /\ Tiles(Pieces(n, OverrideSegments(mask)), n)

\* Found from the mask alone, the groups are the images: a patch attends to all of its
\* own image, to no other image, and to the text before it; text attends to what is before it.
ImagesApart(rows) ==
  LET n    == Len(rows)
      mask == Modality(rows)
      sees == PrefixSees(n, PatchGroups(mask))
  IN \A a, b \in 0..n-1 :
       b \in sees[a] <=> IF rows[a + 1].of = "patch" /\ rows[b + 1].of = "patch"
                         THEN rows[a + 1].image = rows[b + 1].image ELSE b <= a

\* Keys and values of the prefix and of the state serve every step, so no action may influence them.
StateAlone(n, actions) ==
  LET sees == SuffixSees(n, actions)
  IN /\ sees[n] = 0..n
     /\ \A row \in n+1..n+actions : sees[row] = 0..n+actions
=============================================================================
