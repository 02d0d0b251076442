------------------------------ MODULE HyVlaProof ------------------------------
(***************************************************************************)
(* HY-VLA: whichever step of a call fails, nothing but the kept allocators *)
(* is left behind, the process stops in two ways only, and a request with  *)
(* images is answered by the actions of all its images, in order.  What is *)
(* read off a mask leaves every row in its place, and keeps apart exactly  *)
(* the images of a prefix.                                                 *)
(***************************************************************************)
EXTENDS HyVla, FiniteSetTheorems, FunctionTheorems, SequenceTheorems, TLAPS

-----------------------------------------------------------------------------
(* Quotients. *)

\* Quotient and rest are numbers, and give back what was divided.
LEMMA Division ==
  ASSUME NEW a \in Int, NEW b \in Nat \ {0}
  PROVE  a \div b \in Int /\ a % b \in 0..b-1 /\ a = (a \div b) * b + (a % b)
OBVIOUS

\* There is only one quotient with a rest.
LEMMA DivisionIs ==
  ASSUME NEW b \in Nat \ {0}, NEW q \in Int, NEW r \in 0..b-1
  PROVE  (q * b + r) \div b = q /\ (q * b + r) % b = r
OBVIOUS

\* Place r of group q, counted from 0, is among the places of that many groups.
LEMMA PlaceIn ==
  ASSUME NEW b \in Nat \ {0}, NEW n \in Nat, NEW q \in 0..n-1, NEW r \in 0..b-1
  PROVE  q * b + r \in 0..n * b - 1
OBVIOUS

\* And each place among them is one of a group.
LEMMA PlaceOf ==
  ASSUME NEW b \in Nat \ {0}, NEW n \in Nat, NEW a \in 0..n * b - 1
  PROVE  a \div b \in 0..n-1 /\ a % b \in 0..b-1 /\ a = (a \div b) * b + (a % b)
OBVIOUS

\* More groups have more places.
LEMMA ProductGrows ==
  ASSUME NEW a \in Nat, NEW b \in Int, NEW c \in Int, b <= c
  PROVE  a * b <= a * c
OBVIOUS

-----------------------------------------------------------------------------
(* The rows of a prefix. *)

\* A prefix that can be built has a grid of its tokens.
LEMMA GridIs ==
  ASSUME NEW visual \in Nat, NEW perImage \in Nat \ {0}, NEW lang \in Nat, Buildable(visual, perImage, lang)
  PROVE  /\ (CHOOSE g \in Squares(perImage) : TRUE) \in Nat \ {0}
         /\ (CHOOSE g \in Squares(perImage) : TRUE) * (CHOOSE g \in Squares(perImage) : TRUE) = perImage
         /\ visual \div perImage \in Nat \ {0} /\ visual = (visual \div perImage) * perImage
<1> DEFINE grid == CHOOSE g \in Squares(perImage) : TRUE
<1>1. grid \in Squares(perImage)
  BY DEF Buildable
<1>2. grid \in Nat \ {0} /\ grid * grid = perImage
  BY <1>1 DEF Squares
<1>3. visual >= 1 /\ visual % perImage = 0
  BY DEF Buildable
<1>4. visual \div perImage \in Int /\ visual = (visual \div perImage) * perImage
  BY <1>3, Division
<1>5. visual \div perImage \in Nat \ {0}
  BY <1>3, <1>4
<1> QED BY <1>2, <1>4, <1>5

\* Row c of an image is text, or one of its patches.
LEMMA ImageRowIs ==
  ASSUME NEW k \in Nat, NEW grid \in Nat \ {0}, NEW c \in 0..1 + grid * (grid + 1)
  PROVE  \/ \E what \in Rows \ {"patch"} : ImageRow(k, grid, c) = TextRow(what)
         \/ \E s \in 0..grid * grid - 1 : ImageRow(k, grid, c) = PatchRow(k, k * (grid * grid) + s)
<1> DEFINE line   == (c - 1) \div (grid + 1)
           column == (c - 1) % (grid + 1)
<1>1. CASE c = 0 \/ c = 1 + grid * (grid + 1) \/ column = grid
  BY <1>1 DEF ImageRow, Rows
<1>2. CASE ~(c = 0 \/ c = 1 + grid * (grid + 1) \/ column = grid)
  <2>1. c - 1 \in 0..grid * (grid + 1) - 1 /\ grid + 1 \in Nat \ {0} /\ grid \in Nat
    BY <1>2
  <2>2. line \in 0..grid-1 /\ column \in 0..(grid + 1)-1
    BY <2>1, PlaceOf
  <2>3. column \in 0..grid-1
    BY <1>2, <2>2
  <2>4. line * grid + column \in 0..grid * grid - 1
    BY <2>2, <2>3, PlaceIn
  <2>5. ImageRow(k, grid, c) = PatchRow(k, k * (grid * grid) + line * grid + column)
    BY <1>2 DEF ImageRow
  <2>6. k * (grid * grid) + line * grid + column = k * (grid * grid) + (line * grid + column)
    BY <2>2, <2>3
  <2> QED BY <2>4, <2>5, <2>6
<1> QED BY <1>1, <1>2

\* Each patch of an image has a row.
LEMMA PatchHasRow ==
  ASSUME NEW k \in Nat, NEW grid \in Nat \ {0}, NEW s \in 0..grid * grid - 1
  PROVE  \E c \in 0..1 + grid * (grid + 1) : ImageRow(k, grid, c) = PatchRow(k, k * (grid * grid) + s)
<1> DEFINE line   == s \div grid
           column == s % grid
           c      == 1 + (line * (grid + 1) + column)
<1>1. line \in 0..grid-1 /\ column \in 0..grid-1 /\ s = line * grid + column
  BY PlaceOf
<1>2. line * (grid + 1) + column \in 0..grid * (grid + 1) - 1
  BY <1>1, PlaceIn
<1>3. (c - 1) \div (grid + 1) = line /\ (c - 1) % (grid + 1) = column
  <2>1. c - 1 = line * (grid + 1) + column
    BY <1>2
  <2>2. grid + 1 \in Nat \ {0} /\ line \in Int /\ column \in 0..(grid + 1)-1
    BY <1>1
  <2> HIDE DEF c, line, column
  <2>3. /\ (line * (grid + 1) + column) \div (grid + 1) = line
        /\ (line * (grid + 1) + column) % (grid + 1) = column
    BY <2>2, DivisionIs, Zenon
  <2> QED BY <2>1, <2>3, Zenon
<1>4. c \in 0..1 + grid * (grid + 1) /\ c # 0 /\ c # 1 + grid * (grid + 1) /\ column # grid
  BY <1>1, <1>2
<1>5. ImageRow(k, grid, c) = PatchRow(k, k * (grid * grid) + line * grid + column)
  BY <1>3, <1>4 DEF ImageRow
<1>6. k * (grid * grid) + line * grid + column = k * (grid * grid) + s
  BY <1>1
<1> QED BY <1>4, <1>5, <1>6

\* A prefix is as long as expected_tokens says; its patches are all tokens, each as one of its own image, and no others.
LEMMA TokensInPlace ==
  ASSUME NEW visual \in Nat, NEW perImage \in Nat \ {0}, NEW lang \in Nat, Buildable(visual, perImage, lang),
         NEW rows, rows = PrefixRows(visual, perImage, lang)
  PROVE  /\ rows \in Seq([of : Rows, image : Int, token : -1..visual-1]) /\ rows # <<>>
         /\ {<<row.image, row.token>> : row \in {r \in Range(rows) : r.of = "patch"}}
              = {<<t \div perImage, t>> : t \in 0..visual-1}
<1> DEFINE grid   == CHOOSE g \in Squares(perImage) : TRUE
           height == 1 + grid * (grid + 1) + 1
           count  == visual \div perImage
           images == count * height
<1>1. /\ grid \in Nat \ {0} /\ grid * grid = perImage
      /\ count \in Nat \ {0} /\ visual = count * perImage
  BY GridIs
<1>2. height \in Nat \ {0} /\ images \in Nat
  BY <1>1
<1>3. height - 1 = 1 + grid * (grid + 1) /\ 1 + grid * (grid + 1) \in Nat
  BY <1>1
<1> DEFINE at(i) == IF i <= 2 THEN TextRow(IF i = 1 THEN "bos" ELSE "user")
                    ELSE IF i <= 2 + images THEN ImageRow((i - 3) \div height, grid, (i - 3) % height)
                    ELSE TextRow("lang")
<1>4. rows = [i \in 1..2 + images + lang |-> at(i)]
  BY DEF PrefixRows
<1> HIDE DEF grid, height, count, images
<1>5. 2 + images + lang \in Nat /\ 2 + images + lang > 0
  BY <1>2
<1>6. DOMAIN rows = 1..2 + images + lang /\ \A i \in 1..2 + images + lang : rows[i] = at(i)
  <2> HIDE DEF at
  <2> QED BY <1>4
<1>7. rows # <<>>
  <2> HIDE DEF at
  <2> QED BY <1>5, <1>6
<1>8. ASSUME NEW i \in 1..2 + images + lang
      PROVE  \/ \E what \in Rows \ {"patch"} : rows[i] = TextRow(what)
             \/ \E k \in 0..count-1, s \in 0..perImage-1 : rows[i] = PatchRow(k, k * perImage + s)
  <2>1. CASE i <= 2 \/ i > 2 + images
    BY <1>2, <1>6, <2>1 DEF Rows
  <2>2. CASE i > 2 /\ i <= 2 + images
    <3> DEFINE k == (i - 3) \div height
               c == (i - 3) % height
    <3>1. i - 3 \in 0..count * height - 1
      BY <1>2, <2>2 DEF images
    <3>2. k \in 0..count-1 /\ c \in 0..height-1
      BY <1>1, <1>2, <3>1, PlaceOf
    <3>3. rows[i] = ImageRow(k, grid, c)
      BY <1>2, <1>6, <2>2
    <3> HIDE DEF k, c
    <3>4. k \in Nat /\ c \in 0..1 + grid * (grid + 1)
      BY <1>1, <1>3, <3>2
    <3>5. \/ \E what \in Rows \ {"patch"} : ImageRow(k, grid, c) = TextRow(what)
          \/ \E s \in 0..grid * grid - 1 : ImageRow(k, grid, c) = PatchRow(k, k * (grid * grid) + s)
      <4>1. grid \in Nat \ {0}
        BY <1>1
      <4> QED BY <4>1, <3>4, ImageRowIs, Zenon
    <3> QED BY <1>1, <3>2, <3>3, <3>5
  <2> QED BY <1>2, <2>1, <2>2
<1>9. ASSUME NEW k \in 0..count-1, NEW s \in 0..perImage-1
      PROVE  k * perImage + s \in 0..visual-1 /\ (k * perImage + s) \div perImage = k
  <2>1. count \in Nat /\ perImage \in Nat \ {0} /\ k \in Int
    BY <1>1
  <2>2. k * perImage + s \in 0..count * perImage - 1
    BY <2>1, PlaceIn
  <2>3. (k * perImage + s) \div perImage = k
    BY <2>1, DivisionIs
  <2> QED BY <1>1, <2>2, <2>3
<1>10. rows \in Seq([of : Rows, image : Int, token : -1..visual-1])
  <2> DEFINE S == [of : Rows, image : Int, token : -1..visual-1]
  <2>1. ASSUME NEW i \in 1..2 + images + lang PROVE rows[i] \in S
    <3>1. CASE \E what \in Rows \ {"patch"} : rows[i] = TextRow(what)
      BY <3>1 DEF TextRow
    <3>2. CASE \E k \in 0..count-1, s \in 0..perImage-1 : rows[i] = PatchRow(k, k * perImage + s)
      <4>1. PICK k \in 0..count-1, s \in 0..perImage-1 : rows[i] = PatchRow(k, k * perImage + s)
        BY <3>2
      <4>2. k * perImage + s \in 0..visual-1
        BY <1>9
      <4>3. k \in Int /\ "patch" \in Rows
        BY <1>1 DEF Rows
      <4> QED BY <4>1, <4>2, <4>3 DEF PatchRow
    <3> QED BY <1>8, <3>1, <3>2
  <2> HIDE DEF S, at
  <2>2. rows = [i \in 1..2 + images + lang |-> rows[i]]
    BY <1>4, <1>6
  <2>3. rows \in Seq(S)
    BY <1>5, <2>1, <2>2
  <2> QED BY <2>3 DEF S
<1>11. ASSUME NEW row \in Range(rows), row.of = "patch"
      PROVE  row.token \in 0..visual-1 /\ row.image = row.token \div perImage
  <2>1. PICK i \in 1..2 + images + lang : row = rows[i]
    BY <1>6 DEF Range
  <2>2. PICK k \in 0..count-1, s \in 0..perImage-1 : row = PatchRow(k, k * perImage + s)
    <3>1. ASSUME NEW what \in Rows \ {"patch"} PROVE row # TextRow(what)
      BY <1>11 DEF TextRow
    <3> QED BY <1>8, <2>1, <3>1
  <2>3. k * perImage + s \in 0..visual-1 /\ (k * perImage + s) \div perImage = k
    BY <1>9
  <2> QED BY <2>2, <2>3 DEF PatchRow
<1>12. ASSUME NEW t \in 0..visual-1
      PROVE  \E row \in Range(rows) : row.of = "patch" /\ row.image = t \div perImage /\ row.token = t
  <2> DEFINE k == t \div perImage
             s == t % perImage
  <2>1. k \in 0..count-1 /\ s \in 0..perImage-1 /\ t = k * perImage + s
    BY <1>1, PlaceOf
  <2> HIDE DEF k, s
  <2>2. PICK c \in 0..1 + grid * (grid + 1) : ImageRow(k, grid, c) = PatchRow(k, k * perImage + s)
    <3>1. k \in Nat /\ s \in 0..grid * grid - 1
      BY <1>1, <2>1
    <3>2. \E c \in 0..1 + grid * (grid + 1) : ImageRow(k, grid, c) = PatchRow(k, k * (grid * grid) + s)
      BY <1>1, <3>1, PatchHasRow
    <3> QED BY <1>1, <3>2
  <2>3. c \in 0..height-1
    BY <1>3
  <2>4. k * height + c \in 0..count * height - 1 /\ (k * height + c) \div height = k /\ (k * height + c) % height = c
    <3>1. count \in Nat /\ height \in Nat \ {0} /\ k \in Int
      BY <1>1, <1>2, <2>1
    <3>2. k * height + c \in 0..count * height - 1
      BY <2>1, <2>3, <3>1, PlaceIn
    <3>3. (k * height + c) \div height = k /\ (k * height + c) % height = c
      BY <2>3, <3>1, DivisionIs
    <3> QED BY <3>2, <3>3
  <2> DEFINE i == 3 + (k * height + c)
  <2>5. i \in 1..2 + images + lang /\ i > 2 /\ i <= 2 + images /\ i - 3 = k * height + c
    <3>1. k * height + c \in 0..images-1 /\ images \in Nat
      BY <1>2, <2>4 DEF images
    <3> QED BY <3>1
  <2>6. rows[i] = ImageRow(k, grid, c)
    BY <1>6, <2>4, <2>5
  <2>7. rows[i] \in Range(rows)
    BY <1>6, <2>5 DEF Range
  <2>8. rows[i].of = "patch" /\ rows[i].image = k /\ rows[i].token = t
    BY <2>1, <2>2, <2>6 DEF PatchRow
  <2> QED BY <2>7, <2>8 DEF k
<1>13. {<<row.image, row.token>> : row \in {r \in Range(rows) : r.of = "patch"}}
         = {<<t \div perImage, t>> : t \in 0..visual-1}
  <2>1. ASSUME NEW row \in Range(rows), row.of = "patch"
        PROVE  <<row.image, row.token>> \in {<<t \div perImage, t>> : t \in 0..visual-1}
    BY <1>11, <2>1
  <2>2. ASSUME NEW t \in 0..visual-1
        PROVE  <<t \div perImage, t>> \in {<<row.image, row.token>> : row \in {r \in Range(rows) : r.of = "patch"}}
    BY <1>12
  <2> QED BY <2>1, <2>2
<1> QED BY <1>7, <1>10, <1>13

-----------------------------------------------------------------------------
(* Sequences in order. *)

\* How many numbers of a finite set are not above one of them, says which one it is.
LEMMA RankIs ==
  ASSUME NEW S \in SUBSET Int, IsFiniteSet(S), NEW e \in S
  PROVE  /\ Cardinality({x \in S : x <= e}) \in 1..Cardinality(S)
         /\ \A f \in S : e < f => Cardinality({x \in S : x <= e}) < Cardinality({x \in S : x <= f})
<1> DEFINE upTo(g) == {x \in S : x <= g}
<1>1. Cardinality(S) \in Nat
  BY FS_CardinalityType
<1>2. ASSUME NEW g \in S
      PROVE  IsFiniteSet(upTo(g)) /\ Cardinality(upTo(g)) \in Nat /\ Cardinality(upTo(g)) <= Cardinality(S)
  <2>1. upTo(g) \in SUBSET S
    OBVIOUS
  <2> HIDE DEF upTo
  <2> QED BY <2>1, FS_Subset, FS_CardinalityType
<1>3. Cardinality(upTo(e)) # 0
  <2>1. e \in upTo(e)
    OBVIOUS
  <2> HIDE DEF upTo
  <2> QED BY <1>2, <2>1, FS_EmptySet
<1>4. ASSUME NEW f \in S, e < f
      PROVE  Cardinality(upTo(e)) < Cardinality(upTo(f))
  <2>1. upTo(e) \in SUBSET upTo(f) /\ upTo(e) # upTo(f)
    <3>1. f \in upTo(f) /\ f \notin upTo(e)
      BY <1>4
    <3>2. ASSUME NEW x \in S, x <= e PROVE x <= f
      <4>1. x \in Int /\ e \in Int /\ f \in Int
        OBVIOUS
      <4> QED BY <1>4, <3>2, <4>1
    <3> QED BY <3>1, <3>2
  <2> HIDE DEF upTo
  <2>2. Cardinality(upTo(e)) <= Cardinality(upTo(f)) /\ Cardinality(upTo(e)) # Cardinality(upTo(f))
    BY <1>2, <2>1, FS_Subset
  <2> QED BY <1>2, <2>2
<1> HIDE DEF upTo
<1>5. Cardinality(upTo(e)) \in 1..Cardinality(S)
  BY <1>1, <1>2, <1>3
<1> QED BY <1>4, <1>5 DEF upTo

\* Ascending lists the numbers of a finite set, each once and in order.
LEMMA AscendingIs ==
  ASSUME NEW S \in SUBSET Int, IsFiniteSet(S)
  PROVE  /\ Cardinality(S) \in Nat /\ DOMAIN Ascending(S) = 1..Cardinality(S)
         /\ Ascending(S) \in [1..Cardinality(S) -> S]
         /\ \A k \in 1..Cardinality(S) : Ascending(S)[k] \in S
         /\ \A j, k \in 1..Cardinality(S) : j < k => Ascending(S)[j] < Ascending(S)[k]
         /\ \A e \in S : \E k \in 1..Cardinality(S) : Ascending(S)[k] = e
<1> DEFINE n    == Cardinality(S)
           rank == [e \in S |-> Cardinality({x \in S : x <= e})]
<1>1. n \in Nat
  BY FS_CardinalityType
<1>2. rank \in [S -> 1..n] /\ \A e, f \in S : e < f => rank[e] < rank[f]
  <2>1. ASSUME NEW e \in S
        PROVE  rank[e] \in 1..n /\ \A f \in S : e < f => rank[e] < rank[f]
    BY RankIs
  <2> QED BY <2>1
<1>3. \A k \in 1..n : Ascending(S)[k] = CHOOSE e \in S : rank[e] = k
  BY DEF Ascending
<1>4. DOMAIN Ascending(S) = 1..n
  BY DEF Ascending
<1> HIDE DEF rank
<1>5. \A e, f \in S : rank[e] = rank[f] => e = f
  <2> SUFFICES ASSUME NEW e \in S, NEW f \in S, rank[e] = rank[f], e # f
               PROVE  FALSE
    OBVIOUS
  <2>1. e < f \/ f < e
    OBVIOUS
  <2>2. rank[e] \in Int /\ rank[f] \in Int
    BY <1>1, <1>2
  <2> QED BY <1>2, <2>1, <2>2
<1>6. \A k \in 1..n : \E e \in S : rank[e] = k
  <2>1. rank \in Injection(S, 1..n)
    BY <1>2, <1>5 DEF Injection, IsInjective
  <2>2. IsFiniteSet(1..n) /\ Cardinality(1..n) = n
    BY <1>1, FS_Interval
  <2>3. rank \in Surjection(S, 1..n)
    BY <2>1, <2>2, FS_Injection
  <2> QED BY <2>3 DEF Surjection
<1>7. \A k \in 1..n : Ascending(S)[k] \in S /\ rank[Ascending(S)[k]] = k
  BY <1>3, <1>6
<1>8. ASSUME NEW j \in 1..n, NEW k \in 1..n, j < k
      PROVE  Ascending(S)[j] < Ascending(S)[k]
  <2> DEFINE a == Ascending(S)[j]
             b == Ascending(S)[k]
  <2>1. a \in S /\ b \in S /\ rank[a] = j /\ rank[b] = k
    BY <1>7
  <2> HIDE DEF a, b
  <2>2. ~(b < a) /\ b # a
    BY <1>1, <1>2, <1>8, <2>1
  <2>3. a < b
    BY <2>1, <2>2
  <2> QED BY <2>3 DEF a, b
<1>9. \A e \in S : \E k \in 1..n : Ascending(S)[k] = e
  BY <1>2, <1>5, <1>7
<1>10. Ascending(S) = [k \in 1..n |-> Ascending(S)[k]]
  BY DEF Ascending
<1>11. Ascending(S) \in [1..n -> S]
  BY <1>7, <1>10
<1> QED BY <1>1, <1>4, <1>7, <1>8, <1>9, <1>11

\* What is not empty has a least number and a greatest one.
LEMMA Extremes ==
  ASSUME NEW S \in SUBSET Int, IsFiniteSet(S), S # {}
  PROVE  /\ \E e \in S : \A f \in S : e <= f
         /\ \E e \in S : \A f \in S : f <= e
<1> DEFINE n == Cardinality(S)
<1>1. n \in Nat \ {0}
  BY FS_CardinalityType, FS_EmptySet
<1>2. /\ \A k \in 1..n : Ascending(S)[k] \in S
      /\ \A j, k \in 1..n : j < k => Ascending(S)[j] < Ascending(S)[k]
      /\ \A e \in S : \E k \in 1..n : Ascending(S)[k] = e
  BY AscendingIs
<1> HIDE DEF n
<1>3. ASSUME NEW f \in S PROVE Ascending(S)[1] <= f /\ f <= Ascending(S)[n]
  <2>1. PICK k \in 1..n : Ascending(S)[k] = f
    BY <1>2
  <2>2. Ascending(S)[1] \in S /\ Ascending(S)[n] \in S /\ f \in Int
    BY <1>1, <1>2
  <2>3. 1 < k => Ascending(S)[1] < f
    BY <1>1, <1>2, <2>1
  <2>4. k < n => f < Ascending(S)[n]
    BY <1>1, <1>2, <2>1
  <2>5. Ascending(S)[1] \in Int /\ Ascending(S)[n] \in Int
    BY <2>2
  <2> QED BY <1>1, <2>1, <2>3, <2>4, <2>5
<1>4. Ascending(S)[1] \in S /\ Ascending(S)[n] \in S
  BY <1>1, <1>2
<1> QED BY <1>3, <1>4

\* Some of the numbers up to n are finitely many.
LEMMA SomeOf ==
  ASSUME NEW a \in Int, NEW n \in Int, NEW S \in SUBSET (a..n)
  PROVE  S \in SUBSET Int /\ IsFiniteSet(S)
<1>1. IsFiniteSet(a..n) /\ a..n \subseteq Int
  BY FS_Interval
<1> QED BY <1>1, FS_Subset
-----------------------------------------------------------------------------
(* The runs of a mask. *)

\* The places, counted from 1, at which a run ends, and the end of the run before run k.
Ends(mask)      == {i \in DOMAIN mask : i = Len(mask) \/ mask[i + 1] # mask[i]}
StartOf(k, mask) == IF k = 1 THEN 0 ELSE Ascending(Ends(mask))[k - 1]

LEMMA EndsAre ==
  ASSUME NEW mask \in Seq({0, 1})
  PROVE  LET m    == Cardinality(Ends(mask))
             ends == Ascending(Ends(mask))
         IN /\ m \in Nat /\ DOMAIN ends = 1..m
            /\ \A k \in 1..m : ends[k] \in 1..Len(mask) /\ ends[k] \in Ends(mask)
            /\ \A k \in 1..m : StartOf(k, mask) \in 0..ends[k]-1
            /\ \A j, k \in 1..m : j < k => ends[j] <= StartOf(k, mask)
            /\ \A e \in Ends(mask) : \E k \in 1..m : ends[k] = e
            /\ \A k \in 1..m : \A x \in StartOf(k, mask)+1..ends[k]-1 : x \notin Ends(mask)
<1> DEFINE n    == Len(mask)
           S    == Ends(mask)
           m    == Cardinality(S)
           ends == Ascending(S)
<1>1. n \in Nat /\ DOMAIN mask = 1..n
  OBVIOUS
<1>2. S \in SUBSET (1..n)
  BY <1>1 DEF Ends
<1> HIDE DEF S, n
<1>3. S \in SUBSET Int /\ IsFiniteSet(S)
  <2>1. 1 \in Int /\ n \in Int
    BY <1>1
  <2> QED BY <1>2, <2>1, SomeOf, Zenon
<1>4. /\ m \in Nat /\ DOMAIN ends = 1..m
      /\ \A k \in 1..m : ends[k] \in S
      /\ \A j, k \in 1..m : j < k => ends[j] < ends[k]
      /\ \A e \in S : \E k \in 1..m : ends[k] = e
  BY <1>3, AscendingIs
<1> HIDE DEF m, ends
<1>5. \A k \in 1..m : ends[k] \in 1..n
  BY <1>2, <1>4
<1>6. \A k \in 1..m : StartOf(k, mask) = IF k = 1 THEN 0 ELSE ends[k - 1]
  BY DEF StartOf, ends, S
<1>7. ASSUME NEW k \in 1..m
      PROVE  StartOf(k, mask) \in 0..ends[k]-1
  <2>1. CASE k = 1
    BY <1>5, <1>6, <2>1, <1>1
  <2>2. CASE k # 1
    <3>1. k - 1 \in 1..m /\ k - 1 < k
      BY <1>4, <2>2
    <3>2. ends[k - 1] \in 1..n /\ ends[k] \in 1..n /\ ends[k - 1] < ends[k]
      BY <1>4, <1>5, <3>1
    <3> QED BY <1>1, <1>6, <2>2, <3>2
  <2> QED BY <2>1, <2>2
<1>8. ASSUME NEW j \in 1..m, NEW k \in 1..m, j < k
      PROVE  ends[j] <= StartOf(k, mask)
  <2>1. k - 1 \in 1..m /\ k # 1 /\ (j = k - 1 \/ j < k - 1)
    BY <1>4, <1>8
  <2>2. ends[k - 1] \in 1..n /\ ends[j] \in 1..n
    BY <1>5, <2>1
  <2>3. j < k - 1 => ends[j] < ends[k - 1]
    BY <1>4, <2>1
  <2>4. ends[j] <= ends[k - 1]
    BY <1>1, <2>1, <2>2, <2>3
  <2> QED BY <1>6, <2>1, <2>4
<1>9. ASSUME NEW k \in 1..m, NEW x \in StartOf(k, mask)+1..ends[k]-1, x \in S
      PROVE  FALSE
  <2>1. PICK j \in 1..m : ends[j] = x
    BY <1>4, <1>9
  <2>2. ends[j] \in 1..n /\ ends[k] \in 1..n /\ StartOf(k, mask) \in 0..ends[k]-1
    BY <1>5, <1>7
  <2>3. ends[j] < ends[k] /\ StartOf(k, mask) < ends[j]
    BY <1>1, <2>1, <2>2
  <2>4. j # k /\ ~(j < k)
    BY <1>1, <1>8, <2>2, <2>3
  <2>5. k < j
    BY <1>4, <2>4
  <2>6. ends[k] < ends[j]
    BY <1>4, <2>5
  <2> QED BY <1>1, <2>2, <2>3, <2>6
<1> QED BY <1>4, <1>5, <1>7, <1>8, <1>9 DEF m, ends, S, n

\* Runs follow one another, from the first row to the last.
LEMMA RunsAre ==
  ASSUME NEW mask \in Seq({0, 1})
  PROVE  LET m    == Cardinality(Ends(mask))
             ends == Ascending(Ends(mask))
         IN /\ Runs(mask) \in Seq([start : Nat, len : Nat \ {0}, vision : BOOLEAN])
            /\ Len(Runs(mask)) = m /\ DOMAIN Runs(mask) = 1..m
            /\ \A k \in 1..m : /\ Runs(mask)[k].start = StartOf(k, mask)
                               /\ Runs(mask)[k].len \in Nat \ {0}
                               /\ Runs(mask)[k].vision = (mask[ends[k]] # 0)
                               /\ Runs(mask)[k].start + Runs(mask)[k].len = ends[k]
<1> DEFINE m      == Cardinality(Ends(mask))
           ends   == Ascending(Ends(mask))
           run(k) == [start |-> StartOf(k, mask), len |-> ends[k] - StartOf(k, mask), vision |-> mask[ends[k]] # 0]
<1>1. /\ m \in Nat /\ DOMAIN ends = 1..m
      /\ \A k \in 1..m : ends[k] \in 1..Len(mask) /\ StartOf(k, mask) \in 0..ends[k]-1
  BY EndsAre
<1>2. Runs(mask) = [k \in 1..m |-> run(k)]
  <2>1. DOMAIN Ascending({i \in DOMAIN mask : i = Len(mask) \/ mask[i + 1] # mask[i]}) = 1..m
    BY <1>1 DEF Ends
  <2> QED BY <2>1 DEF Runs, Ends, StartOf
<1> HIDE DEF m, ends
<1>3. \A k \in 1..m : run(k) \in [start : Nat, len : Nat \ {0}, vision : BOOLEAN]
  BY <1>1
<1>4. \A k \in 1..m : /\ StartOf(k, mask) + (ends[k] - StartOf(k, mask)) = ends[k]
                     /\ ends[k] - StartOf(k, mask) \in Nat \ {0}
  BY <1>1
<1>5. \A k \in 1..m : Runs(mask)[k] = run(k)
  BY <1>2
<1>6. Runs(mask) \in Seq([start : Nat, len : Nat \ {0}, vision : BOOLEAN]) /\ Len(Runs(mask)) = m /\ DOMAIN Runs(mask) = 1..m
  <2> HIDE DEF run
  <2> QED BY <1>1, <1>2, <1>3
<1> QED BY <1>4, <1>5, <1>6 DEF m, ends

\* All rows of a run are of its modality.
LEMMA RunIsUniform ==
  ASSUME NEW mask \in Seq({0, 1}), NEW k \in 1..Cardinality(Ends(mask)),
         NEW x \in StartOf(k, mask)+1..Ascending(Ends(mask))[k]
  PROVE  mask[x] = mask[Ascending(Ends(mask))[k]]
<1> DEFINE e   == Ascending(Ends(mask))[k]
           s   == StartOf(k, mask)
           bad == {y \in s+1..e : mask[y] # mask[e]}
<1>1. /\ e \in 1..Len(mask) /\ s \in 0..e-1 /\ Len(mask) \in Nat
      /\ \A y \in s+1..e-1 : y \notin Ends(mask)
  BY EndsAre
<1> HIDE DEF e, s
<1>2. SUFFICES ASSUME bad # {} PROVE FALSE
  BY DEF e, s
<1>3. bad \in SUBSET Int /\ IsFiniteSet(bad)
  <2>1. bad \in SUBSET (s+1..e) /\ s+1 \in Int /\ e \in Int
    BY <1>1
  <2> HIDE DEF bad
  <2> QED BY <2>1, SomeOf
<1>4. PICK y \in bad : \A z \in bad : z <= y
  <2> HIDE DEF bad
  <2> QED BY <1>2, <1>3, Extremes
<1>5. y \in s+1..e-1 /\ y + 1 \in s+1..e /\ mask[y] # mask[e]
  BY <1>1, <1>4
<1>6. y + 1 \notin bad
  BY <1>4, <1>5
<1>7. mask[y + 1] # mask[y] /\ y \in DOMAIN mask
  BY <1>1, <1>5, <1>6
<1> QED BY <1>1, <1>5, <1>7 DEF Ends

\* Each row is in a run.
LEMMA RowHasRun ==
  ASSUME NEW mask \in Seq({0, 1}), NEW x \in 1..Len(mask)
  PROVE  \E k \in 1..Cardinality(Ends(mask)) : x \in StartOf(k, mask)+1..Ascending(Ends(mask))[k]
<1> DEFINE m    == Cardinality(Ends(mask))
           ends == Ascending(Ends(mask))
           from == {e \in Ends(mask) : x <= e}
<1>1. /\ m \in Nat /\ \A k \in 1..m : ends[k] \in Ends(mask) /\ ends[k] \in 1..Len(mask)
      /\ \A k \in 1..m : StartOf(k, mask) \in 0..ends[k]-1
      /\ \A e \in Ends(mask) : \E k \in 1..m : ends[k] = e
  BY EndsAre
<1>2. Len(mask) \in from /\ from \in SUBSET (1..Len(mask)) /\ Len(mask) \in Nat
  BY DEF Ends
<1>3. PICK e \in from : \A f \in from : e <= f
  <2> HIDE DEF from
  <2>1. 1 \in Int /\ Len(mask) \in Int /\ from # {}
    BY <1>2
  <2>2. from \in SUBSET Int /\ IsFiniteSet(from)
    BY <1>2, <2>1, SomeOf, Zenon
  <2> QED BY <2>1, <2>2, Extremes
<1>4. PICK k \in 1..m : ends[k] = e
  BY <1>1, <1>3
<1>5. StartOf(k, mask) < x
  <2>1. CASE k = 1
    BY <2>1 DEF StartOf
  <2>2. CASE k # 1
    <3>1. k - 1 \in 1..m /\ StartOf(k, mask) = ends[k - 1]
      BY <1>1, <2>2 DEF StartOf
    <3>2. ends[k - 1] \in Ends(mask) /\ ends[k - 1] \in 1..Len(mask) /\ ends[k - 1] < e /\ e \in 1..Len(mask)
      BY <1>1, <1>2, <1>4, <3>1
    <3>3. ends[k - 1] \notin from
      BY <1>2, <1>3, <3>2
    <3> QED BY <1>2, <3>1, <3>2, <3>3
  <2> QED BY <2>1, <2>2
<1>6. x <= e /\ e \in 1..Len(mask) /\ StartOf(k, mask) \in 0..e-1
  BY <1>1, <1>2, <1>3, <1>4
<1>7. x \in StartOf(k, mask)+1..e
  BY <1>2, <1>5, <1>6
<1> QED BY <1>4, <1>7
\* Routing by runs leaves every row in its place, with the weights of its modality.
LEMMA RunsTile ==
  ASSUME NEW mask \in Seq({0, 1})
  PROVE  /\ Tiles(Runs(mask), Len(mask))
         /\ \A r \in Range(Runs(mask)) : \A i \in r.start..r.start+r.len-1 : r.vision <=> mask[i + 1] # 0
<1> DEFINE m    == Cardinality(Ends(mask))
           ends == Ascending(Ends(mask))
           runs == Runs(mask)
           n    == Len(mask)
<1>1. /\ m \in Nat /\ n \in Nat /\ \A k \in 1..m : ends[k] \in 1..n /\ ends[k] \in Ends(mask)
      /\ \A k \in 1..m : StartOf(k, mask) \in 0..ends[k]-1
      /\ \A e \in Ends(mask) : \E k \in 1..m : ends[k] = e
      /\ \A j, k \in 1..m : j < k => ends[j] <= StartOf(k, mask)
  BY EndsAre
<1>2. /\ DOMAIN runs = 1..m /\ Len(runs) = m
      /\ \A k \in 1..m : /\ runs[k].start = StartOf(k, mask) /\ runs[k].len \in Nat \ {0}
                         /\ runs[k].vision = (mask[ends[k]] # 0) /\ runs[k].start + runs[k].len = ends[k]
  BY RunsAre
<1>3. \A k \in 1..m : StartOf(k, mask) = IF k = 1 THEN 0 ELSE ends[k - 1]
  BY DEF StartOf
<1> HIDE DEF m, ends, runs, n
<1>4. (IF m = 0 THEN 0 ELSE runs[m].start + runs[m].len) = n
  <2>1. CASE n = 0
    <3>1. m = 0
      BY <1>1, <2>1
    <3> QED BY <2>1, <3>1
  <2>2. CASE n > 0
    <3>1. n \in Ends(mask)
      BY <1>1, <2>2 DEF Ends, n
    <3>2. PICK k \in 1..m : ends[k] = n
      BY <1>1, <3>1
    <3>3. ~(k < m)
      <4>1. SUFFICES ASSUME k < m PROVE FALSE
        OBVIOUS
      <4>2. m \in 1..m /\ ends[k] <= StartOf(m, mask) /\ StartOf(m, mask) \in 0..ends[m]-1 /\ ends[m] \in 1..n
        BY <1>1, <3>2, <4>1
      <4> QED BY <1>1, <3>2, <4>2
    <3>4. k = m /\ m # 0
      BY <1>1, <3>2, <3>3
    <3> QED BY <1>2, <3>2, <3>4
  <2> QED BY <1>1, <2>1, <2>2
<1>5. ASSUME NEW k \in 1..m
      PROVE  runs[k].len > 0 /\ runs[k].start = IF k - 1 = 0 THEN 0 ELSE runs[k - 1].start + runs[k - 1].len
  <2>1. CASE k = 1
    BY <1>2, <1>3, <2>1
  <2>2. CASE k # 1
    <3>1. k - 1 \in 1..m /\ k - 1 # 0
      BY <1>1, <2>2
    <3> QED BY <1>2, <1>3, <2>2, <3>1
  <2> QED BY <2>1, <2>2
<1>6. Tiles(runs, n)
  BY <1>2, <1>4, <1>5 DEF Tiles
<1>7. ASSUME NEW r \in Range(runs), NEW i \in r.start..r.start+r.len-1
      PROVE  r.vision <=> mask[i + 1] # 0
  <2>1. PICK k \in 1..m : r = runs[k]
    BY <1>2 DEF Range
  <2>2. ends[k] \in 1..n /\ StartOf(k, mask) \in 0..ends[k]-1 /\ r.start = StartOf(k, mask) /\ r.start + r.len = ends[k]
    BY <1>1, <1>2, <2>1
  <2>3. i + 1 \in StartOf(k, mask)+1..ends[k]
    <3>1. StartOf(k, mask) \in Nat /\ ends[k] \in Nat /\ r.start + r.len - 1 = ends[k] - 1
      <4>1. r.len \in Nat
        BY <1>2, <2>1
      <4> QED BY <1>1, <2>2, <4>1
    <3>2. i \in StartOf(k, mask)..ends[k] - 1
      BY <2>2, <3>1
    <3> QED BY <3>1, <3>2
  <2>4. mask[i + 1] = mask[ends[k]]
    BY <2>3, RunIsUniform DEF m, ends
  <2> QED BY <1>2, <2>1, <2>4
<1> QED BY <1>6, <1>7 DEF runs, n

-----------------------------------------------------------------------------
(* Stretches that follow one another still do without those that are empty. *)

\* While stretches are empty, the next one begins where the first of them does.
LEMMA Gap ==
  ASSUME NEW m \in Nat, NEW b, \A j \in 1..m + 1 : b[j] \in Int,
         NEW i \in 1..m + 1, NEW k \in i..m + 1, \A j \in i..k - 1 : b[j + 1] = b[j]
  PROVE  b[k] = b[i]
<1> DEFINE bad == {j \in i..k : b[j] # b[i]}
<1>1. SUFFICES ASSUME bad # {} PROVE FALSE
  <2>1. k \in i..k
    OBVIOUS
  <2> QED BY <2>1
<1>2. bad \in SUBSET Int /\ IsFiniteSet(bad)
  <2>1. bad \in SUBSET (i..k) /\ i \in Int /\ k \in Int
    OBVIOUS
  <2> HIDE DEF bad
  <2> QED BY <2>1, SomeOf, Zenon
<1>3. PICK j \in bad : \A l \in bad : j <= l
  <2> HIDE DEF bad
  <2> QED BY <1>1, <1>2, Extremes
<1>4. j \in i..k /\ b[j] # b[i]
  BY <1>3
<1>5. j # i
  BY <1>4
<1>6. j - 1 \in i..k - 1 /\ j - 1 \in i..k /\ ~(j <= j - 1)
  BY <1>4, <1>5
<1>7. j - 1 \notin bad
  BY <1>3, <1>6
<1>8. b[j - 1] = b[i]
  BY <1>6, <1>7
<1>9. b[(j - 1) + 1] = b[j - 1]
  BY <1>6
<1>10. (j - 1) + 1 = j
  BY <1>4
<1> QED BY <1>4, <1>8, <1>9, <1>10

\* Boundary j is where stretch j begins and the one before it ends.
LEMMA WithoutEmpty ==
  ASSUME NEW m \in Nat, NEW b, \A j \in 1..m + 1 : b[j] \in Int, NEW n \in Int, b[1] = 0, b[m + 1] = n,
         NEW all, DOMAIN all = 1..m,
         \A j \in 1..m : all[j].start = b[j] /\ all[j].len = b[j + 1] - b[j] /\ b[j] <= b[j + 1]
  PROVE  Tiles(Picked(all, {j \in DOMAIN all : all[j].len > 0}), n)
<1> DEFINE full == {j \in DOMAIN all : all[j].len > 0}
           c    == Cardinality(full)
           at   == Ascending(full)
           some == Picked(all, full)
<1>1. full \in SUBSET Int /\ IsFiniteSet(full)
  <2>1. full \in SUBSET (1..m) /\ 1 \in Int /\ m \in Int
    OBVIOUS
  <2> HIDE DEF full
  <2> QED BY <2>1, SomeOf, Zenon
<1>2. \A j \in 1..m : j \notin full => b[j + 1] = b[j]
  <2> SUFFICES ASSUME NEW j \in 1..m, j \notin full PROVE b[j + 1] = b[j]
    OBVIOUS
  <2>1. b[j] \in Int /\ b[j + 1] \in Int /\ ~(b[j + 1] - b[j] > 0)
    OBVIOUS
  <2> QED BY <2>1
<1>3. \A j \in full : j \in 1..m /\ all[j].len > 0
  OBVIOUS
<1> HIDE DEF full
<1>4. /\ c \in Nat /\ DOMAIN at = 1..c /\ \A k \in 1..c : at[k] \in full
      /\ \A j, k \in 1..c : j < k => at[j] < at[k]
      /\ \A e \in full : \E k \in 1..c : at[k] = e
  BY <1>1, AscendingIs
<1> HIDE DEF c
<1>5. some = [k \in 1..c |-> all[at[k]]]
  BY <1>4 DEF Picked
<1> HIDE DEF at, some
<1>6. DOMAIN some = 1..c /\ Len(some) = c /\ \A k \in 1..c : some[k] = all[at[k]]
  BY <1>4, <1>5
<1>7. \A k \in 1..c : at[k] \in 1..m
  BY <1>3, <1>4
\* Between one full stretch, or the beginning, and the next, or the end, all are empty.
<1>8. ASSUME NEW k \in 0..c
      PROVE  LET from == IF k = 0 THEN 1 ELSE at[k] + 1
                 to   == IF k = c THEN m + 1 ELSE at[k + 1]
             IN b[from] = b[to]
  <2> DEFINE from == IF k = 0 THEN 1 ELSE at[k] + 1
             to   == IF k = c THEN m + 1 ELSE at[k + 1]
  <2>1. from \in 1..m + 1 /\ to \in from..m + 1
    <3>1. k # 0 => k \in 1..c
      BY <1>4
    <3>2. k # c => k + 1 \in 1..c
      BY <1>4
    <3>3. k # 0 /\ k # c => at[k] < at[k + 1]
      BY <1>4, <3>1, <3>2
    <3> QED BY <1>7, <3>1, <3>2, <3>3
  <2>2. ASSUME NEW j \in from..to - 1
        PROVE  b[j + 1] = b[j]
    <3>1. j \in 1..m
      BY <2>1
    <3>2. ASSUME j \in full PROVE FALSE
      <4>1. PICK i \in 1..c : at[i] = j
        BY <1>4, <3>2
      <4>2. k # 0 => ~(i <= k)
        <5>1. SUFFICES ASSUME k # 0, i <= k PROVE FALSE
          OBVIOUS
        <5>2. k \in 1..c /\ (i = k \/ i < k)
          BY <1>4, <5>1
        <5>3. at[i] <= at[k]
          <6>1. at[i] \in 1..m /\ at[k] \in 1..m /\ (i < k => at[i] < at[k])
            BY <1>4, <1>7, <5>2
          <6> QED BY <5>2, <6>1
        <5> QED BY <1>7, <2>1, <4>1, <5>1, <5>2, <5>3
      <4>3. k # c => ~(i >= k + 1)
        <5>1. SUFFICES ASSUME k # c, i >= k + 1 PROVE FALSE
          OBVIOUS
        <5>2. k + 1 \in 1..c /\ (i = k + 1 \/ k + 1 < i)
          BY <1>4, <5>1
        <5>3. at[k + 1] <= at[i]
          <6>1. at[i] \in 1..m /\ at[k + 1] \in 1..m /\ (k + 1 < i => at[k + 1] < at[i])
            BY <1>4, <1>7, <5>2
          <6> QED BY <5>2, <6>1
        <5> QED BY <1>7, <2>1, <4>1, <5>1, <5>2, <5>3
      <4> QED BY <1>4, <4>2, <4>3
    <3> QED BY <1>2, <3>1, <3>2
  <2> HIDE DEF from, to
  <2>3. b[to] = b[from]
    BY <2>1, <2>2, Gap
  <2> QED BY <2>3 DEF from, to
<1>9. (IF c = 0 THEN 0 ELSE some[c].start + some[c].len) = n
  <2>1. CASE c = 0
    BY <1>4, <1>8, <2>1
  <2>2. CASE c # 0
    <3>1. c \in 1..c /\ c \in 0..c
      BY <1>4, <2>2
    <3>2. b[at[c] + 1] = n
      BY <1>8, <2>2, <3>1
    <3>3. some[c].start = b[at[c]] /\ some[c].len = b[at[c] + 1] - b[at[c]] /\ b[at[c]] \in Int
      BY <1>6, <1>7, <3>1
    <3> QED BY <2>2, <3>2, <3>3
  <2> QED BY <2>1, <2>2
<1>10. ASSUME NEW k \in 1..c
       PROVE  some[k].len > 0 /\ some[k].start = IF k - 1 = 0 THEN 0 ELSE some[k - 1].start + some[k - 1].len
  <2>1. some[k].len > 0 /\ some[k].start = b[at[k]]
    BY <1>3, <1>4, <1>6
  <2>2. k - 1 \in 0..c /\ k - 1 # c /\ (k - 1) + 1 = k
    BY <1>4
  <2>3. b[IF k - 1 = 0 THEN 1 ELSE at[k - 1] + 1] = b[at[k]]
    BY <1>8, <2>2
  <2>4. CASE k - 1 = 0
    BY <2>1, <2>3, <2>4
  <2>5. CASE k - 1 # 0
    <3>1. k - 1 \in 1..c /\ at[k - 1] \in 1..m
      BY <1>7, <2>2, <2>5
    <3>2. some[k - 1].start = b[at[k - 1]] /\ some[k - 1].len = b[at[k - 1] + 1] - b[at[k - 1]]
      BY <1>6, <3>1
    <3>3. b[at[k - 1]] \in Int /\ b[at[k - 1] + 1] \in Int
      BY <3>1
    <3>4. some[k - 1].start + some[k - 1].len = b[at[k - 1] + 1]
      BY <3>2, <3>3
    <3> QED BY <2>1, <2>3, <2>5, <3>4
  <2> QED BY <2>4, <2>5
<1>11. Tiles(some, n)
  BY <1>6, <1>9, <1>10 DEF Tiles
<1> QED BY <1>11 DEF some, full
-----------------------------------------------------------------------------
(* The segments with attention of their own. *)

\* Separators are runs of text, one behind the other.
LEMMA SeparatorsAre ==
  ASSUME NEW mask \in Seq({0, 1})
  PROVE  LET seps == Separators(mask)
         IN /\ Len(seps) \in Nat /\ DOMAIN seps = 1..Len(seps)
            /\ \A k \in 1..Len(seps) : /\ seps[k].start \in Nat /\ seps[k].len \in Nat /\ seps[k].len >= 2
                                       /\ seps[k].start + seps[k].len <= Len(mask)
            /\ \A j, k \in 1..Len(seps) : j < k => seps[j].start + seps[j].len <= seps[k].start
            /\ \A k \in 1..Len(seps) : \E j \in DOMAIN Runs(mask) : seps[k] = Runs(mask)[j] /\ ~seps[k].vision
            /\ \A j \in DOMAIN Runs(mask) :
                 ~Runs(mask)[j].vision /\ Runs(mask)[j].len >= 2 => \E k \in 1..Len(seps) : seps[k] = Runs(mask)[j]
<1> DEFINE m    == Cardinality(Ends(mask))
           ends == Ascending(Ends(mask))
           runs == Runs(mask)
           n    == Len(mask)
           text == {k \in DOMAIN runs : ~runs[k].vision /\ runs[k].len >= 2}
           c    == Cardinality(text)
           at   == Ascending(text)
           seps == Separators(mask)
<1>1. /\ m \in Nat /\ n \in Nat /\ \A k \in 1..m : ends[k] \in 1..n
      /\ \A k \in 1..m : StartOf(k, mask) \in 0..ends[k]-1
      /\ \A j, k \in 1..m : j < k => ends[j] <= StartOf(k, mask)
  BY EndsAre
<1>2. /\ DOMAIN runs = 1..m
      /\ \A k \in 1..m : /\ runs[k].start = StartOf(k, mask) /\ runs[k].len \in Nat \ {0}
                         /\ runs[k].start + runs[k].len = ends[k]
  BY RunsAre
<1> HIDE DEF m, ends, n
<1>3. seps = [k \in DOMAIN at |-> runs[at[k]]]
  BY DEF Separators, Picked
<1> HIDE DEF runs, seps
<1>4. /\ text \in SUBSET (1..m) /\ 1 \in Int /\ m \in Int
      /\ \A k \in text : ~runs[k].vision /\ runs[k].len >= 2
      /\ \A k \in 1..m : ~runs[k].vision /\ runs[k].len >= 2 => k \in text
  BY <1>1, <1>2
<1> HIDE DEF text
<1>5. text \in SUBSET Int /\ IsFiniteSet(text)
  BY <1>4, SomeOf, Zenon
<1>6. /\ c \in Nat /\ DOMAIN at = 1..c /\ \A k \in 1..c : at[k] \in text
      /\ \A j, k \in 1..c : j < k => at[j] < at[k]
      /\ \A e \in text : \E k \in 1..c : at[k] = e
  BY <1>5, AscendingIs
<1> HIDE DEF c, at
<1>7. Len(seps) = c /\ DOMAIN seps = 1..c /\ \A k \in 1..c : seps[k] = runs[at[k]] /\ at[k] \in 1..m
  <2>1. seps = [k \in 1..c |-> runs[at[k]]]
    BY <1>3, <1>6
  <2>2. \A k \in 1..c : at[k] \in 1..m
    BY <1>4, <1>6
  <2> QED BY <1>6, <2>1, <2>2
<1>8. ASSUME NEW k \in 1..c
      PROVE  /\ seps[k].start \in Nat /\ seps[k].len \in Nat /\ seps[k].len >= 2
             /\ seps[k].start + seps[k].len <= n /\ ~seps[k].vision
  <2>1. at[k] \in text /\ at[k] \in 1..m /\ seps[k] = runs[at[k]]
    BY <1>6, <1>7
  <2>2. StartOf(at[k], mask) \in Nat /\ ends[at[k]] \in 1..n
    BY <1>1, <2>1
  <2> QED BY <1>1, <1>2, <1>4, <2>1, <2>2
<1>9. ASSUME NEW j \in 1..c, NEW k \in 1..c, j < k
      PROVE  seps[j].start + seps[j].len <= seps[k].start
  <2>1. at[j] \in 1..m /\ at[k] \in 1..m /\ at[j] < at[k]
    BY <1>6, <1>7, <1>9
  <2>2. seps[j].start + seps[j].len = ends[at[j]] /\ seps[k].start = StartOf(at[k], mask)
    BY <1>2, <1>7, <2>1
  <2> QED BY <1>1, <2>1, <2>2
<1>10. ASSUME NEW j \in 1..m, ~runs[j].vision, runs[j].len >= 2
       PROVE  \E k \in 1..c : seps[k] = runs[j]
  <2>1. j \in text
    BY <1>4, <1>10, Zenon
  <2>2. PICK k \in 1..c : at[k] = j
    BY <1>6, <2>1, Zenon
  <2>3. seps[k] = runs[j]
    BY <1>7, <2>2, Zenon
  <2> QED BY <2>3, Zenon
<1>11. /\ Len(seps) \in Nat /\ DOMAIN seps = 1..Len(seps)
       /\ \A k \in 1..Len(seps) : /\ seps[k].start \in Nat /\ seps[k].len \in Nat /\ seps[k].len >= 2
                                  /\ seps[k].start + seps[k].len <= n
       /\ \A j, k \in 1..Len(seps) : j < k => seps[j].start + seps[j].len <= seps[k].start
  BY <1>6, <1>7, <1>8, <1>9
<1>12. \A k \in 1..Len(seps) : \E j \in DOMAIN runs : seps[k] = runs[j] /\ ~seps[k].vision
  BY <1>2, <1>7, <1>8
<1>13. \A j \in DOMAIN runs : ~runs[j].vision /\ runs[j].len >= 2 => \E k \in 1..Len(seps) : seps[k] = runs[j]
  BY <1>2, <1>7, <1>10, Zenon
<1> QED BY <1>11, <1>12, <1>13, Zenon DEF seps, runs, n

\* Segments are not empty, and one behind the other.
LEMMA SegmentsAre ==
  ASSUME NEW mask \in Seq({0, 1})
  PROVE  LET segs == OverrideSegments(mask)
         IN /\ Len(segs) \in Nat /\ DOMAIN segs = 1..Len(segs)
            /\ \A k \in 1..Len(segs) : /\ segs[k].start \in Nat /\ segs[k].end \in Nat
                                       /\ segs[k].start < segs[k].end /\ segs[k].end <= Len(mask)
            /\ \A j, k \in 1..Len(segs) : j < k => segs[j].end <= segs[k].start
<1> DEFINE n       == Len(mask)
           seps    == Separators(mask)
           segs    == OverrideSegments(mask)
           c       == Len(seps)
           from(k) == IF k = 1 THEN 0 ELSE seps[k - 1].start + seps[k - 1].len
           upTo(k) == IF k > c THEN n ELSE IF seps[k].start > from(k) THEN seps[k].start + 1 ELSE from(k)
           all     == [k \in 1..c + 1 |-> [start |-> from(k), end |-> upTo(k)]]
           full    == {k \in DOMAIN all : all[k].end > all[k].start}
           at      == Ascending(full)
           d       == Cardinality(full)
<1>1. /\ n \in Nat /\ c \in Nat
      /\ \A k \in 1..c : /\ seps[k].start \in Nat /\ seps[k].len \in Nat /\ seps[k].len >= 2
                         /\ seps[k].start + seps[k].len <= n
      /\ \A j, k \in 1..c : j < k => seps[j].start + seps[j].len <= seps[k].start
  <2>1. n \in Nat
    OBVIOUS
  <2> QED BY <2>1, SeparatorsAre, Zenon
<1>2. CASE n <= 1
  <2>1. segs = <<>>
    BY <1>2 DEF OverrideSegments
  <2> HIDE DEF segs
  <2> QED BY <2>1, EmptySeq DEF segs
<1>3. CASE n > 1
  <2>1. segs = Picked(all, full)
    <3>1. ASSUME NEW k \in 1..c PROVE Min({n, seps[k].start + 1}) = seps[k].start + 1
      <4>1. seps[k].start + 1 \in Int /\ seps[k].start + 1 <= n
        BY <1>1
      <4> QED BY <1>1, <4>1 DEF Min
    <3> DEFINE code(k) == IF k > c THEN n
                          ELSE IF seps[k].start > from(k) THEN Min({n, seps[k].start + 1}) ELSE from(k)
    <3>2. \A k \in 1..c + 1 : code(k) = upTo(k)
      BY <1>1, <3>1
    <3> DEFINE coded == [k \in 1..c + 1 |-> [start |-> from(k), end |-> code(k)]]
    <3>3. ~(n <= 1)
      BY <1>1, <1>3
    <3>4. segs = Picked(coded, {k \in DOMAIN coded : coded[k].end > coded[k].start})
      BY <3>3 DEF OverrideSegments
    <3> HIDE DEF code, from, upTo, segs
    <3>5. coded = all
      BY <3>2
    <3> QED BY <3>4, <3>5
  <2>2. segs = [k \in DOMAIN at |-> all[at[k]]]
    BY <2>1 DEF Picked
  <2> HIDE DEF segs, n, seps, c
  <2>3. ASSUME NEW k \in 1..c + 1
        PROVE  /\ from(k) \in 0..n
               /\ upTo(k) \in 0..n
               /\ k <= c => upTo(k) <= from(k + 1)
    <3>1. k # 1 => k - 1 \in 1..c
      BY <1>1
    <3>2. from(k) \in 0..n
      BY <1>1, <3>1
    <3>3. k <= c => k \in 1..c
      BY <1>1
    <3>4. upTo(k) \in 0..n
      <4>1. CASE k > c
        BY <1>1, <4>1
      <4>2. CASE k <= c
        <5>1. seps[k].start + 1 \in 0..n
          <6>1. /\ seps[k].start \in Nat /\ seps[k].len \in Nat /\ seps[k].len >= 2
                /\ seps[k].start + seps[k].len <= n
            BY <1>1, <3>3, <4>2
          <6> QED BY <1>1, <6>1
        <5>2. ~(k > c)
          BY <1>1, <4>2
        <5> HIDE DEF from
        <5> QED BY <3>2, <5>1, <5>2
      <4> QED BY <1>1, <4>1, <4>2
    <3>5. ASSUME k <= c PROVE upTo(k) <= from(k + 1)
      <4>1. k \in 1..c /\ ~(k > c) /\ k + 1 # 1 /\ (k + 1) - 1 = k
        BY <1>1, <3>5
      <4>2. from(k + 1) = seps[k].start + seps[k].len
        BY <4>1
      <4>3. from(k) <= seps[k].start
        <5>1. CASE k = 1
          BY <1>1, <4>1, <5>1
        <5>2. CASE k # 1
          <6>1. k - 1 \in 1..c /\ k - 1 < k
            BY <3>1, <5>2
          <6> QED BY <1>1, <4>1, <5>2, <6>1
        <5> QED BY <5>1, <5>2
      <4> HIDE DEF from
      <4> QED BY <1>1, <3>2, <4>1, <4>2, <4>3
    <3> QED BY <3>2, <3>4, <3>5
  <2>4. ASSUME NEW j \in 1..c + 1, NEW k \in 1..c + 1, j < k
        PROVE  upTo(j) <= from(k)
    <3>1. j <= c /\ j + 1 \in 1..c + 1 /\ j + 1 <= k
      BY <1>1, <2>4
    <3>2. upTo(j) <= from(j + 1)
      BY <2>3, <3>1
    <3>3. from(j + 1) <= from(k)
      <4>1. CASE j + 1 = k
        BY <2>3, <4>1
      <4>2. CASE j + 1 # k
        <5>1. j \in 1..c /\ k - 1 \in 1..c /\ j < k - 1 /\ j + 1 # 1 /\ (j + 1) - 1 = j /\ k # 1
          BY <1>1, <2>4, <3>1, <4>2
        <5>2. from(j + 1) = seps[j].start + seps[j].len /\ from(k) = seps[k - 1].start + seps[k - 1].len
          BY <5>1
        <5> HIDE DEF from
        <5>3. seps[j].start + seps[j].len <= seps[k - 1].start
          <6>1. k - 1 \in 1..c /\ j \in 1..c /\ j < k - 1
            BY <5>1
          <6> QED BY <1>1, <6>1, Zenon
        <5>4. /\ seps[j].start \in Nat /\ seps[j].len \in Nat
              /\ seps[k - 1].start \in Nat /\ seps[k - 1].len \in Nat
          BY <1>1, <5>1
        <5> DEFINE a == seps[j].start + seps[j].len
                   e == seps[k - 1].start
                   l == seps[k - 1].len
        <5>5. a \in Int /\ e \in Nat /\ l \in Nat /\ a <= e /\ from(j + 1) = a /\ from(k) = e + l
          BY <5>2, <5>3, <5>4
        <5> HIDE DEF a, e, l
        <5> QED BY <5>5
      <4> QED BY <4>1, <4>2
    <3>4. upTo(j) \in Int /\ from(j + 1) \in Int /\ from(k) \in Int
      BY <2>3, <3>1
    <3> HIDE DEF from, upTo
    <3> QED BY <3>2, <3>3, <3>4
  <2> HIDE DEF from, upTo
  <2>5. full \in SUBSET (1..c + 1) /\ 1 \in Int /\ c + 1 \in Int /\ \A k \in full : from(k) < upTo(k)
    BY <1>1, <2>3
  <2>6. \A k \in 1..c + 1 : all[k].start = from(k) /\ all[k].end = upTo(k)
    OBVIOUS
  <2> HIDE DEF full, all
  <2>7. full \in SUBSET Int /\ IsFiniteSet(full)
    BY <2>5, SomeOf, Zenon
  <2>8. /\ d \in Nat /\ DOMAIN at = 1..d /\ \A k \in 1..d : at[k] \in full
        /\ \A j, k \in 1..d : j < k => at[j] < at[k]
    BY <2>7, AscendingIs
  <2> HIDE DEF at, d
  <2>9. /\ Len(segs) = d /\ DOMAIN segs = 1..d
        /\ \A k \in 1..d : /\ at[k] \in 1..c + 1 /\ from(at[k]) < upTo(at[k])
                           /\ segs[k].start = from(at[k]) /\ segs[k].end = upTo(at[k])
    <3>1. segs = [k \in 1..d |-> all[at[k]]]
      BY <2>2, <2>8
    <3>2. \A k \in 1..d : at[k] \in 1..c + 1 /\ from(at[k]) < upTo(at[k])
      BY <2>5, <2>8
    <3>3. Len(segs) = d /\ DOMAIN segs = 1..d /\ \A k \in 1..d : segs[k] = all[at[k]]
      BY <2>8, <3>1
    <3> QED BY <2>6, <3>2, <3>3
  <2>10. ASSUME NEW k \in 1..d
         PROVE  segs[k].start \in Nat /\ segs[k].end \in Nat /\ segs[k].start < segs[k].end /\ segs[k].end <= n
    <3>1. at[k] \in 1..c + 1 /\ from(at[k]) < upTo(at[k]) /\ segs[k].start = from(at[k]) /\ segs[k].end = upTo(at[k])
      BY <2>9
    <3>2. from(at[k]) \in 0..n /\ upTo(at[k]) \in 0..n
      BY <2>3, <3>1
    <3> QED BY <1>1, <3>1, <3>2
  <2>11. ASSUME NEW j \in 1..d, NEW k \in 1..d, j < k
         PROVE  segs[j].end <= segs[k].start
    BY <2>4, <2>8, <2>9, <2>11
  <2> QED BY <2>8, <2>9, <2>10, <2>11 DEF segs, n
<1> QED BY <1>1, <1>2, <1>3

\* Attention is replaced piece by piece, and every row stays in its place.
LEMMA PiecesTile ==
  ASSUME NEW n \in Nat, NEW segs, Len(segs) \in Nat,
         \A k \in 1..Len(segs) : /\ segs[k].start \in Nat /\ segs[k].end \in Nat
                                 /\ segs[k].start < segs[k].end /\ segs[k].end <= n,
         \A j, k \in 1..Len(segs) : j < k => segs[j].end <= segs[k].start
  PROVE  Tiles(Pieces(n, segs), n)
<1> DEFINE c       == Len(segs)
           m       == 2 * c + 1
           cur(k)  == IF k = 1 THEN 0 ELSE segs[k - 1].end
           next(k) == IF k > c THEN n ELSE segs[k].start
           all     == [j \in 1..m |->
                         LET k == (j + 1) \div 2
                         IN IF j % 2 = 1 THEN [start |-> cur(k), len |-> next(k) - cur(k)]
                            ELSE [start |-> segs[k].start, len |-> segs[k].end - segs[k].start]]
           b       == [j \in 1..m + 1 |-> IF j % 2 = 1 THEN cur((j + 1) \div 2) ELSE next((j + 1) \div 2)]
<1>1. Pieces(n, segs) = Picked(all, {j \in DOMAIN all : all[j].len > 0})
  BY DEF Pieces
<1> HIDE DEF c
<1>2. c \in Nat /\ m \in Nat
  BY DEF c
<1>3. ASSUME NEW k \in 1..c + 1
      PROVE  cur(k) \in 0..n /\ next(k) \in 0..n /\ cur(k) <= next(k)
  <2>1. k # 1 => k - 1 \in 1..c
    BY <1>2
  <2>2. ~(k > c) => k \in 1..c
    BY <1>2
  <2>3. cur(k) \in 0..n
    BY <2>1 DEF c
  <2>4. next(k) \in 0..n
    BY <2>2 DEF c
  <2>5. CASE k > c
    BY <2>3, <2>5
  <2>6. CASE k = 1
    BY <2>4, <2>6
  <2>7. CASE k # 1 /\ ~(k > c)
    <3>1. k - 1 \in 1..c /\ k \in 1..c /\ k - 1 < k
      BY <1>2, <2>1, <2>2, <2>7
    <3> QED BY <2>3, <2>4, <2>7, <3>1 DEF c
  <2> QED BY <2>3, <2>4, <2>5, <2>6, <2>7
<1>4. ASSUME NEW j \in 1..m + 1
      PROVE  (j + 1) \div 2 \in 1..c + 1 /\ b[j] \in 0..n
  <2>1. (j + 1) \div 2 \in 1..c + 1
    BY <1>2
  <2> HIDE DEF cur, next, m
  <2> QED BY <1>3, <2>1
<1>5. b[1] = 0 /\ b[m + 1] = n
  <2>1. 1 \in 1..m + 1 /\ m + 1 \in 1..m + 1 /\ (1 + 1) \div 2 = 1 /\ 1 % 2 = 1
        /\ (m + 1) % 2 = 0 /\ ((m + 1) + 1) \div 2 = c + 1 /\ c + 1 > c
    BY <1>2
  <2> HIDE DEF m
  <2> QED BY <2>1
<1>6. ASSUME NEW j \in 1..m
      PROVE  all[j].start = b[j] /\ all[j].len = b[j + 1] - b[j] /\ b[j] <= b[j + 1]
  <2> DEFINE k == (j + 1) \div 2
  <2>1. j \in 1..m + 1 /\ j + 1 \in 1..m + 1 /\ k \in 1..c + 1
    BY <1>2
  <2>2. CASE j % 2 = 1
    <3>1. (j + 1) % 2 = 0 /\ ((j + 1) + 1) \div 2 = k
      BY <2>2
    <3> HIDE DEF k, m, cur, next
    <3>2. b[j] = cur(k) /\ b[j + 1] = next(k)
      <4>1. (j + 1) % 2 # 1
        BY <3>1
      <4> QED BY <2>1, <2>2, <3>1, <4>1 DEF k
    <3>3. all[j].start = cur(k) /\ all[j].len = next(k) - cur(k)
      BY <2>2 DEF k
    <3> QED BY <1>3, <2>1, <3>2, <3>3
  <2>3. CASE j % 2 = 0
    <3>1. (j + 1) % 2 = 1 /\ ((j + 1) + 1) \div 2 = k + 1 /\ k \in 1..c
      BY <1>2, <2>3
    <3>2. ~(k > c) /\ k + 1 # 1 /\ (k + 1) - 1 = k
      BY <1>2, <3>1
    <3> HIDE DEF k, m
    <3>3. b[j] = next(k) /\ b[j + 1] = cur(k + 1)
      <4> HIDE DEF cur, next
      <4> QED BY <2>1, <2>3, <3>1 DEF k
    <3>4. next(k) = segs[k].start /\ cur(k + 1) = segs[k].end
      BY <3>2
    <3>5. all[j].start = segs[k].start /\ all[j].len = segs[k].end - segs[k].start
      <4> HIDE DEF cur, next
      <4>1. j % 2 # 1
        BY <2>3
      <4> QED BY <4>1 DEF k
    <3>6. segs[k].start \in Nat /\ segs[k].end \in Nat /\ segs[k].start < segs[k].end
      BY <3>1 DEF c
    <3> HIDE DEF cur, next, all, b
    <3> QED BY <3>3, <3>4, <3>5, <3>6
  <2> QED BY <2>2, <2>3
<1>7. \A j \in 1..m + 1 : b[j] \in Int
  BY <1>4
<1>8. DOMAIN all = 1..m
  OBVIOUS
<1> HIDE DEF all, b, m
<1>9. Tiles(Picked(all, {j \in DOMAIN all : all[j].len > 0}), n)
  <2>1. n \in Int /\ \A j \in 1..m : all[j].start = b[j] /\ all[j].len = b[j + 1] - b[j] /\ b[j] <= b[j + 1]
    BY <1>6
  <2> QED BY <1>2, <1>5, <1>7, <1>8, <2>1, WithoutEmpty, Zenon
<1> QED BY <1>1, <1>9

\* Whatever the mask, every row stays where it is and goes through the weights of its
\* modality (make_prefix_runs, make_visual_override_segments, build_hy_prefix_routed_layer).
THEOREM RowsStayInPlace ==
  ASSUME NEW mask \in Seq({0, 1})
  PROVE  InPlace(mask)
<1> DEFINE segs == OverrideSegments(mask)
<1>1. /\ Len(segs) \in Nat
      /\ \A k \in 1..Len(segs) : /\ segs[k].start \in Nat /\ segs[k].end \in Nat
                                 /\ segs[k].start < segs[k].end /\ segs[k].end <= Len(mask)
      /\ \A j, k \in 1..Len(segs) : j < k => segs[j].end <= segs[k].start
  BY SegmentsAre
<1>2. Len(mask) \in Nat
  OBVIOUS
<1> HIDE DEF segs
<1>3. Tiles(Pieces(Len(mask), segs), Len(mask))
  BY <1>1, <1>2, PiecesTile
<1> QED BY <1>3, RunsTile DEF InPlace, segs
-----------------------------------------------------------------------------
(* The images of a prefix. *)

\* A separator is between two patches if and only if two rows of text in a row are.
LEMMA ApartIs ==
  ASSUME NEW mask \in Seq({0, 1}), NEW i \in Patches(mask), NEW j \in Patches(mask)
  PROVE  (\E s \in Range(Separators(mask)) : i < s.start /\ s.start < j)
           <=> \E t \in 0..Len(mask)-2 : i < t /\ t + 1 < j /\ mask[t + 1] = 0 /\ mask[t + 2] = 0
<1> DEFINE n    == Len(mask)
           m    == Cardinality(Ends(mask))
           ends == Ascending(Ends(mask))
           runs == Runs(mask)
           seps == Separators(mask)
<1>1. n \in Nat /\ i \in 0..n-1 /\ j \in 0..n-1 /\ mask[i + 1] # 0 /\ mask[j + 1] # 0 /\ DOMAIN mask = 1..n
      /\ \A x \in 1..n : mask[x] \in {0, 1}
  BY DEF Patches
<1>2. /\ m \in Nat /\ \A k \in 1..m : ends[k] \in 1..n /\ ends[k] \in Ends(mask)
      /\ \A k \in 1..m : StartOf(k, mask) \in 0..ends[k]-1
  BY EndsAre
<1>3. /\ DOMAIN runs = 1..m
      /\ \A k \in 1..m : /\ runs[k].start = StartOf(k, mask) /\ runs[k].len \in Nat \ {0}
                         /\ runs[k].vision = (mask[ends[k]] # 0) /\ runs[k].start + runs[k].len = ends[k]
  BY RunsAre
<1>4. \A k \in 1..m : \A x \in StartOf(k, mask)+1..ends[k] : mask[x] = mask[ends[k]]
  BY RunIsUniform
<1>5. /\ DOMAIN seps = 1..Len(seps)
      /\ \A k \in 1..Len(seps) : /\ seps[k].start \in Nat /\ seps[k].len \in Nat /\ seps[k].len >= 2
      /\ \A k \in 1..Len(seps) : \E l \in DOMAIN runs : seps[k] = runs[l] /\ ~seps[k].vision
      /\ \A l \in DOMAIN runs : ~runs[l].vision /\ runs[l].len >= 2 => \E k \in 1..Len(seps) : seps[k] = runs[l]
  BY SeparatorsAre, Zenon
<1> HIDE DEF n, m, ends, runs, seps
<1>6. ASSUME NEW s \in Range(seps), i < s.start, s.start < j
      PROVE  \E t \in 0..n-2 : i < t /\ t + 1 < j /\ mask[t + 1] = 0 /\ mask[t + 2] = 0
  <2>1. PICK k \in 1..Len(seps) : s = seps[k]
    BY <1>5 DEF Range
  <2>2. PICK l \in 1..m : s = runs[l] /\ ~s.vision
    BY <1>3, <1>5, <2>1
  <2>3. s.start \in Nat /\ s.len \in Nat /\ s.len >= 2 /\ s.start = StartOf(l, mask) /\ s.start + s.len = ends[l] /\ ends[l] \in 1..n
    BY <1>2, <1>3, <1>5, <2>1, <2>2
  <2>4. s.start + 1 \in StartOf(l, mask)+1..ends[l] /\ s.start + 2 \in StartOf(l, mask)+1..ends[l]
    BY <1>1, <2>3
  <2>5. mask[ends[l]] = 0
    BY <1>3, <2>2
  <2>6. mask[s.start + 1] = 0 /\ mask[s.start + 2] = 0
    BY <1>4, <2>4, <2>5
  <2>7. j # s.start + 1
    <3>1. (s.start + 1) + 1 = s.start + 2
      BY <2>3
    <3> QED BY <1>1, <2>6, <3>1
  <2>8. s.start \in 0..n-2 /\ s.start + 1 < j
    BY <1>1, <1>6, <2>3, <2>7
  <2> QED BY <1>6, <2>6, <2>8
<1>7. ASSUME NEW t \in 0..n-2, i < t, t + 1 < j, mask[t + 1] = 0, mask[t + 2] = 0
      PROVE  \E s \in Range(seps) : i < s.start /\ s.start < j
  <2>1. t + 1 \in 1..n /\ t + 1 # n
    BY <1>1
  <2>2. PICK k \in 1..m : t + 1 \in StartOf(k, mask)+1..ends[k]
    BY <2>1, RowHasRun DEF n, m, ends
  <2>3. StartOf(k, mask) \in Nat /\ ends[k] \in 1..n /\ ends[k] \in Ends(mask)
    BY <1>2
  <2>4. mask[ends[k]] = 0
    BY <1>4, <1>7, <2>2
  <2>5. ends[k] # t + 1
    <3>1. (t + 1) + 1 = t + 2
      BY <1>1
    <3> QED BY <1>7, <2>1, <2>3, <3>1 DEF Ends, n
  <2>6. ~runs[k].vision /\ runs[k].len >= 2
    <3>1. StartOf(k, mask) <= t /\ t + 2 <= ends[k]
      BY <1>1, <2>2, <2>3, <2>5
    <3>2. runs[k].len \in Nat /\ StartOf(k, mask) + runs[k].len = ends[k]
      BY <1>3
    <3>3. runs[k].len >= 2
      BY <1>1, <2>3, <3>1, <3>2
    <3> QED BY <1>3, <2>4, <3>3
  <2>7. PICK l \in 1..Len(seps) : seps[l] = runs[k]
    BY <1>3, <1>5, <2>6
  <2>8. i < StartOf(k, mask)
    <3>1. SUFFICES ASSUME StartOf(k, mask) <= i PROVE FALSE
      BY <1>1, <2>3
    <3>2. i + 1 \in StartOf(k, mask)+1..ends[k]
      BY <1>1, <1>7, <2>2, <2>3, <3>1
    <3> QED BY <1>1, <1>4, <2>4, <3>2
  <2>9. StartOf(k, mask) < j
    BY <1>1, <1>7, <2>2, <2>3
  <2>10. seps[l] \in Range(seps) /\ seps[l].start = StartOf(k, mask)
    BY <1>3, <1>5, <2>7 DEF Range
  <2> QED BY <2>8, <2>9, <2>10
<1> QED BY <1>6, <1>7 DEF seps, n

\* The rows have this many images of this height, and patches nowhere else.
ImagesAt(rows, grid, height, count, lang) ==
  /\ Len(rows) = 2 + count * height + lang /\ DOMAIN rows = 1..Len(rows)
  /\ \A k \in 0..count-1 : \A c \in 0..height-1 : rows[3 + (k * height + c)] = ImageRow(k, grid, c)
  /\ \A i \in DOMAIN rows : rows[i].of = "patch" => \E k \in 0..count-1, c \in 0..height-1 : i = 3 + (k * height + c)

\* Where the rows of an image are in a prefix.
LEMMA PrefixIs ==
  ASSUME NEW visual \in Nat, NEW perImage \in Nat \ {0}, NEW lang \in Nat, Buildable(visual, perImage, lang)
  PROVE  \E grid \in Nat \ {0}, count \in Nat \ {0}, height \in Nat :
           height = 2 + grid * (grid + 1) /\ ImagesAt(PrefixRows(visual, perImage, lang), grid, height, count, lang)
<1> DEFINE grid   == CHOOSE g \in Squares(perImage) : TRUE
           height == 1 + grid * (grid + 1) + 1
           count  == visual \div perImage
           images == count * height
           rows   == PrefixRows(visual, perImage, lang)
           at(i)  == IF i <= 2 THEN TextRow(IF i = 1 THEN "bos" ELSE "user")
                     ELSE IF i <= 2 + images THEN ImageRow((i - 3) \div height, grid, (i - 3) % height)
                     ELSE TextRow("lang")
<1>1. grid \in Nat \ {0} /\ count \in Nat \ {0}
  BY GridIs
<1>2. rows = [i \in 1..2 + images + lang |-> at(i)]
  BY DEF PrefixRows
<1> HIDE DEF grid, count, images
<1>3. height \in Nat \ {0} /\ images \in Nat /\ height = 2 + grid * (grid + 1) /\ images = count * height
  <2>1. grid * (grid + 1) \in Nat
    BY <1>1
  <2>2. height \in Nat \ {0}
    BY <2>1
  <2> HIDE DEF height
  <2>3. images \in Nat /\ images = count * height
    BY <1>1, <2>2 DEF images
  <2> QED BY <2>1, <2>2, <2>3 DEF height
<1> HIDE DEF height
<1>4. DOMAIN rows = 1..2 + images + lang /\ Len(rows) = 2 + images + lang
      /\ \A i \in 1..2 + images + lang : rows[i] = at(i)
  <2> HIDE DEF at
  <2>1. 2 + images + lang \in Nat
    BY <1>3
  <2> QED BY <1>2, <2>1
<1>5. ASSUME NEW k \in 0..count-1, NEW c \in 0..height-1
      PROVE  rows[3 + (k * height + c)] = ImageRow(k, grid, c)
  <2>1. count \in Nat /\ height \in Nat \ {0} /\ k \in Int
    BY <1>1, <1>3
  <2>2. k * height + c \in 0..count * height - 1
    BY <2>1, PlaceIn
  <2>3. (k * height + c) \div height = k /\ (k * height + c) % height = c
    BY <2>1, DivisionIs
  <2> DEFINE p == k * height + c
             i == 3 + p
  <2>4. p \in 0..images-1 /\ p \div height = k /\ p % height = c
    BY <1>3, <2>2, <2>3
  <2> HIDE DEF p
  <2>5. i \in 1..2 + images + lang /\ ~(i <= 2) /\ i <= 2 + images /\ i - 3 = p
    BY <1>3, <2>4
  <2> HIDE DEF i
  <2>6. rows[i] = ImageRow((i - 3) \div height, grid, (i - 3) % height)
    BY <1>4, <2>5
  <2>7. rows[i] = ImageRow(k, grid, c)
    BY <2>4, <2>5, <2>6
  <2> QED BY <2>7 DEF i, p
<1>6. ASSUME NEW i \in 1..2 + images + lang, rows[i].of = "patch"
      PROVE  \E k \in 0..count-1, c \in 0..height-1 : i = 3 + (k * height + c)
  <2>1. i > 2 /\ i <= 2 + images
    <3>1. SUFFICES ASSUME i <= 2 \/ i > 2 + images PROVE FALSE
      BY <1>3
    <3>2. at(i) = TextRow("bos") \/ at(i) = TextRow("user") \/ at(i) = TextRow("lang")
      BY <1>3, <3>1
    <3> HIDE DEF at
    <3> QED BY <1>4, <1>6, <3>2 DEF TextRow
  <2>2. i - 3 \in 0..count * height - 1 /\ height \in Nat \ {0} /\ count \in Nat
    BY <1>1, <1>3, <2>1
  <2> DEFINE k == (i - 3) \div height
             c == (i - 3) % height
  <2>3. k \in 0..count-1 /\ c \in 0..height-1 /\ i - 3 = k * height + c
    BY <2>2, PlaceOf
  <2>4. i = 3 + (i - 3)
    OBVIOUS
  <2> QED BY <2>3, <2>4, Zenon
<1> HIDE DEF at
<1>7. ImagesAt(rows, grid, height, count, lang)
  <2>1. Len(rows) = 2 + count * height + lang /\ DOMAIN rows = 1..Len(rows) /\ DOMAIN rows = 1..2 + images + lang
    BY <1>3, <1>4
  <2> HIDE DEF rows
  <2> QED BY <1>5, <1>6, <2>1, Zenon DEF ImagesAt
<1> HIDE DEF rows
<1>8. height \in Nat
  BY <1>3
<1> QED BY <1>1, <1>3, <1>7, <1>8, Zenon DEF rows

\* An image begins and ends with text, and in between no two rows of text are next to each other.
LEMMA ImageText ==
  ASSUME NEW k, NEW grid \in Nat \ {0}
  PROVE  LET height == 2 + grid * (grid + 1)
         IN /\ height \in Nat /\ height >= 4
            /\ ImageRow(k, grid, 0).of # "patch" /\ ImageRow(k, grid, height - 1).of # "patch"
            /\ \A c \in 1..height-3 : ImageRow(k, grid, c).of = "patch" \/ ImageRow(k, grid, c + 1).of = "patch"
            /\ \A c \in 0..height-1 : ImageRow(k, grid, c).of = "patch" => ImageRow(k, grid, c).image = k
<1> DEFINE area   == grid * (grid + 1)
           height == 2 + area
<1>1. area \in Nat /\ area >= 2
  BY ProductGrows
<1> HIDE DEF area
<1>2. height \in Nat /\ height >= 4 /\ height - 1 = 1 + area
  BY <1>1
<1>3. \A c : ImageRow(k, grid, c) =
        IF c = 0 THEN TextRow("start")
        ELSE IF c = 1 + area THEN TextRow("end")
        ELSE IF (c - 1) % (grid + 1) = grid THEN TextRow("split")
        ELSE PatchRow(k, k * (grid * grid) + ((c - 1) \div (grid + 1)) * grid + ((c - 1) % (grid + 1)))
  BY DEF ImageRow, area
<1>4. ImageRow(k, grid, 0).of # "patch" /\ ImageRow(k, grid, height - 1).of # "patch"
  <2>1. 1 + area # 0
    BY <1>1
  <2>2. ImageRow(k, grid, 0) = TextRow("start") /\ ImageRow(k, grid, 1 + area) = TextRow("end")
    BY <1>3, <2>1, Zenon
  <2> QED BY <1>2, <2>1, <2>2 DEF TextRow
<1>5. ASSUME NEW c \in 1..height-3
      PROVE  ImageRow(k, grid, c).of = "patch" \/ ImageRow(k, grid, c + 1).of = "patch"
  <2> DEFINE q == (c - 1) \div (grid + 1)
  <2>1. c # 0 /\ c # 1 + area /\ c + 1 # 0 /\ c + 1 # 1 + area /\ (c + 1) - 1 = c
    BY <1>1
  <2>2. ~((c - 1) % (grid + 1) = grid /\ c % (grid + 1) = grid)
    <3>1. SUFFICES ASSUME (c - 1) % (grid + 1) = grid, c % (grid + 1) = grid PROVE FALSE
      OBVIOUS
    <3>2. q \in Int /\ c - 1 = q * (grid + 1) + grid
      <4>1. c - 1 \in Int /\ grid + 1 \in Nat \ {0}
        BY <1>1
      <4>2. q \in Int /\ c - 1 = q * (grid + 1) + ((c - 1) % (grid + 1))
        BY <4>1, Division, Zenon
      <4> QED BY <3>1, <4>2
    <3> HIDE DEF q
    <3>3. c = (q + 1) * (grid + 1) + 0
      BY <1>1, <3>2
    <3>4. q + 1 \in Int /\ 0 \in 0..(grid + 1)-1 /\ grid + 1 \in Nat \ {0}
      BY <3>2
    <3>5. ((q + 1) * (grid + 1) + 0) % (grid + 1) = 0
      BY <3>4, DivisionIs, Zenon
    <3> QED BY <3>1, <3>3, <3>5
  <2>3. CASE (c - 1) % (grid + 1) # grid
    <3>1. ImageRow(k, grid, c) = PatchRow(k, k * (grid * grid) + ((c - 1) \div (grid + 1)) * grid + ((c - 1) % (grid + 1)))
      BY <1>3, <2>1, <2>3, Zenon
    <3> QED BY <3>1 DEF PatchRow
  <2>4. CASE c % (grid + 1) # grid
    <3>1. ImageRow(k, grid, c + 1)
            = PatchRow(k, k * (grid * grid) + (((c + 1) - 1) \div (grid + 1)) * grid + (((c + 1) - 1) % (grid + 1)))
      <4>1. ((c + 1) - 1) % (grid + 1) # grid
        BY <2>1, <2>4
      <4> QED BY <1>3, <2>1, <4>1, Zenon
    <3> QED BY <3>1 DEF PatchRow
  <2> QED BY <2>2, <2>3, <2>4
<1>6. ASSUME NEW c \in 0..height-1, ImageRow(k, grid, c).of = "patch"
      PROVE  ImageRow(k, grid, c).image = k
  <2>1. \/ \E what \in {"start", "end", "split"} : ImageRow(k, grid, c) = TextRow(what)
        \/ \E token : ImageRow(k, grid, c) = PatchRow(k, token)
    BY <1>3, Zenon
  <2> QED BY <1>6, <2>1 DEF TextRow, PatchRow
<1> QED BY <1>2, <1>4, <1>5, <1>6 DEF area

\* Two patches are apart in the mask of a prefix if and only if they are of different images.
LEMMA ApartAreImages ==
  ASSUME NEW visual \in Nat, NEW perImage \in Nat \ {0}, NEW lang \in Nat, Buildable(visual, perImage, lang),
         NEW rows, rows = PrefixRows(visual, perImage, lang),
         NEW i \in 0..Len(rows)-1, NEW j \in 0..Len(rows)-1,
         rows[i + 1].of = "patch", rows[j + 1].of = "patch"
  PROVE  /\ rows[i + 1].image \in Int /\ rows[j + 1].image \in Int
         /\ (\E t \in 0..Len(rows)-2 : i < t /\ t + 1 < j /\ rows[t + 1].of # "patch" /\ rows[t + 2].of # "patch")
              <=> rows[i + 1].image < rows[j + 1].image
<1>1. PICK grid \in Nat \ {0}, count \in Nat \ {0}, h \in Nat :
        h = 2 + grid * (grid + 1) /\ ImagesAt(rows, grid, h, count, lang)
  BY PrefixIs, Zenon
<1> DEFINE n == Len(rows)
<1>2. /\ DOMAIN rows = 1..n /\ n = 2 + count * h + lang
      /\ \A k \in 0..count-1 : \A c \in 0..h-1 : rows[3 + (k * h + c)] = ImageRow(k, grid, c)
      /\ \A x \in DOMAIN rows : rows[x].of = "patch" => \E k \in 0..count-1, c \in 0..h-1 : x = 3 + (k * h + c)
  BY <1>1, Zenon DEF ImagesAt
<1>3. \A k : /\ h >= 4
             /\ ImageRow(k, grid, 0).of # "patch" /\ ImageRow(k, grid, h - 1).of # "patch"
             /\ \A c \in 1..h-3 : ImageRow(k, grid, c).of = "patch" \/ ImageRow(k, grid, c + 1).of = "patch"
             /\ \A c \in 0..h-1 : ImageRow(k, grid, c).of = "patch" => ImageRow(k, grid, c).image = k
  BY <1>1, ImageText, Zenon
<1>4. h \in Nat \ {0} /\ h >= 4 /\ count * h \in Nat /\ n \in Nat
  <2>1. h >= 4
    BY <1>3, Zenon
  <2>2. count * h \in Nat
    OBVIOUS
  <2> QED BY <1>2, <2>1, <2>2
<1> HIDE DEF n
<1>5. i + 1 \in 1..n /\ j + 1 \in 1..n /\ i + 1 \in DOMAIN rows /\ j + 1 \in DOMAIN rows
  BY <1>2, <1>4 DEF n
<1>6. PICK k \in 0..count-1, c \in 0..h-1 : i + 1 = 3 + (k * h + c)
  BY <1>2, <1>5
<1>7. PICK l \in 0..count-1, d \in 0..h-1 : j + 1 = 3 + (l * h + d)
  BY <1>2, <1>5
<1>8. rows[i + 1] = ImageRow(k, grid, c) /\ rows[j + 1] = ImageRow(l, grid, d)
  BY <1>2, <1>6, <1>7
<1>9. k \in Int /\ l \in Int /\ rows[i + 1].image = k /\ rows[j + 1].image = l
  <2>1. rows[i + 1].image = k /\ rows[j + 1].image = l
    <3>1. ImageRow(k, grid, c).of = "patch" /\ ImageRow(l, grid, d).of = "patch"
      BY <1>8
    <3>2. ImageRow(k, grid, c).image = k /\ ImageRow(l, grid, d).image = l
      BY <1>3, <3>1, Zenon
    <3> QED BY <1>8, <3>2
  <2> QED BY <2>1
<1>10. c \in 1..h-2 /\ d \in 1..h-2
  <2>1. c # 0 /\ c # h - 1 /\ d # 0 /\ d # h - 1
    BY <1>3, <1>8
  <2> QED BY <1>4, <2>1
<1>11. k * h \in Int /\ l * h \in Int /\ i = 2 + (k * h + c) /\ j = 2 + (l * h + d)
  <2>0. k \in Int /\ l \in Int
    OBVIOUS
  <2>1. k * h \in Int /\ l * h \in Int
    BY <2>0
  <2>2. i \in Int /\ j \in Int /\ c \in Int /\ d \in Int
    BY <1>4
  <2> QED BY <1>6, <1>7, <2>1, <2>2
<1>12. ASSUME k < l
       PROVE  \E t \in 0..n-2 : i < t /\ t + 1 < j /\ rows[t + 1].of # "patch" /\ rows[t + 2].of # "patch"
  <2>1. k + 1 \in 0..count-1 /\ k + 1 <= l
    BY <1>9, <1>12
  <2>2. (k + 1) * h = k * h + h /\ (k + 1) * h <= l * h
    BY <1>4, <1>9, <2>1, ProductGrows
  <2> DEFINE t == 2 + (k * h + (h - 1))
  <2>3. i < t /\ t + 1 < j /\ t \in Int /\ t >= 0
    BY <1>4, <1>10, <1>11, <1>5, <2>2
  <2>4. t + 1 = 3 + (k * h + (h - 1)) /\ t + 2 = 3 + ((k + 1) * h + 0)
    BY <1>4, <1>11, <2>2
  <2>5. h - 1 \in 0..h-1 /\ 0 \in 0..h-1
    BY <1>4
  <2>6. rows[t + 1].of # "patch" /\ rows[t + 2].of # "patch"
    <3>1. rows[t + 1] = ImageRow(k, grid, h - 1) /\ rows[t + 2] = ImageRow(k + 1, grid, 0)
      BY <1>2, <2>1, <2>4, <2>5, Zenon
    <3> QED BY <1>3, <3>1, Zenon
  <2> HIDE DEF t
  <2>7. t \in 0..n-2
    BY <1>4, <1>5, <2>3
  <2> QED BY <2>3, <2>6, <2>7
<1>13. ASSUME NEW t \in 0..n-2, i < t, t + 1 < j, rows[t + 1].of # "patch", rows[t + 2].of # "patch"
       PROVE  k < l
  <2>1. SUFFICES ASSUME l <= k PROVE FALSE
    BY <1>9
  <2>2. k = l
    <3>1. SUFFICES ASSUME l + 1 <= k PROVE FALSE
      BY <1>9, <2>1
    <3>2. (l + 1) * h = l * h + h /\ (l + 1) * h <= k * h
      BY <1>4, <1>9, <3>1, ProductGrows
    <3> QED BY <1>4, <1>10, <1>11, <1>13, <3>2
  <2> DEFINE e == t - 2 - k * h
  <2>9. t \in Int /\ h \in Int
    BY <1>4
  <2>3. e \in 1..h-3 /\ e \in 0..h-1 /\ e + 1 \in 0..h-1
    BY <1>4, <1>10, <1>11, <1>13, <2>2
  <2>4. t + 1 = 3 + (k * h + e) /\ t + 2 = 3 + (k * h + (e + 1))
    BY <1>11, <2>9
  <2> HIDE DEF e
  <2>5. rows[t + 1] = ImageRow(k, grid, e) /\ rows[t + 2] = ImageRow(k, grid, e + 1)
    BY <1>2, <2>3, <2>4, Zenon
  <2>6. ImageRow(k, grid, e).of = "patch" \/ ImageRow(k, grid, e + 1).of = "patch"
    BY <1>3, <2>3, Zenon
  <2> QED BY <1>13, <2>5, <2>6
<1> QED BY <1>9, <1>12, <1>13 DEF n

\* The mask of a prefix tells patches from text.
LEMMA ModalityIs ==
  ASSUME NEW rows, Len(rows) \in Nat, DOMAIN rows = 1..Len(rows)
  PROVE  /\ Modality(rows) \in Seq({0, 1}) /\ Len(Modality(rows)) = Len(rows)
         /\ \A i \in 1..Len(rows) : Modality(rows)[i] = IF rows[i].of = "patch" THEN 1 ELSE 0
<1> DEFINE n    == Len(rows)
           mask == Modality(rows)
<1>1. mask = [i \in 1..n |-> IF rows[i].of = "patch" THEN 1 ELSE 0]
  BY DEF Modality
<1> HIDE DEF n, mask
<1>2. n \in Nat
  BY DEF n
<1>3. mask \in [1..n -> {0, 1}]
  BY <1>1
<1>4. mask \in Seq({0, 1}) /\ Len(mask) = n
  BY <1>2, <1>3
<1> QED BY <1>1, <1>4 DEF n, mask

\* In a prefix that can be built the groups found from the mask are the images
\* (build_hy_vla_prefix_from_visual_tokens, make_visual_patch_groups, make_prefix_mask).
THEOREM GroupsAreImages ==
  ASSUME NEW visual \in Nat, NEW perImage \in Nat \ {0}, NEW lang \in Nat, Buildable(visual, perImage, lang)
  PROVE  ImagesApart(PrefixRows(visual, perImage, lang))
<1> DEFINE rows   == PrefixRows(visual, perImage, lang)
           n      == Len(rows)
           mask   == Modality(rows)
           groups == PatchGroups(mask)
           patch(i) == rows[i + 1].of = "patch"
           same(i, j) == rows[i + 1].image = rows[j + 1].image
<1>1. n \in Nat /\ DOMAIN rows = 1..n
  <2>1. PICK grid \in Nat \ {0}, count \in Nat \ {0}, h \in Nat : ImagesAt(rows, grid, h, count, lang)
    BY PrefixIs, Zenon
  <2> HIDE DEF rows
  <2>2. n = 2 + count * h + lang /\ DOMAIN rows = 1..n
    BY <2>1 DEF ImagesAt
  <2>3. count * h \in Nat
    OBVIOUS
  <2> QED BY <2>2, <2>3
<1>2. \A i, j \in 0..n-1 : patch(i) /\ patch(j) =>
        /\ rows[i + 1].image \in Int /\ rows[j + 1].image \in Int
        /\ (\E t \in 0..n-2 : i < t /\ t + 1 < j /\ rows[t + 1].of # "patch" /\ rows[t + 2].of # "patch")
             <=> rows[i + 1].image < rows[j + 1].image
  BY ApartAreImages, Zenon
<1> HIDE DEF rows
<1>3. /\ mask \in Seq({0, 1}) /\ Len(mask) = n
      /\ \A i \in 1..n : mask[i] = IF rows[i].of = "patch" THEN 1 ELSE 0
  BY <1>1, ModalityIs
<1> HIDE DEF mask, n
<1>4. Patches(mask) = {i \in 0..n-1 : patch(i)}
  <2>1. \A i \in 0..n-1 : mask[i + 1] # 0 <=> patch(i)
    <3>1. \A i \in 0..n-1 : i + 1 \in 1..n
      BY <1>1
    <3> QED BY <1>3, <3>1
  <2> QED BY <1>3, <2>1 DEF Patches
<1> DEFINE apart(i, j) == \E s \in Range(Separators(mask)) : i < s.start /\ s.start < j
<1>5. ASSUME NEW i \in Patches(mask), NEW j \in Patches(mask)
      PROVE  /\ rows[i + 1].image \in Int /\ rows[j + 1].image \in Int
             /\ apart(i, j) <=> rows[i + 1].image < rows[j + 1].image
  <2>1. apart(i, j) <=> \E t \in 0..n-2 : i < t /\ t + 1 < j /\ mask[t + 1] = 0 /\ mask[t + 2] = 0
    BY <1>3, ApartIs
  <2>2. \A t \in 0..n-2 : /\ mask[t + 1] = 0 <=> rows[t + 1].of # "patch"
                          /\ mask[t + 2] = 0 <=> rows[t + 2].of # "patch"
    <3>1. \A t \in 0..n-2 : t + 1 \in 1..n /\ t + 2 \in 1..n
      BY <1>1
    <3> QED BY <1>3, <3>1
  <2>3. i \in 0..n-1 /\ j \in 0..n-1 /\ patch(i) /\ patch(j)
    BY <1>4
  <2>4. apart(i, j) <=> \E t \in 0..n-2 : i < t /\ t + 1 < j /\ rows[t + 1].of # "patch" /\ rows[t + 2].of # "patch"
    <3> HIDE DEF apart
    <3> QED BY <2>1, <2>2
  <2> HIDE DEF apart
  <2> QED BY <1>2, <2>3, <2>4
<1>6. groups = {{j \in Patches(mask) : ~apart(i, j) /\ ~apart(j, i)} : i \in Patches(mask)}
  BY DEF PatchGroups
<1> HIDE DEF groups, apart
<1>7. \A i, j \in Patches(mask) : ~apart(i, j) /\ ~apart(j, i) <=> same(i, j)
  BY <1>5
<1>8. groups = {{j \in Patches(mask) : same(i, j)} : i \in Patches(mask)}
  BY <1>6, <1>7
<1>9. UNION groups = Patches(mask)
  BY <1>8
<1>10. \A a, b : (\E g \in groups : {a, b} \subseteq g) <=> a \in Patches(mask) /\ b \in Patches(mask) /\ same(a, b)
  <2>1. ASSUME NEW a, NEW b, NEW g \in groups, {a, b} \subseteq g
        PROVE  a \in Patches(mask) /\ b \in Patches(mask) /\ same(a, b)
    <3>1. PICK i \in Patches(mask) : g = {j \in Patches(mask) : same(i, j)}
      BY <1>8
    <3>2. a \in g /\ b \in g
      BY <2>1
    <3> QED BY <3>1, <3>2
  <2>2. ASSUME NEW a \in Patches(mask), NEW b \in Patches(mask), same(a, b)
        PROVE  \E g \in groups : {a, b} \subseteq g
    <3> DEFINE g == {j \in Patches(mask) : same(a, j)}
    <3>1. g \in groups /\ a \in g /\ b \in g
      BY <1>8, <2>2
    <3> QED BY <3>1, Zenon
  <2> QED BY <2>1, <2>2
<1>11. ASSUME NEW a \in 0..n-1, NEW b \in 0..n-1
       PROVE  b \in PrefixSees(n, groups)[a] <=> IF patch(a) /\ patch(b) THEN same(a, b) ELSE b <= a
  <2>1. b \in PrefixSees(n, groups)[a] <=> \/ b <= a /\ ~({a, b} \subseteq UNION groups)
                                           \/ \E g \in groups : {a, b} \subseteq g
    BY DEF PrefixSees
  <2>2. {a, b} \subseteq UNION groups <=> patch(a) /\ patch(b)
    BY <1>4, <1>9
  <2>3. (\E g \in groups : {a, b} \subseteq g) <=> patch(a) /\ patch(b) /\ same(a, b)
    BY <1>4, <1>10
  <2> QED BY <2>1, <2>2, <2>3
<1> QED BY <1>11, Zenon DEF ImagesApart, groups, mask, n, rows

-----------------------------------------------------------------------------
(* A call and its cameras. *)

\* What a request is made of, also before the first.
LEMMA JobIs ==
  ASSUME Typed
  PROVE  /\ job.images \in Seq(BOOLEAN) /\ job.visual \in Nat /\ job.mask \in Seq({0, 1}) /\ job.lang \in Nat
         /\ env.history \in Nat \ {0} /\ env.per_image \in Nat \ {0}
<1>1. env \in Environments /\ (job \in Requests \/ job = NoJob)
  BY DEF Typed
<1>2. env.history \in Nat \ {0} /\ env.per_image \in Nat \ {0}
  BY <1>1, HyAssumption
<1>3. CASE job \in Requests
  BY <1>2, <1>3, HyAssumption
<1>4. CASE job = NoJob
  BY <1>2, <1>4 DEF NoJob
<1> QED BY <1>1, <1>3, <1>4

\* The images are the cameras' histories.
LEMMA CamerasAre ==
  ASSUME Typed, Cameras
  PROVE  /\ History \in Nat \ {0} /\ Groups \in Nat \ {0} /\ Len(job.images) \in Nat \ {0}
         /\ Groups * History = Len(job.images) /\ Len(job.images) \div Groups = History
<1> DEFINE n == Len(job.images)
           h == env.history
<1>1. n \in Nat /\ n > 0 /\ h \in Nat \ {0}
  <2>1. job.images \in Seq(BOOLEAN) /\ job.images # <<>> /\ h \in Nat \ {0}
    BY JobIs DEF Cameras
  <2> QED BY <2>1, EmptySeq
<1>2. History = IF h > 1 /\ (n < h \/ n % h # 0) THEN 1 ELSE h
  BY DEF History
<1>3. Groups = n \div History
  BY DEF Groups
<1> HIDE DEF n, h
<1>4. History \in Nat \ {0} /\ n % History = 0
  <2>1. CASE h > 1 /\ (n < h \/ n % h # 0)
    BY <1>1, <1>2, <2>1
  <2>2. CASE h > 1 /\ n >= h /\ n % h = 0
    BY <1>1, <1>2, <2>2
  <2>3. CASE h = 1
    BY <1>1, <1>2, <2>3
  <2> QED BY <1>1, <2>1, <2>2, <2>3
<1>5. n = Groups * History /\ Groups \in Int
  BY <1>1, <1>3, <1>4, Division
<1>6. Groups \in Nat \ {0}
  BY <1>1, <1>4, <1>5
<1>7. n \div Groups = History
  <2>1. n = History * Groups + 0 /\ 0 \in 0..Groups-1
    BY <1>4, <1>5, <1>6
  <2> QED BY <1>4, <1>6, <2>1, DivisionIs
<1> QED BY <1>1, <1>4, <1>5, <1>6, <1>7 DEF n

\* The client sends images or visual tokens.
LEMMA OneSource == ASSUME Typed PROVE ~Cameras \/ ~VisualTokens
<1>1. job.visual \in Nat
  BY JobIs
<1>2. ~(job.visual = 0 /\ job.visual > 0)
  BY <1>1
<1> QED BY <1>2 DEF Cameras, VisualTokens

\* A camera has images that the request has.
LEMMA FramesAre ==
  ASSUME Typed, Cameras, NEW k \in 1..Groups
  PROVE  FramesOf(k) \in Seq(1..Len(job.images))
<1>1. /\ History \in Nat \ {0} /\ Groups \in Nat \ {0} /\ Len(job.images) \in Nat
      /\ Groups * History = Len(job.images)
  BY CamerasAre
<1>2. ASSUME NEW f \in 1..History PROVE (k - 1) * History + f \in 1..Len(job.images)
  <2>1. (k - 1) * History + (f - 1) \in 0..Groups * History - 1
    BY <1>1, PlaceIn
  <2> QED BY <1>1, <2>1
<1> QED BY <1>1, <1>2 DEF FramesOf

\* Once all cameras are encoded and their tokens are a prefix, every image is seen once,
\* and every token is at the place of its camera.
LEMMA AllSeen ==
  ASSUME Typed, InOrder, AllCameras
  PROVE  /\ Len(encoded) * (Len(job.images) \div Len(encoded)) = Len(job.images)
         /\ \A k \in DOMAIN encoded :
              encoded[k] = [f \in 1..Len(job.images) \div Len(encoded) |->
                              (k - 1) * (Len(job.images) \div Len(encoded)) + f]
         /\ {<<row.image, row.token>> : row \in {r \in Range(prefix) : r.of = "patch"}}
              = {<<t \div PerImage, t>> : t \in 0..PerImage * Len(encoded) - 1}
<1>1. /\ History \in Nat \ {0} /\ Groups \in Nat \ {0} /\ Groups * History = Len(job.images)
      /\ Len(job.images) \div Groups = History /\ Len(job.images) \in Nat
  BY CamerasAre DEF AllCameras
<1>2. Len(encoded) = Groups /\ prefix = PrefixRows(PerImage * Groups, PerImage, job.lang)
      /\ Buildable(PerImage * Groups, PerImage, job.lang)
  BY DEF AllCameras
<1>3. PerImage \in Nat \ {0} /\ PerImage * Groups \in Nat /\ job.lang \in Nat
  BY <1>1, JobIs, HyAssumption
<1>4. {<<row.image, row.token>> : row \in {r \in Range(prefix) : r.of = "patch"}}
        = {<<t \div PerImage, t>> : t \in 0..PerImage * Groups - 1}
  <2> DEFINE visual == PerImage * Groups
  <2>1. visual \in Nat /\ Buildable(visual, PerImage, job.lang) /\ prefix = PrefixRows(visual, PerImage, job.lang)
    BY <1>2, <1>3
  <2> HIDE DEF visual
  <2>2. {<<row.image, row.token>> : row \in {r \in Range(prefix) : r.of = "patch"}}
          = {<<t \div PerImage, t>> : t \in 0..visual - 1}
    <3>1. PerImage \in Nat \ {0} /\ job.lang \in Nat
      BY <1>3
    <3> QED BY <2>1, <3>1, TokensInPlace, Zenon
  <2> QED BY <2>2 DEF visual
<1>5. \A k \in DOMAIN encoded : encoded[k] = [f \in 1..History |-> (k - 1) * History + f]
  BY DEF InOrder, FramesOf
<1> QED BY <1>1, <1>2, <1>4, <1>5

\* Within a call, the images and how they are split into cameras stay the same.
LEMMA SameCall ==
  ASSUME UNCHANGED <<env, job>>
  PROVE  /\ Cameras' = Cameras /\ VisualTokens' = VisualTokens /\ Groups' = Groups /\ History' = History
         /\ Imageless' = Imageless /\ \A k \in Nat : FramesOf(k)' = FramesOf(k)
BY DEF Cameras, VisualTokens, Groups, History, Imageless, FramesOf

-----------------------------------------------------------------------------
(* Ways on and out. *)

\* What is expected of an answer.
Deserved(result) ==
  /\ result \in {"none", "debug", "routed", "suffix"}
  /\ env.debug = "" /\ result = "suffix" => Imageless
  /\ env.debug = "" /\ result = "routed" /\ job.visual = 0 => AllCameras

\* The kept allocators are as they should be after a step.
KeptWell(k) ==
  /\ DOMAIN k = {"vision", "routed"} /\ k["vision"].buffer \in BOOLEAN /\ k["routed"].buffer \in BOOLEAN
  /\ ~env.keep_vision \/ env.sideload => k["vision"] = NoAlloc
  /\ ~env.keep_routed \/ ~env.cuda => k["routed"] = NoAlloc

\* They are so before every step.
LEMMA KeptIs == ASSUME Inv PROVE KeptWell(kept)
BY DEF Inv, Typed, NothingLeft, KeptWell, Range

\* Every way out of a call frees what is on the heap.
LEMMA LeaveInv ==
  ASSUME Inv, NEW result, Leave(result), KeptWell(kept'), Deserved(result),
         pc \in {"start", "select", "context", "alloc", "fill", "compute"}
  PROVE  Inv'
<1>1. /\ pc' = "idle" /\ answer' = result /\ graph' = NoGraph
      /\ UNCHANGED <<env, left, job, encoded, prefix>> /\ live' = live \ Released
  BY DEF Leave, Stays
<1>2. live' = {}
  BY <1>1 DEF Inv, Heap, Released
<1>3. Typed'
  <2>1. \A a \in Range(kept') : a.buffer \in BOOLEAN
    BY DEF KeptWell, Range
  <2>2. graph'.images = <<>> /\ graph'.keep = "none"
    BY <1>1 DEF NoGraph
  <2>3. Typed
    BY DEF Inv
  <2>4. DOMAIN kept' = {"vision", "routed"} /\ answer' \in {"none", "debug", "routed", "suffix"}
    BY <1>1 DEF KeptWell, Deserved
  <2>5. graph'.images \in Seq(1..Len(job'.images))
    BY <2>2
  <2>6. pc' \in {"idle", "start", "select", "context", "alloc", "fill", "compute", "stopped"}
    BY <1>1
  <2> QED BY <1>1, <1>2, <2>1, <2>2, <2>3, <2>4, <2>5, <2>6 DEF Typed
<1>4. NothingLeft'
  BY <1>1, <1>2 DEF NothingLeft, KeptWell
<1>5. Heap' /\ Filled' /\ StopsOnlyWhenKept'
  BY <1>1, <1>2 DEF Heap, Filled, StopsOnlyWhenKept, NoGraph
<1>6. InOrder'
  <2>1. graph'.kind = "none"
    BY <1>1 DEF NoGraph
  <2> QED BY <1>1, <2>1 DEF Inv, InOrder, FramesOf, History
<1>7. AllCameras' = AllCameras
  BY <1>1, SameCall DEF AllCameras
<1>8. Chosen'
  BY <1>1, <1>7, SameCall DEF Inv, Chosen
<1>9. SeesItsImages'
  <2>1. Imageless' = Imageless
    BY <1>1, SameCall
  <2>2. CASE env.debug = "" /\ result = "routed" /\ job.visual = 0
    <3>1. AllCameras /\ Typed /\ InOrder
      BY <2>2 DEF Deserved, Inv
    <3> QED BY <1>1, <2>2, <3>1, AllSeen DEF SeesItsImages
  <2>3. CASE ~(env.debug = "" /\ result = "routed" /\ job.visual = 0)
    BY <1>1, <2>1, <2>3 DEF SeesItsImages, Deserved
  <2> QED BY <2>2, <2>3
<1> QED BY <1>3, <1>4, <1>5, <1>6, <1>8, <1>9 DEF Inv

\* A call may end without an answer at any time.
LEMMA RefuseInv ==
  ASSUME Inv, Refuse, pc \in {"start", "select", "context", "alloc", "fill", "compute"}
  PROVE  Inv'
<1>1. KeptWell(kept')
  BY KeptIs DEF Refuse
<1>2. Deserved("none")
  BY DEF Deserved
<1> QED BY <1>1, <1>2, LeaveInv DEF Refuse

\* What is expected of a graph.
Fit(g) ==
  /\ g.images \in Seq(1..Len(job.images)) /\ g.keep \in {"none", "vision", "routed"}
  /\ g.keep = "vision" => env.keep_vision /\ ~env.sideload
  /\ g.keep = "routed" => env.keep_routed /\ env.cuda
  /\ g.fills \subseteq g.uses \/ env.debug \in {"prefix", "suffix", "block", "vt"}
  /\ g.kind = "group" => Cameras /\ Len(encoded) < Groups /\ g.images = FramesOf(Len(encoded) + 1)
  /\ env.debug = "" =>
       /\ g.kind \in {"group", "routed", "suffix"}
       /\ g.kind = "routed" /\ job.visual = 0 => AllCameras
       /\ g.kind = "suffix" => Imageless

\* A graph is built from nothing.
LEMMA BuildInv ==
  ASSUME Inv, NEW g, Build(g), Fit(g), pc \in {"start", "select"}
  PROVE  Inv'
<1>1. /\ pc' = "context" /\ graph' = g /\ UNCHANGED <<env, left, job, encoded, prefix, live, kept, answer>>
  BY DEF Build, Stays
<1>2. live = {} /\ answer = "none"
  BY DEF Inv, Heap, Chosen
<1>3. Typed'
  <2>1. Typed
    BY DEF Inv
  <2> QED BY <1>1, <2>1 DEF Typed, Fit
<1>4. NothingLeft'
  BY <1>1 DEF Inv, NothingLeft
<1>5. Heap' /\ Filled' /\ StopsOnlyWhenKept' /\ SeesItsImages'
  BY <1>1, <1>2 DEF Heap, Filled, StopsOnlyWhenKept, SeesItsImages, Fit
<1>6. InOrder'
  <2>1. InOrder
    BY DEF Inv
  <2> QED BY <1>1, <2>1 DEF InOrder, Fit, FramesOf, History, Cameras, Groups
<1>7. AllCameras' = AllCameras
  BY <1>1, SameCall DEF AllCameras
<1>8. Chosen'
  BY <1>1, <1>2, <1>7, SameCall DEF Inv, Chosen, Fit
<1> QED BY <1>3, <1>4, <1>5, <1>6, <1>8 DEF Inv

\* A graph without images is fit if it is none of a camera.
LEMMA ImagelessFit ==
  ASSUME NEW g, g.images = <<>>, g.kind # "group", g.keep \in {"none", "routed"},
         g.keep = "routed" => env.keep_routed /\ env.cuda,
         g.fills \subseteq g.uses \/ env.debug \in {"prefix", "suffix", "block", "vt"},
         env.debug = "" => \/ g.kind = "routed" /\ (job.visual = 0 => AllCameras)
                           \/ g.kind = "suffix" /\ Imageless
  PROVE  Fit(g)
<1>1. g.images \in Seq(1..Len(job.images))
  BY EmptySeq
<1> QED BY <1>1 DEF Fit

\* Rows with fewer tokens are rows.
LEMMA SeqMono ==
  ASSUME NEW a \in Int, NEW b \in Int, a <= b, NEW rows \in Seq([of : Rows, image : Int, token : -1..a])
  PROVE  rows \in Seq([of : Rows, image : Int, token : -1..b])
<1> DEFINE S == [of : Rows, image : Int, token : -1..a]
           T == [of : Rows, image : Int, token : -1..b]
<1>1. S \subseteq T
  OBVIOUS
<1> HIDE DEF S, T
<1>2. rows \in Seq(S) => rows \in Seq(T)
  BY <1>1
<1> QED BY <1>2 DEF S, T

\* A graph that is allocated, filled and computed stays as it was built.
LEMMA OnInv ==
  ASSUME Inv, UNCHANGED <<env, left, job, encoded, prefix, graph, answer>>, KeptWell(kept'),
         pc \in {"context", "alloc", "fill"}, pc' \in {"alloc", "fill", "compute", "stopped"},
         pc' = "alloc" => live' = {"context"}, pc' \in {"fill", "compute"} => live' = Released,
         live' \subseteq {"context", "allocator"}, StopsOnlyWhenKept'
  PROVE  Inv'
<1>1. Typed'
  <2>1. Typed
    BY DEF Inv
  <2>2. \A a \in Range(kept') : a.buffer \in BOOLEAN
    BY DEF KeptWell, Range
  <2> QED BY <2>1, <2>2 DEF Typed, KeptWell
<1>2. NothingLeft'
  BY DEF NothingLeft, KeptWell
<1>3. Heap' /\ Filled' /\ SeesItsImages'
  BY DEF Inv, Heap, Filled, SeesItsImages, Released
<1>4. InOrder'
  <2>1. InOrder
    BY DEF Inv
  <2>2. \A k \in DOMAIN encoded' : encoded'[k] = FramesOf(k)'
    BY <2>1 DEF InOrder, FramesOf, History
  <2>3. graph'.kind = "group" =>
          Cameras' /\ Len(encoded') < Groups' /\ graph'.images = FramesOf(Len(encoded) + 1)'
    BY <2>1 DEF InOrder, FramesOf, History, Cameras, Groups
  <2> QED BY <2>2, <2>3 DEF InOrder
<1>5. AllCameras' = AllCameras
  BY SameCall DEF AllCameras
<1>6. Chosen'
  BY <1>5, SameCall DEF Inv, Chosen
<1> QED BY <1>1, <1>2, <1>3, <1>4, <1>6 DEF Inv

-----------------------------------------------------------------------------
(* The steps. *)

\* At first nothing is built.
LEMMA InitInv == Init => Inv
<1> SUFFICES ASSUME Init PROVE Inv
  OBVIOUS
<1>1. Typed
  <2>1. env \in Environments /\ job = NoJob /\ left \in 0..MaxJobs /\ pc = "idle"
    BY HyAssumption DEF Init
  <2>2. encoded = <<>> /\ prefix = <<>> /\ graph.images = <<>> /\ graph.keep = "none"
    BY DEF Init, NoGraph
  <2>3. DOMAIN kept = {"vision", "routed"} /\ \A a \in Range(kept) : a.buffer \in BOOLEAN
    <3>1. kept = [vision |-> NoAlloc, routed |-> NoAlloc] /\ NoAlloc.buffer = FALSE
      BY DEF Init, NoAlloc
    <3>2. DOMAIN kept = {"vision", "routed"} /\ kept["vision"] = NoAlloc /\ kept["routed"] = NoAlloc
      BY <3>1
    <3> QED BY <3>1, <3>2 DEF Range
  <2> QED BY <2>1, <2>2, <2>3 DEF Init, Typed
<1>2. encoded = <<>> /\ prefix = <<>> /\ graph.kind = "none" /\ graph.keep = "none" /\ graph.fills = {}
  BY DEF Init, NoGraph
<1> QED BY <1>1, <1>2 DEF Init, Inv, NothingLeft, Heap, Filled, StopsOnlyWhenKept, InOrder, Chosen, SeesItsImages

\* A call starts with nothing encoded.
LEMMA PredictInv == ASSUME Inv, NEW r \in Requests, Predict(r) PROVE Inv'
<1>1. /\ pc = "idle" /\ pc' = "start" /\ job' = r /\ left' = left - 1 /\ left > 0
      /\ encoded' = <<>> /\ prefix' = <<>> /\ answer' = "none" /\ UNCHANGED <<env, graph, live, kept>>
  BY DEF Predict
<1>2. graph = NoGraph /\ live = {}
  BY <1>1 DEF Inv, Heap
<1>3. Typed'
  <2>1. Typed /\ graph.images = <<>>
    BY <1>2 DEF Inv, NoGraph
  <2>2. left' \in 0..MaxJobs
    BY <1>1, <2>1, HyAssumption DEF Typed
  <2> QED BY <1>1, <2>1, <2>2 DEF Typed
<1>4. graph.kind = "none" /\ graph.keep = "none" /\ graph.fills = {}
  BY <1>2 DEF NoGraph
<1>5. NothingLeft' /\ Heap' /\ Filled'
  BY <1>1, <1>2, <1>4 DEF Inv, NothingLeft, Heap, Filled
<1>6. StopsOnlyWhenKept' /\ InOrder' /\ SeesItsImages'
  BY <1>1, <1>4 DEF StopsOnlyWhenKept, InOrder, SeesItsImages
<1>7. Chosen'
  BY <1>1, <1>4 DEF Chosen
<1> QED BY <1>3, <1>5, <1>6, <1>7 DEF Inv

\* An answer of a debug output before any graph.
LEMMA AnswerInv ==
  ASSUME Inv, Leave("debug"), UNCHANGED kept, pc = "start"
  PROVE  Inv'
<1>1. KeptWell(kept') /\ Deserved("debug")
  BY KeptIs DEF Deserved
<1> QED BY <1>1, LeaveInv

\* The debug outputs end, or build a graph of their own.
LEMMA DebugInv == ASSUME Inv, DebugLang \/ DebugVision \/ DebugPrefix \/ DebugJoint PROVE Inv'
<1>1. CASE DebugLang
  BY <1>1, RefuseInv, AnswerInv DEF DebugLang
<1>2. CASE DebugVision
  <2>1. pc = "start" /\ env.debug \in VisionDebugs
    BY <1>2 DEF DebugVision
  <2>2. CASE Refuse
    BY <2>1, <2>2, RefuseInv
  <2>3. CASE \E answered \in {"debug", "none"} : Leave(answered) /\ UNCHANGED kept
    BY <2>1, <2>3, RefuseInv, AnswerInv DEF Refuse
  <2>4. CASE job.images # <<>> /\ Build(VisionDebug)
    <3>1. Len(job.images) \in Nat \ {0}
      <4>1. job.images \in Seq(BOOLEAN)
        BY JobIs DEF Inv
      <4> QED BY <2>4, <4>1, EmptySeq
    <3>2. Fit(VisionDebug)
      <4>1. /\ VisionDebug.images = <<1>> /\ VisionDebug.keep = "none" /\ VisionDebug.kind = env.debug
            /\ VisionDebug.fills = VisionDebug.uses
        BY DEF VisionDebug, NoGraph
      <4>2. VisionDebug.images \in Seq(1..Len(job.images))
        BY <3>1, <4>1
      <4> QED BY <2>1, <4>1, <4>2 DEF Fit, VisionDebugs
    <3> QED BY <2>1, <2>4, <3>2, BuildInv
  <2> QED BY <1>2, <2>2, <2>3, <2>4 DEF DebugVision
<1>3. CASE DebugPrefix
  <2>1. pc = "start" /\ env.debug = "prefix"
    BY <1>3 DEF DebugPrefix
  <2>2. Fit(TextDebug)
    <3>1. TextDebug.images = <<>> /\ TextDebug.keep = "none" /\ TextDebug.kind = "prefix"
      BY DEF TextDebug, NoGraph
    <3> QED BY <2>1, <3>1, ImagelessFit
  <2> QED BY <1>3, <2>1, <2>2, RefuseInv, BuildInv DEF DebugPrefix
<1>4. CASE DebugJoint
  <2>1. pc = "start" /\ env.debug \in JointDebugs
    BY <1>4 DEF DebugJoint
  <2>2. Fit(MixedDebug)
    <3>1. /\ MixedDebug.images = <<>> /\ MixedDebug.keep = "none" /\ MixedDebug.kind = "mixed_prefix"
          /\ MixedDebug.fills = MixedDebug.uses
      BY DEF MixedDebug, NoGraph
    <3> QED BY <2>1, <3>1, ImagelessFit DEF JointDebugs
  <2>3. Fit(GuardedDebug)
    <3>1. /\ GuardedDebug.images = <<>> /\ GuardedDebug.keep = "none" /\ GuardedDebug.kind = env.debug
          /\ GuardedDebug.fills = {}
      BY DEF GuardedDebug, NoGraph
    <3> QED BY <2>1, <3>1, ImagelessFit DEF JointDebugs
  <2>4. Refuse \/ Build(MixedDebug) \/ Build(GuardedDebug)
    BY <1>4 DEF DebugJoint
  <2> QED BY <2>1, <2>2, <2>3, <2>4, RefuseInv, BuildInv
<1> QED BY <1>1, <1>2, <1>3, <1>4

\* Without images or tokens to build a prefix of there is none.
LEMMA TakeAsSentInv == ASSUME Inv, TakeAsSent PROVE Inv'
<1>1. /\ pc = "start" /\ pc' = "select" /\ ~Cameras /\ ~VisualTokens
      /\ UNCHANGED <<env, left, job, encoded, prefix, graph, live, kept, answer>>
  BY DEF TakeAsSent, Stays
<1>2. Typed'
  BY <1>1 DEF Inv, Typed
<1>3. NothingLeft' /\ Heap' /\ Filled' /\ StopsOnlyWhenKept' /\ SeesItsImages'
  BY <1>1 DEF Inv, NothingLeft, Heap, Filled, StopsOnlyWhenKept, SeesItsImages
<1>4. InOrder'
  <2>1. InOrder /\ graph.kind # "group"
    BY <1>1 DEF Inv, InOrder
  <2> QED BY <1>1, <2>1 DEF InOrder, FramesOf, History
<1>5. AllCameras' = AllCameras
  BY <1>1, SameCall DEF AllCameras
<1>6. Chosen'
  BY <1>1, <1>5, SameCall DEF Inv, Chosen
<1> QED BY <1>2, <1>3, <1>4, <1>6 DEF Inv

\* The graph of a camera has the camera's images.
LEMMA NextCameraInv == ASSUME Inv, NextCamera PROVE Inv'
<1> DEFINE g == VisionGroup(History, Len(encoded) * History + 1)
<1>1. pc = "start" /\ Cameras /\ Len(encoded) < Groups
  BY DEF NextCamera
<1>2. Typed /\ Len(encoded) \in Nat
  BY DEF Inv, Typed
<1>3. History \in Nat \ {0} /\ Groups \in Nat
  BY <1>1, <1>2, CamerasAre
<1>4. g.images = FramesOf(Len(encoded) + 1)
  <2> DEFINE a(f) == Len(encoded) * History + 1 + f - 1
             b(f) == (Len(encoded) + 1 - 1) * History + f
  <2>1. \A f \in 1..History : a(f) = b(f)
    BY <1>2, <1>3
  <2>2. g.images = [f \in 1..History |-> a(f)] /\ FramesOf(Len(encoded) + 1) = [f \in 1..History |-> b(f)]
    BY DEF VisionGroup, FramesOf
  <2> HIDE DEF a, b, g
  <2> QED BY <2>1, <2>2
<1>5. FramesOf(Len(encoded) + 1) \in Seq(1..Len(job.images))
  BY <1>1, <1>2, <1>3, FramesAre
<1>6. /\ g.kind = "group" /\ g.fills = g.uses /\ g.keep \in {"none", "vision"}
      /\ g.keep = "vision" => env.keep_vision /\ ~env.sideload
  BY DEF VisionGroup
<1>7. Fit(g)
  <2> HIDE DEF g
  <2> QED BY <1>1, <1>4, <1>5, <1>6 DEF Fit
<1>8. Refuse \/ Build(g)
  BY DEF NextCamera
<1> QED BY <1>1, <1>7, <1>8, RefuseInv, BuildInv

\* A prefix is built of the tokens of the client, or of those of all cameras.
LEMMA BuildPrefixInv == ASSUME Inv, BuildPrefix PROVE Inv'
<1> DEFINE visual   == IF Cameras THEN PerImage * Groups ELSE job.visual
           perImage == IF Cameras THEN PerImage ELSE env.per_image
<1>1. pc = "start" /\ (VisualTokens \/ (Cameras /\ Len(encoded) = Groups))
  BY DEF BuildPrefix
<1>2. CASE Refuse
  BY <1>1, <1>2, RefuseInv
<1>3. CASE /\ Buildable(visual, perImage, job.lang) /\ prefix' = PrefixRows(visual, perImage, job.lang)
           /\ pc' = "select" /\ UNCHANGED <<env, left, job, encoded, graph, live, kept, answer>>
  <2>1. Typed /\ InOrder /\ NothingLeft /\ Heap /\ Filled /\ StopsOnlyWhenKept /\ Chosen /\ SeesItsImages
    BY DEF Inv
  <2>2. job.visual \in Nat /\ job.lang \in Nat /\ env.per_image \in Nat \ {0} /\ job.images \in Seq(BOOLEAN)
    BY <2>1, JobIs
  <2>3. InOrder'
    <3>1. graph.kind # "group"
      BY <1>1, <2>1 DEF InOrder
    <3> QED BY <1>3, <2>1, <3>1 DEF InOrder, FramesOf, History
  <2>4. /\ prefix' # <<>> /\ (VisualTokens \/ AllCameras')
        /\ prefix' \in Seq([of : Rows, image : Int, token : -1..PerImage * Len(job.images) + job.visual - 1])
    <3>1. CASE Cameras
      <4>1. AllCameras'
        <5>1. Cameras' /\ Len(encoded)' = Groups' /\ Groups' = Groups
          BY <1>1, <1>3, <2>1, <3>1, OneSource, SameCall
        <5> QED BY <1>3, <3>1, <5>1 DEF AllCameras
      <4>2. Typed /\ Cameras /\ Len(encoded) = Groups
        BY <1>1, <2>1, <3>1, OneSource
      <4>3. /\ Groups \in Nat /\ Groups <= Len(job.images) /\ Len(job.images) \in Nat
        <5>1. /\ History \in Nat \ {0} /\ Groups \in Nat \ {0} /\ Len(job.images) \in Nat \ {0}
              /\ Groups * History = Len(job.images)
          BY <4>2, CamerasAre
        <5> QED BY <5>1
      <4>4. PerImage \in Nat \ {0} /\ PerImage * Groups \in Nat
        BY <4>3, HyAssumption
      <4>5. prefix' # <<>> /\ prefix' \in Seq([of : Rows, image : Int, token : -1..PerImage * Groups - 1])
        BY <1>3, <2>2, <3>1, <4>4, TokensInPlace
      <4>6. PerImage * Groups - 1 <= PerImage * Len(job.images) + job.visual - 1
        <5>1. PerImage * Groups <= PerImage * Len(job.images)
          BY <4>3, <4>4, ProductGrows
        <5> QED BY <2>2, <4>3, <4>4, <5>1
      <4>7. PerImage * Len(job.images) \in Nat
        BY <4>3, <4>4
      <4>8. prefix' \in Seq([of : Rows, image : Int, token : -1..PerImage * Len(job.images) + job.visual - 1])
        <5>1. PerImage * Groups - 1 \in Int /\ PerImage * Len(job.images) + job.visual - 1 \in Int
          BY <2>2, <4>4, <4>7
        <5> QED BY <4>5, <4>6, <5>1, SeqMono
      <4> QED BY <4>1, <4>5, <4>8
    <3>2. CASE ~Cameras
      <4>1. prefix' # <<>> /\ prefix' \in Seq([of : Rows, image : Int, token : -1..job.visual - 1])
        BY <1>3, <2>2, <3>2, TokensInPlace
      <4>2. PerImage * Len(job.images) \in Nat
        BY <2>2, HyAssumption
      <4>3. job.visual - 1 \in Int /\ PerImage * Len(job.images) + job.visual - 1 \in Int
            /\ job.visual - 1 <= PerImage * Len(job.images) + job.visual - 1
        BY <2>2, <4>2
      <4>4. prefix' \in Seq([of : Rows, image : Int, token : -1..PerImage * Len(job.images) + job.visual - 1])
        BY <4>1, <4>3, SeqMono
      <4> QED BY <1>1, <3>2, <4>1, <4>4
    <3> QED BY <3>1, <3>2
  <2>5. Typed'
    BY <1>3, <2>1, <2>4 DEF Typed
  <2>6. NothingLeft' /\ Heap' /\ Filled' /\ StopsOnlyWhenKept' /\ SeesItsImages'
    BY <1>1, <1>3, <2>1 DEF NothingLeft, Heap, Filled, StopsOnlyWhenKept, SeesItsImages
  <2>7. Chosen'
    <3>1. VisualTokens' = VisualTokens
      BY <1>3, SameCall
    <3> QED BY <1>1, <1>3, <2>1, <2>4, <3>1 DEF Chosen
  <2> QED BY <2>1, <2>3, <2>5, <2>6, <2>7 DEF Inv
<1> QED BY <1>2, <1>3 DEF BuildPrefix, Stays

\* A prefix that was built has rows, and as many in its mask.
LEMMA PrefixHasRows ==
  ASSUME Typed, prefix # <<>>
  PROVE  Len(prefix) > 0 /\ Len(Modality(prefix)) = Len(prefix)
<1> DEFINE S == [of : Rows, image : Int, token : -1..PerImage * Len(job.images) + job.visual - 1]
<1>1. prefix \in Seq(S)
  BY DEF Typed
<1> HIDE DEF S
<1>2. Len(prefix) \in Nat \ {0} /\ DOMAIN prefix = 1..Len(prefix)
  BY <1>1, EmptySeq
<1>3. Modality(prefix) = [i \in 1..Len(prefix) |-> IF prefix[i].of = "patch" THEN 1 ELSE 0]
  BY <1>2 DEF Modality
<1> QED BY <1>2, <1>3

\* Without a debug output the graph of the actions alone uses what it fills.
LEMMA SuffixIs ==
  /\ SuffixOnly.images = <<>> /\ SuffixOnly.keep = "none" /\ SuffixOnly.kind = "suffix"
  /\ SuffixOnly.shape = <<>>
  /\ SuffixOnly.fills \subseteq SuffixOnly.uses \/ env.debug \in {"prefix", "suffix", "block", "vt"}
<1> DEFINE uses == CASE env.debug = "suffix"           -> One({"state", "x0", "time"})
                     [] env.debug \in {"block", "vt"}  -> One({"state", "x0", "pos", "mask", "time"})
                     [] OTHER                          -> One({"state", "x0", "pos", "mask"}) \cup Times
           fills == One({"state", "x0"}) \cup Times \cup IF env.debug = "suffix" THEN {} ELSE One({"pos", "mask"})
<1>1. SuffixOnly = [NoGraph EXCEPT !.kind = "suffix", !.uses = uses, !.fills = fills]
  BY Zenon DEF SuffixOnly
<1>2. env.debug \notin {"suffix", "block", "vt"} => uses = One({"state", "x0", "pos", "mask"}) \cup Times
  BY Zenon
<1>3. env.debug # "suffix" => fills \subseteq One({"state", "x0", "pos", "mask"}) \cup Times
  BY DEF One
<1> HIDE DEF uses, fills
<1>4. /\ SuffixOnly.images = <<>> /\ SuffixOnly.keep = "none" /\ SuffixOnly.kind = "suffix"
      /\ SuffixOnly.uses = uses /\ SuffixOnly.fills = fills /\ SuffixOnly.shape = <<>>
  BY <1>1 DEF NoGraph
<1> QED BY <1>2, <1>3, <1>4

\* A request is routed, or there is nothing to route.
LEMMA SelectInv == ASSUME Inv, Select PROVE Inv'
<1> DEFINE mask   == IF prefix # <<>> THEN Modality(prefix) ELSE job.mask
           n      == IF prefix # <<>> THEN Len(prefix) ELSE job.visual
           routed == env.debug = "" /\ n > 0 /\ Len(mask) = n
<1>1. pc = "select" /\ Typed /\ InOrder /\ Chosen
  BY DEF Select, Inv
<1>2. \/ ~routed /\ Build(SuffixOnly)
      \/ Refuse
      \/ routed /\ Build(Routed(mask))
  BY DEF Select
<1>3. job.visual \in Nat /\ job.images \in Seq(BOOLEAN) /\ job.mask \in Seq({0, 1})
  BY <1>1, JobIs
<1>4. CASE ~routed /\ Build(SuffixOnly)
  <2>1. ASSUME env.debug = "" PROVE Imageless
    <3>1. CASE prefix # <<>>
      <4>1. Len(prefix) > 0 /\ Len(Modality(prefix)) = Len(prefix)
        BY <1>1, <3>1, PrefixHasRows DEF Chosen
      <4> QED BY <1>4, <2>1, <3>1, <4>1
    <3>2. CASE prefix = <<>>
      <4>1. ~Cameras /\ ~VisualTokens /\ (job.visual > 0 => Len(job.mask) # job.visual)
        BY <1>1, <1>4, <2>1, <3>2 DEF Chosen
      <4>2. job.mask # <<>> => Len(job.mask) # 0
        BY <1>3, EmptySeq
      <4>3. CASE job.visual = 0
        BY <2>1, <4>1, <4>3 DEF Imageless, Cameras
      <4>4. CASE job.visual > 0
        BY <2>1, <4>1, <4>2, <4>4 DEF Imageless, VisualTokens
      <4> QED BY <1>3, <4>3, <4>4
    <3> QED BY <3>1, <3>2
  <2>2. Fit(SuffixOnly)
    BY <2>1, SuffixIs, ImagelessFit
  <2> QED BY <1>1, <1>4, <2>2, BuildInv
<1>5. CASE routed /\ Build(Routed(mask))
  <2>1. ASSUME job.visual = 0 PROVE AllCameras
    <3>1. n > 0
      BY <1>5
    <3>2. prefix # <<>>
      BY <2>1, <3>1
    <3> QED BY <1>1, <2>1, <3>2 DEF Chosen, VisualTokens
  <2>2. /\ Routed(mask).images = <<>> /\ Routed(mask).kind = "routed" /\ Routed(mask).fills = {}
        /\ Routed(mask).keep \in {"none", "routed"}
        /\ Routed(mask).keep = "routed" => env.keep_routed /\ env.cuda
    <3> DEFINE shape == [k \in DOMAIN Runs(mask) |-> Runs(mask)[k].len]
    <3>1. Routed(mask) = [NoGraph EXCEPT !.kind = "routed", !.shape = shape,
                            !.keep  = IF env.keep_routed /\ env.cuda THEN "routed" ELSE "none"]
      BY Zenon DEF Routed
    <3> HIDE DEF shape
    <3> QED BY <3>1 DEF NoGraph
  <2> HIDE DEF mask, n, routed
  <2>3. Fit(Routed(mask))
    BY <2>1, <2>2, ImagelessFit
  <2> QED BY <1>1, <1>5, <2>3, BuildInv
<1> QED BY <1>1, <1>2, <1>4, <1>5, RefuseInv

\* What a graph is given and leaves behind if it is to keep its allocator.
LEMMA KeepsWell ==
  ASSUME Inv, NEW a, a.buffer \in BOOLEAN, Keeps(a)
  PROVE  KeptWell(kept')
<1>1. KeptWell(kept) /\ Heap /\ graph.keep \in {"none", "vision", "routed"}
  BY KeptIs DEF Inv, Typed
<1>2. CASE graph.keep = "none"
  BY <1>1, <1>2 DEF Keeps
<1>3. CASE graph.keep = "vision"
  BY <1>1, <1>3 DEF Keeps, KeptWell, Heap
<1>4. CASE graph.keep = "routed"
  BY <1>1, <1>4 DEF Keeps, KeptWell, Heap
<1> QED BY <1>1, <1>2, <1>3, <1>4

\* A context is the first thing on the heap.
LEMMA NewContextInv == ASSUME Inv, NewContext PROVE Inv'
<1>1. pc = "context" /\ live = {}
  BY DEF NewContext, Inv, Heap
<1>2. CASE Refuse
  BY <1>1, <1>2, RefuseInv
<1>3. CASE pc' = "alloc" /\ live' = live \cup {"context"} /\ Stays /\ UNCHANGED <<encoded, prefix, graph, kept, answer>>
  <2>1. KeptWell(kept') /\ StopsOnlyWhenKept'
    BY <1>3, KeptIs DEF StopsOnlyWhenKept
  <2> QED BY <1>1, <1>3, <2>1, OnInv DEF Stays
<1> QED BY <1>2, <1>3 DEF NewContext

\* The process stops at an allocator that has no buffer only if it was kept.
LEMMA AllocGraphInv == ASSUME Inv, AllocGraph PROVE Inv'
<1>1. pc = "alloc" /\ live = {"context"} /\ graph.keep \in {"none", "vision", "routed"}
  BY DEF AllocGraph, Inv, Heap, Typed
<1>2. ASSUME Allocated, KeptWell(kept') PROVE Inv'
  <2>1. /\ pc' = "fill" /\ live' = live \cup IF graph.keep = "none" THEN {"allocator"} ELSE {}
        /\ UNCHANGED <<env, left, job, encoded, prefix, graph, answer>>
    BY <1>2 DEF Allocated, Stays
  <2>2. live' = Released /\ live' \subseteq {"context", "allocator"}
    BY <1>1, <2>1 DEF Released
  <2>3. StopsOnlyWhenKept'
    BY <2>1 DEF StopsOnlyWhenKept
  <2> QED BY <1>1, <1>2, <2>1, <2>2, <2>3, OnInv
<1>3. CASE Given.buffer /\ Allocated /\ UNCHANGED kept
  BY <1>2, <1>3, KeptIs
<1>4. CASE Fits(Given, graph.shape) /\ ~Given.buffer /\ Stop
  <2>1. /\ pc' = "stopped" /\ UNCHANGED <<env, left, job, encoded, prefix, graph, live, kept, answer>>
    BY <1>4 DEF Stop, Stays
  <2>2. graph.keep # "none" /\ ~kept[graph.keep].buffer
    BY <1>4 DEF Fits, Given, NoAlloc
  <2>3. StopsOnlyWhenKept' /\ KeptWell(kept')
    BY <2>1, <2>2, KeptIs DEF StopsOnlyWhenKept
  <2> QED BY <1>1, <2>1, <2>3, OnInv
<1>5. CASE Allocated /\ Keeps([shape |-> graph.shape, buffer |-> TRUE])
  <2>1. KeptWell(kept')
    <3> DEFINE a == [shape |-> graph.shape, buffer |-> TRUE]
    <3>1. a.buffer \in BOOLEAN /\ Keeps(a)
      BY <1>5
    <3> HIDE DEF a
    <3> QED BY <3>1, KeepsWell
  <2> QED BY <1>2, <1>5, <2>1
<1>6. CASE Leave("none") /\ Keeps([shape |-> graph.shape, buffer |-> FALSE])
  <2>1. KeptWell(kept') /\ Deserved("none")
    <3> DEFINE a == [shape |-> graph.shape, buffer |-> FALSE]
    <3>1. a.buffer \in BOOLEAN /\ Keeps(a)
      BY <1>6
    <3> HIDE DEF a
    <3> QED BY <3>1, KeepsWell DEF Deserved
  <2> QED BY <1>1, <1>6, <2>1, LeaveInv
<1> QED BY <1>3, <1>4, <1>5, <1>6 DEF AllocGraph

\* Inputs that are not used have nowhere to go.
LEMMA FillInputsInv == ASSUME Inv, FillInputs PROVE Inv'
<1>1. pc = "fill" /\ live = Released /\ Filled
  BY DEF FillInputs, Inv, Heap
<1>2. live \subseteq {"context", "allocator"}
  BY DEF Inv, Typed
<1>3. CASE Refuse
  BY <1>1, <1>3, RefuseInv
<1>4. CASE ~(graph.fills \subseteq graph.uses) /\ Stop
  <2>1. pc' = "stopped" /\ UNCHANGED <<env, left, job, encoded, prefix, graph, live, kept, answer>>
    BY <1>4 DEF Stop, Stays
  <2>2. StopsOnlyWhenKept' /\ KeptWell(kept')
    BY <1>1, <1>4, <2>1, KeptIs DEF Filled, StopsOnlyWhenKept
  <2> QED BY <1>1, <1>2, <2>1, <2>2, OnInv
<1>5. CASE pc' = "compute" /\ Stays /\ UNCHANGED <<encoded, prefix, graph, live, kept, answer>>
  <2>1. KeptWell(kept') /\ StopsOnlyWhenKept'
    BY <1>5, KeptIs DEF StopsOnlyWhenKept
  <2> QED BY <1>1, <1>2, <1>5, <2>1, OnInv DEF Stays
<1> QED BY <1>3, <1>4, <1>5 DEF FillInputs

\* A camera is done, or the call is.
LEMMA ComputeGraphInv == ASSUME Inv, ComputeGraph PROVE Inv'
<1>1. pc = "compute" /\ live = Released /\ Typed /\ InOrder /\ Chosen /\ Heap
  BY DEF ComputeGraph, Inv, Heap
<1>2. CASE Refuse
  BY <1>1, <1>2, RefuseInv
<1>3. CASE /\ graph.kind = "group" /\ encoded' = Append(encoded, graph.images)
           /\ pc' = "start" /\ live' = live \ Released /\ graph' = NoGraph
           /\ UNCHANGED <<env, left, job, prefix, kept, answer>>
  <2>1. Cameras /\ Len(encoded) < Groups /\ graph.images = FramesOf(Len(encoded) + 1)
    BY <1>1, <1>3 DEF InOrder
  <2>2. encoded \in Seq(Seq(1..Len(job.images))) /\ graph.images \in Seq(1..Len(job.images))
    BY <1>1 DEF Typed
  <2>3. live' = {} /\ graph'.images = <<>> /\ graph'.keep = "none" /\ graph'.kind = "none" /\ graph'.fills = {}
    BY <1>1, <1>3 DEF NoGraph
  <2>4. Typed'
    BY <1>1, <1>3, <2>2, <2>3 DEF Typed
  <2>5. NothingLeft' /\ Heap' /\ Filled' /\ StopsOnlyWhenKept' /\ SeesItsImages'
    BY <1>3, <2>3 DEF Inv, NothingLeft, Heap, Filled, StopsOnlyWhenKept, SeesItsImages
  <2>6. InOrder'
    <3>1. \A k \in DOMAIN encoded' : encoded'[k] = FramesOf(k)
      <4>1. \A k \in DOMAIN encoded : encoded[k] = FramesOf(k)
        BY <1>1 DEF InOrder
      <4> QED BY <1>3, <2>1, <2>2, <4>1
    <3> QED BY <1>3, <2>3, <3>1 DEF InOrder, FramesOf, History
  <2>7. ~AllCameras /\ ~VisualTokens
    BY <1>1, <2>1, OneSource DEF AllCameras
  <2>8. prefix = <<>>
    BY <1>1, <2>7 DEF Chosen
  <2>9. Chosen'
    BY <1>1, <1>3, <2>8 DEF Chosen
  <2> QED BY <2>4, <2>5, <2>6, <2>9 DEF Inv
<1>4. CASE /\ graph.kind # "group" /\ UNCHANGED kept
           /\ Leave(IF graph.kind \in {"routed", "suffix"} THEN graph.kind ELSE "debug")
  <2> DEFINE result == IF graph.kind \in {"routed", "suffix"} THEN graph.kind ELSE "debug"
  <2>1. KeptWell(kept')
    BY <1>4, KeptIs
  <2>2. Deserved(result)
    BY <1>1 DEF Chosen, Deserved
  <2> HIDE DEF result
  <2>3. Leave(result)
    BY <1>4 DEF result
  <2> QED BY <1>1, <2>1, <2>2, <2>3, LeaveInv
<1> QED BY <1>2, <1>3, <1>4 DEF ComputeGraph, Stays

-----------------------------------------------------------------------------
(* What a call has built. *)

\* The rows of a prefix stay as they were built, for the images they were built for.
LEMMA BuiltInv == ASSUME Inv, Inv', Built, [Next]_vars PROVE Built'
<1>1. \/ prefix' = <<>>
      \/ UNCHANGED <<env, job, prefix>>
      \/ BuildPrefix
  BY DEF Next, vars, Predict, DebugLang, DebugVision, DebugPrefix, DebugJoint, TakeAsSent, NextCamera, Select,
     NewContext, AllocGraph, FillInputs, ComputeGraph, Refuse, Leave, Build, Stays, Allocated, Stop
<1>2. CASE prefix' = <<>>
  BY <1>2 DEF Built
<1>3. prefix' # <<>> => VisualTokens' \/ AllCameras'
  BY DEF Inv, Chosen
<1>4. CASE VisualTokens' /\ UNCHANGED <<env, job, prefix>>
  <2>1. Typed /\ VisualTokens
    BY <1>4, SameCall DEF Inv
  <2>2. ~Cameras
    BY <2>1, OneSource
  <2> QED BY <1>4, <2>2 DEF Built, AllCameras
<1>5. CASE VisualTokens' /\ BuildPrefix /\ ~UNCHANGED prefix
  <2>1. UNCHANGED <<env, job>>
    BY <1>5 DEF BuildPrefix, Stays, Refuse, Leave
  <2>2. VisualTokens /\ ~Cameras
    BY <1>5, <2>1, SameCall, OneSource DEF Inv
  <2> QED BY <1>5, <2>1, <2>2 DEF BuildPrefix, Built, Refuse, Leave
<1>6. BuildPrefix => UNCHANGED <<env, job>>
  BY DEF BuildPrefix, Stays, Refuse, Leave
<1> QED BY <1>1, <1>2, <1>3, <1>4, <1>5, <1>6 DEF Built

\* What has been built was built of something.
LEMMA BuiltIs ==
  ASSUME Typed, Built, prefix # <<>>
  PROVE  \E visual \in Nat, perImage \in Nat \ {0}, lang \in Nat :
           Buildable(visual, perImage, lang) /\ prefix = PrefixRows(visual, perImage, lang)
<1>1. job.visual \in Nat /\ job.lang \in Nat /\ env.per_image \in Nat \ {0} /\ PerImage \in Nat \ {0}
  BY JobIs, HyAssumption
<1>2. CASE Buildable(job.visual, env.per_image, job.lang) /\ prefix = PrefixRows(job.visual, env.per_image, job.lang)
  BY <1>1, <1>2, Zenon
<1>3. CASE AllCameras
  <2>1. PerImage * Groups \in Nat
    BY <1>1, <1>3, CamerasAre DEF AllCameras
  <2> QED BY <1>1, <1>3, <2>1, Zenon DEF AllCameras
<1> QED BY <1>2, <1>3 DEF Built

\* Of a mask, as sent by the client or of the prefix, the lengths of the runs are numbers.
LEMMA RoutedIs ==
  ASSUME NEW mask \in Seq({0, 1})
  PROVE  Routed(mask).shape \in Seq(Nat)
<1> DEFINE runs  == Runs(mask)
           shape == [k \in DOMAIN runs |-> runs[k].len]
           R     == [start : Nat, len : Nat \ {0}, vision : BOOLEAN]
<1>1. Routed(mask) = [NoGraph EXCEPT !.kind = "routed", !.shape = shape,
                        !.keep  = IF env.keep_routed /\ env.cuda THEN "routed" ELSE "none"]
  BY Zenon DEF Routed
<1>2. runs \in Seq(R)
  BY RunsAre, Zenon
<1> HIDE DEF runs
<1>3. Len(runs) \in Nat /\ shape \in [1..Len(runs) -> Nat]
  <2> HIDE DEF R
  <2>1. Len(runs) \in Nat /\ DOMAIN runs = 1..Len(runs) /\ \A k \in 1..Len(runs) : runs[k] \in R
    BY <1>2
  <2>2. \A k \in 1..Len(runs) : runs[k].len \in Nat
    BY <2>1 DEF R
  <2> QED BY <2>1, <2>2
<1> HIDE DEF shape
<1>4. Routed(mask).shape = shape
  BY <1>1 DEF NoGraph
<1> QED BY <1>3, <1>4

\* A step builds a graph whose sizes are numbers, or none.
LEMMA GraphShaped == ASSUME Inv, Shaped, [Next]_vars PROVE graph'.shape \in Seq(Nat)
<1>1. NoGraph.shape \in Seq(Nat) /\ graph.shape \in Seq(Nat) /\ Typed
  BY EmptySeq DEF NoGraph, Shaped, Inv
<1>2. CASE graph' = graph \/ graph' = NoGraph
  BY <1>1, <1>2
<1>3. CASE DebugVision \/ DebugPrefix \/ DebugJoint
  <2>1. VisionDebug.shape = <<>> /\ TextDebug.shape = <<>> /\ MixedDebug.shape = <<>> /\ GuardedDebug.shape = <<>>
    BY DEF VisionDebug, TextDebug, MixedDebug, GuardedDebug, NoGraph
  <2>2. graph' = NoGraph \/ graph' \in {VisionDebug, TextDebug, MixedDebug, GuardedDebug}
    BY <1>3 DEF DebugVision, DebugPrefix, DebugJoint, Refuse, Leave, Build
  <2> QED BY <1>1, <2>1, <2>2, EmptySeq
<1>4. CASE NextCamera
  <2>1. History \in Nat
    BY <1>1, <1>4, CamerasAre DEF NextCamera
  <2>2. graph' = NoGraph \/ graph' = VisionGroup(History, Len(encoded) * History + 1)
    BY <1>4 DEF NextCamera, Refuse, Leave, Build
  <2>3. VisionGroup(History, Len(encoded) * History + 1).shape = <<History>>
    BY DEF VisionGroup
  <2>4. <<History>> \in Seq(Nat)
    BY <2>1
  <2> QED BY <1>1, <2>2, <2>3, <2>4
<1>5. CASE Select
  <2> DEFINE mask == IF prefix # <<>> THEN Modality(prefix) ELSE job.mask
  <2>1. mask \in Seq({0, 1})
    <3>1. job.mask \in Seq({0, 1})
      BY <1>1, JobIs
    <3>2. Len(prefix) \in Nat /\ DOMAIN prefix = 1..Len(prefix)
      BY <1>1 DEF Typed
    <3> QED BY <3>1, <3>2, ModalityIs
  <2>2. graph' = NoGraph \/ graph' = SuffixOnly \/ graph' = Routed(mask)
    BY <1>5 DEF Select, Refuse, Leave, Build
  <2> HIDE DEF mask
  <2> QED BY <1>1, <2>1, <2>2, SuffixIs, RoutedIs, EmptySeq
<1> QED BY <1>2, <1>3, <1>4, <1>5 DEF Next, vars, Predict, DebugLang, TakeAsSent, BuildPrefix,
     NewContext, AllocGraph, FillInputs, ComputeGraph, Refuse, Leave, Build, Allocated, Stop

\* An allocator is kept with the sizes of a graph.
LEMMA ShapedInv == ASSUME Inv, Shaped, [Next]_vars PROVE Shaped'
<1>1. graph'.shape \in Seq(Nat)
  BY GraphShaped
<1>2. \A name \in {"vision", "routed"} : kept'[name].shape \in Seq(Nat)
  <2>1. CASE UNCHANGED kept
    BY <2>1 DEF Shaped
  <2>2. CASE AllocGraph /\ ~UNCHANGED kept
    <3>1. PICK buffer \in BOOLEAN : Keeps([shape |-> graph.shape, buffer |-> buffer])
      BY <2>2 DEF AllocGraph, Stop
    <3>2. DOMAIN kept = {"vision", "routed"}
      BY DEF Inv, Typed
    <3> QED BY <3>1, <3>2 DEF Keeps, Shaped
  <2> QED BY <2>1, <2>2 DEF Next, vars, Predict, DebugLang, DebugVision, DebugPrefix, DebugJoint, TakeAsSent,
       NextCamera, BuildPrefix, Select, NewContext, FillInputs, ComputeGraph, Refuse, Build, Stop
<1> QED BY <1>1, <1>2 DEF Shaped

-----------------------------------------------------------------------------
(* The theorems. *)

\* Every step keeps the invariant.
LEMMA StepInv == Inv /\ [Next]_vars => Inv'
<1> SUFFICES ASSUME Inv, [Next]_vars PROVE Inv'
  OBVIOUS
<1>1. CASE \E r \in Requests : Predict(r)
  BY <1>1, PredictInv
<1>2. CASE DebugLang \/ DebugVision \/ DebugPrefix \/ DebugJoint
  BY <1>2, DebugInv
<1>3. CASE TakeAsSent \/ NextCamera \/ BuildPrefix \/ Select
  BY <1>3, TakeAsSentInv, NextCameraInv, BuildPrefixInv, SelectInv
<1>4. CASE NewContext \/ AllocGraph \/ FillInputs \/ ComputeGraph
  BY <1>4, NewContextInv, AllocGraphInv, FillInputsInv, ComputeGraphInv
<1>5. CASE UNCHANGED vars
  <2>1. /\ Typed' = Typed /\ NothingLeft' = NothingLeft /\ Heap' = Heap /\ Filled' = Filled
        /\ StopsOnlyWhenKept' = StopsOnlyWhenKept
    BY <1>5 DEF vars, Typed, NothingLeft, Heap, Released, Filled, StopsOnlyWhenKept
  <2>2. AllCameras' = AllCameras /\ Imageless' = Imageless
    BY <1>5, SameCall DEF vars, AllCameras
  <2>3. Chosen' = Chosen /\ SeesItsImages' = SeesItsImages
    BY <1>5, <2>2, SameCall DEF vars, Chosen, SeesItsImages
  <2>4. InOrder' = InOrder
    BY <1>5 DEF vars, InOrder, FramesOf, History, Cameras, Groups
  <2> QED BY <2>1, <2>3, <2>4 DEF Inv
<1> QED BY <1>1, <1>2, <1>3, <1>4, <1>5 DEF Next

\* The heap, the cameras and the routing of HY-VLA stay as they should in every call, for
\* every number of images, history and prefix (predict and run_hy_vision_frontend_224).
THEOREM HyVlaInvariance == Spec => []Inv
<1> QED BY InitInv, StepInv, PTL DEF Spec

\* Whatever failed on the way, a call that has returned left nothing on the heap but the
\* allocators it was asked to keep (the frees before each return of predict).
THEOREM CallsCleanUp == Spec => []NothingLeft
<1>1. Inv => NothingLeft
  BY DEF Inv
<1> QED BY <1>1, HyVlaInvariance, PTL

\* predict stops the process only in debug modes that fill what they do not use, or at an
\* allocator that was kept although it has no buffer.
THEOREM StopsAreKnown == Spec => []StopsOnlyWhenKept
<1>1. Inv => StopsOnlyWhenKept
  BY DEF Inv
<1> QED BY <1>1, HyVlaInvariance, PTL

\* No request with images is answered as if it had none, and an answer saw every image once,
\* in order, and every token at the place of its camera.
THEOREM AnswersSeeTheirImages == Spec => []SeesItsImages
<1>1. Inv => SeesItsImages
  BY DEF Inv
<1> QED BY <1>1, HyVlaInvariance, PTL

\* The variables have their types in every state of a call: rows, images, allocators and the
\* sizes they were kept with (predict, run_hy_vision_frontend_group_224).
THEOREM HyVlaTypes == Spec => []TypeOK
<1>1. Init => Shaped
  <2>1. NoGraph.shape = <<>> /\ NoAlloc.shape = <<>> /\ <<>> \in Seq(Nat)
    BY EmptySeq DEF NoGraph, NoAlloc
  <2>2. SUFFICES ASSUME Init PROVE Shaped
    OBVIOUS
  <2>3. graph = NoGraph /\ kept["vision"] = NoAlloc /\ kept["routed"] = NoAlloc
    BY <2>2 DEF Init
  <2> QED BY <2>1, <2>3 DEF Shaped
<1>2. Inv /\ Shaped /\ [Next]_vars => Shaped'
  BY ShapedInv
<1>3. Inv /\ Shaped => TypeOK
  BY DEF Inv, Typed, TypeOK, Shaped, Range
<1> QED BY <1>1, <1>2, <1>3, HyVlaInvariance, PTL DEF Spec

-----------------------------------------------------------------------------
(* Attention. *)

\* Whatever the length of the prefix, the state attends to the prefix and itself, so that
\* its keys and values can serve every step of the actions (full_mask in predict).
THEOREM StateStandsAlone ==
  ASSUME NEW n \in Nat, NEW actions \in Nat
  PROVE  StateAlone(n, actions)
<1>1. \A row \in n..n + actions :
        SuffixSees(n, actions)[row] = {kv \in 0..n + actions : kv < n \/ row # n \/ kv = n}
  BY DEF SuffixSees
<1>2. SuffixSees(n, actions)[n] = 0..n
  <2>1. SuffixSees(n, actions)[n] = {kv \in 0..n + actions : kv < n \/ n # n \/ kv = n}
    BY <1>1
  <2>2. {kv \in 0..n + actions : kv < n \/ n # n \/ kv = n} = 0..n
    OBVIOUS
  <2> QED BY <2>1, <2>2
<1>3. ASSUME NEW row \in n + 1..n + actions PROVE SuffixSees(n, actions)[row] = 0..n + actions
  <2>1. row \in n..n + actions /\ row # n
    OBVIOUS
  <2>2. SuffixSees(n, actions)[row] = {kv \in 0..n + actions : kv < n \/ row # n \/ kv = n}
    BY <1>1, <2>1
  <2>3. {kv \in 0..n + actions : kv < n \/ row # n \/ kv = n} = 0..n + actions
    BY <2>1
  <2> QED BY <2>2, <2>3
<1> QED BY <1>2, <1>3 DEF StateAlone

\* Whatever prefix a call has built, and whatever mask the client sent, rows stay in place,
\* attention keeps the images apart, and the state stands alone (make_prefix_runs,
\* make_visual_patch_groups, make_visual_override_segments, make_prefix_mask, full_mask).
THEOREM PrefixesAreSound == Spec => []PrefixSound
<1>1. Init => Built
  BY DEF Init, Built
<1>2. Inv /\ Inv' /\ Built /\ [Next]_vars => Built'
  BY BuiltInv
<1>3. ASSUME Inv, Built PROVE PrefixSound
  <2>1. Typed /\ job.mask \in Seq({0, 1})
    BY <1>3, JobIs DEF Inv
  <2>2. InPlace(job.mask)
    BY <2>1, RowsStayInPlace
  <2>3. ASSUME prefix # <<>>
        PROVE  InPlace(Modality(prefix)) /\ ImagesApart(prefix) /\ StateAlone(Len(prefix), Actions)
    <3>1. Len(prefix) \in Nat /\ DOMAIN prefix = 1..Len(prefix)
      BY <2>1 DEF Typed
    <3>2. InPlace(Modality(prefix))
      BY <3>1, ModalityIs, RowsStayInPlace
    <3>3. ImagesApart(prefix)
      BY <1>3, <2>1, <2>3, BuiltIs, GroupsAreImages
    <3>4. StateAlone(Len(prefix), Actions)
      BY <3>1, HyAssumption, StateStandsAlone
    <3> QED BY <3>2, <3>3, <3>4
  <2> QED BY <2>2, <2>3 DEF PrefixSound
<1> QED BY <1>1, <1>2, <1>3, HyVlaInvariance, PTL DEF Spec

\* The sizes of the axes.
LEMMA SizesAre ==
  ASSUME NEW frames
  PROVE  /\ Size("number", frames) = HeadDim /\ Size("head", frames) = Heads
         /\ Size("patch", frames) = FramePatches /\ Size("time", frames) = frames
<1>1. "number" # "head" /\ "number" # "patch" /\ "number" # "time" /\ "head" # "patch" /\ "head" # "time" /\ "patch" # "time"
  OBVIOUS
<1> QED BY <1>1, Zenon DEF Size

\* A permutation of four axes, one axis after the other.
LEMMA PermuteIs ==
  ASSUME NEW axes, NEW to,
         NEW i \in 1..4, NEW j \in 1..4, to[j] = i - 1, \A k \in 1..4 : to[k] = i - 1 => k = j
  PROVE  Permute(axes, to)[i] = axes[j]
<1>1. (CHOOSE k \in 1..4 : to[k] = i - 1) = j
  OBVIOUS
<1> QED BY <1>1 DEF Permute

\* One attention per patch leaves the time of a head and patch together, and puts the result
\* together in the order of the tokens.
LEMMA AxesAre ==
  /\ Before(FALSE)[1] = "number" /\ Before(FALSE)[2] = "time" /\ Before(FALSE)[3] = "head" /\ Before(FALSE)[4] = "patch"
  /\ After(FALSE)[1] = "number" /\ After(FALSE)[2] = "head" /\ After(FALSE)[3] = "patch" /\ After(FALSE)[4] = "time"
<1> DEFINE before == Permute(Tokens, <<0, 2, 3, 1>>)
<1>1. before[1] = Tokens[1] /\ before[2] = Tokens[4] /\ before[3] = Tokens[2] /\ before[4] = Tokens[3]
  BY DEF Permute
<1>2. before[1] = "number" /\ before[2] = "time" /\ before[3] = "head" /\ before[4] = "patch"
  BY <1>1 DEF Tokens
<1> HIDE DEF before
<1> DEFINE attended == Attended(before)
           after    == Permute(attended, <<0, 1, 3, 2>>)
<1>3. attended[1] = "number" /\ attended[2] = "head" /\ attended[3] = "time" /\ attended[4] = "patch"
  BY <1>2 DEF Attended
<1> HIDE DEF attended
<1>4. after[1] = attended[1] /\ after[2] = attended[2] /\ after[3] = attended[4] /\ after[4] = attended[3]
  BY DEF Permute
<1>5. Before(FALSE) = before /\ After(FALSE) = after
  BY DEF Before, After, before, attended
<1> HIDE DEF after
<1> QED BY <1>2, <1>3, <1>4, <1>5

\* An element is found again where it lies.
LEMMA ElementIs ==
  ASSUME NEW frames \in Nat \ {0}, NEW at \in Places(frames), NEW axes,
         axes[1] = "number", axes[2] = "head", axes[3] = "patch", axes[4] = "time"
  PROVE  ElementAt(Offset(at, Tokens, frames), axes, frames) = at
<1> DEFINE place(a) == a.number + HeadDim * (a.head + Heads * (a.patch + FramePatches * a.time))
<1>1. HeadDim \in Nat \ {0} /\ Heads \in Nat \ {0} /\ FramePatches \in Nat \ {0}
  BY VisionAssumption
<1>2. \A a \in Places(frames) : Offset(a, axes, frames) = place(a) /\ Offset(a, Tokens, frames) = place(a)
  BY SizesAre DEF Offset, Tokens, Places
<1>3. ASSUME NEW a \in Places(frames), place(a) = place(at) PROVE a = at
  <2>1. /\ a.number \in 0..HeadDim-1 /\ at.number \in 0..HeadDim-1 /\ a.head \in 0..Heads-1 /\ at.head \in 0..Heads-1
        /\ a.patch \in 0..FramePatches-1 /\ at.patch \in 0..FramePatches-1 /\ a.time \in Nat /\ at.time \in Nat
    BY DEF Places
  <2> DEFINE p(e) == e.patch + FramePatches * e.time
             h(e) == e.head + Heads * p(e)
  <2>2. p(a) \in Nat /\ p(at) \in Nat /\ h(a) \in Nat /\ h(at) \in Nat
    BY <1>1, <2>1
  <2>3. a.number + HeadDim * h(a) = at.number + HeadDim * h(at)
    BY <1>3
  <2>4. a.number = at.number /\ h(a) = h(at)
    <3> HIDE DEF h
    <3>1. h(a) \in Int /\ h(at) \in Int /\ HeadDim \in Nat \ {0}
      BY <1>1, <2>2
    <3>2. a.number \in 0..HeadDim-1 /\ at.number \in 0..HeadDim-1
      BY <2>1
    <3>3. (h(a) * HeadDim + a.number) \div HeadDim = h(a) /\ (h(a) * HeadDim + a.number) % HeadDim = a.number
      BY <3>1, <3>2, DivisionIs, Zenon
    <3>4. (h(at) * HeadDim + at.number) \div HeadDim = h(at) /\ (h(at) * HeadDim + at.number) % HeadDim = at.number
      BY <3>1, <3>2, DivisionIs, Zenon
    <3>5. h(a) * HeadDim + a.number = h(at) * HeadDim + at.number
      BY <2>3, <3>1, <3>2
    <3> QED BY <3>3, <3>4, <3>5
  <2>5. a.head = at.head /\ p(a) = p(at)
    <3> HIDE DEF p
    <3>1. p(a) \in Int /\ p(at) \in Int /\ Heads \in Nat \ {0}
      BY <1>1, <2>2
    <3>2. a.head \in 0..Heads-1 /\ at.head \in 0..Heads-1 /\ a.head + Heads * p(a) = at.head + Heads * p(at)
      BY <2>1, <2>4
    <3>3. (p(a) * Heads + a.head) \div Heads = p(a) /\ (p(a) * Heads + a.head) % Heads = a.head
      BY <3>1, <3>2, DivisionIs, Zenon
    <3>4. (p(at) * Heads + at.head) \div Heads = p(at) /\ (p(at) * Heads + at.head) % Heads = at.head
      BY <3>1, <3>2, DivisionIs, Zenon
    <3>5. p(a) * Heads + a.head = p(at) * Heads + at.head
      BY <3>1, <3>2
    <3> QED BY <3>3, <3>4, <3>5
  <2>6. a.patch = at.patch /\ a.time = at.time
    <3>1. a.time \in Int /\ at.time \in Int /\ FramePatches \in Nat \ {0}
      BY <1>1, <2>1
    <3>2. /\ a.patch \in 0..FramePatches-1 /\ at.patch \in 0..FramePatches-1
          /\ a.patch + FramePatches * a.time = at.patch + FramePatches * at.time
      BY <2>1, <2>5
    <3>3. /\ (a.time * FramePatches + a.patch) \div FramePatches = a.time
          /\ (a.time * FramePatches + a.patch) % FramePatches = a.patch
      BY <3>1, <3>2, DivisionIs, Zenon
    <3>4. /\ (at.time * FramePatches + at.patch) \div FramePatches = at.time
          /\ (at.time * FramePatches + at.patch) % FramePatches = at.patch
      BY <3>1, <3>2, DivisionIs, Zenon
    <3>5. a.time * FramePatches + a.patch = at.time * FramePatches + at.patch
      BY <3>1, <3>2
    <3> QED BY <3>3, <3>4, <3>5
  <2> QED BY <2>4, <2>5, <2>6 DEF Places
<1> HIDE DEF place
<1> QED BY <1>2, <1>3 DEF ElementAt

\* Between the frames of a camera, attention goes to the frame itself and the earlier ones.
LEMMA MaskIs ==
  ASSUME NEW frames \in Nat \ {0}, NEW query \in 0..frames-1, NEW key \in 0..frames-1
  PROVE  Mask(query, key, frames) <=> key <= query
<1>1. query * frames + key \in 0..frames * frames - 1
  BY PlaceIn
<1>2. (query * frames + key) \div frames = query /\ (query * frames + key) % frames = key
  BY DivisionIs
<1>3. query * frames + key < frames * frames
  BY <1>1
<1> QED BY <1>2, <1>3 DEF Mask

\* Without the vectorized way, each number of a head and patch is mixed with that of the
\* same head and patch in its own and earlier frames, whatever the sizes
\* (build_hy_vision_block_mem).
THEOREM PerPatchIsCausal ==
  ASSUME NEW frames \in Nat \ {0}
  PROVE  CausalInTime(FALSE, frames)
<1> SUFFICES ASSUME NEW at \in Places(frames)
             PROVE  Mixed(at, FALSE, frames) = {[at EXCEPT !.time = t] : t \in 0..at.time}
  BY DEF CausalInTime
<1>1. ElementAt(Offset(at, Tokens, frames), After(FALSE), frames) = at
  BY AxesAre, ElementIs
<1>2. at.time \in 0..frames-1 /\ at["time"] = at.time
  BY DEF Places
<1>3. {k \in 0..frames-1 : Mask(at["time"], k, frames)} = 0..at.time
  BY <1>2, MaskIs
<1>4. Reads(at, Before(FALSE), frames)
        = {[at EXCEPT !["time"] = key] : key \in {k \in 0..frames-1 : Mask(at["time"], k, frames)}}
  <2> DEFINE axis == Before(FALSE)[2]
  <2>1. Reads(at, Before(FALSE), frames)
          = {[at EXCEPT ![axis] = key] : key \in {k \in 0..Size(axis, frames)-1 : Mask(at[axis], k, frames)}}
    BY DEF Reads
  <2> HIDE DEF axis
  <2>2. axis = "time"
    BY AxesAre DEF axis
  <2>3. Size(axis, frames) = frames
    BY <2>2, SizesAre
  <2>4. \A key : [at EXCEPT ![axis] = key] = [at EXCEPT !["time"] = key]
    BY <2>2
  <2>5. {k \in 0..Size(axis, frames)-1 : Mask(at[axis], k, frames)} = {k \in 0..frames-1 : Mask(at["time"], k, frames)}
    BY <2>2, <2>3
  <2> QED BY <2>1, <2>4, <2>5
<1>5. Reads(at, Before(FALSE), frames) = {[at EXCEPT !.time = t] : t \in 0..at.time}
  BY <1>3, <1>4
<1> QED BY <1>1, <1>5 DEF Mixed

\* So a process that does not ask for the vectorized way mixes no frame with a later one.
THEOREM CausalUnlessBatched ==
  (\A e \in Environments : e.batched = FALSE) => (Spec => []CausalMemory)
<1> SUFFICES ASSUME \A e \in Environments : e.batched = FALSE PROVE Spec => []CausalMemory
  OBVIOUS
<1>1. Inv => CausalMemory
  <2> SUFFICES ASSUME Inv, graph.kind = "group", UsesMemory(Len(graph.images))
               PROVE  CausalInTime(env.batched, Len(graph.images))
    BY DEF CausalMemory
  <2>1. env \in Environments /\ graph.images \in Seq(1..Len(job.images))
    BY DEF Inv, Typed
  <2>2. Len(graph.images) \in Nat \ {0}
    BY <2>1 DEF UsesMemory
  <2> QED BY <2>1, <2>2, PerPatchIsCausal
<1> QED BY <1>1, HyVlaInvariance, PTL
=============================================================================
