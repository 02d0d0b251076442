--------------------------- MODULE VisPrunerProof ---------------------------
(***************************************************************************)
(* Whatever a view encodes to and however std::sort orders equals, pruning *)
(* keeps as many tokens as it should, once each, the most important first, *)
(* and drops the pairs that are most alike.                                *)
(***************************************************************************)
EXTENDS VisPruner, FiniteSetTheorems, SequenceTheorems, TLAPS

-----------------------------------------------------------------------------
(* Rankings and counts. *)

\* A ranking names each place once, and f falls along it.
LEMMA RankingIs ==
  ASSUME NEW n \in Nat, NEW f, NEW q \in Rankings(f, n)
  PROVE  /\ q \in [1..n -> 1..n]
         /\ \A i, j \in 1..n : q[i] = q[j] => i = j
         /\ \A v \in 1..n : \E i \in 1..n : q[i] = v
         /\ \A i, j \in 1..n : i < j => f[q[i]] >= f[q[j]]
<1>1. q \in Bijection(1..n, 1..n) /\ \A i, j \in 1..n : i < j => f[q[i]] >= f[q[j]]
  BY DEF Rankings
<1> QED BY <1>1 DEF Bijection, Injection, Surjection, IsInjective

\* The settings are numbers, and the share is split into two.
LEMMA SettingsAre ==
  ASSUME TypeOK
  PROVE  /\ Patches \in Nat \ {0} /\ Target \in Nat /\ Important \in Int /\ Diverse \in Int
         /\ Important + Diverse = Target
<1>1. config.budget \in Int /\ config.percent \in Int /\ config.images \in Nat
  <2>1. config.budget \in Budgets /\ config.percent \in Percents /\ config.images \in 0..MaxImages
    BY DEF TypeOK
  <2>2. MaxImages \in Nat /\ Budgets \subseteq Int /\ Percents \subseteq Int
    BY PrunerAssumption
  <2>3. config.budget \in Int /\ config.percent \in Int
    BY <2>1, <2>2, Zenon
  <2>4. config.images \in Nat
    BY <2>1, <2>2
  <2> QED BY <2>3, <2>4
<1>2. ASSUME NEW a \in Int, NEW b \in Nat \ {0} PROVE (a \div b) \in Int
  OBVIOUS
<1>3. Larger(1, config.images) \in Nat \ {0}
  BY <1>1 DEF Larger
<1>4. (config.budget \div Larger(1, config.images)) \in Int
  BY <1>1, <1>2, <1>3
<1>5. Target \in Nat
  BY <1>4 DEF Target, Larger
<1>6. Target * config.percent \in Int
  BY <1>1, <1>5
<1>7. Important \in Int
  BY <1>2, <1>6 DEF Important
<1>8. Patches \in Nat \ {0}
  BY PrunerAssumption
<1> QED BY <1>5, <1>7, <1>8 DEF Diverse

LEMMA SameSettings ==
  ASSUME UNCHANGED config
  PROVE  Target' = Target /\ Important' = Important /\ Diverse' = Diverse /\ Prunes' = Prunes
<1>1. Target' = Target
  BY DEF Target
<1>2. Important' = Important
  BY <1>1 DEF Important
<1>3. Diverse' = Diverse
  BY <1>1, <1>2 DEF Diverse
<1> QED BY <1>1, <1>2, <1>3 DEF Prunes

\* The pairs dropped are some, and leave the budget or one less, if there are as many.
LEMMA DroppedAre ==
  ASSUME TypeOK, Diverse >= 0, NEW R \in Nat, R > Diverse
  PROVE  /\ DroppedPairs(R) \in Nat \ {0}
         /\ 2 * DroppedPairs(R) <= R => R - 2 * DroppedPairs(R) >= Diverse - 1
<1>1. Diverse \in Int
  BY SettingsAre
<1> QED BY <1>1 DEF DroppedPairs, Larger, Smaller

-----------------------------------------------------------------------------
(* A round. *)

\* Where survivor j was.
Was(order, R, r, j) ==
  IF j > 2 * ((R \div 2) - r) THEN R ELSE 2 * order[r + ((j + 1) \div 2)] - (j % 2)

LEMMA Halves ==
  /\ \A n \in Nat : \A k \in 1..n, b \in {0, 1} : 2 * k - b \in 1..2 * n
  /\ \A k, l \in Int, b, c \in {0, 1} : 2 * k - b = 2 * l - c => k = l /\ b = c
  /\ \A i, j \in Int : ((i + 1) \div 2) = ((j + 1) \div 2) /\ (i % 2) = (j % 2) => i = j
OBVIOUS

\* Every survivor was somewhere else.
LEMMA PlacesDiffer ==
  ASSUME NEW R \in Nat, NEW r \in Nat, 2 * r <= R, NEW order \in [1..(R \div 2) -> 1..(R \div 2)],
         \A i, j \in 1..(R \div 2) : order[i] = order[j] => i = j
  PROVE  /\ \A j \in 1..R - 2 * r : Was(order, R, r, j) \in 1..R
         /\ \A i, j \in 1..R - 2 * r : Was(order, R, r, i) = Was(order, R, r, j) => i = j
<1> DEFINE pairs == R \div 2
           at(j) == r + ((j + 1) \div 2)
<1>1. pairs \in Nat /\ 2 * pairs <= R /\ R <= 2 * pairs + 1 /\ r <= pairs
  OBVIOUS
<1>2. ASSUME NEW j \in 1..R - 2 * r, ~(j > 2 * (pairs - r))
      PROVE  /\ at(j) \in 1..pairs /\ order[at(j)] \in 1..pairs
             /\ Was(order, R, r, j) = 2 * order[at(j)] - (j % 2)
             /\ Was(order, R, r, j) \in 1..2 * pairs
  <2>1. at(j) \in 1..pairs
    BY <1>1, <1>2
  <2>2. order[at(j)] \in 1..pairs
    BY <2>1
  <2>3. Was(order, R, r, j) = 2 * order[at(j)] - (j % 2)
    BY <1>2 DEF Was
  <2>4. (j % 2) \in {0, 1}
    OBVIOUS
  <2> HIDE DEF at, pairs
  <2>5. 2 * order[at(j)] - (j % 2) \in 1..2 * pairs
    BY <1>1, <2>2, <2>4, Halves
  <2> QED BY <2>1, <2>2, <2>3, <2>5
<1>3. ASSUME NEW j \in 1..R - 2 * r, j > 2 * (pairs - r)
      PROVE  j = R - 2 * r /\ R = 2 * pairs + 1 /\ Was(order, R, r, j) = R
  BY <1>1, <1>3 DEF Was
<1>4. ASSUME NEW i \in 1..R - 2 * r, NEW j \in 1..R - 2 * r,
             ~(i > 2 * (pairs - r)), ~(j > 2 * (pairs - r)), Was(order, R, r, i) = Was(order, R, r, j)
      PROVE  i = j
  <2>1. /\ at(i) \in 1..pairs /\ order[at(i)] \in 1..pairs
        /\ Was(order, R, r, i) = 2 * order[at(i)] - (i % 2)
    BY <1>2, <1>4
  <2>2. /\ at(j) \in 1..pairs /\ order[at(j)] \in 1..pairs
        /\ Was(order, R, r, j) = 2 * order[at(j)] - (j % 2)
    BY <1>2, <1>4
  <2>3. (i % 2) \in {0, 1} /\ (j % 2) \in {0, 1}
    OBVIOUS
  <2>4. order[at(i)] \in Int /\ order[at(j)] \in Int
    BY <2>1, <2>2, <1>1
  <2>5. 2 * order[at(i)] - (i % 2) = 2 * order[at(j)] - (j % 2)
    BY <1>4, <2>1, <2>2
  <2>6. order[at(i)] = order[at(j)] /\ (i % 2) = (j % 2)
    <3> HIDE DEF at, pairs
    <3> QED BY <2>3, <2>4, <2>5, Halves
  <2>7. at(i) = at(j)
    BY <2>1, <2>2, <2>6
  <2>8. ((i + 1) \div 2) = ((j + 1) \div 2)
    BY <2>7
  <2> QED BY <2>6, <2>8, Halves
<1>5. \A j \in 1..R - 2 * r : Was(order, R, r, j) \in 1..R
  BY <1>1, <1>2, <1>3
<1>6. ASSUME NEW i \in 1..R - 2 * r, NEW j \in 1..R - 2 * r, Was(order, R, r, i) = Was(order, R, r, j)
      PROVE  i = j
  <2> HIDE DEF pairs
  <2>1. CASE i > 2 * (pairs - r) /\ j > 2 * (pairs - r)
    BY <1>3, <2>1
  <2>2. CASE ~(i > 2 * (pairs - r)) /\ ~(j > 2 * (pairs - r))
    BY <1>4, <1>6, <2>2
  <2>3. CASE i > 2 * (pairs - r) /\ ~(j > 2 * (pairs - r))
    BY <1>1, <1>2, <1>3, <1>6, <2>3
  <2>4. CASE ~(i > 2 * (pairs - r)) /\ j > 2 * (pairs - r)
    BY <1>1, <1>2, <1>3, <1>6, <2>4
  <2> QED BY <2>1, <2>2, <2>3, <2>4
<1> QED BY <1>5, <1>6

\* What a round makes of the remaining tokens: each was there and at another place.
LEMMA SurvivorsAre ==
  ASSUME TypeOK, NEW r \in Nat, 2 * r <= Len(remaining), IsInjective(remaining), NEW f,
         NEW order \in Rankings(f, Len(remaining) \div 2)
  PROVE  LET left == Survivors(order, r) IN
         /\ left \in Seq(Tokens) /\ Len(left) = Len(remaining) - 2 * r
         /\ IsInjective(left) /\ Range(left) \subseteq Range(remaining)
         /\ \A j \in DOMAIN left : /\ Was(order, Len(remaining), r, j) \in DOMAIN remaining
                                   /\ left[j] = remaining[Was(order, Len(remaining), r, j)]
<1> DEFINE R == Len(remaining)
           left == Survivors(order, r)
<1>1. R \in Nat /\ DOMAIN remaining = 1..R /\ \A i \in 1..R : remaining[i] \in Tokens
  BY DEF TypeOK
<1>2. /\ order \in [1..(R \div 2) -> 1..(R \div 2)]
      /\ \A i, j \in 1..(R \div 2) : order[i] = order[j] => i = j
  <2>1. (R \div 2) \in Nat
    BY <1>1
  <2> HIDE DEF R
  <2> QED BY <2>1, RankingIs DEF R
<1>3. 2 * r <= R
  OBVIOUS
<1> HIDE DEF R
<1>4. /\ \A j \in 1..R - 2 * r : Was(order, R, r, j) \in 1..R
      /\ \A i, j \in 1..R - 2 * r : Was(order, R, r, i) = Was(order, R, r, j) => i = j
  BY <1>1, <1>2, <1>3, PlacesDiffer
<1>5. left = [j \in 1..R - 2 * r |-> remaining[Was(order, R, r, j)]]
  BY DEF Survivors, Was, R
<1> HIDE DEF left
<1>6. left \in Seq(Tokens) /\ Len(left) = R - 2 * r /\ DOMAIN left = 1..R - 2 * r
  BY <1>1, <1>3, <1>4, <1>5
<1>7. \A j \in DOMAIN left : Was(order, R, r, j) \in 1..R /\ left[j] = remaining[Was(order, R, r, j)]
  BY <1>4, <1>5
<1>8. IsInjective(left)
  BY <1>1, <1>4, <1>5 DEF IsInjective
<1>9. Range(left) \subseteq Range(remaining)
  BY <1>1, <1>7 DEF Range
<1> QED BY <1>1, <1>6, <1>7, <1>8, <1>9 DEF R, left

-----------------------------------------------------------------------------
(* The invariant, step by step. *)

LEMMA SameEmbeddings ==
  ASSUME Inv, UNCHANGED <<config, embeddings, count>>
  PROVE  CountsAgree' /\ KeepsMostImportant' /\ OrderKept'
<1>1. Target' = Target /\ Important' = Important /\ Diverse' = Diverse /\ Prunes' = Prunes
  BY SameSettings
<1>2. EmbeddingRows' = EmbeddingRows
  BY DEF EmbeddingRows
<1>3. CountsAgree'
  BY <1>1, <1>2 DEF Inv, CountsAgree, Share
<1>4. KeepsMostImportant'
  BY <1>1 DEF Inv, KeepsMostImportant, Weighty
<1>5. OrderKept'
  BY DEF Inv, OrderKept
<1> QED BY <1>3, <1>4, <1>5

LEMMA InitInv == Init => Inv
<1> SUFFICES ASSUME Init PROVE Inv
  OBVIOUS
<1>1. TypeOK
  BY EmptySeq DEF Init, TypeOK
<1>2. EmbeddingRows = {}
  BY DEF Init, EmbeddingRows
<1>3. CountsAgree
  BY <1>2, FS_EmptySet DEF Init, CountsAgree
<1>4. KeepsMostImportant /\ OrderKept
  BY DEF Init, KeepsMostImportant, OrderKept
<1>5. Rounds /\ Selection /\ Ready
  BY DEF Init, Rounds, Selection, Ready
<1> QED BY <1>1, <1>3, <1>4, <1>5 DEF Inv

\* Finish and EncodeFails.
LEMMA EndInv ==
  ASSUME Inv, pc' \in {"done", "failed"}, UNCHANGED <<config, view, selected, remaining, embeddings, count>>
  PROVE  Inv'
<1>1. TypeOK'
  BY DEF Inv, TypeOK
<1>2. Rounds' /\ Selection' /\ Ready'
  BY DEF Rounds, Selection, Ready
<1> QED BY <1>1, <1>2, SameEmbeddings DEF Inv

LEMMA EncodeInv ==
  ASSUME Inv, Encode
  PROVE  Inv'
<1>1. /\ config' = config /\ embeddings' = embeddings /\ count' = count
      /\ view' \in ViewData /\ remaining' = <<>>
      /\ \/ Prunes /\ pc' = "rank" /\ selected' = <<>>
         \/ pc' = "append" /\ selected' = [i \in 1..Patches |-> i]
  BY DEF Encode
<1>2. Patches \in Nat \ {0}
  BY PrunerAssumption
<1>3. selected' \in Seq(Tokens) /\ remaining' \in Seq(Tokens)
  <2>1. <<>> \in Seq(Tokens)
    BY EmptySeq
  <2>2. [i \in 1..Patches |-> i] \in Seq(Tokens)
    BY <1>2 DEF Tokens
  <2> QED BY <1>1, <2>1, <2>2
<1>4. TypeOK'
  BY <1>1, <1>3 DEF Inv, TypeOK
<1>5. Rounds' /\ Selection'
  BY <1>1 DEF Rounds, Selection
<1>6. Ready'
  <2>1. CASE pc' = "rank"
    BY <1>1, <2>1, SameSettings DEF Ready
  <2>2. CASE pc' = "append"
    <3>1. selected' = [i \in 1..Patches |-> i]
      BY <1>1, <2>2
    <3>2. Len(selected') = Patches /\ IsInjective(selected') /\ InOrder(selected')
      BY <3>1, <1>2 DEF IsInjective, InOrder
    <3>3. Dropped([view |-> view', kept |-> selected']) = {}
      BY <3>1, <1>2 DEF Dropped, Kept, Tokens
    <3>4. Share(selected)'
      BY <3>2 DEF Share
    <3>5. Weighty([view |-> view, kept |-> selected])'
      BY <3>3 DEF Weighty
    <3> QED BY <2>2, <3>2, <3>4, <3>5 DEF Ready
  <2> QED BY <1>1, <2>1, <2>2
<1> QED BY <1>1, <1>4, <1>5, <1>6, SameEmbeddings DEF Inv

LEMMA RankInv ==
  ASSUME Inv, Rank
  PROVE  Inv'
<1>1. /\ pc = "rank" /\ pc' = "round"
      /\ UNCHANGED <<config, view, embeddings, count>>
  BY DEF Rank
<1>2. PICK q \in Rankings(view.att, Patches) :
        /\ selected'  = SubSeq(q, 1, Important)
        /\ remaining' = SubSeq(q, Important + 1, Patches)
  BY DEF Rank
<1>3. /\ Patches \in Nat \ {0} /\ Target \in Nat /\ Important \in Int /\ Diverse \in Int
      /\ Important + Diverse = Target
  BY SettingsAre DEF Inv
<1>4. Prunes /\ Target < Patches /\ Important >= 1 /\ Diverse >= 0
  BY <1>1 DEF Inv, Ready, Prunes
<1>5. /\ q \in [Tokens -> Tokens]
      /\ \A i, j \in Tokens : q[i] = q[j] => i = j
      /\ \A v \in Tokens : \E i \in Tokens : q[i] = v
      /\ \A i, j \in Tokens : i < j => view.att[q[i]] >= view.att[q[j]]
  BY <1>3, RankingIs DEF Tokens
<1>6. /\ \A i \in 1..Important : i \in Tokens /\ i < Important + 1
      /\ \A i \in 1..Patches - Important : Important + i \in Tokens /\ Important < Important + i
      /\ \A i \in Important + 1..Patches : i \in Tokens
      /\ Tokens \subseteq Nat
  BY <1>3, <1>4 DEF Tokens
<1>7. /\ selected' \in Seq(Tokens) /\ Len(selected') = Important
      /\ \A i \in 1..Important : selected'[i] = q[i]
  <2>1. \A i \in 1..Important : q[i] \in Tokens
    BY <1>6, <1>5
  <2> QED BY <1>2, <1>3, <1>4, <2>1, SubSeqProperties
<1>8. /\ remaining' \in Seq(Tokens) /\ Len(remaining') = Patches - Important
      /\ \A i \in 1..Patches - Important : remaining'[i] = q[Important + i]
  <2>1. \A i \in Important + 1..Patches : q[i] \in Tokens
    BY <1>6, <1>5
  <2>2. Important + 1 \in Int /\ Patches \in Int
    BY <1>3
  <2>3. /\ SubSeq(q, Important + 1, Patches) \in Seq(Tokens)
        /\ Len(SubSeq(q, Important + 1, Patches)) = IF Important + 1 <= Patches THEN Patches - (Important + 1) + 1 ELSE 0
        /\ \A i \in 1..Patches - (Important + 1) + 1 : SubSeq(q, Important + 1, Patches)[i] = q[(Important + 1) + i - 1]
    <3> DEFINE m == Important + 1
    <3> HIDE DEF m
    <3>1. m \in Int /\ \A i \in m..Patches : q[i] \in Tokens
      BY <2>1, <2>2 DEF m
    <3>2. /\ SubSeq(q, m, Patches) \in Seq(Tokens)
          /\ Len(SubSeq(q, m, Patches)) = IF m <= Patches THEN Patches - m + 1 ELSE 0
          /\ \A i \in 1..Patches - m + 1 : SubSeq(q, m, Patches)[i] = q[m + i - 1]
      BY <2>2, <3>1, SubSeqProperties
    <3> QED BY <3>2 DEF m
  <2> QED BY <1>2, <1>3, <1>4, <2>3
<1>9. TypeOK'
  BY <1>1, <1>7, <1>8 DEF Inv, TypeOK
<1>10. DOMAIN selected' = 1..Important /\ DOMAIN remaining' = 1..Patches - Important
  BY <1>7, <1>8
<1>11. Rounds'
  <2>1. IsInjective(selected')
    BY <1>6, <1>5, <1>7, <1>10 DEF IsInjective
  <2>2. IsInjective(remaining')
    <3> SUFFICES ASSUME NEW i \in 1..Patches - Important, NEW j \in 1..Patches - Important,
                        remaining'[i] = remaining'[j]
                 PROVE  i = j
      BY <1>10 DEF IsInjective
    <3>1. Important + i \in Tokens /\ Important + j \in Tokens /\ q[Important + i] = q[Important + j]
      BY <1>6, <1>8
    <3>2. Important + i = Important + j
      BY <1>5, <3>1
    <3> QED BY <1>3, <3>2
  <2>3. \A i \in DOMAIN selected', j \in DOMAIN remaining' : selected'[i] # remaining'[j]
    <3> SUFFICES ASSUME NEW i \in 1..Important, NEW j \in 1..Patches - Important
                 PROVE  selected'[i] # remaining'[j]
      BY <1>10
    <3>1. i \in Tokens /\ Important + j \in Tokens /\ i # Important + j
      BY <1>3, <1>6
    <3> QED BY <1>5, <1>7, <1>8, <3>1
  <2>4. Important' = Important /\ Diverse' = Diverse /\ Prunes' = Prunes
    BY <1>1, SameSettings
  <2>5. Len(remaining') >= Diverse - 1 /\ (Len(remaining') - (Patches - Important)) % 2 = 0
    BY <1>3, <1>4, <1>8
  <2> QED BY <1>4, <1>7, <2>1, <2>2, <2>3, <2>4, <2>5 DEF Rounds
<1>12. Selection'
  <2> SUFFICES ASSUME NEW i \in DOMAIN selected', NEW t \in Tokens \ Range(selected')
               PROVE  view.att[selected'[i]] >= view.att[t]
    BY <1>1 DEF Selection
  <2>1. PICK k \in Tokens : q[k] = t
    BY <1>5
  <2>2. k \notin 1..Important
    BY <1>7, <1>10, <2>1 DEF Range
  <2>3. i \in Tokens /\ i < k /\ selected'[i] = q[i]
    BY <1>3, <1>4, <1>7, <1>10, <2>2 DEF Tokens
  <2> QED BY <1>5, <2>1, <2>3
<1>13. Ready'
  BY <1>1 DEF Ready
<1> QED BY <1>1, <1>9, <1>11, <1>12, <1>13, SameEmbeddings DEF Inv

LEMMA RoundInv ==
  ASSUME Inv, Round
  PROVE  Inv'
<1> DEFINE R == Len(remaining)
           r == DroppedPairs(R)
<1>1. /\ pc = "round" /\ R > Diverse
      /\ UNCHANGED <<config, view, selected, embeddings, count>>
  BY DEF Round
<1>2. /\ TypeOK /\ Prunes /\ Len(selected) = Important /\ IsInjective(selected) /\ IsInjective(remaining)
      /\ \A i \in DOMAIN selected, j \in DOMAIN remaining : selected[i] # remaining[j]
      /\ (R - (Patches - Important)) % 2 = 0
  BY <1>1 DEF Inv, Rounds
<1>3. R \in Nat /\ Diverse >= 0 /\ Diverse \in Int /\ Patches \in Nat /\ Important \in Int
  BY <1>2, SettingsAre DEF TypeOK, Prunes
<1>4. r \in Nat \ {0} /\ (2 * r <= R => R - 2 * r >= Diverse - 1)
  BY <1>1, <1>2, <1>3, DroppedAre
<1>5. CASE pc' = "thrown" /\ UNCHANGED remaining
  <2>1. TypeOK'
    BY <1>1, <1>2, <1>5 DEF TypeOK
  <2>2. Rounds' /\ Selection' /\ Ready'
    BY <1>5 DEF Rounds, Selection, Ready
  <2> QED BY <1>1, <2>1, <2>2, SameEmbeddings DEF Inv
<1>6. CASE ~(R < 2 * r) /\ pc' = pc
  <2>1. PICK order \in Rankings(PairSim(R \div 2), R \div 2) : remaining' = Survivors(order, r)
    BY <1>6 DEF Round
  <2>2. 2 * r <= R
    BY <1>3, <1>4, <1>6
  <2>3. /\ remaining' \in Seq(Tokens) /\ Len(remaining') = R - 2 * r
        /\ IsInjective(remaining') /\ Range(remaining') \subseteq Range(remaining)
    BY <1>2, <1>4, <2>1, <2>2, SurvivorsAre
  <2>4. TypeOK'
    BY <1>1, <1>2, <1>6, <2>3 DEF TypeOK
  <2>5. \A i \in DOMAIN selected, j \in DOMAIN remaining' : selected[i] # remaining'[j]
    BY <1>2, <2>3 DEF Range
  <2>6. Len(remaining') >= Diverse - 1 /\ (Len(remaining') - (Patches - Important)) % 2 = 0
    <3> HIDE DEF R, r
    <3> QED BY <1>2, <1>3, <1>4, <2>2, <2>3
  <2>7. Important' = Important /\ Diverse' = Diverse /\ Prunes' = Prunes
    BY <1>1, SameSettings
  <2>8. Rounds'
    BY <1>1, <1>2, <2>3, <2>5, <2>6, <2>7 DEF Rounds
  <2>9. Selection'
    BY <1>1 DEF Inv, Selection
  <2>10. Ready'
    BY <1>1, <1>6 DEF Ready
  <2> QED BY <1>1, <2>4, <2>8, <2>9, <2>10, SameEmbeddings DEF Inv
<1> QED BY <1>5, <1>6 DEF Round

\* The tokens selected and remaining make the view's share.
LEMMA JoinedAre ==
  ASSUME Inv, pc = "round", Len(remaining) <= Diverse
  PROVE  LET all == selected \o remaining IN
         /\ all \in Seq(Tokens) /\ Len(all) = Target - ((Patches - Target) % 2)
         /\ IsInjective(all)
         /\ Len(selected) = Important /\ Important <= Len(all)
         /\ \A i \in 1..Important : all[i] = selected[i]
<1> DEFINE all == selected \o remaining
<1>1. /\ TypeOK /\ Prunes /\ Len(selected) = Important /\ IsInjective(selected) /\ IsInjective(remaining)
      /\ \A i \in DOMAIN selected, j \in DOMAIN remaining : selected[i] # remaining[j]
      /\ Len(remaining) >= Diverse - 1 /\ (Len(remaining) - (Patches - Important)) % 2 = 0
  BY DEF Inv, Rounds
<1>2. selected \in Seq(Tokens) /\ remaining \in Seq(Tokens)
  BY <1>1 DEF TypeOK
<1>3. /\ Patches \in Nat \ {0} /\ Target \in Nat /\ Important \in Int /\ Diverse \in Int
      /\ Important + Diverse = Target
  BY <1>1, SettingsAre
<1>4. /\ Len(selected) \in Nat /\ Len(remaining) \in Nat
      /\ DOMAIN selected = 1..Important /\ DOMAIN remaining = 1..Len(remaining)
  BY <1>1, <1>2
<1>5. /\ all \in Seq(Tokens) /\ Len(all) = Important + Len(remaining)
      /\ \A i \in 1..Important + Len(remaining) :
           all[i] = IF i <= Important THEN selected[i] ELSE remaining[i - Important]
  <2>1. /\ all \in Seq(Tokens) /\ Len(all) = Len(selected) + Len(remaining)
        /\ \A i \in 1..Len(selected) + Len(remaining) :
             all[i] = IF i <= Len(selected) THEN selected[i] ELSE remaining[i - Len(selected)]
    BY <1>2, ConcatProperties
  <2> QED BY <1>1, <2>1, Zenon
<1> HIDE DEF all
<1>6. DOMAIN all = 1..Important + Len(remaining)
  BY <1>5
<1>7. ASSUME NEW i \in DOMAIN all
      PROVE  /\ i \in Int
             /\ i <= Important => i \in DOMAIN selected /\ all[i] = selected[i]
             /\ ~(i <= Important) => i - Important \in DOMAIN remaining /\ all[i] = remaining[i - Important]
  <2>1. i \in 1..Important + Len(remaining) /\ Len(remaining) \in Nat /\ Important \in Int
    BY <1>3, <1>4, <1>6
  <2>2. all[i] = IF i <= Important THEN selected[i] ELSE remaining[i - Important]
    BY <1>5, <2>1
  <2> QED BY <1>4, <2>1, <2>2
<1>8. ASSUME NEW i \in DOMAIN all, NEW j \in DOMAIN all, all[i] = all[j]
      PROVE  i = j
  <2>1. /\ i \in Int
        /\ i <= Important => i \in DOMAIN selected /\ all[i] = selected[i]
        /\ ~(i <= Important) => i - Important \in DOMAIN remaining /\ all[i] = remaining[i - Important]
    BY <1>7
  <2>2. /\ j \in Int
        /\ j <= Important => j \in DOMAIN selected /\ all[j] = selected[j]
        /\ ~(j <= Important) => j - Important \in DOMAIN remaining /\ all[j] = remaining[j - Important]
    BY <1>7
  <2>3. CASE i <= Important /\ j <= Important
    BY <1>1, <1>8, <2>1, <2>2, <2>3 DEF IsInjective
  <2>4. CASE ~(i <= Important) /\ ~(j <= Important)
    <3>1. i - Important = j - Important
      BY <1>1, <1>8, <2>1, <2>2, <2>4 DEF IsInjective
    <3> QED BY <1>3, <2>1, <2>2, <3>1
  <2> QED BY <1>1, <1>8, <2>1, <2>2, <2>3, <2>4
<1>9. \A i \in 1..Important : all[i] = selected[i]
  BY <1>3, <1>4, <1>5
<1>10. IsInjective(all)
  BY <1>8 DEF IsInjective
<1>11. Len(all) = Target - ((Patches - Target) % 2) /\ Important <= Len(all)
  <2> DEFINE n == Len(remaining)
  <2>1. n \in Nat /\ n <= Diverse /\ n >= Diverse - 1 /\ (n - (Patches - Important)) % 2 = 0
    BY <1>1, <1>4
  <2> HIDE DEF n
  <2>2. Important + n = Target - ((Patches - Target) % 2) /\ Important <= Important + n
    BY <1>3, <2>1
  <2> QED BY <1>5, <2>2 DEF n
<1> QED BY <1>1, <1>5, <1>9, <1>10, <1>11 DEF all

\* As many tokens as selected are among the foremost of a view that has them all.
LEMMA EnoughForemost ==
  ASSUME Inv, pc = "round", NEW e, e.view = view, Kept(e) \subseteq Tokens, Range(selected) \subseteq Kept(e)
  PROVE  Weighty(e)
<1>1. TypeOK /\ Len(selected) = Important /\ IsInjective(selected) /\ selected \in Seq(Tokens)
  BY DEF Inv, Rounds, TypeOK
<1>2. DOMAIN selected = 1..Important /\ Important \in Nat /\ Patches \in Nat
  BY <1>1, SettingsAre
<1>3. Range(selected) \subseteq Foremost(e)
  <2> SUFFICES ASSUME NEW i \in DOMAIN selected, NEW d \in Dropped(e)
               PROVE  selected[i] \in Kept(e) /\ view.att[selected[i]] >= view.att[d]
    BY DEF Foremost, Range
  <2>1. selected[i] \in Kept(e)
    BY DEF Range
  <2>2. d \in Tokens \ Range(selected)
    BY DEF Dropped
  <2>3. view.att[selected[i]] >= view.att[d]
    BY <2>2 DEF Inv, Selection
  <2> QED BY <2>1, <2>3
<1>4. Cardinality(Range(selected)) = Important
  <2>1. selected \in [1..Important -> Range(selected)]
    BY <1>1, <1>2 DEF Range
  <2>2. selected \in Bijection(1..Important, Range(selected))
    BY <1>1, <1>2, <2>1 DEF Bijection, Injection, Surjection, Range
  <2>3. IsFiniteSet(1..Important) /\ Cardinality(1..Important) = Important
    BY <1>2, FS_Interval
  <2>4. ExistsBijection(1..Important, Range(selected))
    BY <2>2 DEF ExistsBijection
  <2> QED BY <2>3, <2>4, FS_Bijection
<1>5. IsFiniteSet(Foremost(e))
  <2>1. Foremost(e) \subseteq 1..Patches
    BY DEF Foremost, Tokens
  <2>2. IsFiniteSet(1..Patches)
    BY <1>2, FS_Interval
  <2> QED BY <2>1, <2>2, FS_Subset
<1>6. Cardinality(Range(selected)) <= Cardinality(Foremost(e))
  BY <1>3, <1>5, FS_Subset
<1>7. Cardinality(Foremost(e)) \in Nat
  BY <1>5, FS_CardinalityType
<1> QED BY <1>2, <1>4, <1>6, <1>7 DEF Weighty

\* A view in another order has the same tokens.
LEMMA Reordered ==
  ASSUME NEW all \in Seq(Tokens), IsInjective(all), NEW q \in Bijection(1..Len(all), 1..Len(all))
  PROVE  LET tokens == [i \in DOMAIN all |-> all[q[i]]] IN
         /\ tokens \in Seq(Tokens) /\ Len(tokens) = Len(all) /\ IsInjective(tokens)
         /\ Range(all) \subseteq Range(tokens) /\ Range(tokens) \subseteq Tokens
<1> DEFINE tokens == [i \in DOMAIN all |-> all[q[i]]]
<1>1. /\ q \in [1..Len(all) -> 1..Len(all)]
      /\ \A i, j \in 1..Len(all) : q[i] = q[j] => i = j
      /\ \A v \in 1..Len(all) : \E i \in 1..Len(all) : q[i] = v
  BY DEF Bijection, Injection, Surjection, IsInjective
<1>2. DOMAIN all = 1..Len(all) /\ Len(all) \in Nat /\ \A i \in 1..Len(all) : all[i] \in Tokens
  OBVIOUS
<1>3. DOMAIN tokens = 1..Len(all) /\ \A i \in 1..Len(all) : tokens[i] = all[q[i]] /\ tokens[i] \in Tokens
  BY <1>1, <1>2
<1> HIDE DEF tokens
<1>4. tokens \in Seq(Tokens) /\ Len(tokens) = Len(all)
  <2>1. tokens \in [1..Len(all) -> Tokens]
    BY <1>2, <1>3 DEF tokens
  <2> QED BY <1>2, <2>1
<1>5. ASSUME NEW i \in DOMAIN tokens, NEW j \in DOMAIN tokens, tokens[i] = tokens[j]
      PROVE  i = j
  <2>1. i \in 1..Len(all) /\ j \in 1..Len(all)
    BY <1>3
  <2>2. q[i] \in DOMAIN all /\ q[j] \in DOMAIN all /\ all[q[i]] = all[q[j]]
    BY <1>1, <1>2, <1>3, <1>5, <2>1
  <2>3. q[i] = q[j]
    BY <2>2, Zenon DEF IsInjective
  <2> QED BY <1>1, <2>1, <2>3, Zenon
<1>6. Range(all) \subseteq Range(tokens)
  <2> SUFFICES ASSUME NEW v \in 1..Len(all) PROVE \E k \in DOMAIN tokens : tokens[k] = all[v]
    BY <1>2 DEF Range
  <2>1. PICK k \in 1..Len(all) : q[k] = v
    BY <1>1
  <2> QED BY <1>3, <2>1
<1>7. Range(tokens) \subseteq Tokens
  <2>1. \A i \in DOMAIN tokens : tokens[i] \in Tokens
    BY <1>3
  <2> QED BY <2>1, Zenon DEF Range
<1>8. IsInjective(tokens)
  BY <1>5, Zenon DEF IsInjective
<1> QED BY <1>4, <1>6, <1>7, <1>8 DEF tokens

\* Any order of the tokens selected and remaining is a view at its share.
LEMMA MergedAre ==
  ASSUME Inv, pc = "round", Len(remaining) <= Diverse, NEW all, all = selected \o remaining,
         NEW q \in Bijection(1..Len(all), 1..Len(all)),
         NEW tokens, tokens = [i \in DOMAIN all |-> all[q[i]]]
  PROVE  tokens \in Seq(Tokens) /\ Share(tokens) /\ Weighty([view |-> view, kept |-> tokens])
<1>1. /\ all \in Seq(Tokens) /\ Len(all) = Target - ((Patches - Target) % 2)
      /\ IsInjective(all)
      /\ Len(selected) = Important /\ Important <= Len(all)
      /\ \A i \in 1..Important : all[i] = selected[i]
  BY JoinedAre
<1>2. TypeOK /\ Prunes
  BY DEF Inv, Rounds
<1>3. /\ tokens \in Seq(Tokens) /\ Len(tokens) = Len(all) /\ IsInjective(tokens)
      /\ Range(all) \subseteq Range(tokens) /\ Range(tokens) \subseteq Tokens
  <2>1. all \in Seq(Tokens) /\ IsInjective(all)
    BY <1>1
  <2>2. LET t == [i \in DOMAIN all |-> all[q[i]]] IN
        /\ t \in Seq(Tokens) /\ Len(t) = Len(all) /\ IsInjective(t)
        /\ Range(all) \subseteq Range(t) /\ Range(t) \subseteq Tokens
    BY ONLY <2>1, q \in Bijection(1..Len(all), 1..Len(all)), Reordered
  <2> QED BY <2>2
<1>4. Share(tokens)
  BY <1>1, <1>2, <1>3 DEF Share
<1>5. Range(selected) \subseteq Range(all)
  <2>1. Important \in Int /\ Len(all) \in Nat /\ DOMAIN all = 1..Len(all)
    BY <1>1, <1>2, SettingsAre
  <2>2. DOMAIN selected = 1..Important
    BY <1>1, <1>2 DEF TypeOK
  <2>3. \A i \in DOMAIN selected : i \in DOMAIN all /\ all[i] = selected[i]
    BY <1>1, <2>1, <2>2
  <2> QED BY <2>3, Zenon DEF Range
<1>6. Weighty([view |-> view, kept |-> tokens])
  <2> DEFINE e == [view |-> view, kept |-> tokens]
  <2>1. e.view = view /\ e.kept = tokens
    OBVIOUS
  <2> HIDE DEF e
  <2>2. Kept(e) = Range(tokens)
    BY <2>1 DEF Kept, Range
  <2>3. Kept(e) \subseteq Tokens
    BY <1>3, <2>2
  <2> QED BY <1>3, <1>5, <2>1, <2>2, <2>3, EnoughForemost DEF e
<1> QED BY <1>3, <1>4, <1>6

LEMMA MergeInv ==
  ASSUME Inv, Merge
  PROVE  Inv'
<1> DEFINE all == selected \o remaining
<1>1. /\ pc = "round" /\ Len(remaining) <= Diverse /\ pc' = "append" /\ remaining' = <<>>
      /\ UNCHANGED <<config, view, embeddings, count>>
  BY DEF Merge
<1>2. all \in Seq(Tokens) /\ DOMAIN all = 1..Len(all) /\ Len(all) \in Nat
  BY ConcatProperties DEF Inv, TypeOK
<1>3. /\ selected' \in Seq(Tokens) /\ Share(selected') /\ Weighty([view |-> view, kept |-> selected'])
      /\ config.keepOrder => InOrder(selected')
  <2>1. CASE config.keepOrder
    <3> DEFINE f == [i \in DOMAIN all |-> -all[i]]
    <3>1. PICK q \in Rankings(f, Len(all)) : selected' = [i \in DOMAIN all |-> all[q[i]]]
      BY <2>1 DEF Merge
    <3>2. /\ q \in [1..Len(all) -> 1..Len(all)]
          /\ \A i, j \in 1..Len(all) : q[i] = q[j] => i = j
          /\ \A v \in 1..Len(all) : \E i \in 1..Len(all) : q[i] = v
          /\ \A i, j \in 1..Len(all) : i < j => f[q[i]] >= f[q[j]]
          /\ q \in Bijection(1..Len(all), 1..Len(all))
      <4> HIDE DEF f, all
      <4>1. q \in Bijection(1..Len(all), 1..Len(all))
        BY <3>1, Zenon DEF Rankings
      <4> QED BY <1>2, <3>1, <4>1, RankingIs
    <3>3. selected' \in Seq(Tokens) /\ Share(selected') /\ Weighty([view |-> view, kept |-> selected'])
      <4>1. all = selected \o remaining
        OBVIOUS
      <4>2. q \in Bijection(1..Len(all), 1..Len(all))
        BY <3>2
      <4> HIDE DEF f, all
      <4> QED BY <1>1, <3>1, <4>1, <4>2, MergedAre
    <3>4. InOrder(selected')
      <4> HIDE DEF all
      <4> SUFFICES ASSUME NEW i \in DOMAIN all, NEW j \in DOMAIN all, i < j
                   PROVE  selected'[i] < selected'[j]
        BY <3>1 DEF InOrder
      <4>1. q[i] \in DOMAIN all /\ q[j] \in DOMAIN all /\ f[q[i]] >= f[q[j]]
        BY <1>2, <3>2
      <4>2. all[q[i]] \in Nat /\ all[q[j]] \in Nat
        <5>1. Tokens \subseteq Nat
          BY PrunerAssumption DEF Tokens
        <5>2. all[q[i]] \in Tokens /\ all[q[j]] \in Tokens
          BY <1>2, <4>1
        <5> QED BY <5>1, <5>2
      <4>3. all[q[i]] <= all[q[j]]
        BY <4>1, <4>2
      <4>4. selected'[i] # selected'[j]
        <5>1. i # j /\ DOMAIN selected' = DOMAIN all
          BY <1>2, <3>1
        <5> QED BY <3>3, <5>1 DEF Share, IsInjective
      <4> QED BY <3>1, <4>2, <4>3, <4>4
    <3> QED BY <3>3, <3>4
  <2>2. CASE ~config.keepOrder
    <3> DEFINE q == [i \in 1..Len(all) |-> i]
    <3>1. selected' = all
      BY <2>2 DEF Merge
    <3>2. selected' = [i \in DOMAIN all |-> all[q[i]]]
      <4> HIDE DEF all
      <4> QED BY <1>2, <3>1
    <3>3. q \in Bijection(1..Len(all), 1..Len(all))
      BY DEF Bijection, Injection, Surjection, IsInjective
    <3> HIDE DEF q
    <3> QED BY <1>1, <2>2, <3>2, <3>3, MergedAre
  <2> QED BY <2>1, <2>2
<1>4. TypeOK'
  BY <1>1, <1>3, EmptySeq DEF Inv, TypeOK
<1>5. Rounds' /\ Selection'
  BY <1>1 DEF Rounds, Selection
<1>6. Ready'
  <2>1. Target' = Target /\ Important' = Important /\ Prunes' = Prunes
    BY <1>1, SameSettings
  <2> QED BY <1>1, <1>3, <2>1 DEF Ready, Share, Weighty
<1> QED BY <1>1, <1>4, <1>5, <1>6, SameEmbeddings DEF Inv

LEMMA RowsOf ==
  ASSUME NEW m \in Nat, NEW a
  PROVE  IsFiniteSet({a} \X (1..m)) /\ Cardinality({a} \X (1..m)) = m
<1>1. IsFiniteSet({a}) /\ Cardinality({a}) = 1
  BY FS_Singleton
<1>2. IsFiniteSet(1..m) /\ Cardinality(1..m) = m
  BY FS_Interval
<1>3. IsFiniteSet({a} \X (1..m)) /\ Cardinality({a} \X (1..m)) = Cardinality({a}) * Cardinality(1..m)
  BY <1>1, <1>2, FS_Product
<1> QED BY <1>1, <1>2, <1>3

\* The rows of a view that is appended are as many as its tokens.
LEMMA RowsAdd ==
  ASSUME TypeOK, TypeOK', Len(selected) <= Patches,
         embeddings' = Append(embeddings, [view |-> view, kept |-> selected])
  PROVE  Cardinality(EmbeddingRows') = Cardinality(EmbeddingRows) + Len(selected)
<1> DEFINE n   == Len(embeddings)
           len == Len(selected)
           new == {n + 1} \X (1..len)
<1>1. n \in Nat /\ DOMAIN embeddings = 1..n /\ len \in Nat /\ Patches \in Nat
  <2>1. Patches \in Nat
    BY PrunerAssumption
  <2> QED BY <2>1 DEF TypeOK
<1>2. /\ DOMAIN embeddings' = 1..n + 1
      /\ \A i \in 1..n : embeddings'[i] = embeddings[i]
      /\ embeddings'[n + 1].kept = selected
  BY DEF TypeOK
<1>3. EmbeddingRows = {r \in (1..n) \X Tokens : r[2] <= Len(embeddings[r[1]].kept)}
  BY <1>1 DEF EmbeddingRows
<1>4. EmbeddingRows' = {r \in (1..n + 1) \X Tokens : r[2] <= Len(embeddings'[r[1]].kept)}
  BY <1>2 DEF EmbeddingRows
<1>5. len <= Patches
  OBVIOUS
<1> HIDE DEF n, len
<1>6. ASSUME NEW i \in 1..n + 1, NEW t \in Tokens
      PROVE  <<i, t>> \in EmbeddingRows' <=> <<i, t>> \in EmbeddingRows \cup new
  <2>1. CASE i \in 1..n
    BY <1>1, <1>2, <1>3, <1>4, <2>1
  <2>2. CASE i = n + 1
    <3>1. <<i, t>> \notin EmbeddingRows
      BY <1>1, <1>3, <2>2
    <3>2. <<i, t>> \in EmbeddingRows' <=> t <= len
      BY <1>2, <1>4, <2>2 DEF len
    <3>3. t \in Nat /\ t >= 1
      BY <1>1 DEF Tokens
    <3> QED BY <1>1, <2>2, <3>1, <3>2, <3>3
  <2> QED BY <1>1, <2>1, <2>2
<1>7. /\ EmbeddingRows' \subseteq (1..n + 1) \X Tokens
      /\ EmbeddingRows \cup new \subseteq (1..n + 1) \X Tokens
  <2>1. EmbeddingRows' \subseteq (1..n + 1) \X Tokens
    BY <1>4
  <2>2. 1..n \subseteq 1..n + 1 /\ {n + 1} \subseteq 1..n + 1 /\ 1..len \subseteq Tokens
    BY <1>1, <1>5 DEF Tokens
  <2>3. new \subseteq (1..n + 1) \X Tokens
    BY <2>2
  <2>4. EmbeddingRows \subseteq (1..n + 1) \X Tokens
    BY <1>3, <2>2
  <2> QED BY <2>1, <2>3, <2>4
<1>8. EmbeddingRows' = EmbeddingRows \cup new
  <2> HIDE DEF new
  <2>1. ASSUME NEW x \in (1..n + 1) \X Tokens
        PROVE  x \in EmbeddingRows' <=> x \in EmbeddingRows \cup new
    <3>1. PICK i \in 1..n + 1, t \in Tokens : x = <<i, t>>
      OBVIOUS
    <3> QED BY <1>6, <3>1
  <2> QED BY <1>7, <2>1, Zenon
<1>9. EmbeddingRows \cap new = {}
  BY <1>1, <1>3
<1>10. IsFiniteSet(EmbeddingRows)
  <2>1. IsFiniteSet(1..n) /\ IsFiniteSet(Tokens)
    BY <1>1, FS_Interval DEF Tokens
  <2>2. IsFiniteSet((1..n) \X Tokens)
    BY <2>1, FS_Product
  <2>3. EmbeddingRows \in SUBSET ((1..n) \X Tokens)
    BY <1>3
  <2> QED BY <2>2, <2>3, FS_Subset
<1>11. IsFiniteSet(new) /\ Cardinality(new) = len
  BY <1>1, RowsOf
<1>12. Cardinality(EmbeddingRows \cap new) = 0
  BY <1>9, FS_EmptySet
<1>13. Cardinality(EmbeddingRows) \in Nat
  BY <1>10, FS_CardinalityType
<1>14. Cardinality(EmbeddingRows \cup new) =
         Cardinality(EmbeddingRows) + Cardinality(new) - Cardinality(EmbeddingRows \cap new)
  BY <1>10, <1>11, FS_Union
<1> HIDE DEF new
<1> QED BY <1>1, <1>8, <1>11, <1>12, <1>13, <1>14 DEF len

LEMMA AppendInv ==
  ASSUME Inv, AppendView
  PROVE  Inv'
<1> DEFINE e == [view |-> view, kept |-> selected]
<1>1. /\ pc = "append" /\ pc' = "encode" /\ embeddings' = Append(embeddings, e) /\ count' = count + Len(selected)
      /\ UNCHANGED <<config, view, selected, remaining>>
  BY DEF AppendView
<1>2. TypeOK /\ Share(selected) /\ Weighty(e) /\ (config.keepOrder => InOrder(selected))
  BY <1>1 DEF Inv, Ready
<1>3. e \in [view : ViewData, kept : Seq(Tokens)] /\ e.kept = selected
  BY <1>2 DEF TypeOK
<1>4. TypeOK'
  <2>1. Len(selected) \in Nat
    BY <1>2 DEF TypeOK
  <2> HIDE DEF e
  <2>2. embeddings' \in Seq([view : ViewData, kept : Seq(Tokens)])
    BY <1>1, <1>2, <1>3 DEF TypeOK
  <2>3. count' \in Nat
    BY <1>1, <1>2, <2>1 DEF TypeOK
  <2> QED BY <1>1, <1>2, <2>2, <2>3 DEF TypeOK
<1>5. /\ DOMAIN embeddings' = 1..Len(embeddings) + 1 /\ DOMAIN embeddings = 1..Len(embeddings)
      /\ Len(embeddings) \in Nat
      /\ \A i \in 1..Len(embeddings) : embeddings'[i] = embeddings[i]
      /\ embeddings'[Len(embeddings) + 1] = e
  BY <1>1, <1>2 DEF TypeOK
<1>6. ASSUME NEW i \in DOMAIN embeddings'
      PROVE  \/ i \in DOMAIN embeddings /\ embeddings'[i] = embeddings[i]
             \/ embeddings'[i] = e
  BY <1>5
<1>7. Target' = Target /\ Important' = Important /\ Prunes' = Prunes
  BY <1>1, SameSettings
<1>8. CountsAgree'
  <2>1. Len(selected) <= Patches
    <3>1. Patches \in Nat /\ Target \in Nat
      BY <1>2, SettingsAre
    <3>2. ~Prunes => Len(selected) = Patches
      BY <1>2 DEF Share
    <3>3. Prunes => Target < Patches
      BY DEF Prunes
    <3>4. Len(selected) = Patches \/ Len(selected) = Target - ((Patches - Target) % 2)
      BY <1>2 DEF Share
    <3> QED BY <3>1, <3>2, <3>3, <3>4
  <2>2. Cardinality(EmbeddingRows') = Cardinality(EmbeddingRows) + Len(selected)
    BY <1>1, <1>2, <1>4, <2>1, RowsAdd
  <2>3. count' = Cardinality(EmbeddingRows')
    BY <1>1, <2>2 DEF Inv, CountsAgree
  <2>4. ASSUME NEW i \in DOMAIN embeddings' PROVE Share(embeddings'[i].kept)
    BY <1>2, <1>3, <1>6 DEF Inv, CountsAgree
  <2> QED BY <1>7, <2>3, <2>4 DEF CountsAgree, Share
<1>9. KeepsMostImportant'
  <2>1. ASSUME NEW i \in DOMAIN embeddings' PROVE Weighty(embeddings'[i])
    BY <1>2, <1>6 DEF Inv, KeepsMostImportant
  <2> QED BY <1>7, <2>1 DEF KeepsMostImportant, Weighty
<1>10. OrderKept'
  <2>1. ASSUME config.keepOrder, NEW i \in DOMAIN embeddings' PROVE InOrder(embeddings'[i].kept)
    BY <1>2, <1>3, <1>6, <2>1 DEF Inv, OrderKept
  <2> QED BY <1>1, <2>1 DEF OrderKept
<1>11. Rounds' /\ Selection' /\ Ready'
  BY <1>1 DEF Rounds, Selection, Ready
<1> QED BY <1>4, <1>8, <1>9, <1>10, <1>11 DEF Inv

LEMMA NextInv ==
  ASSUME Inv, [Next]_vars
  PROVE  Inv'
<1>1. CASE Finish
  BY <1>1, EndInv DEF Finish
<1>2. CASE EncodeFails
  BY <1>2, EndInv DEF EncodeFails
<1>3. CASE UNCHANGED vars
  <2>1. UNCHANGED <<config, pc, view, selected, remaining, embeddings, count>>
    BY <1>3 DEF vars
  <2>2. TypeOK'
    BY <2>1 DEF Inv, TypeOK
  <2>3. Target' = Target /\ Important' = Important /\ Diverse' = Diverse /\ Prunes' = Prunes
    BY <2>1, SameSettings
  <2>4. Rounds' /\ Selection' /\ Ready'
    BY <2>1, <2>3 DEF Inv, Rounds, Selection, Ready, Share, Weighty
  <2> QED BY <2>1, <2>2, <2>4, SameEmbeddings DEF Inv
<1> QED BY <1>1, <1>2, <1>3, EncodeInv, RankInv, RoundInv, MergeInv, AppendInv DEF Next, Step

-----------------------------------------------------------------------------
(* The theorems. *)

\* Why the properties below hold: between the stages a token of the view is selected,
\* remaining or dropped, once, and the rounds keep the parity they started with.
THEOREM PrunerInvariance == Spec => []Inv
<1>1. Inv /\ [Next]_vars => Inv'
  BY NextInv
<1> QED BY <1>1, InitInv, PTL DEF Spec

\* For views of any size, any budget, ratio and number of views, no token is duplicated,
\* invented or miscounted, and a view that is cut comes out at its share or one below.
THEOREM CountsAlwaysAgree == Spec => []CountsAgree
<1>1. Inv => CountsAgree
  BY DEF Inv
<1> QED BY <1>1, PrunerInvariance, PTL

\* However equals are ordered, what the ratio keeps for its attention is not behind
\* anything that is dropped (stage 1 of vispruner_prune).
THEOREM ImportantAreKept == Spec => []KeepsMostImportant
<1>1. Inv => KeepsMostImportant
  BY DEF Inv
<1> QED BY <1>1, PrunerInvariance, PTL

\* With keep_order the tokens of every view are in their places' order.
THEOREM OrderIsKept == Spec => []OrderKept
<1>1. Inv => OrderKept
  BY DEF Inv
<1> QED BY <1>1, PrunerInvariance, PTL

\* No pair that a round keeps is more alike than one it drops (stage 2 of vispruner_prune).
THEOREM SimilarAreDropped == Spec => DropsMostSimilar
<1>1. ASSUME Inv, Round, pc' = "round"
      PROVE  LeastSimilarStay
  <2> DEFINE R == Len(remaining)
             r == DroppedPairs(R)
             n == R \div 2
             left == {i \in 1..n : \E j \in DOMAIN remaining' : remaining'[j] = remaining[2*i]}
  <2>1. /\ TypeOK /\ IsInjective(remaining) /\ R > Diverse /\ Diverse >= 0
    BY <1>1 DEF Inv, Rounds, Round, Prunes
  <2>2. R \in Nat /\ DOMAIN remaining = 1..R
    BY <2>1 DEF TypeOK
  <2>3. r \in Nat \ {0}
    BY <2>1, <2>2, DroppedAre
  <2>4. n \in Nat /\ 2 * n <= R /\ R <= 2 * n + 1
    BY <2>2
  <2>5. ~(R < 2 * r)
    BY <1>1 DEF Round
  <2>6. PICK order \in Rankings(PairSim(n), n) : remaining' = Survivors(order, r)
    BY <1>1, <2>5 DEF Round
  <2>7. 2 * r <= R
    BY <2>2, <2>3, <2>5
  <2> HIDE DEF r
  <2>8. /\ remaining' \in Seq(Tokens) /\ Len(remaining') = R - 2 * r
        /\ \A j \in DOMAIN remaining' : /\ Was(order, R, r, j) \in DOMAIN remaining
                                        /\ remaining'[j] = remaining[Was(order, R, r, j)]
    BY <2>1, <2>3, <2>6, <2>7, SurvivorsAre
  <2> HIDE DEF R, n
  <2>9. /\ order \in [1..n -> 1..n]
        /\ \A i, j \in 1..n : order[i] = order[j] => i = j
        /\ \A v \in 1..n : \E i \in 1..n : order[i] = v
        /\ \A i, j \in 1..n : i < j => PairSim(n)[order[i]] >= PairSim(n)[order[j]]
    BY <2>4, <2>6, RankingIs
  <2>10. DOMAIN remaining' = 1..R - 2 * r
    BY <2>8
  <2>11. ASSUME NEW k \in 1..n, order[k] \in left PROVE k > r
    <3>1. PICK j \in 1..R - 2 * r : remaining'[j] = remaining[2 * order[k]]
      BY <2>10, <2>11
    <3>2. order[k] \in 1..n /\ 2 * order[k] \in 1..R
      <4>1. order[k] \in 1..n
        BY <2>9
      <4> QED BY <2>2, <2>4, <4>1
    <3>3. Was(order, R, r, j) = 2 * order[k]
      BY <2>1, <2>2, <2>8, <2>10, <3>1, <3>2 DEF IsInjective
    <3>4. ~(j > 2 * (n - r))
      BY <2>2, <2>3, <2>4, <3>2, <3>3 DEF Was, n
    <3> DEFINE m == r + ((j + 1) \div 2)
    <3>5. m \in 1..n /\ m > r
      BY <2>2, <2>3, <2>4, <3>4
    <3>6. 2 * order[m] - (j % 2) = 2 * order[k]
      BY <3>3, <3>4 DEF Was, n
    <3> HIDE DEF m
    <3>7. order[m] \in 1..n /\ (j % 2) \in {0, 1}
      <4>1. order[m] \in 1..n
        BY <2>9, <3>5
      <4>2. (j % 2) \in {0, 1}
        OBVIOUS
      <4> QED BY <4>1, <4>2
    <3>8. order[m] = order[k]
      BY <3>2, <3>6, <3>7, Halves
    <3> QED BY <2>9, <3>5, <3>8
  <2>12. ASSUME NEW k \in 1..n, k > r PROVE order[k] \in left
    <3> DEFINE j == 2 * (k - r)
    <3>1. j \in 1..R - 2 * r /\ ~(j > 2 * (n - r)) /\ r + ((j + 1) \div 2) = k /\ (j % 2) = 0
      BY <2>2, <2>3, <2>4, <2>12
    <3> HIDE DEF j
    <3>2. order[k] \in 1..n
      BY <2>9
    <3>3. Was(order, R, r, j) = 2 * order[k]
      BY <3>1, <3>2, <2>4 DEF Was, n
    <3>4. remaining'[j] = remaining[2 * order[k]]
      BY <2>8, <2>10, <3>1, <3>3
    <3> QED BY <2>10, <3>1, <3>2, <3>4
  <2>13. ASSUME NEW i \in left, NEW d \in (1..n) \ left
         PROVE  Similarity(remaining[2*i-1], remaining[2*i]) <= Similarity(remaining[2*d-1], remaining[2*d])
    <3>1. i \in 1..n
      OBVIOUS
    <3>2. PICK k \in 1..n : order[k] = i
      BY <2>9, <3>1
    <3>3. PICK l \in 1..n : order[l] = d
      BY <2>9
    <3>4. k > r /\ ~(l > r)
      BY <2>11, <2>12, <3>2, <3>3
    <3>5. l < k
      BY <2>3, <2>4, <3>4
    <3>6. PairSim(n)[d] >= PairSim(n)[i]
      BY <2>9, <3>2, <3>3, <3>5
    <3>7. ASSUME NEW p \in 1..n
          PROVE  /\ PairSim(n)[p] = Similarity(remaining[2*p-1], remaining[2*p])
                 /\ Similarity(remaining[2*p-1], remaining[2*p]) \in Int
      <4>1. 2*p-1 \in 1..R /\ 2*p \in 1..R
        BY <2>2, <2>4
      <4>2. remaining[2*p-1] \in Tokens /\ remaining[2*p] \in Tokens
        BY <2>1, <2>2, <4>1 DEF TypeOK
      <4>3. view.emb \in [Tokens -> Nat]
        BY <2>1, PrunerAssumption DEF TypeOK
      <4>4. view.emb[remaining[2*p-1]] \in Nat /\ view.emb[remaining[2*p]] \in Nat
        BY <4>2, <4>3
      <4>5. Similarity(remaining[2*p-1], remaining[2*p]) \in Int
        BY <4>4 DEF Similarity
      <4> QED BY <4>5 DEF PairSim
    <3> QED BY <3>1, <3>6, <3>7
  <2> QED BY <2>13 DEF LeastSimilarStay, R, n
<1>2. Inv /\ [Next]_vars => [LeastSimilarStay]_vars
  BY <1>1 DEF LeastSimilarStay
<1> QED BY <1>2, PrunerInvariance, PTL DEF Spec, DropsMostSimilar
=============================================================================
