------------------------- MODULE ResultsStoreProofs -------------------------
(***************************************************************************)
(* Proofs about the results store: every property of ResultsStore, for any *)
(* songs, loadouts, scores, board limit and number of stores.              *)
(*                                                                         *)
(* A merge is a new set of rows, then two boards and the rows they keep.   *)
(* The proof follows it: what SetMax and the top of a finite total order   *)
(* are; what one result does to its row; what a merge does before its      *)
(* boards (the table U); what a board keeps of U; and what the rows then   *)
(* say of all the results ever given, which they forgot.                   *)
(*                                                                         *)
(* MetaBoardIsTheTop alone is not inductive: a row that falls off the meta *)
(* board may stay on the FG board and come back.  TopOf adds why it does   *)
(* not matter: what is forgotten, or off the board, is no better than any  *)
(* row of a full board, and a full board of scores as good stays one.      *)
(***************************************************************************)
EXTENDS ResultsStore, FiniteSetTheorems, TLAPS

-----------------------------------------------------------------------------
(* Finite sets and their greatest elements.                                *)

\* An induction over the finite subsets of a finite set: a set of them that is not
\* empty has one none of whose proper subsets is in it.
LEMMA SmallestSubset ==
  ASSUME NEW S, IsFiniteSet(S), NEW T, T \subseteq SUBSET S, T # {}
  PROVE  \E U \in T : \A V \in T : ~(V \subseteq U /\ V # U)
<1>1. IsWellFoundedOn(StrictSubsetOrdering(S), FiniteSubsetsOf(S))
  BY FS_StrictSubsetOrderingWellFounded
<1>2. T \subseteq FiniteSubsetsOf(S)
  BY FS_FiniteSubsetsOfFinite
<1>3. \E U \in T : \A V \in T : ~(<<V, U>> \in StrictSubsetOrdering(S))
  BY <1>1, <1>2, WFMin
<1>4. \A U, V \in T : <<V, U>> \in StrictSubsetOrdering(S) <=> V \subseteq U /\ V # U
  BY DEF StrictSubsetOrdering
<1> QED
  BY <1>3, <1>4

\* Finitely many numbers have a greatest one: take the smallest subset without one away.
LEMMA MaxExists ==
  ASSUME NEW S, IsFiniteSet(S), S \subseteq Nat, S # {}
  PROVE  \E x \in S : \A y \in S : x >= y
<1> DEFINE HasMax(U) == \E x \in U : \A y \in U : x >= y
           T == {U \in SUBSET S : U # {} /\ ~HasMax(U)}
<1> SUFFICES ASSUME T # {} PROVE FALSE
  OBVIOUS
<1>0. \E U \in T : \A V \in T : ~(V \subseteq U /\ V # U)
  <2>1. T \subseteq SUBSET S
    OBVIOUS
  <2> HIDE DEF T
  <2>2. T # {} /\ IsFiniteSet(S)
    OBVIOUS
  <2> QED
    BY ONLY <2>1, <2>2, SmallestSubset
<1>1. PICK U \in T : \A V \in T : ~(V \subseteq U /\ V # U)
  BY <1>0
<1>2. PICK x \in U : TRUE
  BY <1>1
<1>3. U \ {x} \notin T /\ U \ {x} \in SUBSET S /\ U \subseteq Nat
  BY <1>1, <1>2
<1>4. CASE U \ {x} = {}
  BY <1>1, <1>2, <1>3, <1>4
<1>5. CASE HasMax(U \ {x})
  <2>1. PICK m \in U \ {x} : \A y \in U \ {x} : m >= y
    BY <1>5
  <2>2. CASE m >= x
    <3>1. \A y \in U : m >= y
      BY <2>1, <2>2
    <3> QED
      BY <1>1, <2>1, <3>1
  <2>3. CASE x >= m
    <3>1. \A y \in U : x >= y
      BY <1>2, <1>3, <2>1, <2>3
    <3> QED
      BY <1>1, <1>2, <3>1
  <2> QED
    BY <1>2, <1>3, <2>1, <2>2, <2>3
<1> QED
  BY <1>3, <1>4, <1>5

\* SetMax, of a finite set of numbers.
LEMMA SetMaxFacts ==
  ASSUME NEW S, IsFiniteSet(S), S \subseteq Nat, S # {}
  PROVE  SetMax(S) \in S /\ \A y \in S : SetMax(S) >= y
  BY MaxExists DEF SetMax

\* And of two.
LEMMA SetMaxTwo ==
  ASSUME NEW a \in Nat, NEW b \in Nat
  PROVE  SetMax({a, b}) \in {a, b} /\ SetMax({a, b}) >= a /\ SetMax({a, b}) >= b
<1>1. IsFiniteSet({a, b})
  <2>1. IsFiniteSet({a}) /\ IsFiniteSet({a} \cup {b})
    BY FS_Singleton, FS_AddElement
  <2> QED
    BY <2>1
<1> QED
  BY <1>1, SetMaxFacts

-----------------------------------------------------------------------------
(* The top of a finite set under an order.                                 *)

\* B is a total order of C, the pairs <<x, y>> with x ahead of y; who is ahead of r; the first n.
Ranks(C, B) ==
    /\ \A x \in C : <<x, x>> \notin B
    /\ \A x, y \in C : x # y => <<x, y>> \in B \/ <<y, x>> \in B
    /\ \A x, y, z \in C : <<x, y>> \in B /\ <<y, z>> \in B => <<x, z>> \in B
AheadOf(C, B, r) == {x \in C : <<x, r>> \in B}
Top(C, B, n) == {r \in C : Cardinality(AheadOf(C, B, r)) < n}

\* Somebody comes last.
LEMMA LastExists ==
  ASSUME NEW C, IsFiniteSet(C), C # {}, NEW B, Ranks(C, B)
  PROVE  \E m \in C : \A x \in C \ {m} : <<x, m>> \in B
<1> DEFINE HasLast(U) == \E m \in U : \A x \in U \ {m} : <<x, m>> \in B
           T == {U \in SUBSET C : U # {} /\ ~HasLast(U)}
<1> SUFFICES ASSUME T # {} PROVE FALSE
  OBVIOUS
<1>0. \E U \in T : \A V \in T : ~(V \subseteq U /\ V # U)
  <2>1. T \subseteq SUBSET C
    OBVIOUS
  <2> HIDE DEF T
  <2>2. T # {} /\ IsFiniteSet(C)
    OBVIOUS
  <2> QED
    BY ONLY <2>1, <2>2, SmallestSubset
<1>1. PICK U \in T : \A V \in T : ~(V \subseteq U /\ V # U)
  BY <1>0
<1>2. PICK x \in U : TRUE
  BY <1>1
<1>3. U \ {x} \notin T /\ U \ {x} \in SUBSET C
  BY <1>1, <1>2
<1>4. CASE U \ {x} = {}
  BY <1>1, <1>2, <1>3, <1>4
<1>5. CASE HasLast(U \ {x})
  <2>1. PICK m \in U \ {x} : \A y \in (U \ {x}) \ {m} : <<y, m>> \in B
    BY <1>5
  <2>2. CASE <<x, m>> \in B
    <3>1. \A y \in U \ {m} : <<y, m>> \in B
      BY <2>1, <2>2
    <3> QED
      BY <1>1, <2>1, <3>1
  <2>3. CASE <<m, x>> \in B
    <3>1. \A y \in U \ {x} : <<y, x>> \in B
      BY <1>1, <1>2, <2>1, <2>3 DEF Ranks
    <3> QED
      BY <1>1, <1>2, <3>1
  <2> QED
    BY <1>1, <1>2, <2>1, <2>2, <2>3 DEF Ranks
<1> QED
  BY <1>3, <1>4, <1>5

\* The top has as many elements as it may.
LEMMA TopSize ==
  ASSUME NEW C, IsFiniteSet(C), NEW B, Ranks(C, B), NEW n \in Nat
  PROVE  Cardinality(Top(C, B, n)) = IF Cardinality(C) < n THEN Cardinality(C) ELSE n
<1> DEFINE Right(U) == Cardinality(Top(U, B, n)) = IF Cardinality(U) < n THEN Cardinality(U) ELSE n
           T == {U \in SUBSET C : ~Right(U)}
<1> HIDE DEF Right
<1> SUFFICES ASSUME T # {} PROVE FALSE
  BY DEF Right
<1>0. \E U \in T : \A V \in T : ~(V \subseteq U /\ V # U)
  <2>1. T \subseteq SUBSET C
    OBVIOUS
  <2> HIDE DEF T
  <2>2. T # {} /\ IsFiniteSet(C)
    OBVIOUS
  <2> QED
    BY ONLY <2>1, <2>2, SmallestSubset
<1>1. PICK U \in T : \A V \in T : ~(V \subseteq U /\ V # U)
  BY <1>0
<1>2. U \subseteq C /\ IsFiniteSet(U) /\ ~Right(U) /\ Ranks(U, B) /\ Cardinality(U) \in Nat
  BY <1>1, FS_Subset, FS_CardinalityType DEF Ranks
<1>3. U # {}
  <2>1. ASSUME U = {} PROVE Right(U)
    <3>1. Top(U, B, n) = {}
      BY <2>1 DEF Top
    <3> QED
      BY <2>1, <3>1, FS_EmptySet DEF Right
  <2> QED
    BY <1>2, <2>1
<1>4. PICK m \in U : \A x \in U \ {m} : <<x, m>> \in B
  BY <1>2, <1>3, LastExists
<1> DEFINE V == U \ {m}
<1>5. Right(V) /\ IsFiniteSet(V) /\ Cardinality(V) = Cardinality(U) - 1 /\ Cardinality(V) \in Nat
  <2>1. V \subseteq U /\ V # U /\ V \in SUBSET C
    BY <1>2, <1>4
  <2>2. IsFiniteSet(V) /\ Cardinality(V) = Cardinality(U) - 1
    BY <1>2, <1>4, FS_RemoveElement
  <2> QED
    BY <1>1, <2>1, <2>2, FS_CardinalityType
<1>6. \A r \in V : AheadOf(U, B, r) = AheadOf(V, B, r)
  BY <1>2, <1>4 DEF AheadOf, Ranks
<1>7. AheadOf(U, B, m) = V
  BY <1>2, <1>4 DEF AheadOf, Ranks
<1>8. Top(U, B, n) = IF Cardinality(V) < n THEN Top(V, B, n) \cup {m} ELSE Top(V, B, n)
  <2>1. \A r \in V : r \in Top(U, B, n) <=> r \in Top(V, B, n)
    BY <1>6 DEF Top
  <2>2. m \in Top(U, B, n) <=> Cardinality(V) < n
    BY <1>4, <1>7 DEF Top
  <2>3. Top(U, B, n) \subseteq V \cup {m} /\ Top(V, B, n) \subseteq V
    BY DEF Top
  <2> HIDE DEF V
  <2> QED
    BY <2>1, <2>2, <2>3
<1>9. m \notin Top(V, B, n) /\ IsFiniteSet(Top(V, B, n))
  BY <1>5, FS_Subset DEF Top
<1>10. Cardinality(Top(V, B, n) \cup {m}) = Cardinality(Top(V, B, n)) + 1
  BY <1>9, FS_AddElement
<1>11. Right(U)
  BY <1>5, <1>8, <1>10, <1>2 DEF Right
<1> QED
  BY <1>2, <1>11

\* Who is in the top comes before who is not, and the first is in it.
LEMMA TopFacts ==
  ASSUME NEW C, IsFiniteSet(C), NEW B, Ranks(C, B), NEW n \in Nat \ {0}
  PROVE  /\ \A r \in Top(C, B, n), q \in C \ Top(C, B, n) : <<r, q>> \in B
         /\ C # {} => \E t \in Top(C, B, n) : \A q \in C \ {t} : <<t, q>> \in B
         /\ IsFiniteSet(Top(C, B, n)) /\ Cardinality(Top(C, B, n)) <= n
         /\ Top(C, B, n) # C => Cardinality(Top(C, B, n)) = n
         /\ Cardinality(C) >= n => Cardinality(Top(C, B, n)) = n
<1>1. \A r \in C : IsFiniteSet(AheadOf(C, B, r)) /\ Cardinality(AheadOf(C, B, r)) \in Nat
  <2>1. \A r \in C : AheadOf(C, B, r) \in SUBSET C
    BY DEF AheadOf
  <2> QED
    BY <2>1, FS_Subset, FS_CardinalityType
<1>2. ASSUME NEW r \in Top(C, B, n), NEW q \in C \ Top(C, B, n) PROVE <<r, q>> \in B
  <2>1. SUFFICES ASSUME <<q, r>> \in B PROVE FALSE
    BY DEF Ranks, Top
  <2>2. AheadOf(C, B, q) \in SUBSET AheadOf(C, B, r)
    BY <2>1 DEF AheadOf, Ranks, Top
  <2>3. Cardinality(AheadOf(C, B, q)) <= Cardinality(AheadOf(C, B, r)) /\ r \in C
    BY <1>1, <2>2, FS_Subset DEF Top
  <2> QED
    BY <1>1, <2>3 DEF Top
<1>3. IsFiniteSet(Top(C, B, n)) /\ (Cardinality(Top(C, B, n)) = Cardinality(C) => Top(C, B, n) = C)
  <2>1. Top(C, B, n) \in SUBSET C
    BY DEF Top
  <2> QED
    BY <2>1, FS_Subset
<1>4. /\ Cardinality(Top(C, B, n)) = IF Cardinality(C) < n THEN Cardinality(C) ELSE n
      /\ Cardinality(C) \in Nat
  BY TopSize, FS_CardinalityType
<1>5. ASSUME C # {} PROVE \E t \in Top(C, B, n) : \A q \in C \ {t} : <<t, q>> \in B
  <2> DEFINE R == {p \in C \X C : <<p[2], p[1]>> \in B}
  <2>1. Ranks(C, R)
    <3>1. \A x, y \in C : <<x, y>> \in R <=> <<y, x>> \in B
      OBVIOUS
    <3> HIDE DEF R
    <3> QED
      BY <3>1 DEF Ranks
  <2>2. PICK t \in C : \A x \in C \ {t} : <<x, t>> \in R
    BY <1>5, <2>1, LastExists
  <2>3. \A x \in C \ {t} : <<t, x>> \in B
    BY <2>2
  <2>4. AheadOf(C, B, t) = {}
    BY <2>3 DEF AheadOf, Ranks
  <2>5. t \in Top(C, B, n)
    BY <2>4, FS_EmptySet DEF Top
  <2> QED
    BY <2>3, <2>5
<1> QED
  BY <1>2, <1>3, <1>4, <1>5

-----------------------------------------------------------------------------
(* Rows and results.                                                       *)

\* A row as a table keeps it: of the right type, its scores those its results replay to; a row
\* without a meta result has an FG result above its base score.
Stored(r) ==
    /\ r \in Row
    /\ r.meta # 0 => r.score = r.metaOf
    /\ r.fg # 0 => r.fgScore = r.fgOf /\ r.fgScore # 0
    /\ r.meta = 0 => r.fg # 0 /\ r.fgScore > r.score
OnePerHash(table) == \A r, q \in table : r.hash = q.hash => r = q
Table(table) == IsFiniteSet(table) /\ OnePerHash(table) /\ \A r \in table : Stored(r)
Flags(table) ==
    \A r \in table : /\ r.onMeta \/ r.onFg
                     /\ r.onMeta => r.meta # 0
                     /\ r.onFg => r.fg # 0 /\ r.fgScore > r.score

\* What a store may be given of a loadout: an FG result alone is above its base score.
GivenOK(a) ==
    /\ a.hash \in Hashes /\ a.score \in Scores /\ a.fgScore \in FgScores \cup {0}
    /\ a.meta \in BOOLEAN /\ a.fg \in BOOLEAN
    /\ a.fg => a.fgScore # 0
    /\ ~a.meta => a.fg /\ a.fgScore > a.score
ResultsOK(results) ==
    /\ IsFiniteSet(DOMAIN results) /\ DOMAIN results \subseteq Nat
    /\ \A i \in DOMAIN results : GivenOK(results[i])
    /\ Distinct(results)

\* The steps of a merge, named.
TakingMeta(table, results) == {i \in DOMAIN results : results[i].meta /\ RowOf(table, results[i].hash).meta = 0}
TakingFg(table, results) == {i \in DOMAIN results : results[i].fg /\ RowOf(table, results[i].hash).fg = 0}
WithMeta(row, a, number) == IF a.meta THEN MergeMeta(row, a, number) ELSE row
WithFg(row, a, number) == IF a.fg THEN MergeFg(row, a, number) ELSE row
MergedRow(table, results, nextMeta, nextFg, i) ==
    WithFg(WithMeta(RowOf(table, results[i].hash), results[i], Number(nextMeta, TakingMeta(table, results), i)),
           results[i], Number(nextFg, TakingFg(table, results), i))
Untouched(table, results) == {r \in table : r.hash \notin {results[i].hash : i \in DOMAIN results}}
Unordered(table, results, nextMeta, nextFg) ==
    Untouched(table, results) \cup {MergedRow(table, results, nextMeta, nextFg, i) : i \in DOMAIN results}

\* A merge, by the names of its steps.
LEMMA MergeIs ==
  \A table, results, nextMeta, nextFg :
      Merge(table, results, nextMeta, nextFg) = Normalize(Unordered(table, results, nextMeta, nextFg))
  BY DEF Merge, Unordered, Untouched, MergedRow, WithMeta, WithFg, TakingMeta, TakingFg

\* NextNumber, side by side.
LEMMA NextIs == \A db, s :
    /\ NextNumber(db, s, "meta") = 1 + SetMax({0} \cup {r.meta : r \in UNION {db[t] : t \in Songs}})
    /\ NextNumber(db, s, "fg") = 1 + SetMax({0} \cup {r.fg : r \in UNION {db[t] : t \in Songs}})
  BY DEF NextNumber

\* The fields of a blank row.
LEMMA BlankFacts == \A h :
    /\ Blank(h).hash = h /\ Blank(h).score = 0 /\ Blank(h).fgScore = 0 /\ Blank(h).meta = 0 /\ Blank(h).metaOf = 0
    /\ Blank(h).fg = 0 /\ Blank(h).fgOf = 0 /\ Blank(h).onMeta = FALSE /\ Blank(h).onFg = FALSE
  BY DEF Blank

\* The row of a loadout: the only one a table has of it, or a blank one.
LEMMA RowOfFacts ==
  ASSUME NEW M, OnePerHash(M), NEW h
  PROVE  /\ RowOf(M, h).hash = h
         /\ RowOf(M, h) \in M \/ (RowOf(M, h) = Blank(h) /\ \A r \in M : r.hash # h)
         /\ \A r \in M : r.hash = h => RowOf(M, h) = r
<1>1. CASE \E r \in M : r.hash = h
  <2>1. RowOf(M, h) \in M /\ RowOf(M, h).hash = h
    BY <1>1 DEF RowOf
  <2> QED
    BY <2>1 DEF OnePerHash
<1>2. CASE \A r \in M : r.hash # h
  BY <1>2, BlankFacts DEF RowOf
<1> QED
  BY <1>1, <1>2

\* A row, or the blank of a loadout that has none.
Shape == [hash : Hashes, score : Scores \cup {0}, fgScore : FgScores \cup {0}, meta : Nat, metaOf : Scores \cup {0},
          fg : Nat, fgOf : FgScores \cup {0}, onMeta : BOOLEAN, onFg : BOOLEAN]

\* Scores are numbers, and a base score is not 0.
LEMMA ScoreFacts ==
  /\ \A x \in Scores : x \in Nat \ {0}
  /\ \A x \in Scores \cup {0} : x \in Nat
  /\ \A x \in FgScores \cup {0} : x \in Nat
  BY ScoresAssumption

\* A stored row has the shape, and a row of the shape that has a base score is one a table keeps.
LEMMA ShapeFacts ==
  /\ \A h \in Hashes : Blank(h) \in Shape
  /\ \A r \in Row : r \in Shape
  /\ \A r \in Shape : r.score \in Scores => r \in Row
<1>1. \A h \in Hashes : Blank(h) \in Shape
  BY DEF Blank, Shape
<1>2. \A r \in Row : r \in Shape
  BY DEF Row, Shape
<1>3. \A r \in Shape : r.score \in Scores => r \in Row
  BY DEF Row, Shape
<1> QED
  BY <1>1, <1>2, <1>3

\* The meta side: a first result is stored under the number, a better one under the number it has.
LEMMA MetaSideFacts ==
  ASSUME NEW old \in Shape, NEW a, GivenOK(a), NEW n \in Nat \ {0}, NEW w, w = WithMeta(old, a, n)
  PROVE  /\ w \in Shape
         /\ w.hash = old.hash /\ w.fg = old.fg /\ w.fgOf = old.fgOf
         /\ old.fg # 0 => w.fgScore = old.fgScore
         /\ ~a.meta => w = old
         /\ a.meta => w.meta = IF old.meta = 0 THEN n ELSE old.meta
         /\ a.meta => \/ old.meta # 0 /\ a.score <= old.score /\ w.score = old.score /\ w.metaOf = old.metaOf
                      \/ w.score = a.score /\ w.metaOf = a.score /\ (old.meta # 0 => a.score > old.score)
<1> DEFINE f == IF old.meta = 0 THEN 0 ELSE old.fgScore
           seen == SetMax({f, a.fgScore})
           shown == [old EXCEPT !.fgScore = IF old.fg # 0 THEN @ ELSE seen]
<1>1. seen \in FgScores \cup {0}
  <2>1. f \in FgScores \cup {0} /\ a.fgScore \in FgScores \cup {0}
    BY DEF Shape, GivenOK
  <2>2. seen \in {f, a.fgScore}
    BY <2>1, SetMaxTwo, ScoresAssumption
  <2> QED
    BY <2>1, <2>2
<1>2. ~a.meta => w = old
  BY DEF WithMeta
<1>3. a.meta => w = IF old.meta # 0 /\ a.score <= old.score THEN shown
                    ELSE [shown EXCEPT !.score = a.score, !.metaOf = a.score, !.meta = IF @ = 0 THEN n ELSE @]
  BY DEF WithMeta, MergeMeta
<1> HIDE DEF seen
<1>4. /\ shown \in Shape /\ shown.hash = old.hash /\ shown.fg = old.fg /\ shown.fgOf = old.fgOf
      /\ shown.score = old.score /\ shown.meta = old.meta /\ shown.metaOf = old.metaOf
      /\ old.fg # 0 => shown.fgScore = old.fgScore
  BY <1>1 DEF Shape
<1> HIDE DEF shown
<1>5. a.score \in Scores
  BY DEF GivenOK
<1>6. CASE a.meta /\ old.meta # 0 /\ a.score <= old.score
  BY <1>3, <1>4, <1>6
<1>7. CASE a.meta /\ ~(old.meta # 0 /\ a.score <= old.score)
  <2>1. w = [shown EXCEPT !.score = a.score, !.metaOf = a.score, !.meta = IF old.meta = 0 THEN n ELSE old.meta]
    BY <1>3, <1>4, <1>7
  <2>2. w \in Shape
    BY <1>4, <1>5, <2>1 DEF Shape
  <2>3. /\ w.score = a.score /\ w.metaOf = a.score /\ w.meta = IF old.meta = 0 THEN n ELSE old.meta
        /\ w.hash = shown.hash /\ w.fg = shown.fg /\ w.fgOf = shown.fgOf /\ w.fgScore = shown.fgScore
    BY <1>4, <2>1 DEF Shape
  <2>4. a.score \in Nat /\ old.score \in Nat
    BY <1>5, ScoreFacts DEF Shape
  <2>5. old.meta # 0 => a.score > old.score
    BY <1>7, <2>4
  <2> QED
    BY <1>4, <1>7, <2>2, <2>3, <2>5
<1>8. CASE ~a.meta
  BY <1>2, <1>8
<1> QED
  BY <1>6, <1>7, <1>8

\* The FG side: a first result is stored under the number, an equal or better one under the number it has.
LEMMA FgSideFacts ==
  ASSUME NEW w \in Shape, NEW a, GivenOK(a), NEW n \in Nat \ {0}, NEW m, m = WithFg(w, a, n)
  PROVE  /\ m \in Shape
         /\ m.hash = w.hash /\ m.meta = w.meta /\ m.metaOf = w.metaOf
         /\ w.meta # 0 => m.score = w.score
         /\ ~a.fg => m = w
         /\ a.fg => m.fg = IF w.fg = 0 THEN n ELSE w.fg
         /\ a.fg => \/ w.fg # 0 /\ a.fgScore < w.fgScore /\ m = w
                    \/ /\ m.fgScore = a.fgScore /\ m.fgOf = a.fgScore /\ (w.fg # 0 => a.fgScore >= w.fgScore)
                       /\ w.meta = 0 => m.score = a.score
<1>1. a.score \in Scores /\ a.fgScore \in FgScores \cup {0} /\ a.fg \in BOOLEAN
  BY DEF GivenOK
<1>2. CASE ~a.fg \/ (w.fg # 0 /\ a.fgScore < w.fgScore)
  <2>1. m = w
    BY <1>2 DEF WithFg, MergeFg
  <2> QED
    BY <1>2, <2>1
<1>3. CASE a.fg /\ ~(w.fg # 0 /\ a.fgScore < w.fgScore)
  <2>1. m = [w EXCEPT !.score = IF w.meta = 0 THEN a.score ELSE w.score, !.fgScore = a.fgScore, !.fgOf = a.fgScore,
                      !.fg = IF w.fg = 0 THEN n ELSE w.fg]
    BY <1>3 DEF WithFg, MergeFg
  <2>2. m \in Shape
    BY <1>1, <2>1 DEF Shape
  <2>3. /\ m.hash = w.hash /\ m.meta = w.meta /\ m.metaOf = w.metaOf /\ m.score = (IF w.meta = 0 THEN a.score ELSE w.score)
        /\ m.fgScore = a.fgScore /\ m.fgOf = a.fgScore /\ m.fg = IF w.fg = 0 THEN n ELSE w.fg
    BY <2>1 DEF Shape
  <2>4. a.fgScore \in Nat /\ w.fgScore \in Nat
    BY <1>1, ScoreFacts DEF Shape
  <2>5. w.fg # 0 => a.fgScore >= w.fgScore
    BY <1>3, <2>4
  <2> QED
    BY <1>3, <2>2, <2>3, <2>5
<1> QED
  BY <1>1, <1>2, <1>3

\* Both sides of one result: the row stays as a table keeps it, its numbers and its scores never fall.
LEMMA MergedFacts ==
  ASSUME NEW old, NEW a, GivenOK(a), old.hash = a.hash, Stored(old) \/ old = Blank(a.hash),
         NEW n1 \in Nat \ {0}, NEW n2 \in Nat \ {0}, NEW m, m = WithFg(WithMeta(old, a, n1), a, n2)
  PROVE  /\ Stored(m) /\ m.hash = a.hash
         /\ m.meta = IF a.meta /\ old.meta = 0 THEN n1 ELSE old.meta
         /\ m.fg = IF a.fg /\ old.fg = 0 THEN n2 ELSE old.fg
         /\ old.meta # 0 => m.score >= old.score
         /\ a.meta => m.score >= a.score /\ (m.score = a.score \/ (old.meta # 0 /\ m.score = old.score))
         /\ ~a.meta /\ old.meta # 0 => m.score = old.score
         /\ old.fg # 0 => m.fgScore >= old.fgScore
<1> DEFINE w == WithMeta(old, a, n1)
<1>1. old \in Shape /\ (old.meta # 0 => old.score = old.metaOf) /\ (old.fg # 0 => old.fgScore = old.fgOf /\ old.fgScore # 0)
  BY ShapeFacts, BlankFacts DEF Stored, GivenOK
<1>2. /\ w \in Shape
      /\ w.hash = old.hash /\ w.fg = old.fg /\ w.fgOf = old.fgOf
      /\ old.fg # 0 => w.fgScore = old.fgScore
      /\ ~a.meta => w = old
      /\ a.meta => w.meta = IF old.meta = 0 THEN n1 ELSE old.meta
      /\ a.meta => \/ old.meta # 0 /\ a.score <= old.score /\ w.score = old.score /\ w.metaOf = old.metaOf
                   \/ w.score = a.score /\ w.metaOf = a.score /\ (old.meta # 0 => a.score > old.score)
  BY <1>1, MetaSideFacts
<1> HIDE DEF w
<1>3. /\ m \in Shape
      /\ m.hash = w.hash /\ m.meta = w.meta /\ m.metaOf = w.metaOf
      /\ w.meta # 0 => m.score = w.score
      /\ ~a.fg => m = w
      /\ a.fg => m.fg = IF w.fg = 0 THEN n2 ELSE w.fg
      /\ a.fg => \/ w.fg # 0 /\ a.fgScore < w.fgScore /\ m = w
                 \/ /\ m.fgScore = a.fgScore /\ m.fgOf = a.fgScore /\ (w.fg # 0 => a.fgScore >= w.fgScore)
                    /\ w.meta = 0 => m.score = a.score
  BY <1>2, FgSideFacts DEF w
<1>4. /\ a.score \in Nat \ {0} /\ a.fgScore \in Nat /\ a.score \in Scores /\ old.score \in Nat /\ old.fgScore \in Nat
      /\ w.score \in Nat /\ w.fgScore \in Nat /\ m.score \in Nat /\ m.fgScore \in Nat
      /\ a.fg \in BOOLEAN /\ a.meta \in BOOLEAN /\ (a.fg => a.fgScore # 0) /\ (~a.meta => a.fg /\ a.fgScore > a.score)
      /\ old.meta \in Nat /\ old.fg \in Nat /\ w.meta \in Nat
  <2>1. a.score \in Nat \ {0} /\ a.fgScore \in Nat /\ a.score \in Scores
    BY ScoreFacts DEF GivenOK
  <2>2. \A r \in Shape : r.score \in Nat /\ r.fgScore \in Nat /\ r.meta \in Nat /\ r.fg \in Nat
    <3>1. Scores \cup {0} \subseteq Nat /\ FgScores \cup {0} \subseteq Nat
      BY ScoresAssumption
    <3> QED
      BY <3>1 DEF Shape
  <2>3. a.fg \in BOOLEAN /\ a.meta \in BOOLEAN /\ (a.fg => a.fgScore # 0) /\ (~a.meta => a.fg /\ a.fgScore > a.score)
    BY DEF GivenOK
  <2> QED
    BY <1>1, <1>2, <1>3, <2>1, <2>2, <2>3
<1>5. m.meta = (IF a.meta /\ old.meta = 0 THEN n1 ELSE old.meta) /\ m.fg = (IF a.fg /\ old.fg = 0 THEN n2 ELSE old.fg)
  BY <1>2, <1>3, <1>4
<1>6. /\ old.meta # 0 => m.score >= old.score
      /\ a.meta => m.score >= a.score /\ (m.score = a.score \/ (old.meta # 0 /\ m.score = old.score))
      /\ ~a.meta /\ old.meta # 0 => m.score = old.score
  BY <1>2, <1>3, <1>4
<1>7. old.fg # 0 => m.fgScore >= old.fgScore
  BY <1>2, <1>3, <1>4
<1>8. (m.meta # 0 => m.score = m.metaOf) /\ (m.fg # 0 => m.fgScore = m.fgOf /\ m.fgScore # 0)
  BY <1>1, <1>2, <1>3, <1>4
<1>9. m.score \in Scores
  <2>1. old = Blank(a.hash) => old.meta = 0 /\ old.fg = 0
    BY BlankFacts
  <2>2. Stored(old) => old.score \in Scores
    BY DEF Stored, Row
  <2> QED
    BY <1>2, <1>3, <1>4, <2>1, <2>2
<1>10. m.meta = 0 => m.fg # 0 /\ m.fgScore > m.score
  <2>1. Stored(old) /\ old.meta = 0 => old.fg # 0 /\ old.fgScore > old.score
    BY DEF Stored
  <2>2. old = Blank(a.hash) => old.meta = 0 /\ old.fg = 0
    BY BlankFacts
  <2>3. m.meta = 0 => ~a.meta /\ old.meta = 0 /\ a.fg /\ a.fgScore > a.score /\ w = old
    BY <1>2, <1>3, <1>4
  <2> QED
    BY <1>3, <1>4, <2>1, <2>2, <2>3
<1> QED
  BY <1>2, <1>3, <1>5, <1>6, <1>7, <1>8, <1>9, <1>10, ShapeFacts DEF Stored

-----------------------------------------------------------------------------
\* The numbers given out are new, and different ones.
LEMMA NumberFacts ==
  ASSUME NEW n \in Nat \ {0}, NEW taking, IsFiniteSet(taking), taking \subseteq Nat
  PROVE  /\ \A i \in Nat : Number(n, taking, i) \in Nat \ {0} /\ Number(n, taking, i) >= n
         /\ \A i, j \in taking : i # j => Number(n, taking, i) # Number(n, taking, j)
<1> DEFINE Before(i) == {j \in taking : j < i}
<1>1. \A i : IsFiniteSet(Before(i)) /\ Cardinality(Before(i)) \in Nat
  <2>1. \A i : Before(i) \in SUBSET taking
    OBVIOUS
  <2> QED
    BY <2>1, FS_Subset, FS_CardinalityType
<1>2. ASSUME NEW i \in taking, NEW j \in taking, i < j PROVE Cardinality(Before(i)) < Cardinality(Before(j))
  <2>0. i \in Nat /\ j \in Nat
    OBVIOUS
  <2>1. i \in Before(j) /\ i \notin Before(i) /\ Before(i) \in SUBSET Before(j)
    <3>1. \A k \in taking : k < i => k < j
      BY <1>2, <2>0
    <3>2. i \in Before(j) /\ i \notin Before(i)
      BY <1>2, <2>0
    <3>3. Before(i) \subseteq Before(j)
      BY <3>1
    <3> QED
      BY <3>2, <3>3
  <2>2. Cardinality(Before(i)) <= Cardinality(Before(j)) /\ Cardinality(Before(i)) # Cardinality(Before(j))
    BY <1>1, <2>1, FS_Subset
  <2> QED
    BY <1>1, <2>2
<1>3. \A i : Number(n, taking, i) = n + Cardinality(Before(i))
  BY DEF Number
<1> HIDE DEF Before
<1>4. ASSUME NEW i \in taking, NEW j \in taking, i # j PROVE Number(n, taking, i) # Number(n, taking, j)
  <2>1. i < j \/ j < i
    BY <1>4
  <2> QED
    BY <1>1, <1>2, <1>3, <2>1
<1> QED
  BY <1>1, <1>3, <1>4

-----------------------------------------------------------------------------
(* A merge, before its boards.                                             *)

\* The row of each result.
LEMMA MergedRowFacts ==
  ASSUME NEW M, Table(M), NEW results, ResultsOK(results), NEW nm \in Nat \ {0}, NEW nf \in Nat \ {0},
         NEW i \in DOMAIN results, NEW old, old = RowOf(M, results[i].hash),
         NEW m, m = MergedRow(M, results, nm, nf, i)
  PROVE  /\ GivenOK(results[i])
         /\ old \in M \/ (old = Blank(results[i].hash) /\ \A r \in M : r.hash # results[i].hash)
         /\ \A r \in M : r.hash = results[i].hash => old = r
         /\ Stored(m) /\ m.hash = results[i].hash
         /\ m.meta = IF i \in TakingMeta(M, results) THEN Number(nm, TakingMeta(M, results), i) ELSE old.meta
         /\ m.fg = IF i \in TakingFg(M, results) THEN Number(nf, TakingFg(M, results), i) ELSE old.fg
         /\ i \in TakingMeta(M, results) => old.meta = 0
         /\ i \in TakingFg(M, results) => old.fg = 0
         /\ results[i].meta => m.meta # 0
         /\ old.meta # 0 => m.score >= old.score
         /\ results[i].meta => /\ m.score >= results[i].score
                               /\ m.score = results[i].score \/ (old.meta # 0 /\ m.score = old.score)
         /\ ~results[i].meta /\ old.meta # 0 => m.score = old.score
         /\ old.fg # 0 => m.fgScore >= old.fgScore
<1> DEFINE a == results[i]
           n1 == Number(nm, TakingMeta(M, results), i)
           n2 == Number(nf, TakingFg(M, results), i)
<1>1. GivenOK(a)
  BY DEF ResultsOK
<1>2. /\ old.hash = a.hash
      /\ old \in M \/ (old = Blank(a.hash) /\ \A r \in M : r.hash # a.hash)
      /\ \A r \in M : r.hash = a.hash => old = r
  BY RowOfFacts DEF Table
<1>3. Stored(old) \/ old = Blank(a.hash)
  BY <1>2 DEF Table
<1>4. n1 \in Nat \ {0} /\ n2 \in Nat \ {0}
  <2>1. TakingMeta(M, results) \in SUBSET DOMAIN results /\ TakingFg(M, results) \in SUBSET DOMAIN results
    BY DEF TakingMeta, TakingFg
  <2>2. /\ IsFiniteSet(TakingMeta(M, results)) /\ TakingMeta(M, results) \subseteq Nat
        /\ IsFiniteSet(TakingFg(M, results)) /\ TakingFg(M, results) \subseteq Nat /\ i \in Nat
    BY <2>1, FS_Subset DEF ResultsOK
  <2> QED
    BY <2>2, NumberFacts
<1>5. i \in TakingMeta(M, results) <=> a.meta /\ old.meta = 0
  BY DEF TakingMeta
<1>6. i \in TakingFg(M, results) <=> a.fg /\ old.fg = 0
  BY DEF TakingFg
<1>7. m = WithFg(WithMeta(old, a, n1), a, n2)
  BY DEF MergedRow
<1> HIDE DEF a, n1, n2
<1>8. /\ Stored(m) /\ m.hash = a.hash
      /\ m.meta = IF a.meta /\ old.meta = 0 THEN n1 ELSE old.meta
      /\ m.fg = IF a.fg /\ old.fg = 0 THEN n2 ELSE old.fg
      /\ old.meta # 0 => m.score >= old.score
      /\ a.meta => m.score >= a.score /\ (m.score = a.score \/ (old.meta # 0 /\ m.score = old.score))
      /\ ~a.meta /\ old.meta # 0 => m.score = old.score
      /\ old.fg # 0 => m.fgScore >= old.fgScore
  BY <1>1, <1>2, <1>3, <1>4, <1>7, MergedFacts
<1>9. a.meta => m.meta # 0
  BY <1>4, <1>8
<1> QED
  BY <1>1, <1>2, <1>5, <1>6, <1>8, <1>9 DEF a, n1, n2

\* One row for each loadout, finitely many, each as a table keeps it; no stored result is lost or worse.
LEMMA UnorderedFacts ==
  ASSUME NEW M, Table(M), NEW results, ResultsOK(results), NEW nm \in Nat \ {0}, NEW nf \in Nat \ {0},
         NEW U, U = Unordered(M, results, nm, nf)
  PROVE  /\ Table(U)
         /\ \A r \in M : \E u \in U : /\ u.hash = r.hash
                                      /\ r.meta # 0 => u.meta = r.meta /\ u.score >= r.score
                                      /\ r.fg # 0 => u.fg = r.fg /\ u.fgScore >= r.fgScore
<1> DEFINE D == DOMAIN results
           Row1(i) == MergedRow(M, results, nm, nf, i)
           image == {Row1(i) : i \in D}
<1>1. U = Untouched(M, results) \cup image
  BY DEF Unordered
<1>2. \A r : r \in Untouched(M, results) <=> r \in M /\ \A i \in D : r.hash # results[i].hash
  BY DEF Untouched
<1>3. ASSUME NEW i \in D
      PROVE  /\ Stored(Row1(i)) /\ Row1(i).hash = results[i].hash
             /\ \A r \in M : r.hash = results[i].hash =>
                   /\ r.meta # 0 => Row1(i).meta = r.meta /\ Row1(i).score >= r.score
                   /\ r.fg # 0 => Row1(i).fg = r.fg /\ Row1(i).fgScore >= r.fgScore
  <2> DEFINE old == RowOf(M, results[i].hash)
             m == Row1(i)
  <2>1. /\ \A r \in M : r.hash = results[i].hash => old = r
        /\ Stored(m) /\ m.hash = results[i].hash
        /\ m.meta = IF i \in TakingMeta(M, results) THEN Number(nm, TakingMeta(M, results), i) ELSE old.meta
        /\ m.fg = IF i \in TakingFg(M, results) THEN Number(nf, TakingFg(M, results), i) ELSE old.fg
        /\ i \in TakingMeta(M, results) => old.meta = 0
        /\ i \in TakingFg(M, results) => old.fg = 0
        /\ old.meta # 0 => m.score >= old.score
        /\ old.fg # 0 => m.fgScore >= old.fgScore
    BY MergedRowFacts
  <2> HIDE DEF old, m
  <2>2. \A r \in M : r.hash = results[i].hash =>
                   /\ r.meta # 0 => m.meta = r.meta /\ m.score >= r.score
                   /\ r.fg # 0 => m.fg = r.fg /\ m.fgScore >= r.fgScore
    BY <2>1
  <2> QED
    BY <2>1, <2>2 DEF m
<1>4. IsFiniteSet(image)
  <2> DEFINE f == [i \in D |-> Row1(i)]
  <2>1. f \in Surjection(D, image)
    BY DEF Surjection
  <2>2. IsFiniteSet(D)
    BY DEF ResultsOK
  <2> HIDE DEF f, image, D
  <2> QED
    BY <2>1, <2>2, FS_Surjection
<1>5. IsFiniteSet(U)
  <2>1. Untouched(M, results) \in SUBSET M
    BY <1>2
  <2>2. IsFiniteSet(Untouched(M, results))
    BY <2>1, FS_Subset DEF Table
  <2> HIDE DEF image
  <2> QED
    BY <1>1, <1>4, <2>2, FS_Union
<1>6. \A i, j \in D : results[i].hash = results[j].hash => i = j
  BY DEF ResultsOK, Distinct
<1>7. \A u : u \in U <=> u \in Untouched(M, results) \/ \E i \in D : u = Row1(i)
  BY <1>1
<1> HIDE DEF image, Row1, D
<1>8. OnePerHash(U)
  BY <1>2, <1>3, <1>6, <1>7 DEF OnePerHash, Table
<1>9. \A u \in U : Stored(u)
  BY <1>2, <1>3, <1>7 DEF Table
<1>10. ASSUME NEW r \in M
       PROVE  \E u \in U : /\ u.hash = r.hash
                           /\ r.meta # 0 => u.meta = r.meta /\ u.score >= r.score
                           /\ r.fg # 0 => u.fg = r.fg /\ u.fgScore >= r.fgScore
  <2>1. CASE \E i \in D : r.hash = results[i].hash
    BY <1>3, <1>7, <2>1
  <2>2. CASE \A i \in D : r.hash # results[i].hash
    <3>1. r \in U
      BY <1>2, <1>7, <2>2
    <3>2. r.score \in Nat /\ r.fgScore \in Nat
      BY ScoreFacts DEF Table, Stored, Row
    <3>3. r.score >= r.score /\ r.fgScore >= r.fgScore
      BY <3>2
    <3> QED
      BY <3>1, <3>3
  <2> QED
    BY <2>1, <2>2
<1> QED
  BY <1>5, <1>8, <1>9, <1>10 DEF Table

\* No two loadouts of a table have a number in common.
Numbered(table) ==
    \A r, q \in table : r.hash # q.hash =>
        /\ r.meta # 0 => r.meta # q.meta
        /\ r.fg # 0 => r.fg # q.fg

\* A merge gives out numbers that nobody has, each to one.
LEMMA UnorderedNumbers ==
  ASSUME NEW M, Table(M), Numbered(M), NEW results, ResultsOK(results), NEW nm \in Nat \ {0}, NEW nf \in Nat \ {0},
         \A r \in M : r.meta < nm /\ r.fg < nf, NEW U, U = Unordered(M, results, nm, nf)
  PROVE  /\ Numbered(U)
         /\ \A u \in U : /\ u.meta = 0 \/ u.meta >= nm \/ \E r \in M : r.hash = u.hash /\ r.meta = u.meta
                         /\ u.fg = 0 \/ u.fg >= nf \/ \E r \in M : r.hash = u.hash /\ r.fg = u.fg
<1> DEFINE D == DOMAIN results
           Row1(i) == MergedRow(M, results, nm, nf, i)
           TM == TakingMeta(M, results)
           TF == TakingFg(M, results)
           OldMeta(u) == \E r \in M : r.hash = u.hash /\ r.meta = u.meta
           OldFg(u) == \E r \in M : r.hash = u.hash /\ r.fg = u.fg
<1>1. \A u \in U : (u \in M) \/ \E i \in D : u = Row1(i)
  BY DEF Unordered, Untouched
<1>2. /\ IsFiniteSet(TM) /\ TM \subseteq Nat /\ TM \subseteq D
      /\ IsFiniteSet(TF) /\ TF \subseteq Nat /\ TF \subseteq D
  <2>1. TM \in SUBSET D /\ TF \in SUBSET D
    BY DEF TakingMeta, TakingFg
  <2> QED
    BY <2>1, FS_Subset DEF ResultsOK
<1>3. /\ \A i \in Nat : Number(nm, TM, i) >= nm /\ Number(nf, TF, i) >= nf
      /\ \A i, j \in TM : i # j => Number(nm, TM, i) # Number(nm, TM, j)
      /\ \A i, j \in TF : i # j => Number(nf, TF, i) # Number(nf, TF, j)
  BY <1>2, NumberFacts
<1>4. ASSUME NEW i \in D
      PROVE  /\ Row1(i).hash = results[i].hash
             /\ \/ i \in TM /\ Row1(i).meta = Number(nm, TM, i) /\ Row1(i).meta >= nm
                \/ i \notin TM /\ (Row1(i).meta = 0 \/ OldMeta(Row1(i)))
             /\ \/ i \in TF /\ Row1(i).fg = Number(nf, TF, i) /\ Row1(i).fg >= nf
                \/ i \notin TF /\ (Row1(i).fg = 0 \/ OldFg(Row1(i)))
  <2> DEFINE old == RowOf(M, results[i].hash)
             m == Row1(i)
  <2>1. /\ old \in M \/ (old = Blank(results[i].hash) /\ \A r \in M : r.hash # results[i].hash)
        /\ \A r \in M : r.hash = results[i].hash => old = r
        /\ m.hash = results[i].hash
        /\ m.meta = IF i \in TakingMeta(M, results) THEN Number(nm, TakingMeta(M, results), i) ELSE old.meta
        /\ m.fg = IF i \in TakingFg(M, results) THEN Number(nf, TakingFg(M, results), i) ELSE old.fg
    BY MergedRowFacts
  <2>2. i \in Nat /\ old.hash = results[i].hash
    BY RowOfFacts DEF ResultsOK, Table
  <2>3. old \notin M => old.meta = 0 /\ old.fg = 0
    BY <2>1, BlankFacts
  <2> HIDE DEF old, m, TM, TF
  <2>4. /\ i \in TM => m.meta = Number(nm, TM, i) /\ m.meta >= nm
        /\ i \in TF => m.fg = Number(nf, TF, i) /\ m.fg >= nf
    BY <1>3, <2>1, <2>2 DEF TM, TF
  <2>5. i \notin TM => m.meta = 0 \/ OldMeta(m)
    BY <2>1, <2>2, <2>3 DEF TM
  <2>6. i \notin TF => m.fg = 0 \/ OldFg(m)
    BY <2>1, <2>2, <2>3 DEF TF
  <2> QED
    BY <2>1, <2>4, <2>5, <2>6 DEF m
<1>5. \A u \in M : OldMeta(u) /\ OldFg(u)
  OBVIOUS
<1>6. \A u : (OldMeta(u) => u.meta \in Nat /\ u.meta < nm) /\ (OldFg(u) => u.fg \in Nat /\ u.fg < nf)
  BY DEF Table, Stored, Row
<1>7. \A u, v : u.hash # v.hash =>
          /\ OldMeta(u) /\ OldMeta(v) /\ u.meta # 0 => u.meta # v.meta
          /\ OldFg(u) /\ OldFg(v) /\ u.fg # 0 => u.fg # v.fg
  BY DEF Numbered
<1> HIDE DEF Row1, TM, TF, OldMeta, OldFg, D
<1>8. ASSUME NEW u \in U
      PROVE  /\ u.meta = 0 \/ OldMeta(u) \/ \E i \in TM : i \in D /\ u = Row1(i) /\ u.meta = Number(nm, TM, i) /\ u.meta >= nm
             /\ u.fg = 0 \/ OldFg(u) \/ \E i \in TF : i \in D /\ u = Row1(i) /\ u.fg = Number(nf, TF, i) /\ u.fg >= nf
  BY <1>1, <1>4, <1>5
<1>9. ASSUME NEW u \in U, NEW v \in U, u.hash # v.hash, u.meta # 0 PROVE u.meta # v.meta
  <2>1. CASE OldMeta(u)
    BY <1>6, <1>7, <1>8, <1>9, <2>1
  <2>2. CASE \E i \in TM : i \in D /\ u = Row1(i) /\ u.meta = Number(nm, TM, i) /\ u.meta >= nm
    <3>1. PICK i \in TM : i \in D /\ u = Row1(i) /\ u.meta = Number(nm, TM, i) /\ u.meta >= nm
      BY <2>2
    <3>2. CASE v.meta = 0 \/ OldMeta(v)
      BY <1>6, <1>9, <3>1, <3>2
    <3>3. CASE \E j \in TM : j \in D /\ v = Row1(j) /\ v.meta = Number(nm, TM, j) /\ v.meta >= nm
      <4>1. PICK j \in TM : j \in D /\ v = Row1(j) /\ v.meta = Number(nm, TM, j) /\ v.meta >= nm
        BY <3>3
      <4>2. i # j
        BY <1>9, <3>1, <4>1
      <4> QED
        BY <1>3, <3>1, <4>1, <4>2
    <3> QED
      BY <1>8, <3>2, <3>3
  <2> QED
    BY <1>8, <1>9, <2>1, <2>2
<1>10. ASSUME NEW u \in U, NEW v \in U, u.hash # v.hash, u.fg # 0 PROVE u.fg # v.fg
  <2>1. CASE OldFg(u)
    BY <1>6, <1>7, <1>8, <1>10, <2>1
  <2>2. CASE \E i \in TF : i \in D /\ u = Row1(i) /\ u.fg = Number(nf, TF, i) /\ u.fg >= nf
    <3>1. PICK i \in TF : i \in D /\ u = Row1(i) /\ u.fg = Number(nf, TF, i) /\ u.fg >= nf
      BY <2>2
    <3>2. CASE v.fg = 0 \/ OldFg(v)
      BY <1>6, <1>10, <3>1, <3>2
    <3>3. CASE \E j \in TF : j \in D /\ v = Row1(j) /\ v.fg = Number(nf, TF, j) /\ v.fg >= nf
      <4>1. PICK j \in TF : j \in D /\ v = Row1(j) /\ v.fg = Number(nf, TF, j) /\ v.fg >= nf
        BY <3>3
      <4>2. i # j
        BY <1>10, <3>1, <4>1
      <4> QED
        BY <1>3, <3>1, <4>1, <4>2
    <3> QED
      BY <1>8, <3>2, <3>3
  <2> QED
    BY <1>8, <1>10, <2>1, <2>2
<1> QED
  BY <1>8, <1>9, <1>10 DEF Numbered, OldMeta, OldFg

-----------------------------------------------------------------------------
(* The boards of a table.                                                  *)

Candidates(table) == {r \in table : r.meta # 0}
MetaOrder(table) ==
    {p \in Candidates(table) \X Candidates(table) :
        p[1].score > p[2].score \/ (p[1].score = p[2].score /\ p[1].meta < p[2].meta)}
FgCandidates(table) == {r \in table : r.fg # 0 /\ r.fgScore > r.score}
FgOrder(table) ==
    {p \in FgCandidates(table) \X FgCandidates(table) :
        p[1].fgScore > p[2].fgScore \/ (p[1].fgScore = p[2].fgScore /\ p[1].fg < p[2].fg)}

\* The numbers order equal scores: a board is the top of a total order.
LEMMA MetaBoardIs ==
  ASSUME NEW U, Table(U), Numbered(U)
  PROVE  /\ MetaBoard(U) = Top(Candidates(U), MetaOrder(U), Limit)
         /\ Ranks(Candidates(U), MetaOrder(U)) /\ IsFiniteSet(Candidates(U))
         /\ \A x, y \in Candidates(U) : <<x, y>> \in MetaOrder(U) <=>
                x.score > y.score \/ (x.score = y.score /\ x.meta < y.meta)
<1> DEFINE C == Candidates(U)
           Beats(x, y) == x.score > y.score \/ (x.score = y.score /\ x.meta < y.meta)
<1>1. \A x, y \in C : <<x, y>> \in MetaOrder(U) <=> Beats(x, y)
  BY DEF MetaOrder
<1>2. \A x \in C : x \in U /\ x.score \in Nat /\ x.meta \in Nat /\ x.meta # 0
  BY ScoreFacts DEF Table, Stored, Row, Candidates
<1>3. \A x, y \in C : x # y => x.meta # y.meta
  BY <1>2 DEF Table, OnePerHash, Numbered
<1>4. Ranks(C, MetaOrder(U))
  <2>1. \A x \in C : ~Beats(x, x)
    BY <1>2
  <2>2. \A x, y \in C : x # y => Beats(x, y) \/ Beats(y, x)
    BY <1>2, <1>3
  <2>3. \A x, y, z \in C : Beats(x, y) /\ Beats(y, z) => Beats(x, z)
    BY <1>2
  <2> HIDE DEF Beats, C
  <2> QED
    BY <1>1, <2>1, <2>2, <2>3 DEF Ranks
<1>5. MetaBoard(U) = {r \in C : Cardinality({x \in C : Beats(x, r)}) < Limit}
  BY DEF MetaBoard, Candidates
<1>6. \A r \in C : AheadOf(C, MetaOrder(U), r) = {x \in C : Beats(x, r)}
  BY <1>1 DEF AheadOf
<1>7. IsFiniteSet(C)
  <2>1. C \in SUBSET U
    BY DEF Candidates
  <2> QED
    BY <2>1, FS_Subset DEF Table
<1> HIDE DEF C
<1>8. MetaBoard(U) = Top(C, MetaOrder(U), Limit)
  BY <1>5, <1>6 DEF Top
<1> QED
  BY <1>1, <1>4, <1>7, <1>8 DEF C

\* The same of the FG board.
LEMMA FgBoardIs ==
  ASSUME NEW U, Table(U), Numbered(U)
  PROVE  /\ FgBoard(U) = Top(FgCandidates(U), FgOrder(U), Limit)
         /\ Ranks(FgCandidates(U), FgOrder(U)) /\ IsFiniteSet(FgCandidates(U))
         /\ \A x, y \in FgCandidates(U) : <<x, y>> \in FgOrder(U) <=>
                x.fgScore > y.fgScore \/ (x.fgScore = y.fgScore /\ x.fg < y.fg)
<1> DEFINE C == FgCandidates(U)
           Beats(x, y) == x.fgScore > y.fgScore \/ (x.fgScore = y.fgScore /\ x.fg < y.fg)
<1>1. \A x, y \in C : <<x, y>> \in FgOrder(U) <=> Beats(x, y)
  BY DEF FgOrder
<1>2. \A x \in C : x \in U /\ x.fgScore \in Nat /\ x.fg \in Nat /\ x.fg # 0
  BY ScoreFacts DEF Table, Stored, Row, FgCandidates
<1>3. \A x, y \in C : x # y => x.fg # y.fg
  BY <1>2 DEF Table, OnePerHash, Numbered
<1>4. Ranks(C, FgOrder(U))
  <2>1. \A x \in C : ~Beats(x, x)
    BY <1>2
  <2>2. \A x, y \in C : x # y => Beats(x, y) \/ Beats(y, x)
    BY <1>2, <1>3
  <2>3. \A x, y, z \in C : Beats(x, y) /\ Beats(y, z) => Beats(x, z)
    BY <1>2
  <2> HIDE DEF Beats, C
  <2> QED
    BY <1>1, <2>1, <2>2, <2>3 DEF Ranks
<1>5. FgBoard(U) = {r \in C : Cardinality({x \in C : Beats(x, r)}) < Limit}
  BY DEF FgBoard, FgCandidates
<1>6. \A r \in C : AheadOf(C, FgOrder(U), r) = {x \in C : Beats(x, r)}
  BY <1>1 DEF AheadOf
<1>7. IsFiniteSet(C)
  <2>1. C \in SUBSET U
    BY DEF FgCandidates
  <2> QED
    BY <2>1, FS_Subset DEF Table
<1> HIDE DEF C
<1>8. FgBoard(U) = Top(C, FgOrder(U), Limit)
  BY <1>5, <1>6 DEF Top
<1> QED
  BY <1>1, <1>4, <1>7, <1>8 DEF C

\* What the boards leave of a table: its rows, but for their marks.
Same(q, r) == /\ q.hash = r.hash /\ q.score = r.score /\ q.fgScore = r.fgScore /\ q.meta = r.meta /\ q.metaOf = r.metaOf
              /\ q.fg = r.fg /\ q.fgOf = r.fgOf
Flagged(U, r) == [r EXCEPT !.onMeta = r \in MetaBoard(U), !.onFg = r \in FgBoard(U)]

\* A board lists rows of its table, with a result of its side; the FG board those above their base score.
LEMMA BoardsAreIn ==
  \A U : /\ MetaBoard(U) \subseteq U /\ FgBoard(U) \subseteq U
         /\ \A r \in MetaBoard(U) : r.meta # 0
         /\ \A r \in FgBoard(U) : r.fg # 0 /\ r.fgScore > r.score
  BY DEF MetaBoard, FgBoard

\* Marking a row changes nothing else of it.
LEMMA FlaggedFacts ==
  ASSUME NEW U, NEW r \in U, Stored(r), NEW q, q = Flagged(U, r)
  PROVE  /\ Same(q, r) /\ Stored(q)
         /\ q.onMeta = (r \in MetaBoard(U)) /\ q.onFg = (r \in FgBoard(U))
<1>1. r \in Row
  BY DEF Stored
<1>2. q.onMeta = (r \in MetaBoard(U)) /\ q.onFg = (r \in FgBoard(U)) /\ Same(q, r)
  BY <1>1 DEF Flagged, Row, Same
<1>3. q \in Row
  <2>1. (r \in MetaBoard(U)) \in BOOLEAN /\ (r \in FgBoard(U)) \in BOOLEAN
    OBVIOUS
  <2> QED
    BY <1>1, <2>1 DEF Flagged, Row
<1> QED
  BY <1>2, <1>3 DEF Stored, Same

\* _normalize keeps the rows of a board, marked, and no other.
LEMMA NormalizeFacts ==
  ASSUME NEW U, Table(U), NEW N, N = Normalize(U)
  PROVE  /\ Table(N) /\ Flags(N)
         /\ \A r \in U : r \in MetaBoard(U) \/ r \in FgBoard(U) => Flagged(U, r) \in N
         /\ \A q \in N : \E r \in U : q = Flagged(U, r) /\ (r \in MetaBoard(U) \/ r \in FgBoard(U))
         /\ \A r \in U : /\ Same(Flagged(U, r), r) /\ Stored(Flagged(U, r))
                         /\ Flagged(U, r).onMeta = (r \in MetaBoard(U)) /\ Flagged(U, r).onFg = (r \in FgBoard(U))
<1> DEFINE K == MetaBoard(U) \cup FgBoard(U)
<1>1. N = {Flagged(U, r) : r \in K}
  BY Zenon DEF Normalize, Flagged
<1>2. K \in SUBSET U
  BY BoardsAreIn
<1>3. \A r \in U : /\ Same(Flagged(U, r), r) /\ Stored(Flagged(U, r))
                   /\ Flagged(U, r).onMeta = (r \in MetaBoard(U)) /\ Flagged(U, r).onFg = (r \in FgBoard(U))
  BY FlaggedFacts DEF Table
<1>4. IsFiniteSet(N)
  <2> DEFINE f == [r \in K |-> Flagged(U, r)]
  <2>1. f \in Surjection(K, N)
    BY <1>1 DEF Surjection
  <2>2. IsFiniteSet(K)
    BY <1>2, FS_Subset DEF Table
  <2> HIDE DEF f, K
  <2> QED
    BY <2>1, <2>2, FS_Surjection
<1>5. \A q : q \in N <=> \E r \in K : q = Flagged(U, r)
  BY <1>1
<1>6. OnePerHash(N)
  BY <1>2, <1>3, <1>5 DEF OnePerHash, Table, Same
<1>7. Table(N)
  BY <1>2, <1>3, <1>4, <1>5, <1>6 DEF Table
<1>8. ASSUME NEW q \in N
      PROVE  /\ q.onMeta \/ q.onFg
             /\ q.onMeta => q.meta # 0
             /\ q.onFg => q.fg # 0 /\ q.fgScore > q.score
  <2>1. PICK r \in K : q = Flagged(U, r)
    BY <1>5
  <2>2. /\ r \in U /\ Same(q, r) /\ (r \in MetaBoard(U) \/ r \in FgBoard(U))
        /\ q.onMeta = (r \in MetaBoard(U)) /\ q.onFg = (r \in FgBoard(U))
    BY <1>2, <1>3, <2>1
  <2>3. (r \in MetaBoard(U) => r.meta # 0) /\ (r \in FgBoard(U) => r.fg # 0 /\ r.fgScore > r.score)
    BY BoardsAreIn
  <2> QED
    BY <2>2, <2>3 DEF Same
<1> QED
  BY <1>2, <1>3, <1>5, <1>7, <1>8 DEF Flags

\* The marked rows of a stored table, and what it says when the board is full of rows as good.
Board(table) == {r \in table : r.onMeta}
Full(table, x) == Cardinality(Board(table)) = Limit /\ \A r \in Board(table) : r.score >= x

\* The board of a merged table: as many as it may, each ahead of every row off it.
LEMMA BoardFacts ==
  ASSUME NEW U, Table(U), Numbered(U), NEW N, N = Normalize(U)
  PROVE  /\ IsFiniteSet(Board(N)) /\ Cardinality(Board(N)) <= Limit
         /\ \A r \in U : r.meta # 0 => (\E q \in Board(N) : Same(q, r)) \/ Full(N, r.score)
         /\ \A q \in N : q.meta # 0 /\ ~q.onMeta => Full(N, q.score)
         /\ \A x \in Nat, K \in SUBSET Candidates(U) :
                Cardinality(K) >= Limit /\ (\A r \in K : r.score >= x) => Full(N, x)
         /\ Candidates(U) # {} => \E q \in Board(N) : \A r \in Candidates(U) : q.score >= r.score
<1> DEFINE C == Candidates(U)
           B == MetaOrder(U)
           T == MetaBoard(U)
<1>1. /\ T = Top(C, B, Limit) /\ Ranks(C, B) /\ IsFiniteSet(C)
      /\ \A x, y \in C : <<x, y>> \in B <=> x.score > y.score \/ (x.score = y.score /\ x.meta < y.meta)
  BY MetaBoardIs
<1>2. /\ \A r \in T, q \in C \ T : <<r, q>> \in B
      /\ C # {} => \E t \in T : \A q \in C \ {t} : <<t, q>> \in B
      /\ IsFiniteSet(T) /\ Cardinality(T) <= Limit
      /\ T # C => Cardinality(T) = Limit
      /\ Cardinality(C) >= Limit => Cardinality(T) = Limit
  BY <1>1, TopFacts, LimitAssumption
<1>3. /\ \A r \in U : r \in T \/ r \in FgBoard(U) => Flagged(U, r) \in N
      /\ \A q \in N : \E r \in U : q = Flagged(U, r) /\ (r \in T \/ r \in FgBoard(U))
      /\ \A r \in U : Same(Flagged(U, r), r) /\ Flagged(U, r).onMeta = (r \in T)
  BY NormalizeFacts
<1>4. T \subseteq C /\ C \subseteq U /\ \A r \in U : r.meta # 0 <=> r \in C
  BY <1>1 DEF Top, Candidates
<1>5. \A r \in C : r.score \in Nat
  BY <1>4, ScoreFacts DEF Table, Stored, Row
<1>6. /\ \A r \in T : Flagged(U, r) \in Board(N)
      /\ \A q \in Board(N) : \E r \in T : q = Flagged(U, r)
  BY <1>3, <1>4 DEF Board
<1> HIDE DEF C, B, T
<1>7. IsFiniteSet(Board(N)) /\ Cardinality(Board(N)) = Cardinality(T)
  <2> DEFINE f == [r \in T |-> Flagged(U, r)]
  <2>1. \A a, b \in T : Flagged(U, a) = Flagged(U, b) => a = b
    BY <1>3, <1>4 DEF Table, OnePerHash, Same
  <2>2. f \in [T -> Board(N)] /\ (\A t \in T : f[t] = Flagged(U, t))
    BY <1>6
  <2>3. \A q \in Board(N) : \E t \in T : f[t] = q
    BY <1>6, <2>2
  <2> HIDE DEF f
  <2>4. f \in Injection(T, Board(N))
    BY <2>1, <2>2 DEF Injection, IsInjective
  <2>5. f \in Surjection(T, Board(N))
    BY <2>2, <2>3 DEF Surjection
  <2>6. ExistsBijection(T, Board(N))
    BY <2>4, <2>5 DEF ExistsBijection, Bijection
  <2> QED
    BY <1>2, <2>6, FS_Bijection
<1>8. \A q \in Board(N) : \E r \in T : Same(q, r)
  BY <1>3, <1>4, <1>6
<1>9. ASSUME NEW r \in C \ T PROVE Full(N, r.score)
  <2>1. Cardinality(T) = Limit
    BY <1>2
  <2>2. ASSUME NEW q \in Board(N) PROVE q.score >= r.score
    <3>1. PICK t \in T : Same(q, t)
      BY <1>8
    <3>2. <<t, r>> \in B
      BY <1>2
    <3>3. t.score >= r.score
      BY <1>1, <1>4, <1>5, <3>2
    <3> QED
      BY <3>1, <3>3 DEF Same
  <2> QED
    BY <1>7, <2>1, <2>2 DEF Full
<1>10. ASSUME NEW r \in U, r.meta # 0 PROVE (\E q \in Board(N) : Same(q, r)) \/ Full(N, r.score)
  <2>1. CASE r \in T
    BY <1>3, <1>6, <2>1
  <2>2. CASE r \notin T
    BY <1>4, <1>9, <1>10, <2>2
  <2> QED
    BY <2>1, <2>2
<1>11. ASSUME NEW q \in N, q.meta # 0, ~q.onMeta PROVE Full(N, q.score)
  <2>1. PICK r \in U : q = Flagged(U, r)
    BY <1>3
  <2>2. Same(q, r) /\ r \notin T
    BY <1>3, <1>11, <2>1
  <2>3. r \in C \ T /\ q.score = r.score
    BY <1>4, <1>11, <2>2 DEF Same
  <2> QED
    BY <1>9, <2>3
<1>12. ASSUME NEW x \in Nat, NEW K \in SUBSET C, Cardinality(K) >= Limit, \A r \in K : r.score >= x PROVE Full(N, x)
  <2>1. Cardinality(K) <= Cardinality(C) /\ Cardinality(K) \in Nat /\ Cardinality(C) \in Nat /\ IsFiniteSet(K)
    BY <1>1, FS_Subset, FS_CardinalityType
  <2>2. Cardinality(T) = Limit
    BY <1>2, <1>12, <2>1, LimitAssumption
  <2>3. ASSUME NEW t \in T, ~(t.score >= x) PROVE FALSE
    <3>1. \A r \in K : <<r, t>> \in B
      <4>1. ASSUME NEW r \in K PROVE r.score > t.score
        BY <1>4, <1>5, <1>12, <2>3
      <4> QED
        BY <1>1, <1>4, <4>1
    <3>2. K \in SUBSET AheadOf(C, B, t)
      BY <3>1 DEF AheadOf
    <3>3. AheadOf(C, B, t) \in SUBSET C
      BY DEF AheadOf
    <3>4. IsFiniteSet(AheadOf(C, B, t)) /\ Cardinality(AheadOf(C, B, t)) \in Nat
      BY <1>1, <3>3, FS_Subset, FS_CardinalityType
    <3>5. Cardinality(K) <= Cardinality(AheadOf(C, B, t))
      BY <3>2, <3>4, FS_Subset
    <3>6. Cardinality(AheadOf(C, B, t)) < Limit
      BY <1>1, <2>3 DEF Top
    <3> QED
      BY <1>12, <2>1, <3>4, <3>5, <3>6, LimitAssumption
  <2>4. \A q \in Board(N) : q.score >= x
    BY <1>8, <2>3 DEF Same
  <2> QED
    BY <1>7, <2>2, <2>4 DEF Full
<1>13. ASSUME C # {} PROVE \E q \in Board(N) : \A r \in C : q.score >= r.score
  <2>1. PICK t \in T : \A q \in C \ {t} : <<t, q>> \in B
    BY <1>2, <1>13
  <2>2. ASSUME NEW r \in C PROVE t.score >= r.score
    <3>1. t \in C /\ t.score \in Nat /\ r.score \in Nat
      BY <1>4, <1>5
    <3>2. CASE r # t
      <4>1. <<t, r>> \in B
        BY <2>1, <3>2
      <4>2. t.score > r.score \/ t.score = r.score
        BY <1>1, <3>1, <4>1
      <4> QED
        BY <3>1, <4>2
    <3> QED
      BY <3>1, <3>2
  <2>3. Flagged(U, t) \in Board(N) /\ Flagged(U, t).score = t.score
    BY <1>3, <1>4, <1>6 DEF Same
  <2> QED
    BY <2>2, <2>3
<1> QED
  BY <1>2, <1>7, <1>10, <1>11, <1>12, <1>13 DEF C

\* The best FG result above its base score is on the FG board.
LEMMA FgBoardFacts ==
  ASSUME NEW U, Table(U), Numbered(U), NEW N, N = Normalize(U), FgCandidates(U) # {}
  PROVE  \E q \in N : q.onFg /\ \A r \in FgCandidates(U) : q.fgScore >= r.fgScore
<1> DEFINE C == FgCandidates(U)
           B == FgOrder(U)
           T == FgBoard(U)
<1>1. /\ T = Top(C, B, Limit) /\ Ranks(C, B) /\ IsFiniteSet(C)
      /\ \A x, y \in C : <<x, y>> \in B <=> x.fgScore > y.fgScore \/ (x.fgScore = y.fgScore /\ x.fg < y.fg)
  BY FgBoardIs
<1>2. \E t \in T : \A q \in C \ {t} : <<t, q>> \in B
  BY <1>1, TopFacts, LimitAssumption
<1>3. /\ \A r \in U : r \in MetaBoard(U) \/ r \in T => Flagged(U, r) \in N
      /\ \A r \in U : Same(Flagged(U, r), r) /\ Flagged(U, r).onFg = (r \in T)
  BY NormalizeFacts
<1>4. T \subseteq C /\ C \subseteq U
  BY <1>1 DEF Top, FgCandidates
<1>5. \A r \in C : r.fgScore \in Nat
  BY <1>4, ScoreFacts DEF Table, Stored, Row
<1> HIDE DEF C, B, T
<1>6. PICK t \in T : \A q \in C \ {t} : <<t, q>> \in B
  BY <1>2
<1>7. ASSUME NEW r \in C PROVE t.fgScore >= r.fgScore
  <2>1. t \in C /\ t.fgScore \in Nat /\ r.fgScore \in Nat
    BY <1>4, <1>5
  <2>2. CASE r # t
    <3>1. <<t, r>> \in B
      BY <1>6, <2>2
    <3>2. t.fgScore > r.fgScore \/ t.fgScore = r.fgScore
      BY <1>1, <2>1, <3>1
    <3> QED
      BY <2>1, <3>2
  <2> QED
    BY <2>1, <2>2
<1>8. Flagged(U, t) \in N /\ Flagged(U, t).onFg /\ Flagged(U, t).fgScore = t.fgScore
  BY <1>3, <1>4 DEF Same
<1> QED
  BY <1>7, <1>8 DEF C

-----------------------------------------------------------------------------
(* A whole merge, boards and all.                                          *)

\* A finite set has finitely many images.
LEMMA ImageIsFinite ==
  ASSUME NEW D, IsFiniteSet(D), NEW f, NEW image, image = {f[i] : i \in D}
  PROVE  IsFiniteSet(image)
<1> DEFINE g == [i \in D |-> f[i]]
<1>1. g \in [D -> image] /\ \A y \in image : \E i \in D : g[i] = y
  OBVIOUS
<1> HIDE DEF g
<1>2. g \in Surjection(D, image)
  BY <1>1 DEF Surjection
<1> QED
  BY <1>2, FS_Surjection

\* A merge leaves a table with its marks, in which every stored result of a side that stays has its number.
LEMMA MergeFacts ==
  ASSUME NEW M, Table(M), NEW results, ResultsOK(results), NEW nm \in Nat \ {0}, NEW nf \in Nat \ {0},
         NEW N, N = Merge(M, results, nm, nf)
  PROVE  /\ Table(N) /\ Flags(N)
         /\ \A r \in M, q \in N : r.hash = q.hash => /\ r.meta # 0 => q.meta = r.meta
                                                     /\ r.fg # 0 => q.fg = r.fg
<1> DEFINE U == Unordered(M, results, nm, nf)
<1>1. N = Normalize(U)
  BY MergeIs
<1>2. /\ Table(U)
      /\ \A r \in M : \E u \in U : /\ u.hash = r.hash
                                   /\ r.meta # 0 => u.meta = r.meta
                                   /\ r.fg # 0 => u.fg = r.fg
  BY UnorderedFacts
<1> HIDE DEF U
<1>3. Table(N) /\ Flags(N) /\ \A q \in N : \E u \in U : Same(q, u)
  BY <1>1, <1>2, NormalizeFacts
<1>4. ASSUME NEW r \in M, NEW q \in N, r.hash = q.hash
      PROVE  (r.meta # 0 => q.meta = r.meta) /\ (r.fg # 0 => q.fg = r.fg)
  <2>1. PICK u \in U : Same(q, u)
    BY <1>3
  <2>2. PICK v \in U : /\ v.hash = r.hash
                       /\ r.meta # 0 => v.meta = r.meta
                       /\ r.fg # 0 => v.fg = r.fg
    BY <1>2
  <2>3. u = v
    BY <1>2, <1>4, <2>1, <2>2 DEF Table, OnePerHash, Same
  <2> QED
    BY <2>1, <2>2, <2>3 DEF Same
<1> QED
  BY <1>3, <1>4

\* The base score of a merged row is its old one or its result's, and never below its result's.
LEMMA UnorderedScores ==
  ASSUME NEW M, Table(M), NEW results, ResultsOK(results), NEW nm \in Nat \ {0}, NEW nf \in Nat \ {0},
         NEW U, U = Unordered(M, results, nm, nf)
  PROVE  /\ \A u \in U : u.meta # 0 =>
                \/ \E r \in M : r.hash = u.hash /\ r.meta # 0 /\ r.score = u.score
                \/ \E i \in DOMAIN results : results[i].meta /\ results[i].hash = u.hash /\ results[i].score = u.score
         /\ \A i \in DOMAIN results : results[i].meta =>
                \E u \in U : u.hash = results[i].hash /\ u.meta # 0 /\ u.score >= results[i].score
<1> DEFINE Row1(i) == MergedRow(M, results, nm, nf, i)
<1>1. /\ \A u \in U : u \in M \/ \E i \in DOMAIN results : u = Row1(i)
      /\ \A i \in DOMAIN results : Row1(i) \in U
  BY DEF Unordered, Untouched
<1>2. ASSUME NEW i \in DOMAIN results
      PROVE  /\ Row1(i).hash = results[i].hash
             /\ results[i].meta => Row1(i).meta # 0 /\ Row1(i).score >= results[i].score
             /\ Row1(i).meta # 0 =>
                   \/ \E r \in M : r.hash = results[i].hash /\ r.meta # 0 /\ r.score = Row1(i).score
                   \/ results[i].meta /\ results[i].score = Row1(i).score
  <2> DEFINE old == RowOf(M, results[i].hash)
             m == Row1(i)
  <2>1. /\ old \in M \/ (old = Blank(results[i].hash) /\ \A r \in M : r.hash # results[i].hash)
        /\ m.hash = results[i].hash
        /\ m.meta = IF i \in TakingMeta(M, results) THEN Number(nm, TakingMeta(M, results), i) ELSE old.meta
        /\ results[i].meta => m.meta # 0
        /\ results[i].meta => /\ m.score >= results[i].score
                              /\ m.score = results[i].score \/ (old.meta # 0 /\ m.score = old.score)
        /\ ~results[i].meta /\ old.meta # 0 => m.score = old.score
    BY MergedRowFacts
  <2>2. /\ i \in TakingMeta(M, results) => results[i].meta
        /\ old.hash = results[i].hash
    BY RowOfFacts DEF TakingMeta, Table
  <2>3. old \notin M => old.meta = 0
    BY <2>1, BlankFacts
  <2> HIDE DEF old, m
  <2> QED
    BY <2>1, <2>2, <2>3 DEF m
<1> HIDE DEF Row1
<1>3. ASSUME NEW u \in U, u.meta # 0
      PROVE  \/ \E r \in M : r.hash = u.hash /\ r.meta # 0 /\ r.score = u.score
             \/ \E i \in DOMAIN results : results[i].meta /\ results[i].hash = u.hash /\ results[i].score = u.score
  BY <1>1, <1>2, <1>3
<1> QED
  BY <1>1, <1>2, <1>3

-----------------------------------------------------------------------------
(* The board and the results given to the stores: best[h] is the best base *)
(* score that the stores were given of loadout h.                          *)

\* The rows' scores are given ones, and a given one that no row has, like a row off the board, is
\* below a full board.
TopOf(table, best) ==
    /\ IsFiniteSet({h \in Hashes : best[h] # 0}) /\ Cardinality(Board(table)) <= Limit
    /\ \A r \in table : r.meta # 0 => r.score <= best[r.hash]
    /\ \A h \in Hashes : best[h] # 0 =>
           Full(table, best[h]) \/ \E r \in table : r.hash = h /\ r.meta # 0 /\ r.score = best[h]
    /\ \A r \in table : r.meta # 0 /\ ~r.onMeta => Full(table, r.score)

\* A board that is full of scores as good stays so.
LEMMA FullStays ==
  ASSUME NEW M, Table(M), Flags(M), NEW results, ResultsOK(results), NEW nm \in Nat \ {0}, NEW nf \in Nat \ {0},
         NEW U, U = Unordered(M, results, nm, nf), Numbered(U), NEW x \in Nat, Full(M, x)
  PROVE  Full(Normalize(U), x)
<1>1. /\ Table(U)
      /\ \A r \in M : \E u \in U : u.hash = r.hash /\ (r.meta # 0 => u.meta = r.meta /\ u.score >= r.score)
  BY UnorderedFacts
<1> DEFINE B == Board(M)
           Next1(r) == CHOOSE u \in U : u.hash = r.hash
           f == [r \in B |-> Next1(r)]
           K == {f[r] : r \in B}
<1>2. ASSUME NEW r \in B PROVE f[r] \in U /\ f[r].hash = r.hash /\ f[r].meta # 0 /\ f[r].score >= r.score
  <2>1. r \in M /\ r.meta # 0
    BY DEF Board, Flags
  <2>2. PICK u \in U : u.hash = r.hash /\ u.meta = r.meta /\ u.score >= r.score
    BY <1>1, <2>1
  <2>3. Next1(r) = u
    BY <1>1, <2>2 DEF Table, OnePerHash
  <2> QED
    BY <2>1, <2>2, <2>3
<1>3. IsFiniteSet(B) /\ Cardinality(B) = Limit /\ \A r \in B : r.score >= x /\ r.score \in Nat
  <2>1. B \in SUBSET M
    BY DEF Board
  <2> QED
    BY <2>1, FS_Subset, ScoreFacts DEF Full, Table, Stored, Row
<1>4. f \in [B -> K] /\ \A k \in K : \E r \in B : f[r] = k
  OBVIOUS
<1>5. ASSUME NEW r \in B, NEW q \in B, f[r] = f[q] PROVE r = q
  <2>1. f[r].hash = r.hash /\ f[q].hash = q.hash /\ r \in M /\ q \in M
    BY <1>2 DEF Board
  <2> QED
    BY <1>5, <2>1 DEF Table, OnePerHash
<1> HIDE DEF f, K, B
<1>6. Cardinality(K) = Limit
  <2>1. f \in Injection(B, K)
    BY <1>4, <1>5 DEF Injection, IsInjective
  <2>2. f \in Surjection(B, K)
    BY <1>4 DEF Surjection
  <2>3. ExistsBijection(B, K)
    BY <2>1, <2>2 DEF ExistsBijection, Bijection
  <2> QED
    BY <1>3, <2>3, FS_Bijection
<1>7. K \in SUBSET Candidates(U)
  BY <1>2, <1>4 DEF Candidates
<1>8. \A k \in K : k.score >= x
  <2>1. \A u \in U : u.score \in Nat
    BY <1>1, ScoreFacts DEF Table, Stored, Row
  <2> QED
    BY <1>2, <1>3, <1>4, <2>1
<1>9. \A y \in Nat, J \in SUBSET Candidates(U) :
          Cardinality(J) >= Limit /\ (\A r \in J : r.score >= y) => Full(Normalize(U), y)
  BY <1>1, BoardFacts
<1>10. Cardinality(K) >= Limit
  BY <1>6, LimitAssumption
<1> QED
  BY <1>7, <1>8, <1>9, <1>10

\* What the stores were given after one more.
Submit(best, results) ==
    [h \in Hashes |-> SetMax({best[h]} \cup {results[i].score :
                          i \in {j \in DOMAIN results : results[j].hash = h /\ results[j].meta}})]

\* The best given of a loadout is the best of before and of the new results.
LEMMA SubmittedFacts ==
  ASSUME NEW best \in [Hashes -> Scores \cup {0}], NEW results, ResultsOK(results), IsFiniteSet({h \in Hashes : best[h] # 0}),
         NEW best2, best2 = Submit(best, results)
  PROVE  /\ best2 \in [Hashes -> Scores \cup {0}] /\ IsFiniteSet({h \in Hashes : best2[h] # 0})
         /\ \A h \in Hashes :
                /\ best2[h] >= best[h]
                /\ \A i \in DOMAIN results : results[i].meta /\ results[i].hash = h => best2[h] >= results[i].score
                /\ \/ best2[h] = best[h]
                   \/ \E i \in DOMAIN results : results[i].meta /\ results[i].hash = h /\ results[i].score = best2[h]
<1> DEFINE Of(h) == {j \in DOMAIN results : results[j].hash = h /\ results[j].meta}
           New(h) == {results[i].score : i \in Of(h)}
<1>1. IsFiniteSet(DOMAIN results) /\ \A i \in DOMAIN results : results[i].score \in Scores /\ results[i].hash \in Hashes
  BY DEF ResultsOK, GivenOK
<1>2. ASSUME NEW h \in Hashes
      PROVE  /\ best2[h] \in {best[h]} \cup New(h)
             /\ \A y \in {best[h]} \cup New(h) : best2[h] >= y
  <2>1. IsFiniteSet(New(h))
    <3>1. Of(h) \in SUBSET DOMAIN results
      OBVIOUS
    <3>2. IsFiniteSet(Of(h))
      BY <1>1, <3>1, FS_Subset
    <3> DEFINE f == [i \in DOMAIN results |-> results[i].score]
    <3>3. New(h) = {f[i] : i \in Of(h)}
      OBVIOUS
    <3> HIDE DEF f, New, Of
    <3> QED
      BY <3>2, <3>3, ImageIsFinite
  <2>2. New(h) \subseteq Nat /\ best[h] \in Nat
    <3>1. \A i \in DOMAIN results : results[i].score \in Nat
      BY <1>1, ScoreFacts
    <3>2. best[h] \in Nat
      BY ScoreFacts
    <3> QED
      BY <3>1, <3>2
  <2>3. best2[h] = SetMax({best[h]} \cup New(h))
    BY DEF Submit
  <2> HIDE DEF New
  <2>4. IsFiniteSet(New(h) \cup {best[h]}) /\ {best[h]} \cup New(h) = New(h) \cup {best[h]}
    BY <2>1, FS_AddElement
  <2>5. {best[h]} \cup New(h) \subseteq Nat /\ {best[h]} \cup New(h) # {} /\ IsFiniteSet({best[h]} \cup New(h))
    BY <2>2, <2>4
  <2> QED
    BY <2>3, <2>5, SetMaxFacts
<1>3. ASSUME NEW h \in Hashes
      PROVE  /\ best2[h] >= best[h]
             /\ \A i \in DOMAIN results : results[i].meta /\ results[i].hash = h => best2[h] >= results[i].score
             /\ \/ best2[h] = best[h]
                \/ \E i \in DOMAIN results : results[i].meta /\ results[i].hash = h /\ results[i].score = best2[h]
  BY <1>2
<1>4. best2 \in [Hashes -> Scores \cup {0}]
  <2>1. \A h \in Hashes : best2[h] \in Scores \cup {0}
    BY <1>1, <1>2
  <2> QED
    BY <2>1 DEF Submit
<1>5. IsFiniteSet({h \in Hashes : best2[h] # 0})
  <2> DEFINE old == {h \in Hashes : best[h] # 0}
             new == {results[i].hash : i \in DOMAIN results}
             f == [i \in DOMAIN results |-> results[i].hash]
  <2>1. new = {f[i] : i \in DOMAIN results}
    OBVIOUS
  <2>2. {h \in Hashes : best2[h] # 0} \in SUBSET (old \cup new)
    BY <1>3
  <2> HIDE DEF old, new, f
  <2>3. IsFiniteSet(new)
    BY <1>1, <2>1, ImageIsFinite
  <2>4. IsFiniteSet(old \cup new)
    BY <2>3, FS_Union DEF old
  <2> QED
    BY <2>2, <2>4, FS_Subset
<1> QED
  BY <1>3, <1>4, <1>5

\* The step: a merge keeps the board the top of what was given.
LEMMA TopStep ==
  ASSUME NEW M, Table(M), Flags(M), NEW best \in [Hashes -> Scores \cup {0}], TopOf(M, best),
         NEW results, ResultsOK(results), NEW nm \in Nat \ {0}, NEW nf \in Nat \ {0},
         NEW U, U = Unordered(M, results, nm, nf), Numbered(U),
         NEW best2, best2 = Submit(best, results)
  PROVE  TopOf(Normalize(U), best2)
<1> DEFINE N == Normalize(U)
<1>1. /\ best2 \in [Hashes -> Scores \cup {0}] /\ IsFiniteSet({h \in Hashes : best2[h] # 0})
      /\ \A h \in Hashes :
             /\ best2[h] >= best[h]
             /\ \A i \in DOMAIN results : results[i].meta /\ results[i].hash = h => best2[h] >= results[i].score
             /\ \/ best2[h] = best[h]
                \/ \E i \in DOMAIN results : results[i].meta /\ results[i].hash = h /\ results[i].score = best2[h]
  <2>1. IsFiniteSet({h \in Hashes : best[h] # 0})
    BY DEF TopOf
  <2>2. best \in [Hashes -> Scores \cup {0}] /\ ResultsOK(results) /\ best2 = Submit(best, results)
    OBVIOUS
  <2> QED
    BY ONLY <2>1, <2>2, SubmittedFacts
<1>2. /\ Table(U)
      /\ \A r \in M : \E u \in U : u.hash = r.hash /\ (r.meta # 0 => u.meta = r.meta /\ u.score >= r.score)
  BY UnorderedFacts
<1>3. /\ \A u \in U : u.meta # 0 =>
             \/ \E r \in M : r.hash = u.hash /\ r.meta # 0 /\ r.score = u.score
             \/ \E i \in DOMAIN results : results[i].meta /\ results[i].hash = u.hash /\ results[i].score = u.score
      /\ \A i \in DOMAIN results : results[i].meta =>
             \E u \in U : u.hash = results[i].hash /\ u.meta # 0 /\ u.score >= results[i].score
  BY UnorderedScores
<1>4. /\ Cardinality(Board(N)) <= Limit
      /\ \A r \in U : r.meta # 0 => (\E q \in Board(N) : Same(q, r)) \/ Full(N, r.score)
      /\ \A q \in N : q.meta # 0 /\ ~q.onMeta => Full(N, q.score)
  BY <1>2, BoardFacts
<1>5. \A q \in N : \E u \in U : Same(q, u)
  BY <1>2, NormalizeFacts
<1> HIDE DEF N
<1>6. /\ \A u \in U : u.score \in Nat /\ u.hash \in Hashes
      /\ \A h \in Hashes : best[h] \in Nat /\ best2[h] \in Nat
  <2>1. \A u \in U : u.score \in Nat /\ u.hash \in Hashes
    BY <1>2, ScoreFacts DEF Table, Stored, Row
  <2>2. \A h \in Hashes : best[h] \in Nat /\ best2[h] \in Nat
    BY <1>1, ScoreFacts
  <2> QED
    BY <2>1, <2>2
<1>7. ASSUME NEW u \in U, u.meta # 0 PROVE u.score <= best2[u.hash]
  <2>1. CASE \E r \in M : r.hash = u.hash /\ r.meta # 0 /\ r.score = u.score
    <3>1. u.score <= best[u.hash]
      BY <2>1 DEF TopOf
    <3> QED
      BY <1>1, <1>6, <3>1
  <2>2. CASE \E i \in DOMAIN results : results[i].meta /\ results[i].hash = u.hash /\ results[i].score = u.score
    <3>1. best2[u.hash] >= u.score
      BY <1>1, <1>6, <2>2
    <3> QED
      BY <1>6, <3>1
  <2> QED
    BY <1>3, <1>7, <2>1, <2>2
<1>8. ASSUME NEW q \in N, q.meta # 0 PROVE q.score <= best2[q.hash]
  <2>1. PICK u \in U : Same(q, u)
    BY <1>5
  <2> QED
    BY <1>7, <1>8, <2>1 DEF Same
<1>9. ASSUME NEW h \in Hashes, NEW u \in U, u.hash = h, u.meta # 0, u.score >= best2[h]
      PROVE  Full(N, best2[h]) \/ \E q \in N : q.hash = h /\ q.meta # 0 /\ q.score = best2[h]
  <2>1. u.score = best2[h]
    BY <1>6, <1>7, <1>9
  <2>2. CASE \E q \in Board(N) : Same(q, u)
    BY <1>9, <2>1, <2>2 DEF Board, Same
  <2> QED
    BY <1>4, <1>9, <2>1, <2>2
<1>10. ASSUME NEW h \in Hashes, best2[h] # 0
       PROVE  Full(N, best2[h]) \/ \E q \in N : q.hash = h /\ q.meta # 0 /\ q.score = best2[h]
  <2>1. CASE \E i \in DOMAIN results : results[i].meta /\ results[i].hash = h /\ results[i].score = best2[h]
    BY <1>3, <1>9, <2>1
  <2>2. CASE best2[h] = best[h]
    <3>1. CASE Full(M, best[h])
      <4>1. Full(N, best[h])
        BY <1>6, <3>1, FullStays DEF N
      <4> QED
        BY <2>2, <4>1
    <3>2. CASE \E r \in M : r.hash = h /\ r.meta # 0 /\ r.score = best[h]
      BY <1>2, <1>9, <2>2, <3>2
    <3> QED
      BY <1>10, <2>2, <3>1, <3>2 DEF TopOf
  <2> QED
    BY <1>1, <2>1, <2>2
<1> QED
  BY <1>1, <1>4, <1>8, <1>10 DEF TopOf, N

\* Which says that the board is the top.
LEMMA TopIsTop ==
  ASSUME NEW M, Table(M), Flags(M), NEW best \in [Hashes -> Scores \cup {0}], TopOf(M, best),
         NEW listed, listed = {r.hash : r \in Board(M)}, NEW given, given = {h \in Hashes : best[h] # 0}
  PROVE  /\ Cardinality(listed) = IF Cardinality(given) < Limit THEN Cardinality(given) ELSE Limit
         /\ \A r \in Board(M) : r.score = best[r.hash]
         /\ \A r \in Board(M), h \in given \ listed : best[h] <= r.score
<1>1. /\ \A r \in M : r.score \in Nat \ {0} /\ r.hash \in Hashes
      /\ \A h \in Hashes : best[h] \in Nat
      /\ \A r \in Board(M) : r \in M /\ r.meta # 0 /\ r.onMeta
  <2>1. \A r \in M : r.score \in Nat \ {0} /\ r.hash \in Hashes
    BY ScoreFacts DEF Table, Stored, Row
  <2>2. \A h \in Hashes : best[h] \in Nat
    BY ScoreFacts
  <2> QED
    BY <2>1, <2>2 DEF Board, Flags
<1>2. ASSUME NEW r \in Board(M) PROVE r.score = best[r.hash]
  <2>1. r.score <= best[r.hash] /\ best[r.hash] # 0
    BY <1>1 DEF TopOf
  <2>2. CASE Full(M, best[r.hash])
    BY <1>1, <2>1, <2>2 DEF Full
  <2>3. CASE \E q \in M : q.hash = r.hash /\ q.meta # 0 /\ q.score = best[r.hash]
    BY <1>1, <2>3 DEF Table, OnePerHash
  <2> QED
    BY <1>1, <2>1, <2>2, <2>3 DEF TopOf
<1>3. ASSUME NEW h \in given \ listed PROVE Full(M, best[h])
  <2>1. CASE \E q \in M : q.hash = h /\ q.meta # 0 /\ q.score = best[h]
    <3>1. PICK q \in M : q.hash = h /\ q.meta # 0 /\ q.score = best[h]
      BY <2>1
    <3>2. ~q.onMeta
      BY <1>3, <3>1 DEF Board
    <3> QED
      BY <3>1, <3>2 DEF TopOf
  <2> QED
    BY <2>1 DEF TopOf
<1>4. IsFiniteSet(Board(M)) /\ IsFiniteSet(given) /\ Cardinality(Board(M)) <= Limit /\ Cardinality(given) \in Nat
  <2>1. Board(M) \in SUBSET M
    BY DEF Board
  <2> QED
    BY <2>1, FS_Subset, FS_CardinalityType DEF Table, TopOf
<1>5. Cardinality(listed) = Cardinality(Board(M))
  <2> DEFINE f == [r \in Board(M) |-> r.hash]
  <2>1. f \in [Board(M) -> listed] /\ \A y \in listed : \E r \in Board(M) : f[r] = y
    OBVIOUS
  <2>2. \A r, q \in Board(M) : f[r] = f[q] => r = q
    BY <1>1 DEF Table, OnePerHash
  <2> HIDE DEF f
  <2>3. f \in Injection(Board(M), listed)
    BY <2>1, <2>2 DEF Injection, IsInjective
  <2>4. f \in Surjection(Board(M), listed)
    BY <2>1 DEF Surjection
  <2>5. ExistsBijection(Board(M), listed)
    BY <2>3, <2>4 DEF ExistsBijection, Bijection
  <2> QED
    BY <1>4, <2>5, FS_Bijection
<1>6. listed \in SUBSET given
  BY <1>1, <1>2
<1>7. Cardinality(listed) <= Cardinality(given) /\ Cardinality(listed) \in Nat
  BY <1>4, <1>6, FS_Subset, FS_CardinalityType
<1>8. listed # given => Cardinality(listed) = Limit
  BY <1>3, <1>5, <1>6 DEF Full
<1>9. Cardinality(listed) = IF Cardinality(given) < Limit THEN Cardinality(given) ELSE Limit
  <2>1. CASE listed = given
    <3>1. Cardinality(given) <= Limit
      BY <1>4, <1>5, <2>1
    <3>2. Cardinality(listed) = Cardinality(given)
      BY Zenon, <2>1
    <3>3. Cardinality(given) \in Nat
      BY <1>4
    <3> QED
      BY ONLY <3>1, <3>2, <3>3, LimitAssumption
  <2>2. CASE listed # given
    <3>1. Cardinality(listed) = Limit /\ ~(Cardinality(given) < Limit)
      BY <1>4, <1>7, <1>8, <2>2, LimitAssumption
    <3> QED
      BY Zenon, <3>1
  <2> QED
    BY <2>1, <2>2
<1>10. \A r \in Board(M), h \in given \ listed : best[h] <= r.score
  <2>1. \A h \in given \ listed : h \in Hashes
    OBVIOUS
  <2> QED
    BY <1>1, <1>3, <2>1 DEF Full
<1> QED
  BY <1>2, <1>9, <1>10

-----------------------------------------------------------------------------
(* The best of a song.                                                     *)

\* BestOverall is no less than any score the boards list, and one of them unless it is 0.
LEMMA BestFacts ==
  ASSUME NEW M, Table(M)
  PROVE  /\ BestOverall(M) \in Nat
         /\ \A r \in M : (r.onMeta => BestOverall(M) >= r.score) /\ (r.onFg => BestOverall(M) >= r.fgScore)
         /\ \/ BestOverall(M) = 0
            \/ \E r \in M : r.onMeta /\ BestOverall(M) = r.score
            \/ \E r \in M : r.onFg /\ BestOverall(M) = r.fgScore
<1> DEFINE A == {x \in M : x.onMeta}
           B == {x \in M : x.onFg}
           f == [r \in M |-> r.score]
           g == [r \in M |-> r.fgScore]
           SA == {f[r] : r \in A}
           SB == {g[r] : r \in B}
           S == {0} \cup SA \cup SB
<1>1. BestOverall(M) = SetMax(S)
  <2>1. SA = {r.score : r \in A} /\ SB = {r.fgScore : r \in B}
    OBVIOUS
  <2> QED
    BY Zenon, <2>1 DEF BestOverall
<1>2. IsFiniteSet(A) /\ IsFiniteSet(B)
  <2>1. A \in SUBSET M /\ B \in SUBSET M
    OBVIOUS
  <2> QED
    BY <2>1, FS_Subset DEF Table
<1>3. \A r \in M : f[r] = r.score /\ g[r] = r.fgScore /\ r.score \in Nat /\ r.fgScore \in Nat
  BY ScoreFacts DEF Table, Stored, Row
<1>4. /\ \A r \in A : r \in M /\ r.onMeta
      /\ \A r \in B : r \in M /\ r.onFg
      /\ \A r \in M : (r.onMeta => r \in A) /\ (r.onFg => r \in B)
  OBVIOUS
<1> HIDE DEF f, g, A, B
<1>5. IsFiniteSet(SA) /\ IsFiniteSet(SB) /\ IsFiniteSet({0})
  <2>1. IsFiniteSet(SA)
    BY ONLY <1>2, ImageIsFinite
  <2>2. IsFiniteSet(SB)
    BY ONLY <1>2, ImageIsFinite
  <2> QED
    BY <2>1, <2>2, FS_Singleton
<1>6. /\ \A y \in S : y = 0 \/ (\E r \in A : y = f[r]) \/ \E r \in B : y = g[r]
      /\ 0 \in S /\ (\A r \in A : f[r] \in S) /\ \A r \in B : g[r] \in S
  OBVIOUS
<1>7. IsFiniteSet(S)
  <2> HIDE DEF SA, SB
  <2>1. IsFiniteSet({0} \cup SA)
    BY <1>5, FS_Union
  <2> QED
    BY <1>5, <2>1, FS_Union
<1> HIDE DEF S
<1>8. S \subseteq Nat
  BY <1>3, <1>4, <1>6
<1>9. SetMax(S) \in S /\ \A y \in S : SetMax(S) >= y
  BY <1>6, <1>7, <1>8, SetMaxFacts
<1>10. BestOverall(M) \in S /\ \A y \in S : BestOverall(M) >= y
  BY <1>1, <1>9
<1>11. \A r \in M : (r.onMeta => BestOverall(M) >= r.score) /\ (r.onFg => BestOverall(M) >= r.fgScore)
  BY <1>3, <1>4, <1>6, <1>10
<1>12. \/ BestOverall(M) = 0
       \/ \E r \in M : r.onMeta /\ BestOverall(M) = r.score
       \/ \E r \in M : r.onFg /\ BestOverall(M) = r.fgScore
  BY <1>3, <1>4, <1>6, <1>10
<1> QED
  BY <1>8, <1>10, <1>11, <1>12

\* A merge leaves it no lower: the row that has it stays a candidate of a board, of the meta board
\* when its base score caught up with its FG score.
LEMMA BestStep ==
  ASSUME NEW M, Table(M), Flags(M), NEW results, ResultsOK(results), NEW nm \in Nat \ {0}, NEW nf \in Nat \ {0},
         NEW U, U = Unordered(M, results, nm, nf), Numbered(U)
  PROVE  BestOverall(Normalize(U)) >= BestOverall(M)
<1> DEFINE N == Normalize(U)
<1>1. /\ Table(U)
      /\ \A r \in M : \E u \in U : /\ u.hash = r.hash
                                   /\ r.meta # 0 => u.meta = r.meta /\ u.score >= r.score
                                   /\ r.fg # 0 => u.fg = r.fg /\ u.fgScore >= r.fgScore
  BY UnorderedFacts
<1>2. Table(N)
  BY <1>1, NormalizeFacts
<1>3. /\ Candidates(U) # {} => \E q \in Board(N) : \A r \in Candidates(U) : q.score >= r.score
      /\ FgCandidates(U) # {} => \E q \in N : q.onFg /\ \A r \in FgCandidates(U) : q.fgScore >= r.fgScore
  BY <1>1, BoardFacts, FgBoardFacts
<1> HIDE DEF N
<1>4. /\ BestOverall(N) \in Nat /\ BestOverall(M) \in Nat
      /\ \A r \in N : (r.onMeta => BestOverall(N) >= r.score) /\ (r.onFg => BestOverall(N) >= r.fgScore)
      /\ \/ BestOverall(M) = 0
         \/ \E r \in M : r.onMeta /\ BestOverall(M) = r.score
         \/ \E r \in M : r.onFg /\ BestOverall(M) = r.fgScore
  BY <1>2, BestFacts
<1>5. \A T : Table(T) => \A r \in T : r.score \in Nat /\ r.fgScore \in Nat
  BY ScoreFacts DEF Table, Stored, Row
<1>6. ASSUME NEW u \in U, u.meta # 0 PROVE BestOverall(N) >= u.score
  <2>1. u \in Candidates(U)
    BY <1>6 DEF Candidates
  <2>2. PICK q \in Board(N) : \A r \in Candidates(U) : q.score >= r.score
    BY <1>3, <2>1
  <2>3. q \in N /\ q.onMeta /\ q.score >= u.score
    BY <2>1, <2>2 DEF Board
  <2> QED
    BY <1>1, <1>2, <1>4, <1>5, <2>3
<1>7. ASSUME NEW u \in U, u.fg # 0 PROVE BestOverall(N) >= u.fgScore
  <2>1. CASE u.fgScore > u.score
    <3>1. u \in FgCandidates(U)
      BY <1>7, <2>1 DEF FgCandidates
    <3>2. PICK q \in N : q.onFg /\ \A r \in FgCandidates(U) : q.fgScore >= r.fgScore
      BY <1>3, <3>1
    <3>3. q.fgScore >= u.fgScore
      BY <3>1, <3>2
    <3> QED
      BY <1>1, <1>2, <1>4, <1>5, <3>2, <3>3
  <2>2. CASE ~(u.fgScore > u.score)
    <3>1. u.meta # 0
      BY <1>1, <2>2 DEF Table, Stored
    <3>2. BestOverall(N) >= u.score
      BY <1>6, <3>1
    <3> QED
      BY <1>1, <1>4, <1>5, <2>2, <3>2
  <2> QED
    BY <2>1, <2>2
<1>8. CASE BestOverall(M) = 0
  BY <1>4, <1>8 DEF N
<1>9. CASE \E r \in M : r.onMeta /\ BestOverall(M) = r.score
  <2>1. PICK r \in M : r.onMeta /\ BestOverall(M) = r.score
    BY <1>9
  <2>2. PICK u \in U : u.meta # 0 /\ u.score >= r.score
    BY <1>1, <2>1 DEF Flags
  <2>3. BestOverall(N) >= u.score
    BY <1>6, <2>2
  <2> QED
    BY <1>1, <1>4, <1>5, <2>1, <2>2, <2>3 DEF N
<1>10. CASE \E r \in M : r.onFg /\ BestOverall(M) = r.fgScore
  <2>1. PICK r \in M : r.onFg /\ BestOverall(M) = r.fgScore
    BY <1>10
  <2>2. PICK u \in U : u.fg # 0 /\ u.fgScore >= r.fgScore
    BY <1>1, <2>1 DEF Flags
  <2>3. BestOverall(N) >= u.fgScore
    BY <1>7, <2>2
  <2> QED
    BY <1>1, <1>4, <1>5, <2>1, <2>2, <2>3 DEF N
<1> QED
  BY <1>4, <1>8, <1>9, <1>10

-----------------------------------------------------------------------------
(* What a store is given: of a solve, and of a promotion.                  *)

\* The loadouts of one solve are distinct, each with a meta result.
LEMMA SolvesAreOK ==
  /\ \A results \in OneResult : ResultsOK(results)
  /\ \A results \in Solves : ResultsOK(results)
<1>1. ASSUME NEW a \in LoadoutResults PROVE GivenOK(a)
  <2>1. PICK h \in Hashes, s \in Scores, f \in FgScores \cup {0} :
            a = [hash |-> h, score |-> s, meta |-> TRUE, fgScore |-> f, fg |-> f # 0]
    BY SMT DEF LoadoutResults, Result
  <2>2. a.hash = h /\ a.score = s /\ a.meta = TRUE /\ a.fgScore = f /\ a.fg = (f # 0)
    BY <2>1
  <2> QED
    BY <2>2 DEF GivenOK
<1>2. IsFiniteSet(1..1) /\ IsFiniteSet(1..2) /\ 1..1 \subseteq Nat /\ 1..2 \subseteq Nat
  <2>1. \A n \in Int : IsFiniteSet(1..n)
    BY FS_Interval
  <2>2. 1 \in Int /\ 2 \in Int
    OBVIOUS
  <2>3. 1..1 \subseteq Nat /\ 1..2 \subseteq Nat
    OBVIOUS
  <2> QED
    BY Zenon, <2>1, <2>2, <2>3
<1>3. ASSUME NEW results \in OneResult PROVE ResultsOK(results)
  <2>1. PICK a \in LoadoutResults : results = <<a>>
    BY DEF OneResult
  <2>2. DOMAIN results = 1..1 /\ results[1] = a
    BY <2>1
  <2>3. \A i, j \in DOMAIN results : i = j
    BY <2>2
  <2>4. \A i \in DOMAIN results : results[i] = a
    BY <2>2
  <2> QED
    BY <1>1, <1>2, <2>2, <2>3, <2>4 DEF ResultsOK, Distinct
<1>4. ASSUME NEW results \in LoadoutResults \X LoadoutResults, Distinct(results) PROVE ResultsOK(results)
  <2>1. DOMAIN results = 1..2 /\ results[1] \in LoadoutResults /\ results[2] \in LoadoutResults
    OBVIOUS
  <2>2. \A i \in DOMAIN results : results[i] \in LoadoutResults
    BY <2>1
  <2> QED
    BY <1>1, <1>2, <1>4, <2>1, <2>2 DEF ResultsOK
<1> QED
  BY <1>3, <1>4 DEF Solves

\* The greatest number of a side in finitely many rows is a number.
LEMMA NextFacts ==
  ASSUME NEW M, IsFiniteSet(M), \A r \in M : r \in Row
  PROVE  /\ 1 + SetMax({0} \cup {r.meta : r \in M}) \in Nat \ {0}
         /\ 1 + SetMax({0} \cup {r.fg : r \in M}) \in Nat \ {0}
         /\ \A r \in M : /\ r.meta < 1 + SetMax({0} \cup {x.meta : x \in M})
                         /\ r.fg < 1 + SetMax({0} \cup {x.fg : x \in M})
<1> DEFINE f == [r \in M |-> r.meta]
           g == [r \in M |-> r.fg]
           SA == {f[r] : r \in M}
           SB == {g[r] : r \in M}
<1>1. SA = {r.meta : r \in M} /\ SB = {r.fg : r \in M}
  OBVIOUS
<1>2. \A r \in M : f[r] = r.meta /\ g[r] = r.fg /\ r.meta \in Nat /\ r.fg \in Nat
  BY DEF Row
<1> HIDE DEF f, g
<1>3. SA \subseteq Nat /\ SB \subseteq Nat /\ (\A r \in M : r.meta \in SA /\ r.fg \in SB)
  BY <1>2
<1>4. IsFiniteSet(SA) /\ IsFiniteSet(SB) /\ IsFiniteSet({0})
  BY ImageIsFinite, FS_Singleton
<1> HIDE DEF SA, SB
<1>5. IsFiniteSet({0} \cup SA) /\ IsFiniteSet({0} \cup SB)
  BY <1>4, FS_Union
<1>6. \A S : IsFiniteSet({0} \cup S) /\ S \subseteq Nat =>
          SetMax({0} \cup S) \in Nat /\ \A y \in S : SetMax({0} \cup S) >= y
  <2>1. SUFFICES ASSUME NEW S, IsFiniteSet({0} \cup S), S \subseteq Nat
                 PROVE  SetMax({0} \cup S) \in Nat /\ \A y \in S : SetMax({0} \cup S) >= y
    OBVIOUS
  <2>2. {0} \cup S \subseteq Nat /\ {0} \cup S # {}
    BY <2>1
  <2>3. SetMax({0} \cup S) \in {0} \cup S /\ \A y \in {0} \cup S : SetMax({0} \cup S) >= y
    BY <2>1, <2>2, SetMaxFacts
  <2> QED
    BY <2>2, <2>3
<1> DEFINE ma == SetMax({0} \cup SA)
           mb == SetMax({0} \cup SB)
<1>7. ma \in Nat /\ mb \in Nat /\ (\A y \in SA : ma >= y) /\ \A y \in SB : mb >= y
  BY <1>3, <1>5, <1>6
<1> HIDE DEF ma, mb
<1>8. 1 + ma \in Nat \ {0} /\ 1 + mb \in Nat \ {0} /\ \A r \in M : r.meta < 1 + ma /\ r.fg < 1 + mb
  BY <1>2, <1>3, <1>7
<1>9. /\ 1 + SetMax({0} \cup SA) \in Nat \ {0} /\ 1 + SetMax({0} \cup SB) \in Nat \ {0}
      /\ \A r \in M : r.meta < 1 + SetMax({0} \cup SA) /\ r.fg < 1 + SetMax({0} \cup SB)
  BY <1>8 DEF ma, mb
<1> QED
  BY Zenon, <1>1, <1>9

\* The tables of the isolated databases are tables.
LEMMA IsolatedAreOK == \A M \in Isolated : Table(M) /\ Flags(M)
<1> DEFINE After(table, r) ==
        Merge(table, r, 1 + SetMax({0} \cup {x.meta : x \in table}), 1 + SetMax({0} \cup {x.fg : x \in table}))
<1>1. ASSUME NEW M, Table(M), NEW results, ResultsOK(results) PROVE Table(After(M, results)) /\ Flags(After(M, results))
  <2>1. IsFiniteSet(M) /\ \A r \in M : r \in Row
    BY <1>1 DEF Table, Stored
  <2>2. PICK nm \in Nat \ {0} : nm = 1 + SetMax({0} \cup {r.meta : r \in M})
    BY <2>1, NextFacts
  <2>3. PICK nf \in Nat \ {0} : nf = 1 + SetMax({0} \cup {r.fg : r \in M})
    BY <2>1, NextFacts
  <2>4. After(M, results) = Merge(M, results, nm, nf)
    BY <2>2, <2>3
  <2> HIDE DEF After
  <2> QED
    BY <1>1, <2>4, MergeFacts
<1>2. Table({})
  BY FS_EmptySet DEF Table, OnePerHash
<1>3. Isolated = {After({}, r) : r \in Solves} \cup {After(After({}, r1), r2) : r1 \in OneResult, r2 \in OneResult}
  BY DEF Isolated
<1> HIDE DEF After
<1>4. \A r \in Solves : Table(After({}, r)) /\ Flags(After({}, r))
  BY <1>1, <1>2, SolvesAreOK
<1>5. \A r1, r2 \in OneResult : Table(After(After({}, r1), r2)) /\ Flags(After(After({}, r1), r2))
  BY <1>1, <1>2, SolvesAreOK
<1> QED
  BY <1>3, <1>4, <1>5

\* A promotion lists a table's rows, each once: a row without its meta result has an FG result above
\* its base score.
LEMMA PromotionsAreOK == \A results \in Promotions : ResultsOK(results)
<1>1. ASSUME NEW M \in Isolated, NEW o \in Orders(M)
      PROVE  /\ ResultsOK([i \in DOMAIN o |-> PromotedRow(o[i])])
             /\ ResultsOK([i \in DOMAIN o |-> PromotedEntry(o[i])])
  <2> DEFINE rowwise == [i \in DOMAIN o |-> PromotedRow(o[i])]
             entrywise == [i \in DOMAIN o |-> PromotedEntry(o[i])]
  <2>1. Table(M) /\ Flags(M)
    BY IsolatedAreOK
  <2>2. o \in [1..Cardinality(M) -> M] /\ \A i, j \in DOMAIN o : i < j => o[i] # o[j]
    BY DEF Orders
  <2>3. Cardinality(M) \in Nat /\ DOMAIN o = 1..Cardinality(M)
    BY <2>1, <2>2, FS_CardinalityType DEF Table
  <2>4. IsFiniteSet(DOMAIN o) /\ DOMAIN o \subseteq Nat
    BY <2>3, FS_Interval
  <2>5. ASSUME NEW i \in DOMAIN o, NEW j \in DOMAIN o, i # j PROVE o[i].hash # o[j].hash
    <3>1. i < j \/ j < i
      BY <2>4, <2>5
    <3>2. o[i] # o[j] /\ o[i] \in M /\ o[j] \in M
      BY <2>2, <2>3, <3>1
    <3> QED
      BY <2>1, <3>2 DEF Table, OnePerHash
  <2>6. ASSUME NEW r \in M
        PROVE  /\ GivenOK(PromotedRow(r)) /\ PromotedRow(r).hash = r.hash
               /\ GivenOK(PromotedEntry(r)) /\ PromotedEntry(r).hash = r.hash
    <3>1. /\ r.hash \in Hashes /\ r.score \in Scores /\ r.fgScore \in FgScores \cup {0}
          /\ r.onMeta \in BOOLEAN /\ r.onFg \in BOOLEAN
          /\ r.fg # 0 => r.fgScore # 0
          /\ r.meta = 0 => r.fg # 0 /\ r.fgScore > r.score
          /\ r.onMeta \/ r.onFg
          /\ r.onFg => r.fg # 0 /\ r.fgScore > r.score
      BY <2>1 DEF Table, Stored, Row, Flags
    <3>2. /\ PromotedRow(r).hash = r.hash /\ PromotedRow(r).score = r.score /\ PromotedRow(r).fgScore = r.fgScore
          /\ PromotedRow(r).meta = (r.meta # 0) /\ PromotedRow(r).fg = (r.fg # 0)
      BY DEF PromotedRow, Result
    <3>3. /\ PromotedEntry(r).hash = r.hash /\ PromotedEntry(r).score = r.score /\ PromotedEntry(r).fgScore = r.fgScore
          /\ PromotedEntry(r).meta = r.onMeta /\ PromotedEntry(r).fg = r.onFg
      BY DEF PromotedEntry, Result
    <3>4. GivenOK(PromotedRow(r))
      BY <3>1, <3>2 DEF GivenOK
    <3>5. GivenOK(PromotedEntry(r))
      BY <3>1, <3>3 DEF GivenOK
    <3> QED
      BY <3>2, <3>3, <3>4, <3>5
  <2>7. \A i \in DOMAIN o : o[i] \in M
    BY <2>2, <2>3
  <2>8. /\ DOMAIN rowwise = DOMAIN o /\ \A i \in DOMAIN o : rowwise[i] = PromotedRow(o[i])
        /\ DOMAIN entrywise = DOMAIN o /\ \A i \in DOMAIN o : entrywise[i] = PromotedEntry(o[i])
    OBVIOUS
  <2> HIDE DEF rowwise, entrywise
  <2>9. ResultsOK(rowwise)
    BY <2>4, <2>5, <2>6, <2>7, <2>8 DEF ResultsOK, Distinct
  <2>10. ResultsOK(entrywise)
    BY <2>4, <2>5, <2>6, <2>7, <2>8 DEF ResultsOK, Distinct
  <2> QED
    BY <2>9, <2>10 DEF rowwise, entrywise
<1>2. ASSUME NEW results \in Promotions
      PROVE  \E M \in Isolated : \E o \in Orders(M) :
                 \/ results = [i \in DOMAIN o |-> PromotedRow(o[i])]
                 \/ results = [i \in DOMAIN o |-> PromotedEntry(o[i])]
  BY DEF Promotions
<1> QED
  BY <1>1, <1>2

-----------------------------------------------------------------------------
(* The invariant.                                                          *)

AllRows == UNION {rows[t] : t \in Songs}

\* Every song's rows are a marked table whose board is the top of what the stores were given; the
\* rows of all songs are finitely many, and their numbers their own.
SongInv(s) ==
    /\ Table(rows[s]) /\ Flags(rows[s])
    /\ submitted[s] \in [Hashes -> Scores \cup {0}]
    /\ TopOf(rows[s], submitted[s])
IInv ==
    /\ rows \in [Songs -> SUBSET Row]
    /\ submitted \in [Songs -> [Hashes -> Scores \cup {0}]]
    /\ \A s \in Songs : SongInv(s)
    /\ IsFiniteSet(AllRows)
    /\ NumbersAreUnique

\* One song's part of the numbers.
LEMMA SongNumbers ==
  ASSUME NumbersAreUnique, NEW s \in Songs
  PROVE  Numbered(rows[s])
<1>1. \A r, q \in rows[s] : r.hash # q.hash => <<s, r.hash>> # <<s, q.hash>>
  OBVIOUS
<1> QED
  BY <1>1 DEF NumbersAreUnique, Numbered

\* A store of one song, in the words of the lemmas above.
LEMMA StoreIs ==
  ASSUME IInv, NEW s \in Songs, NEW results, StoreResults(s, results)
  PROVE  \E nm \in Nat \ {0}, nf \in Nat \ {0} :
             /\ \A t \in Songs : \A r \in rows[t] : r.meta < nm /\ r.fg < nf
             /\ rows' = [rows EXCEPT ![s] = Merge(rows[s], results, nm, nf)]
             /\ submitted' = [submitted EXCEPT ![s] = Submit(submitted[s], results)]
<1>1. IsFiniteSet(AllRows) /\ (\A r \in AllRows : r \in Row) /\ \A t \in Songs : \A r \in rows[t] : r \in AllRows
  BY DEF IInv, AllRows
<1>2. PICK nm \in Nat \ {0} : nm = 1 + SetMax({0} \cup {r.meta : r \in AllRows})
  BY <1>1, NextFacts
<1>3. PICK nf \in Nat \ {0} : nf = 1 + SetMax({0} \cup {r.fg : r \in AllRows})
  BY <1>1, NextFacts
<1>4. \A r \in AllRows : r.meta < nm /\ r.fg < nf
  BY <1>1, <1>2, <1>3, NextFacts
<1>5. nm = NextNumber(rows, s, "meta") /\ nf = NextNumber(rows, s, "fg")
  BY Zenon, <1>2, <1>3, NextIs DEF AllRows
<1>6. rows' = [rows EXCEPT ![s] = Merge(rows[s], results, nm, nf)]
  BY <1>5 DEF StoreResults, StoreIn, IInv
<1>7. submitted' = [submitted EXCEPT ![s] = Submit(submitted[s], results)]
  BY Zenon DEF StoreResults, Submit
<1> QED
  BY <1>1, <1>4, <1>6, <1>7

\* A store keeps the invariant, no song's best falls, and what stays keeps its numbers.
LEMMA StoreStep ==
  ASSUME IInv, NEW s \in Songs, NEW results, ResultsOK(results), StoreResults(s, results)
  PROVE  /\ IInv'
         /\ \A t \in Songs : BestOverall(rows'[t]) >= BestOverall(rows[t])
         /\ \A t \in Songs : \A r \in rows[t], q \in rows'[t] : r.hash = q.hash =>
                /\ r.meta # 0 => q.meta = r.meta
                /\ r.fg # 0 => q.fg = r.fg
<1> DEFINE M == rows[s]
<1>1. PICK nm \in Nat \ {0}, nf \in Nat \ {0} :
          /\ \A t \in Songs : \A r \in rows[t] : r.meta < nm /\ r.fg < nf
          /\ rows' = [rows EXCEPT ![s] = Merge(M, results, nm, nf)]
          /\ submitted' = [submitted EXCEPT ![s] = Submit(submitted[s], results)]
  BY StoreIs
<1> DEFINE U == Unordered(M, results, nm, nf)
           N == Normalize(U)
<1>2. U = Unordered(M, results, nm, nf) /\ N = Normalize(U)
  OBVIOUS
<1>21. N = Merge(M, results, nm, nf)
  BY MergeIs
<1> HIDE DEF U, N
<1>4. /\ Table(M) /\ Flags(M) /\ Numbered(M) /\ submitted[s] \in [Hashes -> Scores \cup {0}]
      /\ TopOf(M, submitted[s])
  BY SongNumbers DEF IInv, SongInv
<1>5. /\ Numbered(U)
      /\ \A u \in U : /\ u.meta = 0 \/ u.meta >= nm \/ \E r \in M : r.hash = u.hash /\ r.meta = u.meta
                      /\ u.fg = 0 \/ u.fg >= nf \/ \E r \in M : r.hash = u.hash /\ r.fg = u.fg
  BY <1>1, <1>2, <1>4, UnorderedNumbers
<1>6. Table(U)
  BY <1>2, <1>4, UnorderedFacts
<1>7. /\ Table(N) /\ Flags(N)
      /\ \A r \in M, q \in N : r.hash = q.hash => /\ r.meta # 0 => q.meta = r.meta
                                                  /\ r.fg # 0 => q.fg = r.fg
  BY <1>4, <1>21, MergeFacts
<1>8. \A q \in N : \E u \in U : Same(q, u)
  BY ONLY <1>6, <1>2, NormalizeFacts
<1>9. /\ rows' \in [Songs -> SUBSET Row] /\ rows'[s] = N /\ \A t \in Songs \ {s} : rows'[t] = rows[t]
  <2>1. N \subseteq Row
    BY <1>7 DEF Table, Stored
  <2> QED
    BY <1>1, <1>21, <2>1 DEF IInv
<1>10. /\ submitted' \in [Songs -> [Hashes -> Scores \cup {0}]] /\ submitted'[s] = Submit(submitted[s], results)
      /\ \A t \in Songs \ {s} : submitted'[t] = submitted[t]
  <2>1. IsFiniteSet({h \in Hashes : submitted[s][h] # 0})
    BY <1>4 DEF TopOf
  <2>2. Submit(submitted[s], results) \in [Hashes -> Scores \cup {0}]
    BY <1>4, <2>1, SubmittedFacts
  <2> QED
    BY <1>1, <2>2 DEF IInv
<1>11. TopOf(N, submitted'[s]) /\ BestOverall(N) >= BestOverall(M)
  <2>1. nm \in Nat \ {0} /\ nf \in Nat \ {0} /\ ResultsOK(results) /\ submitted'[s] = Submit(submitted[s], results)
    BY <1>10
  <2> HIDE DEF M
  <2>2. TopOf(Normalize(U), submitted'[s])
    BY ONLY <1>4, <1>5, <1>2, <2>1, TopStep
  <2>3. BestOverall(Normalize(U)) >= BestOverall(M)
    BY ONLY <1>4, <1>5, <1>2, <2>1, BestStep
  <2> QED
    BY <1>2, <2>2, <2>3
<1>12. ASSUME NEW t \in Songs PROVE SongInv(t)'
  <2>1. CASE t = s
    BY <1>7, <1>9, <1>10, <1>11, <2>1 DEF SongInv
  <2>2. CASE t # s
    <3>1. rows'[t] = rows[t] /\ submitted'[t] = submitted[t] /\ SongInv(t)
      BY <1>9, <1>10, <2>2 DEF IInv
    <3> QED
      BY <3>1 DEF SongInv
  <2> QED
    BY <2>1, <2>2
<1>13. IsFiniteSet(AllRows)'
  <2>1. AllRows' \in SUBSET (AllRows \cup N)
    <3>1. ASSUME NEW r \in AllRows' PROVE r \in AllRows \cup N
      <4>1. PICK t \in Songs : r \in rows'[t]
        BY DEF AllRows
      <4> QED
        BY <1>9, <4>1 DEF AllRows
    <3> QED
      BY <3>1
  <2>2. IsFiniteSet(AllRows \cup N)
    BY <1>7, FS_Union DEF IInv, Table
  <2> QED
    BY <2>1, <2>2, FS_Subset
<1>14. ASSUME NEW q \in N
       PROVE  /\ q.meta \in Nat /\ q.fg \in Nat
              /\ q.meta = 0 \/ q.meta >= nm \/ \E r \in M : r.hash = q.hash /\ r.meta = q.meta
              /\ q.fg = 0 \/ q.fg >= nf \/ \E r \in M : r.hash = q.hash /\ r.fg = q.fg
  <2>1. PICK u \in U : Same(q, u)
    BY <1>8
  <2>2. q.meta \in Nat /\ q.fg \in Nat
    BY <1>7 DEF Table, Stored, Row
  <2> QED
    BY <1>5, <2>1, <2>2 DEF Same
<1>15. \A t \in Songs : \A r \in rows[t] : r.meta \in Nat /\ r.fg \in Nat
  BY DEF IInv, Row
<1>16. ASSUME NEW q \in N, NEW t \in Songs \ {s}, NEW r \in rows[t]
       PROVE  /\ q.meta # 0 => q.meta # r.meta
              /\ q.fg # 0 => q.fg # r.fg
  <2>1. \A p \in M : (p.meta # 0 => p.meta # r.meta) /\ (p.fg # 0 => p.fg # r.fg)
    <3>1. \A p \in M : <<s, p.hash>> # <<t, r.hash>>
      OBVIOUS
    <3> QED
      BY <3>1 DEF IInv, NumbersAreUnique
  <2>2. r.meta < nm /\ r.fg < nf
    BY <1>1
  <2> QED
    BY <1>14, <1>15, <2>1, <2>2
<1>17. ASSUME NEW q \in N, NEW r \in N, q.hash # r.hash
       PROVE  /\ q.meta # 0 => q.meta # r.meta
              /\ q.fg # 0 => q.fg # r.fg
  <2>1. PICK u \in U : Same(q, u)
    BY <1>8
  <2>2. PICK v \in U : Same(r, v)
    BY <1>8
  <2> QED
    BY <1>5, <1>17, <2>1, <2>2 DEF Numbered, Same
<1>18. NumbersAreUnique'
  <2>1. ASSUME NEW t \in Songs, NEW w \in Songs, NEW q \in rows'[t], NEW r \in rows'[w], <<t, q.hash>> # <<w, r.hash>>
        PROVE  /\ q.meta # 0 => q.meta # r.meta
               /\ q.fg # 0 => q.fg # r.fg
    <3>1. CASE t = s /\ w = s
      BY <1>9, <1>17, <2>1, <3>1
    <3>2. CASE t = s /\ w # s
      BY <1>9, <1>16, <3>2
    <3>3. CASE t # s /\ w = s
      BY <1>9, <1>16, <3>3
    <3>4. CASE t # s /\ w # s
      <4>1. q \in rows[t] /\ r \in rows[w]
        BY <1>9, <3>4
      <4> QED
        BY <2>1, <4>1 DEF IInv, NumbersAreUnique
    <3> QED
      BY <3>1, <3>2, <3>3, <3>4
  <2> QED
    BY <2>1 DEF NumbersAreUnique
<1>19. IInv'
  BY <1>9, <1>10, <1>12, <1>13, <1>18 DEF IInv
<1>20. ASSUME NEW t \in Songs PROVE BestOverall(rows'[t]) >= BestOverall(rows[t])
  <2>1. CASE t = s
    BY <1>9, <1>11, <2>1
  <2>2. CASE t # s
    <3>1. BestOverall(rows[t]) \in Nat
      BY BestFacts DEF IInv, SongInv
    <3> QED
      BY <1>9, <2>2, <3>1
  <2> QED
    BY <2>1, <2>2
<1>22. ASSUME NEW t \in Songs, NEW r \in rows[t], NEW q \in rows'[t], r.hash = q.hash
       PROVE  (r.meta # 0 => q.meta = r.meta) /\ (r.fg # 0 => q.fg = r.fg)
  <2>1. CASE t = s
    BY <1>7, <1>9, <1>22, <2>1
  <2>2. CASE t # s
    <3>1. q = r
      BY <1>9, <1>22, <2>2 DEF IInv, SongInv, Table, OnePerHash
    <3> QED
      BY <3>1
  <2> QED
    BY <2>1, <2>2
<1> QED
  BY <1>19, <1>20, <1>22

\* No song has rows at the start, and nothing was given.
LEMMA InitInv == Init => IInv
<1> SUFFICES ASSUME Init PROVE IInv
  OBVIOUS
<1>1. /\ rows = [s \in Songs |-> {}] /\ submitted = [s \in Songs |-> [h \in Hashes |-> 0]]
      /\ rows \in [Songs -> SUBSET Row] /\ submitted \in [Songs -> [Hashes -> Scores \cup {0}]]
  BY DEF Init
<1>2. IsFiniteSet({}) /\ Cardinality({}) = 0
  BY FS_EmptySet
<1>3. AllRows = {}
  BY <1>1 DEF AllRows
<1>4. ASSUME NEW s \in Songs PROVE SongInv(s)
  <2>1. rows[s] = {} /\ \A h \in Hashes : submitted[s][h] = 0
    BY <1>1
  <2>2. Board(rows[s]) = {} /\ {h \in Hashes : submitted[s][h] # 0} = {}
    BY <2>1 DEF Board
  <2>3. Table(rows[s]) /\ Flags(rows[s])
    BY <1>2, <2>1 DEF Table, Flags, OnePerHash
  <2>4. Cardinality(Board(rows[s])) <= Limit /\ IsFiniteSet({h \in Hashes : submitted[s][h] # 0})
    BY <1>2, <2>2, LimitAssumption
  <2>5. TopOf(rows[s], submitted[s])
    BY <2>1, <2>4 DEF TopOf
  <2> QED
    BY <1>1, <2>3, <2>5 DEF SongInv
<1>5. NumbersAreUnique
  BY <1>1 DEF NumbersAreUnique
<1> QED
  BY <1>1, <1>2, <1>3, <1>4, <1>5 DEF IInv

\* Every step keeps the invariant, and none lets a best fall or a number change.
LEMMA NextStep ==
  ASSUME IInv, Next
  PROVE  /\ IInv'
         /\ \A s \in Songs : BestOverall(rows'[s]) >= BestOverall(rows[s])
         /\ \A s \in Songs : \A r \in rows[s], q \in rows'[s] : r.hash = q.hash =>
                /\ r.meta # 0 => q.meta = r.meta
                /\ r.fg # 0 => q.fg = r.fg
<1>1. PICK s \in Songs : StoreSolve(s) \/ Promote(s)
  BY DEF Next
<1>2. CASE StoreSolve(s)
  BY <1>2, SolvesAreOK, StoreStep DEF StoreSolve
<1>3. CASE Promote(s)
  BY <1>3, PromotionsAreOK, StoreStep DEF Promote
<1> QED
  BY <1>1, <1>2, <1>3

\* The invariant holds of every reachable state.
THEOREM InvariantHolds == Spec => []IInv
<1>1. ASSUME IInv, UNCHANGED vars PROVE IInv'
  <2>1. rows' = rows /\ submitted' = submitted
    BY <1>1 DEF vars
  <2>2. \A s \in Songs : SongInv(s)'
    BY <1>1, <2>1 DEF IInv, SongInv
  <2>3. AllRows' = AllRows /\ (NumbersAreUnique' <=> NumbersAreUnique)
    BY <2>1 DEF AllRows, NumbersAreUnique
  <2> QED
    BY <1>1, <2>1, <2>2, <2>3 DEF IInv
<1>2. IInv /\ [Next]_vars => IInv'
  BY <1>1, NextStep
<1> QED
  BY <1>2, InitInv, PTL DEF Spec

\* Whatever a merge drops, reuses and renumbers, the rows it leaves satisfy the tables' constraints
\* and the records' checks, and no two of the file share an entry number (tables.py, boards.py).
THEOREM EveryStoreIsAccepted == Spec => []RowsAreValid
<1>1. IInv => RowsAreValid
  <2> SUFFICES ASSUME IInv PROVE ConstraintsHold
    BY DEF IInv, RowsAreValid
  <2>1. \A s \in Songs : Table(rows[s]) /\ Flags(rows[s])
    BY DEF IInv, SongInv
  <2> QED
    BY <2>1 DEF ConstraintsHold, Table, OnePerHash, Stored, Flags
<1> QED
  BY <1>1, InvariantHolds, PTL

\* A stored score is the score of the result stored with it (boards.py, _merge_meta, _merge_fg, _project).
THEOREM StoredScoresReplay == Spec => []ScoresReplay
<1>1. IInv => ScoresReplay
  BY DEF IInv, SongInv, Table, Stored, ScoresReplay
<1> QED
  BY <1>1, InvariantHolds, PTL

\* The meta board is the top of everything the stores were ever given, for every Limit and every
\* set of scores, though what falls off the boards is forgotten (boards.py, _normalize).
THEOREM NothingGoodIsForgotten == Spec => []MetaBoardIsTheTop
<1>1. IInv => MetaBoardIsTheTop
  <2> SUFFICES ASSUME IInv, NEW s \in Songs
               PROVE  LET board == {r \in rows[s] : r.onMeta}
                          listed == {r.hash : r \in board}
                          given == {h \in Hashes : submitted[s][h] # 0}
                      IN  /\ Cardinality(listed) = IF Cardinality(given) < Limit THEN Cardinality(given) ELSE Limit
                          /\ \A r \in board : r.score = submitted[s][r.hash]
                          /\ \A r \in board, h \in given \ listed : submitted[s][h] <= r.score
    BY Zenon DEF MetaBoardIsTheTop
  <2>1. /\ Table(rows[s]) /\ Flags(rows[s]) /\ submitted[s] \in [Hashes -> Scores \cup {0}]
        /\ TopOf(rows[s], submitted[s])
    BY DEF IInv, SongInv
  <2> DEFINE listed == {r.hash : r \in Board(rows[s])}
             given == {h \in Hashes : submitted[s][h] # 0}
  <2> HIDE DEF listed, given
  <2>2. /\ Cardinality(listed) = IF Cardinality(given) < Limit THEN Cardinality(given) ELSE Limit
        /\ \A r \in Board(rows[s]) : r.score = submitted[s][r.hash]
        /\ \A r \in Board(rows[s]), h \in given \ listed : submitted[s][h] <= r.score
    BY <2>1, TopIsTop DEF listed, given
  <2> QED
    BY Zenon, <2>2 DEF listed, given, Board
<1> QED
  BY <1>1, InvariantHolds, PTL

\* No merge lets the best score of a song's boards fall (boards.py, board_leaders).
THEOREM BestsNeverFall == Spec => BestNeverFalls
<1>1. IInv /\ [Next]_vars => [\A s \in Songs : BestOverall(rows'[s]) >= BestOverall(rows[s])]_vars
  BY NextStep
<1> QED
  BY <1>1, InvariantHolds, PTL DEF Spec, BestNeverFalls

\* A merge gives no stored result another number: ties keep their order (db.py, store_results).
THEOREM NumbersNeverChange == Spec => NumbersStay
<1>1. IInv /\ [Next]_vars =>
        [\A s \in Songs : \A r \in rows[s], q \in rows'[s] : r.hash = q.hash =>
            /\ r.meta # 0 => q.meta = r.meta
            /\ r.fg # 0 => q.fg = r.fg]_vars
  BY NextStep
<1> QED
  BY <1>1, InvariantHolds, PTL DEF Spec, NumbersStay
=============================================================================
