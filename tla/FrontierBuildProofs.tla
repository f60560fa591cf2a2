------------------------- MODULE FrontierBuildProofs -------------------------
(***************************************************************************)
(* Proofs about the builds of first frontiers.                             *)
(*                                                                         *)
(* FgPrebuild, for any songs, cores, free RAM, measurements, tasks per     *)
(* worker and deaths: every song is built once, and the builds in flight   *)
(* fit the budget.  The invariant adds where a queued future is (PlaceInv),*)
(* why a worker is free to be spawned (WorkersInv) and that what was       *)
(* admitted still fits when it is submitted, after a recycling too         *)
(* (LedgerInv).                                                            *)
(*                                                                         *)
(* FrontierProducer, for any songs, geometries, charts and threads: the    *)
(* region tables of a build fit the budget.  That no table outgrows what   *)
(* was counted before it was built (RowsAreCounted) is a double counting   *)
(* of the rows, by section start and by action; the invariant adds that    *)
(* the groups in flight were admitted in order (ThreadsInv), that the live *)
(* tables are those that were built (CoresInv) and that the ledger is the  *)
(* sum over them (BytesInv).                                               *)
(*                                                                         *)
(* FrontierTrace, for any songs, geometries, charts and rows: the trace    *)
(* search loses no trace, and a trace it finds adds up. The sections of a  *)
(* chart in order fit: an end is behind its start, and what the edge says  *)
(* lies between the two (SectionsAreFit). So the surfaces from a note      *)
(* unfold into those from the notes behind it (PlaysUnfold), and what is   *)
(* left of one after its first section is one from there (JoinSubtracts).  *)
(* The invariant of the search (SearchInv): each call has only sections    *)
(* that fit, and still every one that begins a play of what it is for,     *)
(* each is for what the call around it has left, what the memo holds no    *)
(* play finishes, and what a call returns is a trace of what it was for    *)
(* (IsTrace).                                                              *)
(*                                                                         *)
(* Sums come first: they are a recursive function, and the induction over  *)
(* it is the one of RangeInduction.                                        *)
(***************************************************************************)
EXTENDS FgPrebuild, FrontierTrace, FiniteSetTheorems, TLAPS

-----------------------------------------------------------------------------
(* Numbers and sums.                                                        *)

\* A finite set of sets has one that none of its others is part of.
LEMMA SmallestSubset ==
  ASSUME NEW S, IsFiniteSet(S), NEW T, T \subseteq SUBSET S, T # {}
  PROVE  \E U \in T : \A V \in T : ~(V \subseteq U /\ V # U)
<1>1. IsWellFoundedOn(StrictSubsetOrdering(S), FiniteSubsetsOf(S))
  BY FS_StrictSubsetOrderingWellFounded
<1>2. T \subseteq FiniteSubsetsOf(S)
  BY FS_FiniteSubsetsOfFinite
<1>3. \E U \in T : \A V \in T : ~(<<V, U>> \in StrictSubsetOrdering(S))
  BY <1>1, <1>2, WFMin
<1>4. \A U, V \in T : <<V, U>> \in StrictSubsetOrdering(S) <=> V \subseteq U /\ V # U
  BY DEF StrictSubsetOrdering
<1>. QED
  BY <1>3, <1>4

\* Of some numbers up to n, one is the least.
LEMMA LeastExists ==
  ASSUME NEW n \in Nat, NEW T, T \subseteq 0..n, T # {}
  PROVE  \E x \in T : \A y \in T : x <= y
<1>. DEFINE Range0 == 0..n
            Down == {0..x : x \in T}
<1>1. ASSUME NEW x \in T PROVE 0..x \subseteq Range0
  <2>1. x \in 0..n
    OBVIOUS
  <2>. QED
    BY <2>1
<1>2. Down \subseteq SUBSET Range0 /\ Down # {} /\ IsFiniteSet(Range0)
  <2>1. IsFiniteSet(Range0)
    BY FS_Interval
  <2>. QED
    BY <1>1, <2>1
<1>3. PICK U \in Down : \A V \in Down : ~(V \subseteq U /\ V # U)
  <2>. HIDE DEF Down, Range0
  <2>. QED
    BY ONLY <1>2, SmallestSubset
<1>4. PICK x \in T : U = 0..x
  BY <1>3
<1>5. ASSUME NEW y \in T PROVE x <= y
  <2>1. 0..y \in Down
    OBVIOUS
  <2>2. ~(0..y \subseteq 0..x /\ 0..y # 0..x)
    BY <1>3, <1>4, <2>1
  <2>3. x \in Nat /\ y \in Nat
    OBVIOUS
  <2>4. CASE y < x
    <3>1. 0..y \subseteq 0..x /\ x \in 0..x /\ x \notin 0..y
      BY <2>3, <2>4
    <3>. QED
      BY <2>2, <3>1
  <2>. QED
    BY <2>3, <2>4
<1>. QED
  BY <1>4, <1>5

\* Induction over 0..n, for a set of numbers.
LEMMA RangeInduction ==
  ASSUME NEW n \in Nat, NEW T, 0 \in T, \A i \in 1..n : i - 1 \in T => i \in T
  PROVE  0..n \subseteq T
<1>. DEFINE Rest == (0..n) \ T
<1>1. ASSUME Rest # {} PROVE FALSE
  <2>1. Rest \subseteq 0..n
    OBVIOUS
  <2>2. PICK x \in Rest : \A y \in Rest : x <= y
    <3>. HIDE DEF Rest
    <3>. QED
      BY ONLY <1>1, <2>1, LeastExists, n \in Nat
  <2>3. x \in 1..n /\ x \notin T
    BY <2>2
  <2>4. x - 1 \in 0..n /\ x - 1 \in Rest
    BY <2>3
  <2>. QED
    BY <2>2, <2>3, <2>4
<1>. QED
  BY <1>1


\* SumsTo is the one function that adds up f.
IsSums(sum, f, n) == sum = [i \in 0..n |-> IF i = 0 THEN 0 ELSE sum[i - 1] + f[i]]

\* The recursive definition has a solution, up to any number.
LEMMA SumsExist ==
  ASSUME NEW f, NEW n \in Nat
  PROVE  \E sum : IsSums(sum, f, n)
<1>. DEFINE T == {m \in 0..n : \E sum : IsSums(sum, f, m)}
<1>1. 0 \in T
  <2>1. IsSums([i \in 0..0 |-> 0], f, 0)
    BY DEF IsSums
  <2>. QED
    BY <2>1
<1>2. ASSUME NEW i \in 1..n, i - 1 \in T PROVE i \in T
  <2>1. PICK sum : IsSums(sum, f, i - 1)
    BY <1>2
  <2>. DEFINE g == [m \in 0..i |-> IF m = i THEN sum[i - 1] + f[i] ELSE sum[m]]
  <2>2. i \in Nat \ {0} /\ \A m \in 0..i : m # i => m \in 0..(i - 1) /\ (m # 0 => m - 1 \in 0..i /\ m - 1 # i)
    OBVIOUS
  <2>3. \A m \in 0..(i - 1) : sum[m] = IF m = 0 THEN 0 ELSE sum[m - 1] + f[m]
    BY <2>1 DEF IsSums
  <2>4. ASSUME NEW m \in 0..i PROVE g[m] = IF m = 0 THEN 0 ELSE g[m - 1] + f[m]
    <3>1. CASE m = i
      <4>1. i - 1 \in 0..i /\ i - 1 # i
        BY <2>2
      <4>. QED
        BY <2>2, <3>1, <4>1
    <3>2. CASE m # i
      BY <2>2, <2>3, <3>2
    <3>. QED
      BY <3>1, <3>2
  <2>5. IsSums(g, f, i)
    BY <2>4 DEF IsSums
  <2>. QED
    BY <2>5
<1>3. 0..n \subseteq T
  <2>. HIDE DEF T
  <2>1. \A i \in 1..n : i - 1 \in T => i \in T
    BY <1>2
  <2>. QED
    BY ONLY <1>1, <2>1, RangeInduction, n \in Nat
<1>. QED
  BY <1>3

\* Each sum is the one before it and one more value.
LEMMA SumStep ==
  ASSUME NEW f, NEW n \in Nat
  PROVE  /\ SumsTo(f, n)[0] = 0
         /\ \A i \in 1..n : SumsTo(f, n)[i] = SumsTo(f, n)[i - 1] + f[i]
<1>1. \E sum : IsSums(sum, f, n)
  BY SumsExist
<1>2. SumsTo(f, n) = CHOOSE sum : IsSums(sum, f, n)
  BY DEF SumsTo, IsSums
<1>3. IsSums(SumsTo(f, n), f, n)
  BY <1>1, <1>2
<1>4. 0 \in 0..n /\ \A i \in 1..n : i \in 0..n /\ i # 0
  OBVIOUS
<1>. QED
  BY <1>3, <1>4 DEF IsSums

\* Sums of integers are integers, and of natural numbers natural numbers.
LEMMA SumType ==
  ASSUME NEW f, NEW n \in Nat, \A i \in 1..n : f[i] \in Int
  PROVE  /\ \A i \in 0..n : SumsTo(f, n)[i] \in Int
         /\ SumTo(f, n) \in Int
         /\ (\A i \in 1..n : f[i] >= 0) => SumTo(f, n) \in Nat
<1>. DEFINE T == {i \in 0..n : SumsTo(f, n)[i] \in Int}
            U == {i \in 0..n : SumsTo(f, n)[i] \in Nat}
<1>1. 0 \in T /\ 0 \in U
  BY SumStep
<1>2. ASSUME NEW i \in 1..n, i - 1 \in T PROVE i \in T
  BY <1>2, SumStep
<1>3. 0..n \subseteq T
  <2>. HIDE DEF T, U
  <2>1. \A i \in 1..n : i - 1 \in T => i \in T
    BY <1>2
  <2>. QED
    BY ONLY <1>1, <2>1, RangeInduction, n \in Nat
<1>4. ASSUME \A i \in 1..n : f[i] >= 0 PROVE 0..n \subseteq U
  <2>1. ASSUME NEW i \in 1..n, i - 1 \in U PROVE i \in U
    BY <1>4, <2>1, SumStep
  <2>. HIDE DEF T, U
  <2>2. \A i \in 1..n : i - 1 \in U => i \in U
    BY <2>1
  <2>. QED
    BY ONLY <1>1, <2>2, RangeInduction, n \in Nat
<1>5. n \in 0..n
  OBVIOUS
<1>. QED
  BY <1>3, <1>4, <1>5 DEF SumTo

\* Values that add up have sums that add up.
LEMMA SumAdds ==
  ASSUME NEW n \in Nat, NEW f, NEW g, NEW h,
         \A i \in 1..n : f[i] \in Int /\ g[i] \in Int /\ h[i] = f[i] + g[i]
  PROVE  SumTo(h, n) = SumTo(f, n) + SumTo(g, n)
<1>. DEFINE T == {i \in 0..n : SumsTo(h, n)[i] = SumsTo(f, n)[i] + SumsTo(g, n)[i]}
<1>0. \A i \in 0..n : SumsTo(f, n)[i] \in Int /\ SumsTo(g, n)[i] \in Int
  BY SumType
<1>1. 0 \in T
  BY SumStep
<1>2. ASSUME NEW i \in 1..n, i - 1 \in T PROVE i \in T
  <2>1. /\ SumsTo(f, n)[i] = SumsTo(f, n)[i - 1] + f[i]
        /\ SumsTo(g, n)[i] = SumsTo(g, n)[i - 1] + g[i]
        /\ SumsTo(h, n)[i] = SumsTo(h, n)[i - 1] + h[i]
    BY SumStep
  <2>2. i - 1 \in 0..n /\ i \in 0..n
    OBVIOUS
  <2>3. /\ SumsTo(f, n)[i - 1] \in Int /\ SumsTo(g, n)[i - 1] \in Int /\ f[i] \in Int /\ g[i] \in Int
        /\ SumsTo(h, n)[i - 1] = SumsTo(f, n)[i - 1] + SumsTo(g, n)[i - 1] /\ h[i] = f[i] + g[i]
    BY <1>0, <1>2, <2>2
  <2>. QED
    BY <2>1, <2>2, <2>3
<1>3. 0..n \subseteq T
  <2>. HIDE DEF T
  <2>1. \A i \in 1..n : i - 1 \in T => i \in T
    BY <1>2
  <2>. QED
    BY ONLY <1>1, <2>1, RangeInduction, n \in Nat
<1>4. n \in T
  <2>. HIDE DEF T
  <2>. QED
    BY <1>3
<1>. QED
  BY <1>4 DEF SumTo

\* Smaller values have a smaller sum, and equal values an equal one.
LEMMA SumMonotone ==
  ASSUME NEW n \in Nat, NEW f, NEW g,
         \A i \in 1..n : f[i] \in Int /\ g[i] \in Int /\ f[i] <= g[i]
  PROVE  SumTo(f, n) <= SumTo(g, n)
<1>. DEFINE h == [i \in 1..n |-> g[i] - f[i]]
<1>1. \A i \in 1..n : h[i] \in Int /\ h[i] >= 0 /\ g[i] = f[i] + h[i]
  OBVIOUS
<1>. HIDE DEF h
<1>2. SumTo(g, n) = SumTo(f, n) + SumTo(h, n)
  BY <1>1, SumAdds
<1>3. SumTo(h, n) \in Nat /\ SumTo(f, n) \in Int /\ SumTo(g, n) \in Int
  BY <1>1, SumType
<1>. QED
  BY <1>2, <1>3

\* Sums of equal values are equal.
LEMMA SumEqual ==
  ASSUME NEW n \in Nat, NEW f, NEW g, \A i \in 1..n : f[i] \in Int /\ f[i] = g[i]
  PROVE  SumTo(f, n) = SumTo(g, n)
<1>1. SumTo(f, n) <= SumTo(g, n) /\ SumTo(g, n) <= SumTo(f, n)
  BY SumMonotone
<1>2. SumTo(f, n) \in Int /\ SumTo(g, n) \in Int
  BY SumType
<1>. QED
  BY <1>1, <1>2

\* A value counted for every number up to m.
LEMMA SumCounts ==
  ASSUME NEW n \in Nat, NEW m \in 0..n, NEW c \in Int
  PROVE  SumTo([i \in 1..n |-> IF i <= m THEN c ELSE 0], n) = m * c
<1>. DEFINE f == [i \in 1..n |-> IF i <= m THEN c ELSE 0]
            T == {i \in 0..n : SumsTo(f, n)[i] = (IF i <= m THEN i ELSE m) * c}
<1>1. 0 \in T
  BY SumStep
<1>2. ASSUME NEW i \in 1..n, i - 1 \in T PROVE i \in T
  <2>1. SumsTo(f, n)[i] = SumsTo(f, n)[i - 1] + f[i]
    BY SumStep
  <2>2. SumsTo(f, n)[i - 1] = (IF i - 1 <= m THEN i - 1 ELSE m) * c /\ f[i] = IF i <= m THEN c ELSE 0
    BY <1>2
  <2>3. (i - 1) * c + c = i * c /\ m * c \in Int
    OBVIOUS
  <2>4. SumsTo(f, n)[i] = (IF i <= m THEN i ELSE m) * c
    <3>1. CASE i <= m
      BY <2>1, <2>2, <2>3, <3>1
    <3>2. CASE i > m
      <4>1. (IF i - 1 <= m THEN i - 1 ELSE m) = m
        BY <3>2
      <4>. QED
        BY <2>1, <2>2, <2>3, <3>2, <4>1
    <3>. QED
      BY <3>1, <3>2
  <2>. QED
    BY <2>4
<1>3. 0..n \subseteq T
  <2>. HIDE DEF T
  <2>1. \A i \in 1..n : i - 1 \in T => i \in T
    BY <1>2
  <2>. QED
    BY ONLY <1>1, <2>1, RangeInduction, n \in Nat
<1>4. n \in T
  <2>. HIDE DEF T
  <2>. QED
    BY <1>3
<1>. QED
  BY <1>4 DEF SumTo

\* Values up to c add up to n * c at most.
LEMMA SumBound ==
  ASSUME NEW n \in Nat, NEW c \in Int, NEW f, \A i \in 1..n : f[i] \in Int /\ f[i] <= c
  PROVE  SumTo(f, n) <= n * c
<1>. DEFINE g == [i \in 1..n |-> IF i <= n THEN c ELSE 0]
<1>1. \A i \in 1..n : f[i] \in Int /\ g[i] \in Int /\ f[i] <= g[i]
  OBVIOUS
<1>2. SumTo(g, n) = n * c
  <2>1. n \in 0..n
    OBVIOUS
  <2>. QED
    BY <2>1, SumCounts
<1>. HIDE DEF g
<1>3. SumTo(f, n) <= SumTo(g, n)
  BY <1>1, SumMonotone
<1>. QED
  BY <1>2, <1>3


\* Rows and columns add up to the same.
LEMMA SumExchange ==
  ASSUME NEW m \in Nat, NEW n \in Nat, NEW f, \A s \in 1..m, i \in 1..n : f[s][i] \in Int
  PROVE  SumTo([s \in 1..m |-> SumTo([i \in 1..n |-> f[s][i]], n)], m)
           = SumTo([i \in 1..n |-> SumTo([s \in 1..m |-> f[s][i]], m)], n)
<1>. DEFINE Row(s) == [i \in 1..n |-> f[s][i]]
            Column(i) == [s \in 1..m |-> f[s][i]]
            rows == [s \in 1..m |-> SumTo(Row(s), n)]
            Part(t) == [i \in 1..n |-> SumsTo(Column(i), m)[t]]
            T == {t \in 0..m : SumsTo(rows, m)[t] = SumTo(Part(t), n)}
<1>0. \A i \in 1..n : /\ SumsTo(Column(i), m)[0] = 0
                      /\ \A t \in 1..m : SumsTo(Column(i), m)[t] = SumsTo(Column(i), m)[t - 1] + f[t][i]
                      /\ \A t \in 0..m : SumsTo(Column(i), m)[t] \in Int
  <2>1. ASSUME NEW i \in 1..n
        PROVE  /\ SumsTo(Column(i), m)[0] = 0
               /\ \A t \in 1..m : SumsTo(Column(i), m)[t] = SumsTo(Column(i), m)[t - 1] + Column(i)[t]
               /\ \A t \in 0..m : SumsTo(Column(i), m)[t] \in Int
    <3>1. \A s \in 1..m : Column(i)[s] \in Int
      OBVIOUS
    <3>. HIDE DEF Column
    <3>. QED
      BY <3>1, SumStep, SumType
  <2>. QED
    BY <2>1
<1>1. 0 \in T
  <2>1. SumsTo(rows, m)[0] = 0
    <3>. HIDE DEF rows
    <3>. QED
      BY SumStep
  <2>2. \A i \in 1..n : Part(0)[i] = 0
    BY <1>0
  <2>3. SumTo(Part(0), n) = 0
    <3>. DEFINE zero == [i \in 1..n |-> IF i <= 0 THEN 0 ELSE 0]
    <3>1. SumTo(zero, n) = 0 * 0
      <4>1. 0 \in 0..n /\ 0 \in Int
        OBVIOUS
      <4>. QED
        BY <4>1, SumCounts
    <3>2. \A i \in 1..n : Part(0)[i] \in Int /\ Part(0)[i] = zero[i]
      BY <2>2
    <3>. HIDE DEF zero, Part
    <3>3. SumTo(Part(0), n) = SumTo(zero, n)
      BY <3>2, SumEqual
    <3>. QED
      BY <3>1, <3>3
  <2>. QED
    BY <2>1, <2>3
<1>2. ASSUME NEW t \in 1..m, t - 1 \in T PROVE t \in T
  <2>0. t - 1 \in 0..m /\ t \in 0..m
    OBVIOUS
  <2>1. SumsTo(rows, m)[t] = SumsTo(rows, m)[t - 1] + rows[t]
    <3>. HIDE DEF rows
    <3>. QED
      BY SumStep
  <2>2. \A i \in 1..n : Part(t - 1)[i] \in Int /\ Row(t)[i] \in Int /\ Part(t)[i] = Part(t - 1)[i] + Row(t)[i]
    BY <1>0, <2>0
  <2>3. SumTo(Part(t), n) = SumTo(Part(t - 1), n) + SumTo(Row(t), n)
    <3>. HIDE DEF Part, Row
    <3>. QED
      BY <2>2, SumAdds
  <2>4. rows[t] = SumTo(Row(t), n) /\ SumsTo(rows, m)[t - 1] = SumTo(Part(t - 1), n)
    BY <1>2
  <2>. QED
    BY <2>0, <2>1, <2>3, <2>4
<1>3. 0..m \subseteq T
  <2>. HIDE DEF T
  <2>1. \A t \in 1..m : t - 1 \in T => t \in T
    BY <1>2
  <2>. QED
    BY ONLY <1>1, <2>1, RangeInduction, m \in Nat
<1>4. m \in T
  <2>. HIDE DEF T
  <2>. QED
    BY <1>3
<1>5. SumTo(rows, m) = SumTo(Part(m), n)
  BY <1>4 DEF SumTo
<1>6. Part(m) = [i \in 1..n |-> SumTo(Column(i), m)]
  BY DEF SumTo
<1>. QED
  BY <1>5, <1>6


\* The sum over a set is a number.
LEMMA SumOfType ==
  ASSUME NEW n \in Nat, NEW S, NEW w, \A i \in 1..n : i \in S => w[i] \in Int
  PROVE  /\ SumOf(S, w, n) \in Int
         /\ (\A i \in 1..n : i \in S => w[i] >= 0) => SumOf(S, w, n) \in Nat
<1>. DEFINE f == [i \in 1..n |-> IF i \in S THEN w[i] ELSE 0]
<1>1. \A i \in 1..n : f[i] \in Int
  OBVIOUS
<1>2. ASSUME \A i \in 1..n : i \in S => w[i] >= 0 PROVE \A i \in 1..n : f[i] >= 0
  BY <1>2
<1>3. SumOf(S, w, n) = SumTo(f, n)
  BY DEF SumOf
<1>. HIDE DEF f
<1>. QED
  BY <1>1, <1>2, <1>3, SumType

\* The sums over sets that share nothing add up.
LEMMA SumOfUnion ==
  ASSUME NEW n \in Nat, NEW S, NEW R, S \cap R = {}, NEW w, NEW u, NEW v,
         \A i \in 1..n : /\ i \in S => u[i] \in Int /\ w[i] = u[i]
                         /\ i \in R => v[i] \in Int /\ w[i] = v[i]
  PROVE  SumOf(S \cup R, w, n) = SumOf(S, u, n) + SumOf(R, v, n)
<1>. DEFINE f == [i \in 1..n |-> IF i \in S THEN u[i] ELSE 0]
            g == [i \in 1..n |-> IF i \in R THEN v[i] ELSE 0]
            h == [i \in 1..n |-> IF i \in S \cup R THEN w[i] ELSE 0]
<1>1. ASSUME NEW i \in 1..n PROVE f[i] \in Int /\ g[i] \in Int /\ h[i] = f[i] + g[i]
  <2>1. CASE i \in S
    BY <2>1
  <2>2. CASE i \in R
    BY <2>2
  <2>3. CASE i \notin S \cup R
    BY <2>3
  <2>. QED
    BY <2>1, <2>2, <2>3
<1>2. SumOf(S, u, n) = SumTo(f, n) /\ SumOf(R, v, n) = SumTo(g, n) /\ SumOf(S \cup R, w, n) = SumTo(h, n)
  BY DEF SumOf
<1>. HIDE DEF f, g, h
<1>. QED
  BY <1>1, <1>2, SumAdds

\* Nothing adds up to 0, and one number to its value.
LEMMA SumOfSmall ==
  ASSUME NEW n \in Nat, NEW w
  PROVE  /\ SumOf({}, w, n) = 0
         /\ \A b \in 1..n : w[b] \in Int => SumOf({b}, w, n) = w[b]
<1>1. SumOf({}, w, n) = 0
  <2>. DEFINE f == [i \in 1..n |-> IF i \in {} THEN w[i] ELSE 0]
              zero == [i \in 1..n |-> IF i <= 0 THEN 0 ELSE 0]
  <2>1. SumTo(zero, n) = 0
    <3>1. 0 \in 0..n /\ 0 \in Int /\ 0 * 0 = 0
      OBVIOUS
    <3>. QED
      BY <3>1, SumCounts
  <2>2. \A i \in 1..n : f[i] \in Int /\ f[i] = zero[i]
    OBVIOUS
  <2>3. SumOf({}, w, n) = SumTo(f, n)
    BY DEF SumOf
  <2>. HIDE DEF f, zero
  <2>. QED
    BY <2>1, <2>2, <2>3, SumEqual
<1>2. ASSUME NEW b \in 1..n, w[b] \in Int PROVE SumOf({b}, w, n) = w[b]
  <2>. DEFINE c == w[b]
              f == [i \in 1..n |-> IF i \in {b} THEN w[i] ELSE 0]
              g == [i \in 1..n |-> IF i <= b - 1 THEN c ELSE 0]
              h == [i \in 1..n |-> IF i <= b THEN c ELSE 0]
  <2>1. SumTo(g, n) = (b - 1) * c
    <3>1. b - 1 \in 0..n
      OBVIOUS
    <3>. QED
      BY <1>2, <3>1, SumCounts
  <2>2. SumTo(h, n) = b * c
    <3>1. b \in 0..n
      OBVIOUS
    <3>. QED
      BY <1>2, <3>1, SumCounts
  <2>3. ASSUME NEW i \in 1..n PROVE g[i] \in Int /\ f[i] \in Int /\ h[i] = g[i] + f[i]
    <3>1. CASE i = b
      BY <1>2, <3>1
    <3>2. CASE i < b
      BY <1>2, <3>2
    <3>3. CASE i > b
      BY <1>2, <3>3
    <3>. QED
      BY <3>1, <3>2, <3>3
  <2>4. SumOf({b}, w, n) = SumTo(f, n)
    BY DEF SumOf
  <2>5. c \in Int
    BY <1>2
  <2>. HIDE DEF f, g, h
  <2>6. SumTo(h, n) = SumTo(g, n) + SumTo(f, n)
    BY <2>3, SumAdds
  <2>7. SumTo(f, n) \in Int
    BY <2>3, SumType
  <2>. HIDE DEF c
  <2>8. b * c = (b - 1) * c + c
    BY <2>5
  <2>9. SumTo(f, n) = c
    <3>. DEFINE p == (b - 1) * c
    <3>1. p \in Int
      BY <2>5
    <3>2. p + c = p + SumTo(f, n)
      BY <2>1, <2>2, <2>6, <2>8
    <3>. HIDE DEF p
    <3>. QED
      BY <2>5, <2>7, <3>1, <3>2
  <2>. QED
    BY <2>4, <2>9 DEF c
<1>. QED
  BY <1>1, <1>2

\* What is added to a set or taken from it is added to its sum or taken from it.
LEMMA SumOfChanges ==
  ASSUME NEW n \in Nat, NEW S, NEW w, \A i \in 1..n : i \in S => w[i] \in Int
  PROVE  /\ \A b \in 1..n : b \notin S /\ w[b] \in Int => SumOf(S \cup {b}, w, n) = SumOf(S, w, n) + w[b]
         /\ \A R \in SUBSET S : SumOf(S \ R, w, n) = SumOf(S, w, n) - SumOf(R, w, n)
<1>1. ASSUME NEW b \in 1..n, b \notin S, w[b] \in Int
      PROVE  SumOf(S \cup {b}, w, n) = SumOf(S, w, n) + w[b]
  <2>1. S \cap {b} = {} /\ \A i \in 1..n : i \in {b} => w[i] \in Int
    BY <1>1
  <2>2. SumOf(S \cup {b}, w, n) = SumOf(S, w, n) + SumOf({b}, w, n)
    BY <2>1, SumOfUnion
  <2>. QED
    BY <1>1, <2>2, SumOfSmall
<1>2. ASSUME NEW R \in SUBSET S
      PROVE  SumOf(S \ R, w, n) = SumOf(S, w, n) - SumOf(R, w, n)
  <2>1. (S \ R) \cap R = {} /\ (S \ R) \cup R = S /\ \A i \in 1..n : i \in R \/ i \in S \ R => w[i] \in Int
    OBVIOUS
  <2>2. SumOf((S \ R) \cup R, w, n) = SumOf(S \ R, w, n) + SumOf(R, w, n)
    BY <2>1, SumOfUnion
  <2>3. SumOf(S \ R, w, n) \in Int /\ SumOf(R, w, n) \in Int
    BY <2>1, SumOfType
  <2>. QED
    BY <2>1, <2>2, <2>3
<1>. QED
  BY <1>1, <1>2

\* The union of n finite sets has at most their members together.
LEMMA SumCardinality ==
  ASSUME NEW n \in Nat, NEW A, \A i \in 1..n : IsFiniteSet(A[i])
  PROVE  /\ IsFiniteSet(UNION {A[i] : i \in 1..n})
         /\ Cardinality(UNION {A[i] : i \in 1..n}) <= SumTo([i \in 1..n |-> Cardinality(A[i])], n)
<1>. DEFINE f == [i \in 1..n |-> Cardinality(A[i])]
            U(m) == UNION {A[i] : i \in 1..m}
            T == {m \in 0..n : IsFiniteSet(U(m)) /\ Cardinality(U(m)) <= SumsTo(f, n)[m]}
<1>0. \A i \in 1..n : f[i] \in Int /\ Cardinality(A[i]) \in Nat
  BY FS_CardinalityType
<1>1. 0 \in T
  <2>1. U(0) = {}
    OBVIOUS
  <2>2. IsFiniteSet({}) /\ Cardinality({}) = 0
    BY FS_EmptySet
  <2>3. SumsTo(f, n)[0] = 0
    <3>. HIDE DEF f
    <3>. QED
      BY SumStep
  <2>. HIDE DEF f, U
  <2>4. IsFiniteSet(U(0)) /\ Cardinality(U(0)) <= SumsTo(f, n)[0]
    BY <2>1, <2>2, <2>3
  <2>. QED
    BY <2>4
<1>2. ASSUME NEW i \in 1..n, i - 1 \in T PROVE i \in T
  <2>1. U(i) = U(i - 1) \cup A[i]
    <3>1. 1..i = (1..(i - 1)) \cup {i}
      OBVIOUS
    <3>. QED
      BY <3>1
  <2>2. IsFiniteSet(U(i - 1)) /\ IsFiniteSet(A[i]) /\ Cardinality(U(i - 1)) <= SumsTo(f, n)[i - 1]
    BY <1>2
  <2>3. SumsTo(f, n)[i] = SumsTo(f, n)[i - 1] + f[i] /\ SumsTo(f, n)[i - 1] \in Int
    <3>1. i - 1 \in 0..n
      OBVIOUS
    <3>. HIDE DEF f
    <3>. QED
      BY <1>0, <3>1, SumStep, SumType
  <2>4. f[i] = Cardinality(A[i])
    OBVIOUS
  <2>. HIDE DEF f, U
  <2>5. IsFiniteSet(U(i)) /\ Cardinality(U(i)) <= Cardinality(U(i - 1)) + Cardinality(A[i])
    <3>1. /\ IsFiniteSet(U(i - 1) \cup A[i])
          /\ Cardinality(U(i - 1) \cup A[i]) = Cardinality(U(i - 1)) + Cardinality(A[i]) - Cardinality(U(i - 1) \cap A[i])
      BY <2>2, FS_Union
    <3>2. IsFiniteSet(U(i - 1) \cap A[i])
      BY <2>2, FS_Intersection
    <3>3. Cardinality(U(i - 1) \cap A[i]) \in Nat /\ Cardinality(U(i - 1)) \in Nat /\ Cardinality(A[i]) \in Nat
      BY <2>2, <3>2, FS_CardinalityType
    <3>. QED
      BY <2>1, <3>1, <3>3
  <2>6. Cardinality(U(i - 1)) \in Nat /\ Cardinality(A[i]) \in Nat /\ Cardinality(U(i)) \in Nat
    BY <2>2, <2>5, FS_CardinalityType
  <2>7. Cardinality(U(i)) <= SumsTo(f, n)[i]
    BY <2>2, <2>3, <2>4, <2>5, <2>6
  <2>. QED
    BY <2>5, <2>7
<1>3. 0..n \subseteq T
  <2>. HIDE DEF T
  <2>1. \A i \in 1..n : i - 1 \in T => i \in T
    BY <1>2
  <2>. QED
    BY ONLY <1>1, <2>1, RangeInduction, n \in Nat
<1>4. n \in T
  <2>. HIDE DEF T
  <2>. QED
    BY <1>3
<1>. QED
  BY <1>4 DEF SumTo


\* A set of numbers has as many members, from the least, as it has members.
LEMMA NthIsMember ==
  ASSUME NEW m \in Nat, NEW K, K \subseteq 0..m, NEW i \in 1..Cardinality(K)
  PROVE  Nth(K, i) \in K
<1>. DEFINE Part(j) == {k \in K : k < j}
            T == {j \in 0..(m + 1) : IsFiniteSet(Part(j)) /\ \A r \in 1..Cardinality(Part(j)) :
                                        \E k \in Part(j) : Cardinality(Part(k)) = r - 1}
<1>0. \A k \in K : k \in Int /\ 0 <= k /\ k <= m
  OBVIOUS
<1>1. 0 \in T
  <2>1. Part(0) = {}
    <3>1. \A k \in K : ~(k < 0)
      BY <1>0
    <3>. QED
      BY <3>1
  <2>. HIDE DEF Part
  <2>2. IsFiniteSet(Part(0)) /\ Cardinality(Part(0)) = 0
    BY <2>1, FS_EmptySet
  <2>3. ASSUME NEW r \in 1..Cardinality(Part(0)) PROVE FALSE
    BY <2>2
  <2>. QED
    BY <2>2, <2>3
<1>2. ASSUME NEW j \in 1..(m + 1), j - 1 \in T PROVE j \in T
  <2>0. /\ IsFiniteSet(Part(j - 1))
        /\ \A r \in 1..Cardinality(Part(j - 1)) : \E k \in Part(j - 1) : Cardinality(Part(k)) = r - 1
    BY <1>2
  <2>1. CASE j - 1 \notin K
    <3>1. Part(j) = Part(j - 1)
      <4>1. \A k \in K : k < j <=> k < j - 1
        BY <1>0, <2>1
      <4>. QED
        BY <4>1, Zenon
    <3>. HIDE DEF Part
    <3>. QED
      BY <2>0, <3>1
  <2>2. CASE j - 1 \in K
    <3>1. Part(j) = Part(j - 1) \cup {j - 1} /\ j - 1 \notin Part(j - 1)
      <4>1. /\ \A k \in K : k < j <=> k < j - 1 \/ k = j - 1
            /\ ~(j - 1 < j - 1)
        BY <1>0
      <4>. QED
        BY <2>2, <4>1, Zenon
    <3>. HIDE DEF Part
    <3>2. /\ IsFiniteSet(Part(j)) /\ Cardinality(Part(j)) = Cardinality(Part(j - 1)) + 1
          /\ Cardinality(Part(j - 1)) \in Nat
      BY <2>0, <3>1, FS_AddElement, FS_CardinalityType
    <3>3. ASSUME NEW r \in 1..Cardinality(Part(j)) PROVE \E k \in Part(j) : Cardinality(Part(k)) = r - 1
      <4>1. CASE r = Cardinality(Part(j))
        BY <3>1, <3>2, <4>1
      <4>2. CASE r # Cardinality(Part(j))
        <5>1. r \in 1..Cardinality(Part(j - 1))
          BY <3>2, <4>2
        <5>. QED
          BY <2>0, <3>1, <5>1
      <4>. QED
        BY <4>1, <4>2
    <3>. QED
      BY <3>2, <3>3
  <2>. QED
    BY <2>1, <2>2
<1>3. 0..(m + 1) \subseteq T
  <2>. HIDE DEF T
  <2>1. \A j \in 1..(m + 1) : j - 1 \in T => j \in T
    BY <1>2
  <2>2. m + 1 \in Nat
    OBVIOUS
  <2>. QED
    BY ONLY <1>1, <2>1, <2>2, RangeInduction
<1>4. m + 1 \in T
  <2>. HIDE DEF T
  <2>. QED
    BY <1>3
<1>5. Part(m + 1) = K
  <2>1. \A k \in K : k < m + 1
    BY <1>0
  <2>. QED
    BY <2>1, Zenon
<1>6. \E k \in K : Cardinality(Part(k)) = i - 1
  <2>1. \A r \in 1..Cardinality(Part(m + 1)) : \E k \in Part(m + 1) : Cardinality(Part(k)) = r - 1
    BY <1>4
  <2>. HIDE DEF Part
  <2>. QED
    BY <1>5, <2>1
<1>. QED
  BY <1>6 DEF Nth

\* Of some numbers up to n, Min is the least; of finitely many, Max is the greatest.
LEMMA MinOf ==
  ASSUME NEW n \in Nat, NEW T, T \subseteq 0..n, T # {}
  PROVE  Min(T) \in T /\ \A y \in T : Min(T) <= y
<1>1. \E x \in T : \A y \in T : x <= y
  BY LeastExists
<1>. QED
  BY <1>1 DEF Min

\* The largest of some numbers.
LEMMA MaxOf ==
  ASSUME NEW T, T \subseteq Int, IsFiniteSet(T), T # {}
  PROVE  Max(T) \in T /\ \A y \in T : Max(T) >= y
<1>. DEFINE Above(x) == {y \in T : y > x}
            all == {Above(x) : x \in T}
<1>1. all \subseteq SUBSET T /\ all # {}
  OBVIOUS
<1>2. PICK U \in all : \A V \in all : ~(V \subseteq U /\ V # U)
  <2>. HIDE DEF all
  <2>. QED
    BY ONLY <1>1, SmallestSubset, IsFiniteSet(T)
<1>3. PICK x \in T : U = Above(x)
  OBVIOUS
<1>4. ASSUME NEW y \in T PROVE x >= y
  <2>1. Above(y) \in all
    OBVIOUS
  <2>2. ~(Above(y) \subseteq Above(x) /\ Above(y) # Above(x))
    BY <1>2, <1>3, <2>1
  <2>3. x \in Int /\ y \in Int
    OBVIOUS
  <2>4. CASE y > x
    <3>1. y \in Above(x) /\ y \notin Above(y)
      BY <2>3, <2>4
    <3>2. ASSUME NEW z \in Above(y) PROVE z \in Above(x)
      <4>1. z \in T /\ z > y /\ z \in Int
        OBVIOUS
      <4>2. z > x
        BY <2>3, <2>4, <4>1
      <4>. QED
        BY <4>1, <4>2
    <3>3. Above(y) \subseteq Above(x) /\ Above(y) # Above(x)
      <4>. HIDE DEF Above
      <4>. QED
        BY <3>1, <3>2
    <3>. QED
      BY <2>2, <3>3
  <2>. QED
    BY <2>3, <2>4
<1>5. \E z \in T : \A y \in T : z >= y
  BY <1>4
<1>. QED
  BY <1>5 DEF Max

-----------------------------------------------------------------------------
(* The pool that builds songs: its invariant.                              *)

NumSongs == Len(Notes)

\* The song being submitted, as a set.
Submitting == IF candidate = Nobody THEN {} ELSE {candidate}

TypesOK ==
    /\ at \in {"admit", "submit", "recycle", "wait", "close", "ended"}
    /\ candidate \in Builds \cup {Nobody}
    /\ budget \in Nat /\ budget >= Peak
    /\ outcome \in [Builds -> {"none", "queued", "ok", "error"}]
    /\ generation \subseteq Builds /\ broken \in BOOLEAN /\ spawned \in Nat
    /\ doing \in [Workers -> Builds \cup {Nobody}]
    /\ queue \in Seq(Builds)

\* A song is in one of five places.
PartitionInv ==
    /\ pending \cup Submitting \cup inFlight \cup built \cup failed = Builds
    /\ pending \cap Submitting = {} /\ (pending \cup Submitting) \cap inFlight = {}
    /\ (pending \cup Submitting \cup inFlight) \cap built = {}
    /\ (pending \cup Submitting \cup inFlight \cup built) \cap failed = {}

\* One build always runs while songs are pending, and the pool is closed when none is.
ProgressInv ==
    /\ at \in {"submit", "recycle"} <=> candidate # Nobody
    /\ at = "wait" /\ inFlight = {} => pending = {}
    /\ at \in {"close", "ended"} => inFlight = {} /\ pending = {}

\* A queued future is in flight, in the generation, and waits in the queue or is built, once.
InQueue(b) == \E i \in 1..Len(queue) : queue[i] = b
InWork(b) == \E w \in Workers : doing[w] = b
PlaceInv ==
    /\ \A b \in Builds : outcome[b] = "queued" =>
         ~broken /\ b \in inFlight /\ b \in generation /\ (InQueue(b) \/ InWork(b))
    /\ \A i \in 1..Len(queue) : outcome[queue[i]] = "queued"
    /\ \A i, j \in 1..Len(queue) : queue[i] = queue[j] => i = j
    /\ ~broken =>
         /\ \A w \in Workers : doing[w] # Nobody => outcome[doing[w]] = "queued"
         /\ \A w, v \in Workers : doing[w] # Nobody /\ doing[w] = doing[v] => w = v
         /\ \A b \in Builds : ~(InQueue(b) /\ InWork(b))

\* While the pool takes futures and nobody died, every worker it spawned lives; who reads the queue is idle.
WorkersInv ==
    /\ Workers \subseteq 1..spawned /\ spawned <= MaxWorkers
    /\ ~broken /\ at \in {"admit", "submit", "wait"} => Workers = 1..spawned
    /\ ~broken /\ reader \in Workers => doing[reader] = Nobody

\* The ledger is the sum of the weights in flight; what is to be submitted fits beside it.
LedgerInv ==
    /\ FitsTheBudget
    /\ candidate # Nobody => inFlight = {} \/ WeightOf(inFlight) + Weight(candidate) <= budget

IInv == TypesOK /\ PartitionInv /\ ProgressInv /\ PlaceInv /\ WorkersInv /\ LedgerInv

-----------------------------------------------------------------------------
(* The weights of songs.                                                   *)

\* Songs are numbered from 1.
LEMMA BuildsAre == Builds = 1..NumSongs /\ NumSongs \in Nat \ {0} /\ Nobody \notin Builds
BY PrebuildAssumption DEF Builds, NumSongs

\* A weight is a number.
LEMMA WeightType == \A b \in Builds : Weight(b) \in Nat
<1>1. ASSUME NEW n \in Nat PROVE (n * 5) \div 7000 \in Nat
  OBVIOUS
<1>2. \A b \in Builds : Notes[b] \in Nat
  BY PrebuildAssumption DEF Builds
<1>. QED
  BY <1>1, <1>2 DEF Weight, Floor, Peak, PeakNotes

\* A sum of weights is a number.
LEMMA WeightOfType ==
  ASSUME NEW S
  PROVE  WeightOf(S) \in Nat
<1>. DEFINE w == [b \in Builds |-> Weight(b)]
<1>1. \A i \in 1..NumSongs : w[i] \in Int /\ w[i] >= 0
  BY WeightType, BuildsAre
<1>2. WeightOf(S) = SumOf(S, w, NumSongs)
  BY DEF WeightOf, NumSongs
<1>. HIDE DEF w
<1>. QED
  BY <1>1, <1>2, SumOfType, BuildsAre

\* No songs weigh nothing; another song adds its weight, songs taken away take theirs, and fewer songs weigh no more.
LEMMA WeightOfFacts ==
  ASSUME NEW S, NEW R
  PROVE  /\ WeightOf({}) = 0
         /\ \A b \in Builds \ S : WeightOf(S \cup {b}) = WeightOf(S) + Weight(b)
         /\ R \subseteq S => WeightOf(S \ R) = WeightOf(S) - WeightOf(R) /\ WeightOf(S \ R) <= WeightOf(S)
<1>. DEFINE w == [b \in Builds |-> Weight(b)]
<1>1. \A i \in 1..NumSongs : w[i] \in Int /\ w[i] = Weight(i)
  BY WeightType, BuildsAre
<1>2. /\ \A U : WeightOf(U) = SumOf(U, w, NumSongs)
      /\ WeightOf(S) \in Nat /\ WeightOf(R) \in Nat /\ NumSongs \in Nat
  BY WeightOfType, BuildsAre DEF WeightOf, NumSongs
<1>. HIDE DEF w
<1>3. WeightOf({}) = 0
  BY <1>2, SumOfSmall
<1>4. ASSUME NEW b \in Builds \ S PROVE WeightOf(S \cup {b}) = WeightOf(S) + Weight(b)
  BY <1>1, <1>2, SumOfChanges, BuildsAre
<1>5. ASSUME R \subseteq S
      PROVE  WeightOf(S \ R) = WeightOf(S) - WeightOf(R) /\ WeightOf(S \ R) <= WeightOf(S)
  <2>1. SumOf(S \ R, w, NumSongs) = SumOf(S, w, NumSongs) - SumOf(R, w, NumSongs)
    BY <1>1, <1>2, <1>5, SumOfChanges
  <2>. QED
    BY <1>2, <2>1
<1>. QED
  BY <1>3, <1>4, <1>5

-----------------------------------------------------------------------------
(* The steps.                                                              *)

\* What the invariant speaks of.
coreVars == <<budget, at, pending, candidate, inFlight, admitted, built, failed, outcome, generation, broken,
              spawned, doing, queue, reader>>

\* There is room for one worker at least.
LEMMA RoomForOne == TypesOK => MaxWorkers \in Nat \ {0}
<1>1. ASSUME NEW n \in Nat, n >= 7 PROVE n \div 2 \in Nat \ {0}
  BY <1>1
<1>2. TypesOK => budget \div 2 \in Nat \ {0}
  BY <1>1 DEF TypesOK, Peak
<1>. QED
  BY <1>2, PrebuildAssumption DEF MaxWorkers, Floor

\* Sets of songs are finite.
LEMMA SongsFinite ==
  IsFiniteSet(Builds) /\ \A S : S \subseteq Builds => IsFiniteSet(S) /\ Cardinality(S) \in Nat
<1>1. IsFiniteSet(Builds)
  BY BuildsAre, FS_Interval
<1>. QED
  BY <1>1, FS_Subset, FS_CardinalityType

\* Admit: the heaviest song that fits is no longer pending.
LEMMA AdmitStep ==
  ASSUME IInv, Admit
  PROVE  IInv'
<1>1. /\ at = "admit" /\ candidate = Nobody
      /\ UNCHANGED <<budget, inFlight, admitted, built, failed, outcome, generation, broken, spawned, doing,
                     queue, reader>>
  BY DEF Admit, IInv, ProgressInv, poolVars
<1>2. PICK free \in ram, measured \in Measured :
        LET fitting == {b \in pending : Fits(b, free, measured)} IN
         IF fitting # {} /\ Cardinality(inFlight) < MaxWorkers
         THEN /\ at' = "submit" /\ candidate' = Min(fitting)
              /\ pending' = pending \ {candidate'}
         ELSE at' = "wait" /\ UNCHANGED <<candidate, pending>>
  BY DEF Admit
<1>. DEFINE fitting == {b \in pending : Fits(b, free, measured)}
<1>3. pending \subseteq Builds /\ inFlight \subseteq Builds
  BY DEF IInv, PartitionInv
<1>4. PlaceInv'
  BY <1>1 DEF IInv, PlaceInv, InQueue, InWork, Workers
<1>5. FitsTheBudget'
  BY <1>1 DEF IInv, LedgerInv, FitsTheBudget
<1>6. CASE fitting # {} /\ Cardinality(inFlight) < MaxWorkers
  <2>1. at' = "submit" /\ candidate' = Min(fitting) /\ pending' = pending \ {candidate'}
    BY <1>2, <1>6
  <2>2. candidate' \in fitting
    <3>1. fitting \subseteq 0..NumSongs
      <4>1. fitting \subseteq pending /\ Builds \subseteq 0..NumSongs
        BY BuildsAre
      <4>. QED
        BY <1>3, <4>1
    <3>2. \E x \in fitting : \A y \in fitting : x <= y
      <4>. HIDE DEF fitting
      <4>. QED
        BY <1>6, <3>1, BuildsAre, LeastExists
    <3>. HIDE DEF fitting
    <3>. QED
      BY <2>1, <3>2 DEF Min
  <2>3. candidate' \in pending /\ Fits(candidate', free, measured) /\ candidate' # Nobody
    BY <2>2, <1>3, BuildsAre
  <2>4. inFlight = {} \/ WeightOf(inFlight) + Weight(candidate') <= budget
    <3>1. CASE inFlight # {}
      <4>1. Max({admitted, measured}) + Weight(candidate') <= budget
        BY <2>3, <3>1 DEF Fits
      <4>2. admitted = WeightOf(inFlight) /\ admitted \in Nat /\ measured \in Nat
        BY WeightOfType, PrebuildAssumption DEF IInv, LedgerInv, FitsTheBudget
      <4>3. Max({admitted, measured}) \in Nat /\ Max({admitted, measured}) >= admitted
        <5>1. \E x \in {admitted, measured} : \A y \in {admitted, measured} : x >= y
          BY <4>2
        <5>2. /\ Max({admitted, measured}) \in {admitted, measured}
              /\ \A y \in {admitted, measured} : Max({admitted, measured}) >= y
          BY <5>1 DEF Max
        <5>. QED
          BY <4>2, <5>2
      <4>4. Weight(candidate') \in Nat /\ budget \in Nat
        BY <2>3, <1>3, WeightType DEF IInv, TypesOK
      <4>. QED
        BY <4>1, <4>2, <4>3, <4>4
    <3>. QED
      BY <3>1
  <2>5. TypesOK'
    BY <1>1, <1>3, <2>1, <2>3 DEF IInv, TypesOK, Workers
  <2>6. PartitionInv'
    <3>1. Submitting = {} /\ Submitting' = {candidate'}
      BY <1>1, <2>3 DEF Submitting
    <3>. QED
      BY <1>1, <2>1, <2>3, <3>1 DEF IInv, PartitionInv
  <2>7. ProgressInv' /\ LedgerInv'
    BY <1>1, <1>5, <2>1, <2>3, <2>4 DEF ProgressInv, LedgerInv, WeightOf
  <2>8. WorkersInv'
    BY <1>1, <2>1 DEF IInv, WorkersInv, MaxWorkers, Workers
  <2>. QED
    BY <1>4, <2>5, <2>6, <2>7, <2>8 DEF IInv
<1>7. CASE ~(fitting # {} /\ Cardinality(inFlight) < MaxWorkers)
  <2>1. at' = "wait" /\ UNCHANGED <<candidate, pending>>
    BY <1>2, <1>7
  <2>2. inFlight = {} => pending = {}
    <3>1. ASSUME inFlight = {} PROVE fitting = {}
      BY <1>7, <3>1, RoomForOne, FS_EmptySet DEF IInv
    <3>2. ASSUME inFlight = {}, NEW b \in pending PROVE b \in fitting
      BY <3>2 DEF Fits
    <3>. QED
      BY <3>1, <3>2
  <2>3. TypesOK' /\ PartitionInv' /\ WorkersInv'
    BY <1>1, <2>1 DEF IInv, TypesOK, PartitionInv, Submitting, WorkersInv, MaxWorkers, Workers
  <2>4. ProgressInv' /\ LedgerInv'
    BY <1>1, <1>5, <2>1, <2>2 DEF ProgressInv, LedgerInv
  <2>. QED
    BY <1>4, <2>3, <2>4 DEF IInv
<1>. QED
  BY <1>6, <1>7

\* The workers 1..count of a generation hold the queued futures that the call queue does not.
PoolHolds(held, count, workers) ==
    /\ \A b \in Builds : outcome[b] = "queued" =>
         b \in held /\ (InQueue(b) \/ \E w \in 1..count : workers[w] = b)
    /\ \A w \in 1..count : workers[w] # Nobody => outcome[workers[w]] = "queued"
    /\ \A w, v \in 1..count : workers[w] # Nobody /\ workers[w] = workers[v] => w = v
    /\ \A b \in Builds : ~(InQueue(b) /\ \E w \in 1..count : workers[w] = b)
    /\ reader' \in 1..count => workers[reader'] = Nobody

\* A future is submitted to such a pool.
LEMMA SubmittedStep ==
  ASSUME IInv, candidate # Nobody, broken' = FALSE,
         NEW held \in SUBSET Builds, NEW idle, NEW count \in Nat, count <= MaxWorkers,
         NEW workers \in [1..count -> Builds \cup {Nobody}],
         PoolHolds(held, count, workers), Submitted(held, idle, count, workers),
         UNCHANGED <<budget, pending, built, failed>>
  PROVE  IInv'
<1>0. /\ \A b \in Builds : outcome[b] = "queued" =>
            b \in held /\ (InQueue(b) \/ \E w \in 1..count : workers[w] = b)
      /\ \A w \in 1..count : workers[w] # Nobody => outcome[workers[w]] = "queued"
      /\ \A w, v \in 1..count : workers[w] # Nobody /\ workers[w] = workers[v] => w = v
      /\ \A b \in Builds : ~(InQueue(b) /\ \E w \in 1..count : workers[w] = b)
      /\ reader' \in 1..count => workers[reader'] = Nobody
  BY DEF PoolHolds
<1>1. candidate \in Builds /\ candidate \notin inFlight /\ candidate \notin pending \cup built \cup failed
  BY DEF IInv, TypesOK, PartitionInv, Submitting
<1>2. outcome[candidate] # "queued"
  BY <1>1 DEF IInv, PlaceInv
<1>3. PICK c \in Builds : c = candidate
  BY <1>1
<1>4. /\ outcome' = [outcome EXCEPT ![c] = "queued"] /\ generation' = held \cup {c}
      /\ queue' = Append(queue, c) /\ inFlight' = inFlight \cup {c} /\ admitted' = admitted + Weight(c)
      /\ candidate' = Nobody /\ at' = "admit"
  BY <1>3 DEF Submitted
<1>5. /\ DOMAIN doing' = 1..spawned' /\ spawned' \in Nat /\ spawned' <= MaxWorkers
      /\ doing' = [w \in 1..spawned' |-> IF w \in 1..count THEN workers[w] ELSE Nobody]
      /\ count <= spawned'
  <2>1. DOMAIN workers = 1..count /\ Cardinality(1..count) = count /\ MaxWorkers \in Nat \ {0}
    BY FS_Interval, RoomForOne DEF IInv
  <2>2. CASE idle > 0
    BY <2>1, <2>2 DEF Submitted
  <2>3. CASE ~(idle > 0)
    <3>1. /\ spawned' = IF count < MaxWorkers THEN count + 1 ELSE count
          /\ doing' = [w \in (1..count) \cup {spawned'} |-> IF w \in 1..count THEN workers[w] ELSE Nobody]
      BY <2>1, <2>3 DEF Submitted
    <3>2. (1..count) \cup {spawned'} = 1..spawned' /\ spawned' \in Nat /\ count <= spawned' /\ spawned' <= MaxWorkers
      <4>1. CASE count < MaxWorkers
        BY <2>1, <3>1, <4>1
      <4>2. CASE ~(count < MaxWorkers)
        BY <2>1, <3>1, <4>2
      <4>. QED
        BY <4>1, <4>2
    <3>. QED
      BY <3>1, <3>2
  <2>. QED
    BY <2>2, <2>3
<1>6. /\ \A w \in 1..spawned' : doing'[w] # Nobody => w \in 1..count /\ doing'[w] = workers[w]
      /\ \A w \in 1..count : w \in 1..spawned' /\ doing'[w] = workers[w]
  BY <1>5
<1>7. MaxWorkers' = MaxWorkers
  BY DEF MaxWorkers
<1>8. queue \in Seq(Builds) /\ outcome \in [Builds -> {"none", "queued", "ok", "error"}]
  BY DEF IInv, TypesOK
<1>9. TypesOK'
  <2>1. queue' \in Seq(Builds) /\ outcome' \in [Builds -> {"none", "queued", "ok", "error"}]
    BY <1>4, <1>8
  <2>2. doing' \in [Workers' -> Builds \cup {Nobody}]
    BY <1>5 DEF Workers
  <2>3. generation' \subseteq Builds /\ at' = "admit" /\ candidate' = Nobody /\ broken' = FALSE
    BY <1>4
  <2>4. budget' \in Nat /\ budget' >= Peak
    BY DEF IInv, TypesOK
  <2>. QED
    BY <1>5, <2>1, <2>2, <2>3, <2>4 DEF TypesOK
<1>10. PartitionInv'
  <2>1. Submitting = {c} /\ Submitting' = {}
    BY <1>3, <1>4 DEF Submitting
  <2>. QED
    BY <1>4, <2>1 DEF IInv, PartitionInv
<1>11. ProgressInv'
  BY <1>4 DEF ProgressInv
<1>12. /\ Len(queue') = Len(queue) + 1 /\ Len(queue) \in Nat
       /\ queue'[Len(queue) + 1] = c /\ \A i \in 1..Len(queue) : queue'[i] = queue[i] /\ queue[i] \in Builds
  BY <1>4, <1>8
<1>13. \A b \in Builds : InQueue(b)' <=> (InQueue(b) \/ b = c)
  BY <1>12 DEF InQueue
<1>14. \A b \in Builds : InWork(b)' <=> \E w \in 1..count : workers[w] = b
  BY <1>5, <1>6, BuildsAre DEF InWork, Workers
<1>15. \A b \in Builds : outcome'[b] = "queued" <=> (outcome[b] = "queued" \/ b = c)
  BY <1>4, <1>8
<1>16. PlaceInv'
  <2>1. ASSUME NEW b \in Builds, outcome'[b] = "queued"
        PROVE  ~broken' /\ b \in inFlight' /\ b \in generation' /\ (InQueue(b)' \/ InWork(b)')
    BY <2>1, <1>0, <1>4, <1>13, <1>14, <1>15 DEF IInv, PlaceInv
  <2>2. \A i \in 1..Len(queue') : outcome'[queue'[i]] = "queued"
    BY <1>12, <1>15 DEF IInv, PlaceInv
  <2>3. \A i \in 1..Len(queue) : queue[i] # c
    BY <1>2, <1>3 DEF IInv, PlaceInv
  <2>4. \A i, j \in 1..Len(queue') : queue'[i] = queue'[j] => i = j
    BY <1>12, <2>3 DEF IInv, PlaceInv
  <2>5. \A w \in 1..count : workers[w] # c
    BY <1>0, <1>2, <1>3, BuildsAre
  <2>6. \A w \in Workers' : doing'[w] # Nobody => outcome'[doing'[w]] = "queued"
    BY <1>0, <1>5, <1>6, <1>15 DEF Workers
  <2>7. \A w, v \in Workers' : doing'[w] # Nobody /\ doing'[w] = doing'[v] => w = v
    BY <1>0, <1>5, <1>6 DEF Workers
  <2>8. \A b \in Builds : ~(InQueue(b)' /\ InWork(b)')
    BY <1>0, <1>13, <1>14, <2>5
  <2>. QED
    BY <2>1, <2>2, <2>4, <2>6, <2>7, <2>8 DEF PlaceInv
<1>17. WorkersInv'
  BY <1>0, <1>4, <1>5, <1>6, <1>7 DEF WorkersInv, Workers
<1>18. LedgerInv'
  <2>1. WeightOf(inFlight)' = WeightOf(inFlight) + Weight(c)
    <3>1. WeightOf(inFlight \cup {c}) = WeightOf(inFlight) + Weight(c)
      BY <1>1, <1>3, WeightOfFacts
    <3>. QED
      BY <1>4, <3>1 DEF WeightOf, Weight
  <2>2. admitted = WeightOf(inFlight) /\ (inFlight = {} \/ WeightOf(inFlight) + Weight(c) <= budget)
    BY <1>3 DEF IInv, LedgerInv, FitsTheBudget
  <2>3. inFlight = {} => Cardinality(inFlight') = 1
    <3>1. Cardinality({c}) = 1
      BY FS_Singleton
    <3>. QED
      BY <1>4, <3>1
  <2>. QED
    BY <1>4, <2>1, <2>2, <2>3 DEF LedgerInv, FitsTheBudget
<1>. QED
  BY <1>9, <1>10, <1>11, <1>16, <1>17, <1>18 DEF IInv

\* submit: to a pool that still takes futures, or the generation is finished first.
LEMMA SubmitStep ==
  ASSUME IInv, Submit
  PROVE  IInv'
<1>1. /\ at = "submit" /\ candidate # Nobody /\ UNCHANGED <<budget, pending, built, failed>>
      /\ generation \subseteq Builds
  BY DEF Submit, IInv, ProgressInv, TypesOK
<1>2. CASE Cardinality(generation) >= Capacity \/ broken
  <2>1. /\ at' = "recycle"
        /\ UNCHANGED <<candidate, inFlight, admitted, outcome, generation, broken, spawned, doing, queue, reader>>
    BY <1>2 DEF Submit, poolVars
  <2>2. TypesOK' /\ PartitionInv' /\ ProgressInv'
    BY <1>1, <2>1 DEF IInv, TypesOK, PartitionInv, Submitting, ProgressInv, Workers
  <2>3. PlaceInv'
    BY <1>1, <2>1 DEF IInv, PlaceInv, InQueue, InWork, Workers
  <2>4. WorkersInv'
    BY <1>1, <2>1 DEF IInv, WorkersInv, MaxWorkers, Workers
  <2>5. LedgerInv'
    BY <1>1, <2>1 DEF IInv, LedgerInv, FitsTheBudget
  <2>. QED
    BY <2>2, <2>3, <2>4, <2>5 DEF IInv
<1>3. CASE ~(Cardinality(generation) >= Capacity \/ broken)
  <2>1. /\ Submitted(generation, tokens, spawned, doing) /\ UNCHANGED <<broken, reader>>
        /\ broken \in BOOLEAN /\ ~broken
    BY <1>3 DEF Submit, IInv, TypesOK
  <2>2. Workers = 1..spawned /\ spawned \in Nat /\ spawned <= MaxWorkers /\ doing \in [1..spawned -> Builds \cup {Nobody}]
    BY <1>1, <2>1 DEF IInv, WorkersInv, TypesOK
  <2>3. reader' \in 1..spawned => doing[reader'] = Nobody
    BY <2>1, <2>2 DEF IInv, WorkersInv
  <2>4. PoolHolds(generation, spawned, doing)
    BY <2>1, <2>2, <2>3 DEF IInv, PlaceInv, InWork, PoolHolds
  <2>5. broken' = FALSE /\ generation \in SUBSET Builds
    BY <1>1, <2>1
  <2>. QED
    BY <1>1, <2>1, <2>2, <2>4, <2>5, SubmittedStep
<1>. QED
  BY <1>2, <1>3

\* A generation ends with no future queued, and the next begins with none of its workers.
LEMMA RecycledStep ==
  ASSUME IInv, Recycled
  PROVE  IInv'
<1>1. /\ at = "recycle" /\ candidate # Nobody /\ UNCHANGED <<budget, pending, built, failed>>
      /\ broken' = FALSE /\ reader' = Nobody /\ Submitted({}, 0, 0, <<>>)
      /\ \A b \in generation : outcome[b] # "queued"
  BY DEF Recycled, IInv, ProgressInv
<1>2. \A b \in Builds : outcome[b] # "queued"
  BY <1>1 DEF IInv, PlaceInv
<1>3. \A b \in Builds : ~InQueue(b)
  BY <1>2 DEF IInv, PlaceInv, InQueue
<1>4. 1..0 = {} /\ <<>> \in [1..0 -> Builds \cup {Nobody}] /\ 0 <= MaxWorkers
  BY RoomForOne DEF IInv
<1>5. {} \in SUBSET Builds /\ 0 \in Nat
  OBVIOUS
<1>6. PoolHolds({}, 0, <<>>)
  BY <1>2, <1>3, <1>4 DEF PoolHolds
<1>. QED
  BY <1>1, <1>4, <1>5, <1>6, SubmittedStep

\* The finished futures leave the ledger for the tally.
LEMMA CollectStep ==
  ASSUME IInv, Collect
  PROVE  IInv'
<1>. DEFINE done == {b \in inFlight : outcome[b] \in {"ok", "error"}}
<1>1. /\ at = "wait" /\ inFlight # {} /\ at' = "admit" /\ inFlight' = inFlight \ done
      /\ admitted' = admitted - WeightOf(done)
      /\ built' = built \cup {b \in done : outcome[b] = "ok"}
      /\ failed' = failed \cup {b \in done : outcome[b] = "error"}
      /\ UNCHANGED <<budget, pending, candidate, outcome, generation, broken, spawned, doing, queue, reader>>
  BY DEF Collect, poolVars
<1>2. candidate = Nobody /\ inFlight \subseteq Builds
  BY <1>1 DEF IInv, ProgressInv, PartitionInv
<1>3. TypesOK' /\ ProgressInv'
  BY <1>1, <1>2 DEF IInv, TypesOK, ProgressInv, Workers
<1>4. PartitionInv'
  BY <1>1 DEF IInv, PartitionInv, Submitting
<1>5. PlaceInv'
  BY <1>1 DEF IInv, PlaceInv, InQueue, InWork, Workers
<1>6. WorkersInv'
  BY <1>1 DEF IInv, WorkersInv, MaxWorkers, Workers
<1>7. LedgerInv'
  <2>1. done \subseteq inFlight /\ inFlight' \subseteq inFlight
    BY <1>1
  <2>2. admitted = WeightOf(inFlight) /\ (Cardinality(inFlight) > 1 => WeightOf(inFlight) <= budget)
    BY DEF IInv, LedgerInv, FitsTheBudget
  <2>3. /\ WeightOf(inFlight') = WeightOf(inFlight) - WeightOf(done)
        /\ WeightOf(inFlight') <= WeightOf(inFlight)
    <3>. HIDE DEF done
    <3>. QED
      BY <1>1, <2>1, WeightOfFacts
  <2>4. WeightOf(inFlight) \in Nat /\ WeightOf(inFlight') \in Nat /\ budget \in Nat
    BY WeightOfType DEF IInv, TypesOK
  <2>5. /\ Cardinality(inFlight) \in Nat /\ Cardinality(inFlight') \in Nat
        /\ Cardinality(inFlight') <= Cardinality(inFlight)
    BY <1>2, <2>1, SongsFinite, FS_Subset
  <2>6. WeightOf(inFlight)' = WeightOf(inFlight')
    BY DEF WeightOf, Weight
  <2>. QED
    BY <1>1, <1>2, <2>2, <2>3, <2>4, <2>5, <2>6 DEF LedgerInv, FitsTheBudget
<1>. QED
  BY <1>3, <1>4, <1>5, <1>6, <1>7 DEF IInv

\* The pool is closed, with nothing in flight and nothing pending.
LEMMA CloseStep ==
  ASSUME IInv, Shutdown \/ Closed
  PROVE  IInv'
<1>1. /\ at' \in {"close", "ended"} /\ candidate = Nobody /\ inFlight = {} /\ pending = {}
      /\ UNCHANGED <<budget, pending, candidate, inFlight, admitted, built, failed, outcome, generation, broken,
                     spawned, doing, queue, reader>>
  BY DEF Shutdown, Closed, poolVars, IInv, ProgressInv
<1>2. TypesOK' /\ PartitionInv' /\ ProgressInv'
  BY <1>1 DEF IInv, TypesOK, PartitionInv, Submitting, ProgressInv, Workers
<1>3. PlaceInv'
  BY <1>1 DEF IInv, PlaceInv, InQueue, InWork, Workers
<1>4. WorkersInv'
  BY <1>1 DEF IInv, WorkersInv, MaxWorkers, Workers
<1>5. LedgerInv'
  BY <1>1 DEF IInv, LedgerInv, FitsTheBudget
<1>. QED
  BY <1>2, <1>3, <1>4, <1>5 DEF IInv

\* What a step of a worker leaves alone, and with it the parts that do not look at workers.
LEMMA ParentKept ==
  ASSUME IInv, UNCHANGED parentVars
  PROVE  PartitionInv' /\ ProgressInv' /\ LedgerInv' /\ MaxWorkers' = MaxWorkers
<1>1. UNCHANGED <<budget, at, pending, candidate, inFlight, admitted, built, failed>>
  BY DEF parentVars
<1>. QED
  BY <1>1 DEF IInv, PartitionInv, Submitting, ProgressInv, LedgerInv, FitsTheBudget, MaxWorkers

\* Workers are numbers.
LEMMA NobodyIsNoWorker == IInv => Nobody \notin Workers
<1>1. IInv => Workers \subseteq 1..spawned
  BY DEF IInv, WorkersInv
<1>2. \A n : 1..n \subseteq Int /\ (Nobody \in 1..n => Nobody \in Nat)
  OBVIOUS
<1>. QED
  BY <1>1, <1>2, PrebuildAssumption

\* An idle worker takes the read lock.
LEMMA LockCallsStep ==
  ASSUME IInv, NEW w \in Workers, LockCalls(w)
  PROVE  IInv'
<1>1. /\ UNCHANGED parentVars /\ UNCHANGED <<budget, at, inFlight, candidate, outcome, generation, broken, spawned, doing, queue>>
      /\ reader' = w /\ doing[w] = Nobody
  BY DEF LockCalls, parentVars
<1>2. TypesOK'
  BY <1>1 DEF IInv, TypesOK, Workers
<1>3. PlaceInv'
  BY <1>1 DEF IInv, PlaceInv, InQueue, InWork, Workers
<1>4. WorkersInv'
  BY <1>1 DEF IInv, WorkersInv, MaxWorkers, Workers
<1>. QED
  BY <1>1, <1>2, <1>3, <1>4, ParentKept DEF IInv

\* The first future of the call queue goes to the idle worker that reads it.
LEMMA TakeCallStep ==
  ASSUME IInv, NEW w \in Workers, TakeCall(w)
  PROVE  IInv'
<1>1. /\ UNCHANGED parentVars /\ UNCHANGED <<budget, at, inFlight, candidate, outcome, generation, broken, spawned>>
      /\ reader' = Nobody /\ queue # <<>> /\ ~broken /\ reader = w
      /\ doing' = [doing EXCEPT ![w] = Head(queue)] /\ queue' = Tail(queue)
  BY DEF TakeCall, parentVars
<1>2. queue \in Seq(Builds) /\ doing \in [Workers -> Builds \cup {Nobody}] /\ doing[w] = Nobody /\ Nobody \notin Builds
  BY <1>1, BuildsAre DEF IInv, TypesOK, WorkersInv
<1>3. PICK c \in Builds : c = Head(queue) /\ c = queue[1] /\ 1 \in 1..Len(queue)
  BY <1>1, <1>2
<1>4. /\ queue' \in Seq(Builds) /\ Len(queue') = Len(queue) - 1 /\ Len(queue) \in Nat \ {0}
      /\ \A i \in 1..Len(queue') : i + 1 \in 1..Len(queue) /\ queue'[i] = queue[i + 1]
  BY <1>1, <1>2
<1>5. Workers' = Workers /\ doing' \in [Workers -> Builds \cup {Nobody}] /\ doing'[w] = c
      /\ \A v \in Workers \ {w} : doing'[v] = doing[v]
  BY <1>1, <1>2, <1>3 DEF Workers
<1>6. TypesOK'
  BY <1>1, <1>4, <1>5 DEF IInv, TypesOK
<1>7. /\ outcome[c] = "queued" /\ InQueue(c) /\ ~InWork(c)
      /\ \A i \in 1..Len(queue') : queue'[i] # c
  <2>1. outcome[c] = "queued" /\ InQueue(c)
    BY <1>3 DEF IInv, PlaceInv, InQueue
  <2>2. ~InWork(c)
    BY <1>1, <2>1 DEF IInv, PlaceInv
  <2>3. \A i \in 1..Len(queue') : i + 1 # 1 /\ queue[i + 1] # c
    BY <1>3, <1>4 DEF IInv, PlaceInv
  <2>. QED
    BY <1>4, <2>1, <2>2, <2>3
<1>8. \A b \in Builds : InQueue(b)' <=> InQueue(b) /\ b # c
  <2>1. ASSUME NEW b \in Builds, InQueue(b)' PROVE InQueue(b) /\ b # c
    BY <2>1, <1>4, <1>7 DEF InQueue
  <2>2. ASSUME NEW b \in Builds, b # c, InQueue(b) PROVE InQueue(b)'
    <3>1. PICK i \in 1..Len(queue) : queue[i] = b
      BY <2>2 DEF InQueue
    <3>2. i # 1
      BY <1>3, <2>2, <3>1
    <3>3. i - 1 \in 1..Len(queue') /\ (i - 1) + 1 = i
      BY <1>4, <3>2
    <3>. QED
      BY <1>4, <3>1, <3>3 DEF InQueue
  <2>. QED
    BY <2>1, <2>2
<1>9. \A b \in Builds : InWork(b)' <=> InWork(b) \/ b = c
  BY <1>2, <1>5 DEF InWork
<1>10. PlaceInv'
  <2>1. ASSUME NEW b \in Builds, outcome'[b] = "queued"
        PROVE  ~broken' /\ b \in inFlight' /\ b \in generation' /\ (InQueue(b)' \/ InWork(b)')
    BY <2>1, <1>1, <1>8, <1>9 DEF IInv, PlaceInv
  <2>2. \A i \in 1..Len(queue') : outcome'[queue'[i]] = "queued"
    BY <1>1, <1>4 DEF IInv, PlaceInv
  <2>3. \A i, j \in 1..Len(queue') : queue'[i] = queue'[j] => i = j
    <3>1. ASSUME NEW i \in 1..Len(queue'), NEW j \in 1..Len(queue'), queue'[i] = queue'[j] PROVE i + 1 = j + 1
      BY <3>1, <1>4 DEF IInv, PlaceInv
    <3>. QED
      BY <3>1, <1>4
  <2>4. \A v \in Workers' : doing'[v] # Nobody => outcome'[doing'[v]] = "queued"
    BY <1>1, <1>5, <1>7 DEF IInv, PlaceInv
  <2>5. \A u, v \in Workers' : doing'[u] # Nobody /\ doing'[u] = doing'[v] => u = v
    <3>1. \A v \in Workers \ {w} : doing'[v] # c
      BY <1>5, <1>7 DEF InWork
    <3>. QED
      BY <1>1, <1>5, <3>1 DEF IInv, PlaceInv
  <2>6. \A b \in Builds : ~(InQueue(b)' /\ InWork(b)')
    BY <1>1, <1>8, <1>9 DEF IInv, PlaceInv
  <2>. QED
    BY <2>1, <2>2, <2>3, <2>4, <2>5, <2>6 DEF PlaceInv
<1>11. WorkersInv'
  <2>1. Nobody \notin Workers
    BY NobodyIsNoWorker
  <2>. QED
    BY <1>1, <1>5, <2>1 DEF IInv, WorkersInv, MaxWorkers
<1>. QED
  BY <1>1, <1>6, <1>10, <1>11, ParentKept DEF IInv

\* A worker's build ends: its future is no longer queued, and nobody else held it.
LEMMA FinishStep ==
  ASSUME IInv, NEW w \in Workers, Finish(w)
  PROVE  IInv'
<1>1. PICK o \in {"ok", "error"} : outcome' = [outcome EXCEPT ![doing[w]] = o]
  BY DEF Finish
<1>2. /\ UNCHANGED parentVars /\ UNCHANGED <<budget, at, inFlight, candidate, generation, broken, spawned, queue, reader>>
      /\ doing[w] # Nobody /\ ~broken /\ doing' = [doing EXCEPT ![w] = Nobody]
  BY DEF Finish, parentVars
<1>3. PICK c \in Builds : c = doing[w]
  BY <1>2 DEF IInv, TypesOK
<1>4. outcome \in [Builds -> {"none", "queued", "ok", "error"}] /\ doing \in [Workers -> Builds \cup {Nobody}]
      /\ Nobody \notin Builds
  BY BuildsAre DEF IInv, TypesOK
<1>5. outcome'[c] = o /\ o # "queued" /\ \A b \in Builds \ {c} : outcome'[b] = outcome[b]
  BY <1>1, <1>3, <1>4
<1>6. Workers' = Workers /\ doing' \in [Workers -> Builds \cup {Nobody}] /\ doing'[w] = Nobody
      /\ \A v \in Workers \ {w} : doing'[v] = doing[v] /\ doing'[v] # c
  <2>1. Workers' = Workers /\ doing' \in [Workers -> Builds \cup {Nobody}] /\ doing'[w] = Nobody
        /\ \A v \in Workers \ {w} : doing'[v] = doing[v]
    BY <1>2, <1>4 DEF Workers
  <2>2. \A v \in Workers \ {w} : doing[v] # c
    BY <1>2, <1>3 DEF IInv, PlaceInv
  <2>. QED
    BY <2>1, <2>2
<1>7. TypesOK'
  <2>1. outcome' \in [Builds -> {"none", "queued", "ok", "error"}]
    BY <1>1, <1>4
  <2>. QED
    BY <1>2, <1>6, <2>1 DEF IInv, TypesOK
<1>8. InWork(c) /\ ~InQueue(c)
  BY <1>2, <1>3 DEF IInv, PlaceInv, InWork
<1>9. \A b \in Builds : (InQueue(b)' <=> InQueue(b)) /\ (b # c => (InWork(b)' <=> InWork(b)))
  <2>1. \A b \in Builds : InQueue(b)' <=> InQueue(b)
    BY <1>2 DEF InQueue
  <2>2. \A b \in Builds \ {c} : InWork(b)' <=> InWork(b)
    BY <1>3, <1>4, <1>6 DEF InWork
  <2>. QED
    BY <2>1, <2>2
<1>10. \A b \in Builds : InWork(b)' => InWork(b)
  BY <1>8, <1>9
<1>11. PlaceInv'
  <2>1. ASSUME NEW b \in Builds, outcome'[b] = "queued"
        PROVE  ~broken' /\ b \in inFlight' /\ b \in generation' /\ (InQueue(b)' \/ InWork(b)')
    BY <2>1, <1>2, <1>5, <1>9 DEF IInv, PlaceInv
  <2>2. \A i \in 1..Len(queue) : queue[i] \in Builds /\ queue[i] # c
    BY <1>8 DEF InQueue, IInv, TypesOK
  <2>3. \A i \in 1..Len(queue') : outcome'[queue'[i]] = "queued"
    BY <1>2, <1>5, <2>2 DEF IInv, PlaceInv
  <2>4. \A i, j \in 1..Len(queue') : queue'[i] = queue'[j] => i = j
    BY <1>2 DEF IInv, PlaceInv
  <2>5. \A v \in Workers' : doing'[v] # Nobody => outcome'[doing'[v]] = "queued"
    BY <1>2, <1>4, <1>5, <1>6 DEF IInv, PlaceInv
  <2>6. \A u, v \in Workers' : doing'[u] # Nobody /\ doing'[u] = doing'[v] => u = v
    BY <1>2, <1>6 DEF IInv, PlaceInv
  <2>7. \A b \in Builds : ~(InQueue(b)' /\ InWork(b)')
    BY <1>2, <1>9, <1>10 DEF IInv, PlaceInv
  <2>. QED
    BY <2>1, <2>3, <2>4, <2>5, <2>6, <2>7 DEF PlaceInv
<1>12. WorkersInv'
  BY <1>2, <1>6 DEF IInv, WorkersInv, MaxWorkers
<1>. QED
  BY <1>2, <1>7, <1>11, <1>12, ParentKept DEF IInv

\* A worker that is gone leaves the others as they were.
LEMMA GoneKeeps ==
  ASSUME IInv, NEW w \in Workers, doing' = Gone(w)
  PROVE  /\ Workers' = Workers \ {w} /\ \A v \in Workers' : doing'[v] = doing[v]
         /\ doing' \in [Workers' -> Builds \cup {Nobody}]
         /\ \A b \in Builds : b # doing[w] => (InWork(b)' <=> InWork(b))
         /\ \A b \in Builds : InWork(b)' => InWork(b)
<1>1. Workers' = Workers \ {w} /\ \A v \in Workers' : doing'[v] = doing[v]
  BY DEF Gone, Workers
<1>2. doing' = [v \in Workers' |-> doing'[v]] /\ doing \in [Workers -> Builds \cup {Nobody}]
  BY <1>1 DEF Gone, IInv, TypesOK
<1>3. doing' \in [Workers' -> Builds \cup {Nobody}]
  BY <1>1, <1>2
<1>. QED
  BY <1>1, <1>3 DEF InWork

\* A worker leaves a pool that is shut down or broken; it holds no queued future.
LEMMA LeavePoolStep ==
  ASSUME IInv, NEW w \in Workers, LeavePool(w)
  PROVE  IInv'
<1>1. /\ UNCHANGED parentVars /\ UNCHANGED <<budget, at, inFlight, candidate, outcome, generation, broken, spawned, queue>>
      /\ doing' = Gone(w) /\ reader' = (IF reader = w THEN Nobody ELSE reader)
      /\ broken \/ (at \in {"recycle", "close"} /\ doing[w] = Nobody)
  BY DEF LeavePool, parentVars
<1>2. broken \in BOOLEAN /\ Nobody \notin Builds /\ Nobody \notin Workers
  BY BuildsAre, NobodyIsNoWorker DEF IInv, TypesOK
<1>3. /\ Workers' = Workers \ {w} /\ \A v \in Workers' : doing'[v] = doing[v]
      /\ doing' \in [Workers' -> Builds \cup {Nobody}]
      /\ \A b \in Builds : b # doing[w] => (InWork(b)' <=> InWork(b))
      /\ \A b \in Builds : InWork(b)' => InWork(b)
  BY <1>1, GoneKeeps
<1>4. TypesOK'
  BY <1>1, <1>3 DEF IInv, TypesOK
<1>5. \A b \in Builds : InQueue(b)' <=> InQueue(b)
  BY <1>1 DEF InQueue
<1>6. PlaceInv'
  <2>1. ASSUME NEW b \in Builds, outcome'[b] = "queued"
        PROVE  ~broken' /\ b \in inFlight' /\ b \in generation' /\ (InQueue(b)' \/ InWork(b)')
    BY <2>1, <1>1, <1>2, <1>3, <1>5 DEF IInv, PlaceInv
  <2>2. \A i \in 1..Len(queue') : outcome'[queue'[i]] = "queued"
    BY <1>1 DEF IInv, PlaceInv
  <2>3. \A i, j \in 1..Len(queue') : queue'[i] = queue'[j] => i = j
    BY <1>1 DEF IInv, PlaceInv
  <2>4. ASSUME ~broken'
        PROVE  /\ \A v \in Workers' : doing'[v] # Nobody => outcome'[doing'[v]] = "queued"
               /\ \A u, v \in Workers' : doing'[u] # Nobody /\ doing'[u] = doing'[v] => u = v
               /\ \A b \in Builds : ~(InQueue(b)' /\ InWork(b)')
    BY <2>4, <1>1, <1>3, <1>5 DEF IInv, PlaceInv
  <2>. QED
    BY <2>1, <2>2, <2>3, <2>4 DEF PlaceInv
<1>7. WorkersInv'
  BY <1>1, <1>2, <1>3 DEF IInv, WorkersInv, MaxWorkers
<1>. QED
  BY <1>1, <1>4, <1>6, <1>7, ParentKept DEF IInv

\* A worker dies: the executor is broken, and none of its futures is queued any more.
LEMMA WorkerDiesStep ==
  ASSUME IInv, NEW w \in Workers, WorkerDies(w)
  PROVE  IInv'
<1>1. /\ UNCHANGED parentVars /\ UNCHANGED <<budget, at, inFlight, candidate, generation, spawned, reader>>
      /\ doing' = Gone(w) /\ broken' = TRUE /\ queue' = <<>>
      /\ outcome' = [b \in Builds |-> IF b \in generation /\ outcome[b] = "queued" THEN "error" ELSE outcome[b]]
  BY DEF WorkerDies, parentVars
<1>2. outcome \in [Builds -> {"none", "queued", "ok", "error"}]
  BY DEF IInv, TypesOK
<1>3. Workers' = Workers \ {w} /\ doing' \in [Workers' -> Builds \cup {Nobody}]
  BY <1>1, GoneKeeps
<1>4. TypesOK'
  BY <1>1, <1>2, <1>3 DEF IInv, TypesOK
<1>5. \A b \in Builds : outcome'[b] # "queued"
  BY <1>1, <1>2 DEF IInv, PlaceInv
<1>6. PlaceInv'
  BY <1>1, <1>5 DEF PlaceInv
<1>7. WorkersInv'
  BY <1>1, <1>3 DEF IInv, WorkersInv, MaxWorkers
<1>. QED
  BY <1>1, <1>4, <1>6, <1>7, ParentKept DEF IInv

\* A step of the guard or of the machine changes nothing the invariant speaks of.
LEMMA OtherStep ==
  ASSUME IInv, UNCHANGED coreVars
  PROVE  IInv'
<1>1. UNCHANGED <<budget, at, pending, candidate, inFlight, admitted, built, failed, outcome, generation, broken,
                  spawned, doing, queue, reader>>
  BY DEF coreVars
<1>2. TypesOK' /\ PartitionInv' /\ ProgressInv'
  BY <1>1 DEF IInv, TypesOK, PartitionInv, Submitting, ProgressInv, Workers
<1>3. PlaceInv'
  BY <1>1 DEF IInv, PlaceInv, InQueue, InWork, Workers
<1>4. WorkersInv'
  BY <1>1 DEF IInv, WorkersInv, MaxWorkers, Workers
<1>5. LedgerInv'
  BY <1>1 DEF IInv, LedgerInv, FitsTheBudget
<1>. QED
  BY <1>2, <1>3, <1>4, <1>5 DEF IInv

\* Every step keeps the invariant.
LEMMA InvStep == IInv /\ [PrebuildNext]_prebuildVars => IInv'
<1>. SUFFICES ASSUME IInv, [PrebuildNext]_prebuildVars PROVE IInv'
  OBVIOUS
<1>1. CASE ParentStep
  BY <1>1, AdmitStep, SubmitStep, RecycledStep, CollectStep, CloseStep DEF ParentStep
<1>2. ASSUME NEW w \in Workers, WorkerStep(w) \/ WorkerDies(w) PROVE IInv'
  BY <1>2, LockCallsStep, TakeCallStep, FinishStep, LeavePoolStep, WorkerDiesStep DEF WorkerStep
<1>3. CASE Poll \/ Settle \/ UNCHANGED prebuildVars
  <2>1. UNCHANGED coreVars
    BY <1>3 DEF Poll, Settle, prebuildVars, parentVars, poolVars, coreVars
  <2>. QED
    BY <2>1, OtherStep
<1>. QED
  BY <1>1, <1>2, <1>3 DEF PrebuildNext

\* At the start every song is pending and the pool is empty.
LEMMA InvInit == PrebuildInit => IInv
<1>. SUFFICES ASSUME PrebuildInit PROVE IInv
  OBVIOUS
<1>1. /\ at = "admit" /\ pending = Builds /\ candidate = Nobody /\ inFlight = {} /\ admitted = 0
      /\ built = {} /\ failed = {} /\ outcome = [b \in Builds |-> "none"]
      /\ broken = FALSE /\ spawned = 0 /\ doing = <<>> /\ queue = <<>> /\ reader = Nobody
  BY DEF PrebuildInit
<1>2. budget \in Nat /\ budget >= Peak
  <2>1. PICK free \in RamLevels : budget = IF free - Reserve > Peak THEN free - Reserve ELSE Peak
    BY DEF PrebuildInit
  <2>. QED
    BY <2>1, PrebuildAssumption DEF Reserve, Peak
<1>3. Workers = {} /\ doing \in [Workers -> Builds \cup {Nobody}] /\ 1..0 = {} /\ Len(queue) = 0
  BY <1>1 DEF Workers
<1>4. TypesOK
  <2>1. queue \in Seq(Builds) /\ outcome \in [Builds -> {"none", "queued", "ok", "error"}] /\ generation = {}
    BY <1>1 DEF PrebuildInit
  <2>. QED
    BY <1>1, <1>2, <1>3, <2>1 DEF TypesOK
<1>5. PartitionInv /\ ProgressInv
  BY <1>1 DEF PartitionInv, ProgressInv, Submitting
<1>6. PlaceInv
  BY <1>1, <1>3 DEF PlaceInv, InQueue, InWork
<1>7. WorkersInv
  BY <1>1, <1>3, <1>4, RoomForOne DEF WorkersInv
<1>8. LedgerInv
  <2>1. WeightOf({}) = 0
    BY WeightOfFacts
  <2>. QED
    BY <1>1, <2>1, FS_EmptySet DEF LedgerInv, FitsTheBudget
<1>. QED
  BY <1>4, <1>5, <1>6, <1>7, <1>8 DEF IInv

\* The invariant: who holds what in the pool, the partition of the songs and the ledger.
THEOREM InvariantHolds == PrebuildSpec => []IInv
<1>1. PrebuildInit => IInv
  BY InvInit
<1>2. IInv /\ [PrebuildNext]_prebuildVars => IInv'
  BY InvStep
<1>. QED
  BY <1>1, <1>2, PTL DEF PrebuildSpec

\* A song that is queued is held by one worker or by one place of the call queue.
LEMMA HeldOnce ==
  ASSUME IInv, NEW b \in Builds, outcome[b] = "queued"
  PROVE  Cardinality({w \in Workers : doing[w] = b}) + Cardinality({i \in DOMAIN queue : queue[i] = b}) = 1
<1>. DEFINE A == {w \in Workers : doing[w] = b}
            Q == {i \in DOMAIN queue : queue[i] = b}
<1>1. ~broken /\ (InQueue(b) \/ InWork(b)) /\ ~(InQueue(b) /\ InWork(b)) /\ b # Nobody
  BY BuildsAre DEF IInv, PlaceInv
<1>2. DOMAIN queue = 1..Len(queue)
  BY DEF IInv, TypesOK
<1>3. CASE InQueue(b)
  <2>1. PICK i \in 1..Len(queue) : queue[i] = b
    BY <1>3 DEF InQueue
  <2>2. Q = {i} /\ A = {}
    BY <1>1, <1>2, <1>3, <2>1 DEF IInv, PlaceInv, InWork
  <2>3. Cardinality(A) = 0 /\ Cardinality(Q) = 1
    <3>. HIDE DEF A, Q
    <3>1. Cardinality({i}) = 1 /\ Cardinality({}) = 0
      BY FS_Singleton, FS_EmptySet
    <3>. QED
      BY <2>2, <3>1
  <2>. QED
    BY <2>3
<1>4. CASE InWork(b)
  <2>1. PICK w \in Workers : doing[w] = b
    BY <1>4 DEF InWork
  <2>2. A = {w} /\ Q = {}
    BY <1>1, <1>2, <1>4, <2>1 DEF IInv, PlaceInv, InQueue
  <2>3. Cardinality(A) = 1 /\ Cardinality(Q) = 0
    <3>. HIDE DEF A, Q
    <3>1. Cardinality({w}) = 1 /\ Cardinality({}) = 0
      BY FS_Singleton, FS_EmptySet
    <3>. QED
      BY <2>2, <3>1
  <2>. QED
    BY <2>3
<1>. QED
  BY <1>1, <1>3, <1>4

\* Five sets of songs that share none have together as many as each has.
LEMMA PlacesAddUp ==
  ASSUME PartitionInv
  PROVE  Cardinality(pending) + Cardinality(Submitting) + Cardinality(inFlight) + Cardinality(built)
           + Cardinality(failed) = Cardinality(Builds)
<1>. DEFINE P2 == pending \cup Submitting
            P3 == P2 \cup inFlight
            P4 == P3 \cup built
<1>1. /\ \A S \in {pending, Submitting, inFlight, built, failed, P2, P3, P4} : S \subseteq Builds
      /\ pending \cap Submitting = {} /\ P2 \cap inFlight = {} /\ P3 \cap built = {} /\ P4 \cap failed = {}
      /\ P4 \cup failed = Builds
  BY DEF PartitionInv
<1>2. ASSUME NEW S, NEW R, S \subseteq Builds, R \subseteq Builds, S \cap R = {}
      PROVE  Cardinality(S \cup R) = Cardinality(S) + Cardinality(R)
  <2>1. IsFiniteSet(S) /\ IsFiniteSet(R) /\ Cardinality(S) \in Nat /\ Cardinality(R) \in Nat
    BY <1>2, SongsFinite
  <2>2. Cardinality(S \cup R) = Cardinality(S) + Cardinality(R) - Cardinality(S \cap R)
    BY <2>1, FS_Union
  <2>3. Cardinality(S \cap R) = 0
    BY <1>2, FS_EmptySet
  <2>. QED
    BY <2>1, <2>2, <2>3
<1>3. /\ Cardinality(P2) = Cardinality(pending) + Cardinality(Submitting)
      /\ Cardinality(P3) = Cardinality(P2) + Cardinality(inFlight)
      /\ Cardinality(P4) = Cardinality(P3) + Cardinality(built)
      /\ Cardinality(Builds) = Cardinality(P4) + Cardinality(failed)
  <2>1. Cardinality(P2) = Cardinality(pending) + Cardinality(Submitting)
    BY <1>1, <1>2
  <2>2. Cardinality(P3) = Cardinality(P2) + Cardinality(inFlight)
    <3>. HIDE DEF P2
    <3>. QED
      BY <1>1, <1>2
  <2>3. Cardinality(P4) = Cardinality(P3) + Cardinality(built)
    <3>. HIDE DEF P3
    <3>. QED
      BY <1>1, <1>2
  <2>4. Cardinality(P4 \cup failed) = Cardinality(P4) + Cardinality(failed)
    <3>. HIDE DEF P4
    <3>. QED
      BY <1>1, <1>2
  <2>. QED
    BY <1>1, <2>1, <2>2, <2>3, <2>4
<1>. QED
  BY <1>3

\* EachSongOnce: a song is admitted, submitted, built and tallied once, though generations end, workers die
\* with it and it is submitted to the next pool (fg_prebuild.py, _admit_ready; recycling_process_pool.py, submit).
THEOREM SongsAreBuiltOnce == PrebuildSpec => []EachSongOnce
<1>1. ASSUME IInv PROVE EachSongOnce
  <2>1. Submitting = IF candidate = Nobody THEN {} ELSE {candidate}
    BY DEF Submitting
  <2>2. Cardinality(Submitting) = IF candidate = Nobody THEN 0 ELSE 1
    BY FS_EmptySet, FS_Singleton DEF Submitting
  <2>3. pending \cup Submitting \cup inFlight \cup built \cup failed = Builds
    BY <1>1 DEF IInv, PartitionInv
  <2>4. Cardinality(pending) + Cardinality(Submitting) + Cardinality(inFlight) + Cardinality(built)
           + Cardinality(failed) = Cardinality(Builds)
    BY <1>1, PlacesAddUp DEF IInv
  <2>5. ASSUME NEW b \in Builds, outcome[b] = "queued"
        PROVE  /\ b \in inFlight /\ b \in generation
               /\ Cardinality({w \in Workers : doing[w] = b}) + Cardinality({i \in DOMAIN queue : queue[i] = b}) = 1
    BY <1>1, <2>5, HeldOnce DEF IInv, PlaceInv
  <2>6. Cardinality(Workers) <= MaxWorkers
    <3>1. Workers \subseteq 1..spawned /\ spawned <= MaxWorkers /\ spawned \in Nat /\ MaxWorkers \in Nat
      BY <1>1, RoomForOne DEF IInv, WorkersInv, TypesOK
    <3>2. IsFiniteSet(1..spawned) /\ Cardinality(1..spawned) = spawned
      BY <3>1, FS_Interval
    <3>3. Cardinality(Workers) <= Cardinality(1..spawned) /\ IsFiniteSet(Workers)
      BY <3>1, <3>2, FS_Subset
    <3>4. Cardinality(Workers) \in Nat
      BY <3>3, FS_CardinalityType
    <3>. QED
      BY <3>1, <3>2, <3>3, <3>4
  <2>7. at = "ended" => built \cup failed = Builds
    BY <1>1, <2>1, <2>3 DEF IInv, ProgressInv
  <2>. QED
    BY <2>1, <2>2, <2>3, <2>4, <2>5, <2>6, <2>7 DEF EachSongOnce
<1>2. IInv => EachSongOnce
  BY <1>1
<1>. QED
  BY <1>2, InvariantHolds, PTL

\* FitsTheBudget: the ledger is the sum of what is in flight, and more than one song only if together they fit
\* the budget, whatever was free and measured at each admission (fg_prebuild.py, _admit_ready).
THEOREM BuildsFitTheBudget == PrebuildSpec => []FitsTheBudget
<1>1. IInv => FitsTheBudget
  BY DEF IInv, LedgerInv
<1>. QED
  BY <1>1, InvariantHolds, PTL

-----------------------------------------------------------------------------
(* The rows of a region table, and what is counted for them.               *)

\* The action of k forced Greats.
ActionOf(d, k) ==
    LET later == PerfectFillCrossingOffset(d, k, FALSE)
        first == PerfectFillCrossingOffset(d, k, TRUE)
    IN  [k |-> k, later |-> later, first |-> first, laterForced |-> Least(k, later), firstForced |-> Least(k, first)]

\* The actions of a geometry are a sequence, each with a number of forced Greats.
LEMMA ActionsType ==
  ASSUME NEW d, NEW base \in Nat, NEW timed
  PROVE  /\ Len(ActionTable(d, base, timed)) \in Nat
         /\ \A i \in 1..Len(ActionTable(d, base, timed)) : ActionTable(d, base, timed)[i].k \in Nat
         /\ \A i \in DOMAIN ActionTable(d, base, timed) : \E k \in Nat : ActionTable(d, base, timed)[i] = ActionOf(d, k)
<1>. DEFINE Fill(k) == PerfectFillCrossingOffset(d, k, FALSE)
            First(k) == PerfectFillCrossingOffset(d, k, TRUE)
            kept == {k \in 0..Most(0, base) : timed \/ k = 0 \/ Fill(k) # Fill(k - 1)}
            Action(k) == ActionOf(d, k)
            table == [i \in 1..Cardinality(kept) |-> Action(Nth(kept, i))]
<1>1. ActionTable(d, base, timed) = table
  BY DEF ActionTable, ActionOf
<1>2. Most(0, base) \in Nat
  BY DEF Most
<1>3. kept \subseteq 0..Most(0, base) /\ \A x \in kept : x \in Nat
  <2>1. \A x \in 0..Most(0, base) : x \in Nat
    BY <1>2
  <2>2. kept \subseteq 0..Most(0, base)
    OBVIOUS
  <2>. HIDE DEF kept
  <2>. QED
    BY <2>1, <2>2
<1>4. IsFiniteSet(kept) /\ Cardinality(kept) \in Nat
  <2>1. IsFiniteSet(0..Most(0, base))
    BY <1>2, FS_Interval
  <2>. HIDE DEF kept
  <2>. QED
    BY <1>3, <2>1, FS_Subset, FS_CardinalityType
<1>5. \A k : Action(k).k = k
  BY DEF ActionOf
<1>. HIDE DEF kept, Action
<1>6. \A i \in 1..Cardinality(kept) : table[i].k \in Nat /\ \E k \in Nat : table[i] = Action(k)
  <2>1. ASSUME NEW i \in 1..Cardinality(kept) PROVE Nth(kept, i) \in Nat
    <3>1. Nth(kept, i) \in kept
      BY <1>2, <1>3, NthIsMember
    <3>. QED
      BY <1>3, <3>1, Zenon
  <2>. QED
    BY <1>5, <2>1
<1>7. Len(table) = Cardinality(kept) /\ DOMAIN table = 1..Cardinality(kept)
  BY <1>4
<1>8. \A i \in DOMAIN table : \E k \in Nat : table[i] = ActionOf(d, k)
  <2>. HIDE DEF table
  <2>. QED
    BY <1>6, <1>7 DEF Action
<1>. HIDE DEF table
<1>. QED
  BY <1>1, <1>4, <1>6, <1>7, <1>8

\* Whether an action has its place in a section depends on the section's start only by the notes that are left.
LEMMA OffsetMoves ==
  ASSUME NEW n \in Nat, NEW d \in Int, NEW k \in Nat, NEW start \in 0..n
  PROVE  LET offset == Region2OffsetForCount(0, k, d, n) IN
         /\ offset \in Int /\ (offset = None \/ offset >= 1)
         /\ Region2OffsetForCount(start, k, d, n) =
              IF offset >= 1 /\ start + offset + k <= n THEN offset ELSE None
<1>. DEFINE lo == WholeNotes(d - k)
            hi == WholeNotes(d - (k - 1)) - 1
            Runs(s) == k > 0 /\ s < n /\ d <= 2 * n /\ lo >= 1 /\ lo = hi /\ s + lo + k - 1 < n
<1>1. \A s \in 0..n : Region2OffsetForCount(s, k, d, n) = IF Runs(s) THEN lo ELSE None
  BY DEF Region2OffsetForCount
<1>2. lo \in Int /\ hi \in Int /\ None = -1
  BY DEF WholeNotes, None
<1>. HIDE DEF lo, hi
<1>3. Runs(start) <=> Runs(0) /\ start + lo + k <= n
  BY <1>2
<1>4. 0 \in 0..n
  OBVIOUS
<1>5. Runs(0) => lo >= 1
  OBVIOUS
<1>. HIDE DEF Runs
<1>6. /\ Region2OffsetForCount(0, k, d, n) = IF Runs(0) THEN lo ELSE None
      /\ Region2OffsetForCount(start, k, d, n) = IF Runs(start) THEN lo ELSE None
  BY <1>1, <1>4
<1>. QED
  BY <1>2, <1>3, <1>5, <1>6

\* The scan of the runs stops at a number of actions.
LEMMA ScanStopType ==
  ASSUME NEW count \in Nat, NEW d \in Int
  PROVE  Region2KScanStop(count, d) \in 0..count
BY DEF Region2KScanStop, Least, Most


\* The starts of head sections that have one more run of each action, one note later.
Shifted(n, d) == IF WholeNotes(d) > 1 THEN Least(HeadLen - 1, n + 1) ELSE 0

\* The rows the action i adds to a section start, as the candidates count them.
OwnRow(n, actions, d, start, i) ==
    LET offset == Region2OffsetForCount(0, actions[i].k, d, n) IN
    IF /\ i <= Region2KScanStop(Len(actions), d)
       /\ offset >= 1 /\ start + offset + actions[i].k <= n
       /\ ~(offset = 1 /\ HasShiftedHeadRegion(start, d))
    THEN 1 ELSE 0
ShiftedRow(start, d) == IF HasShiftedHeadRegion(start, d) THEN 1 ELSE 0

\* The cores an action adds to a section start.
ActionCores(c, actions, i, start, d) ==
    {<<o, RegionCore(c, start, o, actions[i].k, d)>> : o \in RegionOffsets(c, actions, i - 1, start, d) \ {None}}

\* Sets of one and two members.
LEMMA SmallSets ==
  ASSUME NEW a, NEW b
  PROVE  /\ IsFiniteSet({}) /\ Cardinality({}) = 0
         /\ IsFiniteSet({a}) /\ Cardinality({a}) = 1
         /\ IsFiniteSet({a, b}) /\ Cardinality({a, b}) <= 2
<1>1. IsFiniteSet({}) /\ Cardinality({}) = 0 /\ IsFiniteSet({a}) /\ Cardinality({a}) = 1
  BY FS_EmptySet, FS_Singleton
<1>2. IsFiniteSet({b}) /\ Cardinality({b}) = 1
  BY FS_Singleton
<1>3. {a, b} = {a} \cup {b}
  OBVIOUS
<1>4. IsFiniteSet({a} \cap {b})
  BY <1>1, FS_Intersection
<1>5. Cardinality({a} \cap {b}) \in Nat
  BY <1>4, FS_CardinalityType
<1>6. IsFiniteSet({a} \cup {b}) /\ Cardinality({a} \cup {b}) = Cardinality({a}) + Cardinality({b}) - Cardinality({a} \cap {b})
  BY <1>1, <1>2, FS_Union
<1>7. IsFiniteSet({a, b})
  BY <1>3, <1>6, Zenon
<1>8. Cardinality({a, b}) = Cardinality({a}) + Cardinality({b}) - Cardinality({a} \cap {b})
  BY <1>3, <1>6, Zenon
<1>9. Cardinality({a, b}) <= 2
  <2>. DEFINE pair == Cardinality({a, b})
              one == Cardinality({a})
              other == Cardinality({b})
              common == Cardinality({a} \cap {b})
  <2>1. pair = one + other - common /\ one = 1 /\ other = 1 /\ common \in Nat
    BY <1>1, <1>2, <1>5, <1>8
  <2>. HIDE DEF pair, one, other, common
  <2>2. pair <= 2
    BY <2>1
  <2>. QED
    BY <2>2, Zenon DEF pair
<1>. QED
  BY <1>1, <1>7, <1>9, Zenon

\* An action adds the rows it is counted for, at most.
LEMMA ActionRows ==
  ASSUME NEW c, c.n \in Nat, NEW d \in Int, NEW actions, Len(actions) \in Nat,
         NEW i \in 1..Len(actions), actions[i].k \in Nat, NEW start \in 0..c.n
  PROVE  /\ IsFiniteSet(ActionCores(c, actions, i, start, d))
         /\ Cardinality(ActionCores(c, actions, i, start, d))
              <= OwnRow(c.n, actions, d, start, i) + ShiftedRow(start, d)
         /\ OwnRow(c.n, actions, d, start, i) \in {0, 1} /\ ShiftedRow(start, d) \in {0, 1}
<1>. DEFINE k == actions[i].k
            offset == Region2OffsetForCount(0, k, d, c.n)
            here == Region2OffsetForCount(start, k, d, c.n)
            stop == Region2KScanStop(Len(actions), d)
            shifts == HasShiftedHeadRegion(start, d)
            Row(o) == <<o, RegionCore(c, start, o, k, d)>>
            offsets == RegionOffsets(c, actions, i - 1, start, d) \ {None}
            all == ActionCores(c, actions, i, start, d)
            own == OwnRow(c.n, actions, d, start, i)
            moved == ShiftedRow(start, d)
<1>1. /\ offset \in Int /\ (offset = None \/ offset >= 1)
      /\ here = IF offset >= 1 /\ start + offset + k <= c.n THEN offset ELSE None
  BY OffsetMoves
<1>2. stop \in 0..Len(actions) /\ None = -1
  BY ScanStopType DEF None
<1>3. offsets = ((IF i <= stop THEN {here} ELSE {}) \cup (IF shifts THEN {1} ELSE {})) \ {None}
  <2>1. i - 1 + 1 = i /\ (i - 1 < stop <=> i <= stop)
    BY <1>2
  <2>. QED
    BY <2>1, Zenon DEF RegionOffsets
<1>4. own = IF i <= stop /\ offset >= 1 /\ start + offset + k <= c.n /\ ~(offset = 1 /\ shifts) THEN 1 ELSE 0
  BY DEF OwnRow
<1>5. moved = IF shifts THEN 1 ELSE 0
  BY DEF ShiftedRow
<1>6. all = {Row(o) : o \in offsets}
  BY DEF ActionCores
<1>. HIDE DEF offset, here, stop, shifts, Row, offsets, all, own, moved, k
<1>7. CASE own = 1 /\ moved = 1
  <2>1. offsets = {here, 1}
    BY <1>1, <1>2, <1>3, <1>4, <1>5, <1>7
  <2>2. all = {Row(here), Row(1)}
    BY <1>6, <2>1
  <2>3. IsFiniteSet(all) /\ Cardinality(all) <= 2
    BY <2>2, SmallSets
  <2>. QED
    BY <1>7, <2>3 DEF all, own, moved
<1>8. CASE own = 1 /\ moved = 0
  <2>1. offsets = {here}
    BY <1>1, <1>2, <1>3, <1>4, <1>5, <1>8
  <2>2. all = {Row(here)}
    BY <1>6, <2>1
  <2>3. IsFiniteSet(all) /\ Cardinality(all) = 1
    BY <2>2, SmallSets
  <2>. QED
    BY <1>8, <2>3 DEF all, own, moved
<1>9. CASE own = 0 /\ moved = 1
  <2>1. offsets = {1}
    BY <1>1, <1>2, <1>3, <1>4, <1>5, <1>9
  <2>2. all = {Row(1)}
    BY <1>6, <2>1
  <2>3. IsFiniteSet(all) /\ Cardinality(all) = 1
    BY <2>2, SmallSets
  <2>. QED
    BY <1>9, <2>3 DEF all, own, moved
<1>10. CASE own = 0 /\ moved = 0
  <2>1. offsets = {}
    BY <1>1, <1>2, <1>3, <1>4, <1>5, <1>10
  <2>2. all = {}
    BY <1>6, <2>1
  <2>3. IsFiniteSet(all) /\ Cardinality(all) = 0
    BY <2>2, SmallSets
  <2>. QED
    BY <1>10, <2>3 DEF all, own, moved
<1>11. own \in {0, 1} /\ moved \in {0, 1}
  BY <1>4, <1>5
<1>. QED
  BY <1>7, <1>8, <1>9, <1>10, <1>11 DEF own, moved

\* A section start has the rows its actions are counted for, at most.
LEMMA StartRows ==
  ASSUME NEW c, c.n \in Nat, NEW d \in Int, NEW actions, Len(actions) \in Nat,
         \A i \in 1..Len(actions) : actions[i].k \in Nat, NEW start \in 0..c.n
  PROVE  /\ IsFiniteSet(RegionCores(c, actions, start, d))
         /\ Cardinality(RegionCores(c, actions, start, d))
              <= SumTo([i \in 1..Len(actions) |-> OwnRow(c.n, actions, d, start, i) + ShiftedRow(start, d)], Len(actions))
         /\ d > 2 * c.n => Cardinality(RegionCores(c, actions, start, d)) = 0
<1>. DEFINE last == Len(actions)
            A == [i \in 1..last |-> ActionCores(c, actions, i, start, d)]
            f == [i \in 1..last |-> Cardinality(A[i])]
            g == [i \in 1..last |-> OwnRow(c.n, actions, d, start, i) + ShiftedRow(start, d)]
            U == UNION {A[i] : i \in 1..last}
            cores0 == RegionCores(c, actions, start, d)
<1>1. \A i \in 1..last : /\ IsFiniteSet(A[i]) /\ f[i] \in Nat /\ f[i] <= g[i] /\ g[i] \in Nat
  <2>1. ASSUME NEW i \in 1..last
        PROVE  IsFiniteSet(A[i]) /\ f[i] \in Nat /\ f[i] <= g[i] /\ g[i] \in Nat
    <3>1. /\ IsFiniteSet(ActionCores(c, actions, i, start, d))
          /\ Cardinality(ActionCores(c, actions, i, start, d))
               <= OwnRow(c.n, actions, d, start, i) + ShiftedRow(start, d)
          /\ OwnRow(c.n, actions, d, start, i) \in {0, 1} /\ ShiftedRow(start, d) \in {0, 1}
      BY ActionRows
    <3>2. Cardinality(ActionCores(c, actions, i, start, d)) \in Nat
      BY <3>1, FS_CardinalityType
    <3>. QED
      BY <3>1, <3>2
  <2>. QED
    BY <2>1
<1>2. cores0 \subseteq U
  <2>1. \A i \in 0..(last - 1) : i + 1 \in 1..last /\ (i + 1) - 1 = i
    OBVIOUS
  <2>2. ASSUME NEW i \in 0..(last - 1)
        PROVE  {<<o, RegionCore(c, start, o, actions[i + 1].k, d)>> :
                  o \in RegionOffsets(c, actions, i, start, d) \ {None}} = A[i + 1]
    BY <2>1 DEF ActionCores
  <2>3. cores0 \subseteq UNION {{<<o, RegionCore(c, start, o, actions[i + 1].k, d)>> :
                  o \in RegionOffsets(c, actions, i, start, d) \ {None}} : i \in 0..(last - 1)}
    BY Zenon DEF RegionCores
  <2>. HIDE DEF A
  <2>4. ASSUME NEW x \in cores0 PROVE x \in U
    <3>1. PICK i \in 0..(last - 1) : x \in {<<o, RegionCore(c, start, o, actions[i + 1].k, d)>> :
                  o \in RegionOffsets(c, actions, i, start, d) \ {None}}
      BY <2>3
    <3>2. x \in A[i + 1] /\ i + 1 \in 1..last
      BY <2>1, <2>2, <3>1
    <3>. QED
      BY <3>2
  <2>. QED
    BY <2>4
<1>3. d > 2 * c.n => cores0 = {}
  BY DEF RegionCores
<1>. HIDE DEF A, g, U, cores0
<1>4. IsFiniteSet(U) /\ Cardinality(U) <= SumTo(f, last)
  BY <1>1, SumCardinality DEF U
<1>. HIDE DEF f
<1>5. SumTo(f, last) <= SumTo(g, last)
  BY <1>1, SumMonotone
<1>6. IsFiniteSet(cores0) /\ Cardinality(cores0) <= Cardinality(U)
  BY <1>2, <1>4, FS_Subset
<1>7. Cardinality(cores0) \in Nat /\ Cardinality(U) \in Nat /\ SumTo(f, last) \in Int /\ SumTo(g, last) \in Int
  <2>1. Cardinality(cores0) \in Nat /\ Cardinality(U) \in Nat
    BY <1>4, <1>6, FS_CardinalityType
  <2>2. \A i \in 1..last : f[i] \in Int /\ g[i] \in Int
    BY <1>1
  <2>3. SumTo(f, last) \in Int /\ SumTo(g, last) \in Int
    BY <2>2, SumType
  <2>. QED
    BY <2>1, <2>3
<1>8. d > 2 * c.n => Cardinality(cores0) = 0
  BY <1>3, FS_EmptySet
<1>. QED
  BY <1>4, <1>5, <1>6, <1>7, <1>8 DEF cores0, g


\* How often an action is counted.
OwnRows(n, actions, d, i) ==
    LET offset == Region2OffsetForCount(0, actions[i].k, d, n)
        starts == Most(0, n - offset - actions[i].k + 1)
    IN  IF offset < 1 THEN 0 ELSE starts - IF offset = 1 THEN Least(Shifted(n, d), starts) ELSE 0

\* The starts with a shifted head region are those up to a note.
LEMMA ShiftedType ==
  ASSUME NEW n \in Nat, NEW d \in Int
  PROVE  /\ Shifted(n, d) \in 0..(n + 1)
         /\ \A start \in 0..n : HasShiftedHeadRegion(start, d) <=> start + 1 <= Shifted(n, d)
<1>1. HeadLen \in Nat \ {0}
  BY HeadAssumption
<1>. QED
  BY <1>1 DEF Shifted, HasShiftedHeadRegion, Least

\* The rows counted for a table: one for each action at the shifted starts, and the own rows of each action.
LEMMA CandidatesAre ==
  ASSUME NEW n, NEW d, NEW actions
  PROVE  Candidates(n, actions, d) =
           IF d > 2 * n THEN 0
           ELSE Shifted(n, d) * Len(actions)
                + SumTo([i \in 1..Len(actions) |-> IF i \in 1..Region2KScanStop(Len(actions), d)
                                                   THEN OwnRows(n, actions, d, i) ELSE 0], Len(actions))
<1>. DEFINE f == [i \in 1..Len(actions) |-> OwnRows(n, actions, d, i)]
<1>1. Candidates(n, actions, d) =
        IF d > 2 * n THEN 0
        ELSE Shifted(n, d) * Len(actions) + SumOf(1..Region2KScanStop(Len(actions), d), f, Len(actions))
  BY DEF Candidates, OwnRows, Shifted
<1>2. \A S : SumOf(S, f, Len(actions)) = SumTo([i \in 1..Len(actions) |-> IF i \in S THEN OwnRows(n, actions, d, i) ELSE 0], Len(actions))
  BY DEF SumOf
<1>. HIDE DEF f
<1>. QED
  BY <1>1, <1>2

\* Over the starts of a song, an action has the rows it is counted for.
LEMMA ActionTotal ==
  ASSUME NEW n \in Nat, NEW d \in Int, NEW actions, Len(actions) \in Nat,
         NEW i \in 1..Len(actions), actions[i].k \in Nat
  PROVE  /\ SumTo([t \in 1..(n + 1) |-> OwnRow(n, actions, d, t - 1, i)], n + 1)
              = IF i \in 1..Region2KScanStop(Len(actions), d) THEN OwnRows(n, actions, d, i) ELSE 0
         /\ OwnRows(n, actions, d, i) \in 0..(n + 1)
<1>. DEFINE k == actions[i].k
            offset == Region2OffsetForCount(0, k, d, n)
            stop == Region2KScanStop(Len(actions), d)
            starts == Most(0, n - offset - k + 1)
            twice == Least(Shifted(n, d), starts)
            m == n + 1
            own == [t \in 1..m |-> OwnRow(n, actions, d, t - 1, i)]
            upTo(j) == [t \in 1..m |-> IF t <= j THEN 1 ELSE 0]
<1>1. offset \in Int /\ (offset = None \/ offset >= 1) /\ None = -1
  <2>1. 0 \in 0..n
    OBVIOUS
  <2>. QED
    BY <2>1, OffsetMoves DEF None
<1>2. stop \in 0..Len(actions) /\ m \in Nat /\ k \in Nat
  <2>1. stop \in 0..Len(actions)
    BY ScanStopType
  <2>2. m \in Nat /\ k \in Nat
    OBVIOUS
  <2>. QED
    BY <2>1, <2>2
<1>3. Shifted(n, d) \in 0..m /\ \A t \in 1..m : HasShiftedHeadRegion(t - 1, d) <=> t <= Shifted(n, d)
  <2>1. \A t \in 1..m : t - 1 \in 0..n /\ t - 1 + 1 = t
    OBVIOUS
  <2>. QED
    BY <2>1, ShiftedType
<1>4. \A t \in 1..m : own[t] = IF i <= stop /\ offset >= 1 /\ t - 1 + offset + k <= n
                                  /\ ~(offset = 1 /\ t <= Shifted(n, d)) THEN 1 ELSE 0
  BY <1>3 DEF OwnRow
<1>5. OwnRows(n, actions, d, i) = IF offset < 1 THEN 0 ELSE starts - IF offset = 1 THEN twice ELSE 0
  BY DEF OwnRows
<1>. HIDE DEF k, offset, stop, own
<1>6. offset >= 1 => starts \in 0..m /\ \A t \in 1..m : t - 1 + offset + k <= n <=> t <= starts
  BY <1>1, <1>2 DEF Most
<1>7. offset >= 1 => twice \in 0..m /\ twice <= starts /\ \A t \in 1..m : t <= twice <=> t <= Shifted(n, d) /\ t <= starts
  BY <1>3, <1>6 DEF Least
<1>. HIDE DEF starts, twice, m
<1>8. \A j \in 0..m : SumTo(upTo(j), m) = j /\ \A t \in 1..m : upTo(j)[t] = IF t <= j THEN 1 ELSE 0
  <2>1. ASSUME NEW j \in 0..m PROVE SumTo(upTo(j), m) = j
    <3>1. SumTo(upTo(j), m) = j * 1
      <4>1. 1 \in Int /\ m \in Nat
        BY <1>2
      <4>. QED
        BY <4>1, SumCounts
    <3>. QED
      BY <1>2, <3>1
  <2>. QED
    BY <2>1
<1>. HIDE DEF upTo
<1>9. ASSUME i \notin 1..stop \/ offset < 1 PROVE SumTo(own, m) = IF i \in 1..stop THEN OwnRows(n, actions, d, i) ELSE 0
  <2>1. \A t \in 1..m : own[t] \in Int /\ own[t] = upTo(0)[t]
    BY <1>1, <1>2, <1>4, <1>8, <1>9
  <2>2. 0 \in 0..m
    BY <1>2
  <2>3. SumTo(own, m) = 0
    BY <1>2, <1>8, <2>1, <2>2, SumEqual
  <2>4. i \in 1..stop => OwnRows(n, actions, d, i) = 0
    BY <1>1, <1>5, <1>9
  <2>. QED
    BY <2>3, <2>4
<1>10. ASSUME i \in 1..stop, offset > 1 PROVE SumTo(own, m) = OwnRows(n, actions, d, i)
  <2>1. \A t \in 1..m : own[t] \in Int /\ own[t] = upTo(starts)[t]
    BY <1>1, <1>2, <1>4, <1>6, <1>8, <1>10
  <2>2. SumTo(own, m) = starts
    BY <1>1, <1>2, <1>6, <1>8, <1>10, <2>1, SumEqual
  <2>3. OwnRows(n, actions, d, i) = starts /\ starts \in 0..m
    BY <1>1, <1>2, <1>5, <1>6, <1>10
  <2>. QED
    BY <2>2, <2>3
<1>11. ASSUME i \in 1..stop, offset = 1 PROVE SumTo(own, m) = OwnRows(n, actions, d, i)
  <2>1. \A t \in 1..m : own[t] \in Int /\ upTo(twice)[t] \in Int /\ upTo(starts)[t] = upTo(twice)[t] + own[t]
    <3>. SUFFICES ASSUME NEW t \in 1..m
                  PROVE  own[t] \in Int /\ upTo(twice)[t] \in Int /\ upTo(starts)[t] = upTo(twice)[t] + own[t]
      OBVIOUS
    <3>1. starts \in 0..m /\ twice \in 0..m /\ twice <= starts
      BY <1>6, <1>7, <1>11
    <3>2. /\ upTo(twice)[t] = IF t <= twice THEN 1 ELSE 0
          /\ upTo(starts)[t] = IF t <= starts THEN 1 ELSE 0
      BY <1>8, <3>1
    <3>3. own[t] = IF t <= starts /\ ~(t <= Shifted(n, d)) THEN 1 ELSE 0
      BY <1>4, <1>6, <1>11
    <3>4. t <= twice <=> t <= Shifted(n, d) /\ t <= starts
      BY <1>7, <1>11
    <3>. QED
      BY <1>2, <3>1, <3>2, <3>3, <3>4
  <2>2. SumTo(upTo(starts), m) = SumTo(upTo(twice), m) + SumTo(own, m) /\ SumTo(own, m) \in Int
    BY <1>2, <2>1, SumAdds, SumType
  <2>3. SumTo(own, m) = starts - twice
    BY <1>2, <1>6, <1>7, <1>8, <1>11, <2>2
  <2>4. OwnRows(n, actions, d, i) = starts - twice /\ starts \in 0..m /\ twice \in 0..m /\ twice <= starts
    BY <1>2, <1>5, <1>6, <1>7, <1>11
  <2>. QED
    BY <2>3, <2>4
<1>12. OwnRows(n, actions, d, i) \in 0..m
  BY <1>1, <1>2, <1>5, <1>6, <1>7
<1>13. SumTo(own, m) = IF i \in 1..stop THEN OwnRows(n, actions, d, i) ELSE 0
  <2>1. offset < 1 \/ offset = 1 \/ offset > 1
    BY <1>1
  <2>. QED
    BY <1>9, <1>10, <1>11, <2>1
<1>. QED
  BY <1>12, <1>13 DEF own, m, stop


\* Of a grid of cells, the rows that hold no more than their cells hold no more together than its columns do.
LEMMA GridBound ==
  ASSUME NEW m \in Nat, NEW last \in Nat, NEW moved \in 0..m,
         NEW own, NEW cell, NEW rows, NEW counted,
         \A t \in 1..m, i \in 1..last :
           own[t][i] \in Int /\ cell[t][i] = own[t][i] + IF t <= moved THEN 1 ELSE 0,
         \A t \in 1..m : rows[t] \in Nat /\ rows[t] <= SumTo([i \in 1..last |-> cell[t][i]], last),
         \A i \in 1..last : counted[i] \in Int /\ SumTo([t \in 1..m |-> own[t][i]], m) = counted[i]
  PROVE  /\ SumTo(rows, m) \in Nat
         /\ SumTo(rows, m) <= SumTo(counted, last) + moved * last
<1>. DEFINE sums == [t \in 1..m |-> SumTo([i \in 1..last |-> cell[t][i]], last)]
            total == [i \in 1..last |-> SumTo([t \in 1..m |-> cell[t][i]], m)]
            ones == [t \in 1..m |-> IF t <= moved THEN 1 ELSE 0]
            moves == [i \in 1..last |-> IF i <= last THEN moved ELSE 0]
<1>1. \A t \in 1..m, i \in 1..last : cell[t][i] \in Int
  OBVIOUS
<1>2. ASSUME NEW t \in 1..m PROVE sums[t] \in Int /\ rows[t] \in Int /\ rows[t] >= 0 /\ rows[t] <= sums[t]
  <2>. DEFINE f == [i \in 1..last |-> cell[t][i]]
  <2>1. \A i \in 1..last : f[i] \in Int
    BY <1>1
  <2>2. sums[t] = SumTo(f, last)
    OBVIOUS
  <2>3. rows[t] \in Nat /\ rows[t] <= SumTo(f, last)
    OBVIOUS
  <2>. HIDE DEF f, sums
  <2>4. SumTo(f, last) \in Int
    BY <2>1, SumType
  <2>. QED
    BY <2>2, <2>3, <2>4
<1>3. SumTo(rows, m) \in Nat /\ SumTo(rows, m) <= SumTo(sums, m)
  <2>. HIDE DEF sums
  <2>1. SumTo(rows, m) \in Nat
    BY ONLY <1>2, SumType, m \in Nat
  <2>2. SumTo(rows, m) <= SumTo(sums, m)
    BY ONLY <1>2, SumMonotone, m \in Nat
  <2>. QED
    BY <2>1, <2>2
<1>4. SumTo(sums, m) = SumTo(total, last)
  BY <1>1, SumExchange
<1>5. SumTo(ones, m) = moved
  <2>1. 1 \in Int /\ moved * 1 = moved
    OBVIOUS
  <2>2. SumTo(ones, m) = moved * 1
    BY ONLY <2>1, SumCounts, m \in Nat, moved \in 0..m
  <2>. QED
    BY <2>1, <2>2
<1>6. SumTo(moves, last) = moved * last
  <2>1. last \in 0..last /\ moved \in Int /\ last * moved = moved * last
    OBVIOUS
  <2>2. SumTo(moves, last) = last * moved
    BY ONLY <2>1, SumCounts, last \in Nat
  <2>. QED
    BY <2>1, <2>2
<1>7. ASSUME NEW i \in 1..last
      PROVE  counted[i] \in Int /\ moves[i] \in Int /\ total[i] = counted[i] + moves[i]
  <2>. DEFINE f == [t \in 1..m |-> own[t][i]]
              h == [t \in 1..m |-> cell[t][i]]
  <2>1. \A t \in 1..m : f[t] \in Int /\ ones[t] \in Int /\ h[t] = f[t] + ones[t]
    OBVIOUS
  <2>2. SumTo(f, m) = counted[i] /\ counted[i] \in Int
    OBVIOUS
  <2>3. total[i] = SumTo(h, m) /\ moves[i] = moved /\ moved \in Int
    OBVIOUS
  <2>. HIDE DEF f, h, ones, total, moves
  <2>4. SumTo(h, m) = SumTo(f, m) + SumTo(ones, m)
    BY <2>1, SumAdds
  <2>. QED
    BY <1>5, <2>2, <2>3, <2>4
<1>. HIDE DEF sums, total, ones, moves
<1>8. SumTo(total, last) = SumTo(counted, last) + SumTo(moves, last)
  BY ONLY <1>7, SumAdds, last \in Nat
<1>. QED
  BY <1>3, <1>4, <1>6, <1>8

\* A region table has no more rows than candidates were counted for it.
LEMMA RowsAreCounted ==
  ASSUME NEW c, c.n \in Nat, NEW d \in Int, NEW actions, Len(actions) \in Nat,
         \A i \in 1..Len(actions) : actions[i].k \in Nat,
         NEW table, \A start \in 0..c.n : table[start] = RegionCores(c, actions, start, d)
  PROVE  /\ Rowed(table, c.n) \in Nat
         /\ Rowed(table, c.n) <= Candidates(c.n, actions, d)
<1>. DEFINE n == c.n
            m == n + 1
            last == Len(actions)
            moved == Shifted(n, d)
            own == [t \in 1..m |-> [i \in 1..last |-> OwnRow(n, actions, d, t - 1, i)]]
            cell == [t \in 1..m |-> [i \in 1..last |-> OwnRow(n, actions, d, t - 1, i) + ShiftedRow(t - 1, d)]]
            rows == [t \in 1..m |-> Cardinality(table[t - 1])]
            counted == [i \in 1..last |-> IF i \in 1..Region2KScanStop(last, d) THEN OwnRows(n, actions, d, i) ELSE 0]
<1>0. n \in Nat /\ m \in Nat /\ last \in Nat /\ moved \in 0..m
  <2>1. n \in Nat /\ m \in Nat /\ last \in Nat
    OBVIOUS
  <2>2. moved \in 0..m
    BY <2>1, ShiftedType
  <2>. QED
    BY <2>1, <2>2
<1>1. ASSUME NEW t \in 1..m, NEW i \in 1..last
      PROVE  own[t][i] \in Int /\ cell[t][i] = own[t][i] + IF t <= moved THEN 1 ELSE 0
  <2>0. actions[i].k \in Nat
    OBVIOUS
  <2>1. t - 1 \in 0..c.n /\ t - 1 + 1 = t /\ actions[i].k \in Nat
    <3>. HIDE DEF own, cell, moved, last
    <3>. QED
      BY <2>0
  <2>2. OwnRow(n, actions, d, t - 1, i) \in {0, 1}
    BY <2>1, ActionRows
  <2>3. ShiftedRow(t - 1, d) = IF t <= moved THEN 1 ELSE 0
    BY <2>1, ShiftedType DEF ShiftedRow
  <2>4. /\ own[t][i] = OwnRow(n, actions, d, t - 1, i)
        /\ cell[t][i] = OwnRow(n, actions, d, t - 1, i) + ShiftedRow(t - 1, d)
    OBVIOUS
  <2>. HIDE DEF own, cell, moved
  <2>. QED
    BY <2>2, <2>3, <2>4
<1>2. ASSUME NEW t \in 1..m
      PROVE  /\ rows[t] \in Nat /\ rows[t] <= SumTo([i \in 1..last |-> cell[t][i]], last)
             /\ d > 2 * n => rows[t] = 0
  <2>1. t - 1 \in 0..c.n
    OBVIOUS
  <2>2. /\ IsFiniteSet(RegionCores(c, actions, t - 1, d))
        /\ Cardinality(RegionCores(c, actions, t - 1, d))
            <= SumTo([i \in 1..last |-> OwnRow(c.n, actions, d, t - 1, i) + ShiftedRow(t - 1, d)], last)
        /\ d > 2 * c.n => Cardinality(RegionCores(c, actions, t - 1, d)) = 0
    BY <2>1, StartRows
  <2>3. [i \in 1..last |-> OwnRow(c.n, actions, d, t - 1, i) + ShiftedRow(t - 1, d)] = [i \in 1..last |-> cell[t][i]]
    OBVIOUS
  <2>4. Cardinality(RegionCores(c, actions, t - 1, d)) \in Nat
    BY <2>2, FS_CardinalityType
  <2>5. rows[t] = Cardinality(RegionCores(c, actions, t - 1, d))
    BY <2>1
  <2>. HIDE DEF rows, cell
  <2>. QED
    BY <2>2, <2>3, <2>4, <2>5
<1>3. ASSUME NEW i \in 1..last
      PROVE  counted[i] \in Int /\ SumTo([t \in 1..m |-> own[t][i]], m) = counted[i]
  <2>1. actions[i].k \in Nat
    OBVIOUS
  <2>2. /\ SumTo([t \in 1..(n + 1) |-> OwnRow(n, actions, d, t - 1, i)], n + 1)
              = IF i \in 1..Region2KScanStop(Len(actions), d) THEN OwnRows(n, actions, d, i) ELSE 0
        /\ OwnRows(n, actions, d, i) \in 0..(n + 1)
    BY <1>0, <2>1, ActionTotal
  <2>3. [t \in 1..(n + 1) |-> OwnRow(n, actions, d, t - 1, i)] = [t \in 1..m |-> own[t][i]]
    OBVIOUS
  <2>4. counted[i] = IF i \in 1..Region2KScanStop(last, d) THEN OwnRows(n, actions, d, i) ELSE 0
    OBVIOUS
  <2>. HIDE DEF counted, own
  <2>5. counted[i] \in Int
    BY <1>0, <2>2, <2>4
  <2>. QED
    BY <2>2, <2>3, <2>4, <2>5
<1>4. Rowed(table, n) = SumTo(rows, m)
  BY DEF Rowed
<1>5. Candidates(n, actions, d) = IF d > 2 * n THEN 0 ELSE moved * last + SumTo(counted, last)
  BY CandidatesAre
<1>. HIDE DEF own, cell, rows, counted, moved, m, last
<1>6. SumTo(rows, m) \in Nat /\ SumTo(rows, m) <= SumTo(counted, last) + moved * last
  <2>1. \A t \in 1..m, i \in 1..last : own[t][i] \in Int /\ cell[t][i] = own[t][i] + IF t <= moved THEN 1 ELSE 0
    BY ONLY <1>1
  <2>2. \A t \in 1..m : rows[t] \in Nat /\ rows[t] <= SumTo([i \in 1..last |-> cell[t][i]], last)
    BY ONLY <1>2
  <2>3. \A i \in 1..last : counted[i] \in Int /\ SumTo([t \in 1..m |-> own[t][i]], m) = counted[i]
    BY ONLY <1>3
  <2>. QED
    BY ONLY <1>0, <2>1, <2>2, <2>3, GridBound
<1>7. SumTo(counted, last) \in Int /\ moved * last \in Int
  <2>1. SumTo(counted, last) \in Int
    BY ONLY <1>0, <1>3, SumType
  <2>2. moved * last \in Int
    BY <1>0
  <2>. QED
    BY <2>1, <2>2
<1>8. d > 2 * n => SumTo(rows, m) <= 0
  <2>1. ASSUME d > 2 * n PROVE \A t \in 1..m : rows[t] \in Int /\ rows[t] <= 0
    <3>1. ASSUME NEW t \in 1..m PROVE rows[t] = 0
      BY <1>2, <2>1
    <3>. QED
      BY <3>1
  <2>2. ASSUME d > 2 * n PROVE SumTo(rows, m) <= m * 0
    <3>1. 0 \in Int
      OBVIOUS
    <3>. QED
      BY <1>0, <2>1, <2>2, <3>1, SumBound
  <2>. QED
    BY <1>0, <2>2
<1>. QED
  BY <1>4, <1>5, <1>6, <1>7, <1>8

-----------------------------------------------------------------------------
(* The build of a song: its invariant.                                     *)

\* What the build is: a song with its chart, its tables and its canonical geometries.
BuildInv ==
    /\ song \in Songs
    /\ chart = ChartOf(song)
    /\ tables = [i \in DOMAIN song.geoms |-> Table(song.timed, song.geoms[i])]
    /\ canon = Canonical(chart, song, tables)

\* The groups in flight were admitted in order, and the geometry at work belongs to one that is not done.
ThreadsInv ==
    /\ nextGroup \in Nat /\ admitting \in BOOLEAN
    /\ building \subseteq Groups /\ reducing \subseteq Groups /\ building \cap reducing = {}
    /\ \A i \in building \cup reducing : i < nextGroup
    /\ finished \subseteq building \cup reducing
    /\ current # 0 => GroupOf(current) \in reducing \ finished

\* The table that a group's thread builds, and its size.
TableOf(i) ==
    [start \in 0..chart.n |-> IF song.timed THEN RegionCores(chart, tables[i].actions, start, song.geoms[i].d) ELSE {}]
SizeOf(i) == StartsBytes(chart.n) + RowBytes * Rowed(TableOf(i), chart.n)

\* The live tables are those that were built.
CoresInv ==
    /\ DOMAIN cores = (building \cap finished) \cup reducing
    /\ \A i \in DOMAIN cores : cores[i] = TableOf(i)

\* The ledger, by what the groups may need and by what their tables take.
PeakSum(S) == SumOf(S, [i \in 1..Len(tables) |-> PeakBound(i)], Len(tables))
SizeSum(S) == SumOf(S, [i \in 1..Len(tables) |-> SizeOf(i)], Len(tables))
BytesInv == reserved = PeakSum(building) + SizeSum(reducing) /\ reserved <= Budget

ProducerInv == BuildInv /\ ThreadsInv /\ CoresInv /\ BytesInv

-----------------------------------------------------------------------------
(* What a build is.                                                        *)

\* What holds of every build.
BuildFacts ==
    /\ chart.n \in Nat /\ song.timed \in BOOLEAN
    /\ Len(tables) \in Nat /\ DOMAIN tables = 1..Len(tables) /\ DOMAIN canon = 1..Len(tables)
    /\ song.timed => Len(tables) >= 1
    /\ \A i \in 1..Len(tables) : canon[i] \in 1..Len(tables) /\ canon[canon[i]] = canon[i]

GeometryFacts ==
    \A i \in 1..Len(tables) :
      /\ song.geoms[i].d \in Int
      /\ Len(tables[i].actions) \in Nat
      /\ \A r \in 1..Len(tables[i].actions) : tables[i].actions[r].k \in Nat

\* The types of a build.
LEMMA BuildIsSound ==
  ASSUME BuildInv
  PROVE  BuildFacts /\ GeometryFacts
<1>. DEFINE n == Len(song.geoms)
<1>1. /\ song.timed \in BOOLEAN /\ (song.timed => song.geoms # <<>>)
      /\ song.notes \in Seq([at : Nat, tail : BOOLEAN, lane : Nat])
      /\ song.geoms \in Seq([d : Nat, base : Nat, rt : Nat])
  BY SongsAssumption DEF BuildInv
<1>2. n \in Nat /\ DOMAIN song.geoms = 1..n /\ (song.timed => n >= 1)
  BY <1>1
<1>3. \A i \in 1..n : song.geoms[i].d \in Nat /\ song.geoms[i].base \in Nat
  <2>1. ASSUME NEW i \in 1..n PROVE song.geoms[i] \in [d : Nat, base : Nat, rt : Nat]
    <3>. DEFINE G == [d : Nat, base : Nat, rt : Nat]
                geoms == song.geoms
    <3>1. geoms \in Seq(G) /\ i \in 1..Len(geoms)
      BY <1>1
    <3>. HIDE DEF G, geoms, n
    <3>2. geoms[i] \in G
      BY <3>1
    <3>. QED
      BY <3>2 DEF G, geoms
  <2>2. \A g \in [d : Nat, base : Nat, rt : Nat] : g.d \in Nat /\ g.base \in Nat
    OBVIOUS
  <2>. HIDE DEF n
  <2>. QED
    BY <2>1, <2>2
<1>4. chart.n \in Nat
  <2>1. Len(song.notes) \in Nat
    BY <1>1
  <2>2. PreciseChart(song.notes, 0).n = Len(song.notes) /\ PreciseChart(song.notes, 1).n = Len(song.notes)
    BY DEF PreciseChart
  <2>3. FixedChart(song.notes).n = Len(song.notes)
    BY <2>2 DEF FixedChart, PreciseChart
  <2>. QED
    BY <1>1, <2>1, <2>2, <2>3 DEF BuildInv, ChartOf
<1>5. tables = [i \in 1..n |-> Table(song.timed, song.geoms[i])]
  BY <1>2 DEF BuildInv
<1>6. Len(tables) = n /\ DOMAIN tables = 1..n
  BY <1>2, <1>5
<1>7. GeometryFacts
  <2>1. ASSUME NEW i \in 1..n
        PROVE  /\ song.geoms[i].d \in Int /\ Len(tables[i].actions) \in Nat
               /\ \A r \in 1..Len(tables[i].actions) : tables[i].actions[r].k \in Nat
    <3>1. tables[i].actions = ActionTable(song.geoms[i].d, song.geoms[i].base, song.timed)
      BY <1>5 DEF Table
    <3>. QED
      BY <1>3, <3>1, ActionsType
  <2>. QED
    BY <1>6, <2>1 DEF GeometryFacts
<1>8. DOMAIN canon = 1..n /\ \A i \in 1..n : canon[i] \in 1..n /\ canon[canon[i]] = canon[i]
  <2>. DEFINE signature == [i \in 1..n |-> Signature(chart, song.timed, tables[i], song.geoms[i])]
              Same(i) == {j \in 1..n : signature[j] = signature[i]}
  <2>1. canon = [i \in 1..n |-> Min(Same(i))]
    BY <1>2 DEF BuildInv, Canonical
  <2>. HIDE DEF signature
  <2>2. ASSUME NEW i \in 1..n PROVE Min(Same(i)) \in Same(i)
    <3>1. Same(i) \subseteq 0..n /\ Same(i) # {}
      OBVIOUS
    <3>. HIDE DEF Same
    <3>. QED
      BY <1>2, <3>1, MinOf
  <2>3. ASSUME NEW i \in 1..n PROVE canon[i] \in 1..n /\ canon[canon[i]] = canon[i]
    <3>1. canon[i] = Min(Same(i)) /\ canon[i] \in 1..n /\ signature[canon[i]] = signature[i]
      BY <2>1, <2>2
    <3>2. Same(canon[i]) = Same(i)
      BY <3>1
    <3>. QED
      BY <2>1, <3>1, <3>2
  <2>. QED
    BY <2>1, <2>3
<1>. QED
  BY <1>1, <1>2, <1>4, <1>6, <1>7, <1>8 DEF BuildFacts

\* The groups are geometries.
LEMMA GroupsAreGeometries ==
  ASSUME BuildInv
  PROVE  /\ \A i \in 1..Len(tables) : GroupOf(i) \in 1..Len(tables) /\ GroupOf(i) \in Groups
         /\ Groups \subseteq 1..Len(tables) /\ IsFiniteSet(Groups) /\ Cardinality(Groups) \in Nat
         /\ Groups # {} => Cardinality(Groups) >= 1
         /\ song.timed => Groups # {}
<1>0. BuildFacts
  BY BuildIsSound
<1>1. ASSUME NEW i \in 1..Len(tables) PROVE GroupOf(i) \in 1..Len(tables)
  <2>. DEFINE Key(j) == <<song.geoms[j].d, song.geoms[j].base, [r \in DOMAIN tables[j].actions |-> tables[j].actions[r].k]>>
              T == {j \in DOMAIN canon : canon[j] = j /\ Key(j) = Key(canon[i])}
  <2>1. GroupOf(i) = Min(T)
    BY DEF GroupOf
  <2>. HIDE DEF Key
  <2>2. canon[i] \in T /\ T \subseteq 0..Len(tables) /\ T \subseteq 1..Len(tables) /\ Len(tables) \in Nat
    BY <1>0 DEF BuildFacts
  <2>. HIDE DEF T
  <2>3. Min(T) \in T
    BY <2>2, MinOf
  <2>. QED
    BY <2>1, <2>2, <2>3
<1>2. Groups \subseteq 1..Len(tables) /\ \A i \in 1..Len(tables) : GroupOf(i) \in Groups
  BY <1>0, <1>1 DEF Groups, BuildFacts
<1>3. IsFiniteSet(1..Len(tables))
  BY <1>0, FS_Interval DEF BuildFacts
<1>4. IsFiniteSet(Groups) /\ Cardinality(Groups) \in Nat
  BY <1>2, <1>3, FS_Subset, FS_CardinalityType
<1>5. Groups # {} => Cardinality(Groups) >= 1
  BY <1>4, FS_EmptySet
<1>6. song.timed => Groups # {}
  BY <1>0, <1>2 DEF BuildFacts
<1>. QED
  BY <1>1, <1>2, <1>4, <1>5, <1>6

\* Twice the candidates of an action table fit a table with two rows per start and action.
LEMMA CandidatesBound ==
  ASSUME NEW n \in Nat, NEW d \in Int, NEW actions, Len(actions) \in Nat,
         \A i \in 1..Len(actions) : actions[i].k \in Nat
  PROVE  Candidates(n, actions, d) \in Nat /\ Candidates(n, actions, d) <= 2 * ((n + 1) * Len(actions))
<1>. DEFINE last == Len(actions)
            moved == Shifted(n, d)
            counted == [i \in 1..last |-> IF i \in 1..Region2KScanStop(last, d) THEN OwnRows(n, actions, d, i) ELSE 0]
<1>1. moved \in 0..(n + 1) /\ last \in Nat /\ n + 1 \in Nat
  <2>1. moved \in 0..(n + 1)
    BY ShiftedType
  <2>. HIDE DEF moved, counted
  <2>. QED
    BY <2>1
<1>2. ASSUME NEW i \in 1..last PROVE counted[i] \in Int /\ counted[i] >= 0 /\ counted[i] <= n + 1
  <2>1. OwnRows(n, actions, d, i) \in 0..(n + 1)
    BY ActionTotal
  <2>2. counted[i] = OwnRows(n, actions, d, i) \/ counted[i] = 0
    OBVIOUS
  <2>. HIDE DEF counted
  <2>. QED
    BY <1>1, <2>1, <2>2
<1>3. Candidates(n, actions, d) = IF d > 2 * n THEN 0 ELSE moved * last + SumTo(counted, last)
  BY CandidatesAre
<1>. HIDE DEF counted, moved, last
<1>4. SumTo(counted, last) \in Nat
  BY ONLY <1>1, <1>2, SumType
<1>5. SumTo(counted, last) <= last * (n + 1)
  <2>1. n + 1 \in Int
    BY <1>1
  <2>. QED
    BY ONLY <1>1, <1>2, <2>1, SumBound
<1>6. moved * last \in Nat /\ moved * last <= (n + 1) * last /\ last * (n + 1) = (n + 1) * last /\ (n + 1) * last \in Nat
  BY <1>1
<1>7. Candidates(n, actions, d) \in Nat /\ Candidates(n, actions, d) <= 2 * ((n + 1) * last)
  <2>. DEFINE x == moved * last
              y == (n + 1) * last
              z == SumTo(counted, last)
  <2>1. x \in Nat /\ x <= y /\ y \in Nat /\ z \in Nat /\ z <= y
    BY <1>4, <1>5, <1>6
  <2>2. Candidates(n, actions, d) = IF d > 2 * n THEN 0 ELSE x + z
    BY <1>3
  <2>. HIDE DEF x, z, y
  <2>3. Candidates(n, actions, d) \in Nat /\ Candidates(n, actions, d) <= 2 * y
    BY <2>1, <2>2
  <2>. QED
    BY <2>3 DEF y
<1>. QED
  BY <1>7 DEF last


-----------------------------------------------------------------------------
(* The memory of a build.                                                  *)

\* What a group reserves, while its table is built and once it is, and what the build may reserve.
BytesFacts ==
    /\ \A i \in 1..Len(tables) : /\ SizeOf(i) \in Nat /\ RetainedBound(i) \in Nat /\ PeakBound(i) \in Nat
                                 /\ SizeOf(i) <= RetainedBound(i) /\ RetainedBound(i) <= PeakBound(i)
    /\ \A i \in Groups : PeakBound(i) <= Budget
    /\ Budget \in Nat

\* The bytes of a table: after the build, before it and while it is trimmed.
LEMMA BytesAreBounded ==
  ASSUME BuildInv
  PROVE  BytesFacts
<1>. DEFINE n == chart.n
            N == Len(tables)
            cand(i) == Candidates(n, tables[i].actions, song.geoms[i].d)
            size(i) == Rowed(TableOf(i), n)
            last(i) == Len(tables[i].actions)
<1>0. BuildFacts /\ GeometryFacts
  BY BuildIsSound
<1>1. n \in Nat /\ N \in Nat /\ song.timed \in BOOLEAN /\ StartsBytes(n) \in Nat /\ RowBytes = 28
      /\ n + 1 \in Nat /\ StartsBytes(n) = 8 * (n + 2)
  BY <1>0 DEF BuildFacts, StartsBytes, RowBytes
<1>2. ASSUME NEW i \in 1..N
      PROVE  last(i) \in Nat /\ cand(i) \in Nat /\ cand(i) <= 2 * ((n + 1) * last(i))
  <2>1. /\ song.geoms[i].d \in Int /\ Len(tables[i].actions) \in Nat
        /\ \A r \in 1..Len(tables[i].actions) : tables[i].actions[r].k \in Nat
    BY <1>0 DEF GeometryFacts
  <2>. QED
    BY <1>1, <2>1, CandidatesBound
<1>3. ASSUME NEW i \in 1..N
      PROVE  size(i) \in Nat /\ (song.timed => size(i) <= cand(i)) /\ (~song.timed => size(i) = 0)
  <2>1. /\ song.geoms[i].d \in Int /\ Len(tables[i].actions) \in Nat
        /\ \A r \in 1..Len(tables[i].actions) : tables[i].actions[r].k \in Nat
    BY <1>0 DEF GeometryFacts
  <2>2. CASE song.timed
    <3>1. \A start \in 0..chart.n : TableOf(i)[start] = RegionCores(chart, tables[i].actions, start, song.geoms[i].d)
      BY <2>2 DEF TableOf
    <3>. QED
      BY <1>1, <2>1, <2>2, <3>1, RowsAreCounted
  <2>3. CASE ~song.timed
    <3>. DEFINE rows == [t \in 1..(n + 1) |-> Cardinality(TableOf(i)[t - 1])]
    <3>1. \A t \in 1..(n + 1) : rows[t] = 0
      <4>1. \A start \in 0..n : TableOf(i)[start] = {}
        BY <2>3 DEF TableOf
      <4>2. \A t \in 1..(n + 1) : t - 1 \in 0..n
        BY <1>1
      <4>. QED
        BY <4>1, <4>2, FS_EmptySet
    <3>2. size(i) = SumTo(rows, n + 1)
      BY DEF Rowed
    <3>. HIDE DEF rows
    <3>3. \A t \in 1..(n + 1) : rows[t] \in Int /\ rows[t] >= 0 /\ rows[t] <= 0
      BY <3>1
    <3>4. SumTo(rows, n + 1) \in Nat
      BY <1>1, <3>3, SumType
    <3>5. SumTo(rows, n + 1) <= (n + 1) * 0
      <4>1. 0 \in Int
        OBVIOUS
      <4>. QED
        BY <1>1, <3>3, <4>1, SumBound
    <3>. QED
      BY <1>1, <2>3, <3>2, <3>4, <3>5
  <2>. QED
    BY <2>2, <2>3
<1>4. \A i : /\ SizeOf(i) = StartsBytes(n) + RowBytes * size(i)
             /\ RetainedBound(i) = StartsBytes(n) + IF song.timed THEN 1 * RowBytes * cand(i) ELSE 0
             /\ PeakBound(i) = StartsBytes(n) + IF song.timed THEN 2 * RowBytes * cand(i) ELSE 0
  BY DEF SizeOf, RetainedBound, PeakBound, Bound
<1>. HIDE DEF n, N, cand, size, last
<1>5. ASSUME NEW i \in 1..N
      PROVE  /\ SizeOf(i) \in Nat /\ RetainedBound(i) \in Nat /\ PeakBound(i) \in Nat
             /\ SizeOf(i) <= RetainedBound(i) /\ RetainedBound(i) <= PeakBound(i)
             /\ song.timed => PeakBound(i) <= StartsBytes(n) + 112 * ((n + 1) * last(i))
             /\ ~song.timed => PeakBound(i) = StartsBytes(n)
  <2>. DEFINE x == cand(i)
              y == (n + 1) * last(i)
              z == size(i)
              s == StartsBytes(n)
  <2>1. x \in Nat /\ y \in Nat /\ z \in Nat /\ s \in Nat /\ x <= 2 * y
        /\ (song.timed => z <= x) /\ (~song.timed => z = 0)
    BY <1>1, <1>2, <1>3
  <2>2. /\ SizeOf(i) = s + 28 * z
        /\ RetainedBound(i) = s + IF song.timed THEN 28 * x ELSE 0
        /\ PeakBound(i) = s + IF song.timed THEN 56 * x ELSE 0
    BY <1>1, <1>4, <2>1
  <2>. HIDE DEF x, y, z, s
  <2>3. /\ SizeOf(i) \in Nat /\ RetainedBound(i) \in Nat /\ PeakBound(i) \in Nat
        /\ SizeOf(i) <= RetainedBound(i) /\ RetainedBound(i) <= PeakBound(i)
        /\ song.timed => PeakBound(i) <= s + 112 * y
        /\ ~song.timed => PeakBound(i) = s
    BY <1>1, <2>1, <2>2
  <2>. QED
    BY <2>3 DEF y, s
<1>6. Budget \in Nat /\ \A i \in Groups : PeakBound(i) <= Budget
  <2>1. /\ Groups \subseteq 1..N /\ Cardinality(Groups) \in Nat
        /\ Groups # {} => Cardinality(Groups) >= 1
        /\ song.timed => Groups # {}
    BY GroupsAreGeometries DEF N
  <2>2. CASE song.timed
    <3>. DEFINE L == {Most(1, last(i)) : i \in Groups}
                b == Max(L)
    <3>1. \A i \in Groups : Most(1, last(i)) \in Int /\ Most(1, last(i)) >= last(i) /\ Most(1, last(i)) >= 0 /\ i \in 1..N
      BY <1>2, <2>1 DEF Most
    <3>2. IsFiniteSet(L)
      <4>. DEFINE f == [i \in Groups |-> Most(1, last(i))]
      <4>1. IsFiniteSet(Groups)
        BY GroupsAreGeometries
      <4>2. f \in Surjection(Groups, L)
        BY DEF Surjection
      <4>. HIDE DEF f, L
      <4>. QED
        BY <4>1, <4>2, FS_Surjection
    <3>3. L \subseteq Int /\ L # {}
      BY <2>1, <2>2, <3>1
    <3>4. b \in L /\ \A y \in L : b >= y
      <4>. HIDE DEF L
      <4>. QED
        BY <3>2, <3>3, MaxOf
    <3>5. b \in Nat /\ \A i \in Groups : last(i) <= b
      <4>1. b \in Int /\ b >= 0
        BY <3>1, <3>4
      <4>2. ASSUME NEW i \in Groups PROVE last(i) <= b
        <5>1. Most(1, last(i)) \in L
          OBVIOUS
        <5>2. b >= Most(1, last(i)) /\ Most(1, last(i)) >= last(i) /\ Most(1, last(i)) \in Int /\ last(i) \in Nat
          BY <1>2, <3>1, <3>4, <5>1
        <5>. QED
          BY <4>1, <5>2
      <4>. QED
        BY <4>1, <4>2
    <3>6. Budget = StartsBytes(n) + 4 * RowBytes * (n + 1) * b
      BY <2>2 DEF Budget, last, n
    <3>. HIDE DEF b, L
    <3>7. ASSUME NEW i \in Groups PROVE PeakBound(i) <= StartsBytes(n) + 112 * ((n + 1) * b)
      <4>1. PeakBound(i) <= StartsBytes(n) + 112 * ((n + 1) * last(i)) /\ last(i) \in Nat /\ PeakBound(i) \in Nat
        BY <1>2, <1>5, <2>1, <2>2
      <4>2. (n + 1) * last(i) <= (n + 1) * b /\ (n + 1) * last(i) \in Nat /\ (n + 1) * b \in Nat
        BY <1>1, <3>5, <4>1
      <4>. QED
        BY <1>1, <4>1, <4>2
    <3>8. (n + 1) * b \in Nat /\ 4 * RowBytes * (n + 1) * b = 112 * ((n + 1) * b)
      BY <1>1, <3>5
    <3>. QED
      BY <1>1, <3>6, <3>7, <3>8
  <2>3. CASE ~song.timed
    <3>1. Budget = StartsBytes(n) * Cardinality(Groups)
      BY <2>3 DEF Budget, n
    <3>2. ASSUME NEW i \in Groups PROVE PeakBound(i) = StartsBytes(n) /\ StartsBytes(n) <= StartsBytes(n) * Cardinality(Groups)
      <4>1. PeakBound(i) = StartsBytes(n)
        BY <1>5, <2>1, <2>3
      <4>2. Cardinality(Groups) \in Nat /\ Cardinality(Groups) >= 1
        BY <2>1
      <4>. QED
        BY <1>1, <4>1, <4>2
    <3>3. StartsBytes(n) * Cardinality(Groups) \in Nat
      BY <1>1, <2>1
    <3>. QED
      BY <3>1, <3>2, <3>3
  <2>. QED
    BY <1>1, <2>2, <2>3
<1>. QED
  BY <1>5, <1>6 DEF BytesFacts, N


\* The sums over the groups of a set.
LEMMA SetSums ==
  ASSUME BuildInv
  PROVE  /\ \A S : PeakSum(S) \in Nat /\ SizeSum(S) \in Nat /\ SizeSum(S) <= PeakSum(S)
         /\ PeakSum({}) = 0 /\ SizeSum({}) = 0
         /\ \A S : \A g \in 1..Len(tables) : g \notin S => PeakSum(S \cup {g}) = PeakSum(S) + PeakBound(g)
         /\ \A S : \A R \in SUBSET S : PeakSum(S \ R) = PeakSum(S) - PeakSum(R)
         /\ \A S : \A R \in SUBSET S : SizeSum(S \ R) = SizeSum(S) - SizeSum(R)
         /\ \A S, R : S \cap R = {} => SizeSum(S \cup R) = SizeSum(S) + SizeSum(R)
<1>. DEFINE N == Len(tables)
            peak == [i \in 1..N |-> PeakBound(i)]
            size == [i \in 1..N |-> SizeOf(i)]
<1>1. N \in Nat
  BY BuildIsSound DEF BuildFacts
<1>2. \A i \in 1..N : /\ peak[i] = PeakBound(i)
                      /\ peak[i] \in Int /\ peak[i] >= 0 /\ size[i] \in Int /\ size[i] >= 0 /\ size[i] <= peak[i]
  <2>1. ASSUME NEW i \in 1..N
        PROVE  /\ PeakBound(i) \in Nat /\ RetainedBound(i) \in Nat /\ SizeOf(i) \in Nat
               /\ SizeOf(i) <= RetainedBound(i) /\ RetainedBound(i) <= PeakBound(i)
    BY BytesAreBounded DEF BytesFacts
  <2>2. ASSUME NEW i \in 1..N
        PROVE  /\ peak[i] = PeakBound(i)
               /\ peak[i] \in Int /\ peak[i] >= 0 /\ size[i] \in Int /\ size[i] >= 0 /\ size[i] <= peak[i]
    <3>1. peak[i] = PeakBound(i) /\ size[i] = SizeOf(i)
      OBVIOUS
    <3>. HIDE DEF peak, size
    <3>. QED
      BY <2>1, <3>1
  <2>. QED
    BY <2>2
<1>3. \A S : PeakSum(S) = SumOf(S, peak, N) /\ SizeSum(S) = SumOf(S, size, N)
  BY DEF PeakSum, SizeSum
<1>. HIDE DEF N, peak, size
<1>4. ASSUME NEW S PROVE SumOf(S, peak, N) \in Nat /\ SumOf(S, size, N) \in Nat
  BY <1>1, <1>2, SumOfType
<1>5. ASSUME NEW S PROVE SumOf(S, size, N) <= SumOf(S, peak, N)
  <2>. DEFINE f == [i \in 1..N |-> IF i \in S THEN size[i] ELSE 0]
              g == [i \in 1..N |-> IF i \in S THEN peak[i] ELSE 0]
  <2>1. \A i \in 1..N : f[i] \in Int /\ g[i] \in Int /\ f[i] <= g[i]
    BY <1>2
  <2>2. SumOf(S, size, N) = SumTo(f, N) /\ SumOf(S, peak, N) = SumTo(g, N)
    BY DEF SumOf
  <2>. HIDE DEF f, g
  <2>. QED
    BY <1>1, <2>1, <2>2, SumMonotone
<1>6. SumOf({}, peak, N) = 0 /\ SumOf({}, size, N) = 0
  BY <1>1, SumOfSmall
<1>7. ASSUME NEW S PROVE /\ \A g \in 1..N : g \notin S => SumOf(S \cup {g}, peak, N) = SumOf(S, peak, N) + PeakBound(g)
                         /\ \A R \in SUBSET S : SumOf(S \ R, peak, N) = SumOf(S, peak, N) - SumOf(R, peak, N)
                         /\ \A R \in SUBSET S : SumOf(S \ R, size, N) = SumOf(S, size, N) - SumOf(R, size, N)
  <2>1. \A i \in 1..N : i \in S => peak[i] \in Int
    BY <1>2
  <2>2. \A i \in 1..N : i \in S => size[i] \in Int
    BY <1>2
  <2>3. /\ \A b \in 1..N : b \notin S /\ peak[b] \in Int => SumOf(S \cup {b}, peak, N) = SumOf(S, peak, N) + peak[b]
        /\ \A R \in SUBSET S : SumOf(S \ R, peak, N) = SumOf(S, peak, N) - SumOf(R, peak, N)
    BY <1>1, <2>1, SumOfChanges
  <2>4. \A R \in SUBSET S : SumOf(S \ R, size, N) = SumOf(S, size, N) - SumOf(R, size, N)
    BY <1>1, <2>2, SumOfChanges
  <2>. QED
    BY <1>2, <2>3, <2>4
<1>8. ASSUME NEW S, NEW R, S \cap R = {} PROVE SumOf(S \cup R, size, N) = SumOf(S, size, N) + SumOf(R, size, N)
  <2>1. \A i \in 1..N : /\ i \in S => size[i] \in Int /\ size[i] = size[i]
                        /\ i \in R => size[i] \in Int /\ size[i] = size[i]
    BY <1>2
  <2>. QED
    BY <1>1, <1>8, <2>1, SumOfUnion
<1>. QED
  BY <1>3, <1>4, <1>5, <1>6, <1>7, <1>8 DEF N

\* The code's sums over the groups in flight are these.
LEMMA ReservedSums ==
  ASSUME BuildInv, NEW S, S \subseteq 1..Len(tables)
  PROVE  /\ PeakBytes(S) = PeakSum(S)
         /\ (\A i \in S : cores[i] = TableOf(i)) => BuiltBytes(S) = SizeSum(S)
<1>1. [i \in 1..Len(tables) |-> IF i \in S THEN [j \in S |-> PeakBound(j)][i] ELSE 0]
        = [i \in 1..Len(tables) |-> IF i \in S THEN [j \in 1..Len(tables) |-> PeakBound(j)][i] ELSE 0]
  OBVIOUS
<1>2. PeakBytes(S) = PeakSum(S)
  BY <1>1 DEF PeakBytes, PeakSum, SumOf
<1>3. ASSUME \A i \in S : cores[i] = TableOf(i) PROVE BuiltBytes(S) = SizeSum(S)
  <2>1. \A i \in S : TableBytes(i) = SizeOf(i)
    BY <1>3 DEF TableBytes, SizeOf
  <2>2. [i \in 1..Len(tables) |-> IF i \in S THEN [j \in S |-> TableBytes(j)][i] ELSE 0]
          = [i \in 1..Len(tables) |-> IF i \in S THEN [j \in 1..Len(tables) |-> SizeOf(j)][i] ELSE 0]
    BY <2>1
  <2>. QED
    BY <2>2 DEF BuiltBytes, SizeSum, SumOf
<1>. QED
  BY <1>2, <1>3

\* A step that leaves the build alone leaves its groups and their bounds.
LEMMA BuildStays ==
  ASSUME BuildInv, UNCHANGED buildVars
  PROVE  /\ BuildInv' /\ Groups' = Groups /\ Budget' = Budget
         /\ \A i : GroupOf(i)' = GroupOf(i) /\ TableOf(i)' = TableOf(i)
         /\ PeakSum(building)' = SumOf(building', [i \in 1..Len(tables) |-> PeakBound(i)], Len(tables))
         /\ SizeSum(reducing)' = SumOf(reducing', [i \in 1..Len(tables) |-> SizeOf(i)], Len(tables))
<1>1. song' = song /\ chart' = chart /\ tables' = tables /\ canon' = canon
  BY DEF buildVars
<1>2. BuildInv'
  BY <1>1 DEF BuildInv
<1>3. \A i : GroupOf(i)' = GroupOf(i) /\ TableOf(i)' = TableOf(i)
  BY <1>1 DEF GroupOf, TableOf
<1>4. Groups' = Groups
  BY <1>1, <1>3 DEF Groups
<1>5. Budget' = Budget
  BY <1>1, <1>4 DEF Budget
<1>6. PeakSum(building)' = SumOf(building', [i \in 1..Len(tables) |-> PeakBound(i)], Len(tables))
  <2>1. \A i : PeakBound(i)' = PeakBound(i)
    BY <1>1 DEF PeakBound, Bound
  <2>. QED
    BY <1>1, <2>1 DEF PeakSum
<1>7. SizeSum(reducing)' = SumOf(reducing', [i \in 1..Len(tables) |-> SizeOf(i)], Len(tables))
  <2>1. \A i : SizeOf(i)' = SizeOf(i)
    BY <1>1, <1>3 DEF SizeOf
  <2>. QED
    BY <1>1, <2>1 DEF SizeSum
<1>. QED
  BY <1>2, <1>3, <1>4, <1>5, <1>6, <1>7


-----------------------------------------------------------------------------
(* The invariant of the producer.                                          *)

\* What the invariant says, as the steps need it.
LEMMA InvariantFacts ==
  ASSUME ProducerInv
  PROVE  /\ Len(tables) \in Nat /\ Groups \subseteq 1..Len(tables) /\ IsFiniteSet(Groups)
         /\ building \subseteq Groups /\ reducing \subseteq Groups /\ building \cap reducing = {}
         /\ finished \subseteq building \cup reducing
         /\ reserved = PeakBytes(building) + BuiltBytes(reducing) /\ reserved \in Nat
<1>1. BuildInv /\ ThreadsInv /\ CoresInv /\ BytesInv
  BY DEF ProducerInv
<1>2. /\ building \subseteq Groups /\ reducing \subseteq Groups /\ building \cap reducing = {}
      /\ finished \subseteq building \cup reducing
  BY <1>1 DEF ThreadsInv
<1>3. Len(tables) \in Nat /\ Groups \subseteq 1..Len(tables) /\ IsFiniteSet(Groups)
  BY <1>1, BuildIsSound, GroupsAreGeometries DEF BuildFacts
<1>4. reducing \subseteq 1..Len(tables) /\ building \subseteq 1..Len(tables)
  BY <1>2, <1>3
<1>5. \A i \in reducing : cores[i] = TableOf(i)
  BY <1>1 DEF CoresInv
<1>6. PeakBytes(building) = PeakSum(building)
  BY <1>1, <1>4, ReservedSums
<1>7. BuiltBytes(reducing) = SizeSum(reducing)
  BY <1>1, <1>4, <1>5, ReservedSums
<1>8. reserved = PeakSum(building) + SizeSum(reducing)
  BY <1>1 DEF BytesInv
<1>9. PeakSum(building) \in Nat /\ SizeSum(reducing) \in Nat
  BY <1>1, SetSums
<1>. QED
  BY <1>2, <1>3, <1>6, <1>7, <1>8, <1>9

\* The group that is next.
LEMMA NextGroup ==
  ASSUME ProducerInv, Later # {}
  PROVE  /\ Min(Later) \in Groups /\ Min(Later) \in 1..Len(tables)
         /\ Min(Later) >= nextGroup /\ Min(Later) \notin building \cup reducing
         /\ PeakBound(Min(Later)) \in Nat /\ PeakBound(Min(Later)) <= Budget
<1>1. Len(tables) \in Nat /\ Groups \subseteq 1..Len(tables)
  BY InvariantFacts
<1>2. Later \subseteq 0..Len(tables)
  <2>1. 1..Len(tables) \subseteq 0..Len(tables) /\ Later \subseteq Groups
    BY <1>1 DEF Later
  <2>. QED
    BY <1>1, <2>1
<1>3. Min(Later) \in Later
  BY <1>1, <1>2, MinOf
<1>4. Min(Later) \in Groups /\ Min(Later) >= nextGroup
  BY <1>3 DEF Later
<1>5. BuildInv /\ nextGroup \in Nat /\ \A i \in building \cup reducing : i < nextGroup
  BY DEF ProducerInv, ThreadsInv
<1>6. Min(Later) \in 1..Len(tables)
  BY <1>1, <1>4
<1>7. Min(Later) \notin building \cup reducing
  <2>1. Min(Later) \in Int
    BY <1>6
  <2>2. ~(Min(Later) < nextGroup)
    BY <1>4, <1>5, <2>1
  <2>. QED
    BY <1>5, <2>2
<1>8. BytesFacts
  BY <1>5, BytesAreBounded
<1>. QED
  BY <1>4, <1>6, <1>7, <1>8 DEF BytesFacts

\* The pipeline can always go on.
LEMMA NeverStuck ==
  ASSUME ProducerInv, InFlight = {}, Later # {}
  PROVE  CanAdmit
<1>1. building = {} /\ reducing = {}
  BY DEF InFlight
<1>2. BuildInv /\ reserved = PeakSum(building) + SizeSum(reducing)
  BY DEF ProducerInv, BytesInv
<1>3. reserved = 0
  BY <1>1, <1>2, SetSums
<1>4. PeakBound(Min(Later)) \in Nat /\ PeakBound(Min(Later)) <= Budget
  BY NextGroup
<1>5. Cardinality(InFlight) = 0
  BY FS_EmptySet
<1>6. Cardinality(Groups) \in Nat /\ Cardinality(Groups) >= 1
  <2>1. Groups # {}
    BY DEF Later
  <2>. QED
    BY <1>2, <2>1, GroupsAreGeometries
<1>7. 0 < WorkerLimit
  BY <1>6, ThreadsAssumption DEF WorkerLimit, Least
<1>8. reserved + PeakBound(Min(Later)) <= Budget
  BY <1>3, <1>4
<1>. QED
  BY <1>5, <1>7, <1>8 DEF CanAdmit

\* The invariant is the property and what makes it inductive.
LEMMA InvariantFits ==
  ASSUME ProducerInv
  PROVE  TablesFitTheBudget
<1>1. reserved = PeakBytes(building) + BuiltBytes(reducing)
  BY InvariantFacts
<1>2. reserved <= Budget
  BY DEF ProducerInv, BytesInv
<1>3. ASSUME NEW i \in building \cap finished PROVE TableBytes(i) <= RetainedBound(i)
  <2>1. cores[i] = TableOf(i)
    BY <1>3 DEF ProducerInv, CoresInv
  <2>2. TableBytes(i) = SizeOf(i)
    BY <2>1 DEF TableBytes, SizeOf
  <2>3. i \in 1..Len(tables)
    BY InvariantFacts
  <2>4. BytesFacts
    BY BytesAreBounded DEF ProducerInv
  <2>. QED
    BY <2>2, <2>3, <2>4 DEF BytesFacts
<1>4. admitting /\ ~CanAdmit => InFlight # {} \/ BuildIsDone
  BY NeverStuck DEF BuildIsDone
<1>. QED
  BY <1>1, <1>2, <1>3, <1>4 DEF TablesFitTheBudget

\* A build starts with the memory it may take.
LEMMA StartsFitting ==
  ASSUME ProducerInit
  PROVE  ProducerInv
<1>1. BuildInv
  BY DEF ProducerInit, BuildInv
<1>2. ThreadsInv
  BY DEF ProducerInit, ThreadsInv
<1>3. CoresInv
  <2>1. cores = <<>> /\ building = {} /\ reducing = {}
    BY DEF ProducerInit
  <2>2. DOMAIN cores = {}
    BY <2>1
  <2>. QED
    BY <2>1, <2>2 DEF CoresInv
<1>4. BytesInv
  <2>1. reserved = 0 /\ building = {} /\ reducing = {}
    BY DEF ProducerInit
  <2>2. PeakSum(building) = 0 /\ SizeSum(reducing) = 0
    BY <1>1, <2>1, SetSums
  <2>3. Budget \in Nat
    BY <1>1, BytesAreBounded DEF BytesFacts
  <2>. QED
    BY <2>1, <2>2, <2>3 DEF BytesInv
<1>. QED
  BY <1>1, <1>2, <1>3, <1>4 DEF ProducerInv

\* The steps that leave the groups in flight and their tables alone.
LEMMA ReducersKeep ==
  ASSUME ProducerInv, UNCHANGED buildVars,
         UNCHANGED <<admitting, nextGroup, building, reducing, reserved, cores>>,
         finished' \subseteq building \cup reducing, building \cap finished' = building \cap finished,
         current' # 0 => (GroupOf(current) \in reducing \ finished)'
  PROVE  ProducerInv'
<1>1. BuildInv' /\ Groups' = Groups /\ Budget' = Budget /\ \A i : TableOf(i)' = TableOf(i)
  BY BuildStays DEF ProducerInv
<1>2. /\ building' = building /\ reducing' = reducing /\ cores' = cores /\ reserved' = reserved
      /\ nextGroup' = nextGroup /\ admitting' = admitting
  OBVIOUS
<1>3. ThreadsInv'
  BY <1>1, <1>2 DEF ProducerInv, ThreadsInv
<1>4. CoresInv'
  BY <1>1, <1>2 DEF ProducerInv, CoresInv
<1>5. BytesInv'
  <2>1. PeakSum(building)' = PeakSum(building) /\ SizeSum(reducing)' = SizeSum(reducing)
    BY <1>2, BuildStays DEF ProducerInv, PeakSum, SizeSum
  <2>. QED
    BY <1>1, <1>2, <2>1 DEF ProducerInv, BytesInv
<1>. QED
  BY <1>1, <1>3, <1>4, <1>5 DEF ProducerInv


\* A group is admitted.
LEMMA AdmitKeeps ==
  ASSUME ProducerInv, AdmitGroup
  PROVE  ProducerInv'
<1>. DEFINE g == Min(Later)
<1>1. /\ UNCHANGED <<reducing, finished, cores, current>> /\ UNCHANGED buildVars
  BY DEF AdmitGroup, reducerVars
<1>2. BuildInv' /\ Groups' = Groups /\ Budget' = Budget /\ \A i : TableOf(i)' = TableOf(i) /\ GroupOf(i)' = GroupOf(i)
  BY <1>1, BuildStays DEF ProducerInv
<1>3. CASE CanAdmit
  <2>1. building' = building \cup {g} /\ reserved' = reserved + PeakBound(g) /\ nextGroup' = g + 1 /\ admitting' = admitting
    BY <1>3 DEF AdmitGroup
  <2>2. /\ g \in Groups /\ g \in 1..Len(tables) /\ g >= nextGroup /\ g \notin building \cup reducing
        /\ PeakBound(g) \in Nat
    BY <1>3, NextGroup DEF CanAdmit
  <2>. HIDE DEF g
  <2>3. ThreadsInv'
    <3>1. g + 1 \in Nat /\ nextGroup \in Nat /\ g \in Nat
      BY <2>2 DEF ProducerInv, ThreadsInv
    <3>2. ASSUME NEW i \in building' \cup reducing' PROVE i < g + 1
      <4>1. i = g \/ (i \in building \cup reducing)
        BY <1>1, <2>1
      <4>2. i \in building \cup reducing => i < nextGroup /\ i \in Int
        BY InvariantFacts DEF ProducerInv, ThreadsInv
      <4>. QED
        BY <2>2, <3>1, <4>1, <4>2
    <3>3. building' \subseteq Groups /\ reducing' \subseteq Groups /\ building' \cap reducing' = {}
          /\ finished' \subseteq building' \cup reducing'
      BY <1>1, <2>1, <2>2, InvariantFacts
    <3>4. current' # 0 => (GroupOf(current) \in reducing \ finished)'
      BY <1>1, <1>2 DEF ProducerInv, ThreadsInv
    <3>5. admitting' \in BOOLEAN
      BY <2>1, Zenon DEF ProducerInv, ThreadsInv
    <3>. QED
      BY <1>2, <2>1, <3>1, <3>2, <3>3, <3>4, <3>5 DEF ThreadsInv
  <2>4. CoresInv'
    <3>1. g \notin finished
      BY <2>2, InvariantFacts
    <3>2. building' \cap finished' = building \cap finished
      BY <1>1, <2>1, <3>1
    <3>. QED
      BY <1>1, <1>2, <3>2 DEF ProducerInv, CoresInv
  <2>5. BytesInv'
    <3>1. PeakSum(building)' = PeakSum(building \cup {g}) /\ SizeSum(reducing)' = SizeSum(reducing)
      BY <1>1, <2>1, BuildStays DEF ProducerInv, PeakSum, SizeSum
    <3>2. PeakSum(building \cup {g}) = PeakSum(building) + PeakBound(g)
      BY <2>2, SetSums DEF ProducerInv
    <3>3. reserved = PeakSum(building) + SizeSum(reducing)
          /\ PeakSum(building) \in Nat /\ SizeSum(reducing) \in Nat
      BY SetSums DEF ProducerInv, BytesInv
    <3>4. reserved' <= Budget
      BY <1>3, <2>1 DEF CanAdmit, g
    <3>5. PeakSum(building)' + SizeSum(reducing)' = reserved'
      BY <2>1, <2>2, <3>1, <3>2, <3>3
    <3>. QED
      BY <1>2, <3>4, <3>5 DEF BytesInv
  <2>. QED
    BY <1>2, <2>3, <2>4, <2>5 DEF ProducerInv
<1>4. CASE ~CanAdmit
  <2>1. UNCHANGED <<building, reserved, nextGroup>> /\ admitting' \in BOOLEAN
    BY <1>4 DEF AdmitGroup
  <2>2. ThreadsInv'
    BY <1>1, <1>2, <2>1 DEF ProducerInv, ThreadsInv
  <2>3. CoresInv'
    BY <1>1, <1>2, <2>1 DEF ProducerInv, CoresInv
  <2>4. BytesInv'
    <3>1. PeakSum(building)' = PeakSum(building) /\ SizeSum(reducing)' = SizeSum(reducing)
      BY <1>1, <2>1, BuildStays DEF ProducerInv, PeakSum, SizeSum
    <3>. QED
      BY <1>2, <2>1, <3>1 DEF ProducerInv, BytesInv
  <2>. QED
    BY <1>2, <2>2, <2>3, <2>4 DEF ProducerInv
<1>. QED
  BY <1>3, <1>4

\* A thread builds a table.
LEMMA BuildKeeps ==
  ASSUME ProducerInv, NEW g, BuildTable(g)
  PROVE  ProducerInv'
<1>1. /\ g \in building \ finished /\ finished' = finished \cup {g}
      /\ UNCHANGED <<admitting, nextGroup, building, reducing, reserved, current>> /\ UNCHANGED buildVars
      /\ cores' = [i \in DOMAIN cores \cup {g} |-> IF i = g THEN TableOf(g) ELSE cores[i]]
  BY DEF BuildTable, reducerVars, TableOf
<1>2. BuildInv' /\ Groups' = Groups /\ Budget' = Budget /\ \A i : TableOf(i)' = TableOf(i) /\ GroupOf(i)' = GroupOf(i)
  BY <1>1, BuildStays DEF ProducerInv
<1>3. g \notin reducing /\ building \cap reducing = {} /\ finished \subseteq building \cup reducing
  BY <1>1, InvariantFacts
<1>4. ThreadsInv'
  <2>1. current' # 0 => (GroupOf(current) \in reducing \ finished)'
    BY <1>1, <1>2, <1>3 DEF ProducerInv, ThreadsInv
  <2>2. finished' \subseteq building' \cup reducing'
    BY <1>1, <1>3
  <2>. QED
    BY <1>1, <1>2, <2>1, <2>2 DEF ProducerInv, ThreadsInv
<1>5. CoresInv'
  <2>1. DOMAIN cores = (building \cap finished) \cup reducing /\ \A i \in DOMAIN cores : cores[i] = TableOf(i)
    BY DEF ProducerInv, CoresInv
  <2>4. DOMAIN cores' = DOMAIN cores \cup {g} /\ \A i \in DOMAIN cores' : cores'[i] = TableOf(i)
    BY <1>1, <2>1
  <2>5. (building' \cap finished') \cup reducing' = DOMAIN cores \cup {g}
    BY <1>1, <2>1
  <2>. QED
    BY <1>2, <2>4, <2>5 DEF CoresInv
<1>6. BytesInv'
  <2>1. PeakSum(building)' = PeakSum(building) /\ SizeSum(reducing)' = SizeSum(reducing)
    BY <1>1, BuildStays DEF ProducerInv, PeakSum, SizeSum
  <2>. QED
    BY <1>1, <1>2, <2>1 DEF ProducerInv, BytesInv
<1>. QED
  BY <1>2, <1>4, <1>5, <1>6 DEF ProducerInv

\* The parent collects the tables.
LEMMA CollectKeeps ==
  ASSUME ProducerInv, NEW done, CollectThreads(done)
  PROVE  ProducerInv'
<1>. DEFINE tabled == done \cap building
            reduced == done \cap reducing
<1>1. /\ done \subseteq finished /\ finished' = finished \ done /\ admitting' = TRUE
      /\ reserved' = reserved + BuiltBytes(tabled) - PeakBytes(tabled) - BuiltBytes(reduced)
      /\ building' = building \ tabled /\ reducing' = (reducing \ reduced) \cup tabled
      /\ cores' = [i \in DOMAIN cores \ reduced |-> cores[i]]
      /\ UNCHANGED <<nextGroup, current>> /\ UNCHANGED buildVars
  BY DEF CollectThreads, reducerVars
<1>2. BuildInv' /\ Groups' = Groups /\ Budget' = Budget /\ \A i : TableOf(i)' = TableOf(i) /\ GroupOf(i)' = GroupOf(i)
  BY <1>1, BuildStays DEF ProducerInv
<1>3. /\ Groups \subseteq 1..Len(tables)
      /\ building \subseteq Groups /\ reducing \subseteq Groups /\ building \cap reducing = {}
      /\ finished \subseteq building \cup reducing
  BY InvariantFacts
<1>4. DOMAIN cores = (building \cap finished) \cup reducing /\ \A i \in DOMAIN cores : cores[i] = TableOf(i)
  BY DEF ProducerInv, CoresInv
<1>5. tabled \subseteq DOMAIN cores /\ reduced \subseteq DOMAIN cores
  BY <1>1, <1>4
<1>6. BuiltBytes(tabled) = SizeSum(tabled) /\ PeakBytes(tabled) = PeakSum(tabled) /\ BuiltBytes(reduced) = SizeSum(reduced)
  <2>1. tabled \subseteq 1..Len(tables) /\ reduced \subseteq 1..Len(tables)
    BY <1>3
  <2>2. \A i \in tabled : cores[i] = TableOf(i)
    BY <1>4, <1>5
  <2>3. \A i \in reduced : cores[i] = TableOf(i)
    BY <1>4, <1>5
  <2>. HIDE DEF tabled, reduced
  <2>. QED
    BY <2>1, <2>2, <2>3, ReservedSums DEF ProducerInv
<1>7. ThreadsInv'
  <2>1. current' # 0 => (GroupOf(current) \in reducing \ finished)'
    <3>1. ASSUME current # 0 PROVE GroupOf(current) \in reducing \ finished
      BY <3>1 DEF ProducerInv, ThreadsInv
    <3>2. current # 0 => GroupOf(current) \in reducing' \ finished'
      BY <1>1, <3>1
    <3>. QED
      BY <1>1, <1>2, <3>2
  <2>2. building' \subseteq Groups /\ reducing' \subseteq Groups /\ building' \cap reducing' = {}
        /\ finished' \subseteq building' \cup reducing' /\ building' \cup reducing' \subseteq building \cup reducing
    BY <1>1, <1>3
  <2>. QED
    BY <1>1, <1>2, <2>1, <2>2 DEF ProducerInv, ThreadsInv
<1>8. CoresInv'
  <2>1. DOMAIN cores' = DOMAIN cores \ reduced /\ \A i \in DOMAIN cores' : cores'[i] = TableOf(i)
    BY <1>1, <1>4
  <2>2. (building' \cap finished') \cup reducing' = DOMAIN cores \ reduced
    BY <1>1, <1>3, <1>4
  <2>. QED
    BY <1>2, <2>1, <2>2 DEF CoresInv
<1>9. BytesInv'
  <2>1. /\ PeakSum(building)' = PeakSum(building \ tabled)
        /\ SizeSum(reducing)' = SizeSum((reducing \ reduced) \cup tabled)
    BY <1>1, BuildStays DEF ProducerInv, PeakSum, SizeSum
  <2>2. /\ tabled \in SUBSET building /\ reduced \in SUBSET reducing /\ (reducing \ reduced) \cap tabled = {}
    BY <1>3
  <2>3. BuildInv /\ reserved = PeakSum(building) + SizeSum(reducing) /\ reserved <= Budget /\ Budget \in Nat
    BY BytesAreBounded DEF ProducerInv, BytesInv, BytesFacts
  <2>. HIDE DEF tabled, reduced
  <2>4. /\ PeakSum(building \ tabled) = PeakSum(building) - PeakSum(tabled)
        /\ SizeSum(reducing \ reduced) = SizeSum(reducing) - SizeSum(reduced)
        /\ SizeSum((reducing \ reduced) \cup tabled) = SizeSum(reducing \ reduced) + SizeSum(tabled)
    BY <2>2, <2>3, SetSums
  <2>5. /\ PeakSum(building) \in Nat /\ PeakSum(tabled) \in Nat /\ SizeSum(reducing) \in Nat
        /\ SizeSum(reduced) \in Nat /\ SizeSum(tabled) \in Nat /\ SizeSum(tabled) <= PeakSum(tabled)
    BY <2>3, SetSums
  <2>6. /\ PeakSum(building)' + SizeSum(reducing)' = reserved' /\ reserved' <= Budget
    BY <1>1, <1>6, <2>1, <2>3, <2>4, <2>5
  <2>. QED
    BY <1>2, <2>6 DEF BytesInv
<1>. QED
  BY <1>2, <1>7, <1>8, <1>9 DEF ProducerInv

\* A geometry begins.
LEMMA BeginKeeps ==
  ASSUME ProducerInv, NEW i, BeginGeometry(i)
  PROVE  ProducerInv'
<1>1. /\ current' = i /\ GroupOf(i) \in reducing \ finished
      /\ UNCHANGED <<admitting, nextGroup, building, reducing, reserved, cores, finished>> /\ UNCHANGED buildVars
  BY DEF BeginGeometry, scheduleVars
<1>2. \A j : GroupOf(j)' = GroupOf(j)
  BY <1>1, BuildStays DEF ProducerInv
<1>3. (GroupOf(current) \in reducing \ finished)'
  BY <1>1, <1>2
<1>4. finished' \subseteq building \cup reducing /\ building \cap finished' = building \cap finished
  BY <1>1, InvariantFacts
<1>. QED
  BY <1>1, <1>3, <1>4, ReducersKeep

\* A state is done.
LEMMA StateKeeps ==
  ASSUME ProducerInv, BodyState \/ HeadState
  PROVE  ProducerInv'
<1>1. /\ current' = current
      /\ UNCHANGED <<admitting, nextGroup, building, reducing, reserved, cores, finished>> /\ UNCHANGED buildVars
  BY DEF BodyState, HeadState, scheduleVars
<1>2. \A j : GroupOf(j)' = GroupOf(j)
  BY <1>1, BuildStays DEF ProducerInv
<1>3. current' # 0 => (GroupOf(current) \in reducing \ finished)'
  BY <1>1, <1>2 DEF ProducerInv, ThreadsInv
<1>4. finished' \subseteq building \cup reducing /\ building \cap finished' = building \cap finished
  BY <1>1, InvariantFacts
<1>. QED
  BY <1>1, <1>3, <1>4, ReducersKeep

\* The first section gives the frontier.
LEMMA FirstKeeps ==
  ASSUME ProducerInv, FirstSection
  PROVE  ProducerInv'
<1>1. /\ current # 0 /\ current' = 0
      /\ finished' = finished \/ finished' = finished \cup {GroupOf(current)}
      /\ UNCHANGED <<admitting, nextGroup, building, reducing, reserved, cores>> /\ UNCHANGED buildVars
  BY DEF FirstSection
<1>2. GroupOf(current) \in reducing
  BY <1>1 DEF ProducerInv, ThreadsInv
<1>3. finished' \subseteq building \cup reducing /\ building \cap finished' = building \cap finished
  BY <1>1, <1>2, InvariantFacts
<1>. QED
  BY <1>1, <1>3, ReducersKeep

\* Every step keeps the invariant.
LEMMA StepKeeps ==
  ASSUME ProducerInv, ProducerNext
  PROVE  ProducerInv'
<1>1. CASE AdmitGroup
  BY <1>1, AdmitKeeps
<1>2. CASE \E i \in DOMAIN canon : BuildTable(i)
  BY <1>2, BuildKeeps
<1>3. CASE \E i \in DOMAIN canon : BeginGeometry(i)
  BY <1>3, BeginKeeps
<1>4. CASE \E done \in SUBSET finished : CollectThreads(done)
  BY <1>4, CollectKeeps
<1>5. CASE BodyState \/ HeadState
  BY <1>5, StateKeeps
<1>6. CASE FirstSection
  BY <1>6, FirstKeeps
<1>. QED
  BY <1>1, <1>2, <1>3, <1>4, <1>5, <1>6 DEF ProducerNext

(* The live region tables of a build, those being trimmed at twice their rows, stay within one exhaustive table,    *)
(* no table has more rows than were counted for it before it was built, and the parent can always admit or wait:    *)
(* for any songs, geometries, chart and number of threads (producer_scheduler.py, producer_batch.py).                *)
THEOREM TablesFit == ProducerSpec => []TablesFitTheBudget
<1>1. ProducerInit => ProducerInv
  BY StartsFitting
<1>2. ProducerInv /\ [ProducerNext]_producerVars => ProducerInv'
  <2>1. ASSUME ProducerInv, UNCHANGED producerVars PROVE ProducerInv'
    <3>1. /\ current' = current
          /\ UNCHANGED <<admitting, nextGroup, building, reducing, reserved, cores, finished>> /\ UNCHANGED buildVars
      BY <2>1 DEF producerVars, scheduleVars, reducerVars
    <3>2. \A j : GroupOf(j)' = GroupOf(j)
      BY <2>1, <3>1, BuildStays DEF ProducerInv
    <3>3. current' # 0 => (GroupOf(current) \in reducing \ finished)'
      BY <2>1, <3>1, <3>2 DEF ProducerInv, ThreadsInv
    <3>4. finished' \subseteq building \cup reducing /\ building \cap finished' = building \cap finished
      BY <2>1, <3>1, InvariantFacts
    <3>. QED
      BY <2>1, <3>1, <3>3, <3>4, ReducersKeep
  <2>. QED
    BY <2>1, StepKeeps
<1>3. ProducerInv => TablesFitTheBudget
  BY InvariantFits
<1>. QED
  BY <1>1, <1>2, <1>3, PTL DEF ProducerSpec

-----------------------------------------------------------------------------
(* The plays of a song.                                                     *)

\* The search is given the chart and a geometry of one of the songs.
IsProblem(x) == \E s \in Songs : \E g \in DOMAIN s.geoms : x = Context(ChartOf(s), s.timed, s.geoms[g])

\* What a section from a note says of notes lies between its start and its end, the early Greats before the end included.
SectionFits(x, from, s) ==
    /\ s.end \in (from + 1)..x.c.n
    /\ s.edge.F \subseteq (from + 1)..(s.end - 1) /\ s.edge.G \subseteq (from + 1)..(s.end - 1)
    /\ s.edge.b \in Nat /\ s.edge.n \in Nat /\ s.edge.q \in Nat
SectionsFit(x) ==
    /\ x.c.n \in Nat
    /\ \A from \in -1..(x.c.n - 1) : \A s \in TraceSections(x, from = -1, from) : SectionFits(x, from, s)

\* The surfaces from a note, by those from the notes after it.
PlaysAt(x, plays, from) ==
    IF from = x.c.n THEN {Zero}
    ELSE (IF from = -1 THEN {} ELSE {Zero})
         \cup UNION {{Join(s.edge, t) : t \in plays[s.end]} : s \in {s \in TraceSections(x, from = -1, from) : Witnessed(x, s)}}
ArePlays(x, plays, m) == plays = [from \in m..x.c.n |-> PlaysAt(x, plays, from)]

\* The surfaces from a note are read off those from the notes after it.
LEMMA PlaysReadLater ==
  ASSUME NEW x, SectionsFit(x), NEW m \in -1..(x.c.n + 1), NEW p, NEW q,
         \A e \in m..x.c.n : p[e] = q[e], NEW from \in -1..x.c.n, from + 1 >= m
  PROVE  PlaysAt(x, p, from) = PlaysAt(x, q, from)
<1>1. CASE from = x.c.n
  BY <1>1 DEF PlaysAt
<1>2. CASE from # x.c.n
  <2>1. from \in -1..(x.c.n - 1) /\ x.c.n \in Nat
    BY <1>2 DEF SectionsFit
  <2>. DEFINE S == {s \in TraceSections(x, from = -1, from) : Witnessed(x, s)}
  <2>2. \A s \in S : s.end \in m..x.c.n
    <3>1. \A s \in S : s.end \in (from + 1)..x.c.n
      BY <2>1 DEF SectionsFit, SectionFits
    <3>. HIDE DEF S
    <3>. QED
      BY <2>1, <3>1
  <2>. HIDE DEF S
  <2>3. \A s \in S : p[s.end] = q[s.end]
    BY <2>2
  <2>4. UNION {{Join(s.edge, t) : t \in p[s.end]} : s \in S} = UNION {{Join(s.edge, t) : t \in q[s.end]} : s \in S}
    BY <2>3
  <2>. QED
    BY <2>4 DEF PlaysAt, S
<1>. QED
  BY <1>1, <1>2

\* There is such a table of surfaces, from the last note back to the start.
LEMMA PlaysExist ==
  ASSUME NEW x, SectionsFit(x)
  PROVE  \E plays : ArePlays(x, plays, -1)
<1>. DEFINE n == x.c.n
            T == {k \in 0..(n + 1) : \E plays : ArePlays(x, plays, n - k)}
<1>0. n \in Nat
  BY DEF SectionsFit
<1>1. 0 \in T
  <2>. DEFINE p == [from \in n..n |-> {Zero}]
  <2>1. \A from \in n..n : PlaysAt(x, p, from) = {Zero}
    BY <1>0 DEF PlaysAt
  <2>2. ArePlays(x, p, n)
    BY <1>0, <2>1 DEF ArePlays
  <2>3. n - 0 = n
    BY <1>0
  <2>. QED
    BY <1>0, <2>2, <2>3
<1>2. ASSUME NEW k \in 1..(n + 1), k - 1 \in T PROVE k \in T
  <2>1. PICK p : ArePlays(x, p, n - (k - 1))
    BY <1>2
  <2>. DEFINE m == n - k
              q == [from \in m..n |-> IF from = m THEN PlaysAt(x, p, m) ELSE p[from]]
  <2>2. /\ m \in -1..(n - 1) /\ m + 1 \in -1..(n + 1) /\ n - (k - 1) = m + 1 /\ m \in Int
        /\ \A e \in (m + 1)..n : e \in m..n /\ e # m
    BY <1>0
  <2>3. ArePlays(x, p, m + 1)
    BY <2>1, <2>2
  <2>. HIDE DEF m
  <2>4. \A e \in (m + 1)..n : p[e] = q[e]
    BY <2>2
  <2>5. ASSUME NEW from \in m..n PROVE q[from] = PlaysAt(x, q, from)
    <3>1. from \in -1..n /\ from + 1 >= m + 1
      BY <1>0, <2>2
    <3>2. PlaysAt(x, p, from) = PlaysAt(x, q, from)
      <4>. HIDE DEF q
      <4>. QED
        BY <2>2, <2>4, <3>1, PlaysReadLater DEF n
    <3>3. CASE from = m
      BY <3>2, <3>3
    <3>4. CASE from # m
      <4>1. from \in (m + 1)..n
        BY <1>0, <2>2, <3>4
      <4>2. p[from] = PlaysAt(x, p, from)
        BY <2>3, <4>1 DEF ArePlays
      <4>. QED
        BY <2>4, <3>2, <4>1, <4>2
    <3>. QED
      BY <3>3, <3>4
  <2>6. ArePlays(x, q, m)
    BY <2>5 DEF ArePlays
  <2>. QED
    BY <2>6 DEF m
<1>3. 0..(n + 1) \subseteq T
  <2>. HIDE DEF T
  <2>1. \A k \in 1..(n + 1) : k - 1 \in T => k \in T
    BY <1>2
  <2>2. n + 1 \in Nat
    BY <1>0
  <2>. QED
    BY ONLY <1>1, <2>1, <2>2, RangeInduction
<1>4. n + 1 \in T /\ n - (n + 1) = -1
  <2>. HIDE DEF T
  <2>. QED
    BY <1>0, <1>3
<1>. QED
  BY <1>4

\* Every table entry is what the entries after it make of it.
LEMMA PlaysUnfold ==
  ASSUME NEW x, SectionsFit(x), NEW from \in -1..x.c.n
  PROVE  WitnessedFrom(x)[from] = PlaysAt(x, WitnessedFrom(x), from)
<1>1. WitnessedFrom(x) = CHOOSE plays : ArePlays(x, plays, -1)
  BY DEF WitnessedFrom, ArePlays, PlaysAt
<1>2. ArePlays(x, WitnessedFrom(x), -1)
  BY <1>1, PlaysExist
<1>. QED
  BY <1>2 DEF ArePlays

\* A surface of the plays from a note says nothing of the notes up to it.
LaterSurface(from, t) ==
    /\ \A i \in t.F \cup t.G : i \in Int /\ i > from
    /\ t.b \in Nat /\ t.n \in Nat /\ t.q \in Nat
    /\ t = [F |-> t.F, G |-> t.G, b |-> t.b, n |-> t.n, q |-> t.q]

\* A section put before a play from its end is a play from its start.
LEMMA JoinIsLater ==
  ASSUME NEW x, NEW from \in Int, NEW s, SectionFits(x, from, s), NEW t, LaterSurface(s.end, t)
  PROVE  LaterSurface(from, Join(s.edge, t))
<1>1. s.end \in Int /\ s.end > from /\ \A i \in s.edge.F \cup s.edge.G : i \in Int /\ i > from
  BY DEF SectionFits
<1>2. \A i \in t.F \cup t.G : i \in Int /\ i > from
  BY <1>1 DEF LaterSurface
<1>. QED
  BY <1>1, <1>2 DEF SectionFits, LaterSurface, Join

\* No surface of the table says anything of the notes before it.
LEMMA PlaysAreLater ==
  ASSUME NEW x, SectionsFit(x)
  PROVE  \A from \in -1..x.c.n : \A t \in WitnessedFrom(x)[from] : LaterSurface(from, t)
<1>. DEFINE n == x.c.n
            P == WitnessedFrom(x)
            Good(from) == \A t \in P[from] : LaterSurface(from, t)
            T == {k \in 0..(n + 1) : \A from \in (n - k)..n : Good(from)}
<1>0. n \in Nat
  BY DEF SectionsFit
<1>Z. \A from \in Int : LaterSurface(from, Zero)
  BY DEF LaterSurface, Zero
<1>1. 0 \in T
  <2>1. \A from \in n..n : from = n /\ from \in -1..n
    BY <1>0
  <2>2. P[n] = {Zero}
    <3>1. n \in -1..n
      BY <1>0
    <3>2. WitnessedFrom(x)[x.c.n] = PlaysAt(x, WitnessedFrom(x), x.c.n)
      BY <3>1, PlaysUnfold
    <3>. QED
      BY <3>2 DEF PlaysAt
  <2>3. Good(n)
    BY <1>0, <1>Z, <2>2
  <2>4. n - 0 = n
    BY <1>0
  <2>. HIDE DEF Good
  <2>. QED
    BY <1>0, <2>1, <2>3, <2>4
<1>2. ASSUME NEW k \in 1..(n + 1), k - 1 \in T PROVE k \in T
  <2>. DEFINE m == n - k
  <2>1. m \in -1..(n - 1) /\ m \in Int /\ n - (k - 1) = m + 1 /\ m # n
    BY <1>0
  <2>2. \A from \in (m + 1)..n : Good(from)
    BY <1>2, <2>1
  <2>3. ASSUME NEW t \in P[m] PROVE LaterSurface(m, t)
    <3>1. t \in PlaysAt(x, P, m)
      BY <1>0, <2>1, PlaysUnfold
    <3>2. CASE t = Zero
      BY <1>Z, <2>1, <3>2
    <3>3. CASE t # Zero
      <4>0. PICK s \in TraceSections(x, m = -1, m) : \E v \in P[s.end] : t = Join(s.edge, v)
        <5>. HIDE DEF m
        <5>. QED
          BY <2>1, <3>1, <3>3 DEF PlaysAt
      <4>1. PICK v \in P[s.end] : t = Join(s.edge, v)
        BY <4>0
      <4>2. SectionFits(x, m, s)
        BY <2>1 DEF SectionsFit
      <4>3. s.end \in (m + 1)..n
        BY <4>2 DEF SectionFits
      <4>4. LaterSurface(s.end, v)
        BY <2>2, <4>1, <4>3
      <4>. QED
        BY <2>1, <4>1, <4>2, <4>4, JoinIsLater
    <3>. QED
      BY <3>2, <3>3
  <2>4. Good(m)
    BY <2>3
  <2>5. \A from \in m..n : from = m \/ from \in (m + 1)..n
    BY <1>0, <2>1
  <2>. HIDE DEF Good
  <2>. QED
    BY <2>2, <2>4, <2>5
<1>3. 0..(n + 1) \subseteq T
  <2>. HIDE DEF T
  <2>1. \A k \in 1..(n + 1) : k - 1 \in T => k \in T
    BY <1>2
  <2>2. n + 1 \in Nat
    BY <1>0
  <2>. QED
    BY ONLY <1>1, <2>1, <2>2, RangeInduction
<1>4. n + 1 \in T /\ n - (n + 1) = -1
  <2>. HIDE DEF T
  <2>. QED
    BY <1>0, <1>3
<1>. QED
  BY <1>4

-----------------------------------------------------------------------------
(* The charts the search is given.                                          *)

\* The times of a timed build's notes: a Great is at most 149 ms later than the earliest one, and what a later note
\* forces an activation to wait for is not the notes before it.
TimesFit(c) ==
    /\ c.eps = 1
    /\ \A a \in 0..(c.n - 1) :
        /\ c.ts[a] \in Int /\ c.pc[a] \in Int /\ c.gc[a] \in Int /\ c.lf[a] \in Int /\ c.pf[a] \in Int /\ c.ec[a] \in Int
        /\ c.pc[a] < c.lf[a] /\ c.gc[a] < c.lf[a] + 150 * MS
        /\ \A i \in 0..a : c.pf[i] <= c.pc[a] /\ c.ec[i] <= c.pc[a]
ChartFits(c) ==
    /\ c.n \in Nat
    /\ DOMAIN c.ts = 0..(c.n - 1) /\ DOMAIN c.pf = 0..(c.n - 1) /\ DOMAIN c.gf = 0..(c.n - 1) /\ DOMAIN c.ec = 0..(c.n - 1)

\* A member of a sequence is one of its elements.
LEMMA MemberOf ==
  ASSUME NEW S, NEW q \in Seq(S)
  PROVE  \A i \in 1..Len(q) : q[i] \in S
OBVIOUS

\* The image of a finite set under a function is finite.
LEMMA ImageFinite ==
  ASSUME NEW S, IsFiniteSet(S), NEW f
  PROVE  IsFiniteSet({f[x] : x \in S})
<1>. DEFINE T == {f[x] : x \in S}
            g == [x \in S |-> f[x]]
<1>1. g \in Surjection(S, T)
  BY DEF Surjection
<1>. QED
  BY <1>1, FS_Surjection, Zenon

\* The bands of the judgments on a scaled chart.
LEMMA BandsFit ==
  ASSUME NEW scale \in {1, 2}
  PROVE  LET b == Bands(scale) IN
         /\ b.earlyPerfect \in Int /\ b.latePerfect \in Int /\ b.lateGreat \in Int
         /\ b.earlyPerfect <= -19 /\ b.latePerfect >= 40 /\ b.lateGreat <= b.latePerfect + 150
BY DEF Bands, Least, NoteRemoveLateCap

\* The chart of notes in order has times that fit.
LEMMA PreciseFits ==
  ASSUME NEW notes \in Seq([at : Nat, tail : BOOLEAN, lane : Nat]), NEW eps,
         \A i, j \in DOMAIN notes : i < j => notes[i].at <= notes[j].at
  PROVE  /\ ChartFits(PreciseChart(notes, eps))
         /\ eps = 1 => TimesFit(PreciseChart(notes, eps))
<1>. USE DEF MS
<1>. DEFINE n == Len(notes)
            time(i) == notes[i + 1].at
            band(i) == Bands(IF notes[i + 1].tail THEN 2 ELSE 1)
            pc(i) == MS * (time(i) + band(i).latePerfect)
            early(i) == {time(j) + band(j).earlyPerfect : j \in 0..i}
            late(i) == {pc(j) : j \in i..(n - 1)}
            c == PreciseChart(notes, eps)
<1>0. n \in Nat /\ DOMAIN notes = 1..n
  OBVIOUS
<1>1. ChartFits(c)
  BY <1>0 DEF ChartFits, PreciseChart
<1>2. /\ c.n = n /\ c.eps = eps
      /\ \A i \in 0..(n - 1) : /\ c.ts[i] = MS * time(i) /\ c.pc[i] = pc(i) /\ c.gc[i] = MS * (time(i) + band(i).lateGreat)
                               /\ c.lf[i] = pc(i) + MS /\ c.pf[i] = MS * Max(early(i)) /\ c.ec[i] = Min(late(i))
  BY DEF PreciseChart
<1>3. \A i \in 0..(n - 1) : notes[i + 1] \in [at : Nat, tail : BOOLEAN, lane : Nat]
  <2>1. \A j \in 1..n : notes[j] \in [at : Nat, tail : BOOLEAN, lane : Nat]
    BY MemberOf
  <2>2. \A i \in 0..(n - 1) : i + 1 \in 1..n
    BY <1>0
  <2>. HIDE DEF n
  <2>. QED
    BY <2>1, <2>2
<1>4. \A i \in 0..(n - 1) : time(i) \in Nat
  BY <1>3
<1>5. \A i \in 0..(n - 1) : /\ band(i).earlyPerfect \in Int /\ band(i).latePerfect \in Int /\ band(i).lateGreat \in Int
                            /\ band(i).earlyPerfect <= -19 /\ band(i).latePerfect >= 40
                            /\ band(i).lateGreat <= band(i).latePerfect + 150
  BY BandsFit
<1>6. \A i, j \in 0..(n - 1) : i <= j => time(i) <= time(j)
  <2>. SUFFICES ASSUME NEW i \in 0..(n - 1), NEW j \in 0..(n - 1), i <= j PROVE time(i) <= time(j)
    OBVIOUS
  <2>1. CASE i = j
    <3>1. time(i) \in Nat
      BY <1>4
    <3>. HIDE DEF time
    <3>. QED
      BY <2>1, <3>1
  <2>2. CASE i # j
    <3>1. i + 1 \in 1..n /\ j + 1 \in 1..n /\ i + 1 < j + 1
      <4>. HIDE DEF n
      <4>. QED
        BY <1>0, <2>2
    <3>2. \A k, m \in 1..n : k < m => notes[k].at <= notes[m].at
      BY <1>0
    <3>3. notes[i + 1].at <= notes[j + 1].at
      <4>. HIDE DEF n, time
      <4>. QED
        BY <3>1, <3>2
    <3>. QED
      BY <3>3
  <2>. QED
    BY <2>1, <2>2
<1>. HIDE DEF time, band
<1>7. \A i \in 0..(n - 1) : pc(i) \in Nat /\ MS * time(i) + 160 <= pc(i)
  <2>. SUFFICES ASSUME NEW i \in 0..(n - 1) PROVE pc(i) \in Nat /\ MS * time(i) + 160 <= pc(i)
    OBVIOUS
  <2>1. time(i) \in Nat /\ band(i).latePerfect \in Int /\ band(i).latePerfect >= 40
    BY <1>4, <1>5
  <2>. QED
    BY <2>1
<1>8. ASSUME NEW i \in 0..(n - 1)
      PROVE  Max(early(i)) \in early(i)
  <2>1. ASSUME NEW j \in 0..i PROVE j \in 0..(n - 1) /\ time(j) + band(j).earlyPerfect \in Int
    <3>1. j \in 0..(n - 1)
      BY <1>0
    <3>2. time(j) \in Nat /\ band(j).earlyPerfect \in Int
      BY <1>4, <1>5, <3>1
    <3>. QED
      BY <3>1, <3>2
  <2>2. early(i) \subseteq Int
    BY <2>1
  <2>3. early(i) # {}
    <3>1. 0 \in 0..i
      BY <1>0
    <3>. QED
      BY <3>1
  <2>4. IsFiniteSet(early(i))
    <3>1. IsFiniteSet(0..i)
      BY FS_Interval
    <3>2. early(i) = {[k \in 0..i |-> time(k) + band(k).earlyPerfect][j] : j \in 0..i}
      OBVIOUS
    <3>3. IsFiniteSet({[k \in 0..i |-> time(k) + band(k).earlyPerfect][j] : j \in 0..i})
      BY <3>1, ImageFinite, Zenon
    <3>. HIDE DEF early
    <3>. QED
      BY <3>2, <3>3, Zenon
  <2>. HIDE DEF early
  <2>. QED
    BY <2>2, <2>3, <2>4, MaxOf
<1>9. ASSUME NEW a \in 0..(n - 1), NEW i \in 0..a
      PROVE  MS * Max(early(i)) \in Int /\ MS * Max(early(i)) <= pc(a)
  <2>1. i \in 0..(n - 1)
    BY <1>0
  <2>2. PICK j \in 0..i : Max(early(i)) = time(j) + band(j).earlyPerfect
    BY <1>8, <2>1
  <2>3. j \in 0..(n - 1) /\ j <= a
    BY <2>1
  <2>4. time(j) <= time(a)
    BY <1>6, <2>3
  <2>5. time(j) \in Nat /\ time(a) \in Nat /\ band(j).earlyPerfect \in Int /\ band(j).earlyPerfect <= -19
        /\ pc(a) \in Nat /\ MS * time(a) + 160 <= pc(a)
    BY <1>4, <1>5, <1>7, <2>3
  <2>. HIDE DEF early, pc, n
  <2>. QED
    BY <2>2, <2>4, <2>5
<1>10. ASSUME NEW a \in 0..(n - 1), NEW i \in 0..a
       PROVE  Min(late(i)) \in Int /\ Min(late(i)) <= pc(a)
  <2>1. \A j \in i..(n - 1) : j \in 0..(n - 1) /\ pc(j) \in Nat
    BY <1>7
  <2>2. late(i) \subseteq Nat
    BY <2>1
  <2>3. pc(a) \in late(i)
    BY <1>0
  <2>4. pc(a) \in Nat
    BY <1>7
  <2>. DEFINE small == {v \in late(i) : v <= pc(a)}
  <2>. HIDE DEF late, pc
  <2>5. small \subseteq 0..pc(a) /\ small # {} /\ late(i) # {}
    BY <2>2, <2>3, <2>4
  <2>6. PICK v \in small : \A w \in small : v <= w
    BY <2>4, <2>5, LeastExists
  <2>7. v \in late(i) /\ \A w \in late(i) : v <= w
    BY <2>2, <2>4, <2>6
  <2>8. Min(late(i)) \in late(i) /\ \A w \in late(i) : Min(late(i)) <= w
    BY <2>7 DEF Min
  <2>. QED
    BY <2>2, <2>3, <2>8
<1>11. ASSUME eps = 1 PROVE TimesFit(c)
  <2>1. ASSUME NEW a \in 0..(n - 1)
        PROVE  /\ c.ts[a] \in Int /\ c.pc[a] \in Int /\ c.gc[a] \in Int /\ c.lf[a] \in Int /\ c.pf[a] \in Int /\ c.ec[a] \in Int
               /\ c.pc[a] < c.lf[a] /\ c.gc[a] < c.lf[a] + 150 * MS
               /\ \A i \in 0..a : c.pf[i] <= c.pc[a] /\ c.ec[i] <= c.pc[a]
    <3>0. time(a) \in Nat /\ band(a).latePerfect \in Int /\ band(a).lateGreat \in Int
          /\ band(a).lateGreat <= band(a).latePerfect + 150 /\ pc(a) \in Nat
      BY <1>4, <1>5, <1>7
    <3>a. c.ts[a] = MS * time(a) /\ c.pc[a] = pc(a) /\ c.gc[a] = MS * (time(a) + band(a).lateGreat) /\ c.lf[a] = pc(a) + MS
      BY <1>2
    <3>1. c.ts[a] \in Int /\ c.gc[a] \in Int /\ c.gc[a] < c.lf[a] + 150 * MS
      <4>1. pc(a) = MS * (time(a) + band(a).latePerfect)
        OBVIOUS
      <4>. DEFINE t == time(a)
                  lg == band(a).lateGreat
                  lp == band(a).latePerfect
      <4>2. c.gc[a] = MS * (t + lg) /\ c.ts[a] = MS * t /\ c.lf[a] = MS * (t + lp) + MS
        <5>. HIDE DEF c, n
        <5>. QED
          BY <3>a, <4>1
      <4>3. t \in Nat /\ lg \in Int /\ lp \in Int /\ lg <= lp + 150
        BY <3>0
      <4>. HIDE DEF c, n, pc, t, lg, lp
      <4>. QED
        BY <4>2, <4>3
    <3>2. c.pc[a] \in Int /\ c.lf[a] \in Int /\ c.pc[a] < c.lf[a]
      <4>. HIDE DEF c, pc, n
      <4>. QED
        BY <3>0, <3>a
    <3>3. ASSUME NEW i \in 0..a PROVE c.pf[i] \in Int /\ c.pf[i] <= c.pc[a] /\ c.ec[i] \in Int /\ c.ec[i] <= c.pc[a]
      <4>1. i \in 0..(n - 1)
        BY <1>0
      <4>. HIDE DEF c, pc, early, late
      <4>. QED
        BY <1>2, <1>9, <1>10, <4>1
    <3>4. a \in 0..a
      BY <1>0
    <3>. HIDE DEF c
    <3>. QED
      BY <3>1, <3>2, <3>3, <3>4
  <2>. HIDE DEF c, time, band, n
  <2>. QED
    BY <1>2, <1>11, <2>1 DEF TimesFit
<1>. QED
  BY <1>1, <1>11

\* A build without timings hits every note at its time.
LEMMA FixedFits ==
  ASSUME NEW notes, Len(notes) \in Nat
  PROVE  ChartFits(FixedChart(notes))
<1>. DEFINE c == PreciseChart(notes, 0)
<1>1. c.n \in Nat /\ DOMAIN c.ts = 0..(c.n - 1)
  BY DEF PreciseChart
<1>2. DOMAIN c = {"n", "eps", "ts", "lane", "tail", "pc", "gc", "pf", "gf", "early", "open", "lf", "ec"}
  BY DEF PreciseChart
<1>3. LET f == FixedChart(notes) IN f.n = c.n /\ f.ts = c.ts /\ f.pf = c.ts /\ f.gf = c.ts /\ f.ec = c.ts
  <2>1. FixedChart(notes) = [c EXCEPT !.pc = c.ts, !.gc = c.ts, !.pf = c.ts, !.gf = c.ts, !.early = c.ts, !.open = c.ts,
                                      !.lf = [i \in DOMAIN c.ts |-> c.ts[i] + MS], !.ec = c.ts]
    BY DEF FixedChart
  <2>. HIDE DEF c
  <2>. QED
    BY <1>2, <2>1
<1>. QED
  BY <1>1, <1>3 DEF ChartFits

\* What the sections of a problem are built from.
ActionFits(r) ==
    /\ r.k \in Nat /\ r.first \in Nat /\ r.later \in Nat
    /\ r.firstForced = Least(r.k, r.first) /\ r.laterForced = Least(r.k, r.later)
ProblemFits(x) ==
    /\ ChartFits(x.c) /\ x.timed \in BOOLEAN /\ (x.timed => TimesFit(x.c))
    /\ x.d \in Nat /\ x.rt \in Nat /\ x.rt >= 150 * MS
    /\ \A i \in DOMAIN x.actions : ActionFits(x.actions[i])

\* Every action of a table is that of some number of forced Greats.
LEMMA ActionsAre ==
  ASSUME NEW d, NEW base \in Nat, NEW timed
  PROVE  \A i \in DOMAIN ActionTable(d, base, timed) : \E k \in Nat : ActionTable(d, base, timed)[i] = ActionOf(d, k)
BY ActionsType

\* An action of the table says how many notes fill the bar, and how many of them are forced.
LEMMA ActionsFit ==
  ASSUME NEW d \in Nat, NEW k \in Nat
  PROVE  ActionFits(ActionOf(d, k))
<1>1. \A m \in Int : WholeNotes(m) \in Int
  BY DEF WholeNotes
<1>2. \A first \in BOOLEAN : PerfectFillCrossingOffset(d, k, first) \in Nat
  BY <1>1 DEF PerfectFillCrossingOffset, Most, Wasted
<1>. QED
  BY <1>2 DEF ActionFits, ActionOf

\* What the search is given fits: its chart, its times and its actions.
LEMMA ProblemsFit ==
  ASSUME NEW x, IsProblem(x)
  PROVE  ProblemFits(x)
<1>1. PICK s \in Songs : \E g \in DOMAIN s.geoms : x = Context(ChartOf(s), s.timed, s.geoms[g])
  BY DEF IsProblem
<1>2. PICK g \in DOMAIN s.geoms : x = Context(ChartOf(s), s.timed, s.geoms[g])
  BY <1>1
<1>3. /\ s.timed \in BOOLEAN /\ s.notes \in Seq([at : Nat, tail : BOOLEAN, lane : Nat])
      /\ \A i, j \in DOMAIN s.notes : i < j => s.notes[i].at <= s.notes[j].at
      /\ s.geoms \in Seq([d : Nat, base : Nat, rt : Nat]) /\ s.geoms[g].rt >= 150 * MS
  BY SongsAssumption
<1>4. s.geoms[g] \in [d : Nat, base : Nat, rt : Nat]
  <2>1. g \in 1..Len(s.geoms)
    BY <1>3
  <2>. QED
    BY <1>3, <2>1, MemberOf
<1>5. /\ x.c = ChartOf(s) /\ x.timed = s.timed /\ x.d = s.geoms[g].d /\ x.rt = s.geoms[g].rt
      /\ x.actions = ActionTable(s.geoms[g].d, s.geoms[g].base, s.timed)
  BY <1>2 DEF Context
<1>6. x.d \in Nat /\ x.rt \in Nat /\ x.rt >= 150 * MS /\ s.geoms[g].base \in Nat
  BY <1>3, <1>4, <1>5
<1>7. ChartFits(x.c) /\ (x.timed => TimesFit(x.c))
  <2>1. CASE s.timed
    <3>1. x.c = PreciseChart(s.notes, 1)
      BY <1>5, <2>1 DEF ChartOf
    <3>2. ChartFits(PreciseChart(s.notes, 1)) /\ TimesFit(PreciseChart(s.notes, 1))
      BY <1>3, PreciseFits
    <3>. QED
      BY <3>1, <3>2
  <2>2. CASE ~s.timed
    <3>1. x.c = FixedChart(s.notes)
      BY <1>5, <2>2 DEF ChartOf
    <3>2. Len(s.notes) \in Nat
      BY <1>3
    <3>. QED
      BY <1>5, <2>2, <3>1, <3>2, FixedFits
  <2>. QED
    BY <2>1, <2>2
<1>8. \A i \in DOMAIN x.actions : ActionFits(x.actions[i])
  <2>1. \A i \in DOMAIN x.actions : \E k \in Nat : x.actions[i] = ActionOf(x.d, k)
    <3>. DEFINE geometry == s.geoms[g]
                table == ActionTable(geometry.d, geometry.base, s.timed)
    <3>1. geometry.base \in Nat
      BY <1>6
    <3>2. x.actions = table /\ x.d = geometry.d
      BY <1>5
    <3>. HIDE DEF geometry
    <3>3. \A i \in DOMAIN table : \E k \in Nat : table[i] = ActionOf(geometry.d, k)
      BY <3>1, ActionsAre
    <3>. HIDE DEF table
    <3>. QED
      BY <3>2, <3>3
  <2>. QED
    BY <1>6, <2>1, ActionsFit
<1>. QED
  BY <1>3, <1>5, <1>6, <1>7, <1>8 DEF ProblemFits

-----------------------------------------------------------------------------
(* Where the fevers of a problem end.                                       *)

\* A fever ends at a later note, or with the song, and not before the notes that come before its last hit.
LEMMA EndFits ==
  ASSUME NEW c, c.n \in Nat, NEW floor, DOMAIN floor = 0..(c.n - 1), NEW a \in 0..(c.n - 1), NEW hit, NEW rt
  PROVE  /\ FeverEnd(c, floor, a, hit, rt) \in (a + 1)..c.n
         /\ \A e \in 0..c.n : (\A i \in 0..(e - 1) : floor[i] < hit + rt) => FeverEnd(c, floor, a, hit, rt) >= e
<1>. DEFINE below == {i \in DOMAIN floor : floor[i] < hit + rt}
            bound == Cardinality(below)
<1>1. FeverEnd(c, floor, a, hit, rt) = Least(Most(bound, a + 1), c.n)
  BY DEF FeverEnd, ClampedEnd, LowerBound
<1>2. IsFiniteSet(below) /\ bound \in Nat
  <2>1. IsFiniteSet(0..(c.n - 1))
    BY FS_Interval
  <2>2. below \subseteq 0..(c.n - 1)
    OBVIOUS
  <2>. HIDE DEF below
  <2>. QED
    BY <2>1, <2>2, FS_Subset, FS_CardinalityType
<1>3. ASSUME NEW e \in 0..c.n, \A i \in 0..(e - 1) : floor[i] < hit + rt
      PROVE  bound >= e
  <2>1. 0..(e - 1) \subseteq below
    <3>1. \A i \in 0..(e - 1) : i \in 0..(c.n - 1)
      OBVIOUS
    <3>. QED
      BY <1>3, <3>1
  <2>2. Cardinality(0..(e - 1)) = e
    BY FS_Interval
  <2>. HIDE DEF below
  <2>3. Cardinality(0..(e - 1)) <= Cardinality(below)
    BY <1>2, <2>1, FS_Subset
  <2>. QED
    BY <1>2, <2>2, <2>3
<1>. HIDE DEF bound
<1>4. FeverEnd(c, floor, a, hit, rt) \in (a + 1)..c.n
  BY <1>1, <1>2 DEF Least, Most
<1>5. ASSUME NEW e \in 0..c.n, bound >= e PROVE FeverEnd(c, floor, a, hit, rt) >= e
  BY <1>1, <1>2, <1>5 DEF Least, Most
<1>. QED
  BY <1>3, <1>4, <1>5

\* What a later note leaves of a hit.
Capped(c, gs, ge, v, j) ==
    LET capped == LatestOf(c, j, InRun(j, gs, ge)) - c.eps IN IF c.ts[j] < v /\ capped < v THEN capped ELSE v
AreCaps(c, a, hi, gs, ge, m, caps) ==
    caps = [j \in a..m |-> IF j = a THEN hi ELSE Capped(c, gs, ge, caps[j - 1], j)]

\* The table of the latest activations exists, note by note from the activation on.
LEMMA CapsExist ==
  ASSUME NEW c, c.n \in Nat, TimesFit(c), NEW a \in 0..(c.n - 1), NEW hi \in Int, NEW gs, NEW ge
  PROVE  \E caps : AreCaps(c, a, hi, gs, ge, c.n - 1, caps) /\ \A j \in a..(c.n - 1) : caps[j] \in Int
<1>. DEFINE size == c.n - 1 - a
            Good(m, caps) == AreCaps(c, a, hi, gs, ge, m, caps) /\ \A j \in a..m : caps[j] \in Int
            T == {k \in 0..size : \E caps : Good(a + k, caps)}
<1>0. size \in Nat
  OBVIOUS
<1>1. \A v \in Int, j \in 0..(c.n - 1) : Capped(c, gs, ge, v, j) \in Int
  BY DEF Capped, LatestOf, TimesFit
<1>2. 0 \in T
  <2>. DEFINE caps == [j \in a..a |-> hi]
  <2>1. Good(a, caps)
    BY DEF AreCaps
  <2>2. a + 0 = a
    OBVIOUS
  <2>. HIDE DEF Good
  <2>. QED
    BY <1>0, <2>1, <2>2
<1>3. ASSUME NEW k \in 1..size, k - 1 \in T PROVE k \in T
  <2>1. PICK old : Good(a + (k - 1), old)
    BY <1>3
  <2>. DEFINE m == a + k
              new == [j \in a..m |-> IF j = m THEN Capped(c, gs, ge, old[m - 1], m) ELSE old[j]]
  <2>2. m \in 0..(c.n - 1) /\ a + (k - 1) = m - 1 /\ m - 1 \in a..(m - 1) /\ m # a /\ m \in Int
    BY <1>0
  <2>. HIDE DEF m
  <2>3. AreCaps(c, a, hi, gs, ge, m - 1, old) /\ \A j \in a..(m - 1) : old[j] \in Int
    BY <2>1, <2>2
  <2>4. \A j \in a..(m - 1) : j \in a..m /\ j # m
    BY <2>2
  <2>5. \A j \in a..m : j = m \/ j \in a..(m - 1)
    BY <2>2
  <2>6. \A j \in a..(m - 1) : new[j] = old[j]
    BY <2>4
  <2>7. ASSUME NEW j \in a..m PROVE new[j] = IF j = a THEN hi ELSE Capped(c, gs, ge, new[j - 1], j)
    <3>1. CASE j = m
      BY <2>2, <2>6, <3>1
    <3>2. CASE j # m /\ j = a
      <4>1. old[a] = hi
        BY <2>3, <2>5, <3>2 DEF AreCaps
      <4>. QED
        BY <2>5, <2>6, <3>2, <4>1
    <3>3. CASE j # m /\ j # a
      <4>1. j \in a..(m - 1) /\ j - 1 \in a..(m - 1)
        BY <2>2, <3>3
      <4>2. old[j] = Capped(c, gs, ge, old[j - 1], j)
        BY <2>3, <3>3, <4>1 DEF AreCaps
      <4>. HIDE DEF new
      <4>. QED
        BY <2>6, <3>3, <4>1, <4>2
    <3>. QED
      BY <3>1, <3>2, <3>3
  <2>8. AreCaps(c, a, hi, gs, ge, m, new)
    <3>1. new = [j \in a..m |-> new[j]]
      OBVIOUS
    <3>. HIDE DEF new
    <3>. QED
      BY <2>7, <3>1 DEF AreCaps
  <2>9. \A j \in a..m : new[j] \in Int
    <3>1. Capped(c, gs, ge, old[m - 1], m) \in Int
      BY <1>1, <2>2, <2>3
    <3>. QED
      BY <2>3, <2>5, <3>1
  <2>. HIDE DEF new
  <2>10. Good(m, new)
    BY <2>8, <2>9
  <2>. HIDE DEF Good
  <2>. QED
    BY <2>10 DEF m
<1>4. 0..size \subseteq T
  <2>. HIDE DEF T, size
  <2>1. \A k \in 1..size : k - 1 \in T => k \in T
    BY <1>3
  <2>. QED
    BY ONLY <1>0, <1>2, <2>1, RangeInduction
<1>5. size \in T /\ a + size = c.n - 1
  <2>1. a + size = c.n - 1 /\ size \in 0..size
    BY <1>0
  <2>. HIDE DEF T
  <2>. QED
    BY <1>4, <2>1
<1>. HIDE DEF size
<1>. QED
  BY <1>5

\* A hit that is planned is a time, from the earliest of its band on.
LEMMA HitFits ==
  ASSUME NEW c, c.n \in Nat, TimesFit(c), NEW a \in 0..(c.n - 1), NEW gs, NEW ge, LateGreatHit(c, a, gs, ge) # NoHit
  PROVE  LateGreatHit(c, a, gs, ge) \in Int /\ LateGreatHit(c, a, gs, ge) >= c.lf[a]
<1>. DEFINE lo == c.lf[a]
            hi == c.gc[a]
            caps == CHOOSE caps : AreCaps(c, a, hi, gs, ge, c.n - 1, caps)
            last == caps[c.n - 1]
<1>1. lo \in Int /\ hi \in Int
  BY DEF TimesFit
<1>2. LateGreatHit(c, a, gs, ge) = IF hi < lo \/ last < lo THEN NoHit ELSE last
  BY DEF LateGreatHit, LatestHit, AreCaps, Capped
<1>3. \A j \in a..(c.n - 1) : caps[j] \in Int
  <2>. HIDE DEF hi
  <2>1. PICK some : AreCaps(c, a, hi, gs, ge, c.n - 1, some) /\ \A j \in a..(c.n - 1) : some[j] \in Int
    BY <1>1, CapsExist
  <2>2. AreCaps(c, a, hi, gs, ge, c.n - 1, caps)
    BY <2>1
  <2>. HIDE DEF caps
  <2>. DEFINE T == {k \in 0..(c.n - 1 - a) : caps[a + k] \in Int}
  <2>3. \A v \in Int, j \in 0..(c.n - 1) : Capped(c, gs, ge, v, j) \in Int
    BY DEF Capped, LatestOf, TimesFit
  <2>4. 0 \in T
    <3>1. a \in a..(c.n - 1) /\ a + 0 = a /\ 0 \in 0..(c.n - 1 - a)
      OBVIOUS
    <3>2. caps[a] = hi
      BY <2>2, <3>1 DEF AreCaps
    <3>. QED
      BY <1>1, <3>1, <3>2
  <2>5. ASSUME NEW k \in 1..(c.n - 1 - a), k - 1 \in T PROVE k \in T
    <3>1. a + k \in a..(c.n - 1) /\ a + k # a /\ a + k - 1 = a + (k - 1) /\ a + k \in 0..(c.n - 1) /\ k \in 0..(c.n - 1 - a)
      OBVIOUS
    <3>2. caps[a + k] = Capped(c, gs, ge, caps[a + k - 1], a + k)
      BY <2>2, <3>1 DEF AreCaps
    <3>3. caps[a + k - 1] \in Int
      BY <2>5, <3>1
    <3>. QED
      BY <2>3, <3>1, <3>2, <3>3
  <2>6. 0..(c.n - 1 - a) \subseteq T
    <3>. HIDE DEF T
    <3>1. \A k \in 1..(c.n - 1 - a) : k - 1 \in T => k \in T
      BY <2>5
    <3>2. c.n - 1 - a \in Nat
      OBVIOUS
    <3>. QED
      BY ONLY <2>4, <3>1, <3>2, RangeInduction
  <2>7. ASSUME NEW j \in a..(c.n - 1) PROVE caps[j] \in Int
    <3>1. j - a \in 0..(c.n - 1 - a) /\ a + (j - a) = j
      OBVIOUS
    <3>. QED
      BY <2>6, <3>1
  <2>. QED
    BY <2>7
<1>4. c.n - 1 \in a..(c.n - 1)
  OBVIOUS
<1>. HIDE DEF caps, lo, hi
<1>5. last \in Int
  BY <1>3, <1>4
<1>. HIDE DEF last
<1>6. LateGreatHit(c, a, gs, ge) = last /\ ~(last < lo)
  BY <1>2
<1>. QED
  BY <1>1, <1>5, <1>6 DEF lo

-----------------------------------------------------------------------------
(* The families of a section, and its edges.                                *)

\* A family activates in its section and ends later, with the Greats it forces before each of its ends.
FamilyFits(x, start, f) ==
    /\ f.act \in start..(x.c.n - 1) /\ f.gs \in Int /\ f.gs >= start
    /\ f.base \in (f.act + 1)..x.c.n /\ f.exit \in (f.act + 1)..f.base /\ f.great \in (f.act + 1)..x.c.n
    /\ f.ge \in Int /\ f.ge <= f.exit

\* An activation whose exit is past its forced run makes a family that fits.
LEMMA FamilyIs ==
  ASSUME NEW x, ProblemFits(x), NEW start \in Nat, NEW a \in start..(x.c.n - 1), NEW late, NEW gs \in Int, gs >= start,
         NEW ge \in Int, NEW hit, ge <= Family(x, a, late, gs, ge, hit).exit
  PROVE  FamilyFits(x, start, Family(x, a, late, gs, ge, hit))
<1>1. /\ x.c.n \in Nat /\ DOMAIN x.c.pf = 0..(x.c.n - 1) /\ DOMAIN x.c.gf = 0..(x.c.n - 1) /\ DOMAIN x.c.ec = 0..(x.c.n - 1)
      /\ a \in 0..(x.c.n - 1)
  BY DEF ProblemFits, ChartFits
<1>2. \A h : /\ FeverEnd(x.c, x.c.pf, a, h, x.rt) \in (a + 1)..x.c.n
             /\ FeverEnd(x.c, x.c.gf, a, h, x.rt) \in (a + 1)..x.c.n
             /\ FeverEnd(x.c, x.c.ec, a, h, x.rt) \in (a + 1)..x.c.n
  BY <1>1, EndFits
<1>. DEFINE lowest == IF late THEN x.c.lf[a] ELSE x.c.pf[a]
            end == FeverEnd(x.c, x.c.pf, a, hit, x.rt)
            exit == IF x.exits THEN FeverEnd(x.c, x.c.ec, a, lowest, x.rt) ELSE end
            f == Family(x, a, late, gs, ge, hit)
<1>3. /\ f.act = a /\ f.base = end /\ f.exit = Least(exit, end) /\ f.great = FeverEnd(x.c, x.c.gf, a, hit, x.rt)
      /\ f.gs = gs /\ f.ge = ge
  BY DEF Family
<1>4. end \in (a + 1)..x.c.n /\ exit \in (a + 1)..x.c.n
  BY <1>2
<1>5. Least(exit, end) \in (a + 1)..end
  <2>. HIDE DEF exit, end
  <2>. QED
    BY <1>1, <1>4 DEF Least
<1>. HIDE DEF f, exit, end
<1>6. ge <= f.exit
  BY DEF f
<1>7. FamilyFits(x, start, f)
  BY <1>1, <1>2, <1>3, <1>4, <1>5, <1>6 DEF FamilyFits
<1>. QED
  BY <1>7 DEF f

\* A family whose Greats end by the note after its activation.
LEMMA ShortFamily ==
  ASSUME NEW x, ProblemFits(x), NEW start \in Nat, NEW a \in start..(x.c.n - 1), NEW late, NEW gs \in Int, gs >= start,
         NEW ge \in Int, NEW hit, ge <= a + 1
  PROVE  FamilyFits(x, start, Family(x, a, late, gs, ge, hit))
<1>1. /\ x.c.n \in Nat /\ DOMAIN x.c.pf = 0..(x.c.n - 1) /\ DOMAIN x.c.ec = 0..(x.c.n - 1) /\ a \in 0..(x.c.n - 1)
  BY DEF ProblemFits, ChartFits
<1>2. \A h : FeverEnd(x.c, x.c.pf, a, h, x.rt) \in (a + 1)..x.c.n /\ FeverEnd(x.c, x.c.ec, a, h, x.rt) \in (a + 1)..x.c.n
  BY <1>1, EndFits
<1>. DEFINE lowest == IF late THEN x.c.lf[a] ELSE x.c.pf[a]
            end == FeverEnd(x.c, x.c.pf, a, hit, x.rt)
            exit == IF x.exits THEN FeverEnd(x.c, x.c.ec, a, lowest, x.rt) ELSE end
<1>3. Family(x, a, late, gs, ge, hit).exit = Least(exit, end)
  BY DEF Family
<1>4. end \in (a + 1)..x.c.n /\ exit \in (a + 1)..x.c.n
  BY <1>2
<1>5. Least(exit, end) >= a + 1
  <2>. HIDE DEF exit, end
  <2>. QED
    BY <1>1, <1>4 DEF Least
<1>6. Least(exit, end) \in Int
  <2>. HIDE DEF exit, end
  <2>. QED
    BY <1>1, <1>4 DEF Least
<1>. HIDE DEF exit, end
<1>7. ge <= Family(x, a, late, gs, ge, hit).exit
  BY <1>1, <1>3, <1>5, <1>6
<1>. QED
  BY <1>7, FamilyIs

\* The families of an action.
PlanFits(x, p) ==
    /\ p.start \in Nat /\ p.act \in Int /\ p.slots \in Int /\ p.count \in Int /\ p.k \in Nat
    /\ p.act = p.start + p.slots /\ p.count <= p.slots + 1

\* A reachable activation is on a note of the song.
LEMMA ReachableInside ==
  ASSUME NEW c, NEW a, NEW h, NEW d, NEW start, NEW gs, NEW count, NEW own, ActivationReachable(c, a, h, d, start, gs, count, own)
  PROVE  start <= a /\ a < c.n
BY DEF ActivationReachable

\* The families of one action fit.
LEMMA ActionFamiliesFit ==
  ASSUME NEW x, ProblemFits(x), NEW p, PlanFits(x, p), NEW before, NEW f \in ActionFamilies(x, p, before)
  PROVE  FamilyFits(x, p.start, f)
<1>. DEFINE hit == OnPerfect(x, p)
            time == TimeOf(x, p, hit)
            end == EndOf(x, p, hit)
            prefix == Least(Most(0, p.k - 1), Most(0, p.slots))
            late == LateGreatHit(x.c, p.act, p.start, p.start + prefix)
            greatEnd == FeverEnd(x.c, x.c.gf, p.act, time, x.rt)
<1>1. f \in PerfectFamilies(x, p, before, hit, time, end) \/ f \in LateFamilies(x, p, prefix, end, greatEnd, late)
  <2>1. f \in FamiliesBetween(x, p, before, hit, time, end, prefix)
    BY DEF ActionFamilies, FamiliesAtHit
  <2>. HIDE DEF hit, time, end, prefix
  <2>. QED
    BY <2>1 DEF FamiliesBetween
<1>2. x.c.n \in Nat
  BY DEF ProblemFits, ChartFits
<1>3. prefix \in Nat /\ (p.slots >= prefix => p.start + prefix <= p.act)
  BY DEF PlanFits, Least, Most
<1>. HIDE DEF hit, time, end, prefix, late, greatEnd
<1>4. CASE f \in PerfectFamilies(x, p, before, hit, time, end)
  <2>. DEFINE ge == Least(x.c.n, p.start + p.count)
  <2>1. f = Family(x, p.act, FALSE, p.start, ge, hit) /\ ActivationReachable(x.c, p.act, hit, x.d, p.start, p.start, p.count, FALSE)
    BY <1>4 DEF PerfectFamilies
  <2>2. p.act \in p.start..(x.c.n - 1)
    <3>1. p.start <= p.act /\ p.act < x.c.n
      BY <2>1, ReachableInside
    <3>2. p.start \in Nat /\ p.act \in Int
      BY DEF PlanFits
    <3>. QED
      BY <1>2, <3>1, <3>2
  <2>3. ge \in Int /\ ge <= p.act + 1
    BY <1>2 DEF PlanFits, Least
  <2>4. p.start \in Nat /\ p.start \in Int /\ p.start >= p.start
    BY DEF PlanFits
  <2>. HIDE DEF ge
  <2>. QED
    BY <2>1, <2>2, <2>3, <2>4, ShortFamily
<1>5. CASE f \in LateFamilies(x, p, prefix, end, greatEnd, late)
  <2>. DEFINE ge == Least(x.c.n, p.start + prefix)
  <2>1. f = Family(x, p.act, TRUE, p.start, ge, late) /\ ActivationReachable(x.c, p.act, late, x.d, p.start, p.start, prefix, TRUE)
        /\ p.slots >= prefix
    BY <1>5 DEF LateFamilies
  <2>2. p.act \in p.start..(x.c.n - 1)
    <3>1. p.start <= p.act /\ p.act < x.c.n
      BY <2>1, ReachableInside
    <3>2. p.start \in Nat /\ p.act \in Int
      BY DEF PlanFits
    <3>. QED
      BY <1>2, <3>1, <3>2
  <2>3. ge \in Int /\ ge <= p.act + 1
    BY <1>2, <1>3, <2>1 DEF PlanFits, Least
  <2>4. p.start \in Nat /\ p.start \in Int /\ p.start >= p.start
    BY DEF PlanFits
  <2>. HIDE DEF ge
  <2>. QED
    BY <2>1, <2>2, <2>3, <2>4, ShortFamily
<1>. QED
  BY <1>1, <1>4, <1>5

-----------------------------------------------------------------------------
(* The families of the region runs.                                         *)

\* Where the bar fills around a run that begins before it would fill without one: on a note of it, or not before its end.
CrossingFits(crossing, start, runStart, k, n) ==
    crossing.note # None =>
        /\ crossing.note \in start..(n - 1)
        /\ IF crossing.great THEN crossing.note >= runStart
           ELSE Least(n, runStart + k) <= runStart \/ crossing.note >= Least(n, runStart + k)

\* The note a run of Greats fills the bar at lies behind the start of the run.
LEMMA CrossingsFit ==
  ASSUME NEW n \in Nat, NEW d \in Nat, NEW start \in Nat, NEW o \in Nat, o > 0, NEW k \in Nat, k > 0, WholeNotes(d) > o
  PROVE  CrossingFits(FillCrossingRun(start, start + o, k, d, n), start, start + o, k, n)
<1>. DEFINE lo == start + o
            hi == Least(start + o + k, n)
            halves == d - 2 * o
            before == start + WholeNotes(d) - 1
            inside == lo - 1 + halves
            after == hi - 1 + WholeNotes(halves - (hi - lo))
            crossing == FillCrossingRun(start, start + o, k, d, n)
<1>0. \A m \in Int : WholeNotes(m) \in Int /\ (m >= 1 => WholeNotes(m) >= 1)
  BY DEF WholeNotes
<1>1. /\ lo \in Nat /\ hi \in Int /\ halves \in Int /\ hi = Least(n, start + o + k) /\ WholeNotes(d) \in Int
      /\ Most(start + o, start) = lo /\ d - 2 * (lo - start) = halves
  BY <1>0 DEF Least, Most
<1>2. crossing = IF hi <= lo \/ before < lo THEN CrossingAt(before, FALSE, n)
                 ELSE IF inside < hi THEN CrossingAt(Most(inside, lo), TRUE, n) ELSE CrossingAt(after, FALSE, n)
  BY <1>1 DEF FillCrossingRun
<1>3. \A i, great : LET at0 == CrossingAt(i, great, n) IN at0.note # None => at0.note = i /\ i < n /\ at0.great = great
  BY DEF CrossingAt, NoCrossing
<1>. SUFFICES ASSUME crossing.note # None
              PROVE  /\ crossing.note \in start..(n - 1)
                     /\ IF crossing.great THEN crossing.note >= lo ELSE hi <= lo \/ crossing.note >= hi
  BY <1>1 DEF CrossingFits
<1>4. before \in Int /\ before >= lo /\ inside \in Int /\ ~(before < lo)
  <2>. HIDE DEF hi, halves, inside
  <2>1. before \in Int /\ before >= lo /\ ~(before < lo)
    BY <1>1
  <2>. QED
    BY <1>1, <2>1 DEF inside
<1>. HIDE DEF crossing, before
<1>5. CASE hi <= lo
  <2>1. crossing = CrossingAt(before, FALSE, n)
    BY <1>2, <1>5
  <2>2. crossing.note = before /\ before < n /\ ~crossing.great
    BY <1>3, <2>1
  <2>. HIDE DEF hi, inside, halves
  <2>. QED
    BY <1>1, <1>4, <1>5, <2>2
<1>6. CASE ~(hi <= lo) /\ inside < hi
  <2>1. crossing = CrossingAt(Most(inside, lo), TRUE, n)
    <3>. HIDE DEF hi, inside, halves, lo
    <3>. QED
      BY <1>2, <1>4, <1>6
  <2>2. crossing.note = Most(inside, lo) /\ Most(inside, lo) < n /\ crossing.great
    <3>. HIDE DEF hi, inside, halves, lo
    <3>. QED
      BY <1>3, <2>1
  <2>3. Most(inside, lo) \in Int /\ Most(inside, lo) >= lo
    BY <1>1, <1>4 DEF Most
  <2>. HIDE DEF hi, inside, halves
  <2>. QED
    BY <1>1, <2>2, <2>3
<1>7. CASE ~(hi <= lo) /\ ~(inside < hi)
  <2>1. crossing = CrossingAt(after, FALSE, n)
    <3>. HIDE DEF hi, inside, halves, lo, after
    <3>. QED
      BY <1>2, <1>4, <1>7
  <2>2. crossing.note = after /\ after < n /\ ~crossing.great
    BY <1>3, <2>1
  <2>3. halves - (hi - lo) \in Int /\ halves - (hi - lo) >= 1
    <3>1. lo - 1 + halves >= hi
      BY <1>1, <1>4, <1>7
    <3>. HIDE DEF hi, halves
    <3>. QED
      BY <1>1, <3>1
  <2>4. WholeNotes(halves - (hi - lo)) \in Int /\ WholeNotes(halves - (hi - lo)) >= 1
    BY <1>0, <2>3
  <2>5. after \in Int /\ after >= hi
    <3>. HIDE DEF hi, halves, lo
    <3>. QED
      BY <1>1, <2>4
  <2>. HIDE DEF hi, inside, halves, after
  <2>. QED
    BY <1>1, <1>7, <2>2, <2>5
<1>. QED
  BY <1>5, <1>6, <1>7

\* A run begins before the bar would fill without it.
LEMMA OffsetsFit ==
  ASSUME NEW n \in Nat, NEW d \in Nat, NEW start \in Nat, NEW k \in Nat, k > 0, NEW o, o > 0,
         o = Region2OffsetForCount(start, k, d, n) \/ (o = 1 /\ HasShiftedHeadRegion(start, d))
  PROVE  o \in Nat /\ WholeNotes(d) > o
<1>0. d \in Int /\ k \in Int
  OBVIOUS
<1>1. CASE o = 1 /\ HasShiftedHeadRegion(start, d)
  BY <1>1 DEF HasShiftedHeadRegion, WholeNotes
<1>2. CASE o = Region2OffsetForCount(start, k, d, n)
  <2>. DEFINE lo == WholeNotes(d - k)
              hi == WholeNotes(d - (k - 1)) - 1
  <2>1. o = lo /\ lo = hi
    <3>1. (Region2OffsetForCount(start, k, d, n) = lo /\ lo = hi) \/ Region2OffsetForCount(start, k, d, n) = None
      BY DEF Region2OffsetForCount
    <3>. QED
      BY <1>2, <3>1 DEF None
  <2>2. lo \in Int /\ hi \in Int /\ hi + 1 <= WholeNotes(d)
    BY DEF WholeNotes
  <2>3. WholeNotes(d) \in Int
    BY DEF WholeNotes
  <2>. HIDE DEF lo, hi
  <2>. QED
    BY <2>1, <2>2, <2>3
<1>. QED
  BY <1>1, <1>2

\* The shortest reachable run of Greats past the note that crosses: none of its notes is over before that note can be.
LEMMA RunReached ==
  ASSUME NEW x, ProblemFits(x), x.timed, NEW a \in 0..(x.c.n - 1), NEW start, NEW runStart, NEW ge,
         ge = MinimalReachableGreatEnd(x.c, a, start, runStart, x.d), ge # None
  PROVE  /\ ge \in (a + 1)..x.c.n /\ \A j \in (a + 1)..(ge - 1) : x.c.pc[j] < x.c.gc[a]
         /\ LateGreatHit(x.c, a, runStart, ge) # NoHit
<1>. DEFINE n == x.c.n
            D == {e \in (a + 1)..(n - 1) : \A j \in (a + 1)..e : x.c.pc[j] < x.c.gc[a]}
            size == Cardinality(D)
            top == a + 1 + size
            ends0 == {e \in (a + 1)..top : LateGreatReachable(x.c, a, LateGreatHit(x.c, a, runStart, e), x.d, start, runStart, e)}
<1>0. n \in Nat /\ a \in 0..(n - 1)
  BY DEF ProblemFits, ChartFits
<1>1. ge = LeastOf(ends0)
  BY DEF MinimalReachableGreatEnd
<1>2. \A m \in (a + 1)..n : IsFiniteSet((a + 1)..(m - 1)) /\ Cardinality((a + 1)..(m - 1)) = m - 1 - a
  <2>. SUFFICES ASSUME NEW m \in (a + 1)..n
                PROVE  IsFiniteSet((a + 1)..(m - 1)) /\ Cardinality((a + 1)..(m - 1)) = m - 1 - a
    OBVIOUS
  <2>1. a + 1 \in Int /\ m - 1 \in Int
    BY <1>0
  <2>2. IsFiniteSet((a + 1)..(m - 1)) /\ Cardinality((a + 1)..(m - 1)) = IF a + 1 > m - 1 THEN 0 ELSE (m - 1) - (a + 1) + 1
    BY <2>1, FS_Interval
  <2>. QED
    BY <1>0, <2>2
<1>3. IsFiniteSet(D) /\ size \in 0..(n - 1 - a)
  <2>1. n \in (a + 1)..n
    BY <1>0
  <2>2. D \subseteq (a + 1)..(n - 1)
    OBVIOUS
  <2>. HIDE DEF D, n
  <2>a. IsFiniteSet((a + 1)..(n - 1)) /\ Cardinality((a + 1)..(n - 1)) = n - 1 - a
    BY <1>2, <2>1
  <2>b. IsFiniteSet(D) /\ Cardinality(D) <= Cardinality((a + 1)..(n - 1))
    BY ONLY <2>2, <2>a, FS_Subset
  <2>c. size \in Nat
    BY <2>b, FS_CardinalityType
  <2>. HIDE DEF size
  <2>3. IsFiniteSet(D) /\ size <= n - 1 - a /\ size \in Nat
    BY <2>a, <2>b, <2>c DEF size
  <2>. QED
    BY <1>0, <2>3
<1>4. top \in (a + 1)..n
  <2>. HIDE DEF size, n
  <2>. QED
    BY <1>0, <1>3
<1>5. ge \in ends0
  <2>1. ends0 # {}
    BY <1>1 DEF LeastOf
  <2>2. ends0 \subseteq 0..n
    <3>1. \A e \in (a + 1)..top : e \in 0..n
      <4>. HIDE DEF top, n
      <4>. QED
        BY <1>0, <1>4
    <3>. HIDE DEF top, n
    <3>. QED
      BY <3>1
  <2>. HIDE DEF ends0, n
  <2>3. Min(ends0) \in ends0
    BY <1>0, <2>1, <2>2, MinOf
  <2>. QED
    BY <1>1, <2>1, <2>3 DEF LeastOf
<1>6. ge \in (a + 1)..top /\ LateGreatHit(x.c, a, runStart, ge) # NoHit
  BY <1>5 DEF LateGreatReachable
<1>7. ge \in (a + 1)..n
  <2>. HIDE DEF top, n
  <2>. QED
    BY <1>0, <1>4, <1>6
<1>8. ASSUME NEW j \in (a + 1)..(ge - 1) PROVE x.c.pc[j] < x.c.gc[a]
  <2>0. j \in (a + 1)..(n - 1) /\ j \in (a + 1)..n
    <3>. HIDE DEF n
    <3>. QED
      BY <1>0, <1>7
  <2>1. CASE j \in D
    <3>1. j \in (a + 1)..j
      BY <1>0, <2>0
    <3>. QED
      BY <2>1, <3>1
  <2>2. CASE j \notin D
    <3>1. D \subseteq (a + 1)..(j - 1)
      <4>. SUFFICES ASSUME NEW e \in D, ~(e \in (a + 1)..(j - 1)) PROVE FALSE
        BY Zenon
      <4>1. e \in (a + 1)..(n - 1) /\ j <= e /\ \A i \in (a + 1)..e : x.c.pc[i] < x.c.gc[a]
        <5>1. e \in (a + 1)..(n - 1) /\ \A i \in (a + 1)..e : x.c.pc[i] < x.c.gc[a]
          OBVIOUS
        <5>. HIDE DEF D, n
        <5>2. j <= e
          BY <1>0, <2>0, <5>1
        <5>. QED
          BY <5>1, <5>2
      <4>2. \A i \in (a + 1)..j : i \in (a + 1)..e
        <5>. HIDE DEF D, n
        <5>. QED
          BY <1>0, <2>0, <4>1
      <4>3. j \in D
        BY <2>0, <4>1, <4>2
      <4>. QED
        BY <2>2, <4>3
    <3>. HIDE DEF D, n
    <3>a. IsFiniteSet((a + 1)..(j - 1)) /\ Cardinality((a + 1)..(j - 1)) = j - 1 - a
      BY <1>2, <2>0
    <3>b. Cardinality(D) <= Cardinality((a + 1)..(j - 1))
      BY ONLY <3>1, <3>a, FS_Subset
    <3>2. size <= j - 1 - a
      BY <3>a, <3>b
    <3>3. ge <= a + 1 + size
      BY <1>0, <1>3, <1>6
    <3>. HIDE DEF size
    <3>. QED
      BY <1>0, <1>3, <1>7, <2>0, <3>2, <3>3
  <2>. QED
    BY <2>1, <2>2
<1>. HIDE DEF ends0
<1>. QED
  BY <1>6, <1>7, <1>8

\* So the fever of its late Great outlasts the run: it is 150 ms long, a Great no later than that after the first late one.
LEMMA LateEndReaches ==
  ASSUME NEW x, ProblemFits(x), x.timed, NEW a \in 0..(x.c.n - 1), NEW ge \in (a + 1)..x.c.n,
         \A j \in (a + 1)..(ge - 1) : x.c.pc[j] < x.c.gc[a], NEW hit \in Int, hit >= x.c.lf[a]
  PROVE  /\ FeverEnd(x.c, x.c.pf, a, hit, x.rt) >= ge
         /\ FeverEnd(x.c, x.c.ec, a, x.c.lf[a], x.rt) >= ge
<1>. DEFINE c == x.c
            n == c.n
<1>0. /\ n \in Nat /\ x.rt \in Nat /\ x.rt >= 600 /\ TimesFit(c)
      /\ DOMAIN c.pf = 0..(n - 1) /\ DOMAIN c.ec = 0..(n - 1)
  BY DEF ProblemFits, ChartFits, MS
<1>1. c.lf[a] \in Int /\ c.pc[a] \in Int /\ c.gc[a] \in Int /\ c.pc[a] < c.lf[a] /\ c.gc[a] < c.lf[a] + 600
  BY <1>0 DEF TimesFit, MS
<1>2. ASSUME NEW i \in 0..(ge - 1)
      PROVE  c.pf[i] \in Int /\ c.ec[i] \in Int /\ c.pf[i] < c.lf[a] + 600 /\ c.ec[i] < c.lf[a] + 600
  <2>0. i \in 0..(n - 1)
    BY <1>0
  <2>1. c.pf[i] \in Int /\ c.ec[i] \in Int /\ c.pc[i] \in Int
    BY <1>0, <2>0 DEF TimesFit
  <2>2. CASE i <= a
    <3>1. i \in 0..a
      BY <2>2
    <3>2. c.pf[i] <= c.pc[a] /\ c.ec[i] <= c.pc[a]
      BY <1>0, <3>1 DEF TimesFit
    <3>. QED
      BY <1>1, <2>1, <3>2
  <2>3. CASE ~(i <= a)
    <3>1. i \in (a + 1)..(ge - 1) /\ i \in 0..i
      BY <2>3
    <3>2. c.pf[i] <= c.pc[i] /\ c.ec[i] <= c.pc[i] /\ c.pc[i] < c.gc[a]
      BY <1>0, <2>0, <3>1 DEF TimesFit
    <3>. QED
      BY <1>1, <2>1, <3>2
  <2>. QED
    BY <2>2, <2>3
<1>3. \A i \in 0..(ge - 1) : c.pf[i] < hit + x.rt /\ c.ec[i] < c.lf[a] + x.rt
  <2>. SUFFICES ASSUME NEW i \in 0..(ge - 1) PROVE c.pf[i] < hit + x.rt /\ c.ec[i] < c.lf[a] + x.rt
    OBVIOUS
  <2>1. c.pf[i] \in Int /\ c.ec[i] \in Int /\ c.pf[i] < c.lf[a] + 600 /\ c.ec[i] < c.lf[a] + 600
    BY <1>2
  <2>2. hit >= c.lf[a]
    OBVIOUS
  <2>. DEFINE l == c.lf[a]
              p == c.pf[i]
              e == c.ec[i]
              rt == x.rt
  <2>3. l \in Int /\ p \in Int /\ e \in Int /\ rt \in Int /\ rt >= 600 /\ p < l + 600 /\ e < l + 600 /\ hit >= l
    BY <1>0, <1>1, <2>1
  <2>. HIDE DEF l, p, e, rt
  <2>4. p < hit + rt /\ e < l + rt
    BY <2>3
  <2>. QED
    BY <2>4 DEF l, p, e, rt
<1>4. ge \in 0..n
  BY <1>0
<1>. QED
  BY <1>0, <1>3, <1>4, EndFits

\* The families of a run that starts behind the section fit.
LEMMA RegionFamilyFits ==
  ASSUME NEW x, ProblemFits(x), x.timed, NEW start \in Nat, NEW k \in Nat, k > 0, NEW o \in Nat, o > 0, WholeNotes(x.d) > o,
         NEW f \in RegionFamily(x, start, start + o, k)
  PROVE  FamilyFits(x, start, f)
<1>. DEFINE runStart == start + o
            crossing == FillCrossingRun(start, runStart, k, x.d, x.c.n)
            a == crossing.note
            ge == RunEnd(x.c, crossing, start, runStart, k, x.d)
            perfect == PerfectHit(x.c, a, runStart, ge)
            late == LateGreatHit(x.c, a, runStart, ge)
<1>0. x.c.n \in Nat /\ x.d \in Nat /\ TimesFit(x.c) /\ runStart \in Int /\ runStart >= start
  BY DEF ProblemFits, ChartFits
<1>1. CrossingFits(crossing, start, runStart, k, x.c.n)
  BY <1>0, CrossingsFit
<1>2. a # None /\ f \in FamiliesOfRun(x, start, runStart, a, crossing.great, ge)
  BY DEF RegionFamily, FamiliesOfCrossing
<1>. HIDE DEF crossing, runStart
<1>3. a \in start..(x.c.n - 1) /\ a \in 0..(x.c.n - 1)
        /\ IF crossing.great THEN a >= runStart
           ELSE Least(x.c.n, runStart + k) <= runStart \/ a >= Least(x.c.n, runStart + k)
  <2>1. a \in start..(x.c.n - 1)
          /\ IF crossing.great THEN a >= runStart
             ELSE Least(x.c.n, runStart + k) <= runStart \/ a >= Least(x.c.n, runStart + k)
    BY <1>1, <1>2 DEF CrossingFits
  <2>. QED
    BY <1>0, <2>1
<1>4. ~(ge <= runStart) /\ f \in FamiliesOfHits(x, start, runStart, a, crossing.great, ge, perfect, late)
  <2>. HIDE DEF ge, a
  <2>. QED
    BY <1>2 DEF FamiliesOfRun
<1>5. CASE crossing.great
  <2>1. f = Family(x, a, TRUE, runStart, ge, late)
    <3>. HIDE DEF ge, a, perfect, late
    <3>. QED
      BY <1>4, <1>5 DEF FamiliesOfHits
  <2>2. ge = MinimalReachableGreatEnd(x.c, a, start, runStart, x.d)
    BY <1>5 DEF RunEnd
  <2>. HIDE DEF ge, a
  <2>3. ge # None
    BY <1>0, <1>4 DEF None
  <2>4. /\ ge \in (a + 1)..x.c.n /\ \A j \in (a + 1)..(ge - 1) : x.c.pc[j] < x.c.gc[a]
        /\ late # NoHit
    BY <1>3, <2>2, <2>3, RunReached
  <2>5. late \in Int /\ late >= x.c.lf[a]
    BY <1>0, <1>3, <2>4, HitFits
  <2>. HIDE DEF late, perfect
  <2>6. FeverEnd(x.c, x.c.pf, a, late, x.rt) >= ge /\ FeverEnd(x.c, x.c.ec, a, x.c.lf[a], x.rt) >= ge
    BY <1>3, <2>4, <2>5, LateEndReaches
  <2>. DEFINE end == FeverEnd(x.c, x.c.pf, a, late, x.rt)
              exit == IF x.exits THEN FeverEnd(x.c, x.c.ec, a, x.c.lf[a], x.rt) ELSE end
  <2>7. Family(x, a, TRUE, runStart, ge, late).exit = Least(exit, end)
    BY DEF Family
  <2>8. end >= ge /\ exit >= ge
    BY <2>6
  <2>. HIDE DEF end, exit
  <2>9. ge <= Family(x, a, TRUE, runStart, ge, late).exit
    BY <2>7, <2>8 DEF Least
  <2>10. ge \in Int
    BY <1>3, <2>4
  <2>. QED
    BY <1>0, <1>3, <2>1, <2>9, <2>10, FamilyIs
<1>6. CASE ~crossing.great
  <2>1. f = Family(x, a, FALSE, runStart, ge, perfect)
    <3>. HIDE DEF ge, a, perfect, late
    <3>. QED
      BY <1>4, <1>6 DEF FamiliesOfHits
  <2>2. ge = Least(x.c.n, runStart + k)
    BY <1>6 DEF RunEnd
  <2>. HIDE DEF ge, a, perfect
  <2>3. ge \in Int /\ ge <= a + 1
    <3>1. ge \in Int
      BY <1>0, <2>2 DEF Least
    <3>2. a >= ge
      BY <1>3, <1>4, <1>6, <2>2
    <3>. QED
      BY <1>3, <3>1, <3>2
  <2>. QED
    BY <1>0, <1>3, <2>1, <2>3, ShortFamily
<1>. QED
  BY <1>5, <1>6

\* The families of every action of a section.
LEMMA FamiliesFit ==
  ASSUME NEW x, ProblemFits(x), NEW from \in -1..(x.c.n - 1), NEW f \in TraceFamilies(x, from = -1, from)
  PROVE  FamilyFits(x, from + 1, f)
<1>. DEFINE first == from = -1
            p(i) == Planned(x.actions[i], first, from)
<1>1. PICK i \in DOMAIN x.actions :
         (\E before : f \in ActionFamilies(x, p(i), before)) \/ f \in RegionFamilies(x, p(i).start, p(i).k)
  BY DEF TraceFamilies
<1>2. ActionFits(x.actions[i])
  BY DEF ProblemFits
<1>3. from \in Int /\ from >= -1
  OBVIOUS
<1>4. p(i).start = from + 1 /\ from + 1 \in Nat /\ p(i).k = x.actions[i].k /\ p(i).k \in Nat
  BY <1>2, <1>3 DEF Planned, SectionStart, ActionFits
<1>5. PlanFits(x, p(i))
  <2>. DEFINE r == x.actions[i]
              fill == IF first THEN r.first ELSE r.later
  <2>1. /\ p(i).slots = fill - Wasted(first) /\ p(i).act = (IF first THEN fill ELSE from + fill)
        /\ p(i).count = (IF first THEN r.firstForced ELSE r.laterForced)
    BY DEF Planned
  <2>2. fill \in Nat /\ p(i).count = Least(r.k, fill) /\ r.k \in Nat
    BY <1>2, <2>1 DEF ActionFits
  <2>3. p(i).count \in Int /\ p(i).count <= fill
    <3>. HIDE DEF fill, r, p
    <3>. QED
      BY <2>2 DEF Least
  <2>4. CASE first
    <3>. HIDE DEF p, fill, r
    <3>. QED
      BY <1>3, <1>4, <2>1, <2>2, <2>3, <2>4 DEF PlanFits, Wasted
  <2>5. CASE ~first
    <3>. HIDE DEF p, fill, r
    <3>. QED
      BY <1>3, <1>4, <2>1, <2>2, <2>3, <2>5 DEF PlanFits, Wasted
  <2>. QED
    BY <2>4, <2>5
<1>. HIDE DEF p, first
<1>6. CASE \E before : f \in ActionFamilies(x, p(i), before)
  BY <1>4, <1>5, <1>6, ActionFamiliesFit
<1>7. CASE f \in RegionFamilies(x, p(i).start, p(i).k)
  <2>. DEFINE start == from + 1
              k == p(i).k
  <2>1. x.timed /\ k > 0 /\ \E o : /\ o > 0 /\ f \in RegionFamily(x, start, start + o, k)
                                   /\ o = Region2OffsetForCount(start, k, x.d, x.c.n) \/ (o = 1 /\ HasShiftedHeadRegion(start, x.d))
    BY <1>4, <1>7 DEF RegionFamilies
  <2>2. PICK o : /\ o > 0 /\ f \in RegionFamily(x, start, start + o, k)
                 /\ o = Region2OffsetForCount(start, k, x.d, x.c.n) \/ (o = 1 /\ HasShiftedHeadRegion(start, x.d))
    BY <2>1
  <2>3. x.c.n \in Nat /\ x.d \in Nat /\ start \in Nat /\ k \in Nat
    BY <1>4 DEF ProblemFits, ChartFits
  <2>. HIDE DEF start, k
  <2>4. o \in Nat /\ WholeNotes(x.d) > o
    BY <2>1, <2>2, <2>3, OffsetsFit
  <2>5. FamilyFits(x, start, f)
    BY <2>1, <2>2, <2>3, <2>4, RegionFamilyFits
  <2>. QED
    BY <2>5 DEF start
<1>. QED
  BY <1>1, <1>6, <1>7

\* An edge says nothing of the notes before its section, nor of those from its end on.
LEMMA EdgesFit ==
  ASSUME NEW x, x.c.n \in Nat, NEW from \in Int, from >= -1, NEW f, FamilyFits(x, from + 1, f), NEW e \in f.exit..f.great
  PROVE  LET edge == EdgeAt(f, e) IN
         /\ e \in (from + 1)..x.c.n
         /\ edge.F \subseteq (from + 1)..(e - 1) /\ edge.G \subseteq (from + 1)..(e - 1)
         /\ edge.b \in Nat /\ edge.n \in Nat /\ edge.q \in Nat
<1>. DEFINE fever == f.act..(e - 1)
            greats == (f.gs..(f.ge - 1)) \cup (IF f.own THEN {f.act} ELSE {})
            early == f.base..(e - 1)
            all == (from + 1)..(e - 1)
            edge == EdgeAt(f, e)
<1>1. /\ f.act \in Int /\ f.act >= from + 1 /\ f.gs \in Int /\ f.gs >= from + 1
      /\ f.base \in Int /\ f.base > f.act /\ f.exit \in Int /\ f.exit > f.act /\ f.great \in Int /\ f.great <= x.c.n
      /\ f.ge \in Int /\ f.ge <= f.exit
  BY DEF FamilyFits
<1>2. e \in Int /\ e > f.act /\ e >= f.ge /\ e <= x.c.n
  BY <1>1
<1>3. fever \subseteq all /\ greats \subseteq all /\ early \subseteq all
  <2>1. fever \subseteq all
    BY <1>1, <1>2
  <2>2. f.gs..(f.ge - 1) \subseteq all
    BY <1>1, <1>2
  <2>3. f.act \in all
    BY <1>1, <1>2
  <2>4. early \subseteq all
    BY <1>1, <1>2
  <2>. HIDE DEF fever, early, all
  <2>. QED
    BY <2>1, <2>2, <2>3, <2>4
<1>4. \A S \in SUBSET all : Body(S) \in Nat
  <2>0. from + 1 \in Int /\ e - 1 \in Int
    BY <1>2
  <2>1. IsFiniteSet(all)
    BY <2>0, FS_Interval
  <2>. HIDE DEF all
  <2>2. ASSUME NEW S \in SUBSET all PROVE Body(S) \in Nat
    <3>1. S \ HeadNotes \subseteq all
      OBVIOUS
    <3>. QED
      BY <2>1, <3>1, FS_Subset, FS_CardinalityType DEF Body
  <2>. QED
    BY <2>2
<1>5. /\ edge.F = fever \cap HeadNotes /\ edge.G = (greats \cup early) \cap HeadNotes /\ edge.b = Body(fever)
      /\ edge.n = Body(greats \ fever) /\ edge.q = Body(greats \cap fever) + Body(early)
  BY DEF EdgeAt
<1>6. edge.F \subseteq all /\ edge.G \subseteq all
  <2>. HIDE DEF fever, greats, early, all, edge
  <2>. QED
    BY <1>3, <1>5
<1>7. edge.b \in Nat /\ edge.n \in Nat /\ edge.q \in Nat
  <2>. HIDE DEF fever, greats, early, all, edge
  <2>1. greats \ fever \in SUBSET all /\ greats \cap fever \in SUBSET all /\ early \in SUBSET all /\ fever \in SUBSET all
    BY <1>3
  <2>2. Body(fever) \in Nat /\ Body(greats \ fever) \in Nat /\ Body(greats \cap fever) \in Nat /\ Body(early) \in Nat
    BY <1>4, <2>1
  <2>. QED
    BY <1>5, <2>2
<1>8. e \in (from + 1)..x.c.n
  BY <1>1, <1>2
<1>. QED
  BY <1>6, <1>7, <1>8

\* Every section of every problem fits.
LEMMA SectionsAreFit ==
  ASSUME NEW x, IsProblem(x)
  PROVE  SectionsFit(x)
<1>1. ProblemFits(x)
  BY ProblemsFit
<1>2. x.c.n \in Nat
  BY <1>1 DEF ProblemFits, ChartFits
<1>3. ASSUME NEW from \in -1..(x.c.n - 1), NEW s \in TraceSections(x, from = -1, from)
      PROVE  SectionFits(x, from, s)
  <2>1. PICK f \in TraceFamilies(x, from = -1, from) : \E e \in f.exit..f.great : s.end = e /\ s.edge = EdgeAt(f, e)
    BY DEF TraceSections
  <2>2. PICK e \in f.exit..f.great : s.end = e /\ s.edge = EdgeAt(f, e)
    BY <2>1
  <2>3. FamilyFits(x, from + 1, f)
    BY <1>1, FamiliesFit
  <2>4. from \in Int /\ from >= -1
    BY <1>2
  <2>. QED
    BY <1>2, <2>2, <2>3, <2>4, EdgesFit DEF SectionFits
<1>. QED
  BY <1>2, <1>3 DEF SectionsFit

-----------------------------------------------------------------------------
(* What is left of a surface.                                               *)

\* A section that begins a play of what is left, and what a play can finish from a note that ends a fever.
Adds(x, s, left) == Witnessed(x, s) /\ \E t \in WitnessedFrom(x)[s.end] : EdgeOfSurface(Join(s.edge, t)) = left
CanFinish(x, from, left) == \E s \in TraceSections(x, from = -1, from) : Adds(x, s, left)

\* A play from a note is nothing more, or it begins with a section from there.
LEMMA PlaysBegin ==
  ASSUME NEW x, SectionsFit(x), NEW from \in -1..x.c.n, NEW t \in WitnessedFrom(x)[from], from = -1 \/ t # Zero
  PROVE  from < x.c.n /\ CanFinish(x, from, EdgeOfSurface(t))
<1>1. t \in PlaysAt(x, WitnessedFrom(x), from)
  BY PlaysUnfold
<1>2. from # x.c.n
  BY <1>1 DEF PlaysAt, SectionsFit
<1>3. PICK s \in TraceSections(x, from = -1, from) : Witnessed(x, s) /\ \E v \in WitnessedFrom(x)[s.end] : t = Join(s.edge, v)
  BY <1>1, <1>2 DEF PlaysAt
<1>4. from < x.c.n
  BY <1>2 DEF SectionsFit
<1>. QED
  BY <1>3, <1>4 DEF CanFinish, Adds

\* What is left after a section is what the play adds after it.
LEMMA JoinSubtracts ==
  ASSUME NEW x, NEW from \in Int, NEW s, SectionFits(x, from, s), NEW t, LaterSurface(s.end, t)
  PROVE  LET left == EdgeOfSurface(Join(s.edge, t)) IN
         /\ EdgeFits(EdgeOfSurface(s.edge), left)
         /\ SubtractEdge(left, EdgeOfSurface(s.edge)) = EdgeOfSurface(t)
<1>1. /\ s.edge.b \in Nat /\ s.edge.n \in Nat /\ s.edge.q \in Nat /\ t.b \in Nat /\ t.n \in Nat /\ t.q \in Nat
  BY DEF SectionFits, LaterSurface
<1>2. s.edge.F \cap t.F = {} /\ s.edge.G \cap t.G = {}
  <2>1. s.end \in Int /\ \A i \in s.edge.F \cup s.edge.G : i \in Int /\ i < s.end
    BY DEF SectionFits
  <2>2. \A i \in t.F \cup t.G : i \in Int /\ i > s.end
    BY DEF LaterSurface
  <2>3. \A i : ~(i \in s.edge.F \cup s.edge.G /\ i \in t.F \cup t.G)
    BY <2>1, <2>2
  <2>. QED
    BY <2>3
<1>. DEFINE edge == EdgeOfSurface(s.edge)
            left == EdgeOfSurface(Join(s.edge, t))
<1>3. /\ edge.F = s.edge.F /\ edge.G = s.edge.G /\ edge.b = s.edge.b /\ edge.g = s.edge.n + s.edge.q /\ edge.q = s.edge.q
      /\ left.F = s.edge.F \cup t.F /\ left.G = s.edge.G \cup t.G /\ left.b = s.edge.b + t.b
      /\ left.g = (s.edge.n + t.n) + (s.edge.q + t.q) /\ left.q = s.edge.q + t.q
  BY DEF EdgeOfSurface, Join
<1>. HIDE DEF edge, left
<1>4. left.F \ edge.F = t.F /\ left.G \ edge.G = t.G /\ edge.F \subseteq left.F /\ edge.G \subseteq left.G
  BY <1>2, <1>3
<1>5. left.b - edge.b = t.b /\ left.g - edge.g = t.n + t.q /\ left.q - edge.q = t.q
      /\ edge.b <= left.b /\ edge.g <= left.g /\ edge.q <= left.q
  BY <1>1, <1>3
<1>6. EdgeFits(edge, left)
  BY <1>4, <1>5 DEF EdgeFits
<1>7. SubtractEdge(left, edge) = [F |-> t.F, G |-> t.G, b |-> t.b, g |-> t.n + t.q, q |-> t.q]
  BY <1>4, <1>5 DEF SubtractEdge
<1>8. SubtractEdge(left, edge) = EdgeOfSurface(t)
  BY <1>7 DEF EdgeOfSurface
<1>. QED
  BY <1>6, <1>8 DEF edge, left

\* A section that begins a play fits what is left, and unless nothing is left after it, a play can finish from its end.
LEMMA AddsLeaves ==
  ASSUME NEW x, SectionsFit(x), NEW from \in -1..(x.c.n - 1), NEW s \in TraceSections(x, from = -1, from), NEW left,
         Adds(x, s, left)
  PROVE  LET rest == SubtractEdge(left, EdgeOfSurface(s.edge)) IN
         /\ EdgeFits(EdgeOfSurface(s.edge), left)
         /\ rest # Nothing => ~CannotEnd(x, s.end, rest) /\ CanFinish(x, s.end, rest)
<1>1. PICK t \in WitnessedFrom(x)[s.end] : EdgeOfSurface(Join(s.edge, t)) = left
  BY DEF Adds
<1>2. SectionFits(x, from, s) /\ x.c.n \in Nat /\ from \in Int
  BY DEF SectionsFit
<1>3. s.end \in -1..x.c.n /\ s.end # -1 /\ s.end \in Int
  BY <1>2 DEF SectionFits
<1>4. LaterSurface(s.end, t)
  BY <1>1, <1>3, PlaysAreLater
<1>5. EdgeFits(EdgeOfSurface(s.edge), left) /\ SubtractEdge(left, EdgeOfSurface(s.edge)) = EdgeOfSurface(t)
  BY <1>1, <1>2, <1>4, JoinSubtracts
<1>6. ASSUME EdgeOfSurface(t) # Nothing
      PROVE  ~CannotEnd(x, s.end, EdgeOfSurface(t)) /\ CanFinish(x, s.end, EdgeOfSurface(t))
  <2>1. t # Zero
    BY <1>6 DEF Nothing
  <2>2. s.end < x.c.n /\ CanFinish(x, s.end, EdgeOfSurface(t))
    BY <1>1, <1>3, <2>1, PlaysBegin
  <2>3. \A i \in EdgeOfSurface(t).F \cup EdgeOfSurface(t).G : i \in Int /\ i > s.end
    BY <1>4 DEF LaterSurface, EdgeOfSurface
  <2>4. ~CannotEnd(x, s.end, EdgeOfSurface(t))
    <3>1. ~(s.end >= x.c.n)
      BY <1>2, <1>3, <2>2
    <3>2. ~\E i \in EdgeOfSurface(t).F \cup EdgeOfSurface(t).G : i <= s.end
      BY <1>3, <2>3
    <3>. QED
      BY <3>1, <3>2 DEF CannotEnd
  <2>. QED
    BY <2>2, <2>4
<1>. QED
  BY <1>5, <1>6

-----------------------------------------------------------------------------
(* The search loses no trace, and what it finds adds up.                    *)

\* The option a call is at, and what is left after it.
FirstOf(f) == CHOOSE s \in f.options : TRUE
RestOf(f) == SubtractEdge(f.left, EdgeOfSurface(FirstOf(f).edge))

\* The sections of a trace from a note: each fits what the ones before it leave, can be played, and nothing is left.
AreLeft(left, sections, rest) ==
    rest = [i \in 0..Len(sections) |-> IF i = 0 THEN left ELSE SubtractEdge(rest[i - 1], EdgeOfSurface(sections[i].edge))]
IsTraceWith(x, from, sections, rest) ==
    /\ rest[Len(sections)] = Nothing
    /\ \A i \in 1..Len(sections) :
          /\ sections[i] \in FittingEdges(x, IF i = 1 THEN from ELSE sections[i - 1].end, rest[i - 1])
          /\ Witnessed(x, sections[i])
IsTrace(x, from, left, sections) ==
    /\ \E S : sections \in Seq(S)
    /\ \E rest : AreLeft(left, sections, rest) /\ IsTraceWith(x, from, sections, rest)
FindsTrace(x, from, left, result) ==
    result # <<>> /\ result # <<NoTrace>> => \E sections : result = <<TraceOf(sections)>> /\ IsTrace(x, from, left, sections)

\* A call has only sections that fit what it is to finish, and still every one that begins a play of it.
FrameFits(x, f) ==
    /\ f.at \in -1..(x.c.n - 1)
    /\ f.options \subseteq FittingEdges(x, f.at, f.left)
    /\ \A s \in TraceSections(x, f.at = -1, f.at) : Adds(x, s, f.left) => s \in f.options
IsStack(q) == \E S : q \in Seq(S)
\* Every call but the first is for what the call around it has left after its option.
StackFits(x, surface, q) ==
    /\ IsStack(q)
    /\ \A i \in 1..Len(q) : FrameFits(x, q[i])
    /\ \A i \in 1..(Len(q) - 1) : /\ q[i].options # {} /\ RestOf(q[i]) # Nothing
                                  /\ q[i + 1].at = FirstOf(q[i]).end /\ q[i + 1].left = RestOf(q[i])
    /\ q # <<>> => q[1].at = -1 /\ q[1].left = EdgeOfSurface(surface)
\* A call that found nothing was for what no play finishes; what one found is a trace of what it was for.
AnswerFits(x, q, result) ==
    result # <<>> => LET f == q[Len(q)] IN
        /\ q # <<>> /\ f.options # {}
        /\ result = <<NoTrace>> => RestOf(f) # Nothing /\ ~CanFinish(x, FirstOf(f).end, RestOf(f))
        /\ FindsTrace(x, FirstOf(f).end, RestOf(f), result)
MemoFits(x, known) == \A m \in known : ~CanFinish(x, m[1], m[2])
ResultFits(x, surface, q, result) ==
    /\ result = <<NoTrace>> => ~CanFinish(x, -1, EdgeOfSurface(surface))
    /\ result # <<>> => q = <<>>
    /\ FindsTrace(x, -1, EdgeOfSurface(surface), result)
SearchInv ==
    IF problem = <<>> THEN stack = <<>> /\ traced = <<>>
    ELSE /\ IsProblem(problem) /\ StackFits(problem, wanted, stack) /\ AnswerFits(problem, stack, answer)
         /\ MemoFits(problem, memo) /\ ResultFits(problem, wanted, stack, traced)

\* A call more.
LEMMA PushedStack ==
  ASSUME NEW q, IsStack(q), NEW f
  PROVE  /\ IsStack(Append(q, f)) /\ Len(q) \in Nat /\ Len(Append(q, f)) = Len(q) + 1
         /\ \A i \in 1..Len(q) : Append(q, f)[i] = q[i]
         /\ Append(q, f)[Len(q) + 1] = f
<1>1. PICK S : q \in Seq(S)
  BY DEF IsStack
<1>. DEFINE T == S \cup {f}
<1>2. q \in Seq(T)
  BY <1>1
<1>3. f \in T
  OBVIOUS
<1>. HIDE DEF T
<1>4. Append(q, f) \in Seq(T)
  BY <1>2, <1>3
<1>. QED
  BY <1>2, <1>3, <1>4 DEF IsStack

\* A call less.
LEMMA PoppedStack ==
  ASSUME NEW q, IsStack(q), q # <<>>
  PROVE  LET p == SubSeq(q, 1, Len(q) - 1) IN
         /\ Len(q) \in Nat \ {0} /\ IsStack(p) /\ Len(p) = Len(q) - 1
         /\ \A i \in 1..(Len(q) - 1) : p[i] = q[i]
<1>1. PICK S : q \in Seq(S)
  BY DEF IsStack
<1>2. Len(q) \in Nat \ {0}
  BY <1>1
<1>. DEFINE p == SubSeq(q, 1, Len(q) - 1)
<1>3. p \in Seq(S)
  BY <1>1, <1>2
<1>4. Len(p) = Len(q) - 1
  <2>. DEFINE k == Len(q) - 1
  <2>1. k \in Nat /\ k <= Len(q)
    BY <1>2
  <2>. HIDE DEF k
  <2>2. Len(SubSeq(q, 1, k)) = k
    BY <1>1, <2>1
  <2>. QED
    BY <2>2 DEF k
<1>5. ASSUME NEW i \in 1..(Len(q) - 1) PROVE p[i] = q[i]
  BY <1>1, <1>2
<1>. HIDE DEF p
<1>. QED
  BY <1>2, <1>3, <1>4, <1>5 DEF IsStack, p

\* A change of the innermost call.
LEMMA ChangedStack ==
  ASSUME NEW q, IsStack(q), q # <<>>, NEW f
  PROVE  LET p == [q EXCEPT ![Len(q)] = f] IN
         /\ Len(q) \in Nat \ {0} /\ IsStack(p) /\ Len(p) = Len(q)
         /\ \A i \in 1..(Len(q) - 1) : p[i] = q[i]
         /\ p[Len(q)] = f
<1>1. PICK S : q \in Seq(S)
  BY DEF IsStack
<1>2. Len(q) \in Nat \ {0} /\ DOMAIN q = 1..Len(q)
  BY <1>1
<1>. DEFINE T == S \cup {f}
            p == [q EXCEPT ![Len(q)] = f]
<1>3. q \in Seq(T) /\ f \in T
  BY <1>1
<1>. HIDE DEF T
<1>4. p \in Seq(T)
  BY <1>2, <1>3
<1>5. Len(p) = Len(q)
  BY <1>2, <1>3
<1>6. \A i \in 1..(Len(q) - 1) : p[i] = q[i]
  <2>. DEFINE n == Len(q)
  <2>1. \A i \in 1..(n - 1) : i \in 1..n /\ i # n
    <3>1. n \in Nat
      BY <1>2
    <3>. HIDE DEF n
    <3>. QED
      BY <3>1
  <2>2. \A i \in DOMAIN q : i # n => p[i] = q[i]
    OBVIOUS
  <2>. HIDE DEF n, p
  <2>. QED
    BY <1>2, <2>1, <2>2 DEF n
<1>7. p[Len(q)] = f
  BY <1>2
<1>. QED
  BY <1>2, <1>4, <1>5, <1>6, <1>7 DEF IsStack

\* Nothing is left to trace.
LEMMA NothingIsTraced ==
  ASSUME NEW x, NEW from
  PROVE  IsTrace(x, from, Nothing, <<>>)
<1>. DEFINE rest == [i \in 0..0 |-> Nothing]
<1>1. <<>> \in Seq({}) /\ Len(<<>>) = 0
  OBVIOUS
<1>2. AreLeft(Nothing, <<>>, rest)
  BY <1>1 DEF AreLeft
<1>3. rest[Len(<<>>)] = Nothing /\ 1..Len(<<>>) = {}
  BY <1>1
<1>4. IsTraceWith(x, from, <<>>, rest)
  BY <1>3 DEF IsTraceWith
<1>. QED
  BY <1>1, <1>2, <1>4 DEF IsTrace

\* A section and a trace of what it leaves.
LEMMA TraceBegins ==
  ASSUME NEW x, NEW from, NEW left, NEW s \in FittingEdges(x, from, left), Witnessed(x, s), NEW sections,
         IsTrace(x, s.end, SubtractEdge(left, EdgeOfSurface(s.edge)), sections)
  PROVE  IsTrace(x, from, left, <<s>> \o sections)
<1>1. PICK S : sections \in Seq(S)
  BY DEF IsTrace
<1>. DEFINE n == Len(sections)
            all == <<s>> \o sections
            after == SubtractEdge(left, EdgeOfSurface(s.edge))
<1>2. PICK rest : AreLeft(after, sections, rest) /\ IsTraceWith(x, s.end, sections, rest)
  BY DEF IsTrace
<1>. DEFINE more == [i \in 0..(n + 1) |-> IF i = 0 THEN left ELSE rest[i - 1]]
<1>3. <<s>> \in Seq(S \cup {s}) /\ sections \in Seq(S \cup {s}) /\ n \in Nat
  BY <1>1
<1>4. /\ all \in Seq(S \cup {s}) /\ Len(all) = n + 1 /\ all[1] = s
      /\ \A i \in 1..n : all[i + 1] = sections[i]
  BY <1>3
<1>. HIDE DEF all, n, after
<1>5. /\ rest[0] = after /\ rest[n] = Nothing
      /\ \A i \in 1..n : rest[i] = SubtractEdge(rest[i - 1], EdgeOfSurface(sections[i].edge))
      /\ \A i \in 1..n : /\ sections[i] \in FittingEdges(x, IF i = 1 THEN s.end ELSE sections[i - 1].end, rest[i - 1])
                        /\ Witnessed(x, sections[i])
  <2>1. rest = [i \in 0..n |-> IF i = 0 THEN after ELSE SubtractEdge(rest[i - 1], EdgeOfSurface(sections[i].edge))]
    BY <1>2 DEF AreLeft, n
  <2>2. 0 \in 0..n /\ \A i \in 1..n : i \in 0..n /\ i # 0
    BY <1>3
  <2>3. rest[0] = after /\ \A i \in 1..n : rest[i] = SubtractEdge(rest[i - 1], EdgeOfSurface(sections[i].edge))
    BY <2>1, <2>2
  <2>. QED
    BY <1>2, <2>3 DEF IsTraceWith, n
<1>6. more[0] = left /\ \A i \in 1..(n + 1) : more[i] = rest[i - 1]
  BY <1>3
<1>7. \A i \in 1..(n + 1) : i = 1 \/ (i - 1 \in 1..n /\ (i - 1) + 1 = i /\ i # 1)
  BY <1>3
<1>8. ASSUME NEW i \in 1..(n + 1)
      PROVE  /\ more[i] = SubtractEdge(more[i - 1], EdgeOfSurface(all[i].edge))
             /\ all[i] \in FittingEdges(x, IF i = 1 THEN from ELSE all[i - 1].end, more[i - 1])
             /\ Witnessed(x, all[i])
  <2>. HIDE DEF more
  <2>1. CASE i = 1
    <3>1. more[1] = rest[0] /\ more[1 - 1] = left /\ all[1] = s
      BY <1>3, <1>4, <1>6
    <3>. QED
      BY <1>5, <2>1, <3>1 DEF after
  <2>2. CASE i # 1
    <3>1. PICK j \in 1..n : j = i - 1 /\ j + 1 = i
      BY <1>7, <2>2
    <3>2. all[i] = sections[j] /\ more[i] = rest[j]
      BY <1>4, <1>6, <3>1
    <3>3. more[i - 1] = rest[j - 1]
      <4>1. j \in 1..(n + 1)
        BY <1>3
      <4>. QED
        BY <1>6, <3>1, <4>1
    <3>4. CASE j = 1
      <4>1. all[i - 1].end = s.end /\ i # 1
        BY <1>4, <2>2, <3>1, <3>4
      <4>. QED
        BY <1>5, <3>2, <3>3, <3>4, <4>1
    <3>5. CASE j # 1
      <4>1. j - 1 \in 1..n /\ (j - 1) + 1 = i - 1
        BY <1>3, <3>1, <3>5
      <4>2. all[i - 1] = sections[j - 1]
        BY <1>4, <4>1
      <4>. QED
        BY <1>5, <2>2, <3>2, <3>3, <3>5, <4>2
    <3>. QED
      BY <3>4, <3>5
  <2>. QED
    BY <2>1, <2>2
<1>9. more = [i \in 0..(n + 1) |-> IF i = 0 THEN left ELSE SubtractEdge(more[i - 1], EdgeOfSurface(all[i].edge))]
  <2>1. \A i \in 0..(n + 1) : i = 0 \/ i \in 1..(n + 1)
    BY <1>3
  <2>2. ASSUME NEW i \in 0..(n + 1)
        PROVE  more[i] = IF i = 0 THEN left ELSE SubtractEdge(more[i - 1], EdgeOfSurface(all[i].edge))
    <3>. HIDE DEF more
    <3>. QED
      BY <1>6, <1>8, <2>1
  <2>. QED
    BY <2>2
<1>10. more[n + 1] = Nothing
  <2>1. n + 1 \in 1..(n + 1) /\ (n + 1) - 1 = n
    BY <1>3
  <2>. HIDE DEF more
  <2>. QED
    BY <1>5, <1>6, <2>1
<1>. HIDE DEF more
<1>11. AreLeft(left, all, more)
  BY <1>4, <1>9 DEF AreLeft
<1>12. IsTraceWith(x, from, all, more)
  BY <1>4, <1>8, <1>10 DEF IsTraceWith
<1>. QED
  BY <1>4, <1>11, <1>12 DEF IsTrace, all

\* A call begins with every section that begins a play.
LEMMA CallFits ==
  ASSUME NEW x, SectionsFit(x), NEW from \in -1..(x.c.n - 1), NEW left
  PROVE  FrameFits(x, Call(x, from, left)) /\ Call(x, from, left).at = from /\ Call(x, from, left).left = left
<1>1. \A s \in TraceSections(x, from = -1, from) : Adds(x, s, left) => EdgeFits(EdgeOfSurface(s.edge), left)
  BY AddsLeaves
<1>. QED
  BY <1>1 DEF FrameFits, Call, FittingEdges

\* The search begins with one call, for the whole surface from the start.
LEMMA BeginFits ==
  ASSUME NEW x, IsProblem(x), x # <<>>, NEW surface, BeginTrace(x, surface)
  PROVE  SearchInv'
<1>1. SectionsFit(x)
  BY SectionsAreFit
<1>2. problem' = x /\ wanted' = surface /\ memo' = {} /\ answer' = <<>>
  BY DEF BeginTrace
<1>3. traced' # <<NoTrace>> /\ (traced' # <<>> => stack' = <<>>)
  <2>1. TraceOf(<<>>) # NoTrace
    BY DEF TraceOf, NoTrace
  <2>2. <<TraceOf(<<>>)>> # <<NoTrace>> /\ <<>> # <<NoTrace>>
    BY <2>1
  <2>3. (traced' = <<TraceOf(<<>>)>> /\ stack' = <<>>) \/ traced' = <<>>
    BY Zenon DEF BeginTrace
  <2>. QED
    BY <2>2, <2>3, Zenon
<1>4. StackFits(x, surface, stack')
  <2>1. CASE stack' = <<>>
    <3>1. stack' \in Seq({}) /\ Len(stack') = 0
      BY <2>1
    <3>. QED
      BY <2>1, <3>1 DEF StackFits, IsStack
  <2>2. CASE stack' # <<>>
    <3>. DEFINE f == Call(x, -1, EdgeOfSurface(surface))
    <3>1. stack' = <<f>>
      BY <2>2 DEF BeginTrace
    <3>2. -1 \in -1..(x.c.n - 1)
      BY <1>1 DEF SectionsFit
    <3>3. FrameFits(x, f) /\ f.at = -1 /\ f.left = EdgeOfSurface(surface)
      BY <1>1, <3>2, CallFits
    <3>. HIDE DEF f
    <3>4. stack' \in Seq({f}) /\ Len(stack') = 1 /\ stack'[1] = f
      BY <3>1
    <3>. QED
      BY <3>3, <3>4 DEF StackFits, IsStack
  <2>. QED
    BY <2>1, <2>2
<1>5. FindsTrace(x, -1, EdgeOfSurface(surface), traced')
  <2>1. traced' = <<>> \/ (EdgeOfSurface(surface) = Nothing /\ traced' = <<TraceOf(<<>>)>>)
    BY DEF BeginTrace, Nothing
  <2>. QED
    BY <2>1, NothingIsTraced DEF FindsTrace
<1>. QED
  BY <1>2, <1>3, <1>4, <1>5 DEF SearchInv, AnswerFits, MemoFits, ResultFits

\* The innermost call's option is given up when no play begins with it.
LEMMA DropFits ==
  ASSUME NEW x, NEW surface, NEW q, StackFits(x, surface, q), q # <<>>, q[Len(q)].options # {},
         ~Adds(x, FirstOf(q[Len(q)]), q[Len(q)].left)
  PROVE  StackFits(x, surface, [q EXCEPT ![Len(q)].options = @ \ {FirstOf(q[Len(q)])}])
<1>. DEFINE f == q[Len(q)]
            g == [f EXCEPT !.options = f.options \ {FirstOf(f)}]
            p == [q EXCEPT ![Len(q)] = g]
<1>0. [q EXCEPT ![Len(q)].options = @ \ {FirstOf(q[Len(q)])}] = p
  OBVIOUS
<1>1. IsStack(q)
  BY DEF StackFits
<1>2. /\ Len(q) \in Nat \ {0} /\ IsStack(p) /\ Len(p) = Len(q)
      /\ \A i \in 1..(Len(q) - 1) : p[i] = q[i]
      /\ p[Len(q)] = g
  <2>. HIDE DEF g
  <2>. QED
    BY <1>1, ChangedStack
<1>. HIDE DEF p
<1>3. FrameFits(x, f)
  BY <1>2 DEF StackFits
<1>4. g.at = f.at /\ g.left = f.left /\ g.options = f.options \ {FirstOf(f)}
  OBVIOUS
<1>5. FrameFits(x, g)
  BY <1>3, <1>4 DEF FrameFits
<1>. DEFINE n == Len(q)
<1>6. n \in Nat \ {0} /\ p[n] = g /\ Len(p) = n /\ f = q[n] /\ IsStack(p) /\ \A i \in 1..(n - 1) : p[i] = q[i]
  BY <1>2
<1>7. /\ \A i \in 1..n : FrameFits(x, q[i])
      /\ \A i \in 1..(n - 1) : /\ q[i].options # {} /\ RestOf(q[i]) # Nothing
                               /\ q[i + 1].at = FirstOf(q[i]).end /\ q[i + 1].left = RestOf(q[i])
      /\ q[1].at = -1 /\ q[1].left = EdgeOfSurface(surface)
  BY DEF StackFits
<1>. HIDE DEF n, g, f
<1>8. \A i \in 1..n : i = n \/ i \in 1..(n - 1)
  BY <1>6
<1>9. \A i \in 1..n : p[i].at = q[i].at /\ p[i].left = q[i].left
  BY <1>4, <1>6, <1>8
<1>10. \A i \in 1..n : FrameFits(x, p[i])
  BY <1>5, <1>6, <1>7, <1>8
<1>11. \A i \in 1..(n - 1) : i + 1 \in 1..n /\ i \in 1..n
  BY <1>6
<1>12. ASSUME NEW i \in 1..(n - 1)
       PROVE  /\ p[i].options # {} /\ RestOf(p[i]) # Nothing
              /\ p[i + 1].at = FirstOf(p[i]).end /\ p[i + 1].left = RestOf(p[i])
  <2>1. p[i] = q[i] /\ p[i + 1].at = q[i + 1].at /\ p[i + 1].left = q[i + 1].left
    BY <1>6, <1>9, <1>11
  <2>. QED
    BY <1>7, <2>1
<1>13. 1 \in 1..n
  BY <1>6
<1>14. p[1].at = -1 /\ p[1].left = EdgeOfSurface(surface)
  BY <1>7, <1>9, <1>13
<1>. QED
  BY <1>0, <1>6, <1>10, <1>12, <1>14 DEF StackFits

\* Only the empty sequence has no member.
LEMMA EmptyIs ==
  ASSUME NEW S, NEW q \in Seq(S)
  PROVE  Len(q) = 0 <=> q = <<>>
OBVIOUS

\* The innermost call returns to the one around it.
LEMMA PopFits ==
  ASSUME NEW x, NEW surface, NEW q, StackFits(x, surface, q), q # <<>>
  PROVE  LET p == SubSeq(q, 1, Len(q) - 1) IN
         /\ StackFits(x, surface, p)
         /\ Len(q) = 1 => p = <<>> /\ q[Len(q)].at = -1 /\ q[Len(q)].left = EdgeOfSurface(surface)
         /\ Len(q) # 1 => /\ p # <<>> /\ p[Len(p)].options # {} /\ RestOf(p[Len(p)]) # Nothing
                          /\ q[Len(q)].at = FirstOf(p[Len(p)]).end /\ q[Len(q)].left = RestOf(p[Len(p)])
<1>. DEFINE n == Len(q)
            p == SubSeq(q, 1, n - 1)
<1>1. n \in Nat \ {0} /\ IsStack(p) /\ Len(p) = n - 1 /\ \A i \in 1..(n - 1) : p[i] = q[i]
  BY PoppedStack DEF StackFits
<1>2. p = <<>> <=> n = 1
  <2>1. PICK S : p \in Seq(S)
    BY <1>1 DEF IsStack
  <2>. HIDE DEF p
  <2>2. Len(p) = 0 <=> p = <<>>
    BY <2>1, EmptyIs
  <2>. HIDE DEF p
  <2>. QED
    BY <1>1, <2>2
<1>3. /\ \A i \in 1..n : FrameFits(x, q[i])
      /\ \A i \in 1..(n - 1) : /\ q[i].options # {} /\ RestOf(q[i]) # Nothing
                               /\ q[i + 1].at = FirstOf(q[i]).end /\ q[i + 1].left = RestOf(q[i])
      /\ q[1].at = -1 /\ q[1].left = EdgeOfSurface(surface)
  BY DEF StackFits
<1>. HIDE DEF p, n
<1>4. StackFits(x, surface, p)
  <2>1. \A i \in 1..Len(p) : FrameFits(x, p[i])
    BY <1>1, <1>3
  <2>2. ASSUME NEW i \in 1..(Len(p) - 1)
        PROVE  /\ p[i].options # {} /\ RestOf(p[i]) # Nothing
               /\ p[i + 1].at = FirstOf(p[i]).end /\ p[i + 1].left = RestOf(p[i])
    <3>1. i \in 1..(n - 1) /\ i + 1 \in 1..(n - 1)
      BY <1>1
    <3>. QED
      BY <1>1, <1>3, <3>1
  <2>3. p # <<>> => 1 \in 1..(n - 1)
    BY <1>1, <1>2
  <2>4. p # <<>> => p[1].at = -1 /\ p[1].left = EdgeOfSurface(surface)
    BY <1>1, <1>3, <2>3
  <2>. QED
    BY <1>1, <2>1, <2>2, <2>4 DEF StackFits
<1>5. n = 1 => p = <<>> /\ q[n].at = -1 /\ q[n].left = EdgeOfSurface(surface)
  BY <1>2, <1>3
<1>6. ASSUME n # 1
      PROVE  /\ p # <<>> /\ p[Len(p)].options # {} /\ RestOf(p[Len(p)]) # Nothing
             /\ q[n].at = FirstOf(p[Len(p)]).end /\ q[n].left = RestOf(p[Len(p)])
  <2>1. n - 1 \in 1..(n - 1) /\ (n - 1) + 1 = n
    BY <1>1, <1>6
  <2>2. p[Len(p)] = q[n - 1]
    BY <1>1, <2>1
  <2>3. /\ q[n - 1].options # {} /\ RestOf(q[n - 1]) # Nothing
        /\ q[n].at = FirstOf(q[n - 1]).end /\ q[n].left = RestOf(q[n - 1])
    BY <1>3, <2>1
  <2>. QED
    BY <1>2, <1>6, <2>2, <2>3
<1>. QED
  BY <1>4, <1>5, <1>6 DEF p, n

\* The innermost call goes on with what its option leaves.
LEMMA PushFits ==
  ASSUME NEW x, SectionsFit(x), NEW surface, NEW q, StackFits(x, surface, q), q # <<>>, q[Len(q)].options # {},
         RestOf(q[Len(q)]) # Nothing, ~CannotEnd(x, FirstOf(q[Len(q)]).end, RestOf(q[Len(q)]))
  PROVE  StackFits(x, surface, Append(q, Call(x, FirstOf(q[Len(q)]).end, RestOf(q[Len(q)]))))
<1>. DEFINE n == Len(q)
            f == q[n]
            g == Call(x, FirstOf(f).end, RestOf(f))
            p == Append(q, g)
<1>1. /\ IsStack(p) /\ n \in Nat /\ Len(p) = n + 1 /\ p[n + 1] = g /\ \A i \in 1..n : p[i] = q[i]
  <2>. HIDE DEF g
  <2>. QED
    BY PushedStack DEF StackFits
<1>2. n # 0
  <2>1. PICK S : q \in Seq(S)
    BY DEF StackFits, IsStack
  <2>. QED
    BY <2>1
<1>3. FrameFits(x, f) /\ n \in 1..n
  BY <1>1, <1>2 DEF StackFits
<1>4. FirstOf(f) \in TraceSections(x, f.at = -1, f.at)
  <2>1. FirstOf(f) \in f.options
    BY DEF FirstOf
  <2>. QED
    BY <1>3, <2>1 DEF FrameFits, FittingEdges
<1>5. FirstOf(f).end \in -1..(x.c.n - 1)
  <2>1. x.c.n \in Nat /\ f.at \in -1..(x.c.n - 1)
    BY <1>3 DEF SectionsFit, FrameFits
  <2>2. FirstOf(f).end \in (f.at + 1)..x.c.n
    BY <1>4, <2>1 DEF SectionsFit, SectionFits
  <2>3. ~(FirstOf(f).end >= x.c.n)
    BY DEF CannotEnd
  <2>. HIDE DEF f
  <2>. QED
    BY <2>1, <2>2, <2>3
<1>6. FrameFits(x, g) /\ g.at = FirstOf(f).end /\ g.left = RestOf(f)
  <2>. HIDE DEF f
  <2>. QED
    BY <1>5, CallFits
<1>7. /\ \A i \in 1..n : FrameFits(x, q[i])
      /\ \A i \in 1..(n - 1) : /\ q[i].options # {} /\ RestOf(q[i]) # Nothing
                               /\ q[i + 1].at = FirstOf(q[i]).end /\ q[i + 1].left = RestOf(q[i])
      /\ q[1].at = -1 /\ q[1].left = EdgeOfSurface(surface)
  BY DEF StackFits
<1>8. q[n] = f /\ f.options # {} /\ RestOf(f) # Nothing
  OBVIOUS
<1>. HIDE DEF p, g, f, n
<1>9. \A i \in 1..(n + 1) : FrameFits(x, p[i])
  <2>1. \A i \in 1..(n + 1) : i \in 1..n \/ i = n + 1
    BY <1>1
  <2>. QED
    BY <1>1, <1>6, <1>7, <2>1
<1>10. ASSUME NEW i \in 1..n
       PROVE  /\ p[i].options # {} /\ RestOf(p[i]) # Nothing
              /\ p[i + 1].at = FirstOf(p[i]).end /\ p[i + 1].left = RestOf(p[i])
  <2>1. CASE i = n
    BY <1>1, <1>6, <1>8, <2>1
  <2>2. CASE i # n
    <3>1. i \in 1..(n - 1) /\ i + 1 \in 1..n
      BY <1>1, <2>2
    <3>. QED
      BY <1>1, <1>7, <3>1
  <2>. QED
    BY <2>1, <2>2
<1>11. p[1].at = -1 /\ p[1].left = EdgeOfSurface(surface)
  <2>1. 1 \in 1..n
    BY <1>1, <1>2
  <2>. QED
    BY <1>1, <1>7, <2>1
<1>12. Len(p) - 1 = n
  BY <1>1
<1>13. StackFits(x, surface, p)
  BY <1>1, <1>9, <1>10, <1>11, <1>12 DEF StackFits
<1>. QED
  BY <1>13 DEF p, g, f, n

\* A play that begins with the option of a call goes on from its end, unless nothing is left.
LEMMA OptionLeaves ==
  ASSUME NEW x, SectionsFit(x), NEW f, FrameFits(x, f), f.options # {}, Adds(x, FirstOf(f), f.left), RestOf(f) # Nothing
  PROVE  ~CannotEnd(x, FirstOf(f).end, RestOf(f)) /\ CanFinish(x, FirstOf(f).end, RestOf(f))
<1>1. FirstOf(f) \in f.options
  BY DEF FirstOf
<1>2. f.at \in -1..(x.c.n - 1) /\ FirstOf(f) \in TraceSections(x, f.at = -1, f.at)
  BY <1>1 DEF FrameFits, FittingEdges
<1>. QED
  BY <1>2, AddsLeaves DEF RestOf

\* The names of the search for its innermost call.
LEMMA TopIs ==
  /\ Top = stack[Len(stack)] /\ Option = FirstOf(Top) /\ Left = RestOf(Top) /\ Popped = SubSeq(stack, 1, Len(stack) - 1)
  /\ Dropped = [stack EXCEPT ![Len(stack)].options = @ \ {FirstOf(Top)}]
BY DEF Top, Option, Left, Popped, Dropped, FirstOf, RestOf

\* The innermost call fits.
LEMMA TopFits ==
  ASSUME NEW x, NEW surface, NEW q, StackFits(x, surface, q), q # <<>>
  PROVE  FrameFits(x, q[Len(q)])
<1>1. PICK S : q \in Seq(S)
  BY DEF StackFits, IsStack
<1>2. Len(q) \in 1..Len(q)
  BY <1>1
<1>. QED
  BY <1>2 DEF StackFits

\* A trace is not the answer that there is none.
LEMMA AnswerKinds == \A sections : TraceOf(sections) # NoTrace /\ <<TraceOf(sections)>> # <<NoTrace>>
<1>. TAKE sections
<1>1. TraceOf(sections).found # NoTrace.found
  BY DEF TraceOf, NoTrace
<1>2. <<TraceOf(sections)>>[1] = TraceOf(sections) /\ <<NoTrace>>[1] = NoTrace
  OBVIOUS
<1>. QED
  BY <1>1, <1>2

\* An option is tried.
LEMMA TryFits ==
  ASSUME SearchInv, TryOption
  PROVE  SearchInv'
<1>1. stack # <<>> /\ answer = <<>> /\ Top.options # {} /\ problem' = problem /\ wanted' = wanted /\ memo' = memo /\ traced' = traced
  BY DEF TryOption
<1>2. /\ IsProblem(problem) /\ StackFits(problem, wanted, stack) /\ MemoFits(problem, memo)
      /\ ResultFits(problem, wanted, stack, traced) /\ problem # <<>>
  BY <1>1 DEF SearchInv
<1>3. SectionsFit(problem)
  BY <1>2, SectionsAreFit
<1>4. FrameFits(problem, Top) /\ Top = stack[Len(stack)] /\ Option = FirstOf(Top) /\ Left = RestOf(Top)
  BY <1>1, <1>2, TopFits, TopIs
<1>5. traced' = <<>> /\ ResultFits(problem, wanted, stack', traced')
  <2>1. traced = <<>>
    BY <1>1, <1>2 DEF ResultFits
  <2>. QED
    BY <1>1, <2>1 DEF ResultFits, FindsTrace
<1>. SUFFICES StackFits(problem, wanted, stack') /\ AnswerFits(problem, stack', answer')
  BY <1>1, <1>2, <1>5 DEF SearchInv
<1>6. CASE Left = Nothing
  <2>1. answer' = <<TraceOf(<<>>)>> /\ stack' = stack
    BY <1>6 DEF TryOption
  <2>2. AnswerFits(problem, stack, <<TraceOf(<<>>)>>)
    <3>1. FindsTrace(problem, FirstOf(Top).end, RestOf(Top), <<TraceOf(<<>>)>>)
      BY <1>4, <1>6, NothingIsTraced DEF FindsTrace
    <3>. QED
      BY <1>1, <1>4, <3>1, AnswerKinds DEF AnswerFits
  <2>. QED
    BY <1>2, <2>1, <2>2
<1>7. CASE Left # Nothing /\ (CannotEnd(problem, Option.end, Left) \/ <<Option.end, Left>> \in memo)
  <2>1. stack' = Dropped /\ answer' = <<>>
    BY <1>1, <1>7 DEF TryOption
  <2>2. ~Adds(problem, Option, Top.left)
    <3>1. ASSUME Adds(problem, Option, Top.left) PROVE FALSE
      <4>1. ~CannotEnd(problem, Option.end, Left) /\ CanFinish(problem, Option.end, Left)
        BY <1>1, <1>3, <1>4, <1>7, <3>1, OptionLeaves
      <4>2. <<Option.end, Left>> \in memo
        BY <1>7, <4>1
      <4>3. ~CanFinish(problem, Option.end, Left)
        BY <1>2, <4>2 DEF MemoFits
      <4>. QED
        BY <4>1, <4>3
    <3>. QED
      BY <3>1
  <2>3. StackFits(problem, wanted, Dropped)
    BY <1>1, <1>2, <1>4, <2>2, DropFits, TopIs
  <2>. QED
    BY <2>1, <2>3 DEF AnswerFits
<1>8. CASE Left # Nothing /\ ~(CannotEnd(problem, Option.end, Left) \/ <<Option.end, Left>> \in memo)
  <2>1. stack' = Append(stack, Call(problem, Option.end, Left)) /\ answer' = <<>>
    BY <1>1, <1>8 DEF TryOption
  <2>2. StackFits(problem, wanted, Append(stack, Call(problem, Option.end, Left)))
    BY <1>1, <1>2, <1>3, <1>4, <1>8, PushFits
  <2>. QED
    BY <2>1, <2>2 DEF AnswerFits
<1>. QED
  BY <1>6, <1>7, <1>8

\* A trace of the rest comes back to an option, or none does.
LEMMA StoreFits ==
  ASSUME SearchInv, StoreSection
  PROVE  SearchInv'
<1>1. stack # <<>> /\ answer # <<>> /\ problem' = problem /\ wanted' = wanted /\ memo' = memo
  BY DEF StoreSection
<1>2. /\ IsProblem(problem) /\ StackFits(problem, wanted, stack) /\ MemoFits(problem, memo) /\ AnswerFits(problem, stack, answer)
      /\ ResultFits(problem, wanted, stack, traced) /\ problem # <<>>
  BY <1>1 DEF SearchInv
<1>3. SectionsFit(problem)
  BY <1>2, SectionsAreFit
<1>4. FrameFits(problem, Top) /\ Top = stack[Len(stack)] /\ Option = FirstOf(Top) /\ Left = RestOf(Top)
      /\ Popped = SubSeq(stack, 1, Len(stack) - 1)
  BY <1>1, <1>2, TopFits, TopIs
<1>5. Top.options # {} /\ (answer = <<NoTrace>> => Left # Nothing /\ ~CanFinish(problem, Option.end, Left))
  BY <1>1, <1>2, <1>4 DEF AnswerFits
<1>6. traced = <<>>
  BY <1>1, <1>2 DEF ResultFits
<1>9. FindsTrace(problem, Option.end, Left, answer)
  BY <1>1, <1>2, <1>4 DEF AnswerFits
<1>. SUFFICES /\ StackFits(problem, wanted, stack') /\ AnswerFits(problem, stack', answer')
              /\ ResultFits(problem, wanted, stack', traced')
  BY <1>1, <1>2 DEF SearchInv
<1>7. CASE answer = <<NoTrace>> \/ ~Witnessed(problem, Option)
  <2>1. stack' = Dropped /\ answer' = <<>> /\ traced' = <<>>
    BY <1>6, <1>7 DEF StoreSection
  <2>2. ~Adds(problem, Option, Top.left)
    <3>1. CASE ~Witnessed(problem, Option)
      BY <3>1 DEF Adds
    <3>2. CASE answer = <<NoTrace>>
      BY <1>3, <1>4, <1>5, <3>2, OptionLeaves
    <3>. QED
      BY <1>7, <3>1, <3>2
  <2>3. StackFits(problem, wanted, Dropped)
    BY <1>1, <1>2, <1>4, <1>5, <2>2, DropFits, TopIs
  <2>. QED
    BY <2>1, <2>3 DEF AnswerFits, ResultFits, FindsTrace
<1>8. CASE ~(answer = <<NoTrace>> \/ ~Witnessed(problem, Option))
  <2>. DEFINE trace == TraceOf(<<Option>> \o answer[1].sections)
  <2>1. /\ stack' = Popped
        /\ IF Len(stack) = 1 THEN traced' = <<trace>> /\ answer' = <<>> ELSE answer' = <<trace>> /\ traced' = <<>>
    BY <1>6, <1>8 DEF StoreSection
  <2>2. /\ StackFits(problem, wanted, Popped)
        /\ Len(stack) = 1 => Popped = <<>> /\ Top.at = -1 /\ Top.left = EdgeOfSurface(wanted)
        /\ Len(stack) # 1 => /\ Popped # <<>> /\ Popped[Len(Popped)].options # {}
                             /\ Top.at = FirstOf(Popped[Len(Popped)]).end /\ Top.left = RestOf(Popped[Len(Popped)])
    BY <1>1, <1>2, <1>4, PopFits
  <2>3. <<trace>> # <<NoTrace>>
    BY AnswerKinds
  <2>4. FindsTrace(problem, Top.at, Top.left, <<trace>>)
    <3>1. PICK sections : answer = <<TraceOf(sections)>> /\ IsTrace(problem, Option.end, Left, sections)
      BY <1>1, <1>8, <1>9 DEF FindsTrace
    <3>2. answer[1].sections = sections
      BY <3>1 DEF TraceOf
    <3>3. Option \in FittingEdges(problem, Top.at, Top.left)
      BY <1>4, <1>5 DEF FrameFits, FirstOf
    <3>4. IsTrace(problem, Top.at, Top.left, <<Option>> \o sections)
      BY <1>4, <1>8, <3>1, <3>3, TraceBegins DEF RestOf
    <3>. QED
      BY <3>2, <3>4 DEF FindsTrace
  <2>. HIDE DEF trace
  <2>5. CASE Len(stack) = 1
    BY <2>1, <2>2, <2>3, <2>4, <2>5 DEF AnswerFits, ResultFits
  <2>6. CASE Len(stack) # 1
    <3>1. traced' = <<>> /\ answer' = <<trace>>
      BY <2>1, <2>6
    <3>2. FindsTrace(problem, FirstOf(Popped[Len(Popped)]).end, RestOf(Popped[Len(Popped)]), <<trace>>)
      BY <2>2, <2>4, <2>6
    <3>3. AnswerFits(problem, Popped, <<trace>>)
      BY <2>2, <2>3, <2>6, <3>2 DEF AnswerFits
    <3>4. ResultFits(problem, wanted, Popped, <<>>)
      BY DEF ResultFits, FindsTrace
    <3>. QED
      BY <2>1, <2>2, <3>1, <3>3, <3>4
  <2>. QED
    BY <2>5, <2>6
<1>. QED
  BY <1>7, <1>8

\* A call is out of options: none of its plays exists.
LEMMA ExhaustFits ==
  ASSUME SearchInv, Exhausted
  PROVE  SearchInv'
<1>1. /\ stack # <<>> /\ Top.options = {} /\ problem' = problem /\ wanted' = wanted
      /\ memo' = memo \cup {<<Top.at, Top.left>>} /\ stack' = Popped /\ answer = <<>>
  BY DEF Exhausted
<1>2. /\ IsProblem(problem) /\ StackFits(problem, wanted, stack) /\ MemoFits(problem, memo)
      /\ ResultFits(problem, wanted, stack, traced) /\ problem # <<>>
  BY <1>1 DEF SearchInv
<1>4. FrameFits(problem, Top) /\ Top = stack[Len(stack)] /\ Popped = SubSeq(stack, 1, Len(stack) - 1)
  BY <1>1, <1>2, TopFits, TopIs
<1>5. ~CanFinish(problem, Top.at, Top.left)
  BY <1>1, <1>4 DEF FrameFits, CanFinish
<1>6. traced = <<>>
  BY <1>1, <1>2 DEF ResultFits
<1>7. MemoFits(problem, memo')
  <2>1. \A m \in memo' : m \in memo \/ (m[1] = Top.at /\ m[2] = Top.left)
    BY <1>1
  <2>. QED
    BY <1>2, <1>5, <2>1 DEF MemoFits
<1>8. /\ StackFits(problem, wanted, Popped)
      /\ Len(stack) = 1 => Popped = <<>> /\ Top.at = -1 /\ Top.left = EdgeOfSurface(wanted)
      /\ Len(stack) # 1 => /\ Popped # <<>> /\ Popped[Len(Popped)].options # {} /\ RestOf(Popped[Len(Popped)]) # Nothing
                           /\ Top.at = FirstOf(Popped[Len(Popped)]).end /\ Top.left = RestOf(Popped[Len(Popped)])
  BY <1>1, <1>2, <1>4, PopFits
<1>9. CASE Len(stack) = 1
  <2>1. traced' = <<NoTrace>> /\ answer' = <<>>
    BY <1>1, <1>9 DEF Exhausted
  <2>2. AnswerFits(problem, stack', answer') /\ ResultFits(problem, wanted, stack', traced')
    BY <1>1, <1>5, <1>8, <1>9, <2>1 DEF AnswerFits, ResultFits, FindsTrace
  <2>. QED
    BY <1>1, <1>2, <1>7, <1>8, <2>2 DEF SearchInv
<1>10. CASE Len(stack) # 1
  <2>1. traced' = <<>> /\ answer' = <<NoTrace>>
    BY <1>1, <1>6, <1>10 DEF Exhausted
  <2>2. AnswerFits(problem, stack', answer') /\ ResultFits(problem, wanted, stack', traced')
    BY <1>1, <1>5, <1>8, <1>10, <2>1 DEF AnswerFits, ResultFits, FindsTrace
  <2>. QED
    BY <1>1, <1>2, <1>7, <1>8, <2>2 DEF SearchInv
<1>. QED
  BY <1>9, <1>10

\* A frontier belongs to a geometry of the song.
FoundInv == DOMAIN found \subseteq DOMAIN song.geoms
TracedInv == BuildInv /\ FoundInv /\ SearchInv

\* What a build is stays, when its song and its tables do.
LEMMA BuildKept ==
  ASSUME BuildInv, UNCHANGED buildVars
  PROVE  BuildInv'
BY DEF BuildInv, buildVars

\* A step of the build keeps its song and finds frontiers for its geometries only.
LEMMA FoundKept ==
  ASSUME BuildInv, FoundInv, [ProducerNext]_producerVars
  PROVE  BuildInv' /\ FoundInv'
<1>1. DOMAIN canon = DOMAIN song.geoms
  BY DEF BuildInv, Canonical
<1>2. UNCHANGED buildVars /\ (UNCHANGED found \/ FirstSection)
  BY DEF ProducerNext, producerVars, AdmitGroup, BuildTable, BeginGeometry, CollectThreads, BodyState, HeadState, FirstSection
<1>3. BuildInv' /\ song' = song
  BY <1>2, BuildKept DEF buildVars
<1>4. CASE UNCHANGED found
  BY <1>3, <1>4 DEF FoundInv
<1>5. CASE FirstSection
  <2>1. DOMAIN found' = DOMAIN found \cup {i \in DOMAIN canon : canon[i] = current}
    BY <1>5 DEF FirstSection
  <2>. QED
    BY <1>1, <1>3, <2>1 DEF FoundInv
<1>. QED
  BY <1>2, <1>3, <1>4, <1>5

\* A row of a finished frontier is one of a geometry of the song.
LEMMA ReconstructFits ==
  ASSUME BuildInv, FoundInv, ReconstructRow
  PROVE  SearchInv'
<1>1. PICK i \in DOMAIN found : \E row \in found[i] : BeginTrace(Context(chart, song.timed, song.geoms[i]), row)
  BY DEF ReconstructRow
<1>2. PICK row \in found[i] : BeginTrace(Context(chart, song.timed, song.geoms[i]), row)
  BY <1>1
<1>. DEFINE x == Context(chart, song.timed, song.geoms[i])
<1>3. IsProblem(x)
  BY DEF IsProblem, BuildInv, FoundInv
<1>4. x # <<>>
  <2>1. "c" \in DOMAIN x /\ "c" \notin DOMAIN <<>>
    BY DEF Context
  <2>. QED
    BY <2>1
<1>. HIDE DEF x
<1>5. BeginTrace(x, row)
  BY <1>2 DEF x
<1>. QED
  BY <1>3, <1>4, <1>5, BeginFits

\* The search stays what it is while the build goes on.
LEMMA SearchKept ==
  ASSUME SearchInv, UNCHANGED traceVars
  PROVE  SearchInv'
BY DEF SearchInv, traceVars

\* A search that found nothing began with a surface that no play from the start adds up to.
LEMMA InvariantTraces ==
  ASSUME SearchInv
  PROVE  SearchIsComplete
<1>. SUFFICES ASSUME traced = <<NoTrace>>, wanted \in WitnessedPlays(problem) PROVE FALSE
  BY DEF SearchIsComplete
<1>1. <<NoTrace>> # <<>>
  OBVIOUS
<1>2. IsProblem(problem) /\ ~CanFinish(problem, -1, EdgeOfSurface(wanted))
  BY <1>1 DEF SearchInv, ResultFits
<1>3. SectionsFit(problem)
  BY <1>2, SectionsAreFit
<1>4. -1 \in -1..problem.c.n
  BY <1>3 DEF SectionsFit
<1>. QED
  BY <1>2, <1>3, <1>4, PlaysBegin DEF WitnessedPlays

\* What is left after each section is one function only.
LEMMA LeftIsUnique ==
  ASSUME NEW surface, NEW S, NEW sections \in Seq(S), NEW rest, AreLeft(EdgeOfSurface(surface), sections, rest)
  PROVE  LeftAfter(surface, sections) = rest
<1>. DEFINE left == EdgeOfSurface(surface)
            n == Len(sections)
            after == LeftAfter(surface, sections)
<1>0. n \in Nat
  OBVIOUS
<1>1. after = CHOOSE f : AreLeft(left, sections, f)
  BY DEF LeftAfter, AreLeft
<1>2. AreLeft(left, sections, after)
  BY <1>1
<1>. HIDE DEF after, n, left
<1>3. \A f : AreLeft(left, sections, f) =>
        /\ f = [i \in 0..n |-> f[i]] /\ f[0] = left
        /\ \A i \in 1..n : f[i] = SubtractEdge(f[i - 1], EdgeOfSurface(sections[i].edge))
  <2>. TAKE f
  <2>. HAVE AreLeft(left, sections, f)
  <2>1. f = [i \in 0..n |-> IF i = 0 THEN left ELSE SubtractEdge(f[i - 1], EdgeOfSurface(sections[i].edge))]
    BY DEF AreLeft, n
  <2>2. 0 \in 0..n /\ \A i \in 1..n : i \in 0..n /\ i # 0
    BY <1>0
  <2>3. f[0] = left /\ \A i \in 1..n : f[i] = SubtractEdge(f[i - 1], EdgeOfSurface(sections[i].edge))
    BY <2>1, <2>2
  <2>4. f = [i \in 0..n |-> f[i]]
    BY <2>1
  <2>. QED
    BY <2>3, <2>4
<1>. DEFINE T == {i \in 0..n : after[i] = rest[i]}
<1>4. 0 \in T
  BY <1>0, <1>2, <1>3 DEF left
<1>5. \A i \in 1..n : i - 1 \in T => i \in T
  <2>. TAKE i \in 1..n
  <2>. HAVE i - 1 \in T
  <2>1. after[i - 1] = rest[i - 1] /\ i \in 0..n
    BY <1>0
  <2>. QED
    BY <1>2, <1>3, <2>1 DEF left
<1>6. 0..n \subseteq T
  <2>. HIDE DEF T
  <2>. QED
    BY ONLY <1>0, <1>4, <1>5, RangeInduction
<1>7. \A i \in 0..n : after[i] = rest[i]
  BY <1>6
<1>8. after = [i \in 0..n |-> after[i]] /\ rest = [i \in 0..n |-> rest[i]]
  BY <1>2, <1>3 DEF left
<1>9. [i \in 0..n |-> after[i]] = [i \in 0..n |-> rest[i]]
  BY <1>7
<1>. QED
  BY <1>8, <1>9 DEF after

\* A search that found a trace has one of its row.
LEMMA InvariantAddsUp ==
  ASSUME SearchInv
  PROVE  TracesAddUp
<1>. SUFFICES ASSUME traced # <<>>, traced # <<NoTrace>> PROVE TracesAddUp
  BY DEF TracesAddUp
<1>1. FindsTrace(problem, -1, EdgeOfSurface(wanted), traced)
  BY DEF SearchInv, ResultFits
<1>2. PICK sections : traced = <<TraceOf(sections)>> /\ IsTrace(problem, -1, EdgeOfSurface(wanted), sections)
  BY <1>1 DEF FindsTrace
<1>3. traced[1].sections = sections
  BY <1>2 DEF TraceOf
<1>4. PICK S : sections \in Seq(S)
  BY <1>2 DEF IsTrace
<1>5. PICK rest : AreLeft(EdgeOfSurface(wanted), sections, rest) /\ IsTraceWith(problem, -1, sections, rest)
  BY <1>2 DEF IsTrace
<1>6. LeftAfter(wanted, sections) = rest
  BY <1>4, <1>5, LeftIsUnique
<1>. QED
  BY <1>3, <1>5, <1>6 DEF TracesAddUp, IsTraceWith

\* The invariant of a build and the search of one of its rows.
LEMMA TracedInvariant == TracedSpec => []TracedInv
<1>1. TracedInit => TracedInv
  <2>1. ASSUME TracedInit PROVE TracedInv
    <3>1. BuildInv
      BY <2>1 DEF TracedInit, ProducerInit, BuildInv
    <3>2. FoundInv
      BY <2>1 DEF TracedInit, ProducerInit, FoundInv
    <3>3. SearchInv
      BY <2>1 DEF TracedInit, TraceInit, SearchInv
    <3>. QED
      BY <3>1, <3>2, <3>3 DEF TracedInv
  <2>. QED
    BY <2>1
<1>2. TracedInv /\ [TracedNext]_<<producerVars, traceVars>> => TracedInv'
  <2>. SUFFICES ASSUME TracedInv, [TracedNext]_<<producerVars, traceVars>> PROVE TracedInv'
    OBVIOUS
  <2>0. BuildInv /\ FoundInv /\ SearchInv
    BY DEF TracedInv
  <2>1. CASE [ProducerNext]_producerVars /\ UNCHANGED traceVars
    <3>1. BuildInv' /\ FoundInv'
      BY <2>0, <2>1, FoundKept
    <3>2. SearchInv'
      BY <2>0, <2>1, SearchKept
    <3>. QED
      BY <3>1, <3>2 DEF TracedInv
  <2>2. CASE ReconstructRow /\ UNCHANGED producerVars
    <3>1. BuildInv' /\ FoundInv'
      BY <2>0, <2>2, FoundKept
    <3>2. SearchInv'
      BY <2>0, <2>2, ReconstructFits
    <3>. QED
      BY <3>1, <3>2 DEF TracedInv
  <2>3. CASE TraceNext /\ UNCHANGED producerVars
    <3>1. BuildInv' /\ FoundInv'
      BY <2>0, <2>3, FoundKept
    <3>2. SearchInv'
      <4>1. TryOption \/ StoreSection \/ Exhausted
        BY <2>3 DEF TraceNext
      <4>. QED
        BY <2>0, <4>1, TryFits, StoreFits, ExhaustFits
    <3>. QED
      BY <3>1, <3>2 DEF TracedInv
  <2>. QED
    BY <2>1, <2>2, <2>3 DEF TracedNext
<1>. QED
  BY <1>1, <1>2, PTL DEF TracedSpec

(* The trace search gives a row of a finished frontier up only if no sections that a play can reach add up to it:   *)
(* neither the memo of failed calls, nor the test for head notes that are left behind, nor the options it drops     *)
(* lose a trace, for any songs, geometries and rows (trace/reconstruct.py _search).                                 *)
THEOREM NoTraceIsLost == TracedSpec => []SearchIsComplete
<1>1. TracedInv => SearchIsComplete
  BY InvariantTraces DEF TracedInv
<1>. QED
  BY <1>1, TracedInvariant, PTL

(* A trace that is found is a play of its row: sections that follow one another, each of which can be played, whose   *)
(* edges take the row away piece by piece until nothing is left, for any songs, geometries and rows                  *)
(* (trace/reconstruct.py _search).                                                                                  *)
THEOREM TracesArePlays == TracedSpec => []TracesAddUp
<1>1. TracedInv => TracesAddUp
  BY InvariantAddsUp DEF TracedInv
<1>. QED
  BY <1>1, TracedInvariant, PTL

(* The search of a row of a finished frontier is exact: it answers with a play of the row, and with no trace only if  *)
(* the row has none, for any songs, geometries and rows (trace/reconstruct.py _search).                             *)
THEOREM RowsAreTraced == TracedSpec => []SearchIsExact
<1>. QED
  BY NoTraceIsLost, TracesArePlays, PTL DEF SearchIsExact
=============================================================================
