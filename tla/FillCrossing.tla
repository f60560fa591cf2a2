---------------------------- MODULE FillCrossing ----------------------------
(***************************************************************************)
(* Where the fever bar fills: the closed forms of frontier/fill_crossing.py *)
(* and of the kernels in frontier/producer_kernels.py, and the action table *)
(* built from them (frontier/producer_batch.py).                            *)
(*                                                                         *)
(* Fill is counted in half Perfects: a Perfect adds 2, a Great adds 1, and  *)
(* the bar is full at d (fever_fill_thresholds rounds every denominator to  *)
(* a whole number of halves, so nothing is lost).  Notes are 0 .. n-1 and   *)
(* -1 says that there is none, as in the code.                              *)
(***************************************************************************)
EXTENDS Integers, Sequences, FiniteSets, SequencesExt, FiniteSetsExt

None == -1

Least(a, b) == IF a <= b THEN a ELSE b
Most(a, b) == IF a >= b THEN a ELSE b

Upward(first, last) == [i \in 1..(last - first + 1) |-> first + i - 1]

LeastOf(S) == IF S = {} THEN None ELSE Min(S)

\* The i-th member of a set of numbers, from the least.
Nth(S, i) == CHOOSE x \in S : Cardinality({y \in S : y < x}) = i - 1

\* ceil(x / 2) for an integer number of halves.
WholeNotes(x) == (x + 1) \div 2

NoCrossing == [note |-> None, great |-> FALSE]
CrossingAt(i, great, n) == IF i < n THEN [note |-> i, great |-> great] ELSE NoCrossing

(***************************************************************************)
(* Perfects from `start` on, but for a run of k Greats from `runStart`: the *)
(* bar fills on a Perfect before the run, on a Great of it or on a Perfect  *)
(* after it.                                                                *)
(***************************************************************************)
FillCrossingRun(start, runStart, k, d, n) ==
    LET lo == Most(runStart, start)
        hi == Least(runStart + k, n)
        halves == d - 2 * (lo - start)
        before == start + WholeNotes(d) - 1
        inside == lo - 1 + halves
        after == hi - 1 + WholeNotes(halves - (hi - lo))
    IN  IF hi <= lo \/ before < lo THEN CrossingAt(before, FALSE, n)
        ELSE IF inside < hi THEN CrossingAt(Most(inside, lo), TRUE, n)
        ELSE CrossingAt(after, FALSE, n)

(* A later section's first note ended the last fever and does not fill. *)
Wasted(first) == IF first THEN 0 ELSE 1

PerfectFillCrossingOffset(d, k, first) == Most(0, WholeNotes(d + k) - (1 - Wasted(first)))

(* k Greats from the section's first filling note, and a Perfect that crosses after them. *)
PerfectCrossingIsRegion3(fill, k, first, d) ==
    LET slots == fill - Wasted(first) IN
    k <= 0 \/ (k <= slots /\ 2 * slots - k < d)

LateGreatPrefixIsLegal(fill, prefix, d, first) ==
    LET perfects == fill - Wasted(first) - prefix
        bar == prefix + 2 * perfects
    IN  perfects >= 0 /\ bar < d /\ bar + 1 >= d

LateGreatActivationPrefix(fill, k, first, d) ==
    LET prefix == Least(Most(0, k - 1), Most(0, fill - Wasted(first))) IN
    IF k > 0 /\ LateGreatPrefixIsLegal(fill, prefix, d, first) THEN prefix ELSE None

(* The one place in the section where a run of `count` Greats ends on the note that fills the bar. *)
Region2OffsetForCount(start, count, d, n) ==
    LET lo == WholeNotes(d - count)
        hi == WholeNotes(d - (count - 1)) - 1
    IN  IF /\ count > 0 /\ start < n /\ d <= 2 * n
           /\ lo >= 1 /\ lo = hi
           /\ start + lo + count - 1 < n
        THEN lo ELSE None

(* How many of the actions can have such a place: those with k <= ceil(2 D). *)
Region2KScanStop(actionCount, d) == IF actionCount <= 0 THEN 0 ELSE Least(actionCount, Most(1, d + 1))

(***************************************************************************)
(* Runs of Greats are planned in a section by its number k of forced        *)
(* Greats.  Without Greats only the first action of each fill is kept.      *)
(***************************************************************************)
ActionTable(d, base, forcedTiming) ==
    LET Fill(k) == PerfectFillCrossingOffset(d, k, FALSE)
        First(k) == PerfectFillCrossingOffset(d, k, TRUE)
        kept == {k \in 0..Most(0, base) : forcedTiming \/ k = 0 \/ Fill(k) # Fill(k - 1)}
    IN  [i \in 1..Cardinality(kept) |->
            LET k == Nth(kept, i) IN
            [k |-> k, later |-> Fill(k), first |-> First(k),
             laterForced |-> Least(k, Fill(k)), firstForced |-> Least(k, First(k))]]

(***************************************************************************)
(* One row per pair of fills.  Its Perfect activation is that of the first  *)
(* action with these fills, when the bar crosses after the forced run; its  *)
(* late-Great activation takes the shortest legal prefix of the actions     *)
(* that repeat the fill of the action before them.                          *)
(***************************************************************************)
CompactActions(actions, d) ==
    LET Key(i) == <<actions[i].later, actions[i].first>>
        Firsts == {i \in DOMAIN actions : \A j \in 1..(i - 1) : Key(j) # Key(i)}
        LatePrefixes(i, fill, first) ==
            {LateGreatActivationPrefix(fill, actions[j].k, first, d) :
                j \in {j \in DOMAIN actions : /\ j > 1 /\ Key(j) = Key(i)
                                              /\ IF first THEN actions[j - 1].first = fill
                                                          ELSE actions[j - 1].later = fill}} \ {None}
        Row(i) ==
            LET a == actions[i] IN
            [k |-> a.k, later |-> a.later, first |-> a.first,
             laterForced |-> IF PerfectCrossingIsRegion3(a.later, a.k, FALSE, d) THEN a.laterForced ELSE None,
             firstForced |-> IF PerfectCrossingIsRegion3(a.first, a.k, TRUE, d) THEN a.firstForced ELSE None,
             laterLate |-> LeastOf(LatePrefixes(i, a.later, FALSE)),
             firstLate |-> LeastOf(LatePrefixes(i, a.first, TRUE))]
    IN  [r \in 1..Cardinality(Firsts) |-> Row(Nth(Firsts, r))]
=============================================================================
