----------------------------- MODULE FgSurfaces -----------------------------
(***************************************************************************)
(* Response surfaces: what a way of playing a song adds up to, and what it  *)
(* scores (score.py, and the edge and dominance kernels of                  *)
(* frontier/producer_kernels.py).                                           *)
(*                                                                         *)
(* A surface keeps the head notes apart, because each is worth its own      *)
(* combo: F is the set of those in fever and G of those judged Great.  Of   *)
(* the body it keeps three counts: b notes in fever, n Greats out of fever  *)
(* and q Greats in fever.  The two 64-bit mask words of the code are sets   *)
(* here, and body_great is n + q.                                           *)
(***************************************************************************)
EXTENDS Integers, FiniteSets, FiniteSetsExt

CONSTANTS HeadLen,      \* the notes of the combo ramp (HEAD_NOTES)
          Box        \* the ranges of the stat box: [E, B, C, F |-> <<low, high>>]
ASSUME HeadAssumption == HeadLen \in Nat \ {0}

HeadNotes == 0..(HeadLen - 1)
Zero == [F |-> {}, G |-> {}, b |-> 0, n |-> 0, q |-> 0]

Body(S) == Cardinality(S \ HeadNotes)

(***************************************************************************)
(* A section's edge when its fever ends at e: the notes from its base end   *)
(* on are early Greats.                                                     *)
(***************************************************************************)
EdgeAt(s, e) ==
    LET fever == s.act..(e - 1)
        greats == (s.gs..(s.ge - 1)) \cup (IF s.own THEN {s.act} ELSE {})
        early == s.base..(e - 1)
    IN  [F |-> fever \cap HeadNotes, G |-> (greats \cup early) \cap HeadNotes, b |-> Body(fever),
         n |-> Body(greats \ fever), q |-> Body(greats \cap fever) + Body(early)]

Join(s, t) == [F |-> s.F \cup t.F, G |-> s.G \cup t.G, b |-> s.b + t.b, n |-> s.n + t.n, q |-> s.q + t.q]

(***************************************************************************)
(* The score of a stat row: every note's value is rounded down by itself.   *)
(* Multipliers are counted in tenths.                                       *)
(***************************************************************************)
GreatPoints == 150
Factors(primary, secondary, perfectPoints, combo, fever) ==
    [base |-> 2 * primary + secondary + perfectPoints,
     great |-> (4 * primary) \div 3 + (2 * secondary) \div 3 + GreatPoints,
     combo |-> combo, fever |-> fever]

\* The combo multiplier of a head note, in (10 * HeadLen)ths.
Ramp(combo, note) == 10 * HeadLen + (combo - 10) * (note + 1)
Loss(perfect, great) == IF perfect > great THEN perfect - great ELSE 0

FgScore(f, s, total) ==
    LET body == IF total > HeadLen THEN total - HeadLen ELSE 0
        Combo(base) == (base * f.combo) \div 10
        Fever(base) == (base * f.combo * f.fever) \div 100
        HeadValue(base, note) ==
            IF note \in s.F THEN (base * Ramp(f.combo, note) * f.fever) \div (100 * HeadLen)
                            ELSE (base * Ramp(f.combo, note)) \div (10 * HeadLen)
        Value(note) ==
            LET perfect == HeadValue(f.base, note) IN
            perfect - IF note \in s.G THEN Loss(perfect, HeadValue(f.great, note)) ELSE 0
    IN  s.b * Fever(f.base) + (body - s.b) * Combo(f.base)
        - s.n * Loss(Combo(f.base), Combo(f.great)) - s.q * Loss(Fever(f.base), Fever(f.great))
        + MapThenSumSet(Value, {i \in HeadNotes : i < total})

BestScore(f, S, total) == Max({FgScore(f, s, total) : s \in S})

(***************************************************************************)
(* Dominance over the whole stat box.  Before rounding a score is           *)
(* multilinear in E = 2 primary + secondary, the Perfect Points bonus, the  *)
(* combo and the fever multiplier, so one surface beats another everywhere  *)
(* if it does at the 16 corners by what the rounding can move.              *)
(***************************************************************************)
LowHigh(r) == {r[1], r[2]}
Corners == LowHigh(Box.E) \X LowHigh(Box.B) \X LowHigh(Box.C) \X LowHigh(Box.F)

\* The score at a corner, less what every surface scores there, in (300 * HeadLen)ths.
CornerScore(s, at) ==
    LET v == 3 * (at[1] + at[2])
        gv == 2 * at[1] + 3 * GreatPoints - v
        combo == at[3]
        fever == at[4] - 10
        Ramps(S) == MapThenSumSet(LAMBDA i : Ramp(combo, i), S)
    IN  gv * 10 * Ramps(s.G) + v * fever * Ramps(s.F) + gv * fever * Ramps(s.F \cap s.G)
        + HeadLen * combo * (s.b * v * fever + s.n * gv * 10 + s.q * gv * at[4])

CornerScores(s) == [at \in Corners |-> CornerScore(s, at)]

Distance(x, y) == IF x > y THEN x - y ELSE y - x
SymmDiff(S, T) == (S \ T) \cup (T \ S)

BodyFloorWeight == 2
GreatFloorWeight == 30
FloorMargin(s, t) ==
    LET greats == Distance(s.n, t.n) + Distance(s.q, t.q) IN
    Cardinality(SymmDiff(s.F, t.F) \cup SymmDiff(s.G, t.G))
    + BodyFloorWeight * (Distance(s.b, t.b) + greats)
    + GreatFloorWeight * (Cardinality(SymmDiff(s.G, t.G)) + greats)

\* The surfaces no other one dominates on the box.
ConeKept(S) ==
    LET corner == [s \in S |-> CornerScores(s)]
        Dominates(s, t) ==
            LET margin == 300 * HeadLen * FloorMargin(s, t) IN
            \A at \in Corners : corner[s][at] - corner[t][at] >= margin
    IN  {t \in S : \A s \in S : s # t => ~Dominates(s, t)}

(***************************************************************************)
(* The exact reductions.                                                    *)
(***************************************************************************)
\* The surfaces of one head pattern that no other one of it is at least as good as.
Covers(s, t) == s.b >= t.b /\ s.n <= t.n /\ s.q <= t.q
Skyline(S) == {t \in S : \A s \in S : s # t => ~Covers(s, t)}

\* Per number of Greats out of fever, the upper hull of (b, -q): the score is linear in the counts.
Hull(S) ==
    LET Under(p, l, r) ==
            /\ l.n = p.n /\ r.n = p.n /\ l.b < p.b /\ p.b < r.b
            /\ (p.b - l.b) * (l.q - r.q) >= (l.q - p.q) * (r.b - l.b)
    IN  {p \in S : \A l, r \in S : ~Under(p, l, r)}

SkylineHull(S) == Hull(Skyline(S))

\* A pattern can stand for another: the same Greats in fever, no fewer notes in fever, no more Greats.
PatternCovers(s, t) == s.F \cap s.G = t.F \cap t.G /\ t.F \subseteq s.F /\ s.G \subseteq t.G

\* One head pattern's points, then all patterns on the box, then structural dominance.
PatternsOf(S) == {[F |-> s.F, G |-> s.G] : s \in S}
PointsFrontier(S) ==
    LET Of(p) == {s \in S : s.F = p.F /\ s.G = p.G}
        kept == ConeKept(UNION {SkylineHull(Of(p)) : p \in PatternsOf(S)})
    IN  {t \in kept : \A s \in kept : s # t => ~(Covers(s, t) /\ PatternCovers(s, t))}
=============================================================================
