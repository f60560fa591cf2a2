---------------------------- MODULE GemAllocation ----------------------------
(***************************************************************************)
(* Gems: what an allocation of a loadout's gem budget scores on a surface,  *)
(* and what bounds it (solver/gem_search.py, solver/ftff_combos.py).  The   *)
(* search of the Force Greats scores on the processor and the search of the *)
(* genetic algorithm on the GPU (gpu/scoring.py) are built from these.      *)
(*                                                                         *)
(* Multipliers are counted in tenths, ramps in HeadLenths.                  *)
(***************************************************************************)
EXTENDS FillCrossing, FgSurfaces

CONSTANTS GemBudget, MaxStat,
          Curves           \* [pp, cm, fm |-> the game's stat curves, 0..MaxStat -> Nat]

NormalGain == 2
FeverGain == 3
StatElementGain == 3
ElementGain == 6
DivUp(x, y) == -((-x) \div y)
StatOf(v) == Most(0, Least(v, MaxStat))
MaxGems(curve) == Cardinality(DOMAIN curve) - 1

(***************************************************************************)
(* What gems add to the colors, as <<primary, secondary>>, and to the       *)
(* Perfect base.                                                            *)
(***************************************************************************)
ColorGain(song, element, gain) ==
    <<IF song.primary = element THEN gain ELSE 0, IF song.secondary = element THEN gain ELSE 0>>
Worth(colors) == 2 * colors[1] + colors[2]
GemColors(song) ==
    [pp |-> ColorGain(song, "Chill", StatElementGain), cm |-> ColorGain(song, "Flow", StatElementGain),
     fm |-> ColorGain(song, "Rush", StatElementGain), ft |-> ColorGain(song, "Beat", StatElementGain),
     ff |-> ColorGain(song, "Vibe", StatElementGain), ov |-> ColorGain(song, song.primary, ElementGain)]

(***************************************************************************)
(* The splits of the budget between Fever Time, Fever Fill and the rest.    *)
(***************************************************************************)
Splits ==
    FlattenSeq([ft \in 1..(GemBudget + 1) |-> [ff \in 1..(GemBudget + 2 - ft) |-> <<ft - 1, ff - 1>>]])
SplitWith(w, ft, ff) ==
    LET gain == [c \in {1, 2} |-> ft * w.ft[c] + ff * w.ff[c]]
        residual == GemBudget - ft - ff
    IN  [ft |-> ft, ff |-> ff, residual |-> residual, gain |-> gain, value |-> Worth(gain) + residual * Worth(w.ov)]
SplitsOf(w) == [i \in DOMAIN Splits |-> SplitWith(w, Splits[i][1], Splits[i][2])]
FrontierAtStats(song, key, split) ==
    song.frontierOf[<<StatOf(key[1] + FeverGain * split.ft), StatOf(key[2] + FeverGain * split.ff)>>]

(***************************************************************************)
(* Shapes: base value x shape value at least every score of a surface, with *)
(* each note's value not rounded.                                           *)
(***************************************************************************)
BodyTotal(song) == Most(0, song.total - HeadLen)
HeadRamps(S) == MapThenSumSet(LAMBDA i : i + 1, S)
Shape(song, s) ==
    LET normal == {i \in HeadNotes : i < song.total} \ s.F IN
    [a |-> HeadLen * s.b + HeadRamps(s.F), e |-> HeadLen * (BodyTotal(song) - s.b) + HeadRamps(normal),
     f |-> HeadLen * Cardinality(s.F) - HeadRamps(s.F), g |-> HeadLen * Cardinality(normal) - HeadRamps(normal)]
ShapeValue(x, combo, fever) == combo * (x.a * fever + 10 * x.e) + 10 * x.f * fever + 100 * x.g

\* Whether a bound, with its margin, reaches a score.
Reaches(bound, margin, score) == bound + 100 * HeadLen * margin >= 100 * HeadLen * score

(***************************************************************************)
(* The curves of a stat line <<PP, CM, FM>> by the gems spent on each.      *)
(***************************************************************************)
GemCurve(ref, stat, gain, allowed) ==
    LET gems == IF allowed THEN Least(GemBudget, Most(0, DivUp(MaxStat - stat, gain))) ELSE 0 IN
    [k \in 0..gems |-> ref[StatOf(stat + k * gain)]]

CurvesOf(w, pp, cm, fm) ==
    [pp |-> pp, cm |-> cm, fm |-> fm,
     \* the most Perfect Points gems add to the base, at most k of them, in place of element gems
     most |-> [k \in DOMAIN pp |-> Max({g * (Worth(w.pp) - Worth(w.ov)) + pp[g] : g \in 0..k})]]
LineCurves(w, line) ==
    CurvesOf(w, GemCurve(Curves.pp, line[1], NormalGain, w.pp # <<0, 0>>), GemCurve(Curves.cm, line[2], NormalGain, TRUE),
             GemCurve(Curves.fm, line[3], FeverGain, TRUE))
MostAdded(c, gems) == c.most[Least(MaxGems(c.pp), gems)]

\* The score of an allocation <<CM, FM, PP>>: the gems left go to the element.
ColorsOf(x, gems) ==
    [c \in {1, 2} |-> x.colors[c] + gems[1] * x.w.cm[c] + gems[2] * x.w.fm[c] + gems[3] * x.w.pp[c]
                      + (x.residual - gems[1] - gems[2] - gems[3]) * x.w.ov[c]]
FactorsAt(song, colors, perfectPoints, combo, fever) ==
    LET two == Factors(colors[1], colors[2], perfectPoints, combo, fever) IN
    IF song.primary = song.secondary THEN [two EXCEPT !.great = 2 * colors[1] + GreatPoints] ELSE two
AllocationScore(song, x, s, gems) ==
    FgScore(FactorsAt(song, ColorsOf(x, gems), x.c.pp[gems[3]], x.c.cm[gems[1]], x.c.fm[gems[2]]), s, song.total)

Before(g, h) ==
    \/ g[1] < h[1]
    \/ (g[1] = h[1] /\ g[2] < h[2])
    \/ (g[1] = h[1] /\ g[2] = h[2] /\ g[3] < h[3])
Improves(score, gems, best) == score > best.score \/ (score = best.score /\ Before(gems, best.gems))

(***************************************************************************)
(* Reference: every split, surface and allocation of the gems, also past    *)
(* the caps of the stats.                                                   *)
(***************************************************************************)
Allocations(gems) == {a \in (0..gems) \X (0..gems) \X (0..gems) : a[1] + a[2] + a[3] <= gems}
Uncapped(w, stats, split) ==
    [w |-> w, residual |-> split.residual, colors |-> <<stats[4] + split.gain[1], stats[5] + split.gain[2]>>,
     c |-> [pp |-> [k \in 0..GemBudget |-> Curves.pp[StatOf(stats[1] + k * NormalGain)]],
            cm |-> [k \in 0..GemBudget |-> Curves.cm[StatOf(stats[2] + k * NormalGain)]],
            fm |-> [k \in 0..GemBudget |-> Curves.fm[StatOf(stats[3] + k * FeverGain)]]]]
BestOfSplit(song, stats, split) ==
    LET x == Uncapped(GemColors(song), stats, split)
        frontier == song.frontiers[FrontierAtStats(song, <<stats[6], stats[7]>>, split)]
    IN  Max({AllocationScore(song, x, frontier[i], gems) : i \in DOMAIN frontier, gems \in Allocations(split.residual)})
BestPlay(song, stats) == Max({BestOfSplit(song, stats, s) : s \in ToSet(SplitsOf(GemColors(song)))})
=============================================================================
