---------------------------- MODULE FeverSections ----------------------------
(***************************************************************************)
(* The fever sections of a chart: when each note can be hit, which note can *)
(* start a fever and at which notes that fever can end                      *)
(* (solver/timing_envelope.py, frontier/producer_kernels.py,                *)
(* frontier/producer_precompute.py), and the trace search's own enumeration *)
(* of the same sections (trace/section_kernels.py).                         *)
(*                                                                         *)
(* A chart is a record: n notes 0 .. n-1, and per note its chart time ts,   *)
(* its lane, whether it is a held tail, its latest Perfect pc and late      *)
(* Great gc, the prefix maxima pf and gf of the earliest Perfects and       *)
(* Greats, its earliest late Great lf, and the suffix minimum ec of the     *)
(* latest Perfects; early and open are its own earliest Great and Perfect,  *)
(* before the maxima.  Times are integers: MS units are a millisecond and   *)
(* eps units the margin of 1e-6 s by which an activation stays before a     *)
(* note that is hit after it (0 late in a song, where a float32 second      *)
(* cannot hold it).                                                         *)
(***************************************************************************)
EXTENDS FillCrossing, FgSurfaces

MS == 4
NoHit == -1

(***************************************************************************)
(* The hit windows of a tap (scale 1) and of a held tail (scale 2), in ms.  *)
(* A band's early edge is exclusive; no Great later than the note's removal *)
(* is planned.                                                              *)
(***************************************************************************)
NoteRemoveLateCap == 200
Bands(scale) ==
    LET early == -20 * scale
        late == 40 * scale
    IN  [earlyPerfect |-> early + 1, latePerfect |-> late,
         earlyGreat |-> early - 75 * scale + 1,
         lateGreat |-> Least(late + 150 * scale, NoteRemoveLateCap)]

\* A note is [at |-> ms, tail |-> BOOLEAN, lane |-> lane]; notes are in chart order.
PreciseChart(notes, eps) ==
    LET n == Len(notes)
        at(i) == notes[i + 1].at
        band(i) == Bands(IF notes[i + 1].tail THEN 2 ELSE 1)
        pc(i) == MS * (at(i) + band(i).latePerfect)
    IN  [n |-> n, eps |-> eps,
         ts |-> [i \in 0..(n - 1) |-> MS * at(i)],
         lane |-> [i \in 0..(n - 1) |-> notes[i + 1].lane],
         tail |-> [i \in 0..(n - 1) |-> notes[i + 1].tail],
         pc |-> [i \in 0..(n - 1) |-> pc(i)],
         gc |-> [i \in 0..(n - 1) |-> MS * (at(i) + band(i).lateGreat)],
         pf |-> [i \in 0..(n - 1) |-> MS * Max({at(j) + band(j).earlyPerfect : j \in 0..i})],
         gf |-> [i \in 0..(n - 1) |-> MS * Max({at(j) + band(j).earlyGreat : j \in 0..i})],
         early |-> [i \in 0..(n - 1) |-> MS * (at(i) + band(i).earlyGreat)],
         open |-> [i \in 0..(n - 1) |-> MS * (at(i) + band(i).earlyPerfect)],
         lf |-> [i \in 0..(n - 1) |-> pc(i) + MS],
         ec |-> [i \in 0..(n - 1) |-> Min({pc(j) : j \in i..(n - 1)})]]

\* Every hit at its note's time.
FixedChart(notes) ==
    LET c == PreciseChart(notes, 0) IN
    [c EXCEPT !.pc = c.ts, !.gc = c.ts, !.pf = c.ts, !.gf = c.ts, !.early = c.ts, !.open = c.ts,
              !.lf = [i \in DOMAIN c.ts |-> c.ts[i] + MS], !.ec = c.ts]

\* The first note of a monotone envelope at or past a time.
LowerBound(f, value) == Cardinality({i \in DOMAIN f : f[i] < value})

ClampedEnd(n, activation, end) == Least(Most(end, activation + 1), n)
FeverEnd(c, floor, activation, hit, rt) == ClampedEnd(c.n, activation, LowerBound(floor, hit + rt))

(***************************************************************************)
(* The latest hit of activation a in [lo, hi] that stays before every later *)
(* note of the section: a note whose chart time is before the hit is itself *)
(* hit by its own latest, a Great's if it is in the run [gs, ge).           *)
(***************************************************************************)
InRun(j, gs, ge) == gs <= j /\ j < ge
LatestOf(c, j, great) == IF great THEN c.gc[j] ELSE c.pc[j]
EarliestOf(c, j, great) == IF great THEN c.gf[j] ELSE c.pf[j]

LatestHit(c, a, lo, hi, gs, ge) ==
    LET Cap(cap, j) ==
            LET capped == LatestOf(c, j, InRun(j, gs, ge)) - c.eps IN
            IF c.ts[j] < cap /\ capped < cap THEN capped ELSE cap
        cap[j \in a..(c.n - 1)] == IF j = a THEN hi ELSE Cap(cap[j - 1], j)
        hit == cap[c.n - 1]
    IN  IF hi < lo \/ hit < lo THEN NoHit ELSE hit

PerfectHit(c, a, gs, ge) == LatestHit(c, a, Least(c.ts[a], c.pc[a]), Most(c.ts[a], c.pc[a]), gs, ge)
LateGreatHit(c, a, gs, ge) == LatestHit(c, a, c.lf[a], c.gc[a], gs, ge)

(***************************************************************************)
(* Whether the input engine can hit a exactly when the bar fills on it.     *)
(* The section [start, n) is played in lane order; `greats` are its Greats.*)
(***************************************************************************)
GreatsOf(S, greats) == Cardinality(S \cap greats)

\* The notes of a lane that can be hit before h: a prefix, of a length within bounds.
LanePrefixes(c, a, h, start, lane, greats) ==
    LET notes == SetToSortSeq({j \in start..(c.n - 1) : c.lane[j] = lane}, <)
        Prefix(k) == {notes[i] : i \in 1..k}
        must == Max({0} \cup {k \in DOMAIN notes : LatestOf(c, notes[k], notes[k] \in greats) < h})
        may == Min({Len(notes)} \cup {k - 1 : k \in {k \in DOMAIN notes : EarliestOf(c, notes[k], notes[k] \in greats) > h}})
        heads == {j \in ToSet(notes) : j < HeadLen}
    IN  {Prefix(k) : k \in {k \in must..may :
            /\ a \in ToSet(notes) => Prefix(k) = {j \in ToSet(notes) : j < a}
            /\ Prefix(k) \cap heads = {j \in heads : j < a}}}

\* Some choice of lane prefixes has the section's count of notes and of Greats before a.
LanePrefixReachable(c, a, h, start, greats) ==
    LET target == <<a - start, GreatsOf(start..(a - 1), greats)>>
        Merge(sums, lane) ==
            {<<s[1] + Cardinality(P), s[2] + GreatsOf(P, greats)>> :
                s \in sums, P \in LanePrefixes(c, a, h, start, lane, greats)}
        lanes == SetToSeq({c.lane[j] : j \in start..(c.n - 1)})
    IN  target \in FoldLeft(Merge, {<<0, 0>>}, lanes)

ActivationReachable(c, a, h, d, start, gs, count, ownGreat) ==
    LET g0 == Most(gs, start)
        g1 == Most(g0, Least(gs + count, c.n))
        greats == {j \in start..(c.n - 1) : InRun(j, g0, g1) \/ (j = a /\ ownGreat)}
        before == 2 * (a - start) - GreatsOf(start..(a - 1), greats)
        ChartPrefixLegal ==
            /\ \A j \in start..(a - 1) : EarliestOf(c, j, j \in greats) <= h
            /\ \A j \in (a + 1)..(c.n - 1) : c.ts[j] < h => LatestOf(c, j, j \in greats) >= h
    IN  /\ start <= a /\ a < c.n /\ d <= 2 * (c.n - start)
        /\ EarliestOf(c, a, a \in greats) <= h /\ h <= LatestOf(c, a, a \in greats)
        /\ before < d /\ d <= before + (IF a \in greats THEN 1 ELSE 2)
        /\ ChartPrefixLegal \/ LanePrefixReachable(c, a, h, start, greats)

(***************************************************************************)
(* One fever time's ends of every activation: its latest Perfect and late-  *)
(* Great hits (NoHit when there is none), the ends these reach on the       *)
(* Perfect floor and on the early-Great floor, and the earliest ends a      *)
(* Perfect and a late-Great activation can exit at.  A fill below           *)
(* `minExitFill` plans no early exit.                                       *)
(***************************************************************************)
EarlyExitMinFill(c) ==
    LET margin == 36 * MS       \* two frames of 1000/60 + 1 ms, rounded up
        Separated(fill) == \A i \in fill..(c.n - 1) : c.pf[i] >= c.ec[i - fill] + margin
    IN  Min({c.n} \cup {fill \in 1..c.n : Separated(fill)})

Ends(c, d, rt) ==
    LET notes == DOMAIN c.ts
        perfect == [a \in notes |-> PerfectHit(c, a, a, a)]
        late == [a \in notes |-> LateGreatHit(c, a, a, a + 1)]
        exits == Most(1, WholeNotes(d)) >= EarlyExitMinFill(c)
        Exit(a, from) == IF exits THEN FeverEnd(c, c.ec, a, from, rt) ELSE c.n
    IN  [perfectHit |-> perfect, lateHit |-> late,
         perfectEnd |-> [a \in notes |-> FeverEnd(c, c.pf, a, perfect[a], rt)],
         lateEnd |-> [a \in notes |-> FeverEnd(c, c.pf, a, late[a], rt)],
         perfectGreatEnd |-> [a \in notes |-> FeverEnd(c, c.gf, a, perfect[a], rt)],
         lateGreatEnd |-> [a \in notes |-> FeverEnd(c, c.gf, a, late[a], rt)],
         perfectExit |-> [a \in notes |-> Exit(a, c.pf[a])],
         lateExit |-> [a \in notes |-> Exit(a, c.lf[a])]]

\* A late-Great activation is worth its Great if its fever ends later, on either floor.
LateEdgeExtends(edgeEnd, end, greatEnd, edgeGreatEnd) ==
    end >= 0 /\ (end > edgeEnd \/ greatEnd > edgeGreatEnd)

(***************************************************************************)
(* A section: its activation, the Greats [gs, ge) it forces, whether the    *)
(* activation is itself a Great, and its ends: exit .. base, and base + 1   *)
(* .. great with the notes from base on hit as early Greats.                *)
(***************************************************************************)
Section(a, base, exit, great, gs, ge, own) ==
    [act |-> a, base |-> base, exit |-> Least(exit, base), great |-> great, gs |-> gs, ge |-> ge, own |-> own]

SectionStart(first, state) == IF first THEN 0 ELSE state + 1

(* The sections of the rows of the action table; a repeated row adds none. *)
PrefixSections(c, rows, ends, timed, first, state) ==
    LET start == SectionStart(first, state)
        Act(r) == (IF first THEN 0 ELSE state) + (IF first THEN r.first ELSE r.later)
        Forced(r) == IF first THEN r.firstForced ELSE r.laterForced
        Late(r) == IF first THEN r.firstLate ELSE r.laterLate
        Edge(r) == IF ends.perfectHit[Act(r)] = NoHit \/ Forced(r) < 0 THEN None ELSE ends.perfectEnd[Act(r)]
        LateEdge(r) == IF timed /\ Late(r) >= 0 /\ ends.lateHit[Act(r)] # NoHit THEN ends.lateEnd[Act(r)] ELSE None
        inside == {i \in DOMAIN rows : start <= Act(rows[i]) /\ \A j \in 1..i : Act(rows[j]) < c.n}
        Run(k) == Least(c.n, start + k)
        \* Only the first of consecutive rows with one activation is kept.
        Repeats(i) == \E j \in inside : j < i /\ Act(rows[j]) = Act(rows[i]) /\ Edge(rows[j]) >= 0
        Perfects == {Section(Act(r), Edge(r), ends.perfectExit[Act(r)], ends.perfectGreatEnd[Act(r)], start, Run(Forced(r)), FALSE) :
                        r \in {rows[i] : i \in {i \in inside : Edge(rows[i]) >= 0 /\ ~Repeats(i)}}}
        Lates == {Section(Act(r), LateEdge(r), ends.lateExit[Act(r)], ends.lateGreatEnd[Act(r)], start, Run(Late(r)), TRUE) :
                        r \in {rows[i] : i \in {i \in inside :
                            LateEdgeExtends(Edge(rows[i]), LateEdge(rows[i]),
                                            ends.lateGreatEnd[Act(rows[i])], ends.perfectGreatEnd[Act(rows[i])])}}}
    IN  Perfects \cup Lates

(***************************************************************************)
(* The region runs: k Greats from an offset past the section's start move   *)
(* the crossing.  A crossing on a Great keeps the shortest run whose late   *)
(* hit the input engine can reach.                                          *)
(***************************************************************************)
NoCore == [act |-> None, ge |-> None, great |-> FALSE, hit |-> NoHit, perfectHit |-> NoHit]

LateGreatReachable(c, a, hit, d, start, gs, ge) ==
    hit # NoHit /\ ActivationReachable(c, a, hit, d, start, gs, ge - gs, TRUE)

MinimalReachableGreatEnd(c, a, start, runStart, d) ==
    LET top == a + 1 + Cardinality({e \in (a + 1)..(c.n - 1) : \A j \in (a + 1)..e : c.pc[j] < c.gc[a]})
    IN  LeastOf({e \in (a + 1)..top : LateGreatReachable(c, a, LateGreatHit(c, a, runStart, e), d, start, runStart, e)})

\* Where the Greats of a run end, from the note that crosses.
RunEnd(c, crossing, start, runStart, k, d) ==
    IF crossing.great THEN MinimalReachableGreatEnd(c, crossing.note, start, runStart, d) ELSE Least(c.n, runStart + k)

CoreOfHit(c, d, start, runStart, a, great, ge, hit) ==
    IF great
    THEN [act |-> a, ge |-> ge, great |-> TRUE, hit |-> LateGreatHit(c, a, runStart, ge), perfectHit |-> hit]
    ELSE IF hit # NoHit /\ ActivationReachable(c, a, hit, d, start, runStart, ge - runStart, FALSE)
    THEN [act |-> a, ge |-> ge, great |-> FALSE, hit |-> NoHit, perfectHit |-> hit]
    ELSE NoCore

CoreOfRun(c, d, start, runStart, a, great, ge) ==
    IF ge <= runStart THEN NoCore ELSE CoreOfHit(c, d, start, runStart, a, great, ge, PerfectHit(c, a, runStart, ge))

CoreOfCrossing(c, d, start, runStart, k, x) ==
    IF x.note = None THEN NoCore
    ELSE CoreOfRun(c, d, start, runStart, x.note, x.great, RunEnd(c, x, start, runStart, k, d))

RegionCore(c, start, offset, k, d) ==
    CoreOfCrossing(c, d, start, start + offset, k, FillCrossingRun(start, start + offset, k, d, c.n))

\* The ends of a core for one fever time, or none: a Great activation must extend its Perfect one.
RegionEdges(c, core, runStart, ends, rt) ==
    LET E(floor, hit) == IF hit = NoHit THEN None ELSE FeverEnd(c, floor, core.act, hit, rt)
        p == E(c.pf, core.perfectHit)
        g == E(c.gf, core.perfectHit)
    IN  IF core = NoCore THEN {}
        ELSE IF ~core.great THEN {Section(core.act, p, ends.perfectExit[core.act], g, runStart, core.ge, FALSE)}
        ELSE IF p >= 0 /\ ~LateEdgeExtends(p, E(c.pf, core.hit), E(c.gf, core.hit), g) THEN {}
        ELSE {Section(core.act, E(c.pf, core.hit), ends.lateExit[core.act], E(c.gf, core.hit), runStart, core.ge, TRUE)}

HasShiftedHeadRegion(start, d) == start < HeadLen - 1 /\ WholeNotes(d) > 1

\* The offsets the action with index i (from 0) is tried at.
RegionOffsets(c, actions, i, start, d) ==
    (IF i < Region2KScanStop(Len(actions), d) THEN {Region2OffsetForCount(start, actions[i + 1].k, d, c.n)} ELSE {})
    \cup (IF HasShiftedHeadRegion(start, d) THEN {1} ELSE {})

\* The cores of one section start, as <<offset, core>>: built once per fill, for every fever time.
RegionCores(c, actions, start, d) ==
    IF d > 2 * c.n THEN {}
    ELSE {x \in UNION {{<<o, RegionCore(c, start, o, actions[i + 1].k, d)>> :
                            o \in RegionOffsets(c, actions, i, start, d) \ {None}} : i \in 0..(Len(actions) - 1)} :
            x[2] # NoCore}
=============================================================================
