---------------------------- MODULE TraceSections ----------------------------
(***************************************************************************)
(* The fever sections as the trace search writes them out, action by action *)
(* (trace/section_kernels.py), the plays they make up, and the traces of a  *)
(* surface (trace/reconstruct.py).  The frontier producer prices the same   *)
(* plays without writing them out; here they are what its frontiers have to *)
(* stand for.                                                               *)
(***************************************************************************)
EXTENDS FeverSections

(***************************************************************************)
(* What the sections of one geometry read: chart c, the half-Perfect fill   *)
(* d, fever time rt, forced-Great timing, and whether the fill plans early  *)
(* exits.                                                                   *)
(***************************************************************************)
Context(c, timed, g) ==
    [c |-> c, d |-> g.d, rt |-> g.rt, timed |-> timed,
     exits |-> Most(1, WholeNotes(g.d)) >= EarlyExitMinFill(c), actions |-> ActionTable(g.d, g.base, timed)]

\* An activation and the ends of its fever, hit at the latest it can be.
Family(x, a, late, gs, ge, hit) ==
    LET lowest == IF late THEN x.c.lf[a] ELSE x.c.pf[a]
        end == FeverEnd(x.c, x.c.pf, a, hit, x.rt)
        exit == IF x.exits THEN FeverEnd(x.c, x.c.ec, a, lowest, x.rt) ELSE end
    IN  [act |-> a, base |-> end, exit |-> Least(exit, end), great |-> FeverEnd(x.c, x.c.gf, a, hit, x.rt),
         gs |-> gs, ge |-> ge, own |-> late, hit |-> hit]

Farther(x, a, hit, than) ==
    \/ FeverEnd(x.c, x.c.pf, a, hit, x.rt) > FeverEnd(x.c, x.c.pf, a, than, x.rt)
    \/ FeverEnd(x.c, x.c.gf, a, hit, x.rt) > FeverEnd(x.c, x.c.gf, a, than, x.rt)

FamiliesOfHits(x, start, runStart, a, great, ge, perfect, late) ==
    IF great
    THEN IF perfect = NoHit \/ Farther(x, a, late, perfect) THEN {Family(x, a, TRUE, runStart, ge, late)} ELSE {}
    ELSE IF perfect # NoHit /\ ActivationReachable(x.c, a, perfect, x.d, start, runStart, ge - runStart, FALSE)
    THEN {Family(x, a, FALSE, runStart, ge, perfect)} ELSE {}

FamiliesOfRun(x, start, runStart, a, great, ge) ==
    IF ge <= runStart THEN {}
    ELSE FamiliesOfHits(x, start, runStart, a, great, ge, PerfectHit(x.c, a, runStart, ge), LateGreatHit(x.c, a, runStart, ge))

FamiliesOfCrossing(x, start, runStart, k, at) ==
    IF at.note = None THEN {}
    ELSE FamiliesOfRun(x, start, runStart, at.note, at.great, RunEnd(x.c, at, start, runStart, k, x.d))

\* k forced Greats from runStart; a crossing on a Great takes its shortest reachable run.
RegionFamily(x, start, runStart, k) ==
    FamiliesOfCrossing(x, start, runStart, k, FillCrossingRun(start, runStart, k, x.d, x.c.n))

RegionFamilies(x, start, k) ==
    LET offsets == (IF HasShiftedHeadRegion(start, x.d) /\ start + 1 < x.c.n THEN {1} ELSE {})
                   \cup {Region2OffsetForCount(start, k, x.d, x.c.n)}
    IN  IF x.timed /\ k > 0
        THEN UNION {RegionFamily(x, start, start + o, k) : o \in {o \in offsets : o > 0}} ELSE {}

(***************************************************************************)
(* The families of one action that activate after its forced run.  The      *)
(* action is p = [start, slots, k, fill, act, count], what it looks at of   *)
(* the action before it is before = [fill, time, end].                      *)
(***************************************************************************)
\* The Perfect activation of k Greats that pack the section's first notes, unless the action before it has it.
PerfectFamilies(x, p, before, hit, time, end) ==
    IF /\ hit # NoHit
       /\ p.k <= 0 \/ (p.k <= p.slots /\ 2 * p.slots - p.k < x.d)
       /\ p.fill # before.fill \/ (time # before.time /\ end # before.end)
       /\ ActivationReachable(x.c, p.act, hit, x.d, p.start, p.start, p.count, FALSE)
    THEN {Family(x, p.act, FALSE, p.start, Least(x.c.n, p.start + p.count), hit)} ELSE {}

\* The late Great after `prefix` forced Greats, when it reaches past the Perfect activation's ends.
LateFamilies(x, p, prefix, end, greatEnd, hit) ==
    LET bar == prefix + 2 * (p.slots - prefix) IN
    IF /\ p.slots >= prefix /\ bar < x.d /\ bar + 1 >= x.d
       /\ hit # NoHit
       /\ FeverEnd(x.c, x.c.pf, p.act, hit, x.rt) > end \/ FeverEnd(x.c, x.c.gf, p.act, hit, x.rt) > greatEnd
       /\ ActivationReachable(x.c, p.act, hit, x.d, p.start, p.start, prefix, TRUE)
    THEN {Family(x, p.act, TRUE, p.start, Least(x.c.n, p.start + prefix), hit)} ELSE {}

FamiliesBetween(x, p, before, hit, time, end, prefix) ==
    PerfectFamilies(x, p, before, hit, time, end)
    \cup IF x.timed /\ before.fill = p.fill /\ p.k > 0
         THEN LateFamilies(x, p, prefix, end, FeverEnd(x.c, x.c.gf, p.act, time, x.rt),
                           LateGreatHit(x.c, p.act, p.start, p.start + prefix))
         ELSE {}

\* The Perfect activation of an action: its hit, when that is, and where its fever ends.
OnPerfect(x, p) == PerfectHit(x.c, p.act, p.start, p.start + p.count)
TimeOf(x, p, hit) == IF hit = NoHit THEN x.c.ts[p.act] ELSE hit
EndOf(x, p, hit) == IF hit = NoHit THEN None ELSE FeverEnd(x.c, x.c.pf, p.act, hit, x.rt)

FamiliesAtHit(x, p, before, hit) ==
    FamiliesBetween(x, p, before, hit, TimeOf(x, p, hit), EndOf(x, p, hit), Least(Most(0, p.k - 1), Most(0, p.slots)))

ActionFamilies(x, p, before) == FamiliesAtHit(x, p, before, OnPerfect(x, p))

Planned(r, first, state) ==
    LET fill == IF first THEN r.first ELSE r.later IN
    [start |-> SectionStart(first, state), slots |-> fill - Wasted(first), k |-> r.k, fill |-> fill,
     act |-> IF first THEN fill ELSE state + fill, count |-> IF first THEN r.firstForced ELSE r.laterForced]

\* What the action after p looks at of p.
SeenOf(x, p) == [fill |-> p.fill, time |-> TimeOf(x, p, OnPerfect(x, p)), end |-> EndOf(x, p, OnPerfect(x, p))]
NoAction == [fill |-> -1, time |-> -MS, end |-> -1]

\* The scan stops at the first action that activates past the song.
TraceFamilies(x, first, state) ==
    LET p == [i \in DOMAIN x.actions |-> Planned(x.actions[i], first, state)]
        inside == {i \in DOMAIN p : \A j \in 1..i : p[j].act < x.c.n}
        Before(i) == IF i = 1 THEN NoAction ELSE SeenOf(x, p[i - 1])
    IN  UNION {ActionFamilies(x, p[i], Before(i)) \cup RegionFamilies(x, p[i].start, p[i].k) : i \in inside}

(***************************************************************************)
(* The section of a family at each of its ends: its edge in the surface.    *)
(***************************************************************************)
TraceSections(x, first, state) ==
    UNION {{[start |-> SectionStart(first, state), family |-> s, end |-> e, edge |-> EdgeAt(s, e)] : e \in s.exit..s.great} :
               s \in TraceFamilies(x, first, state)}

SectionTables(x) == [at \in -1..(x.c.n - 1) |-> TraceSections(x, at = -1, at)]

\* Every surface a play from a state adds up to: it activates wherever a section lets it.
PlaysFrom(sections, plays) ==
    IF sections = {} THEN {Zero} ELSE UNION {{Join(s.edge, t) : t \in plays[s.end]} : s \in sections}

TracePlays(x) ==
    LET tables == SectionTables(x)
        n == x.c.n
        Add(plays, at) == plays @@ (at :> PlaysFrom(tables[at], plays))
    IN  FoldLeft(Add, n :> {Zero}, [i \in 1..(n + 1) |-> n - i])[-1]
=============================================================================
