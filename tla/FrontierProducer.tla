-------------------------- MODULE FrontierProducer --------------------------
(***************************************************************************)
(* The build of a song's exact first frontiers (frontier/producer_batch.py, *)
(* producer_precompute.py and the kernels of producer_kernels.py): for each *)
(* requested geometry the response surfaces that are best for some stats.   *)
(*                                                                         *)
(* A state is the note a fever ended at (it does not fill the bar), so a    *)
(* song is played from the start, state Start, through states to its end.   *)
(* The build closes the states over their sections, then computes frontiers *)
(* downwards: for body states from activation packets that all states share *)
(* in sliding windows, for head states and the start section by section.    *)
(***************************************************************************)
EXTENDS TraceSections, Sums

CONSTANTS Songs,         \* the builds: [notes, timed, geoms]; a geometry is [d, base, rt]
          ReducerThreads,\* _FIRST_ONLY_REDUCER_THREADS
          SampleFactors  \* stat rows of the box, as FgSurfaces.Factors
ASSUME ThreadsAssumption == ReducerThreads \in Nat \ {0}
\* A timed build asks for a geometry.  A chart is sorted by time (chart.py); a fever lasts the chart and a second more,
\* at the decay rate of its Fever Time, which is 0.15 at least (timing_envelope.py fever_durations, gamedata.py).
ASSUME SongsAssumption ==
    \A s \in Songs :
        /\ s.timed \in BOOLEAN /\ (s.timed => s.geoms # <<>>)
        /\ s.notes \in Seq([at : Nat, tail : BOOLEAN, lane : Nat])
        /\ \A i, j \in DOMAIN s.notes : i < j => s.notes[i].at <= s.notes[j].at
        /\ s.geoms \in Seq([d : Nat, base : Nat, rt : Nat])
        /\ \A g \in DOMAIN s.geoms : s.geoms[g].rt >= 150 * MS

VARIABLES song,     \* the build
          chart,    \* its hit times
          tables,   \* per geometry its action table and its rows
          canon,    \* per geometry the first one that cannot differ from it
          admitting, nextGroup, \* the parent: whether it admits or waits; it has admitted the groups below nextGroup
          building, reducing,   \* the groups in flight
          finished, \* those whose thread is done
          reserved, \* reserved_bytes
          cores,    \* per live group its region cores per section start
          current,  \* the geometry being reduced, 0 for none
          ends,     \* its activation ends
          reach,    \* its reachable states
          width,    \* its widest early-Great extension
          state,    \* the state whose frontier is next
          queues,   \* per packet family its window [points, next]
          tails,    \* per body state its frontier
          heads,    \* per head state its frontier
          found     \* the frontiers of the geometries that are done

buildVars == <<song, chart, tables, canon>>
scheduleVars == <<admitting, nextGroup, building, reducing, finished, reserved, cores>>
reducerVars == <<current, ends, reach, width, state, queues, tails, heads>>
producerVars == <<buildVars, scheduleVars, reducerVars, found>>

Start == -1

(***************************************************************************)
(* What the geometries of a build share.                                    *)
(***************************************************************************)
ChartOf(s) == IF s.timed THEN PreciseChart(s.notes, 1) ELSE FixedChart(s.notes)

Table(timed, g) ==
    LET actions == ActionTable(g.d, g.base, timed) IN
    [actions |-> actions, rows |-> CompactActions(actions, g.d)]

\* Mutant: geometries are told apart by the ends on the Perfect floor alone.
EndClassOnFloor(c, timed, rt) ==
    LET At(hit) == [a \in DOMAIN c.ts |-> LowerBound(c.pf, hit[a] + rt)] IN
    <<At(c.ts), At(c.pc), At(c.gc)>>

\* The ends of every hit the kernels can read for a fever time: the geometries that agree on all are one.
EndClass(c, timed, rt) ==
    LET At(floor, hit) == [a \in DOMAIN c.ts |-> LowerBound(floor, hit[a] + rt)]
        Exit(from) == [a \in DOMAIN c.ts |-> FeverEnd(c, c.ec, a, from[a], rt)]
    IN  <<At(c.pf, c.ts), At(c.pf, c.pc), At(c.pf, c.gc), At(c.gf, c.pc), At(c.gf, c.gc),
          Exit(c.pf), IF timed THEN Exit(c.lf) ELSE <<>>>>

Signature(c, timed, t, g) == <<[r \in DOMAIN t.actions |-> t.actions[r].k], t.rows, EndClass(c, timed, g.rt)>>

Canonical(c, s, ts) ==
    LET signature == [i \in DOMAIN s.geoms |-> Signature(c, s.timed, ts[i], s.geoms[i])] IN
    [i \in DOMAIN s.geoms |-> Min({j \in DOMAIN s.geoms : signature[j] = signature[i]})]

(***************************************************************************)
(* The groups: canonical geometries with the same region cores, in order of *)
(* first appearance, each named by its first geometry.                      *)
(***************************************************************************)
GroupOf(i) ==
    LET Key(j) == <<song.geoms[j].d, song.geoms[j].base, [r \in DOMAIN tables[j].actions |-> tables[j].actions[r].k]>> IN
    Min({j \in DOMAIN canon : canon[j] = j /\ Key(j) = Key(canon[i])})
Groups == {GroupOf(i) : i \in DOMAIN canon}
Later == {i \in Groups : i >= nextGroup}

Geometry == song.geoms[current]
Rows == tables[current].rows
CoresAt(start) == cores[GroupOf(current)][start]

SectionsOf(at) ==
    LET first == at = Start
        from == SectionStart(first, at)
    IN  PrefixSections(chart, Rows, ends, song.timed, first, at)
        \cup UNION {RegionEdges(chart, x[2], from + x[1], ends, Geometry.rt) : x \in CoresAt(from)}

(***************************************************************************)
(* The reachable states: every end of every activation that some reachable  *)
(* state's fills lead to.                                                   *)
(***************************************************************************)
\* Mutant: the ends that only early Greats reach are not marked.
PerfectMarksOnFloor(e, a) ==
    IF e.perfectHit[a] = NoHit THEN {} ELSE Least(e.perfectExit[a], e.perfectEnd[a])..e.perfectEnd[a]

PerfectMarks(e, a) ==
    IF e.perfectHit[a] = NoHit THEN {} ELSE Least(e.perfectExit[a], e.perfectEnd[a])..e.perfectGreatEnd[a]

LateExtends(e, a) ==
    LET perfect == e.perfectHit[a] # NoHit IN
    /\ e.lateHit[a] # NoHit
    /\ LateEdgeExtends(IF perfect THEN e.perfectEnd[a] ELSE None, e.lateEnd[a], e.lateGreatEnd[a],
                       IF perfect THEN e.perfectGreatEnd[a] ELSE 0)

LateMarks(e, a) == IF LateExtends(e, a) THEN Least(e.lateExit[a], e.lateEnd[a])..e.lateGreatEnd[a] ELSE {}

SectionMarks(S) == UNION {s.exit..s.great : s \in S}

\* The activations a state's rows lead to: any row on a Perfect, a row with a late prefix on a late Great.
PerfectActs(c, rows, first, at) ==
    {a \in {IF first THEN r.first ELSE at + r.later : r \in ToSet(rows)} : a < c.n}
LateActs(c, rows, first, at) ==
    {a \in {IF first THEN r.first ELSE at + r.later :
                r \in {r \in ToSet(rows) : IF first THEN r.firstLate >= 0 ELSE r.laterLate >= 0}} : a < c.n}

Closure(c, timed, t, table, e, rt) ==
    LET Regions(from) == UNION {RegionEdges(c, x[2], from + x[1], e, rt) : x \in table[from]}
        Mark(known, first, at) ==
            LET perfects == PerfectActs(c, t.rows, first, at)
                lates == IF timed THEN LateActs(c, t.rows, first, at) ELSE {}
                regions == Regions(SectionStart(first, at))
            IN  [reach |-> known.reach \cup UNION {PerfectMarks(e, a) : a \in perfects}
                           \cup UNION {LateMarks(e, a) : a \in lates} \cup SectionMarks(regions),
                 width |-> Max({known.width}
                               \cup {e.perfectGreatEnd[a] - e.perfectEnd[a] : a \in {a \in perfects : e.perfectHit[a] # NoHit}}
                               \cup {e.lateGreatEnd[a] - e.lateEnd[a] : a \in {a \in lates : LateExtends(e, a)}}
                               \cup {s.great - s.base : s \in regions})]
        Visit(known, at) == IF at \in known.reach THEN Mark(known, FALSE, at) ELSE known
    IN  FoldLeft(Visit, Mark([reach |-> {c.n}, width |-> 0], TRUE, 0), [i \in 1..c.n |-> i - 1])

(***************************************************************************)
(* Packets.  The frontier of an activation's ends does not depend on the    *)
(* state once its Greats out of fever are counted from note 0: a state s    *)
(* reads n - 2s.  Rows whose fills follow one another with the same defect  *)
(* are one family, and a state's window in it is the activations s + lo to  *)
(* s + hi.                                                                  *)
(***************************************************************************)
FamiliesOf(mode, steps) ==      \* steps is a sequence of [offset, defect]
    LET Follows(i) == i > 1 /\ steps[i].defect = steps[i - 1].defect /\ steps[i].offset = steps[i - 1].offset + 1
        End(i) == Max({j \in i..Len(steps) : \A m \in (i + 1)..j : Follows(m)})
    IN  {[mode |-> mode, defect |-> steps[i].defect, lo |-> steps[i].offset, hi |-> steps[End(i)].offset] :
            i \in {i \in DOMAIN steps : ~Follows(i)}}

\* `forced` names the field of a row that counts its forced Greats.
PrefixSteps(rows, forced) ==
    [i \in DOMAIN rows |-> [offset |-> rows[i].later, defect |-> rows[i][forced] - 2 * rows[i].later]]

RegionSteps(n, actions, d) ==
    LET Step(k) ==
            LET act == Region2OffsetForCount(0, k, d, n + k + 2) + k IN
            [offset |-> act, defect |-> k - 1 - 2 * act, found |-> act > k]
        stop == Region2KScanStop(Len(actions), d)
    IN  SelectSeq([i \in 1..Most(0, stop - 1) |-> Step(actions[i + 1].k)], LAMBDA s : s.found)

Families(c, timed, t, d) ==
    LET Late(r) == r.laterLate >= 0 IN
    FamiliesOf("perfect", PrefixSteps(t.rows, "laterForced"))
    \cup FamiliesOf("late", PrefixSteps(SelectSeq(t.rows, Late), "laterLate"))
    \cup IF timed THEN FamiliesOf("region", RegionSteps(c.n, t.actions, d)) ELSE {}

TailAt(e) == IF e \in DOMAIN tails THEN tails[e] ELSE {}

\* The points of section s over its ends, with its own Greats out of fever counted by `normal`.
PacketPoints(s, normal) ==
    Skyline({[EdgeAt(s, x[1]) EXCEPT !.b = @ + x[2].b, !.n = normal[x[1]] + x[2].n, !.q = @ + x[2].q] :
                x \in UNION {{<<e, t>> : t \in TailAt(e)} : e \in s.exit..s.great}})

ActivationPacket(fam, a) ==
    LET edge == IF fam.mode = "late"
                THEN Section(a, ends.lateEnd[a], ends.lateExit[a], ends.lateGreatEnd[a], a, a, TRUE)
                ELSE Section(a, ends.perfectEnd[a], ends.perfectExit[a], ends.perfectGreatEnd[a], a, a, FALSE)
    IN  IF \/ a < HeadLen \/ a >= chart.n \/ ends.perfectHit[a] = NoHit
           \/ fam.mode = "late" /\ ~(song.timed /\ LateExtends(ends, a))
        THEN {} ELSE PacketPoints(edge, [e \in edge.exit..edge.great |-> 2 * a + fam.defect])

\* A region run of a body activation, as the state that first reaches it starts it.
CorePacket(core, a, start, offset) ==
    IF core.act = a /\ core.great
    THEN UNION {PacketPoints(s, [e \in s.exit..s.great |-> EdgeAt(s, e).n + 2 * (start - 1)]) :
                    s \in RegionEdges(chart, core, start + offset, ends, Geometry.rt)}
    ELSE {}

RegionPacket(fam, a) ==
    LET k == 2 * fam.lo + fam.defect + 1
        offset == fam.lo - k
        start == a - fam.lo + 1
    IN  IF a < HeadLen \/ a >= chart.n \/ k <= 0 \/ offset < 1 \/ start >= chart.n THEN {}
        ELSE CorePacket(RegionCore(chart, start, offset, k, Geometry.d), a, start, offset)

Packet(fam, a) == IF fam.mode = "region" THEN RegionPacket(fam, a) ELSE ActivationPacket(fam, a)

\* A packet enters its family's window: it pushes out what it dominates.
Push(points, packet, a) ==
    {x \in points : \A p \in packet : ~Covers(p, x.point)} \cup {[point |-> p, act |-> a] : p \in packet}

\* The window of state s: activations past it leave, those it newly reaches enter.
Advance(fam, queue, s) ==
    LET live == {x \in queue.points : x.act <= s + fam.hi}
        high == Least(queue.next, s + fam.hi - fam.lo)
    IN  [points |-> FoldLeft(LAMBDA points, at : Push(points, Packet(fam, at + fam.lo), at + fam.lo),
                             live, [i \in 1..(high - s + 1) |-> high + 1 - i]),
         next |-> s - 1]

StatePoints(qs, s) ==
    {p \in {[x.point EXCEPT !.n = @ - 2 * s] : x \in UNION {qs[fam].points : fam \in DOMAIN qs}} : p.n >= 0}

BodyFrontier(points) == IF points = {} THEN {Zero} ELSE ConeKept(SkylineHull(points))

(***************************************************************************)
(* Head states and the start: every section is joined with the frontiers of *)
(* its ends.  Sections wholly in the body with Great counts that do not     *)
(* depend on the end share their windows' skylines.                         *)
(***************************************************************************)
FrontierAt(e) == IF e >= HeadLen THEN TailAt(e) ELSE IF e >= chart.n THEN {Zero} ELSE heads[e]

JoinedPoints(s) == UNION {{Join(EdgeAt(s, e), t) : t \in FrontierAt(e)} : e \in s.exit..s.great}

RunInFever(s, e) == Most(0, Least(e, s.ge) - Most(Most(s.act, s.gs), HeadLen))
Shifts(s) ==
    /\ s.act >= HeadLen /\ s.exit >= HeadLen
    /\ \A e \in {s.exit, s.great} : RunInFever(s, e) = RunInFever(s, s.base)

\* The sections of one window pair, without those that another of them shifts better.
Windows(s) == <<s.exit, s.base, IF s.great > s.base THEN s.great ELSE 0>>
Useful(S) ==
    LET Edge(s) == EdgeAt(s, s.base)
        Better(t, s) ==
            /\ t.act <= s.act /\ Edge(t).n <= Edge(s).n /\ Edge(t).q <= Edge(s).q /\ PatternCovers(Edge(t), Edge(s))
            /\ <<t.act, Edge(t)>> # <<s.act, Edge(s)>>
    IN  {s \in S : \A t \in S : ~(Windows(t) = Windows(s) /\ Better(t, s))}

ShiftedPoints(s) ==
    LET edge == EdgeAt(s, s.base)
        Window(lo, hi, early) ==
            Skyline(UNION {{[t EXCEPT !.b = @ + e, !.q = IF early THEN @ + e ELSE @] : t \in TailAt(e)} : e \in lo..hi})
        At(x, early) ==
            [edge EXCEPT !.b = x.b - s.act, !.n = @ + x.n, !.q = @ + x.q - IF early THEN s.base ELSE 0]
    IN  {At(x, FALSE) : x \in Window(s.exit, s.base, FALSE)} \cup {At(x, TRUE) : x \in Window(s.base + 1, s.great, TRUE)}

SectionPoints(S) ==
    UNION {ShiftedPoints(s) : s \in Useful({s \in S : Shifts(s)})} \cup UNION {JoinedPoints(s) : s \in {s \in S : ~Shifts(s)}}

\* A start whose first fill lies in the body keeps no surface when nothing reaches it.
StateFrontier(at) ==
    LET points == SectionPoints(SectionsOf(at)) IN
    IF points # {} THEN PointsFrontier(points)
    ELSE IF at = Start /\ Rows[1].first >= HeadLen THEN {} ELSE {Zero}

(***************************************************************************)
(* The memory of a build.  A region table may need twice its candidate rows *)
(* while it is trimmed; the live tables of a build may hold together what a *)
(* table with two rows per section start and action would.                  *)
(***************************************************************************)
RowBytes == 28          \* _REGION_TABLE_ENTRY_BYTES
StartsBytes(n) == 8 * (n + 2)

\* Mutant: the runs one note past a head start are not counted.
CandidatesInBody(n, actions, d) ==
    LET Offset(i) == Region2OffsetForCount(0, actions[i].k, d, n)
        Own(i) == IF Offset(i) < 1 THEN 0 ELSE Most(0, n - Offset(i) - actions[i].k + 1)
    IN  IF d > 2 * n THEN 0 ELSE SumOf(1..Region2KScanStop(Len(actions), d), [i \in 1..Len(actions) |-> Own(i)], Len(actions))

\* The section starts and offsets that a group's region cores are built for, counted by intervals.
Candidates(n, actions, d) ==
    LET shifted == IF WholeNotes(d) > 1 THEN Least(HeadLen - 1, n + 1) ELSE 0
        Offset(i) == Region2OffsetForCount(0, actions[i].k, d, n)
        starts(i) == Most(0, n - Offset(i) - actions[i].k + 1)
        Own(i) == IF Offset(i) < 1 THEN 0 ELSE starts(i) - IF Offset(i) = 1 THEN Least(shifted, starts(i)) ELSE 0
    IN  IF d > 2 * n THEN 0
        ELSE shifted * Len(actions) + SumOf(1..Region2KScanStop(Len(actions), d), [i \in 1..Len(actions) |-> Own(i)], Len(actions))

\* Without forced-Great timing all groups share one table without rows.
Bound(i, copies) ==
    StartsBytes(chart.n) + IF song.timed THEN copies * RowBytes * Candidates(chart.n, tables[i].actions, song.geoms[i].d) ELSE 0
PeakBound(i) == IF song.timed THEN Bound(i, 2) ELSE Bound(i, 1)
RetainedBound(i) == Bound(i, 1)
Budget ==
    IF song.timed
    THEN StartsBytes(chart.n) + 4 * RowBytes * (chart.n + 1) * Max({Most(1, Len(tables[i].actions)) : i \in Groups})
    ELSE StartsBytes(chart.n) * Cardinality(Groups)

Rowed(table, n) == SumTo([i \in 1..(n + 1) |-> Cardinality(table[i - 1])], n + 1)
TableBytes(i) == StartsBytes(chart.n) + RowBytes * Rowed(cores[i], chart.n)
WorkerLimit == Least(Cardinality(Groups), ReducerThreads)

\* What a set of groups reserves while their tables are built, and once they are.
PeakBytes(S) == SumOf(S, [i \in S |-> PeakBound(i)], Len(tables))
BuiltBytes(S) == SumOf(S, [i \in S |-> TableBytes(i)], Len(tables))

\* How much farther the early-Great floor can let a fever reach than the Perfect floor, whatever its end time.
EarlyGreatGap(c) ==
    Max({0} \cup {LowerBound(c.gf, t + 1) - LowerBound(c.pf, t + 1) : t \in {c.pf[i] : i \in DOMAIN c.pf} \cup {c.gf[i] : i \in DOMAIN c.gf}})

(***************************************************************************)
(* The build: the parent admits groups in order while the byte budget and   *)
(* the workers allow it, and waits for the threads.                         *)
(***************************************************************************)
ProducerInit ==
    /\ song \in Songs
    /\ chart = ChartOf(song)
    /\ tables = [i \in DOMAIN song.geoms |-> Table(song.timed, song.geoms[i])]
    /\ canon = Canonical(chart, song, tables)
    /\ admitting = TRUE /\ nextGroup = 1 /\ building = {} /\ reducing = {} /\ finished = {} /\ reserved = 0
    /\ cores = <<>>
    /\ current = 0 /\ ends = <<>> /\ reach = {} /\ width = 0 /\ state = Start
    /\ queues = <<>> /\ tails = <<>> /\ heads = <<>>
    /\ found = <<>>

InFlight == building \cup reducing
CanAdmit == Later # {} /\ Cardinality(InFlight) < WorkerLimit /\ reserved + PeakBound(Min(Later)) <= Budget

AdmitGroup ==
    /\ admitting
    /\ IF CanAdmit
       THEN /\ building' = building \cup {Min(Later)}
            /\ reserved' = reserved + PeakBound(Min(Later))
            /\ nextGroup' = Min(Later) + 1
            /\ UNCHANGED admitting
       ELSE /\ InFlight # {}
            /\ admitting' = FALSE
            /\ UNCHANGED <<building, reserved, nextGroup>>
    /\ UNCHANGED <<reducing, finished, cores, buildVars, reducerVars, found>>

\* A build thread finishes the region table of group i.
BuildTable(i) ==
    /\ i \in building \ finished
    /\ LET table == [start \in 0..chart.n |->
                        IF song.timed THEN RegionCores(chart, tables[i].actions, start, song.geoms[i].d) ELSE {}]
       IN  cores' = [j \in DOMAIN cores \cup {i} |-> IF j = i THEN table ELSE cores[j]]
    /\ finished' = finished \cup {i}
    /\ UNCHANGED <<admitting, nextGroup, building, reducing, reserved, buildVars, reducerVars, found>>

\* The parent takes what has finished: a table goes to a reducer and keeps its own bytes, a reduction gives them back.
CollectThreads(done) ==
    /\ ~admitting /\ done # {} /\ done \subseteq finished
    /\ LET built == done \cap building
           reduced == done \cap reducing
       IN  /\ \A i \in built : TableBytes(i) <= RetainedBound(i)
           /\ reserved' = reserved + BuiltBytes(built) - PeakBytes(built) - BuiltBytes(reduced)
           /\ building' = building \ built
           /\ reducing' = (reducing \ reduced) \cup built
           /\ cores' = [i \in DOMAIN cores \ reduced |-> cores[i]]
    /\ finished' = finished \ done
    /\ admitting' = TRUE
    /\ UNCHANGED <<nextGroup, buildVars, reducerVars, found>>

(***************************************************************************)
(* Reductions share nothing, so the threads' geometries are taken one after *)
(* another: a geometry that no other one stands for gets its closure, then  *)
(* its states downwards.                                                    *)
(***************************************************************************)
NextState(from, states) == Max({Start} \cup {s \in states : s < from})

BeginGeometry(i) ==
    /\ current = 0 /\ canon[i] = i /\ i \notin DOMAIN found /\ GroupOf(i) \in reducing \ finished
    /\ LET g == song.geoms[i]
           e == Ends(chart, g.d, g.rt)
           closure == Closure(chart, song.timed, tables[i], cores[GroupOf(i)], e, g.rt)
       IN  /\ current' = i /\ ends' = e /\ reach' = closure.reach /\ width' = closure.width
           /\ state' = NextState(chart.n, closure.reach)
           /\ queues' = [fam \in Families(chart, song.timed, tables[i], g.d) |-> [points |-> {}, next |-> chart.n - 1]]
    /\ tails' = IF chart.n >= HeadLen THEN chart.n :> {Zero} ELSE <<>>
    /\ heads' = <<>>
    /\ UNCHANGED <<buildVars, scheduleVars, found>>

BodyState ==
    /\ current # 0 /\ state >= HeadLen
    /\ LET qs == [fam \in DOMAIN queues |-> Advance(fam, queues[fam], state)] IN
       /\ queues' = qs
       /\ tails' = tails @@ (state :> BodyFrontier(StatePoints(qs, state)))
    /\ state' = NextState(state, reach)
    /\ UNCHANGED <<buildVars, scheduleVars, current, ends, reach, width, heads, found>>

HeadState ==
    /\ current # 0 /\ state \in HeadNotes
    /\ heads' = heads @@ (state :> StateFrontier(state))
    /\ state' = NextState(state, reach)
    /\ UNCHANGED <<buildVars, scheduleVars, current, ends, reach, width, queues, tails, found>>

\* The frontier of the start is the geometry's, and that of every geometry it stands for.
FirstSection ==
    /\ current # 0 /\ state = Start
    /\ LET frontier == StateFrontier(Start)
           same == {i \in DOMAIN canon : canon[i] = current}
           known == [i \in DOMAIN found \cup same |-> IF i \in same THEN frontier ELSE found[i]]
           group == GroupOf(current)
       IN  /\ found' = known
           /\ finished' = IF \A i \in DOMAIN canon : GroupOf(i) = group => i \in DOMAIN known
                          THEN finished \cup {group} ELSE finished
    /\ current' = 0 /\ ends' = <<>> /\ reach' = {} /\ width' = 0
    /\ queues' = <<>> /\ tails' = <<>> /\ heads' = <<>>
    /\ UNCHANGED <<buildVars, state, admitting, nextGroup, building, reducing, reserved, cores>>

ProducerNext ==
    \/ AdmitGroup
    \/ \E i \in DOMAIN canon : BuildTable(i) \/ BeginGeometry(i)
    \/ \E done \in SUBSET finished : CollectThreads(done)
    \/ BodyState
    \/ HeadState
    \/ FirstSection

(***************************************************************************)
(* Properties.                                                              *)
(***************************************************************************)
BuildIsDone == Later = {} /\ InFlight = {}
Plays(i) == TracePlays(Context(chart, song.timed, song.geoms[i]))

(* No section extends by more early Greats than the workspaces hold, which are sized by the floors alone (the        *)
(* kernels' capacity guard would end the build), and a finished frontier scores what the best play of the song      *)
(* scores, at every stat row of the box (sampled): the windows, packets, skylines, hulls and dominance tests of the *)
(* kernels lose no play that is best for some stats.                                                                *)
FrontierIsExact ==
    /\ width <= EarlyGreatGap(chart)
    /\ BuildIsDone => \A i \in DOMAIN canon : i \in DOMAIN found /\ LET plays == Plays(i) IN
           \A f \in SampleFactors : BestScore(f, found[i], chart.n) = BestScore(f, plays, chart.n)

(* Every row of a frontier adds up a play that the trace search can find, also the rows a geometry takes from the   *)
(* one that stands for it: a winner whose row has no play could not be shown.                                       *)
EveryRowHasATrace == BuildIsDone => \A i \in DOMAIN found : found[i] \subseteq Plays(i)

(* The live region tables of a build, those being trimmed at twice their rows, stay within one exhaustive table,    *)
(* and the pipeline never has to give up: neither for a group it cannot admit, nor for a table with more rows than  *)
(* were counted before it was built.                                                                                *)
TablesFitTheBudget ==
    /\ reserved = PeakBytes(building) + BuiltBytes(reducing)
    /\ reserved <= Budget
    /\ \A i \in building \cap finished : TableBytes(i) <= RetainedBound(i)
    /\ admitting /\ ~CanAdmit => InFlight # {} \/ BuildIsDone

ProducerSpec == ProducerInit /\ [][ProducerNext]_producerVars
=============================================================================
