------------------------------ MODULE NotePlan ------------------------------
(***************************************************************************)
(* The note plan of a trace (trace/note_graph.py): every note's judgment,   *)
(* fever, place in the input stream and hit, and the replay that guards it  *)
(* (trace/physical_replay.py), at the hit windows of a build's Perfect      *)
(* Time, of which the frontier knows nothing.                               *)
(***************************************************************************)
EXTENDS TraceSearch, HitSchedule

Ticks(time) == time * (Tick \div MS)
LatestPress == 200 * Tick

(***************************************************************************)
(* A chart as its plans see it.  A Perfect window is <<first, last>>, its   *)
(* early edge exclusive.                                                    *)
(***************************************************************************)
TickBand(first, last) == <<Tick * first, Tick * last>>
BandsAt(scale, window) ==
    [perfect |-> TickBand(scale * window[1] + 1, scale * window[2]),
     early |-> TickBand(scale * (window[1] - 75) + 1, scale * window[1]),
     late |-> TickBand(scale * window[2] + 1, Least(scale * (window[2] + 150), NoteRemoveLateCap))]
PlanChart(x, window) ==
    [n |-> x.c.n, precise |-> x.timed, lane |-> x.c.lane, tail |-> x.c.tail,
     at |-> [j \in DOMAIN x.c.ts |-> Ticks(x.c.ts[j])],
     band |-> [j \in DOMAIN x.c.ts |-> BandsAt(IF x.c.tail[j] THEN 2 ELSE 1, window)]]

(***************************************************************************)
(* A section of a trace as the plan reads it.                               *)
(***************************************************************************)
PlanSection(x, s) ==
    [act |-> s.family.act, end |-> s.end, start |-> s.start, duration |-> Ticks(x.rt), late |-> s.family.own,
     moved |-> Centered(HitWindow(x, s)) # x.c.ts[s.family.act], order |-> SectionOrder(x, s),
     run |-> s.family.gs..(s.family.ge - 1), earlyTail |-> s.family.base..(s.end - 1)]
PlanSections(x, trace) == [i \in DOMAIN trace |-> PlanSection(x, trace[i])]
Activations(secs) == {secs[i].act : i \in DOMAIN secs}

\* Mutant: the early ends of the windows stay Perfects.
EarlyTailsPerfect(p, secs) == {}

\* The Greats of a plan: the forced runs, the late activations and, when hits move, the early ends of the windows.
ForcedGreats(secs) == UNION {secs[i].run \cup (IF secs[i].late THEN {secs[i].act} ELSE {}) : i \in DOMAIN secs}
EarlyTails(p, secs) == IF p.precise THEN UNION {secs[i].earlyTail : i \in DOMAIN secs} ELSE {}

(***************************************************************************)
(* Fixed hits: the Greats that go ahead of notes before them in the chart.  *)
(***************************************************************************)
LaneBefore(p, j) == {i \in 0..(j - 1) : p.lane[i] = p.lane[j]}
LaneAfter(p, j) == {i \in (j + 1)..(p.n - 1) : p.lane[i] = p.lane[j]}
LateHit(p, great, j) == p.at[j] + (IF j \in great THEN p.band[j].late[1] ELSE 0)
RoomLate(p, great, j) ==
    IF LaneAfter(p, j) = {} THEN Never ELSE LateHit(p, great, Min(LaneAfter(p, j))) - LateHit(p, great, j)
RoomEarly(p, j) ==
    IF LaneBefore(p, j) = {} THEN Never ELSE p.at[j] - p.at[Max(LaneBefore(p, j))] + p.band[j].early[2]
ClearOf(p, j, anchor) == j > anchor => p.at[j] + p.band[j].early[2] - FrameMargin >= p.at[anchor]
EarlyGreats(p, great, secs) ==
    {j \in great \ Activations(secs) :
        /\ \/ RoomLate(p, great, j) < FrameMargin /\ RoomEarly(p, j) > RoomLate(p, great, j)
           \/ LET perfects == {i \in 0..(p.n - 1) : p.at[i] = p.at[j]} \ great IN perfects # {} /\ j < Min(perfects)
        /\ \A i \in DOMAIN secs : ClearOf(p, j, secs[i].act) /\ ClearOf(p, j, Least(secs[i].end, p.n - 1))}
GoingEarly(p, secs) == IF p.precise THEN EarlyTails(p, secs) ELSE EarlyGreats(p, ForcedGreats(secs), secs)

(***************************************************************************)
(* The input order: what the sections fix, then the times notes rank at.    *)
(***************************************************************************)
\* The chord that crosses the ramp is one tie.
InRamp(p, j) == j < HeadLen \/ (HeadLen < p.n /\ p.at[j] = p.at[HeadLen - 1])
RankedTime(p, great, early, j) ==
    p.at[j] + (IF j \in early THEN p.band[j].early[2] - FrameMargin
               ELSE IF j \in great /\ ~InRamp(p, j) THEN p.band[j].late[1] ELSE 0)
RanksOf(time, n) ==
    [j \in 0..(n - 1) |-> Cardinality({i \in 0..(n - 1) : time[i] < time[j] \/ (time[i] = time[j] /\ i < j)})]
RankedTimes(p, great, early) == [j \in 0..(p.n - 1) |-> RankedTime(p, great, early, j)]
Ranks(p, great, early) == RanksOf(RankedTimes(p, great, early), p.n)

\* Greats near an activation or a wasted note stay on their side of it.
AnchorLinks(p, great, sec) ==
    UNION {{IF j < a THEN <<j, a>> ELSE <<a, j>> :
              j \in {j \in great \ {a} : p.at[a] - 2 * LatestPress <= p.at[j] /\ p.at[j] < p.at[a] + 2 * LatestPress}} :
           a \in {sec.act, sec.end} \cap (0..(p.n - 1))}

\* The note before the section, its notes planned before the activation, the activation, each lane's next note.
ChainLinks(chain) == {<<chain[i], chain[i + 1]>> : i \in 1..(Len(chain) - 1)}
SectionLinks(p, sec) ==
    LET first == Append(sec.order, sec.act)
        near == {j \in sec.start..(p.n - 1) : p.at[j] <= p.at[sec.act] + 2 * LatestPress} \ ToSet(first)
    IN  ChainLinks((IF sec.start > 0 THEN <<sec.start - 1>> ELSE <<>>) \o first)
        \cup {<<sec.act, j>> : j \in {j \in near : \A i \in near : p.lane[i] = p.lane[j] => j <= i}}
PlanLinks(p, secs) ==
    UNION {IF p.precise THEN SectionLinks(p, secs[i]) ELSE AnchorLinks(p, ForcedGreats(secs), secs[i]) : i \in DOMAIN secs}

(***************************************************************************)
(* Fever: a window opens on its activation and closes on the first input of *)
(* a note past it; fixed hits keep the window's notes.                      *)
(***************************************************************************)
PlaceIn(order, j) == (CHOOSE i \in DOMAIN order : order[i] = j) - 1
StopOf(order, secs, i) == IF i = Len(secs) THEN Len(order) ELSE PlaceIn(order, secs[i + 1].act)
WindowOf(order, sec, stop) ==
    LET inputs == PlaceIn(order, sec.act)..(stop - 1)
        past == {k \in inputs : k > Min(inputs) /\ order[k + 1] >= sec.end}
    IN  {order[k + 1] : k \in {k \in inputs : \A out \in past : k < out}}
ReachesEvery(order, secs) == \A i \in 1..(Len(secs) - 1) : PlaceIn(order, secs[i].act) <= PlaceIn(order, secs[i + 1].act)
FeverOf(p, order, secs) ==
    UNION {IF p.precise THEN WindowOf(order, secs[i], StopOf(order, secs, i)) ELSE secs[i].act..(secs[i].end - 1) :
             i \in DOMAIN secs}

(***************************************************************************)
(* The inputs of the schedule, and the plan.                                *)
(***************************************************************************)
PlannedBand(p, great, early, j) ==
    IF j \in early THEN p.band[j].early
    ELSE IF j \in great THEN p.band[j].late
    ELSE IF p.precise THEN p.band[j].perfect ELSE <<0, 0>>
InputsOf(p, great, early, fever, order, bands, free) ==
    LET Of(F(_)) == [k \in 0..(p.n - 1) |-> F(order[k + 1])] IN
    [chart |-> Of(LAMBDA j : p.at[j]), low |-> Of(LAMBDA j : p.at[j] + bands[j][1]), high |-> Of(LAMBDA j : p.at[j] + bands[j][2]),
     reach |-> Of(LAMBDA j : IF j \in great THEN 0 ELSE p.band[j].perfect[2] - bands[j][2]),
     earlyLow |-> Of(LAMBDA j : IF j \in free THEN p.at[j] + p.band[j].early[1] ELSE Never),
     earlyHigh |-> Of(LAMBDA j : IF j \in free THEN p.at[j] + p.band[j].early[2] ELSE -Never),
     lane |-> Of(LAMBDA j : p.lane[j]), tail |-> Of(LAMBDA j : p.tail[j]), great |-> Of(LAMBDA j : j \in great),
     fever |-> Of(LAMBDA j : j \in fever)]
WindowsOf(p, order, secs) ==
    [i \in DOMAIN secs |-> [first |-> PlaceIn(order, secs[i].act), stop |-> StopOf(order, secs, i), duration |-> secs[i].duration,
                            middle |-> p.precise /\ (secs[i].late \/ secs[i].moved)]]

Unplayable(why) == [status |-> why]
PlanWith(p, great, fever, order, schedule) ==
    IF schedule.stopped = ScheduleError THEN Unplayable("does not settle")
    ELSE IF schedule.stopped >= 0 THEN Unplayable("no frame of its own")
    ELSE [status |-> "planned", great |-> great, fever |-> fever, order |-> order, roomy |-> schedule.roomy,
          hit |-> [j \in 0..(p.n - 1) |-> schedule.hits[PlaceIn(order, j)]]]
PlanScheduled(p, secs, great, early, fever, order) ==
    PlanWith(p, great, fever, order,
             ScheduleHits(InputsOf(p, great, early, fever, order, [j \in 0..(p.n - 1) |-> PlannedBand(p, great, early, j)],
                                   great \ (early \cup Activations(secs))),
                          WindowsOf(p, order, secs)))
PlanInOrder(p, secs, great, early, order) ==
    IF Len(order) < p.n THEN Unplayable("cycle")
    ELSE IF p.precise /\ ~ReachesEvery(order, secs) THEN Unplayable("misses an activation")
    ELSE PlanScheduled(p, secs, great, early, FeverOf(p, order, secs), order)
PlanOf(p, secs, great, early) ==
    PlanInOrder(p, secs, great, early, InputOrder(p.n, p.lane, Ranks(p, great, early), PlanLinks(p, secs)))
ForceGreatsPlan(p, secs) == PlanOf(p, secs, ForcedGreats(secs) \cup EarlyTails(p, secs), GoingEarly(p, secs))

\* The plan adds up to its surface.
SurfaceOf(plan) ==
    [F |-> plan.fever \cap HeadNotes, G |-> plan.great \cap HeadNotes, b |-> Body(plan.fever),
     n |-> Body(plan.great \ plan.fever), q |-> Body(plan.great \cap plan.fever)]

(***************************************************************************)
(* The replay of a plan.                                                    *)
(***************************************************************************)
Judgment(p, j, delta) ==
    LET b == p.band[j] IN
    IF b.perfect[1] - Tick < delta /\ delta <= b.perfect[2] THEN "Perfect"
    ELSE IF b.early[1] - Tick < delta /\ delta <= b.perfect[2] + 150 * (IF p.tail[j] THEN 2 ELSE 1) * Tick THEN "Great" ELSE "Other"
LabelOf(plan, j) == IF j \in plan.great THEN "Great" ELSE "Perfect"

\* The power bar, in half Perfects: the first event past the duration is outside fever and adds nothing.
BarEvent(bar, plan, d, duration, j) ==
    LET elapsed == bar.elapsed + plan.hit[j] - bar.last
        filled == bar.fill + (IF j \in plan.great THEN 1 ELSE 2)
    IN  IF bar.active
        THEN IF elapsed >= duration THEN [bar EXCEPT !.active = FALSE, !.elapsed = 0, !.fill = 0, !.last = plan.hit[j]]
             ELSE [bar EXCEPT !.elapsed = elapsed, !.fever = @ \cup {j}, !.last = plan.hit[j]]
        ELSE IF filled >= d THEN [bar EXCEPT !.active = TRUE, !.elapsed = 0, !.fill = d, !.fever = @ \cup {j}, !.last = plan.hit[j]]
        ELSE [bar EXCEPT !.fill = filled, !.last = plan.hit[j]]
FeverWalk(plan, d, duration) ==
    FoldLeft(LAMBDA bar, j : BarEvent(bar, plan, d, duration, j),
             [fill |-> 0, active |-> FALSE, elapsed |-> 0, last |-> 0, fever |-> {}], plan.order).fever

KeepsLanes(p, order) == \A k, m \in DOMAIN order : (k < m /\ p.lane[order[k]] = p.lane[order[m]]) => order[k] < order[m]
\* Through the ramp the k-th input carries the judgment and the fever of note k.
KeepsCombos(plan) ==
    \A k \in DOMAIN plan.order : k <= HeadLen =>
        LET j == plan.order[k] IN
        (j \in plan.great <=> k - 1 \in plan.great) /\ (j \in plan.fever <=> k - 1 \in plan.fever)

Replay(p, x, plan) ==
    IF \E j \in 0..(p.n - 1) : Judgment(p, j, plan.hit[j] - p.at[j]) # LabelOf(plan, j) THEN Unplayable("judgment")
    ELSE IF ~KeepsLanes(p, plan.order) THEN Unplayable("lane")
    ELSE IF \E k \in 2..Len(plan.order) : plan.hit[plan.order[k]] < plan.hit[plan.order[k - 1]] THEN Unplayable("backward")
    ELSE IF FeverWalk(plan, x.d, Ticks(x.rt)) # plan.fever THEN Unplayable("fever")
    ELSE IF ~KeepsCombos(plan) THEN Unplayable("combo")
    ELSE plan
Reconciled(p, x, plan, surface) ==
    IF plan.status # "planned" THEN plan
    ELSE IF SurfaceOf(plan) # surface THEN Unplayable("differs from the surface")
    ELSE Replay(p, x, plan)
PlanOn(p, x, trace, surface) == Reconciled(p, x, ForceGreatsPlan(p, PlanSections(x, trace)), surface)
Materialized(x, window, trace, surface) == PlanOn(PlanChart(x, window), x, trace, surface)
=============================================================================
