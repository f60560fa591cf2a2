------------------------------ MODULE GameSim ------------------------------
(***************************************************************************)
(* A game that plays the plan of a trace (tools/verify/game_sim.py): the    *)
(* frames of the client, the lanes that match presses with notes, the       *)
(* power bar and the combo.  Presses are judged at their exact times; the   *)
(* bar drains, and notes time out, at frames.                               *)
(*                                                                         *)
(* Notes enter the lanes 1500 ms ahead, long before any press can reach     *)
(* them: here they are in their lanes from the start.                       *)
(***************************************************************************)
EXTENDS NotePlan

CONSTANTS
    PerfectWindows,     \* the Perfect windows of the builds that play the traces, in ms
    FramePhases         \* how far the frames of a game are shifted, in quarters of a frame

VARIABLES
    plan,       \* [window, notes], the plan of a trace and the build's Perfect window, <<>> before
    game        \* the game that plays it, <<>> before

gameVars == <<plan, game>>

\* A client at 60 fps, and one at the fastest rate.
FrameRates == {6 * FastestFrame, FastestFrame}

(***************************************************************************)
(* The judgment of a press: six edges, the late ones inclusive.             *)
(***************************************************************************)
EdgesAt(window, scale) ==
    [okayLate |-> Tick * scale * (window[2] + 390), greatLate |-> Tick * scale * (window[2] + 150), perfectLate |-> Tick * scale * window[2],
     perfectEarly |-> Tick * scale * window[1], greatEarly |-> Tick * scale * (window[1] - 75), okayEarly |-> Tick * scale * (window[1] - 215)]
Judged(edges, delta) ==
    IF delta > edges.okayLate \/ delta <= edges.okayEarly THEN "miss"
    ELSE IF edges.perfectEarly < delta /\ delta <= edges.perfectLate THEN "perfect"
    ELSE IF edges.greatEarly < delta /\ delta <= edges.greatLate THEN "great"
    ELSE "okay"

(***************************************************************************)
(* The lanes.  A tail belongs to the head before it in its lane; `lanes`    *)
(* holds the state of every tap and head, p is the chart.                   *)
(***************************************************************************)
Heads(p) == {j \in 0..(p.n - 1) : ~p.tail[j]}
HoldsTail(p, j) == LaneAfter(p, j) # {} /\ p.tail[Min(LaneAfter(p, j))]
TailOf(p, j) == Min(LaneAfter(p, j))

Edge(p, j, at, release) == [note |-> j, at |-> at, release |-> release, lane |-> p.lane[j]]
\* A press for every tap and head and a release for every tail, by time, releases after presses.
InTime(e, f) ==
    \/ e.at < f.at
    \/ e.at = f.at /\ ~e.release /\ f.release
    \/ e.at = f.at /\ e.release = f.release /\ e.note <= f.note
EdgesOf(p, notes) == SortSeq([i \in 1..p.n |-> Edge(p, i - 1, notes.hit[i - 1], p.tail[i - 1])], InTime)

Hit(j, result, kind) == [note |-> j, result |-> result, kind |-> kind]
\* The first note of the lane that a press can hit, and what it is judged.
PressResult(g, p, j, at) ==
    IF g.lanes[j] = "pre" THEN Judged(g.tap, at - p.at[j])
    ELSE IF g.lanes[j] = "holdMissed" THEN Judged(g.held, at - p.at[TailOf(p, j)])
    ELSE "miss"
Hittable(g, p, e) == {j \in Heads(p) : p.lane[j] = e.lane /\ PressResult(g, p, j, e.at) # "miss"}
AfterPress(g, p, j) ==
    IF g.lanes[j] = "holdMissed" THEN "passed" ELSE IF HoldsTail(p, j) THEN "holding" ELSE "gone"

\* A release ends the first hold of the lane, unless its head was missed and it comes too early.
ReleaseResult(g, p, j, at) == Judged(g.held, at - p.at[TailOf(p, j)])
Holds(g, p, e) ==
    {j \in Heads(p) : p.lane[j] = e.lane
                      /\ \/ g.lanes[j] = "holding"
                         \/ g.lanes[j] = "holdMissed" /\ ReleaseResult(g, p, j, e.at) # "miss"}

(***************************************************************************)
(* The score engine: the bar in half Perfects, the fever left in ticks.     *)
(***************************************************************************)
DrainOf(result, duration) ==
    IF result = "miss" THEN duration \div 10 ELSE IF result = "okay" THEN duration \div 40 ELSE 0
FillOf(result) == IF result = "perfect" THEN 2 ELSE IF result = "great" THEN 1 ELSE 0

\* Mutant: the hit past a fever fills the bar.
BarAfterUnwasted(g, result, d, duration) ==
    IF g.active THEN [g EXCEPT !.left = Most(0, @ - DrainOf(result, duration))]
    ELSE LET fill == g.fill + FillOf(result) IN
         IF fill >= d THEN [g EXCEPT !.fill = d, !.active = TRUE, !.left = duration] ELSE [g EXCEPT !.fill = fill]

\* The bar after a hit: the first one past a fever is wasted; one that fills the bar starts the fever.
Filled(g, fill, d, duration) ==
    IF fill >= d THEN [g EXCEPT !.fill = d, !.active = TRUE, !.left = duration] ELSE [g EXCEPT !.fill = fill]
BarAfter(g, result, d, duration) ==
    IF g.active THEN [g EXCEPT !.left = Most(0, @ - DrainOf(result, duration))]
    ELSE IF g.wasted THEN [g EXCEPT !.wasted = FALSE]
    ELSE Filled(g, g.fill + FillOf(result), d, duration)
ChainAfter(chain, result) ==
    IF result \in {"perfect", "great"} THEN chain + 1 ELSE IF result = "okay" THEN chain ELSE chain \div 2
Counted(g, result, kind) == result # "miss" \/ kind = "note" \/ g.chain > 0
Chained(g, hit, counted) ==
    [g EXCEPT !.chain = ChainAfter(g.chain, hit.result),
              !.hits = IF counted /\ hit.kind # "whiff"
                       THEN Append(@, [note |-> hit.note, result |-> hit.result, fever |-> g.active, chain |-> ChainAfter(g.chain, hit.result)])
                       ELSE @]
RegisterHit(g, hit, x) ==
    Chained(BarAfter(g, hit.result, x.d, Ticks(x.rt)), hit, Counted(g, hit.result, hit.kind))

\* The bar over a frame.
FeverTick(g, elapsed) ==
    IF ~g.active THEN g
    ELSE IF g.left > elapsed THEN [g EXCEPT !.left = @ - elapsed]
    ELSE [g EXCEPT !.left = 0, !.fill = 0, !.active = FALSE, !.wasted = TRUE]

(***************************************************************************)
(* A frame: the bar drains to it, notes 200 ms late are missed, last first, *)
(* then the presses up to it, each at its time.                             *)
(***************************************************************************)
TimedOut(at, now) == now - at > LatestPress
MissHead(g, p, x, j, missed) ==
    RegisterHit([g EXCEPT !.lanes[j] = missed], Hit(j, "miss", "note"), x)
MissTail(g, p, x, j) ==
    IF g.lanes[j] = "passed" THEN [g EXCEPT !.lanes[j] = "gone"]
    ELSE RegisterHit([g EXCEPT !.lanes[j] = "gone"], Hit(TailOf(p, j), "miss", "note"), x)
TimeOutTail(g, p, x, j, now) ==
    IF g.lanes[j] # "gone" /\ HoldsTail(p, j) /\ TimedOut(p.at[TailOf(p, j)], now) THEN MissTail(g, p, x, j) ELSE g
TimeOut(g, p, x, j, now) ==
    IF g.lanes[j] = "pre" /\ TimedOut(p.at[j], now)
    THEN TimeOutTail(MissHead(g, p, x, j, IF HoldsTail(p, j) THEN "holdMissed" ELSE "gone"), p, x, j, now)
    ELSE TimeOutTail(g, p, x, j, now)
TimeOuts(g, p, x, now) == FoldLeft(LAMBDA h, j : IF p.tail[j] THEN h ELSE TimeOut(h, p, x, j, now), g, Downward(p.n - 1, 0))

Press(g, p, x, e) ==
    IF Hittable(g, p, e) = {} THEN IF g.chain = 0 THEN g ELSE RegisterHit(g, Hit(e.note, "miss", "whiff"), x)
    ELSE LET j == Min(Hittable(g, p, e))
             note == IF g.lanes[j] = "holdMissed" THEN TailOf(p, j) ELSE j
         IN  RegisterHit([g EXCEPT !.lanes[j] = AfterPress(g, p, j)], Hit(note, PressResult(g, p, j, e.at), "note"), x)
EarlyRelease(g, p, x, j) ==
    IF g.chain = 0 THEN [g EXCEPT !.lanes[j] = "holdMissed"]
    ELSE RegisterHit([g EXCEPT !.lanes[j] = "holdMissed"], Hit(TailOf(p, j), "miss", "earlyRelease"), x)
Release(g, p, x, e) ==
    IF Holds(g, p, e) = {} THEN g
    ELSE LET j == Min(Holds(g, p, e)) IN
         IF ReleaseResult(g, p, j, e.at) = "miss" THEN EarlyRelease(g, p, x, j)
         ELSE RegisterHit([g EXCEPT !.lanes[j] = "passed"], Hit(TailOf(p, j), ReleaseResult(g, p, j, e.at), "note"), x)
DoPress(g, p, x, e) == IF e.release THEN Release(g, p, x, e) ELSE Press(g, p, x, e)

DuePresses(g, now) == {i \in DOMAIN g.presses : i > g.pressed /\ g.presses[i].at <= now}
DoPresses(g, p, x, due) ==
    FoldLeft(LAMBDA h, i : [DoPress(h, p, x, g.presses[i]) EXCEPT !.pressed = i], g, InOrder(due))
FrameAfterMisses(g, p, x, now) == DoPresses(g, p, x, DuePresses(g, now))
Frame(g, p, x, now) ==
    FrameAfterMisses([TimeOuts(FeverTick(g, now - g.at), p, x, now) EXCEPT !.at = now], p, x, now)

\* The frames at which nothing is due only drain the bar: the next one that does more.
FrameAt(g, time) == g.phase - (((g.phase - time) \div g.dt) * g.dt)
TimesOut(g, p) ==
    {p.at[j] : j \in {j \in Heads(p) : g.lanes[j] = "pre"}}
    \cup {p.at[TailOf(p, j)] : j \in {j \in Heads(p) : g.lanes[j] # "gone" /\ HoldsTail(p, j)}}
DueTimes(g, p) ==
    {FrameAt(g, time + LatestPress + 1) : time \in TimesOut(g, p)}
    \cup {FrameAt(g, g.presses[i].at) : i \in (g.pressed + 1)..Len(g.presses)}

(***************************************************************************)
(* The actions.                                                             *)
(***************************************************************************)
TraceFound == traced # <<>> /\ traced # <<NoTrace>>

MaterializeTrace ==
    /\ TraceFound /\ plan = <<>>
    /\ \E w \in PerfectWindows : plan' = [window |-> w, notes |-> Materialized(problem, w, traced[1].sections, wanted)]
    /\ UNCHANGED <<traceVars, game>>

NewGame(p, notes, dt, phase, window) ==
    [dt |-> dt, phase |-> phase, tap |-> EdgesAt(window, 1), held |-> EdgesAt(window, 2), presses |-> EdgesOf(p, notes),
     pressed |-> 0, at |-> phase - 2000 * dt, lanes |-> [j \in Heads(p) |-> "pre"],
     fill |-> 0, active |-> FALSE, left |-> 0, wasted |-> FALSE, chain |-> 0, hits |-> <<>>]
StartGame ==
    /\ plan # <<>> /\ game = <<>> /\ plan.notes.status = "planned"
    /\ \E dt \in FrameRates, k \in FramePhases :
          /\ plan.notes.roomy \/ dt = FastestFrame
          /\ game' = NewGame(PlanChart(problem, plan.window), plan.notes, dt, (k * dt) \div 4, plan.window)
    /\ UNCHANGED <<traceVars, plan>>

RunFrameOf(p) ==
    /\ DueTimes(game, p) # {}
    /\ game' = Frame(game, p, problem, Min(DueTimes(game, p)))
RunFrame ==
    /\ game # <<>>
    /\ RunFrameOf(PlanChart(problem, plan.window))
    /\ UNCHANGED <<traceVars, plan>>

GameInit == plan = <<>> /\ game = <<>>
GameNext == MaterializeTrace \/ StartGame \/ RunFrame
GameIsOver == game # <<>> /\ game.pressed = Len(game.presses)

(***************************************************************************)
(* What a game scored, as a surface: the head by its combo.                 *)
(***************************************************************************)
ScoredSurface(hits) ==
    LET Places(S) == {i - 1 : i \in S}
        fever == {i \in DOMAIN hits : hits[i].fever}
        great == {i \in DOMAIN hits : hits[i].result = "great"}
    IN  [F |-> Places(fever) \cap HeadNotes, G |-> Places(great) \cap HeadNotes, b |-> Body(Places(fever)),
         n |-> Body(Places(great \ fever)), q |-> Body(Places(great \cap fever))]

\* The last note of the ramp is worth a body note.
Count(b) == IF b THEN 1 ELSE 0
AsScored(s) ==
    LET last == HeadLen - 1 IN
    [F |-> s.F \ {last}, G |-> s.G \ {last}, b |-> s.b + Count(last \in s.F),
     n |-> s.n + Count(last \in s.G \ s.F), q |-> s.q + Count(last \in s.G \cap s.F)]

\* Only room stops a plan, never its own arithmetic: a trace whose inputs have an order and a schedule adds up
\* to its surface, and the replay finds its judgments, its lanes and its fevers (trace/materialize.py).
PlansAddUp == plan # <<>> => plan.notes.status \notin {"differs from the surface", "judgment", "lane", "backward", "fever"}

\* A game that plays a plan misses nothing, judges every note as planned and keeps the combo, at every frame
\* rate its schedule has room for and wherever the frames fall; with a full frame of room everywhere it scores
\* exactly the surface the optimizer scored: every fever starts and ends on its notes, every ramp multiplier
\* meets the judgment it was scored with (trace/hit_schedule.py, tools/verify/game_sim.py).
GamesScoreTheirSurface ==
    GameIsOver =>
        /\ Len(game.hits) = problem.c.n
        /\ \A i \in DOMAIN game.hits :
              /\ game.hits[i].chain = i
              /\ game.hits[i].result = IF game.hits[i].note \in plan.notes.great THEN "great" ELSE "perfect"
        /\ plan.notes.roomy => AsScored(ScoredSurface(game.hits)) = AsScored(wanted)
=============================================================================
