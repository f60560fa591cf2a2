----------------------------- MODULE HitSchedule -----------------------------
(***************************************************************************)
(* The hit times of a plan (trace/hit_schedule.py): difference constraints  *)
(* between the inputs, solved with a frame of margin wherever sharing a     *)
(* frame would change the play, and with less along the paths that have no  *)
(* room for it.                                                             *)
(*                                                                         *)
(* Inputs are numbered from 0 in input order.  Times are integers, Tick of  *)
(* them a millisecond: a frame of 60 fps is 600, one of 360 fps 100.        *)
(***************************************************************************)
EXTENDS FillCrossing, FgSurfaces, SequencesExt

Tick == 36
FrameMargin == 636              \* FRAME_MARGIN_MS, a frame of 60 fps and a millisecond
FastestFrame == 100
PairSpan == 390 * Tick + FrameMargin
Strict == 1
Never == 100000000

Downward(last, first) == [i \in 1..(last - first + 1) |-> last - i + 1]
InOrder(S) == IF S = {} THEN <<>> ELSE SelectSeq(Upward(Min(S), Max(S)), LAMBDA i : i \in S)

(***************************************************************************)
(* Each lane keeps its chart order and each link <<before, after>> its own; *)
(* of the notes free to go the lowest rank goes first.  The order is short  *)
(* when the links contradict each other.                                    *)
(***************************************************************************)
InputOrder(n, lane, rank, links) ==
    LET Free(done) == {j \in (0..(n - 1)) \ done :
                         /\ \A i \in 0..(j - 1) : lane[i] = lane[j] => i \in done
                         /\ \A link \in links : link[2] = j => link[1] \in done}
        First(S) == CHOOSE j \in S : \A i \in S : rank[j] <= rank[i]
        Take(order, free) == IF free = {} THEN order ELSE Append(order, First(free))
    IN  FoldLeft(LAMBDA order, i : Take(order, Free(ToSet(order))), <<>>, Upward(1, n))

(***************************************************************************)
(* The constraints: p[after] >= p[before] + fixed + a margin.  A fever      *)
(* window is [first, stop, duration]: its activation, the next one's, its   *)
(* length.                                                                  *)
(***************************************************************************)
Link(before, after, fixed) == [before |-> before, after |-> after, fixed |-> fixed]
IsGap(link) == link.fixed = 0

InputsIn(w) == (w.first + 1)..(w.stop - 1)
FeverInputs(in, w) == {k \in InputsIn(w) : in.fever[k]}
WastedInputs(in, w) == LET outside == InputsIn(w) \ FeverInputs(in, w) IN IF outside = {} THEN {} ELSE {Min(outside)}

WindowLinks(in, w) ==
    (IF WastedInputs(in, w) = {} THEN <<>> ELSE <<Link(w.first, Max(WastedInputs(in, w)), w.duration + Strict)>>)
    \o (IF FeverInputs(in, w) = {} THEN <<>> ELSE <<Link(Max(FeverInputs(in, w)), w.first, Strict - w.duration)>>)

\* A hold's release may share its press's frame.
LaneLinks(in) ==
    LET Earlier(k) == {i \in 0..(k - 1) : in.lane[i] = in.lane[k]}
        after == InOrder({k \in DOMAIN in.lane : Earlier(k) # {} /\ ~in.tail[k]})
    IN  [i \in DOMAIN after |-> Link(Max(Earlier(after[i])), after[i], 0)]

\* The inputs on two lanes whose order scores.
ScoredPair(in, turning, activations, x, y) ==
    /\ \A z \in (x + 1)..y : in.chart[z] - in.chart[x] <= PairSpan
    /\ in.lane[x] # in.lane[y] /\ in.great[x] # in.great[y]
    /\ Least(in.low[y], in.earlyLow[y]) < in.high[x] + FrameMargin
    /\ ~(x \in activations /\ in.great[x] /\ x >= HeadLen)
    /\ y < HeadLen \/ x \in turning \/ y \in turning
ScoredPairs(in, activations, wasted) ==
    FlattenSeq([i \in 1..Cardinality(DOMAIN in.lane) |->
        LET after == InOrder({y \in i..(Cardinality(DOMAIN in.lane) - 1) :
                                ScoredPair(in, activations \cup wasted, activations, i - 1, y)})
        IN  [m \in DOMAIN after |-> Link(i - 1, after[m], 0)]])

LinksOf(in, windows) ==
    FlattenSeq([i \in DOMAIN windows |-> WindowLinks(in, windows[i])]) \o LaneLinks(in)
    \o ScoredPairs(in, {windows[i].first : i \in DOMAIN windows}, UNION {WastedInputs(in, windows[i]) : i \in DOMAIN windows})

\* The links that run forward into an input, and those that run back, by their place.
Into(links, k) == InOrder({c \in DOMAIN links : links[c].after = k /\ links[c].before < k})
Back(links) == InOrder({c \in DOMAIN links : links[c].before > links[c].after})

(***************************************************************************)
(* A Great goes early when the inputs after it, `clearance` clear, leave it *)
(* no late hit and those before it leave it an early one.                   *)
(***************************************************************************)
EarliestInBands(links, in, n) ==
    LET Floor(at, k) == Max({at[k]} \cup (IF k > 0 THEN {at[k - 1]} ELSE {})
                            \cup {at[links[c].before] + links[c].fixed : c \in ToSet(Into(links, k))})
    IN  FoldLeft(LAMBDA at, k : (k :> Floor(at, k)) @@ at,
                 [k \in 0..(n - 1) |-> Least(in.low[k], in.earlyLow[k])], Upward(0, n - 1))

BandOf(in, k, latest, earliest) ==
    IF latest < in.low[k] /\ earliest <= in.earlyHigh[k] THEN <<in.earlyLow[k], in.earlyHigh[k]>> ELSE <<in.low[k], in.high[k]>>

\* Before an input: no later than it, and clear of it along a link.
LowerLatest(latest, links, k, hit, clearance) ==
    [j \in DOMAIN latest |->
       Min({latest[j]} \cup (IF j = k - 1 THEN {hit} ELSE {})
           \cup {hit - links[c].fixed - clearance : c \in {c \in ToSet(Into(links, k)) : links[c].before = j}})]
PickBand(sofar, links, k, band, clearance) ==
    [band |-> (k :> band) @@ sofar.band,
     latest |-> LowerLatest(sofar.latest, links, k, Least(sofar.latest[k], Most(band[2] - clearance, band[1])), clearance)]
PickBandsFrom(links, in, n, clearance, earliest) ==
    FoldLeft(LAMBDA sofar, k : PickBand(sofar, links, k, BandOf(in, k, sofar.latest[k], earliest[k]), clearance),
             [band |-> <<>>, latest |-> [k \in 0..(n - 1) |-> Never]], Downward(n - 1, 0)).band
PickBands(links, in, n, clearance) == PickBandsFrom(links, in, n, clearance, EarliestInBands(links, in, n))

(***************************************************************************)
(* The earliest hits, and what set each: its band, the input before it or a *)
(* link; up to the first input past its ceiling.                            *)
(***************************************************************************)
OwnBand == -1
InputBefore == -2
Raise(at, k, hit, source) ==
    IF hit > at.hit[k] THEN [at EXCEPT !.hit = (k :> hit) @@ @, !.source = (k :> source) @@ @] ELSE at

PassInput(at, links, margin, ceiling, k) ==
    LET ordered == IF k > 0 THEN Raise(at, k, at.hit[k - 1], InputBefore) ELSE at
        linked == FoldLeft(LAMBDA a, c : Raise(a, k, a.hit[links[c].before] + links[c].fixed + margin[c], c),
                           ordered, Into(links, k))
    IN  IF linked.hit[k] > ceiling[k] THEN [linked EXCEPT !.stopped = k] ELSE linked
PassForward(at, links, margin, ceiling) ==
    FoldLeft(LAMBDA a, k : IF a.stopped >= 0 THEN a ELSE PassInput(a, links, margin, ceiling, k),
             at, Upward(0, Cardinality(DOMAIN ceiling) - 1))
PassBack(at, links, margin) ==
    FoldLeft(LAMBDA a, c : Raise(a, links[c].after, a.hit[links[c].before] + links[c].fixed + margin[c], c), at, Back(links))

RECURSIVE Relax(_, _, _, _)
RelaxBack(forward, links, margin, ceiling) ==
    IF forward.stopped >= 0 \/ PassBack(forward, links, margin) = forward THEN forward
    ELSE Relax(PassBack(forward, links, margin), links, margin, ceiling)
Relax(at, links, margin, ceiling) == RelaxBack(PassForward(at, links, margin, ceiling), links, margin, ceiling)
Earliest(links, margin, low, ceiling) ==
    Relax([hit |-> low, source |-> [k \in DOMAIN low |-> OwnBand], stopped |-> -1], links, margin, ceiling)

\* The latest hits.
LatestBefore(at, links, margin, k) ==
    [j \in DOMAIN at |->
       Min({at[j]} \cup (IF j = k - 1 THEN {at[k]} ELSE {})
           \cup {at[k] - links[c].fixed - margin[c] : c \in {c \in ToSet(Into(links, k)) : links[c].before = j}})]
LatestBack(at, links, margin) ==
    FoldLeft(LAMBDA a, c : (links[c].before :> Least(a[links[c].before], a[links[c].after] - links[c].fixed - margin[c])) @@ a,
             at, Back(links))
LatestForward(at, links, margin) ==
    FoldLeft(LAMBDA a, k : LatestBefore(a, links, margin, k), at, Downward(Cardinality(DOMAIN at) - 1, 0))
RECURSIVE Latest(_, _, _)
LatestAfter(at, links, margin) ==
    IF LatestBack(at, links, margin) = at THEN at ELSE Latest(LatestBack(at, links, margin), links, margin)
Latest(ceiling, links, margin) == LatestAfter(LatestForward(ceiling, links, margin), links, margin)

(***************************************************************************)
(* While a path overruns a band its margins share what it leaves them, past *)
(* a frame of the fastest rate for each of its gaps.                        *)
(***************************************************************************)
RECURSIVE PathTo(_, _, _, _)
PathTo(k, source, links, path) ==
    IF source[k] = OwnBand THEN [from |-> k, links |-> path]
    ELSE IF source[k] = InputBefore THEN PathTo(k - 1, source, links, path)
    ELSE IF Len(path) = Cardinality(DOMAIN source) THEN [from |-> -1, links |-> path]
    ELSE PathTo(links[source[k]].before, source, links, Append(path, source[k]))

GapsOn(links, path) == Cardinality({i \in DOMAIN path : IsGap(links[path[i]])})
RoomOn(links, path, from, high) == Most(0, high - MapThenSumSet(LAMBDA i : links[path[i]].fixed, DOMAIN path) - from)
EachShare(room, gaps, size) == (room - Least(room, gaps * FastestFrame)) \div (size + 1)
FrameShare(room, gaps, each) == each + Least(room, gaps * FastestFrame) \div (gaps + 1)

Lowered(st, links, path, k, high, each, frames) ==
    [ceiling |-> (k :> Most(st.ceiling[k], high - frames)) @@ st.ceiling,
     margin |-> [c \in DOMAIN st.margin |->
                   IF c \in ToSet(path) THEN Least(st.margin[c], IF IsGap(links[c]) THEN frames ELSE each) ELSE st.margin[c]]]
LowerPath(st, links, path, k, high, room, gaps, each) == Lowered(st, links, path, k, high, each, FrameShare(room, gaps, each))
LowerFor(st, links, path, k, high, room, gaps) ==
    LowerPath(st, links, path, k, high, room, gaps, EachShare(room, gaps, Len(path)))
LowerAlong(st, links, low, k, high, path) ==
    LowerFor(st, links, path.links, k, high, RoomOn(links, path.links, low[path.from], high), GapsOn(links, path.links))

Settled(st) == [margin |-> st.margin, ceiling |-> st.ceiling, stopped |-> -1]
StoppedAt(st, k) == [margin |-> st.margin, ceiling |-> st.ceiling, stopped |-> k]
\* A fever window that closes on itself, or margins that never settle, are errors.
ScheduleError == -2
RECURSIVE SettleRounds(_, _, _, _, _)
SettleTo(lowered, st, links, low, high, k, rounds) ==
    IF lowered = st THEN StoppedAt(st, k) ELSE SettleRounds(lowered, links, low, high, rounds - 1)
SettlePath(st, links, low, high, k, path, rounds) ==
    IF path.from < 0 THEN StoppedAt(st, ScheduleError)
    ELSE SettleTo(LowerAlong(st, links, low, k, high[k], path), st, links, low, high, k, rounds)
SettleAt(st, links, low, high, at, rounds) ==
    IF at.stopped < 0 THEN Settled(st)
    ELSE SettlePath(st, links, low, high, at.stopped, PathTo(at.stopped, at.source, links, <<>>), rounds)
SettleRounds(st, links, low, high, rounds) ==
    IF rounds = 0 THEN StoppedAt(st, ScheduleError)
    ELSE SettleAt(st, links, low, high, Earliest(links, st.margin, low, st.ceiling), rounds)
SettleMargins(links, low, high) ==
    SettleRounds([margin |-> [c \in DOMAIN links |-> FrameMargin], ceiling |-> [k \in DOMAIN low |-> Most(high[k] - FrameMargin, low[k])]],
           links, low, high, Cardinality(DOMAIN low) + Len(links) + 1)

(***************************************************************************)
(* The hits under settled margins: each activation in the middle of its     *)
(* free range or near its chart time, then every input near its own.        *)
(***************************************************************************)
Between(low, x, high) == Least(Most(x, low), high)
PinAt(st, k, at) == [low |-> (k :> at) @@ st.low, ceiling |-> (k :> at) @@ st.ceiling]
PinWindow(st, in, links, margin, w) ==
    LET soonest == Earliest(links, margin, st.low, st.ceiling).hit[w.first]
        last == Latest(st.ceiling, links, margin)[w.first]
    IN  PinAt(st, w.first, IF w.middle THEN (soonest + last) \div 2 ELSE Between(soonest, in.chart[w.first], last))
NearChart(in, links, margin, st, latest) ==
    LET Floor(hits, k) == Max({st.low[k]} \cup (IF k > 0 THEN {hits[k - 1]} ELSE {})
                              \cup {hits[links[c].before] + links[c].fixed + margin[c] : c \in ToSet(Into(links, k))})
    IN  FoldLeft(LAMBDA hits, k : (k :> Least(Most(in.chart[k], Floor(hits, k)), latest[k])) @@ hits,
                 [k \in DOMAIN st.low |-> -Never], Upward(0, Cardinality(DOMAIN st.low) - 1))
HitsFrom(in, links, margin, st) == NearChart(in, links, margin, st, Latest(st.ceiling, links, margin))
HitsOf(in, links, margin, low, ceiling, windows) ==
    HitsFrom(in, links, margin,
             FoldLeft(LAMBDA st, w : PinWindow(st, in, links, margin, w), [low |-> low, ceiling |-> ceiling], windows))

(***************************************************************************)
(* The schedule: no input (-1) or the one without a frame of its own at the *)
(* fastest rate, the hits, and whether every margin is a full one.          *)
(***************************************************************************)
\* A wasted note needs a whole millisecond past its window.
FastestMargin(link) ==
    IF IsGap(link) THEN FastestFrame ELSE IF link.fixed > 0 THEN ((-link.fixed) % Tick) + Strict ELSE 0
FastestMargins(links) == [c \in DOMAIN links |-> FastestMargin(links[c])]
LowOf(bands) == [k \in DOMAIN bands |-> bands[k][1]]
HighOf(bands) == [k \in DOMAIN bands |-> bands[k][2]]
Reach(in, links, bands) ==
    Earliest(links, FastestMargins(links), LowOf(bands), [k \in DOMAIN bands |-> bands[k][2] + in.reach[k]]).stopped

Scheduled(stopped, hits, margin) ==
    [stopped |-> stopped, hits |-> hits, roomy |-> \A c \in DOMAIN margin : margin[c] = FrameMargin]
CheckGaps(links, hits, margin) ==
    LET late == {c \in DOMAIN links : IsGap(links[c]) /\ hits[links[c].after] <= hits[links[c].before]} IN
    Scheduled(IF late = {} THEN -1 ELSE links[Min(late)].after, hits, margin)
ScheduleSettled(in, links, windows, low, settled) ==
    IF settled.stopped # -1 THEN Scheduled(settled.stopped, <<>>, settled.margin)
    ELSE CheckGaps(links, HitsOf(in, links, settled.margin, low, settled.ceiling, windows), settled.margin)
ScheduleIn(in, links, windows, bands) ==
    ScheduleSettled(in, links, windows, LowOf(bands), SettleMargins(links, LowOf(bands), HighOf(bands)))
ScheduleTight(in, links, windows, bands) ==
    IF Reach(in, links, bands) >= 0 THEN Scheduled(Reach(in, links, bands), <<>>, <<>>) ELSE ScheduleIn(in, links, windows, bands)
ScheduleFirst(in, links, windows, bands, n) ==
    IF Reach(in, links, bands) >= 0 THEN ScheduleTight(in, links, windows, PickBands(links, in, n, FastestFrame))
    ELSE ScheduleIn(in, links, windows, bands)
ScheduleLinks(in, links, windows, n) == ScheduleFirst(in, links, windows, PickBands(links, in, n, FrameMargin), n)
ScheduleHits(in, windows) == ScheduleLinks(in, LinksOf(in, windows), windows, Cardinality(DOMAIN in.lane))
=============================================================================
