------------------------------ MODULE GemSearch ------------------------------
(***************************************************************************)
(* The exact gem search (solver/gem_search.py, solver/fg_scoring.py).       *)
(*                                                                         *)
(* A loadout has a budget of gems.  A split spends some on Fever Time and   *)
(* Fever Fill, which picks the frontier of surfaces it plays on; the rest   *)
(* go to Perfect Points, Combo, Fever and the element.  The answer for a    *)
(* loadout is its best allocation over the surfaces of every split.  Almost *)
(* all of them are skipped: splits another split beats, and whatever a      *)
(* bound shows to stay below the best score so far, or below the floor the  *)
(* caller gives.  The batches of a song share the groups of splits (the     *)
(* memo), and a batch is cut into chunks that a few threads score.          *)
(***************************************************************************)
EXTENDS GemAllocation

CONSTANTS Tile,
          GemSongs,        \* the songs to search: colors, frontiers, batches of requests
          SearchWorkers    \* _FG_CPU_SEARCH_WORKERS

VARIABLES gemSong,     \* the song under search
          gemMemo,     \* the groups of each pre-gem <<FT, FF>> seen, and the shapes of the frontiers they reach
          requests,    \* the distinct loadouts of the open batch, with their floors
          chunks,      \* their positions, in scoring order, cut for the threads
          held,        \* of each chunk, the stat line and the range its bound tables were filled for
          scored,      \* of each chunk, the rows of the loadouts scored so far
          answers      \* the winners of the closed batches
gemVars == <<gemSong, gemMemo, requests, chunks, held, scored, answers>>

BlockMargin == 1025
PairMargin == 1024
ChunksPerWorker == 2

(***************************************************************************)
(* The splits of a pre-gem <<FT, FF>> that no other one beats.              *)
(***************************************************************************)
\* Past its cap a gem that adds neither colors nor value is beaten.
NotPastCap(stat, gems, first, none) ==
    (first.value < none.value \/ first.gain = <<0, 0>>)
        => \A g \in 1..gems : StatOf(stat + FeverGain * g) # StatOf(stat + FeverGain * (g - 1))

Beats(splits, o, r) ==
    LET x == splits[o]
        y == splits[r]
    IN  /\ o # r /\ x.residual >= y.residual
        /\ \/ x.value > y.value
           \/ /\ x.gain[1] >= y.gain[1] /\ x.gain[2] >= y.gain[2]
              /\ (x.residual > y.residual \/ x.gain # y.gain \/ o < r)

Reached(key, splits) ==
    {i \in DOMAIN splits : /\ NotPastCap(key[1], splits[i].ft, splits[GemBudget + 2], splits[1])
                           /\ NotPastCap(key[2], splits[i].ff, splits[2], splits[1])}

\* Frontier by frontier as they are first reached, the splits there that are kept.
KeptOn(splits, frontier) ==
    LET Together(i) == {o \in DOMAIN frontier : frontier[o] = frontier[i]}
        GroupsFrom(i) ==
            IF i \in DOMAIN frontier /\ \A o \in Together(i) : i <= o
            THEN SelectSeq(Upward(i, Len(splits)), LAMBDA o : o \in Together(i) /\ \A r \in Together(i) : ~Beats(splits, r, o))
            ELSE <<>>
        kept == FlattenSeq([i \in DOMAIN splits |-> GroupsFrom(i)])
    IN  [n \in DOMAIN kept |-> [split |-> splits[kept[n]], frontier |-> frontier[kept[n]]]]
KeptAmong(song, key, splits) ==
    KeptOn(splits, [i \in Reached(key, splits) |-> FrontierAtStats(song, key, splits[i])])
KeptSplits(song, key) == KeptAmong(song, key, SplitsOf(GemColors(song)))

(***************************************************************************)
(* The bounds of a frontier, and of the Greats of a surface.               *)
(***************************************************************************)
\* Mutant: the bound of a frontier is that of its first surface.
FrontierShapeOfFirst(song, frontier) == Shape(song, frontier[1])

\* The frontier's most fever, with the totals every surface of the song has.
FrontierShape(song, frontier) ==
    LET shapes == {Shape(song, frontier[i]) : i \in DOMAIN frontier}
        one == CHOOSE x \in shapes : TRUE
        a == Max({x.a : x \in shapes})
        f == Max({x.f : x \in shapes})
    IN  [a |-> a, e |-> one.a + one.e - a, f |-> f, g |-> one.f + one.g - f]

\* What the Greats of a surface lose at the least, in thirds.
GreatShape(song, s, gap) ==
    LET head == {i \in s.G : i < song.total} IN
    IF gap < 3 THEN [a |-> 0, e |-> 0, f |-> 0, g |-> 0]
    ELSE [a |-> HeadLen * gap * s.q, e |-> HeadLen * gap * s.n, f |-> HeadLen * gap * Cardinality(head \cap s.F),
          g |-> HeadLen * (gap * Cardinality(head \ s.F) - 3 * (s.n + s.q))]
LostAt(great, combo, fever) == ShapeValue(great, combo, fever) \div 3

(***************************************************************************)
(* The bound tables of a stat line <<PP, CM, FM>>.                          *)
(***************************************************************************)
\* The (CM, FM) block at a column and a place in it: its gems, its base over element gems, its best and worst corner.
BlockWith(w, c, cm0, cm1, fm0, fm1) ==
    LET More(gem, low, high) == (IF gem > Worth(w.ov) THEN high ELSE low) * (gem - Worth(w.ov)) IN
    [cm0 |-> cm0, cm1 |-> cm1, fm0 |-> fm0, fm1 |-> fm1,
     base |-> More(Worth(w.cm), cm0, cm1) + More(Worth(w.fm), fm0, fm1),
     combo |-> c.cm[cm1], fever |-> c.fm[fm1], lowCombo |-> c.cm[cm0], lowFever |-> c.fm[fm0]]
TileBlock(w, c, j, k) ==
    BlockWith(w, c, j * Tile, Least(j * Tile + Tile - 1, MaxGems(c.cm)), k * Tile, Least(k * Tile + Tile - 1, MaxGems(c.fm)))

LastColumn(c, gems) == Least(MaxGems(c.cm), gems) \div Tile
LastBlock(c, gems, j) == Least(MaxGems(c.fm), gems - j * Tile) \div Tile

\* A column's most base, and its most base x fever as a chord over the range of deltas (its slope in hundredths).
ColumnTerms(blocks, range) ==
    LET MostAt(delta) == Max({(b.base + delta) * b.fever : b \in blocks}) IN
    [base |-> Max({b.base : b \in blocks}), low |-> MostAt(range[1]),
     slope |-> DivUp(100 * (MostAt(range[2]) - MostAt(range[1])), range[2] - range[1])]

BlocksOf(w, c) ==
    [j \in 0..LastColumn(c, GemBudget) |-> [k \in 0..LastBlock(c, GemBudget, j) |-> TileBlock(w, c, j, k)]]
TermsOf(blocks, range) ==
    [j \in DOMAIN blocks |-> [k \in DOMAIN blocks[j] |-> ColumnTerms({blocks[j][i] : i \in 0..k}, range)]]

\* The terms of a column for a budget: combo x base x fever, its slope, combo x base, and so on, then without combo.
TermsAt(t, combo, shift, low) ==
    LET fever == 100 * t.low + (shift - low) * t.slope IN
    <<combo * fever, combo * t.slope, combo * (t.base + shift), combo, fever, t.slope, t.base + shift>>
BudgetTerms(w, c, blocks, terms, low, r) ==
    LET columns == {TermsAt(terms[j][LastBlock(c, r, j)], blocks[j][0].combo,
                            r * Worth(w.ov) + MostAdded(c, r - j * Tile), low) : j \in 0..LastColumn(c, r)}
    IN  [n \in 1..7 |-> Max({x[n] : x \in columns})]
TablesFor(w, c, blocks, terms, low) ==
    [curves |-> c, blocks |-> blocks, terms |-> terms, low |-> low,
     budget |-> [r \in 0..GemBudget |-> BudgetTerms(w, c, blocks, terms, low, r)]]
TablesWith(w, c, blocks, range) == TablesFor(w, c, blocks, TermsOf(blocks, range), range[1])
TablesOn(w, c, range) == TablesWith(w, c, BlocksOf(w, c), range)
Tables(w, line, range) == TablesOn(w, LineCurves(w, line), range)

BudgetBound(c, delta, x) ==
    x.a * DivUp(c[1] + delta * c[2], 100) + 10 * x.e * (c[3] + delta * c[4])
    + 10 * x.f * DivUp(c[5] + delta * c[6], 100) + 100 * x.g * (c[7] + delta)
ColumnBound(t, combo, low, delta, x) ==
    (t.low + DivUp((delta - low) * t.slope, 100)) * (combo * x.a + 10 * x.f) + (t.base + delta) * (10 * combo * x.e + 100 * x.g)
BlockBound(b, delta, x) == (b.base + delta) * ShapeValue(x, b.combo, b.fever)

(***************************************************************************)
(* The search of a loadout [stats: <<PP, CM, FM, primary, secondary, FT,    *)
(* FF>>, floor], against the score to reach.                                *)
(***************************************************************************)
\* What the search of a group uses of the song, the tables and the group.
ContextOn(w, t, colors, residual) ==
    [w |-> w, c |-> t.curves, base |-> Worth(colors), residual |-> residual, colors |-> colors,
     whole |-> Worth(colors) + residual * Worth(w.ov), gap |-> Worth(colors) + 3 * (t.curves.pp[0] - GreatPoints)]
GroupContext(w, t, stats, split) ==
    ContextOn(w, t, <<stats[4] + split.gain[1], stats[5] + split.gain[2]>>, split.residual)

\* The blocks the frontier's bound leaves a group, each with its delta.
LiveBlocks(x, t, shape, least) ==
    LET r == x.residual
        Delta(gems) == x.whole + MostAdded(x.c, gems)
        InColumn(j) ==
            LET last == LastBlock(x.c, r, j)
                all == [k \in 1..(last + 1) |->
                          [at |-> t.blocks[j][k - 1], delta |-> Delta(r - j * Tile - t.blocks[j][k - 1].fm0)]]
            IN  IF Reaches(ColumnBound(t.terms[j][last], t.blocks[j][0].combo, t.low, Delta(r - j * Tile), shape), BlockMargin, least)
                THEN SelectSeq(all, LAMBDA b : Reaches(BlockBound(b.at, b.delta, shape), BlockMargin, least))
                ELSE <<>>
    IN  FlattenSeq([j \in 1..(LastColumn(x.c, r) + 1) |-> InColumn(j - 1)])

\* Over the live blocks: the highest frontier bound (its margin is added where the ceiling is compared), and the lowest
\* base and multipliers of the best and worst corners.
Summary(live, most) ==
    LET Low(Of(_)) == Min({Of(live[n]) : n \in DOMAIN live}) IN
    [peak |-> Max({BlockBound(live[n].at, live[n].delta, most) : n \in DOMAIN live}),
     base |-> Low(LAMBDA b : b.at.base + b.delta), combo |-> Low(LAMBDA b : b.at.combo), fever |-> Low(LAMBDA b : b.at.fever),
     lowCombo |-> Low(LAMBDA b : b.at.lowCombo), lowFever |-> Low(LAMBDA b : b.at.lowFever)]
SurfaceCeiling(sum, most, shape, great) ==
    sum.peak
    - sum.base * ShapeValue([a |-> most.a - shape.a, e |-> most.e - shape.e, f |-> most.f - shape.f, g |-> most.g - shape.g],
                            sum.combo, sum.fever)
    - LostAt(great, sum.lowCombo, sum.lowFever)

\* A row of a block: the CM gems, then each number of FM gems, then of PP gems, each against its own bound.
SearchRow(song, x, s, shape, great, least, b, cm, best) ==
    LET left == x.residual - cm
        top == Least(b.fm1, left)
        lin == IF Worth(x.w.fm) > Worth(x.w.ov) THEN top ELSE b.fm0
        combo == x.c.cm[cm]
        BaseAt(fm) == x.base + cm * Worth(x.w.cm) + fm * Worth(x.w.fm) + (left - fm) * Worth(x.w.ov)
        Beyond(base, fm, lost, sofar) ==
            Reaches(base * ShapeValue(shape, combo, x.c.fm[fm]) - LostAt(great, combo, x.c.fm[lost]), PairMargin,
                    Most(sofar.score, least))
        Pair(sofar, fm) ==
            IF ~Beyond(BaseAt(fm) + MostAdded(x.c, left - fm), fm, fm, sofar) THEN sofar
            ELSE FoldLeft(LAMBDA acc, pp :
                     LET score == AllocationScore(song, x, s, <<cm, fm, pp>>) IN
                     IF /\ Beyond(BaseAt(fm) + pp * (Worth(x.w.pp) - Worth(x.w.ov)) + x.c.pp[pp], fm, fm, acc)
                        /\ Improves(score, <<cm, fm, pp>>, acc)
                     THEN [score |-> score, gems |-> <<cm, fm, pp>>] ELSE acc,
                     sofar, Upward(0, Least(MaxGems(x.c.pp), left - fm)))
    IN  IF top < b.fm0 \/ ~Beyond(BaseAt(lin) + MostAdded(x.c, left - b.fm0), top, b.fm0, best) THEN best
        ELSE FoldLeft(Pair, best, Upward(b.fm0, top))

SearchShape(song, x, s, shape, great, most, live, summary, least, best) ==
    LET InBlock(sofar, b) ==
            IF Reaches(BlockBound(b.at, b.delta, shape) - LostAt(great, b.at.lowCombo, b.at.lowFever), BlockMargin,
                       Most(sofar.score, least))
            THEN FoldLeft(LAMBDA acc, cm : SearchRow(song, x, s, shape, great, least, b.at, cm, acc),
                          sofar, Upward(b.at.cm0, Least(b.at.cm1, x.residual)))
            ELSE sofar
    IN  IF Reaches(SurfaceCeiling(summary, most, shape, great), BlockMargin, Most(best.score, least))
        THEN FoldLeft(InBlock, best, live)
        ELSE best

\* A surface's best takes the place of the group's, and a group's of the loadout's, only when it is higher.
Raised(sofar, best, i) == IF best.score > sofar.score THEN [score |-> best.score, gems |-> best.gems, surface |-> i] ELSE sofar
SearchLive(song, x, frontier, most, live, summary, least) ==
    LET Surface(sofar, i) ==
            Raised(sofar, SearchShape(song, x, frontier[i], Shape(song, frontier[i]), GreatShape(song, frontier[i], x.gap),
                                      most, live, summary, least, [score |-> sofar.score, gems |-> sofar.gems]), i)
    IN  FoldLeft(Surface, [score |-> -1, gems |-> <<0, 0, 0>>, surface |-> 1], Upward(1, Len(frontier)))
SearchBlocks(song, x, frontier, most, live, least) ==
    IF live = <<>> THEN [score |-> -1, gems |-> <<0, 0, 0>>, surface |-> 1]
    ELSE SearchLive(song, x, frontier, most, live, Summary(live, most), least)

RaisedBy(sofar, found, g) ==
    IF found.score > sofar.score THEN [score |-> found.score, gems |-> found.gems, surface |-> found.surface, group |-> g]
    ELSE sofar
SearchGroup(song, x, t, g, most, least, sofar) ==
    IF Reaches(BudgetBound(t.budget[x.residual], x.base, most), BlockMargin, least)
    THEN RaisedBy(sofar, SearchBlocks(song, x, song.frontiers[g.frontier], most, LiveBlocks(x, t, most, least), least), g)
    ELSE sofar

\* The row of a loadout: its first group with the highest score.
SearchLoadout(song, w, t, request, groups, shapes) ==
    LET Group(sofar, g) == SearchGroup(song, GroupContext(w, t, request.stats, g.split), t, g, shapes[g.frontier],
                                       Most(request.floor, sofar.score), sofar)
    IN  FoldLeft(Group, [score |-> -2, gems |-> <<0, 0, 0>>, surface |-> 1, group |-> <<>>], groups)

(***************************************************************************)
(* A batch: the distinct rows asked for, each with the lowest of its        *)
(* floors; their keys' groups, which the memo may hold from a batch before; *)
(* their order by stat line, cut into chunks of about as many groups.       *)
(***************************************************************************)
Distinct(batch) ==
    LET first == SelectSeq(Upward(1, Len(batch)), LAMBDA i : \A j \in 1..(i - 1) : batch[j].stats # batch[i].stats) IN
    [n \in DOMAIN first |->
       [stats |-> batch[first[n]].stats,
        floor |-> Min({batch[i].floor : i \in {j \in DOMAIN batch : batch[j].stats = batch[first[n]].stats}})]]

KeyOf(request) == <<request.stats[6], request.stats[7]>>
LineOf(request) == SubSeq(request.stats, 1, 3)
LineBefore(reqs, i, j) ==
    Before(LineOf(reqs[i]), LineOf(reqs[j])) \/ (LineOf(reqs[i]) = LineOf(reqs[j]) /\ i < j)
ScoringOrder(reqs) == SortSeq(Upward(1, Len(reqs)), LAMBDA i, j : LineBefore(reqs, i, j))

CutChunks(order, costs) ==
    LET count == Len(order)
        parts == Least(SearchWorkers * ChunksPerWorker, count)
        UpTo(n) == MapThenSumSet(LAMBDA i : costs[i], 1..n)
        cuts == {0, count} \cup (IF SearchWorkers <= 1 THEN {} ELSE
                   {Cardinality({n \in 1..count : UpTo(n) <= (UpTo(count) * i) \div parts}) : i \in 1..(parts - 1)})
        NextCut(cut) == Min({c \in cuts : c > cut})
    IN  FlattenSeq([n \in 1..count |-> IF n - 1 \in cuts THEN <<SubSeq(order, n, NextCut(n - 1))>> ELSE <<>>])

GroupsFor(keys) == gemMemo.groups @@ [k \in keys \ DOMAIN gemMemo.groups |-> KeptSplits(gemSong, k)]
ShapesFor(frontiers) ==
    gemMemo.shapes @@ [f \in frontiers \ DOMAIN gemMemo.shapes |-> FrontierShape(gemSong, gemSong.frontiers[f])]
OpenBatch ==
    /\ requests = <<>> /\ Len(answers) < Len(gemSong.batches)
    /\ requests' = Distinct(gemSong.batches[Len(answers) + 1])
    /\ LET groups == GroupsFor({KeyOf(requests'[i]) : i \in DOMAIN requests'})
           Reach(i) == {groups[KeyOf(requests'[i])][n].frontier : n \in DOMAIN groups[KeyOf(requests'[i])]}
       IN  gemMemo' = [groups |-> groups, shapes |-> ShapesFor(UNION {Reach(i) : i \in DOMAIN requests'})]
    /\ LET order == ScoringOrder(requests') IN
       chunks' = CutChunks(order, [n \in DOMAIN order |-> Len(gemMemo'.groups[KeyOf(requests'[order[n]])])])
    /\ held' = [c \in DOMAIN chunks' |-> <<>>] /\ scored' = [c \in DOMAIN chunks' |-> <<>>]
    /\ UNCHANGED <<gemSong, answers>>

\* The deltas the loadouts of a chunk from a place on with its stat line can have.
DeltaRange(w, reqs, chunk, at, most) ==
    LET same == {i \in at..Len(chunk) : \A j \in at..i : LineOf(reqs[chunk[j]]) = LineOf(reqs[chunk[at]])}
        colors == {2 * reqs[chunk[i]].stats[4] + reqs[chunk[i]].stats[5] : i \in same}
        gained == Max({Worth(g.split.gain) : g \in UNION {ToSet(gemMemo.groups[KeyOf(reqs[i])]) : i \in DOMAIN reqs}})
    IN  <<Min(colors) + most[0], Max(colors) + gained + GemBudget * Worth(w.ov) + most[Cardinality(DOMAIN most) - 1] + 1>>

\* The tables of a chunk stay while the stat line does.
Refilled(w, c, at) ==
    LET line == LineOf(requests[chunks[c][at]]) IN
    IF at > 1 /\ line = LineOf(requests[chunks[c][at - 1]]) THEN held[c]
    ELSE [line |-> line, range |-> DeltaRange(w, requests, chunks[c], at, LineCurves(w, line).most)]

\* Threads take the chunks in order, SearchWorkers at a time.
Underway == {c \in DOMAIN chunks : scored[c] # <<>> /\ Len(scored[c]) < Len(chunks[c])}
Row(w, c, request) ==
    SearchLoadout(gemSong, w, Tables(w, held'[c].line, held'[c].range), request, gemMemo.groups[KeyOf(request)], gemMemo.shapes)
ScoreNext(c) ==
    /\ Len(scored[c]) < Len(chunks[c])
    /\ c \in Underway \/ (Cardinality(Underway) < SearchWorkers /\ \A d \in DOMAIN chunks : d < c => scored[d] # <<>>)
    /\ held' = [held EXCEPT ![c] = Refilled(GemColors(gemSong), c, Len(scored[c]) + 1)]
    /\ scored' = [scored EXCEPT ![c] = Append(@, Row(GemColors(gemSong), c, requests[chunks[c][Len(@) + 1]]))]
    /\ UNCHANGED <<gemSong, gemMemo, requests, chunks, answers>>

\* The loadouts that reach their floor, with the rest of their gems in the element.
NoWinner == <<>>
WinnerOf(request, row) ==
    IF row.score < request.floor \/ row.group = <<>> THEN NoWinner
    ELSE [score |-> row.score, split |-> row.group.split, frontier |-> row.group.frontier, surface |-> row.surface,
          gems |-> row.gems]

CloseBatch ==
    /\ requests # <<>> /\ \A c \in DOMAIN chunks : Len(scored[c]) = Len(chunks[c])
    /\ LET order == FlattenSeq(chunks)
           rows == FlattenSeq(scored)
       IN  answers' = Append(answers, [i \in DOMAIN requests |->
                        [request |-> requests[i], winner |-> WinnerOf(requests[i], rows[CHOOSE n \in DOMAIN order : order[n] = i])]])
    /\ requests' = <<>> /\ chunks' = <<>> /\ held' = <<>> /\ scored' = <<>>
    /\ UNCHANGED <<gemSong, gemMemo>>

GemInit ==
    /\ gemSong \in GemSongs /\ gemMemo = [groups |-> <<>>, shapes |-> <<>>]
    /\ requests = <<>> /\ chunks = <<>> /\ held = <<>> /\ scored = <<>> /\ answers = <<>>

SearchIsOver == Len(answers) = Len(gemSong.batches)
GemNext == OpenBatch \/ (\E c \in DOMAIN chunks : ScoreNext(c)) \/ CloseBatch


\* The first group, surface and allocation of the groups kept that reach a score.
IsFirstWith(song, answer, groups) ==
    LET stats == answer.request.stats
        win == answer.winner
        c == LineCurves(GemColors(song), SubSeq(stats, 1, 3))
        X(g) == [w |-> GemColors(song), c |-> c, residual |-> g.split.residual,
                 colors |-> <<stats[4] + g.split.gain[1], stats[5] + g.split.gain[2]>>]
        Of(g) == {a \in Allocations(g.split.residual) : a[1] <= MaxGems(c.cm) /\ a[2] <= MaxGems(c.fm) /\ a[3] <= MaxGems(c.pp)}
        Score(g, i, gems) == AllocationScore(song, X(g), song.frontiers[g.frontier][i], gems)
    IN  \E n \in DOMAIN groups :
          /\ groups[n] = [split |-> win.split, frontier |-> win.frontier]
          /\ win.gems \in Of(groups[n]) /\ Score(groups[n], win.surface, win.gems) = win.score
          /\ \A m \in 1..(n - 1) : \A i \in DOMAIN song.frontiers[groups[m].frontier] : \A a \in Of(groups[m]) :
                Score(groups[m], i, a) < win.score
          /\ \A i \in 1..win.surface : \A a \in Of(groups[n]) :
                (i < win.surface \/ Before(a, win.gems)) => Score(groups[n], i, a) < win.score

\* The pruned search finds the best play of every loadout asked for: its answer has the highest score of any split,
\* surface and allocation, the first one in the order of the groups, or none when that score is below every floor it
\* is asked with (solver/gem_search.py, gem_winners).
WinnersAreTheBest ==
    SearchIsOver => \A b \in DOMAIN answers : \A asked \in ToSet(gemSong.batches[b]) :
        \E one \in ToSet(answers[b]) :
            LET best == BestPlay(gemSong, asked.stats)
                floors == {other.floor : other \in {o \in ToSet(gemSong.batches[b]) : o.stats = asked.stats}}
            IN  /\ one.request.stats = asked.stats
                /\ IF best < Min(floors) THEN one.winner = NoWinner
                   ELSE one.winner # NoWinner /\ one.winner.score = best /\ IsFirstWith(gemSong, one, gemMemo.groups[KeyOf(asked)])
=============================================================================
