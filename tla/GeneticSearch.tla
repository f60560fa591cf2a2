--------------------------- MODULE GeneticSearch ---------------------------
(***************************************************************************)
(* The genetic algorithm of a song on the GPU (gpu/ga.py, gpu/kernels.py,   *)
(* gpu/scoring.py, solver/genetic_pipeline.py, solver/ftff_combos.py).      *)
(*                                                                         *)
(* Batches of runs breed loadouts for a few generations.  Every population  *)
(* is evaluated exactly: a loadout's pre-gem stats are looked up in a memo; *)
(* one genome of each new stats is searched, its combos (splits of the      *)
(* budget) by lanes that share the best score seen; the results are copied  *)
(* to its duplicates.  A run packs the top of its last population, and the  *)
(* best loadout of each run is polished until no swap of one item improves  *)
(* it.                                                                     *)
(*                                                                         *)
(* A song's items are their seven pre-gem stats <<PP, CM, FM, primary,      *)
(* secondary, FT, FF>>; item 0 is the empty slot.  Its last three slots are *)
(* the minis.  Draws of the random generator are choices.                   *)
(***************************************************************************)
EXTENDS GemAllocation

CONSTANTS GaSongs,      \* the songs: colors, frontiers, items, pools and the sizes of their search
          Lanes,        \* GA_FTFF_LANES
          MemoSize,     \* GA_EVAL_CACHE_SIZE
          FmRun,        \* _FM_RUN
          HeuristicK,   \* GA_INIT_HEURISTIC_K
          TournamentK,  \* GA_TOURNAMENT_K
          MaxGenomes,   \* MAX_GENOMES
          TopRows       \* GA_FG_CANDIDATES_PER_RUN

VARIABLES gaSong,    \* the song, by its place in GaSongs (0: none)
          gaAt,      \* what the host has launched last
          place,     \* the population's first run, its genomes per run, its generation, and what is left of a polish pass
          genes,     \* the population: the loadouts of the batch, run by run
          winners,   \* the genomes' winners
          search,    \* the genomes still to search, and the lanes of the first
          memory,    \* the evaluation memo, by slot
          runBest,   \* the best row of each run so far
          rows       \* the rows of each run's candidate table
geneticVars == <<gaSong, gaAt, place, genes, winners, search, memory, runBest, rows>>

BoundMargin == 1024
HeadMargin == 128
NoveltyRepairAttempts == 2
Unit == 100 * HeadLen      \* of the bounds
Mill == 1000               \* of the ratios, which are rounded up

\* The sequences that take an element of each set.
OneOfEach(sets) == FoldLeft(LAMBDA some, S : {Append(one, i) : one \in some, i \in S}, {<<>>}, sets)

(***************************************************************************)
(* Loadouts.                                                                *)
(***************************************************************************)
Pool(song, s) == Upward(song.pools[s][1], song.pools[s][1] + song.pools[s][2] - 1)
MiniSlots(song) == (Len(song.pools) - 2)..Len(song.pools)
BaseStats(song, loadout) ==
    [k \in 1..7 |-> song.fixed[k] + FoldLeft(LAMBDA sum, i : IF i > 0 THEN sum + song.items[i][k] ELSE sum, 0, loadout)]
StatKey(stats) == <<Least(stats[6], MaxStat), Least(stats[7], MaxStat)>>

\* Three minis in their order; _repair_mini_uniqueness redraws equal ones first, ten times at most.
\* Every draw may fail; song.unlucky bounds this case to some songs.
SortedMinis(loadout) ==
    LET n == Len(loadout)
        minis == SortSeq(SubSeq(loadout, n - 2, n), LAMBDA i, j : i < j)
    IN  SubSeq(loadout, 1, n - 3) \o minis
Redrawn(song, pool, mini, others) ==
    IF mini \notin others THEN {mini} ELSE IF song.unlucky \/ pool \subseteq others THEN pool ELSE pool \ others
RepairMinis(song, loadout) ==
    LET n == Len(loadout)
        pool == ToSet(Pool(song, n))
        Second == Redrawn(song, pool, loadout[n - 1], {loadout[n - 2]})
        Third(second) == Redrawn(song, pool, loadout[n], {loadout[n - 2], second})
    IN  IF Cardinality(pool) <= 1 THEN {loadout}
        ELSE UNION {{SortedMinis([loadout EXCEPT ![n - 1] = second, ![n] = third]) : third \in Third(second)} : second \in Second}

\* The items of a slot with the most 2 x primary + secondary + Perfect Points.
HeuristicTop(song, s) ==
    LET Value(i) == 2 * song.items[i][4] + song.items[i][5] + song.items[i][1]
        pool == ToSet(Pool(song, s))
        Better(i) == {j \in pool : Value(j) > Value(i) \/ (Value(j) = Value(i) /\ j < i)}
    IN  {i \in pool : Cardinality(Better(i)) < HeuristicK}

\* Every loadout of the pools.
Loadouts(song) ==
    LET Draw(s) == IF song.pools[s][2] = 0 THEN {0} ELSE ToSet(Pool(song, s)) IN
    OneOfEach([s \in DOMAIN song.pools |-> Draw(s)])

\* A run's first loadouts draw from the top items of each slot.
FirstLoadouts(song, genome) ==
    LET Draw(s) == IF song.pools[s][2] = 0 THEN {0}
                   ELSE IF genome <= song.copies THEN HeuristicTop(song, s) ELSE ToSet(Pool(song, s))
    IN  UNION {RepairMinis(song, loadout) : loadout \in OneOfEach([s \in DOMAIN song.pools |-> Draw(s)])}

\* Every loadout one item away, slot by slot, with its minis apart.
OneSwapNeighborhood(song, loadout) ==
    LET Others(s) == IF s \in MiniSlots(song) THEN {loadout[m] : m \in MiniSlots(song)} ELSE {loadout[s]}
        Swaps(s) == SelectSeq(Pool(song, s), LAMBDA i : i \notin Others(s))
    IN  FlattenSeq([s \in DOMAIN loadout |-> [n \in DOMAIN Swaps(s) |-> [loadout EXCEPT ![s] = Swaps(s)[n]]]])

(***************************************************************************)
(* The combos that can hold the winner of a pre-gem <<FT, FF>>.             *)
(***************************************************************************)
ReachableKeys(song) ==
    LET After(keys, s) ==
            {StatKey(<<0, 0, 0, 0, 0, k[1] + song.items[i][6], k[2] + song.items[i][7]>>) : k \in keys, i \in ToSet(Pool(song, s))}
    IN  FoldLeft(After, {StatKey(song.fixed)}, Upward(1, Len(song.pools)))

\* No gem of a combo goes past the cap.
WithinCaps(key, split) == key[1] + FeverGain * split.ft <= MaxStat /\ key[2] + FeverGain * split.ff <= MaxStat

\* An option (a combo and one of its surfaces) is beaten by more fever for no fewer gems and no less value.
OptionBeats(p, o) ==
    /\ o.surface.F \subseteq p.surface.F /\ p.surface.b >= o.surface.b
    /\ p.split.residual >= o.split.residual /\ p.split.value >= o.split.value
    /\ \/ <<p.surface, p.split.residual, p.split.value>> # <<o.surface, o.split.residual, o.split.value>>
       \/ p.combo > o.combo
ShortlistOn(song, key, splits) ==
    LET Surfaces(c) == ToSet(song.frontiers[FrontierAtStats(song, key, splits[c])])
        fit == {c \in DOMAIN splits : WithinCaps(key, splits[c])}
        options == UNION {{[combo |-> c, split |-> splits[c], surface |-> s] : s \in Surfaces(c)} : c \in fit}
        kept == {o.combo : o \in {o \in options : \A p \in options : ~OptionBeats(p, o)}}
    IN  SelectSeq(Upward(1, Len(splits)), LAMBDA c : c \in kept)
Shortlist(song) == [key \in ReachableKeys(song) |-> ShortlistOn(song, key, SplitsOf(GemColors(song)))]
Shortlists == [n \in DOMAIN GaSongs |-> Shortlist(GaSongs[n])]

(***************************************************************************)
(* The bounds of a surface: its pairs of CM and FM gems, the rest split     *)
(* best between Perfect Points and the element.                             *)
(***************************************************************************)
Context(song, w, c, base, colors, residual, surface) ==
    [w |-> w, c |-> c, base |-> base, colors |-> colors, residual |-> residual, surface |-> surface, shape |-> Shape(song, surface)]
MostCombo(x, fm) == Least(MaxGems(x.c.cm), x.residual - fm)
MostFever(x, cm) == Least(MaxGems(x.c.fm), x.residual - cm)
BestPerfect(x, left) ==
    Min({g \in 0..Least(MaxGems(x.c.pp), left) :
           g * (Worth(x.w.pp) - Worth(x.w.ov)) + x.c.pp[g] = MostAdded(x.c, left)})
PairBase(x, cm, fm) ==
    LET left == x.residual - cm - fm IN
    x.base + cm * Worth(x.w.cm) + fm * Worth(x.w.fm) + left * Worth(x.w.ov) + MostAdded(x.c, left)
PairBound(x, cm, fm) == PairBase(x, cm, fm) * ShapeValue(x.shape, x.c.cm[cm], x.c.fm[fm])
BoundScore(bound) == (bound + Unit * BoundMargin) \div Unit
PairFloor(song, x, cm, fm) == BoundScore(PairBound(x, cm, fm) - 2 * Unit * BoundMargin) - song.total

\* A pair near the bound's peak: along a row or a column it rises, then falls.
SeedPair(x) ==
    LET Climb(Bound(_), top) ==
            FoldLeft(LAMBDA r, step : LET mid == (r[1] + r[2]) \div 2 IN
                         IF r[1] >= r[2] THEN r ELSE IF Bound(mid + 1) > Bound(mid) THEN <<mid + 1, r[2]>> ELSE <<r[1], mid>>,
                     <<0, top>>, Upward(1, top))[1]
        InRow(fm) == Climb(LAMBDA k : PairBound(x, k, fm), MostCombo(x, fm))
        InColumn(cm) == Climb(LAMBDA k : PairBound(x, cm, k), MostFever(x, cm))
    IN  <<InRow(InColumn(InRow(0))), InColumn(InRow(InColumn(InRow(0))))>>

\* The exact score of a pair; -1 if the notes past the head, and the head before its floors, leave it below `floor`.
PairScore(song, x, gems, floor) ==
    LET combo == x.c.cm[gems[1]]
        fever == x.c.fm[gems[2]]
        base == PairBase(x, gems[1], gems[2])
        body == x.surface.b * ((base * combo * fever) \div 100) + (BodyTotal(song) - x.surface.b) * ((base * combo) \div 10)
        head == [x.shape EXCEPT !.a = @ - HeadLen * x.surface.b, !.e = @ - HeadLen * (BodyTotal(song) - x.surface.b)]
    IN  IF Reaches(base * ShapeValue(head, combo, fever), HeadMargin + body, floor)
        THEN AllocationScore(song, x, x.surface, gems) ELSE -1

\* surface_search: rows of FM gems, bounded whole, then by runs, then by pairs.
SurfaceSearch(song, x, floor, exact, from) ==
    LET Open(cm, fm, last, best) ==
            LET bound == PairBase(x, cm, fm) * ShapeValue(x.shape, x.c.cm[cm], x.c.fm[last]) IN
            bound + Unit * BoundMargin > Unit * best.score /\ Reaches(bound, BoundMargin, floor)
        Pair(best, cm, fm) ==
            LET gems == <<cm, fm, BestPerfect(x, x.residual - cm - fm)>>
                score == IF exact THEN PairScore(song, x, gems, Most(best.score, floor)) ELSE BoundScore(PairBound(x, cm, fm))
            IN  IF Open(cm, fm, fm, best) /\ Improves(score, gems, best) THEN [score |-> score, gems |-> gems] ELSE best
        Run(best, cm, fm, last) ==
            IF Open(cm, fm, last, best) THEN FoldLeft(LAMBDA acc, k : Pair(acc, cm, k), best, Upward(fm, last)) ELSE best
        Row(best, cm) ==
            LET top == MostFever(x, cm) IN
            IF ~Open(cm, 0, top, best) THEN best
            ELSE FoldLeft(LAMBDA acc, n : Run(acc, cm, n * FmRun, Least(n * FmRun + FmRun - 1, top)), best, Upward(0, top \div FmRun))
    IN  FoldLeft(Row, from, Upward(0, MostCombo(x, 0)))

\* The pair with the highest bound, from a seed.
BestBoundFrom(song, x, seed) ==
    SurfaceSearch(song, x, 0, FALSE,
                  [score |-> BoundScore(PairBound(x, seed[1], seed[2])),
                   gems |-> <<seed[1], seed[2], BestPerfect(x, x.residual - seed[1] - seed[2])>>])
BestBound(song, x) == BestBoundFrom(song, x, SeedPair(x))

(***************************************************************************)
(* What a genome's combos are searched with: an incumbent, a reference that *)
(* bounds every surface, and the combos whose bound reaches the incumbent.  *)
(***************************************************************************)
OptionsOf(song, w, stats, combo) ==
    LET split == SplitsOf(w)[combo]
        frontier == song.frontiers[FrontierAtStats(song, StatKey(stats), split)]
        colors == <<stats[4] + split.gain[1], stats[5] + split.gain[2]>>
    IN  [i \in DOMAIN frontier |-> [combo |-> combo, residual |-> split.residual, colors |-> colors,
                                    whole |-> Worth(colors) + split.residual * Worth(w.ov), surface |-> frontier[i]]]

\* The first of the most valuable surfaces at a pair, of the combos that can spend `least` gems.
MostValuable(song, w, stats, options, pair, least) ==
    LET combo == Curves.cm[StatOf(stats[2] + NormalGain * pair[1])]
        fever == Curves.fm[StatOf(stats[3] + FeverGain * pair[2])]
        cost == pair[1] * (Worth(w.ov) - Worth(w.cm)) + pair[2] * (Worth(w.ov) - Worth(w.fm))
        Value(o) == (o.whole - cost + Curves.pp[StatOf(stats[1])]) * ShapeValue(Shape(song, o.surface), combo, fever)
        fit == SelectSeq(options, LAMBDA o : o.residual >= least)
    IN  FoldLeft(LAMBDA top, o : IF Value(o) > Value(top) THEN o ELSE top, fit[1], fit)

\* `whole` is the base value of the reference's surface without CM, FM and PP gems.
ReferenceOf(x, whole, best) ==
    LET cm == MostCombo(x, 0)
        fm == MostFever(x, 0)
        least == whole - cm * (Worth(x.w.ov) - Worth(x.w.cm)) - fm * (Worth(x.w.ov) - Worth(x.w.fm))
    IN  [whole |-> whole, top |-> best + DivUp(best, 100 * Mill), shape |-> x.shape,
         combo |-> {x.c.cm[0], x.c.cm[cm]}, fever |-> {x.c.fm[0], x.c.fm[fm]},
         low |-> Most(least, x.base) + x.c.pp[0], high |-> PairBase(x, 0, 0)]

\* Whether the reference lets a surface of `shape`, on a combo of base value `whole`, reach a score: its value at most
\* over the reference's, at the corners of the multipliers, and at the lowest and highest base value.
ReferenceReaches(ref, whole, shape, floor) ==
    LET Ratio(base) == DivUp(Mill * (base + whole - ref.whole), base)
        corners == ref.combo \X ref.fever
        shapes == Max({DivUp(Mill * ShapeValue(shape, m[1], m[2]), ShapeValue(ref.shape, m[1], m[2])) : m \in corners})
    IN  ref.low <= 0 \/ DivUp(DivUp(ref.top * shapes, Mill) * Most(Ratio(ref.low), Ratio(ref.high)), Mill) >= floor

Reaching(song, w, stats, ref, combos, floor) ==
    LET Stays(o) == ReferenceReaches(ref, o.whole, Shape(song, o.surface), floor) IN
    SelectSeq(combos, LAMBDA c : \E o \in ToSet(OptionsOf(song, w, stats, c)) : Stays(o))

PreparedWith(song, w, c, stats, combos, incumbent, ref) ==
    [curves |-> c, incumbent |-> incumbent, ref |-> ref, all |-> combos,
     survivors |-> Reaching(song, w, stats, ref, combos, incumbent)]
PreparedUnder(song, w, c, stats, combos, options, whole, wide, best) ==
    LET likely == MostValuable(song, w, stats, options, best.gems, best.gems[1] + best.gems[2])
        at == Context(song, w, c, Worth(likely.colors), likely.colors, likely.residual, likely.surface)
    IN  PreparedWith(song, w, c, stats, combos, PairFloor(song, at, best.gems[1], best.gems[2]), ReferenceOf(wide, whole, best.score))
PreparedFor(song, w, c, stats, combos, options, whole, wide) ==
    PreparedUnder(song, w, c, stats, combos, options, whole, wide, BestBound(song, wide))
PreparedBelow(song, w, c, stats, combos, options, top, widest) ==
    PreparedFor(song, w, c, stats, combos, options, top.whole,
                Context(song, w, c, top.whole - widest * Worth(w.ov), top.colors, widest, top.surface))
PreparedFrom(song, w, c, stats, combos, options) ==
    LET caps == <<Most(0, DivUp(MaxStat - stats[2], NormalGain)), Most(0, DivUp(MaxStat - stats[3], FeverGain))>> IN
    PreparedBelow(song, w, c, stats, combos, options, MostValuable(song, w, stats, options, caps, 0),
                  Max({o.residual : o \in ToSet(options)}))
PreparedOn(song, w, stats, combos) ==
    PreparedFrom(song, w, LineCurves(w, SubSeq(stats, 1, 3)), stats, combos,
                 FlattenSeq([n \in DOMAIN combos |-> OptionsOf(song, w, stats, combos[n])]))
Prepared(n) ==
    LET song == GaSongs[n] IN
    [stats \in {BaseStats(song, l) : l \in Loadouts(song)} |->
       PreparedOn(song, GemColors(song), stats, Shortlists[n][StatKey(stats)])]
Preparations == [n \in DOMAIN GaSongs |-> Prepared(n)]

\* exact_gem_search: the best allocation on the surfaces of a combo, the first of a tie.
NoPair == [score |-> -1, gems |-> <<0, 0, 0>>]
ComboSearch(song, w, stats, prep, combo, floor) ==
    LET Surface(best, o) ==
            LET x == Context(song, w, prep.curves, Worth(o.colors), o.colors, o.residual, o.surface)
                found == SurfaceSearch(song, x, floor, TRUE, NoPair)
            IN  IF ReferenceReaches(prep.ref, o.whole, x.shape, floor) /\ found.score > best.score THEN found ELSE best
    IN  FoldLeft(Surface, NoPair, OptionsOf(song, w, stats, combo))

(***************************************************************************)
(* The evaluation of a population (evaluate_kernel).                        *)
(***************************************************************************)
Song == GaSongs[gaSong]
NoWinner == [score |-> -1, combo |-> 1, gems |-> <<0, 0, 0>>]
NoEntry == [stats |-> <<>>, winner |-> NoWinner]
StatsOf(g) == BaseStats(Song, genes[g])
MemoSlot(stats) == FoldLeft(LAMBDA h, v : (3 * h + v) % MemoSize, 0, stats)

\* Mutant: any entry of a genome's slot is its result.
HitsAnyEntry(g) == memory[MemoSlot(StatsOf(g))].winner.score >= 0

MemoHit(g) ==
    LET entry == memory[MemoSlot(StatsOf(g))] IN
    entry.winner.score >= 0 /\ entry.stats = StatsOf(g)

\* The first miss of each slot, and the genome that is searched for another.
Misses(slot) == {g \in DOMAIN genes : ~MemoHit(g) /\ MemoSlot(StatsOf(g)) = slot}
Representative(g) ==
    LET owner == Min(Misses(MemoSlot(StatsOf(g)))) IN
    IF ~MemoHit(g) /\ StatsOf(owner) = StatsOf(g) THEN owner ELSE g

\* A genome's combos: the survivors, one for each lane, or the whole shortlist, strided, when the lanes are too few.
LaneCombos(prep) == IF Len(prep.survivors) <= Lanes THEN prep.survivors ELSE prep.all
PreparedOf(g) == Preparations[gaSong][StatsOf(g)]
SearchWith(todo, prep) ==
    [todo |-> todo, seen |-> {prep.incumbent},
     lanes |-> [l \in 1..Least(Lanes, Len(prep.survivors)) |-> [best |-> NoWinner, next |-> l]]]
NoSearch == [todo |-> <<>>, seen |-> {}, lanes |-> <<>>]
SearchOf(todo) == IF todo = <<>> THEN NoSearch ELSE SearchWith(todo, PreparedOf(todo[1]))

\* The stats, the memo's hits and the genomes to search.
FindRepresentatives ==
    /\ gaAt = "evaluate" /\ gaAt' = "search"
    /\ winners' = [g \in DOMAIN genes |-> IF MemoHit(g) THEN memory[MemoSlot(StatsOf(g))].winner ELSE NoWinner]
    /\ search' = SearchOf(SelectSeq(Upward(1, Len(genes)), LAMBDA g : ~MemoHit(g) /\ Representative(g) = g))
    /\ UNCHANGED <<gaSong, place, genes, memory, runBest, rows>>

\* A lane searches its next combo against its own best and the shared incumbent, of which it may read any value there
\* has been.  (Genomes share nothing until the results are copied: they are searched one after the other.)
TakeResult(l, combo, found) ==
    LET better == found.score > search.lanes[l].best.score IN
    search' = [search EXCEPT
        !.lanes[l] = [best |-> IF better THEN [score |-> found.score, combo |-> combo, gems |-> found.gems] ELSE @.best,
                      next |-> @.next + Lanes],
        !.seen = IF better THEN @ \cup {Max(@ \cup {found.score})} ELSE @]
SearchNext(l, stats, prep, combos) ==
    /\ search.lanes[l].next <= Len(combos)
    /\ \E incumbent \in search.seen :
         TakeResult(l, combos[search.lanes[l].next],
                    ComboSearch(Song, GemColors(Song), stats, prep, combos[search.lanes[l].next],
                                Most(search.lanes[l].best.score, incumbent)))
LaneStep(l) ==
    /\ \E prep \in {PreparedOf(search.todo[1])} : SearchNext(l, StatsOf(search.todo[1]), prep, LaneCombos(prep))
    /\ UNCHANGED <<gaSong, gaAt, place, genes, winners, memory, runBest, rows>>

\* The best of a genome's lanes, the lowest combo of a tie.
FinishLanes ==
    LET bests == {search.lanes[l].best : l \in DOMAIN search.lanes}
        Wins(b) == \A o \in bests : b.score > o.score \/ (b.score = o.score /\ b.combo <= o.combo)
    IN  /\ search.todo # <<>>
        /\ \A l \in DOMAIN search.lanes : search.lanes[l].next > Len(LaneCombos(PreparedOf(search.todo[1])))
        /\ winners' = [winners EXCEPT ![search.todo[1]] = CHOOSE b \in bests : Wins(b)]
        /\ search' = SearchOf(Tail(search.todo))
        /\ UNCHANGED <<gaSong, gaAt, place, genes, memory, runBest, rows>>

\* The results to the duplicates, and those of each slot's first miss into the memo.
ScatterResults ==
    /\ gaAt = "search" /\ search = NoSearch /\ gaAt' = "evaluated"
    /\ winners' = [g \in DOMAIN genes |-> winners[Representative(g)]]
    /\ memory' = [slot \in DOMAIN memory |->
                    IF Misses(slot) = {} THEN memory[slot]
                    ELSE [stats |-> StatsOf(Min(Misses(slot))), winner |-> winners[Min(Misses(slot))]]]
    /\ UNCHANGED <<gaSong, place, genes, search, runBest, rows>>

(***************************************************************************)
(* The runs.                                                                *)
(***************************************************************************)
\* The genomes of the batch's r-th run, and the first of the best.
Block(r) == ((r - 1) * place.genomes + 1)..(r * place.genomes)
BatchRuns == 1..(Len(genes) \div place.genomes)
RunOf(r) == place.run + r - 1
BestGenome(r) ==
    CHOOSE g \in Block(r) : \A h \in Block(r) : winners[h].score < winners[g].score \/ (winners[h].score = winners[g].score /\ g <= h)

RowOf(g) == [loadout |-> genes[g], winner |-> winners[g]]
NoRow == [loadout |-> <<>>, winner |-> NoWinner]
BestsAfter ==
    [run \in DOMAIN runBest |->
       IF \E r \in BatchRuns : RunOf(r) = run /\ winners[BestGenome(r)].score > runBest[run].winner.score
       THEN RowOf(BestGenome(run - place.run + 1)) ELSE runBest[run]]

StartRuns ==
    /\ gaAt \in {"start", "packed"} /\ place.run <= Song.runs
    /\ gaAt' = "evaluate"
    /\ place' = [place EXCEPT !.genomes = Song.genomes, !.generation = 1]
    /\ LET batch == Least(Most(1, MaxGenomes \div Song.genomes), Song.runs - place.run + 1) IN
       genes' \in OneOfEach([k \in 1..(batch * Song.genomes) |-> FirstLoadouts(Song, 1 + ((k - 1) % Song.genomes))])
    /\ winners' = <<>>
    /\ UNCHANGED <<gaSong, search, memory, runBest, rows>>

(***************************************************************************)
(* Breeding.                                                                *)
(***************************************************************************)
Dominates(s, t) == s # t /\ \A k \in 1..7 : s[k] >= t[k]
FgProxy(s) == 4 * s[3] + 4 * s[7] + 3 * s[6] + 2 * s[2] + s[1] + 2 * s[4] + s[5]
Fitter(g, h) ==
    \/ winners[g].score > winners[h].score
    \/ (winners[g].score = winners[h].score /\ Dominates(StatsOf(g), StatsOf(h)))
MoreDiverse(g, h) ==
    \/ FgProxy(StatsOf(g)) > FgProxy(StatsOf(h))
    \/ (FgProxy(StatsOf(g)) = FgProxy(StatsOf(h)) /\ Fitter(g, h))
Draws(r) == [1..TournamentK -> Block(r)]
FittestOf(draw) == FoldLeft(LAMBDA h, g : IF Fitter(g, h) THEN g ELSE h, draw[1], draw)
MostDiverseOf(draw) == FoldLeft(LAMBDA h, g : IF MoreDiverse(g, h) THEN g ELSE h, draw[1], draw)

\* A mutation draws any item, a repair another one (the first item may be drawn again).
Mutations(song, loadout) ==
    {loadout} \cup UNION {{[loadout EXCEPT ![s] = i] : i \in ToSet(Pool(song, s))} : s \in DOMAIN loadout}
MutationsToOther(song, loadout) ==
    LET Others(s) == LET pool == Pool(song, s) IN
            IF loadout[s] = song.pools[s][1] THEN ToSet(pool) ELSE ToSet(pool) \ {loadout[s]}
        At(s) == IF song.pools[s][2] = 0 THEN {loadout}
                 ELSE UNION {RepairMinis(song, [loadout EXCEPT ![s] = i]) : i \in Others(s)}
    IN  UNION {At(s) : s \in DOMAIN loadout}
RepairClone(song, loadout, a, b) == IF loadout \in {a, b} THEN MutationsToOther(song, loadout) ELSE {loadout}

Children(song, a, b) ==
    LET crossed == OneOfEach([s \in DOMAIN a |-> {a[s], b[s]}])
        bred == UNION {RepairMinis(song, m) : m \in UNION {Mutations(song, c) : c \in crossed}}
    IN  FoldLeft(LAMBDA some, attempt : UNION {RepairClone(song, l, a, b) : l \in some}, bred, Upward(1, NoveltyRepairAttempts))
Offspring(r) ==
    LET fit == {FittestOf(d) : d \in Draws(r)}
        diverse == {MostDiverseOf(d) : d \in Draws(r)}
    IN  UNION {Children(Song, genes[a], genes[b]) : a \in fit, b \in fit \cup diverse}

\* Each run keeps its best and breeds the rest.
NextGeneration ==
    /\ gaAt = "evaluated" /\ place.hoods = <<>> /\ place.generation < Song.generations
    /\ gaAt' = "evaluate"
    /\ runBest' = BestsAfter
    /\ place' = [place EXCEPT !.generation = @ + 1]
    /\ LET bred == [r \in BatchRuns |-> Offspring(r)]
           From(g) == LET r == 1 + (g - 1) \div place.genomes IN
                      IF g = Min(Block(r)) THEN {genes[BestGenome(r)]} ELSE bred[r]
       IN  genes' \in OneOfEach([g \in DOMAIN genes |-> From(g)])
    /\ winners' = <<>>
    /\ UNCHANGED <<gaSong, search, memory, rows>>

(***************************************************************************)
(* The candidate table.                                                     *)
(***************************************************************************)
CandidateOf(row) == [loadout |-> SortedMinis(row.loadout), winner |-> row.winner, stats |-> BaseStats(Song, row.loadout)]

\* Mutant: a copy of a row is kept.
KeepTopWithCopies(top, row) ==
    LET ahead == {n \in DOMAIN top : top[n].winner.score >= row.winner.score} IN
    SubSeq(InsertAt(top, Cardinality(ahead) + 1, row), 1, Least(Len(top) + 1, TopRows))

\* A row goes after those of its score, unless one of these is its loadout: only rows of its score can be copies.
KeepTop(top, row) ==
    LET ahead == {n \in DOMAIN top : top[n].winner.score >= row.winner.score} IN
    IF \E n \in ahead : top[n].winner.score = row.winner.score /\ top[n].loadout = row.loadout THEN top
    ELSE SubSeq(InsertAt(top, Cardinality(ahead) + 1, row), 1, Least(Len(top) + 1, TopRows))
TopOf(r) ==
    FoldLeft(LAMBDA top, g : IF winners[g].score > 0 THEN KeepTop(top, CandidateOf(RowOf(g))) ELSE top, <<>>,
             Upward(Min(Block(r)), Max(Block(r))))

\* The last generation only updates the bests, and its top is packed.
PackTop ==
    /\ gaAt = "evaluated" /\ place.hoods = <<>> /\ place.generation = Song.generations
    /\ gaAt' = "packed"
    /\ runBest' = BestsAfter
    /\ rows' = [run \in DOMAIN rows |->
                  IF \E r \in BatchRuns : RunOf(r) = run THEN TopOf(run - place.run + 1) ELSE rows[run]]
    /\ place' = [place EXCEPT !.run = @ + Cardinality(BatchRuns)]
    /\ UNCHANGED <<gaSong, genes, winners, search, memory>>

(***************************************************************************)
(* The polish: every neighborhood padded to the largest, cut to the         *)
(* population, for as many runs at a time as it holds.                      *)
(***************************************************************************)
Chunks(hoods, size) ==
    LET Padded(run) == hoods[run] \o [n \in 1..(size - Len(hoods[run])) |-> runBest[run].loadout]
        Cut(offset, k, group) ==
            [n \in 1..DivUp(Len(hoods), group) |->
               [run |-> (n - 1) * group + 1, genomes |-> k,
                genes |-> FlattenSeq([r \in 1..Least(group, Len(hoods) - (n - 1) * group) |->
                              SubSeq(Padded((n - 1) * group + r), offset + 1, offset + k)])]]
        At(offset) == LET k == Least(MaxGenomes, size - offset) IN Cut(offset, k, Most(1, MaxGenomes \div k))
    IN  FlattenSeq([n \in 1..DivUp(size, MaxGenomes) |-> At((n - 1) * MaxGenomes)])

LoadNext(hoods, before) ==
    /\ gaAt' = "evaluate"
    /\ genes' = hoods[1].genes
    /\ place' = [place EXCEPT !.hoods = hoods, !.before = before, !.run = hoods[1].run, !.genomes = hoods[1].genomes]
    /\ winners' = <<>>
BestScores == [run \in DOMAIN runBest |-> runBest[run].winner.score]
BeginPass ==
    /\ gaAt = "polish" \/ (gaAt = "packed" /\ place.run > Song.runs)
    /\ \A run \in DOMAIN runBest : BestScores[run] > 0
    /\ LET hoods == [run \in DOMAIN runBest |-> OneSwapNeighborhood(Song, runBest[run].loadout)]
           size == Max({Len(hoods[run]) : run \in DOMAIN hoods})
       IN  IF size = 0 THEN gaAt' = "polished" /\ UNCHANGED <<place, genes, winners>>
           ELSE LoadNext(Chunks(hoods, size), BestScores)
    /\ UNCHANGED <<gaSong, search, memory, runBest, rows>>

\* The polish goes on while a run improves.
PassGoesOn(after) == \E run \in DOMAIN after : after[run].winner.score > place.before[run]

UpdateRunsBest ==
    /\ gaAt = "evaluated" /\ place.hoods # <<>>
    /\ runBest' = BestsAfter
    /\ IF Len(place.hoods) > 1 THEN LoadNext(Tail(place.hoods), place.before)
       ELSE /\ gaAt' = (IF PassGoesOn(BestsAfter) THEN "polish" ELSE "polished")
            /\ place' = [place EXCEPT !.hoods = <<>>]
            /\ UNCHANGED <<genes, winners>>
    /\ UNCHANGED <<gaSong, search, memory, rows>>

PackBests ==
    /\ gaAt = "polished" /\ gaAt' = "done"
    /\ rows' = [run \in DOMAIN rows |-> <<CandidateOf(runBest[run])>> \o rows[run]]
    /\ UNCHANGED <<gaSong, place, genes, winners, search, memory, runBest>>

GeneticInit ==
    /\ gaSong \in 0..Len(GaSongs)
    /\ gaAt = IF gaSong = 0 THEN "none" ELSE "start"
    /\ place = [run |-> 1, genomes |-> 1, generation |-> 0, hoods |-> <<>>, before |-> <<>>]
    /\ genes = <<>> /\ winners = <<>> /\ search = NoSearch
    /\ memory = [slot \in 0..(MemoSize - 1) |-> NoEntry]
    /\ runBest = [run \in 1..(IF gaSong = 0 THEN 0 ELSE Song.runs) |-> NoRow]
    /\ rows = [run \in DOMAIN runBest |-> <<>>]

GeneticNext ==
    \/ StartRuns \/ FindRepresentatives \/ (\E l \in DOMAIN search.lanes : LaneStep(l)) \/ FinishLanes \/ ScatterResults
    \/ NextGeneration \/ PackTop \/ BeginPass \/ UpdateRunsBest \/ PackBests

(***************************************************************************)
(* Reference: every split that stays within the caps, with every surface    *)
(* and allocation of the other gems.                                        *)
(***************************************************************************)
BestOf(song, stats, splits, combos) ==
    LET Play(c) == BestOfSplit(song, stats, splits[c])
        best == Max({Play(c) : c \in {c \in DOMAIN splits : WithinCaps(StatKey(stats), splits[c])}})
    IN  [score |-> best, combo |-> Min({c \in ToSet(combos) : Play(c) = best} \cup {Len(splits) + 1})]
BestsOf(n) ==
    LET song == GaSongs[n] IN
    [stats \in {BaseStats(song, l) : l \in Loadouts(song)} |->
       BestOf(song, stats, SplitsOf(GemColors(song)), Shortlists[n][StatKey(stats)])]
BestTables == [n \in DOMAIN GaSongs |-> BestsOf(n)]
BestAt(stats) == BestTables[gaSong][stats]

\* The gems of a winner are an allocation of its combo that scores it on one of the surfaces there.
IsPlayed(song, w, stats, winner) ==
    LET split == SplitsOf(w)[winner.combo]
        x == Uncapped(w, stats, split)
        frontier == song.frontiers[FrontierAtStats(song, StatKey(stats), split)]
    IN  /\ winner.gems \in Allocations(split.residual)
        /\ \E i \in DOMAIN frontier : AllocationScore(song, x, frontier[i], winner.gems) = winner.score

\* The evaluation is exact, and the same in every order of the lanes and for every value of the shared incumbent they
\* may read: each genome has the best score of its stats over all combos within the caps, on the lowest combo of the
\* shortlist that reaches it, whether it was searched, copied from a genome before it or found in the memo
\* (gpu/kernels.py, evaluate_kernel).
WinnersAreExact ==
    gaAt = "evaluated" => \A g \in DOMAIN genes :
        LET stats == StatsOf(g) IN
        /\ [score |-> winners[g].score, combo |-> winners[g].combo] = BestAt(stats)
        /\ IsPlayed(Song, GemColors(Song), stats, winners[g])

\* A run's candidates are the highest distinct loadouts of its last population, none crowded out by a copy; in the
\* end its first row is exact, no swap of one item improves it, and no other row is above it
\* (gpu/kernels.py, pack_candidates_kernel; gpu/ga.py, _polish_runs_best).
TablesHoldTheBest ==
    /\ gaAt = "packed" => \A r \in BatchRuns :
           LET top == rows[place.run - Cardinality(BatchRuns) + r - 1]
               scoreOf == [g \in Block(r) |-> winners[g].score]
               distinct == {SortedMinis(genes[g]) : g \in Block(r)}
           IN  /\ Len(top) = Least(TopRows, Cardinality(distinct))
               /\ \A n, m \in DOMAIN top : n < m => (top[n].loadout # top[m].loadout /\ top[n].winner.score >= top[m].winner.score)
               /\ \A g \in Block(r) : (\A n \in DOMAIN top : top[n].loadout # SortedMinis(genes[g]))
                                        => \A n \in DOMAIN top : top[n].winner.score >= scoreOf[g]
    /\ gaAt = "done" => \A run \in DOMAIN rows :
           LET best == rows[run][1] IN
           /\ best.winner.score = BestAt(best.stats).score
           /\ \A n \in DOMAIN rows[run] : rows[run][n].winner.score <= best.winner.score
           /\ \A l \in ToSet(OneSwapNeighborhood(Song, best.loadout)) : BestAt(BaseStats(Song, l)).score <= best.winner.score
=============================================================================
