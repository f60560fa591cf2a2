---------------------------- MODULE ResultsStore ----------------------------
(***************************************************************************)
(* The results database: store/boards.py, store/db.py, and what            *)
(* pipeline/canonical.py, service_worker.py and store/legacy.py store.     *)
(*                                                                         *)
(* A song here is a (timing mode, song, tier), the key of a board; a       *)
(* loadout is a hash.  Of a stored row the model keeps its two scores, the *)
(* entry numbers of its two results (0: no result), the scores these       *)
(* results replay to, and the boards it is on.  Items, gems and stats      *)
(* travel with the results and decide nothing; write times only order the  *)
(* exact ties of a listing, which the model lists in any order.            *)
(*                                                                         *)
(* The workers of a run and a service worker with its promotions write one *)
(* file: a store is one BEGIN IMMEDIATE transaction, one step here; a      *)
(* store that fails is rolled back and no step.  SongRecords models what   *)
(* store_solve reads before and after.                                     *)
(***************************************************************************)
EXTENDS Integers, Sequences, FiniteSets

CONSTANTS
    Songs,
    Hashes,      \* loadout hashes
    Limit,       \* LOADOUTS_PER_SONG_LIMIT
    Scores,      \* base scores a solve may give
    FgScores,    \* Force Greats scores a solve may give
    MaxStores    \* bound: stores in a behaviour

ASSUME LimitAssumption == Limit \in Nat \ {0}
ASSUME ScoresAssumption == Scores \subseteq Nat \ {0} /\ FgScores \subseteq Nat \ {0}

VARIABLES
    rows,       \* song -> the rows of its loadouts
    submitted,  \* history: song -> hash -> the best meta score given to a store (0: none)
    stores      \* stores so far

vars == <<rows, submitted, stores>>

SetMax(S) == CHOOSE x \in S : \A y \in S : x >= y

-----------------------------------------------------------------------------
(* The merge of results into a song's rows: boards.py, row by row.  The    *)
(* hashes of `results` are distinct (canonical_rows refuses a repeated     *)
(* one, promotions read them from a dict or from a list of distinct rows), *)
(* so a row meets one result at most.                                      *)

\* A row of a song's table: its two results by entry number (0: no result), its
\* scores, and the scores its stored results replay to.
Blank(h) == [hash |-> h, score |-> 0, fgScore |-> 0, meta |-> 0, metaOf |-> 0, fg |-> 0, fgOf |-> 0,
             onMeta |-> FALSE, onFg |-> FALSE]

\* The row of a loadout in a table, blank when it has none.
RowOf(table, h) == IF \E r \in table : r.hash = h THEN CHOOSE r \in table : r.hash = h ELSE Blank(h)

\* What a store is given about a loadout: meta and fg say which results it has;
\* fgScore is 0 when no FG score is known (None).
Result(h, s, hasMeta, f, hasFg) == [hash |-> h, score |-> s, meta |-> hasMeta, fgScore |-> f, fg |-> hasFg]

\* Mutant: a better result takes a new entry number.
MergeMetaRenumber(row, new, number) ==
    IF row.meta # 0 /\ new.score <= row.score THEN row
    ELSE [row EXCEPT !.score = new.score, !.metaOf = new.score, !.meta = number]

\* Mutant: the last result replaces the stored one, better or not.
MergeMetaLast(row, new, number) ==
    [row EXCEPT !.score = new.score, !.metaOf = new.score, !.meta = IF @ = 0 THEN number ELSE @]

\* _merge_meta and the meta side of _project: a new result is stored, a better one
\* replaces the stored one under its number.  fg_seen shows as the FG score of a
\* row without an FG result.
MergeMeta(row, new, number) ==
    LET seen == SetMax({IF row.meta = 0 THEN 0 ELSE row.fgScore, new.fgScore})
        shown == [row EXCEPT !.fgScore = IF row.fg # 0 THEN @ ELSE seen]
    IN  IF row.meta # 0 /\ new.score <= row.score THEN shown
        ELSE [shown EXCEPT !.score = new.score, !.metaOf = new.score,
                           !.meta = IF @ = 0 THEN number ELSE @]

\* Mutant: a worse FG result replaces the stored one, and the better score stays.
MergeFgAlways(row, new, number) ==
    [row EXCEPT !.score = IF row.meta = 0 THEN new.score ELSE @,
                !.fgScore = IF row.fg = 0 THEN new.fgScore ELSE SetMax({@, new.fgScore}),
                !.fg = IF @ = 0 THEN number ELSE @, !.fgOf = new.fgScore]

\* _merge_fg and the FG side of _project: a new FG result is stored, an equal or
\* better one replaces the stored one under its number; without a meta result
\* the row's score is the base score the FG result was solved against.
MergeFg(row, new, number) ==
    IF row.fg # 0 /\ new.fgScore < row.fgScore
    THEN row
    ELSE [row EXCEPT !.score = IF row.meta = 0 THEN new.score ELSE @,
                     !.fgScore = new.fgScore, !.fgOf = new.fgScore,
                     !.fg = IF @ = 0 THEN number ELSE @]

\* The rows a board lists: the Limit best, equal scores by entry number.
MetaBoard(table) ==
    LET candidates == {r \in table : r.meta # 0}
        Beats(x, y) == x.score > y.score \/ (x.score = y.score /\ x.meta < y.meta)
    IN  {r \in candidates : Cardinality({x \in candidates : Beats(x, r)}) < Limit}

\* Mutant: the FG board takes every FG result.
FgBoardAny(table) ==
    LET candidates == {r \in table : r.fg # 0}
        Beats(x, y) == x.fgScore > y.fgScore \/ (x.fgScore = y.fgScore /\ x.fg < y.fg)
    IN  {r \in candidates : Cardinality({x \in candidates : Beats(x, r)}) < Limit}

FgBoard(table) ==
    LET candidates == {r \in table : r.fg # 0 /\ r.fgScore > r.score}
        Beats(x, y) == x.fgScore > y.fgScore \/ (x.fgScore = y.fgScore /\ x.fg < y.fg)
    IN  {r \in candidates : Cardinality({x \in candidates : Beats(x, r)}) < Limit}

\* Mutant: a loadout off the meta board is dropped, on the FG board or not.
NormalizeMetaOnly(table) ==
    LET onMeta == MetaBoard(table)
        onFg == FgBoard(table)
    IN  {[r EXCEPT !.onMeta = r \in onMeta, !.onFg = r \in onFg] : r \in onMeta}

\* _normalize: a loadout on neither board is dropped.
Normalize(table) ==
    LET onMeta == MetaBoard(table)
        onFg == FgBoard(table)
    IN  {[r EXCEPT !.onMeta = r \in onMeta, !.onFg = r \in onFg] : r \in onMeta \cup onFg}

\* The entry number of the i-th result of those that take one: the earlier ones
\* took the numbers from `next` on.
Number(next, taking, i) == next + Cardinality({j \in taking : j < i})

\* merge(): the meta side of every result, then the FG side, then the boards.
Merge(table, results, nextMeta, nextFg) ==
    LET given == {results[i].hash : i \in DOMAIN results}
        newMeta == {i \in DOMAIN results : results[i].meta /\ RowOf(table, results[i].hash).meta = 0}
        newFg == {i \in DOMAIN results : results[i].fg /\ RowOf(table, results[i].hash).fg = 0}
        MetaSide(i) ==
            LET row == RowOf(table, results[i].hash) IN
            IF results[i].meta THEN MergeMeta(row, results[i], Number(nextMeta, newMeta, i)) ELSE row
        Merged(i) ==
            IF results[i].fg THEN MergeFg(MetaSide(i), results[i], Number(nextFg, newFg, i)) ELSE MetaSide(i)
    IN  Normalize({r \in table : r.hash \notin given} \cup {Merged(i) : i \in DOMAIN results})

-----------------------------------------------------------------------------
(* The database: db.py.                                                    *)

\* Mutant: the numbers go on from the song's own.
NextNumberOfSong(db, s, side) == 1 + SetMax({0} \cup {r[side] : r \in db[s]})

\* 1 + SELECT MAX(meta_seq or fg_seq) FROM loadouts, over every song.
NextNumber(db, s, side) == 1 + SetMax({0} \cup {r[side] : r \in UNION {db[t] : t \in Songs}})

\* The transaction of store_results.
StoreIn(db, s, results) ==
    [db EXCEPT ![s] = Merge(@, results, NextNumber(db, s, "meta"), NextNumber(db, s, "fg"))]

\* _best_overall(board_leaders(...)): the best score of a song's boards, base or FG.
BestOverall(table) ==
    SetMax({0} \cup {r.score : r \in {x \in table : x.onMeta}}
               \cup {r.fgScore : r \in {x \in table : x.onFg}})

\* What canonical_rows may give: at least one loadout, each with a meta result.
Distinct(results) == \A i, j \in DOMAIN results : i # j => results[i].hash # results[j].hash
LoadoutResults == {Result(h, s, TRUE, f, f # 0) : h \in Hashes, s \in Scores, f \in FgScores \cup {0}}
OneResult == {<<r>> : r \in LoadoutResults}
Solves == OneResult \cup {p \in LoadoutResults \X LoadoutResults : Distinct(p)}

\* The table of an isolated database after a request's solves, one or two.
Isolated ==
    LET After(table, r) ==
            Merge(table, r, 1 + SetMax({0} \cup {x.meta : x \in table}), 1 + SetMax({0} \cup {x.fg : x \in table}))
    IN  {After({}, r) : r \in Solves}
            \cup {After(After({}, r1), r2) : r1 \in OneResult, r2 \in OneResult}

\* The orders in which a table's rows may be listed: the meta board by score, then
\* FG score, then the rest of the FG board by FG score.
Orders(table) ==
    LET Ahead(x, y) ==
            \/ x.onMeta /\ ~y.onMeta
            \/ /\ x.onMeta /\ y.onMeta
               /\ x.score > y.score \/ (x.score = y.score /\ x.fgScore > y.fgScore)
            \/ ~x.onMeta /\ ~y.onMeta /\ x.fgScore > y.fgScore
    IN  {o \in [1..Cardinality(table) -> table] :
            \A i, j \in DOMAIN o : i < j => o[i] # o[j] /\ ~Ahead(o[j], o[i])}

\* promote(): every row of the isolated database, with the results it has.
PromotedRow(r) == Result(r.hash, r.score, r.meta # 0, r.fgScore, r.fg # 0)

\* legacy.best_loadouts and rows_from_entries: a meta board row keeps its FG result
\* only if it is on the FG board too, else only the FG score; a row of the FG board
\* alone comes without its meta result.
PromotedEntry(r) == Result(r.hash, r.score, r.onMeta, r.fgScore, r.onFg)

Promotions ==
    LET orders == UNION {Orders(table) : table \in Isolated} IN
    {[i \in DOMAIN o |-> PromotedRow(o[i])] : o \in orders}
        \cup {[i \in DOMAIN o |-> PromotedEntry(o[i])] : o \in orders}

-----------------------------------------------------------------------------
Init ==
    /\ rows = [s \in Songs |-> {}]
    /\ submitted = [s \in Songs |-> [h \in Hashes |-> 0]]
    /\ stores = 0

\* store_results(conn, *s, results)
StoreResults(s, results) ==
    /\ stores < MaxStores
    /\ stores' = stores + 1
    /\ rows' = StoreIn(rows, s, results)
    /\ submitted' = [submitted EXCEPT ![s] = [h \in Hashes |->
           SetMax({@[h]} \cup {results[i].score :
                      i \in {j \in DOMAIN results : results[j].hash = h /\ results[j].meta}})]]

\* store_solve of a worker of a run, or of the service's worker.
StoreSolve(s) == \E results \in Solves : StoreResults(s, results)

\* A promotion by the service's worker, or of a website's list.
Promote(s) == \E results \in Promotions : StoreResults(s, results)

Next == \E s \in Songs : StoreSolve(s) \/ Promote(s)

Spec == Init /\ [][Next]_vars

-----------------------------------------------------------------------------
(* Properties.                                                             *)

\* Every stored row has a base score, one that some solve gave (score NOT NULL).
Row == [hash : Hashes, score : Scores, fgScore : FgScores \cup {0}, meta : Nat, metaOf : Scores \cup {0},
        fg : Nat, fgOf : FgScores \cup {0}, onMeta : BOOLEAN, onFg : BOOLEAN]

\* The tables take every merge: the primary key and the CHECK constraints of
\* store/tables.py and the checks of records.Loadout hold of the rows it leaves, so
\* no store is refused.
ConstraintsHold ==
    \A s \in Songs : rows[s] \subseteq Row /\ \A r \in rows[s] :
        /\ \A q \in rows[s] : q.hash = r.hash => q = r
        /\ r.onMeta \/ r.onFg
        /\ r.onMeta => r.meta # 0
        /\ r.onFg => r.fg # 0 /\ r.fgScore > r.score
        /\ r.fg # 0 => r.fgScore # 0

\* An entry number names one result of its side in the whole file, whatever rows
\* were dropped and numbers reused.
NumbersAreUnique ==
    \A s, t \in Songs : \A r \in rows[s], q \in rows[t] : <<s, r.hash>> # <<t, q.hash>> =>
        /\ r.meta # 0 => r.meta # q.meta
        /\ r.fg # 0 => r.fg # q.fg

\* Every merge leaves rows that satisfy the tables' constraints and the checks of the records, with
\* entry numbers of their own (store/tables.py, store/boards.py, store/records.py).
RowsAreValid == ConstraintsHold /\ NumbersAreUnique

\* A stored score is the one its stored result and replay witness give, after any
\* mix of better, worse and equal results of two sides.
ScoresReplay ==
    \A s \in Songs : \A r \in rows[s] :
        /\ r.meta # 0 => r.score = r.metaOf
        /\ r.fg # 0 => r.fgScore = r.fgOf

\* The meta board is the top of all the base results ever given to a store, though
\* rows are dropped and forgotten on the way.
MetaBoardIsTheTop ==
    \A s \in Songs :
        LET board == {r \in rows[s] : r.onMeta}
            listed == {r.hash : r \in board}
            given == {h \in Hashes : submitted[s][h] # 0}
        IN  /\ Cardinality(listed) = IF Cardinality(given) < Limit THEN Cardinality(given) ELSE Limit
            /\ \A r \in board : r.score = submitted[s][r.hash]
            /\ \A r \in board, h \in given \ listed : submitted[s][h] <= r.score

\* A song's best never falls, though an FG result leaves its board when its
\* loadout's base score catches up.
BestNeverFalls == [][\A s \in Songs : BestOverall(rows'[s]) >= BestOverall(rows[s])]_vars

\* A result that stays stored keeps its entry number: its place among equal scores.
NumbersStay ==
    [][\A s \in Songs : \A r \in rows[s], q \in rows'[s] : r.hash = q.hash =>
        /\ r.meta # 0 => q.meta = r.meta
        /\ r.fg # 0 => q.fg = r.fg]_vars
=============================================================================
