---------------------------- MODULE SongRecords ----------------------------
(***************************************************************************)
(* The NEW records of a session: store_solve of pipeline/storing.py in     *)
(* every worker, and _song_stored of ui/runtime_ui.py in the parent.       *)
(*                                                                         *)
(* store_solve reads the best score of the song's boards, stores, and      *)
(* reads the best again: three transactions, and the workers of a run (the *)
(* repeats of one song) and the service store in between.  The two bests   *)
(* go to the parent on the worker's pipe; the parent reads the pipes in    *)
(* any order and counts the records.                                       *)
(*                                                                         *)
(* A store only raises the best of a song: ResultsStore checks that of the *)
(* merge (BestNeverFalls).  A song here is a key of a record: a song in    *)
(* one timing mode, whatever the run of its repeats.                       *)
(***************************************************************************)
EXTENDS Integers, Sequences, FiniteSets

CONSTANTS
    Workers,
    Songs,
    Epsilon,     \* RECORD_UPDATE_SCORE_EPSILON
    Top,         \* bound: the best score of a song
    MaxStores    \* bound: stores in a session

ASSUME EpsilonAssumption == Epsilon \in Nat
ASSUME BoundsAssumption == Top \in Nat /\ MaxStores \in Nat

Bests == 0..Top

\* What a worker sends of a stored song: its best before and after.
DoneEvent(s, b, a) == [song |-> s, before |-> b, after |-> a]
Events == {e \in [song : Songs, before : Bests, after : Bests] : e.before <= e.after}

\* Where a worker is in store_solve: outside, between its first read and its
\* store, or between its store and its second read.
Idle == [at |-> "idle"]
Storing(p, s, b) == [at |-> p, song |-> s, before |-> b]
Places == {Idle} \cup {Storing(p, s, b) : p \in {"before", "stored"}, s \in Songs, b \in Bests}

VARIABLES
    best,        \* song -> the best score of its boards
    worker,      \* worker -> its place
    pipe,        \* worker -> its "done" events, not yet received
    recordBest,  \* _session_new_record_best_by_song (0: no record)
    records,     \* _session_new_records
    stores,      \* stores begun so far
    held,        \* history: song -> every best it had this session
    counted      \* history: the <<song, best>> counted as records

storeVars  == <<best, stores, held>>
parentVars == <<recordBest, records, counted>>
vars == <<storeVars, worker, pipe, parentVars>>

Init ==
    /\ best \in [Songs -> Bests]
    /\ worker = [w \in Workers |-> Idle]
    /\ pipe = [w \in Workers |-> <<>>]
    /\ recordBest = [s \in Songs |-> 0]
    /\ records = 0
    /\ stores = 0
    /\ held = [s \in Songs |-> {best[s]}]
    /\ counted = {}

\* before = _best_overall(board_leaders(...))
ReadBefore(w, s) ==
    /\ worker[w] = Idle
    /\ stores < MaxStores
    /\ stores' = stores + 1
    /\ worker' = [worker EXCEPT ![w] = Storing("before", s, best[s])]
    /\ UNCHANGED <<best, held, pipe, parentVars>>

\* A store commits: the best of its song is now b.
Raise(s, b) ==
    /\ b >= best[s]
    /\ best' = [best EXCEPT ![s] = b]
    /\ held' = [held EXCEPT ![s] = @ \cup {b}]

\* store_results(...) of a worker.
Store(w) ==
    /\ worker[w].at = "before"
    /\ \E b \in Bests : Raise(worker[w].song, b)
    /\ worker' = [worker EXCEPT ![w].at = "stored"]
    /\ UNCHANGED <<stores, pipe, parentVars>>

\* A promotion by the service stores into the same file.
StoreElsewhere(s) ==
    /\ stores < MaxStores
    /\ stores' = stores + 1
    /\ \E b \in Bests : b > best[s] /\ Raise(s, b)
    /\ UNCHANGED <<worker, pipe, parentVars>>

\* after = _best_overall(board_leaders(...)), and the worker sends "done".
ReadAfter(w) ==
    /\ worker[w].at = "stored"
    /\ LET s == worker[w].song IN
           pipe' = [pipe EXCEPT ![w] = Append(@, DoneEvent(s, worker[w].before, best[s]))]
    /\ worker' = [worker EXCEPT ![w] = Idle]
    /\ UNCHANGED <<storeVars, parentVars>>

\* The store, or what follows its commit, raises, or the process dies: no "done".
Fail(w) ==
    /\ worker[w] # Idle
    /\ worker' = [worker EXCEPT ![w] = Idle]
    /\ UNCHANGED <<storeVars, pipe, parentVars>>

\* Mutant: every rise of more than the epsilon counts.
IsRecordAgain(e) == e.after - e.before > Epsilon

\* A rise of more than the epsilon, above the song's earlier records.
IsRecord(e) ==
    /\ e.after - e.before > Epsilon
    /\ e.after > recordBest[e.song]

\* _song_stored(label, before, after), on a "done" event of w.
SongStored(w) ==
    /\ pipe[w] # <<>>
    /\ pipe' = [pipe EXCEPT ![w] = Tail(@)]
    /\ LET e == Head(pipe[w]) IN
           IF IsRecord(e)
           THEN /\ recordBest' = [recordBest EXCEPT ![e.song] = e.after]
                /\ records' = records + 1
                /\ counted' = counted \cup {<<e.song, e.after>>}
           ELSE UNCHANGED parentVars
    /\ UNCHANGED <<storeVars, worker>>

Next ==
    \/ \E w \in Workers :
        \/ \E s \in Songs : ReadBefore(w, s)
        \/ Store(w) \/ ReadAfter(w) \/ Fail(w) \/ SongStored(w)
    \/ \E s \in Songs : StoreElsewhere(s)

Spec == Init /\ [][Next]_vars

-----------------------------------------------------------------------------
(* Properties.                                                             *)

TypeOK ==
    /\ best \in [Songs -> Bests]
    /\ worker \in [Workers -> Places]
    /\ pipe \in [Workers -> Seq(Events)]
    /\ recordBest \in [Songs -> Bests]
    /\ records \in Nat /\ stores \in Nat
    /\ held \in [Songs -> SUBSET Bests]
    /\ counted \in SUBSET (Songs \X Bests)

\* The counter counts each improvement of a song once, however many workers saw it
\* and in whatever order their events are read: what it counts are different bests
\* that the song really had this session, none the one it started with.
RecordsCountedOnce ==
    /\ records = Cardinality(counted)
    /\ \A r \in counted : r[2] \in held[r[1]] /\ \E b \in held[r[1]] : b < r[2]
=============================================================================
