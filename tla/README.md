# TLA+ models of the RoBeats calculator engine

The engine searches, for every chart of a game, the loadouts with the highest scores. It runs as a queue of tasks
solved by worker processes (`python main.py`) and as an HTTP service (`robeatsmeta_service.py`), both over one SQLite
database and one directory of cached frontiers. This directory holds TLA+ modules of the parts where several
processes, threads or stores meet and of the exact algorithms the results rest on, TLC runs that check them on small
instances, and TLAPS proofs of the most important properties for every value of their constants. `PROJECT.json` lists
the runs, the mutants, the lines every definition stands for, the hazards and the theorems.

Paths below are relative to `src/gear_optimizer/` unless they start with `src/`.

## How to run

    tlc -workers 2 -config MCSolveQueue.cfg MCSolveQueue
    tlapm SolveQueueProofs.tla

Every `.cfg` names its `MC` module in `PROJECT.json`. A mutant is an operator written next to the definition it
spoils ("Mutant: ..."); replacing the definition by it must make TLC find the property violated.

## The system

| Component | State it keeps | Operations | Talks to |
|---|---|---|---|
| Solve queue (`pipeline/workers.py`, `app_stop_control.py`) | task queue with end marks, one pipe per worker process, stop event, `running`, `working`, `finished`, `stored`, `error` | `solve_queue`, `receive`, `drain`, `exited`, `_worker_main`, `StopWatch` | app callbacks, GPU executor, results store |
| Results store (`store/boards.py`, `store/db.py`, `store/records.py`, `store/tables.py`) | `loadouts`, `gears`, `minis`, `replays`... of a song on two boards, entry numbers | `store_results`, `promote`, `merge` | workers, service worker, website reader |
| Served leaderboards (`store/legacy.py`) | none (reads a database) | `best_loadouts`, `rows_from_entries` | service, promotions |
| Storing a solve (`pipeline/storing.py`, `pipeline/canonical.py`, `ui/runtime_ui.py`) | `_session_new_records`, best per song | `store_solve`, `canonical_rows`, `_song_stored` | results store, solve queue events |
| Schema (`store/schema.py`, `store/v19.py`) | `user_version`, tables | `ensure_schema`, migration | every connection |
| Run application (`app.py`, `cli.py`, `settings.py`, `pipeline/queue.py`) | iterations, STOP file, Ctrl+C count, seeds | `run`, `_run_single_iteration`, `build_queue` | solve queue, prebuild |
| GPU executor (`gpu/executor.py`, `gpu/device.py`, `gpu/runtime.py`) | owner thread, call queue, init event, abort flag | `start`, `call`, `request_abort`, `stop`, `_run` | worker main thread, StopWatch thread |
| GPU genetic search (`gpu/ga.py`, `gpu/kernels.py`, `gpu/scoring.py`, `gpu/fields.py`, `solver/genetic_pipeline.py`) | populations, winners, evaluation memo, run bests, candidate tables, uploads on the device | `run_ga`, `evaluate_kernel`, `next_generation_kernel`, `pack_candidates_kernel`, `_polish_runs_best`, hard reset and retry | executor |
| HTTP service (`robeatsmeta_service.py`) | solve slots, `_active_solves`, draining flag, `_in_flight`, catalog, caches | solve, refresh, health, catalog builds | service worker process, updater |
| Service worker (`service_worker.py`) | isolated database per request, executor | request loop, promotions, memory exit | service through stdin/stdout |
| Service updater (`service_update.py`) | running and refreshed commit, stop and wake events | `run_once`, `serve_forever`, `request_check`, `stop` | git, service drain, resume, refresh and restart |
| Frontier cache (`frontier/cache.py`, `fg_cache*.py`, `timeline_cache.py`, `core/file_lock.py`) | files, manifest, memory LRU, locks | write, record, plan, purge temporary files | prebuild, solver |
| Frontier prebuild (`frontier/*_prebuild.py`, `core/recycling_process_pool.py`, `core/memory.py`) | admitted weights, suspended workers, generations of processes | admission, RAM guard, recycling | cache, producers |
| Frontier producers (`frontier/producer_*.py`, `timeline_producer.py`, `fill_crossing.py`) | none | kernels | prebuild |
| Score and fever timeline (`score.py`, `rules.py`, `stats.py`, `solver/fever_timeline.py`) | none | score of a play | solver, traces |
| Host search (`solver/gem_search.py`, `solver/fg_search.py`, `solver/ga_selection.py`, `pipeline/pools.py`, `pipeline/fg.py`) | none | gem search, pool pruning | workers |
| Traces (`trace/*.py`) | none | reconstruction, hit schedule, replay | canonical rows, tools |
| Charts and identity (`chart.py`, `gamedata.py`, `data/*.py`) | none | parsing, hashing | everything |

What makes them hard:

* **The solve queue** is a protocol of a parent and many processes over a shared queue, pipes, exit codes and an
  event. A process may leave for memory, lose its GPU, die between two statements or be killed; the parent sees
  events and exits in an order nobody controls, and outcomes name no task. It is correct when every task is reported
  once, truthfully, and a run ends.
* **The results store** merges two kinds of results of a loadout row by row, drops rows that are on no board and
  renumbers nothing. It is correct when the table's constraints hold, numbers are unique, a row's scores are what its
  stored results replay to, the board is the true top and a best never falls, after any sequence of stores.
* **Storing a solve** reads, writes and reads again in three transactions; records are counted from events that come
  in any order. It is correct when each improvement is counted once.
* **The GPU executor** serializes calls of two threads on a third one, with an initialization time-out, aborts and a
  stop with a bounded join.
* **The service** admits solves by slots, memory and a draining flag, joins retries to the solve in flight, kills and
  restarts its worker, and lets an updater drain it, change its code and restart or resume it. It is correct when a
  request returns, with its own answer or an error, whatever its worker does; when nobody solves while the code
  changes; when every drain ends; and when the service comes to run what was pushed.
* **The frontier cache and its prebuild** write files that several processes build, record, purge and read, and pack
  builds by weight into a memory budget that a guard enforces by suspending processes. They are correct when what is
  served is whole, what is there is never lost, every song is built once and the build ends.
* **The frontier producers** never list the plays of a song: they close reachable states over intervals, share work
  between states in sliding windows, throw away what a bound or a hull says is never best, and let geometries take each
  other's frontier. They are correct when no play that is best for some stats is lost, and nothing is kept that no play
  adds up to.
* **The traces** turn a row of a frontier into a trace, a plan of hit times and a claim about the game: a search with a
  memo, difference constraints, and margins shared out path by path. They are correct when a plan adds up to its row
  and the game scores it at every frame rate.
* **The GPU search** is a heuristic in what loadouts it tries and exact in how it scores each of them: lanes share an
  incumbent without a lock, genomes of the same stats share one search, a memo lives across generations, and nearly every
  combo and surface is cut by a bound. It is correct when no order of the lanes and no memo entry changes a winner, and
  when a run's table holds its best, which no swap of one item improves.
* **The gem search** skips almost everything it searches. It is correct when the answer is the one of the full search,
  ties included, whatever came before in its memo and tables.

## Modules

| Module | What it is |
|---|---|
| `SolveQueue` | `pipeline/workers.py`: parent loop, worker processes, queue lock, pipes, stop event |
| `TaskLedger` | the promise of `solve_queue` to its caller, with no workers or pipes; `SolveQueue` implements it |
| `SolveQueueProofs` | TLAPS proofs of the safety invariants of `SolveQueue`, and that it implements `TaskLedger` |
| `ResultsStore` | the merge of `store/boards.py`, the transactions of `store/db.py`, promotions |
| `ResultsStoreProofs` | TLAPS proofs of every property of `ResultsStore` |
| `SongRecords` | `store_solve` and the NEW-record counter |
| `SongRecordsProofs` | TLAPS proofs about `SongRecords` |
| `SolveWorker` | a request of the service: in-flight table, worker handles, worker processes, their answers |
| `SolveWorkerProofs` | TLAPS proofs of the safety invariants of `SolveWorker` |
| `ServiceUpdate` | the service while it follows its remote: slots, drain, updater, restart, signals |
| `ServiceUpdateProofs` | TLAPS proofs of the safety invariants of `ServiceUpdate` |
| `GpuDevice` | what a process holds on its GPU, and the steps of one GA run (`gpu/device.py`, `gpu/runtime.py`, `gpu/ga.py`) |
| `GpuExecutor` | the owner thread, its calls, time-outs, aborts and stops (`gpu/executor.py`); extends `GpuDevice` |
| `GpuExecutorProofs` | TLAPS proofs of the safety invariants of `GpuExecutor` |
| `GeneticSearch` | the genetic search of a song: populations, evaluation, breeding, candidates, polish (`gpu/ga.py`, `gpu/kernels.py`, `gpu/scoring.py`); extends `GemAllocation` |
| `FrontierCache` | one cache directory and the processes that plan, maintain, build, record and serve it |
| `FrontierCacheProofs` | TLAPS proofs of the safety properties of `FrontierCache` |
| `FgPrebuild` | admission, ledger, recycling pool and RAM guard of a cold build |
| `FillCrossing` | where the fever bar fills: closed forms and action tables |
| `FgSurfaces` | response surfaces, their scores, dominance, skylines and hulls |
| `FeverSections` | hit windows, envelopes and the fever sections of a chart; extends both |
| `TraceSections` | the same sections as the trace search lists them, and every play they make up |
| `FrontierProducer` | the build of a song's first frontiers, checked against `TraceSections` |
| `Sums` | sums by a recursive function, for the weights of `FgPrebuild` and the bytes of `FrontierProducer` |
| `FrontierBuildProofs` | TLAPS proofs of the safety invariants of `FgPrebuild`, of the memory ledger of `FrontierProducer`, and that the search of `FrontierTrace` is complete and sound |
| `TraceSearch` | the depth-first search for the trace of a surface, with its witnesses |
| `FrontierTrace` | a build, then the trace of a row of one of its frontiers; extends `FrontierProducer` and `TraceSearch` |
| `HitSchedule` | hit times of a plan from difference constraints |
| `NotePlan` | judgments, fevers, input order and hits of a trace, and the replay that guards them |
| `GameSim` | a game that plays a plan, frame by frame |
| `GemAllocation` | what gems add, splits of the budget, shapes and scores of surfaces, for both searches |
| `GemSearch` | the exact gem search over batches of loadouts; extends `GemAllocation` |
| `MC...` | constants, instances and symmetry sets for TLC; `MCFrontierBuild` composes `FgPrebuild`, the frontiers, the traces and `GemSearch`, `MCGpuExecutor` the executor and `GeneticSearch` |

### SolveQueue and TaskLedger

State. `head` is the position of the next item of the shared queue: tasks 1..N in order, then one end mark per slot;
`lock` is the read lock of `multiprocessing.Queue.get`. `pc[w]` says where the process of slot `w` is in
`_worker_main`; `item[w]` is what it holds, `pipe[w]` what it sent. The parent's variables have the code's names.
`committed` is what the database holds. `asleep` and `orphaned` model the internals of the event: `set()` waits for
every sleeper counted in `wait()`, and a process that exits asleep leaves a count that nobody gives back.

Actions. A worker's step is `Boot`, `CheckStop`, `LockQueue`, `TakeTask`/`TakeEndMark`, `Start`, `Commit`, then one of
`SendDone`, `SendFailed`, `AbortSolve`, `LoseGpu`, and `Leave`; `Die` may come at each of the points of `CrashPoints`.
The parent's are `PollStop` and `Wait` at the top of the loop, `Handle` for the handle taken from `ready` (pipes before
exits), `Receive*` for `receive`, `Drained` for the end of `drain`, `Exited*` for the branches of `exited`, `Return`.
A "done" event is sent after the commit, so a death or an exception between the two is a task that is stored and
failed: the ledger allows it.

The task field of a "done" or "failed" event is a ghost: the code sends none, and `OutcomeNamesItsTask` says that the
parent's `working` agrees with it.

### ResultsStore

A row keeps its two scores, the entry numbers of its two results, the boards it is on, and, as history, the scores its
stored results replay to. `Merge` does the meta side of every result, then the FG side, then the boards with the rows
on neither dropped (`_normalize`). A store is one step because `store_results` is one `BEGIN IMMEDIATE` transaction.
Entry numbers are `1 + MAX` over the whole file. Inputs are what the callers can give: solves (`canonical_rows`), and
promotions, which are the rows of an isolated database after one or two solves, listed in any order the listing allows,
either row by row (`promote`) or through the served lists (`best_loadouts`, `rows_from_entries`), where a result of a
board the loadout is not on is lost.

### SongRecords

Workers read the best, store and read again, in any interleaving, with the service storing into the same file; the
parent reads the pipes in any order. `best` may only rise: that is `BestNeverFalls` of `ResultsStore`.

A limit of the program that is not a disagreement with any of its documents: two workers on repeats of one song may
both print the NEW RECORD line of the same rise, and a counted record may lie within the epsilon of an earlier one.

### SolveWorker

State. `client[c]` is where a handler thread is in `solve()` and `request()`, with the `_InFlightSolve` it owns or
joined; `solves` are those objects in the order of their creation (`outcome` stands for `result` and `error`, `done`
for the event), `inFlight` is `_in_flight`. A handle (`_SolveWorker`: the warm one, or one per uploaded chart) has its
`lock`, its `_proc` (`current`) and its `_responses` (the process whose start made that queue). A process has its pipes
`stdin` and `stdout` and its reader thread, which feeds the `queue` that its own start made. An answer carries the
solve it is of as a ghost: the line on the pipe has no name.

Actions. `Own` or `Join`, then for an owner `Slot`, `LockHandle`, `Poll` (with `Stop` and `Start` when the process has
exited), `Write`, and one of `Get` and `TimeOut`; `WriteFails` and `StartFails` are the error paths; then `StopOwn` for
an uploaded chart, `Finish` and `Delete`. The process does `ReadRequest`, `WriteAnswer` (with the memory guard's exit
as a free choice, and "restart" for a lost GPU) and `Exit`; `Crash` may come at any moment; `MoveAnswer` and
`EndOfOutput` are its reader thread. `Stop` kills at once: `proc.wait` after SIGKILL is part of it.

The slots are those of `ServiceUpdate` and only refuse here, because `solve_pool` (10) is above the number of threads
of the instance. A request for an uploaded chart uses its own handle: `_solve_uploaded` makes one per request, and the
in-flight table lets one request of a job in, so the job names it.

### ServiceUpdate

State. A thread is "out", at the "gate" (it holds `_solve_semaphore`), "in" a slot, or "over". `upd` is where the
updater's thread is in `serve_forever` and `run_once`; `seenHead` and `commit` are that function's locals. Revisions
are numbers on a line: `origin` is the remote, `fetched` the remote ref, `head` the checkout; `NewCode` are those that
change more than Data and `config.ini`. `main` is where `main()` is; an exec is a step that makes a new image in the
same process: everything but git and the listening socket is new. History: `code` and `current` (what this image runs
and whose Data it has), `signalled`, `unseen` (a check was asked for and no run has begun since).

Actions. `Acquire`, `Admit`, `AdmitBeside`, `Refuse`, `Release` are `_solve_slot`; the memory gate is a free choice
when another solve is running, and open when none is (`_active_solves > 0` is part of its condition). `Fetch` to
`Clear` are `run_once` and the loop, each git command and callback a step with its failure; `BuildCaches` and the
updater's own slot are `refresh_data`, with one solve for all catalog builds of a refresh: it may end by
`Refuse`, as `ServiceNotReady` does, or by `Release`, and both count the revision as refreshed, as the code does; only
a warm-up that raises fails the refresh (`WarmUpFails`), since a failed build is logged and passed over.
`LeaveServing` to `Exec` are the end of `main()`. `Push`, `Publish`, `PublishPush`, `Pull`, `RequestCheck` and `Signal`
are the environment.

A diverging history is a merge that fails. The model assumes that nobody pulls before an image has looked at HEAD for the
first time: the service takes what it finds there for the code it loaded.

### GpuDevice and GpuExecutor

State. The device holds tables by their origin: `surfaces` is the song whose timeline is uploaded (or `Torn`, after an
upload that failed half way), `memo` the songs whose evaluations are remembered, a run's best and its row of the answer
the songs and items they came from. `step` is where `run_ga` is. The process has a `client` (main thread), an `owner`,
the `calls` queue with its stop mark, and one future.

Actions. `EnsureReady`, `UploadTimeline`, `UploadItems`, `StartBatch`, `Evaluate`, `PackCandidates`, `PolishPass`,
`PackRunBests` are the GA on the device; a Vulkan error at any of them ends in `RetryOnFreshRuntime` (a hard reset that
forgets every field, and one more attempt) or in `FailsForGood`. `Call`, `Submit`, `TakeAnswer`, `CallTimesOut` and
`Joined` are the client, `RunGa` to `Finalize` the owner, `StopRequested` and `StopWatch` the way of a stop to the
abort flag. `Hangs` is a GPU step that never returns.

### FrontierCache

State. `disk[<<song, version>>]` is a file: absent, or the stat keys it holds, whether all of it can be read, and whether
its head can, which is what the Force Great probe reads (version and stat keys, `fg_cache_store.py:256-274`; the
timeline's probe reads everything). `manifest`
holds per chart the file it believes in and that file's size. `temps` are temporary files by writer; `buildLock` and
`songLock` the locks between processes; `memory` what a process has decoded. `kind` chooses the Force Great cache, whose
bundles grow by the keys asked for, or the timeline cache, whose payloads are whole or absent.

Actions. A startup prebuild does `ProbePlan`, `TakeBuildLock`, `Plan`, `Maintain`, `BuildNext` for each miss (in any
order, since the pool may finish them so), `RecordBuilds`; a request does `Probe`, `Discard`, `TakeSongLock`, `Merge`,
`Open`, `BuildFails`, `WriteTemp`, `Rename`, `Unlock`, `Load`. A build may raise (`BuildFails`) and a write or a rename
may fail: a prebuild counts the song as failed and goes on, a request fails, and a timeline payload that could not be
written is served from memory. A plan derives the key of at most `DriftSample` of its hits anew (eight in the code), so
that a drift may escape it; any hits may be the sampled ones. `Crash` may come at any point and frees the locks, as the
operating system does; `Corrupt` damages a file from outside. Damage past a bundle's head escapes its probe: `Plan` then
records the file, a prebuild ends "ready" with it, and `Load` fails loudly. A file that is recorded is believed on its
size alone, damaged or not; a request that reads it fails or builds it anew, which is `ServedInFull`. `ReadyIsComplete`
says nothing once a file is damaged. Not modelled: a chart whose bytes change between a plan and the build of its song (the key of a
song is a constant here).

### FgPrebuild

`doing[w]` is what worker `w` of the current pool does, `queue` the call queue, `reader` the worker that holds its read
lock, `tokens` the semaphore of idle workers that decides how many are spawned. `Admit` takes the heaviest pending song
that fits the ledger and the free RAM, or any one if nothing is in flight; `Submit` replaces a pool that is used up or
broken; `Collect` tallies the futures that are done. `Poll` is the guard: it suspends the youngest running worker while
RAM is short, and resumes one when there is room, when nobody runs, or when nothing moved for `StallPolls`. Free RAM
and the measured sizes may be anything at every look.

### FillCrossing, FgSurfaces, FeverSections, TraceSections, FrontierProducer

Fill is counted in half Perfects and time in quarters of a millisecond, so both are exact. A surface keeps the head
notes one by one (a ramp note is worth its own combo) and counts of the rest; a score is a polynomial in four stats and
compared as an integer.

`FrontierProducer` takes the steps of the pipeline: `AdmitGroup` (a table build is reserved and started), `BuildTable`
(the thread of a group is done), `CollectThreads`, `BeginGeometry`, then `BodyState`, `HeadState` and `FirstSection`
from the end of the song to its start. The kernels are operators of these steps: the closure of states over intervals
of ends, the packets of activations that states share in windows (`Advance`, `StatePoints`), skylines, hulls and the
cone over the stat box. The reduction of a geometry shares nothing with another one, so the model plays one at a time.
`TraceSections` writes the plays out one by one, from the other implementation of the same rules in `trace/`, and the
frontiers are compared with those.

### TraceSearch, FrontierTrace, HitSchedule, NotePlan, GameSim

`FrontierTrace` puts a trace search behind a build: `ReconstructRow` takes any row of a frontier of a finished build, as
`trace/materialize.py` does with the row a solve has picked. `TraceSearch` keeps the call stack of `_search` with its memo of failed calls: `TryOption`, `StoreSection` and
`Exhausted` are a call going down, a call returning, and a call that found nothing. `NotePlan` is the plan of the trace
it finds: which notes are Great and early, the input order, then `HitSchedule`, which picks bands, relaxes the
constraints, shares margins along the paths that lack room and pins the hits near the chart. `Replay` is
`trace/physical_replay.py`. `GameSim` is the client: `RunFrame` runs the frames at which something is due (all others
change nothing), in the code's order of fever tick, time-outs and presses.

### GemSearch

`OpenBatch` collapses a batch to its distinct loadouts, adds the groups of splits and frontier shapes that the memo of
the song lacks, and cuts the scoring order into chunks; `ScoreNext(c)` scores the next loadout of a chunk on its thread,
with the bound tables of the line before when they still fit; `CloseBatch` gives the winners back. Bounds are integers
rounded up where the code adds an epsilon.

### GeneticSearch

State. `genes` is the population of a batch of runs, run by run, `winners` the result of each genome; `memory` is the
evaluation memo by slot. `search` is an evaluation under way: the genomes still to search, and for the first of them its
lanes, each with its own best and next combo, and `seen`, every value the shared incumbent has had. `runBest` and `rows`
are `ga_run_best` and `ga_fg_candidates`. `gaAt` is what the host has launched last, `place` its loop variables.

Actions. `StartRuns` draws a batch; `FindRepresentatives` takes memo hits and chooses which genomes to search;
`LaneStep(l)` searches the next combo of a lane, with any value the incumbent has had, since the read is not ordered with
the writes of the other lanes; `FinishLanes` and `ScatterResults` end the evaluation. `NextGeneration` breeds,
`PackTop` packs the candidates of a batch, `BeginPass` and `UpdateRunsBest` are the polish, and `PackBests` ends the
run. Every draw of the generator is a choice over what it can give, except that ten redraws of a mini in a row fail only
in the songs marked `unlucky`. What a genome is searched with (its reference surface and the surviving combos) is a
function of its stats, computed once per song (`Preparations`). float32 bounds are integers with the margins of the
code; ratios are rounded up to thousandths. Slots have items, as the catalog gives each slot some: with an empty one,
`reachable_ftff_keys` would have no key and the search no combo.

## Runs

| Run | Instance | Shows |
|---|---|---|
| `solve_queue` | 2 slots, 2 tasks, all crash points, a stop at any moment | `ReportedOnce`, `DoneIsCommitted`, `OutcomeNamesItsTask`, `QueueNeverStarves`, `EveryTaskReported`, and that the run refines `TaskLedger` |
| `solve_queue_ends` | 2 slots, 2 tasks, deaths at "get" and "commit" | `RunEnds` under fairness |
| `solve_queue_stop` | 2 slots, 1 task, no death | a violation: `StopRequestEndsTheRun` (see the finding) |
| `results_store` | 2 songs, 2 hashes, boards of 1, 2 base and 2 FG scores, 3 stores | rows are valid and numbered apart (`RowsAreValid`), scores replay (`ScoresReplay`), the board is the top (`MetaBoardIsTheTop`), bests never fall and numbers stay (`BestNeverFalls`, `NumbersStay`) |
| `song_records` | 2 workers, 2 songs, bests 0..3, epsilon 1, 3 stores | each improvement is counted once |
| `solve_worker` | 2 threads, 2 official jobs, 1 uploaded, crashes, 2 solves with any number of retries | a request gets its own answer (`AnswersAreTheirs`), leaves no process solving for nobody (`NoOrphanSolve`, `NoWorkerLeaks`), a job is solved once at a time (`OneSolvePerJob`), every request returns (`RequestsReturn`) |
| `solve_worker_memory` | 2 threads, 2 official jobs, no crash | a violation: `MemoryExitIsSmooth` (finding 2) |
| `service_update` | 2 requests, 2 slots, revisions 0..2 (2 is code), 1 failure, signals | `NoSolveDuringUpdate`, `ChecksAreSeen`, `DrainEnds`, `CatchesUp` |
| `service_update_signal` | 1 request, 1 slot, revisions 0..1 (1 is code) | a violation: `SignalsShutDown` (finding 3) |
| `gpu_executor` | 3 solves of 3 tasks on 2 songs, 2 runs of 2 generations, 2 faults, hangs; 4 songs of 1 or 2 runs of 1 or 2 genomes and generations, 2 lanes, a memo of 3 slots, populations of 3 | a table is of the song and items asked for (`AnswersAreTheirs`), an abort is honoured at the next check (`AbortIsHonoured`), calls end (`CallsEnd`); every genome gets the winner of the full search of its stats (`WinnersAreExact`), candidate tables hold the best (`TablesHoldTheBest`) |
| `frontier_cache` | 2 processes, 2 songs, 2 stat keys, 3 operations, 1 crash or damaged file, failing builds and writes, a drift sample of 1 | `ServedInFull`, `ReadyIsComplete`, `BundlesOnlyGrow` |
| `frontier_build` | a pool of 3 songs on 2 cores; 14 songs of 2 to 12 notes with 1 to 3 geometries, 3 Perfect windows, 2 frame rates, 3 phases; 10 songs of 2 batches of loadouts | pool: `EachSongOnce`, `FitsTheBudget`, `PrebuildEnds`; frontiers: `FrontierIsExact`, `EveryRowHasATrace`, `TablesFitTheBudget`; traces: `SearchIsExact`, `PlansAddUp`, `GamesScoreTheirSurface`; gems: `WinnersAreTheBest` |

`frontier_build` holds three systems that share no state: a behaviour is the pool, or one song from its build through
the trace of one of its rows to a game that plays it, or the gem search of a song. `gpu_executor` is the executor or
the genetic search of one song. The type invariants of `SolveQueue`,
`ServiceUpdate` and `SongRecords` have no run: they are theorems.

Why the bounds are enough. Two slots let one worker finish, leave or die while the other one waits, solves or is
replaced; a process that leaves for memory comes back in the same slot, so the number of processes is not bounded by
the slots. Two tasks and two end marks let a worker that was replaced read the other one's mark. Boards of one
entry make every second loadout fall off a board; scores 1, 3 and FG scores 2, 4 interleave so that an FG result can be
beaten by a base score of its own loadout and the reverse. Three stores are what it takes to store, drop and store
again. Three bests over an epsilon of one allow rises below, at and above the epsilon. Two solves are what it takes for
one request to meet what an earlier one left behind (a late answer, a dying process, an in-flight entry), and every
solve may need a process of its own. Two revisions let the remote move again, with Data or code, during an update, and
let a publisher be ahead of the remote; one failure at any step leaves every intermediate state once; two requests and
the updater's builds over two slots leave one waiting for a slot, one at the gate and one in.

Three solves let a task follow one of the same song with other items and one of another song; two faults are the
failure and the failing retry; two runs and two generations let a best come from an earlier generation and a table from
an earlier run. Two stat keys let a bundle hold a part of what is asked for; two processes over two songs let one
prebuild while the other serves, maintains or prebuilds as well, and a third operation come after them; one fault at
any point leaves every partial file once; a sample of one hit out of two lets a drift be seen or missed. Three songs in the pool weigh 7, 5 and 3 GB: under a budget of 7 one of them runs
at a time, under 14 any two do, and with 10 GB measured beside the 7 the 5 is passed over for the 3; so they are
admitted in each of the ways the ledger has, and a pool of one task per worker is replaced between them. Most of the songs were chosen among some thousands of random ones, with fevers as
long as the game makes them for their length, so that each of the mechanisms decides a frontier of one of them: chords and near notes, held tails, forced Greats at either edge, early exits, late
regions, geometries with the hits of another one, head notes inside and outside fevers. With a ramp of three notes
(`HEAD_NOTES` in the code is 100 notes) most of a song is body. The gem songs were drawn so that floors cut, groups
repeat between batches, colors coincide, curves saturate and are not concave, and every branch of the bounds decides.
In the four songs of the genetic search two lanes meet one to four surviving combos, so that they list them or stride the
shortlist; three memo slots hold fewer entries than there are stats, so that entries collide and evict; populations of
three split a neighborhood into chunks and put several runs in one; a second polish pass comes with one run improved and
the other not; one song has a tie between combos, and one has ten redraws fail.
Sampled stat rows are the corners of the box and points between them.

Fairness. Weak fairness of every live process's own steps, of its StopWatch thread's wake-up and of the parent's loop:
the operating system schedules them, and the parent's `wait` has a time-out. Nothing is assumed of stop requests,
deaths or failures. The liveness run leaves out deaths that hold the queue's read lock ("read"): such a worker blocks
every other worker in `pending.get()` and the run cannot end. Deaths at points other than those two behave, for the
parent, as one of them: outside a task ("get") or in a task ("commit").

`SolveWorker` assumes weak fairness of the handler threads only: they run, and `_responses.get` has a time-out, so
`TimeOut` is enabled while nothing arrives. Nothing is assumed of worker processes and their readers: a GPU call may
hang for ever. `ServiceUpdate` assumes that the updater's thread and `main()` go on (git commands have time-outs), that
a solve that is in its slot ends, which is what `RequestsReturn` shows of `SolveWorker`, and that a thread at the gate
looks again, which it does every second. No request needs to come, no push, pull, check or signal, and failures may
come as long as there are finitely many.

`GpuExecutor` assumes weak fairness of the owner thread, the client and the StopWatch thread. A time-out may win against
the owner at any time; a standalone run waits without one for a GPU step that hangs, and `CallsEnd` says so.
`FgPrebuild` assumes weak fairness of the parent and the guard, and strong fairness of a worker's own step, which is
enabled in each pause between two suspensions; `PrebuildEnds` is claimed when free RAM settles (observation 6).

## Findings

1. `solve_queue_stop`. `workers.py:120` (also `:86` and `:105`) calls `set()` of a `multiprocessing.Event`. CPython's
`Event.set` is a `Condition.notify_all`: it wakes the sleepers and then waits for each of them to acknowledge. Every
worker process has a StopWatch thread in `stop.wait()` (`workers.py:169-173`); when the process has exited, that
acknowledgement never comes. So after any worker left (the queue is empty for it, it left for memory, or it died) a
stop request hangs the parent in `set()`, which holds the event's lock, so the remaining workers hang at `is_set()`.
The module promises that the parent "stops them all on a stop request or a lost GPU" (`workers.py:5-6`).

2. `solve_worker_memory`. A worker that is past the memory limit answers and exits (`service_worker.py:90-94`); the
comment says "the service starts a fresh one". A request that waits on the handle's lock takes it when the answer is
in, and `proc.poll()` (`robeatsmeta_service.py:463`) says that the process still runs. Its line goes to a process that
reads no more, and the job fails with "solve worker exited".

3. `service_update_signal`. SIGTERM ends `serve_forever` (`robeatsmeta_service.py:725-736`) and leaves no mark. If the
updater asks for a restart before `main()` looks at `restart_revision` (line 742), or has asked already, `main()`
executes the new image, and the service that was told to stop serves on.

## Observations

Met while modelling, and not violations of a promise that a run could refute.

1. `upload_timeline` keeps the old `_timeline_key` during an upload (`gpu/device.py:72-94`): if it fails half way and the
   next solve is of the old song, the device holds a torn timeline under its key. `AnswersAreTheirs` excepts `Torn`.
2. A timeline file that is there and incomplete is a miss of the plan, yet `timeline_prebuild.py:39-41` looks only
   whether the file exists, so the prebuild builds nothing and reports ready.
3. `remove_temp_files` (`frontier/cache.py:158`) deletes the temporary files of live single builds, whose rename then
   fails; they serve what they built from memory. `_payload_file_is_complete` deletes outside the lock of the bundle.
4. The docstring of the RAM guard counts idle workers among the running ones (`fg_prebuild.py:98-101`); a suspended
   worker that holds the call queue's lock is resumed by the stall rule only.
5. A worker killed inside `pending.get()` keeps the queue's read lock (`workers.py:178`); see the fairness of
   `solve_queue_ends`.
6. Free RAM that swings across both floors for ever may resume one worker again and again and never another.
7. The radix of packed pairs is argued from "at most one boundary Great plus the early-Great band" per section
   (`producer_kernels.py:2926-2931`); late region runs over chords add more. TLC finds a song that passes the stated sum,
   on songs far smaller than what the radix would need to overflow, so no frontier is known to be wrong.
8. `later_forced`'s sentinel -1 in the packet families would be read as a note for a fill of half a Perfect; the game
   has none. That an early-Great tail never meets the forced run (`producer_kernels.py:157-161`) needs a fever time well
   above the hit windows.
9. A row of a frontier may add up a play that no input order can play. `reconstruct` then raises `UnplayableTrace` and
   `pipeline/fg.py:138-150` takes the next best surface, which an unplayable row may have dominated.
10. With fevers hardly longer than the frame margins of their notes, the constraints of a plan close a cycle and the
   schedule raises "a fever window closes on itself". A plan with less than a frame of room somewhere keeps judgments
   and combo, but may lose a fever note at some phase of the frames: `GamesScoreTheirSurface` claims the surface for plans
   with room everywhere.
11. The simulator's sub-frame fever tick (`simulate`, lines 620-640 of `src/tools/verify/game_sim.py`) never does
   anything, because the frame has already moved the clock: fevers start and end at frames.
12. The last note of the ramp has the full multiplier, so its order with the first body note does not score (`AsScored`).
13. The gem search is exact because the element it selects is the primary color, and `_kept_splits` may stop at a cap
   because pre-gem Fever stats are not negative: both hold for the game's data.
14. `robeatsmeta_service.py:748`: an exec cuts off answers that handler threads have not sent; at a signal, `main()` stops
   the warm worker before the updater (738), and `stop()` waits for the lock of a request (483).
15. `ftff_shortlist` keeps "the highest combo index" of identical options and calls it "the GA's tie-break"
  (`solver/ftff_combos.py:70-71`); the lanes keep the lowest combo of a tie (`gpu/kernels.py:376-390`). The scores are equal.
16. The GPU search never spends a gem past the stat cap, the gem search on the host may: `WinnersAreExact` is about combos
  within the caps. `_mutate_to_other_item` may redraw the first item of a pool (`gpu/kernels.py:482-485`).
17. Two processes that create one database race between reading `user_version` and `BEGIN IMMEDIATE` (`store/schema.py:54`).
18. A bundle damaged past its head is never rebuilt: its probe succeeds (`fg_cache_store.py:256-274`), so the merge that
  would delete it is reached only by a request for keys it lacks, and until then every load from disk raises
  (`fg_cache.py:160`).

## Proofs

Eight modules of proofs, one per component, each over every value of its component's constants and from no assumption
but the named ones the component declares. Each states an inductive invariant `IInv` (checked by TLC on a small
instance before it was proved), has a lemma for each action or each part of the invariant, and derives the properties.
All runs' invariants and action properties of `SolveQueue`, `ResultsStore`, `SongRecords`, `SolveWorker`, `ServiceUpdate`,
`GpuExecutor`, `FrontierCache` and `FgPrebuild` are theorems; their liveness properties are not.

`SolveQueueProofs`: the six safety invariants of the run `solve_queue`, none of which is inductive. `IInv` adds: which
points of a worker hold which item (`ItemInv`); the shape of a pipe, in which starts and outcomes alternate, consistent
with `working` and `item` (`PipeInv`, `AnnouncedInv`); a task that is announced or solved is below `head` and is held by
one worker only (`OwnInv`, `OrderInv`); an outcome in a pipe has its results in the database (`CommitInv`); every task
below `head` is reported, or in the hands of a worker, or in a pipe, or the run was stopped (`TakenInv`); why a slot is
not running and why a process left (`SlotInv`, `LeaveInv`); and the end marks that are left are at least as many as the
slots that may still read (`EndMarkInv`). `LedgerIsKept` is the refinement of `TaskLedger`: the initial states map to
the ledger's, taking an item is its `Take`, a commit its `Keep`, an outcome received or a death found in a task its
`ReportDone` or `ReportFailed`, a stop its `Halt`, the end of the loop its `Finish`, and every other step is a stutter.
It rests on `IInv` and on `ErrorInv`: a run that raises was stopped.

`ResultsStoreProofs`: all five properties. The parts of `IInv` are per song: the rows are valid and numbered apart over
the whole file, scores are those of the results stored with them, and `TopOf` relates the rows to all the results ever
given: what was forgotten, or is off the meta board, is no better than any row of a full board, and a board that is
full stays full. `MetaBoardIsTheTop` alone is not inductive, since a row may leave the meta board, stay on the FG board
and come back with a better base score. The proof follows a merge: one result and its row, the table before the boards
are cut, what a board keeps, what the rows then say of the past. The greatest elements of finite sets and orders, which
the boards are cut by, are proved to exist by taking a smallest counterexample.

`SongRecordsProofs`: the record counter counts each improvement once, for every number of workers and songs and every
epsilon. The invariant says that what a worker read and what it sent are bests the song really had (`ReadsHeld`,
`SentHeld`), that the current best is the largest of them, and that counted records are pairwise different because each
is above the ones before it (`CountedBelow`).

`SolveWorkerProofs`: the four safety invariants. `TableInv` says that the in-flight table names the solve of every thread
that works on one, `LockInv` that a handle's lock is held by the thread that uses its process, `HandleInv` that a live
process belongs to one handle. The core is `FlowInv`: on the way through stdin, the worker, stdout, the reader and the
queue of a process is exactly what the one waiting request asked, or its answer, or nothing; so a late answer of a
process that was given up has nobody to reach.

`ServiceUpdateProofs`: the slots are counted (`SlotsCounted`: at most `Pool` holders, `_active_solves` the number of those
in), nobody solves from the end of a drain until solves are let in again or the new image runs
(`NobodySolvesDuringUpdate`), and the updater does not sleep over a check (`ChecksSeen`). Type correctness is not
inductive alone, since a merge uses a commit that must have been read (`ReadInv`), and neither is `NoSolveDuringUpdate`:
that no one is in a slot after the drain (`DrainedInv`) holds because draining stays on until then (`RestartInv`), and the
step that ends a catalog build moves the updater only because its slot is used for that alone (`CatalogInv`). `WakeInv`:
a check that no run has seen has set the event, or the loop is about to run.

`GpuExecutorProofs`: the table a call returns holds only rows of its own song and items (`TablesAreTheirs`), and an abort
is met by the next check (`AbortsAreHonoured`). `KeyInv` says that the timeline key names what the device's surfaces and
memo hold, but for what a failed upload tore; `BestsInv` which rows are the task's at each step of a run; `CallInv` where
the one call is; `AbortInv` that what was evaluated late was past its check.

`FrontierCacheProofs`: each lock is held by exactly the process whose step needs it, whoever is served holds every key it
asked for, a prebuild that said "ready" left every chart complete, and no publication loses a key (`NoKeyIsLost`, an
action property). `WorkOK` is why bundles only grow: who holds a song's lock has read what serves the song, and nobody
else may write it. `FilesInv` holds that the file that serves a recorded chart is complete, be it the recorded one or
not, so a drift that the sample misses does no harm, whatever the size of the sample. `PlanOK` carries what a plan found
complete to the end of the prebuild, over the purges and publications of the others. That "ready" means complete and that
no key is lost hold while no file is damaged from outside.

`FrontierBuildProofs`, the pool: every song is in one place, built once and tallied, with no more workers than the pool may
have (`SongsAreBuiltOnce`), and the ledger is the sum of the weights in flight, within the budget unless one build runs alone
(`BuildsFitTheBudget`). `PlaceInv` says where a queued future is while the executor is not broken, `WorkersInv` that every
worker of a pool that takes futures lives (so ids count them), `ProgressInv` that the parent waits with nothing in flight
only when nothing is pending, and `LedgerInv` that a song admitted before a recycling still fits after it. It also shows
that the pool always has room for a worker (`RoomForOne`), which the `max(1, ...)` of the code guards.

`FrontierBuildProofs`, the build of a song: for any songs, geometries, hit times and threads, the region tables fit the
budget and the parent never has to raise one of its `MemoryError`s (`TablesFit`), from `SongsAssumption`: hit times and
geometries are numbers, and a timed build asks for a geometry (`build_first_frontiers` returns at once without one). It has
two parts. The first is about the closed form that counts the rows of a table before it is built
(`_numba_region_core_candidate_capacity`, `Candidates`): the rows are a grid of section starts by actions, counted by start
when the table is built (`StartRows`) and by action beforehand (`ActionTotal`), where an action has the starts up to a last
one, but for those of head sections that would count its run twice; `GridBound` exchanges the two sums, and
`CandidatesBound` holds the count against the budget. The second is the ledger: `ThreadsInv` says that the groups in flight
were admitted in order, so none twice, `CoresInv` that the live tables are those that were built, and `BytesInv` that the
ledger is the sum of peaks and sizes over them; with nothing in flight it is zero, so the next group fits (`NeverStuck`).

`FrontierBuildProofs`, the trace of a row: for any songs, geometries, hit times and rows, the search is exact
(`RowsAreTraced`, which is `SearchIsExact`): it gives a row up only if no sections that a play can reach add up to it
(`NoTraceIsLost`), and a trace it returns is a play of the row, sections that follow one another, each with a hit that
plays it, whose edges use the row up (`TracesArePlays`). They are theorems of `TracedSpec`, the build followed by the
search, and need two more parts of `SongsAssumption`: the notes of a song are sorted by time (`chart.py` sorts them),
and a fever lasts 150 ms at least (a second of song at the slowest Fever Time, `fever_durations` and the 0.15 of
`gamedata.py`). Both are needed for one fact, `SectionsAreFit`: every section ends behind the note it starts at, and the
head notes its edge takes lie between the two. The late Greats of a note span less than a fever lasts, so a fever ends
behind its activation, and with notes in order no note before an activation is due after its latest Perfect; the fact
goes through every kind of family: Perfect and late activations, runs at the fill crossing, the shifted region. From it
the surfaces a play can add up to from a note unfold into sections and surfaces from later notes (`PlaysUnfold`; the
table is proved to exist by going back from the last note), what is left of a surface after its first section is exactly
the rest of that play (`JoinSubtracts`), and the skip of head notes left behind drops no section that begins a play
(`AddsLeaves`). The invariant of the search (`SearchInv`) says of its call stack that each call has only sections that
fit and still every one that begins a play of what it is for (`FrameFits`), that each call is for what the one around it
has left (`StackFits`), that what the memo holds no play finishes (`MemoFits`), and that a call that returned nothing
was for such, and one that returned sections was for what they add up to (`AnswerFits`, `IsTrace`; `TraceBegins` puts a
section before them). One lemma for each of `BeginTrace`, `TryOption`, `StoreSection` and `Exhausted` keeps it.
`StoreSection` is the step to look at: an option is dropped after a trace of its rest was found and no hit played it,
and that loses nothing because a section that begins a play is witnessed.

The sums of the first two are a recursive function (`Sums`); that it has a solution and adds up is proved by induction
over a range of numbers, stated for a set of numbers (`RangeInduction`), because an induction theorem with an operator
parameter is beyond the provers. That a finite set has a greatest number (`MaxOf`) and that its i-th number exists
(`NthIsMember`) are proved likewise, from a smallest subset.

Only model-checked: all liveness (fairness and ENABLED are out of the prover's reach), and seven invariants, on chosen
songs and loadouts. `FrontierIsExact` and `EveryRowHasATrace` compare two algorithms that enumerate the same plays, one
of them by folds over sequences of surfaces; `WinnersAreTheBest`, `WinnersAreExact` and `TablesHoldTheBest` rest on such
folds too, each behind bounds with margins for the roundings of a score. An induction over a fold takes an operator as
its parameter, which the prover cannot instantiate. `EveryRowHasATrace` also takes a region packet, computed at one
section start, for every state of its window (`RegionPacket`): that a run the input engine reaches from one start is
reached from the others is checked on the songs, not argued for all charts. `PlansAddUp` and `GamesScoreTheirSurface`
speak of `NotePlan` and `GameSim`, which extend `HitSchedule` and its RECURSIVE operators, with which the prover has no
arithmetic.

## Not modelled, and why

* Of the GPU search: the random generator (its draws are choices), float32 and float64 emulation (`_float64_product`
  settles roundings; scores are integers here), the packing of threads into SIMD groups.
* The timeline frontier (`frontier/timeline_producer.py`, `solver/fever_timeline.py`): the base fevers without forced
  Greats. Its sections are those of `FeverSections` without forced or early Greats.
* Parsing, hashing, packing of rows into files, compression, drawing, logging, command lines, configuration: data and
  I/O without state that actors share.
* `app.py`: a sequential loop around the solve queue; its stop file is the stop of `SolveQueue`. Seeds of repeats
  (`pipeline/queue.py:122`) are sums modulo 2^32 moved past collisions, in one loop of one thread.
* Schema creation and the migration of old databases: one connection inside one transaction; the race of two creators is
  observation 17.
* `meta_analysis_app` and most of `src/tools`: reports and scripts that read what the program wrote.

## Plan

1. Proofs: that a closure never extends past the gap of the floors (the first part of `FrontierIsExact`), whose `Closure` and
   `LatestHit` are folds; the closed forms of `FillCrossing` against their tables; that the lanes of `GeneticSearch` keep
   the lowest of the best combos in any order (`TablesHoldTheBest`); that a dominance skyline of `FgSurfaces` keeps a best
   surface for all stats.
2. Models: the timeline producer against the plays without Greats; two processes that create one database;
   `SolveWorker` under `ServiceUpdate` for what a shutdown leaves running.
