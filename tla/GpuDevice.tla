----------------------------- MODULE GpuDevice -----------------------------
(***************************************************************************)
(* The GPU state of a process and the steps of one GA run on it            *)
(* (gpu/device.py, gpu/runtime.py, gpu/ga.py).  Only one thread, the       *)
(* executor's owner, takes these steps.                                    *)
(*                                                                         *)
(* The data is abstracted to its origin: `surfaces` is the song whose      *)
(* timeline frontier the device holds, `memo` the songs whose evaluation   *)
(* results the memo holds, a run's best and its row of the candidate table *)
(* the songs and the items they were computed from.                        *)
(***************************************************************************)
EXTENDS Naturals

CONSTANTS
    Tasks,       \* the solves a process may be asked for: a song with a set of items
    Warm,        \* the synthetic task of the warmup
    SongOf,      \* task -> the timeline key of its song
    Nothing,     \* nothing uploaded
    Torn,        \* surfaces of an upload that failed half way
    Runs,        \* GA runs of a song, one batch each (1..Runs)
    Generations, \* generations of a run
    MaxImproving,\* polish passes that improve a run's best
    MaxFaults    \* failing GPU steps

ASSUME DeviceAssumption ==
    /\ Runs \in Nat \ {0} /\ Generations \in Nat \ {0} /\ MaxImproving \in Nat /\ MaxFaults \in Nat
    /\ Warm \notin Tasks
    /\ Nothing \notin Tasks \cup {Warm}
    /\ DOMAIN SongOf = Tasks \cup {Warm}
    /\ \A t \in DOMAIN SongOf : SongOf[t] \notin {Nothing, Torn}
    /\ Nothing # Torn

AllTasks == Tasks \cup {Warm}
Songs == {SongOf[t] : t \in AllTasks}

VARIABLES
    taichi,     \* runtime._ti_initialized
    devReady,   \* device._ready
    timelineKey, \* device._timeline_key
    surfaces,   \* the song of the frontier in the fields
    memo,       \* the songs of the evaluation memo's results
    itemsOf,    \* the task whose items and base stats are uploaded
    runsBest,   \* run -> origin of its tracked best
    table,      \* run -> origin of its rows of the candidate table
    step,       \* where the owner thread is in _run_ga ("out": not in it)
    job,        \* the task of the GA, its attempt, run and generation, and the passes that improved
    faults      \* GPU steps that failed (bounded by MaxFaults)

fieldVars == <<surfaces, memo, itemsOf, runsBest, table>>
deviceVars == <<taichi, devReady, timelineKey, fieldVars>>
gaVars == <<deviceVars, step, job, faults>>

NoOrigin == [songs |-> {}, items |-> Nothing]

\* What the evaluation of the population is made from: the results of the memo and of the surfaces,
\* of genomes drawn from the uploaded items.
Origin == [songs |-> memo \cup {surfaces}, items |-> itemsOf]

\* fields.allocate_fields, and the fields of a runtime that was reset: nothing is uploaded.
FieldsGone ==
    /\ surfaces' = Nothing
    /\ memo' = {}
    /\ itemsOf' = Nothing
    /\ runsBest' = [r \in 1..Runs |-> NoOrigin]
    /\ table' = [r \in 1..Runs |-> NoOrigin]

\* Mutant: a reset that forgets the fields but not whose timeline was uploaded.
HardResetKeepsKey ==
    /\ taichi' = FALSE /\ devReady' = FALSE /\ UNCHANGED timelineKey
    /\ FieldsGone

\* hard_reset with reset_taichi: sync and reset are best effort, the flags fall in any case.
HardReset ==
    /\ taichi' = FALSE
    /\ devReady' = FALSE
    /\ timelineKey' = Nothing
    /\ FieldsGone

DeviceInit ==
    /\ taichi = FALSE /\ devReady = FALSE /\ timelineKey = Nothing
    /\ surfaces = Nothing /\ memo = {} /\ itemsOf = Nothing
    /\ runsBest = [r \in 1..Runs |-> NoOrigin]
    /\ table = [r \in 1..Runs |-> NoOrigin]
    /\ step = "out"
    /\ job = [task |-> Nothing, attempt |-> 0, run |-> 1, generation |-> 0, improved |-> 0]
    /\ faults = 0

-----------------------------------------------------------------------------
\* _run_ga is entered for task t.
EnterGa(t, attempt) ==
    /\ step' = "ready"
    /\ job' = [task |-> t, attempt |-> attempt, run |-> 1, generation |-> 0, improved |-> 0]

At(s) == step = s
Goto(s) == step' = s

\* ensure_ready: the runtime, the fields and the constant curves, once; the flag is set last.
EnsureReady ==
    /\ At("ready") /\ Goto("timeline")
    /\ IF devReady THEN UNCHANGED deviceVars
       ELSE taichi' = TRUE /\ devReady' = TRUE /\ FieldsGone /\ UNCHANGED timelineKey
    /\ UNCHANGED <<job, faults>>

\* upload_timeline: nothing when the key is the song's; otherwise the memo is emptied and the
\* upload begins, over the surfaces of the song before.
UploadTimeline ==
    /\ At("timeline")
    /\ IF timelineKey = SongOf[job.task]
       THEN Goto("items") /\ UNCHANGED <<surfaces, memo>>
       ELSE Goto("uploading") /\ memo' = {} /\ surfaces' = Torn
    /\ UNCHANGED <<taichi, devReady, timelineKey, itemsOf, runsBest, table, job, faults>>

\* The upload's end: the key is set last.
TimelineUploaded ==
    /\ At("uploading") /\ Goto("items")
    /\ surfaces' = SongOf[job.task]
    /\ timelineKey' = SongOf[job.task]
    /\ UNCHANGED <<taichi, devReady, memo, itemsOf, runsBest, table, job, faults>>

\* upload_items, the heuristic and the shortlist, and run bests without a winner.
UploadItems ==
    /\ At("items") /\ Goto("batch")
    /\ itemsOf' = job.task
    /\ runsBest' = [r \in 1..Runs |-> NoOrigin]
    /\ UNCHANGED <<taichi, devReady, timelineKey, surfaces, memo, table, job, faults>>

\* start_batch_kernel: the run's first population.
StartBatch ==
    /\ At("batch") /\ Goto("check")
    /\ job' = [job EXCEPT !.generation = 0]
    /\ UNCHANGED <<deviceVars, faults>>

\* Mutant: the abort is checked before a run's first generation only.
ChecksOncePerRun(abort, from, to) ==
    /\ At(from) /\ (job.task = Warm \/ ~abort \/ job.generation > 0)
    /\ Goto(to)
    /\ UNCHANGED <<deviceVars, job, faults>>

\* check(): before a generation and before a polish pass.  The warmup's check does nothing.
CheckPasses(abort, from, to) ==
    /\ At(from) /\ (job.task = Warm \/ ~abort)
    /\ Goto(to)
    /\ UNCHANGED <<deviceVars, job, faults>>

\* A generation: the population is evaluated through the memo, the run's best kept, then the next
\* generation bred, or after the last the run's top candidates packed.
Evaluate ==
    /\ At("evaluate")
    /\ memo' = memo \cup {surfaces}
    /\ runsBest' = [runsBest EXCEPT ![job.run] = [songs |-> @.songs \cup Origin.songs, items |-> Origin.items]]
    /\ job' = [job EXCEPT !.generation = @ + 1]
    /\ Goto(IF job.generation + 1 < Generations THEN "check" ELSE "pack")
    /\ UNCHANGED <<taichi, devReady, timelineKey, surfaces, itemsOf, table, faults>>

PackCandidates ==
    /\ At("pack")
    /\ table' = [table EXCEPT ![job.run] = runsBest[job.run]]
    /\ IF job.run < Runs
       THEN Goto("batch") /\ job' = [job EXCEPT !.run = @ + 1]
       ELSE Goto("polishCheck") /\ UNCHANGED job
    /\ UNCHANGED <<taichi, devReady, timelineKey, surfaces, memo, itemsOf, runsBest, faults>>

\* A pass of _polish_runs_best: the neighborhoods of every run's best are evaluated; the polish goes
\* on while a run improves.
PolishPass ==
    /\ At("polish")
    /\ memo' = memo \cup {surfaces}
    /\ \/ /\ job.improved < MaxImproving
          /\ Goto("polishCheck")
          /\ job' = [job EXCEPT !.improved = @ + 1]
          /\ runsBest' = [r \in 1..Runs |-> [songs |-> runsBest[r].songs \cup Origin.songs, items |-> Origin.items]]
       \/ Goto("packBests") /\ UNCHANGED <<job, runsBest>>
    /\ UNCHANGED <<taichi, devReady, timelineKey, surfaces, itemsOf, table, faults>>

PackRunBests ==
    /\ At("packBests") /\ Goto("done")
    /\ table' = [r \in 1..Runs |-> [songs |-> table[r].songs \cup runsBest[r].songs, items |-> runsBest[r].items]]
    /\ UNCHANGED <<taichi, devReady, timelineKey, surfaces, memo, itemsOf, runsBest, job, faults>>

\* The steps that call into the driver, where it may fail.
DriverSteps == {"ready", "uploading", "items", "batch", "evaluate", "pack", "polish", "packBests"}

\* A driver step fails (ensure_ready calls the driver only while it is not ready).
DriverFails ==
    /\ step \in DriverSteps /\ faults < MaxFaults
    /\ At("ready") => ~devReady
    /\ faults' = faults + 1

\* run_ga: a Vulkan semaphore failure restarts the song's GA once, on a fresh runtime.
RetryOnFreshRuntime ==
    /\ DriverFails
    /\ job.task # Warm /\ job.attempt = 0
    /\ HardReset
    /\ EnterGa(job.task, 1)

\* Every other failure leaves _run_ga; the device keeps what it holds.
LeaveGa ==
    /\ Goto("out")
    /\ UNCHANGED <<deviceVars, job>>
FailsForGood == DriverFails /\ LeaveGa

GaStep(abort) ==
    \/ EnsureReady \/ UploadTimeline \/ TimelineUploaded \/ UploadItems \/ StartBatch
    \/ CheckPasses(abort, "check", "evaluate") \/ CheckPasses(abort, "polishCheck", "polish")
    \/ Evaluate \/ PackCandidates \/ PolishPass \/ PackRunBests
    \/ RetryOnFreshRuntime

\* A row holds the results of its own song and items only, or of surfaces a failed upload tore.
RowIsOf(row, t) == row.items = t /\ row.songs \subseteq {SongOf[t], Torn}

=============================================================================
