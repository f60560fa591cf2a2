----------------------------- MODULE FgPrebuild -----------------------------
(***************************************************************************)
(* The cold build of the Force Great cache: admission by weight, the       *)
(* recycling process pool and the RAM guard (frontier/fg_prebuild.py,      *)
(* core/recycling_process_pool.py).                                        *)
(*                                                                         *)
(* The parent admits songs heaviest first, as the ledger and the free RAM  *)
(* allow, and submits them to a pool of spawned workers, which is replaced *)
(* as a whole when it has taken its share of tasks or a worker died.  A    *)
(* guard thread suspends workers while RAM is short.  What the system has  *)
(* free, and what the workers measure, may be anything at every look.      *)
(* Gigabytes are integers.                                                 *)
(***************************************************************************)
EXTENDS Integers, Sequences, FiniteSets, SequencesExt, Sums

CONSTANTS
    Notes,         \* the note counts of the songs to build, heaviest first
    Cores,         \* frontier_prebuild_worker_count()
    RamLevels,     \* what psutil may report free
    Measured,      \* what the workers may be measured to hold
    TasksPerWorker,\* _MAX_TASKS_PER_WORKER
    StallPolls,    \* _RESUME_STALL_POLLS
    MaxDeaths,     \* bound: workers that die
    Nobody

Floor == 2            \* _FLOOR_COMMIT_GB
Peak == 7             \* _PEAK_COMMIT_GB
PeakNotes == 7000     \* _PEAK_COMMIT_NOTES
Reserve == 6          \* _SYSTEM_RESERVE_GB
SuspendFloor == 2     \* _SUSPEND_FLOOR_GB
ResumeFloor == 4      \* _RESUME_FLOOR_GB

ASSUME PrebuildAssumption ==
    /\ Notes \in Seq(Nat) /\ Notes # <<>>
    /\ Cores \in Nat \ {0} /\ TasksPerWorker \in Nat \ {0} /\ StallPolls \in Nat /\ MaxDeaths \in Nat
    /\ RamLevels \subseteq Nat /\ RamLevels # {} /\ Measured \subseteq Nat /\ Measured # {}
    /\ Nobody \notin Nat

Builds == DOMAIN Notes

\* _fg_prebuild_song_weight_gb
Weight(b) == Floor + (Notes[b] * (Peak - Floor)) \div PeakNotes
\* The weights of a set of songs, added up.
WeightOf(S) == SumOf(S, [b \in Builds |-> Weight(b)], Len(Notes))

VARIABLES
    ram,         \* what psutil may report free from now on
    tracker,     \* whether spawn started a resource tracker (POSIX): a python child that is no worker
    budget,      \* budget_gb
    at,          \* where the parent is
    pending,     \* the songs not yet admitted
    candidate,   \* the song being submitted
    inFlight,    \* in_flight
    admitted,    \* admitted_weight_gb
    built, failed, \* the tally
    outcome,     \* song -> what its future holds
    generation,  \* the futures of the pool's generation
    broken,      \* whether its executor is broken
    tokens,      \* _idle_worker_semaphore
    spawned,     \* workers it has spawned (their ids, in order of creation)
    doing,       \* its live workers -> the song a worker builds, or Nobody
    queue,       \* the call queue
    reader,      \* the idle worker that holds the call queue's read lock
    suspended,   \* the guard's list
    polls,       \* polls_since_resume (up to StallPolls, where it stops mattering)
    deaths

parentVars == <<ram, tracker, budget, at, pending, candidate, inFlight, admitted, built, failed>>
poolVars == <<outcome, generation, broken, tokens, spawned, doing, queue, reader>>
guardVars == <<suspended, polls>>
prebuildVars == <<parentVars, poolVars, guardVars, deaths>>

Workers == DOMAIN doing
MaxWorkers == IF Cores <= budget \div Floor THEN Cores ELSE budget \div Floor
Capacity == MaxWorkers * TasksPerWorker

PrebuildInit ==
    /\ ram = RamLevels /\ tracker \in BOOLEAN
    /\ \E free \in RamLevels : budget = IF free - Reserve > Peak THEN free - Reserve ELSE Peak
    /\ at = "admit" /\ pending = Builds /\ candidate = Nobody /\ inFlight = {} /\ admitted = 0
    /\ built = {} /\ failed = {}
    /\ outcome = [b \in Builds |-> "none"]
    /\ generation = {} /\ broken = FALSE /\ tokens = 0 /\ spawned = 0 /\ doing = <<>> /\ queue = <<>> /\ reader = Nobody
    /\ suspended = <<>> /\ polls = 0 /\ deaths = 0

-----------------------------------------------------------------------------
\* The parent.

\* Mutant: the ledger is what was measured, not what was admitted.
FitsMeasured(b, free, measured) ==
    inFlight = {} \/ (measured + Weight(b) <= budget /\ Weight(b) <= free - Reserve)

\* Whether a song fits the ledger and the free RAM; one build always runs.
Fits(b, free, measured) ==
    \/ inFlight = {}
    \/ /\ Max({admitted, measured}) + Weight(b) <= budget
       /\ Weight(b) <= free - Reserve

\* _admit_ready: the heaviest pending song that fits, by what is free and measured now.
Admit ==
    /\ at = "admit"
    /\ \E free \in ram, measured \in Measured :
         LET fitting == {b \in pending : Fits(b, free, measured)} IN
         IF fitting # {} /\ Cardinality(inFlight) < MaxWorkers
         THEN /\ at' = "submit" /\ candidate' = Min(fitting)
              /\ pending' = pending \ {candidate'}
         ELSE at' = "wait" /\ UNCHANGED <<candidate, pending>>
    /\ UNCHANGED <<ram, tracker, budget, inFlight, admitted, built, failed, poolVars, guardVars, deaths>>

\* A future is put on the queue, and a worker spawned for it unless one is idle.
Submitted(held, idle, count, workers) ==
    /\ outcome' = [outcome EXCEPT ![candidate] = "queued"]
    /\ generation' = held \cup {candidate}
    /\ queue' = Append(queue, candidate)
    /\ IF idle > 0 THEN tokens' = idle - 1 /\ spawned' = count /\ doing' = workers
       ELSE /\ tokens' = idle
            /\ spawned' = IF Cardinality(DOMAIN workers) < MaxWorkers THEN count + 1 ELSE count
            /\ doing' = [w \in DOMAIN workers \cup {spawned'} |-> IF w \in DOMAIN workers THEN workers[w] ELSE Nobody]
    /\ inFlight' = inFlight \cup {candidate}
    /\ admitted' = admitted + Weight(candidate)
    /\ candidate' = Nobody /\ at' = "admit"

\* submit: a full or broken generation is finished first.
Submit ==
    /\ at = "submit"
    /\ IF Cardinality(generation) >= Capacity \/ broken
       THEN at' = "recycle" /\ UNCHANGED <<candidate, inFlight, admitted, poolVars>>
       ELSE Submitted(generation, tokens, spawned, doing) /\ UNCHANGED <<broken, reader>>
    /\ UNCHANGED <<ram, tracker, budget, pending, built, failed, guardVars, deaths>>

\* _finish_generation, then _start_generation: every future has its outcome and every worker has left.
Recycled ==
    /\ at = "recycle" /\ \A b \in generation : outcome[b] # "queued"
    /\ Workers = {}
    /\ broken' = FALSE /\ reader' = Nobody /\ suspended' = <<>>
    /\ Submitted({}, 0, 0, <<>>)
    /\ UNCHANGED <<ram, tracker, budget, pending, built, failed, polls, deaths>>

\* The wait ends with the finished futures, or after ten seconds with none: they are tallied.
Collect ==
    LET done == {b \in inFlight : outcome[b] \in {"ok", "error"}} IN
    /\ at = "wait" /\ inFlight # {}
    /\ at' = "admit"
    /\ inFlight' = inFlight \ done
    /\ admitted' = admitted - WeightOf(done)
    /\ built' = built \cup {b \in done : outcome[b] = "ok"}
    /\ failed' = failed \cup {b \in done : outcome[b] = "error"}
    /\ UNCHANGED <<ram, tracker, budget, pending, candidate, poolVars, guardVars, deaths>>

\* Nothing is in flight: the pool is shut down.
Shutdown ==
    /\ at = "wait" /\ inFlight = {}
    /\ at' = "close"
    /\ UNCHANGED <<ram, tracker, budget, pending, candidate, inFlight, admitted, built, failed, poolVars, guardVars, deaths>>

\* The workers have left; then the guard is stopped.
Closed ==
    /\ at = "close" /\ Workers = {}
    /\ at' = "ended" /\ suspended' = <<>>
    /\ UNCHANGED <<ram, tracker, budget, pending, candidate, inFlight, admitted, built, failed, poolVars, polls, deaths>>

-----------------------------------------------------------------------------
\* A worker, while it is not suspended.
Awake(w) == w \in Workers /\ ~Contains(suspended, w)
Gone(w) == [v \in Workers \ {w} |-> doing[v]]

\* An idle worker waits at the call queue, one of them with the read lock.
LockCalls(w) ==
    /\ Awake(w) /\ doing[w] = Nobody /\ reader = Nobody /\ ~broken
    /\ reader' = w
    /\ UNCHANGED <<parentVars, outcome, generation, broken, tokens, spawned, doing, queue, guardVars, deaths>>

TakeCall(w) ==
    /\ Awake(w) /\ reader = w /\ queue # <<>> /\ ~broken
    /\ doing' = [doing EXCEPT ![w] = Head(queue)]
    /\ queue' = Tail(queue) /\ reader' = Nobody
    /\ UNCHANGED <<parentVars, outcome, generation, broken, tokens, spawned, guardVars, deaths>>

\* Its build ends, with a result or an exception.
Finish(w) ==
    /\ Awake(w) /\ doing[w] # Nobody /\ ~broken
    /\ \E o \in {"ok", "error"} : outcome' = [outcome EXCEPT ![doing[w]] = o]
    /\ doing' = [doing EXCEPT ![w] = Nobody]
    /\ tokens' = tokens + 1
    /\ UNCHANGED <<parentVars, generation, broken, spawned, queue, reader, guardVars, deaths>>

\* A shut down executor sends its idle workers away, a broken one terminates all of them; a stopped
\* process does not leave.
LeavePool(w) ==
    /\ Awake(w)
    /\ \/ broken
       \/ /\ at \in {"recycle", "close"} /\ \A b \in generation : outcome[b] # "queued"
          /\ doing[w] = Nobody /\ reader \in {Nobody, w}
    /\ doing' = Gone(w)
    /\ reader' = IF reader = w THEN Nobody ELSE reader
    /\ UNCHANGED <<parentVars, outcome, generation, broken, tokens, spawned, queue, guardVars, deaths>>

\* Mutant: the executor fails the dead worker's future only.
WorkerDiesAlone(w) ==
    /\ w \in Workers /\ ~broken /\ deaths < MaxDeaths
    /\ deaths' = deaths + 1
    /\ doing' = Gone(w) /\ broken' = TRUE /\ queue' = <<>>
    /\ outcome' = IF doing[w] = Nobody THEN outcome ELSE [outcome EXCEPT ![doing[w]] = "error"]
    /\ UNCHANGED <<parentVars, generation, tokens, spawned, reader, guardVars>>

\* A worker dies (native exit, out of memory): the executor breaks and fails all its futures.
WorkerDies(w) ==
    /\ w \in Workers /\ ~broken /\ deaths < MaxDeaths
    /\ deaths' = deaths + 1
    /\ doing' = Gone(w) /\ broken' = TRUE /\ queue' = <<>>
    /\ outcome' = [b \in Builds |-> IF b \in generation /\ outcome[b] = "queued" THEN "error" ELSE outcome[b]]
    /\ UNCHANGED <<parentVars, generation, tokens, spawned, reader, guardVars>>

-----------------------------------------------------------------------------
\* The guard.

Known == SelectSeq(suspended, LAMBDA w : w \in Workers)
Running == {w \in Workers : ~Contains(suspended, w)}
RunningChildren == Cardinality(Running) + IF tracker THEN 1 ELSE 0

\* Mutant: only when nothing runs is a worker resumed below the floor.
ForcedWhenIdle == Known # <<>> /\ RunningChildren = 0

\* force_resume: nothing runs, or too many polls without a resume.
Forced == Known # <<>> /\ (RunningChildren = 0 \/ polls >= StallPolls)

\* One poll: the youngest running worker is suspended, or one worker is resumed (by force the one
\* suspended first), or nothing.
Poll ==
    /\ at # "ended"
    /\ \E free \in ram :
         LET suspends == free < SuspendFloor /\ RunningChildren > 1 /\ ~Forced
             resumes == ~suspends /\ Known # <<>> /\ (free > ResumeFloor \/ Forced)
         IN
         /\ suspended' = IF suspends THEN Append(Known, Max(Running))
                         ELSE IF ~resumes THEN Known ELSE IF Forced THEN Tail(Known) ELSE Front(Known)
         /\ polls' = IF resumes THEN 0 ELSE IF polls < StallPolls THEN polls + 1 ELSE polls
    /\ UNCHANGED <<parentVars, poolVars, deaths>>

\* The load of the machine settles: free RAM stays short of the resume floor, or above the suspend floor.
Settle ==
    /\ ram = RamLevels
    /\ \E side \in {{f \in RamLevels : f <= ResumeFloor}, {f \in RamLevels : f >= SuspendFloor}} :
         side # {} /\ ram' = side
    /\ UNCHANGED <<tracker, budget, at, pending, candidate, inFlight, admitted, built, failed, poolVars, guardVars, deaths>>

ParentStep == Admit \/ Submit \/ Recycled \/ Collect \/ Shutdown \/ Closed
WorkerStep(w) == LockCalls(w) \/ TakeCall(w) \/ Finish(w) \/ LeavePool(w)

PrebuildNext ==
    \/ ParentStep \/ Poll \/ Settle
    \/ \E w \in Workers : WorkerStep(w) \/ WorkerDies(w)

PrebuildSpec == PrebuildInit /\ [][PrebuildNext]_prebuildVars

\* The parent and the guard are scheduled.  A worker that is resumed again and again gets its time: it
\* takes its step in one of the pauses between two suspensions, which last a poll at least.
PrebuildFairness ==
    /\ WF_prebuildVars(ParentStep) /\ WF_prebuildVars(Poll)
    /\ \A w \in 1..Cores : SF_prebuildVars(w \in Workers /\ WorkerStep(w))

-----------------------------------------------------------------------------
\* Every song is in one place: pending, being submitted, in flight or tallied, once; a queued future is
\* in the call queue or with one worker of the generation, and no more workers live than the pool has.
EachSongOnce ==
    /\ pending \cup (IF candidate = Nobody THEN {} ELSE {candidate}) \cup inFlight \cup built \cup failed = Builds
    /\ Cardinality(pending) + (IF candidate = Nobody THEN 0 ELSE 1) + Cardinality(inFlight) + Cardinality(built)
         + Cardinality(failed) = Cardinality(Builds)
    /\ \A b \in Builds : outcome[b] = "queued" =>
         /\ b \in inFlight /\ b \in generation
         /\ Cardinality({w \in Workers : doing[w] = b}) + Cardinality({i \in DOMAIN queue : queue[i] = b}) = 1
    /\ Cardinality(Workers) <= MaxWorkers
    /\ at = "ended" => built \cup failed = Builds

\* The builds in flight fit the budget by their weights, unless there is only one.
FitsTheBudget ==
    /\ admitted = WeightOf(inFlight)
    /\ Cardinality(inFlight) > 1 => WeightOf(inFlight) <= budget

\* The prebuild ends, with every song built or failed, however little RAM stays free: nobody waits for ever
\* for a suspended worker, be it the one that holds the call queue.  (While free RAM swings across both
\* floors for ever the guard may resume one worker again and again and never another.)
PrebuildEnds == <>(ram # RamLevels) => <>(at = "ended")
=============================================================================
