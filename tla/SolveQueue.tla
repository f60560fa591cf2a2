----------------------------- MODULE SolveQueue -----------------------------
(***************************************************************************)
(* A run's queue solved by worker processes: pipeline/workers.py.          *)
(*                                                                         *)
(* The parent (solve_queue) puts every task on one multiprocessing queue,  *)
(* then one end mark (None) per worker, and spawns the workers.  A worker  *)
(* process (_worker_main) takes one item at a time, announces the task on  *)
(* its own pipe, solves and stores it and announces the outcome.  The      *)
(* parent waits for pipes and exits, counts, and replaces the workers that *)
(* left to release memory or died in a task.                               *)
(*                                                                         *)
(* A process may die at any point of CrashPoints (a kill, a native crash,  *)
(* an exception nobody catches): what it sent stays in its pipe, what it   *)
(* committed stays in the database, and the queue's read lock stays taken  *)
(* when it held it.                                                        *)
(*                                                                         *)
(* The stop event is a multiprocessing.Event.  Its set() holds the event's *)
(* lock until every thread that slept in wait() has woken, and it counts   *)
(* the sleepers in a semaphore: a process that exits while its StopWatch   *)
(* thread sleeps leaves a count that nobody gives back, and is_set() of    *)
(* every process waits for the lock meanwhile.                             *)
(***************************************************************************)
EXTENDS Integers, Sequences, FiniteSets

CONSTANTS
    Workers,      \* the worker slots, range(workers)
    N,            \* the number of tasks, len(tasks)
    CrashPoints   \* the points of a worker's code at which its process may die

\* Where a live worker process is in _worker_main.
LivePoints == {"boot",     \* importing, loading the catalog, starting the executor, connecting
               "check",    \* at `while not stop.is_set()`
               "get",      \* in pending.get(), before it holds the queue's read lock
               "read",     \* in pending.get(), holding the lock
               "taken",    \* holds an item it has not announced
               "solve",    \* in solve_song
               "commit",   \* store_results has committed, store_solve has not returned
               "leave0",   \* in the finally block, to exit with code 0
               "leave3"}   \* in the finally block, to exit with _EXIT_FOR_MEMORY
ExitPoints == {"exit0", "exit3", "died"}

ASSUME WorkersAssumption == Workers # {} /\ IsFiniteSet(Workers)
ASSUME NAssumption == N \in Nat
ASSUME CrashPointsAssumption == CrashPoints \subseteq LivePoints

Tasks == 1..N
NoTask == 0
NoHandle == <<>>

\* Mutant: one end mark for all the workers.
OneEndMark == 1

\* for _ in range(workers): pending.put(None)
EndMarks == Cardinality(Workers)

VARIABLES
    \* The queue and the worker processes.
    head,        \* position of the next item of `pending`: tasks 1..N, then one None per worker
    lock,        \* the worker whose process holds the read lock of `pending`: {w}, or {}
    pc,          \* worker -> where its process is ("none": no process)
    item,        \* worker -> the task its process holds
    pipe,        \* worker -> events sent and not yet received
    committed,   \* tasks whose results the database holds
    asleep,      \* the workers whose process has its StopWatch thread in stop.wait()
    orphaned,    \* some process exited while its StopWatch thread slept
    \* The parent.
    running,     \* the workers with a process not yet reaped
    working,     \* worker -> the task its events say it is solving
    finished,    \* tasks reported
    stored,      \* tasks reported as stored
    done,        \* tasks given to on_done
    failed,      \* tasks given to on_failed
    error,       \* the first GpuFatalError ("gpu") or RuntimeError ("died"), or "none"
    stop,        \* the stop event: "clear", "setting" (the parent is in stop.set()) or "set"
    requested,   \* what stop_requested() answers
    ready,       \* handles wait() returned and the loop has not handled yet
    handle,      \* the handle in hand
    result       \* "running", "returned" or "raised"

queueVars  == <<head, lock>>
watchVars  == <<asleep, orphaned>>
workerVars == <<pc, item, pipe, committed, watchVars>>
reportVars == <<finished, stored, done, failed>>
loopVars   == <<ready, handle>>
parentVars == <<running, working, reportVars, error, stop, loopVars, result>>
vars == <<queueVars, workerVars, parentVars, requested>>

Event(k, t) == [kind |-> k, task |-> t]   \* the task of "done" and "failed" is not sent: a ghost
Events == [kind : {"start", "done", "failed", "fatal"}, task : Tasks]
Handles == Workers \X {"pipe", "exit"}

\* solve_queue before its loop: the queue filled, every worker spawned.
Init ==
    /\ head = 1
    /\ lock = {}
    /\ pc = [w \in Workers |-> "boot"]
    /\ item = [w \in Workers |-> NoTask]
    /\ pipe = [w \in Workers |-> <<>>]
    /\ committed = {}
    /\ asleep = {} /\ orphaned = FALSE
    /\ running = Workers
    /\ working = [w \in Workers |-> NoTask]
    /\ finished = 0 /\ stored = 0
    /\ done = {} /\ failed = {}
    /\ error = "none"
    /\ stop = "clear" /\ requested = FALSE
    /\ ready = {} /\ handle = NoHandle
    /\ result = "running"

-----------------------------------------------------------------------------
(* The worker process: _worker_main.                                       *)

GoTo(w, p) == pc' = [pc EXCEPT ![w] = p]
Send(w, e) == pipe' = [pipe EXCEPT ![w] = Append(@, e)]

\* Everything before the loop succeeds.  The StopWatch thread sleeps in
\* stop.wait() unless the event is set, or about to be.
Boot(w) ==
    /\ pc[w] = "boot"
    /\ GoTo(w, "check")
    /\ asleep' = IF stop = "clear" THEN asleep \cup {w} ELSE asleep
    /\ UNCHANGED <<queueVars, item, pipe, committed, orphaned, parentVars, requested>>

\* while not stop.is_set(): it waits while the parent is in stop.set().
CheckStop(w) ==
    /\ pc[w] = "check"
    /\ stop # "setting"
    /\ GoTo(w, IF stop = "set" THEN "leave0" ELSE "get")
    /\ UNCHANGED <<queueVars, item, pipe, committed, watchVars, parentVars, requested>>

\* The StopWatch thread wakes up.  It aborts the executor once set() is through.
WakeWatch(w) ==
    /\ stop = "setting"
    /\ w \in asleep
    /\ asleep' = asleep \ {w}
    /\ UNCHANGED <<queueVars, pc, item, pipe, committed, orphaned, parentVars, requested>>

\* pending.get() acquires the queue's read lock.
LockQueue(w) ==
    /\ pc[w] = "get"
    /\ lock = {}
    /\ lock' = {w}
    /\ GoTo(w, "read")
    /\ UNCHANGED <<head, item, pipe, committed, watchVars, parentVars, requested>>

\* pending.get() returns a task.
TakeTask(w) ==
    /\ pc[w] = "read"
    /\ head <= N
    /\ item' = [item EXCEPT ![w] = head]
    /\ head' = head + 1
    /\ lock' = {}
    /\ GoTo(w, "taken")
    /\ UNCHANGED <<pipe, committed, watchVars, parentVars, requested>>

\* pending.get() returns an end mark: the worker returns.
TakeEndMark(w) ==
    /\ pc[w] = "read"
    /\ head > N
    /\ head <= N + EndMarks
    /\ head' = head + 1
    /\ lock' = {}
    /\ GoTo(w, "leave0")
    /\ UNCHANGED <<item, pipe, committed, watchVars, parentVars, requested>>

\* Mutant: the task is not announced.
StartSilent(w) ==
    /\ pc[w] = "taken"
    /\ GoTo(w, "solve")
    /\ UNCHANGED <<queueVars, item, pipe, committed, watchVars, parentVars, requested>>

\* events.send(("start", index))
Start(w) ==
    /\ pc[w] = "taken"
    /\ Send(w, Event("start", item[w]))
    /\ GoTo(w, "solve")
    /\ UNCHANGED <<queueVars, item, committed, watchVars, parentVars, requested>>

\* solve_song returned and store_results committed its rows.
Commit(w) ==
    /\ pc[w] = "solve"
    /\ committed' = committed \cup {item[w]}
    /\ GoTo(w, "commit")
    /\ UNCHANGED <<queueVars, item, pipe, watchVars, parentVars, requested>>

\* After an outcome: leave when the memory watchdog asked for it, else go on.
AfterTask(w) ==
    /\ \E p \in {"check", "leave3"} : GoTo(w, p)
    /\ item' = [item EXCEPT ![w] = NoTask]
    /\ UNCHANGED <<queueVars, committed, watchVars, parentVars, requested>>

\* Mutant: the outcome is sent before the results are stored.
SendDoneEarly(w) ==
    /\ pc[w] \in {"solve", "commit"}
    /\ Send(w, Event("done", item[w]))
    /\ AfterTask(w)

\* events.send(("done", before, after))
SendDone(w) ==
    /\ pc[w] = "commit"
    /\ Send(w, Event("done", item[w]))
    /\ AfterTask(w)

\* An exception of the solve, or of the store (before or after its commit), that
\* is not the abort of a stop: events.send(("failed", ...)).
SendFailed(w) ==
    /\ pc[w] \in {"solve", "commit"}
    /\ Send(w, Event("failed", item[w]))
    /\ AfterTask(w)

\* The executor aborted the solve because of the stop event: leave without a word.
AbortSolve(w) ==
    /\ pc[w] = "solve"
    /\ stop = "set"
    /\ item' = [item EXCEPT ![w] = NoTask]
    /\ GoTo(w, "leave0")
    /\ UNCHANGED <<queueVars, pipe, committed, watchVars, parentVars, requested>>

\* GpuFatalError: events.send(("fatal", ...)) and leave.
LoseGpu(w) ==
    /\ pc[w] = "solve"
    /\ Send(w, Event("fatal", item[w]))
    /\ item' = [item EXCEPT ![w] = NoTask]
    /\ GoTo(w, "leave0")
    /\ UNCHANGED <<queueVars, committed, watchVars, parentVars, requested>>

\* The process of w is gone, and its StopWatch thread with it.
WatchLost(w) ==
    /\ asleep' = asleep \ {w}
    /\ orphaned' = (orphaned \/ w \in asleep)

\* The finally block is through: the process exits.
Leave(w) ==
    /\ pc[w] \in {"leave0", "leave3"}
    /\ GoTo(w, IF pc[w] = "leave0" THEN "exit0" ELSE "exit3")
    /\ WatchLost(w)
    /\ UNCHANGED <<queueVars, item, pipe, committed, parentVars, requested>>

\* The process dies with another exit code; a lock it holds is never released.
Die(w) ==
    /\ pc[w] \in CrashPoints
    /\ item' = [item EXCEPT ![w] = NoTask]
    /\ GoTo(w, "died")
    /\ WatchLost(w)
    /\ UNCHANGED <<queueVars, pipe, committed, parentVars, requested>>

-----------------------------------------------------------------------------
(* The parent: the loop of solve_queue and its inner functions.            *)

Exited(w) == pc[w] \in ExitPoints

\* The parent is in its loop, not inside stop.set().
InLoop == result = "running" /\ stop # "setting"

\* stop.set(): nothing is left to do when the event is set.
CallSet == stop' = IF stop = "clear" THEN "setting" ELSE stop

\* set() is through: every sleeper has woken.  One whose process is gone never does.
SetReturns ==
    /\ stop = "setting"
    /\ asleep = {} /\ ~orphaned
    /\ stop' = "set"
    /\ UNCHANGED <<queueVars, workerVars, running, working, reportVars, error, loopVars, result, requested>>

\* A stop request of the user (StopController): stop_requested() answers True from now on.
RequestStop ==
    /\ ~requested
    /\ result = "running"
    /\ requested' = TRUE
    /\ UNCHANGED <<queueVars, workerVars, parentVars>>

\* The handles wait() finds ready: a pipe with an event or at its end, an exit.
ReadyHandles ==
    {<<w, "pipe">> : w \in {v \in running : pipe[v] # <<>> \/ Exited(v)}}
        \cup {<<w, "exit">> : w \in {v \in running : Exited(v)}}

AtTop == InLoop /\ running # {} /\ ready = {} /\ handle = NoHandle

\* The top of the loop: if not stop.is_set() and stop_requested(): stop.set()
PollStop ==
    /\ AtTop
    /\ stop = "clear" /\ requested
    /\ CallSet
    /\ UNCHANGED <<queueVars, workerVars, running, working, reportVars, error, loopVars, result, requested>>

\* wait(): a time-out changes nothing and is left out.
Wait ==
    /\ AtTop
    /\ ReadyHandles # {}
    /\ ready' = ReadyHandles
    /\ UNCHANGED <<queueVars, workerVars, running, working, reportVars, error, stop, handle, result, requested>>

\* The two `for handle in ready` loops: the pipes first, then the exits.
Handle ==
    /\ InLoop
    /\ handle = NoHandle
    /\ \E h \in ready :
        /\ h[2] = "exit" => \A g \in ready : g[2] = "exit"
        /\ handle' = h
        /\ ready' = ready \ {h}
    /\ UNCHANGED <<queueVars, workerVars, running, working, reportVars, error, stop, result, requested>>

\* receive(worker, ("start", index))
ReceiveStart(w, e) ==
    /\ e.kind = "start"
    /\ working' = [working EXCEPT ![w] = e.task]
    /\ UNCHANGED <<reportVars, error, stop>>

\* Mutant: the task stays in `working` (a read where the code pops).
ReceiveDoneNoPop(w, e) ==
    /\ e.kind = "done"
    /\ done' = done \cup {working[w]}
    /\ finished' = finished + 1
    /\ stored' = stored + 1
    /\ UNCHANGED <<working, failed, error, stop>>

\* receive(worker, ("done", before, after))
ReceiveDone(w, e) ==
    /\ e.kind = "done"
    /\ done' = done \cup {working[w]}
    /\ working' = [working EXCEPT ![w] = NoTask]
    /\ finished' = finished + 1
    /\ stored' = stored + 1
    /\ UNCHANGED <<failed, error, stop>>

\* receive(worker, ("failed", ...))
ReceiveFailed(w, e) ==
    /\ e.kind = "failed"
    /\ failed' = failed \cup {working[w]}
    /\ working' = [working EXCEPT ![w] = NoTask]
    /\ finished' = finished + 1
    /\ UNCHANGED <<stored, done, error, stop>>

\* Mutant: the other workers go on.
ReceiveFatalGoesOn(w, e) ==
    /\ e.kind = "fatal"
    /\ working' = [working EXCEPT ![w] = NoTask]
    /\ error' = IF error = "none" THEN "gpu" ELSE error
    /\ UNCHANGED <<reportVars, stop>>

\* receive(worker, ("fatal", ...)): this worker's GPU is gone.
ReceiveFatal(w, e) ==
    /\ e.kind = "fatal"
    /\ working' = [working EXCEPT ![w] = NoTask]
    /\ error' = IF error = "none" THEN "gpu" ELSE error
    /\ CallSet
    /\ UNCHANGED reportVars

\* One turn of drain(): an event of the pipe in hand.
Receive(w) ==
    /\ InLoop
    /\ handle \in {<<w, "pipe">>, <<w, "exit">>}
    /\ pipe[w] # <<>>
    /\ pipe' = [pipe EXCEPT ![w] = Tail(@)]
    /\ LET e == Head(pipe[w]) IN
           \/ ReceiveStart(w, e)
           \/ ReceiveDone(w, e)
           \/ ReceiveFailed(w, e)
           \/ ReceiveFatal(w, e)
    /\ UNCHANGED <<queueVars, pc, item, committed, watchVars, running, loopVars, result, requested>>

\* drain() finds the pipe empty or at its end.
Drained(w) ==
    /\ InLoop
    /\ handle = <<w, "pipe">>
    /\ pipe[w] = <<>>
    /\ handle' = NoHandle
    /\ UNCHANGED <<queueVars, workerVars, running, working, reportVars, error, stop, ready, result, requested>>

\* The end of exited(): a worker leaves `running`, and a new process takes its
\* place when `again` holds.
Reap(w, again) ==
    /\ InLoop
    /\ running' = IF again THEN running ELSE running \ {w}
    /\ pc' = [pc EXCEPT ![w] = IF again THEN "boot" ELSE "none"]
    /\ handle' = NoHandle
    /\ UNCHANGED <<queueVars, item, pipe, committed, watchVars, stored, done, ready, result, requested>>

\* Mutant: a worker that ended the queue is replaced too.
ExitedEndAgain(w) ==
    /\ handle = <<w, "exit">> /\ pipe[w] = <<>>
    /\ pc[w] = "exit0"
    /\ Reap(w, stop = "clear" /\ finished < N)
    /\ UNCHANGED <<working, finished, failed, error, stop>>

\* exited(worker) after its drain, exit code 0.
ExitedEnd(w) ==
    /\ handle = <<w, "exit">> /\ pipe[w] = <<>>
    /\ pc[w] = "exit0"
    /\ Reap(w, FALSE)
    /\ UNCHANGED <<working, finished, failed, error, stop>>

\* exited(worker) after its drain, exit code _EXIT_FOR_MEMORY.
ExitedForMemory(w) ==
    /\ handle = <<w, "exit">> /\ pipe[w] = <<>>
    /\ pc[w] = "exit3"
    /\ Reap(w, stop = "clear" /\ finished < N)
    /\ UNCHANGED <<working, finished, failed, error, stop>>

\* Mutant: the task of a dead worker is forgotten.
ExitedInTaskSilent(w) ==
    /\ handle = <<w, "exit">> /\ pipe[w] = <<>>
    /\ pc[w] = "died" /\ working[w] # NoTask
    /\ working' = [working EXCEPT ![w] = NoTask]
    /\ Reap(w, stop = "clear" /\ finished < N)
    /\ UNCHANGED <<finished, failed, error, stop>>

\* exited(worker) after its drain: the process died in a task, which fails.
ExitedInTask(w) ==
    /\ handle = <<w, "exit">> /\ pipe[w] = <<>>
    /\ pc[w] = "died" /\ working[w] # NoTask
    /\ failed' = failed \cup {working[w]}
    /\ working' = [working EXCEPT ![w] = NoTask]
    /\ finished' = finished + 1
    /\ Reap(w, stop = "clear" /\ finished' < N)
    /\ UNCHANGED <<error, stop>>

\* exited(worker) after its drain: the process died outside a task.
ExitedOutsideTask(w) ==
    /\ handle = <<w, "exit">> /\ pipe[w] = <<>>
    /\ pc[w] = "died" /\ working[w] = NoTask
    /\ error' = IF error = "none" THEN "died" ELSE error
    /\ CallSet
    /\ Reap(w, FALSE)
    /\ UNCHANGED <<working, finished, failed>>

\* The loop ends with no worker left: raise the error or return `stored`.
Return ==
    /\ InLoop /\ running = {}
    /\ ready = {} /\ handle = NoHandle
    /\ result' = IF error # "none" THEN "raised" ELSE "returned"
    /\ UNCHANGED <<queueVars, workerVars, running, working, reportVars, error, stop, loopVars, requested>>

-----------------------------------------------------------------------------
\* What a live worker does of itself, its death excepted.
WorkerStep(w) ==
    \/ Boot(w) \/ CheckStop(w) \/ LockQueue(w) \/ TakeTask(w) \/ TakeEndMark(w)
    \/ Start(w) \/ Commit(w) \/ SendDone(w) \/ SendFailed(w) \/ AbortSolve(w)
    \/ LoseGpu(w) \/ Leave(w)

ExitedStep(w) ==
    ExitedEnd(w) \/ ExitedForMemory(w) \/ ExitedInTask(w) \/ ExitedOutsideTask(w)

ParentStep ==
    \/ PollStop \/ Wait \/ Handle \/ SetReturns \/ Return
    \/ \E w \in Workers : Receive(w) \/ Drained(w) \/ ExitedStep(w)

Next ==
    \/ \E w \in Workers : WorkerStep(w) \/ WakeWatch(w) \/ Die(w)
    \/ ParentStep
    \/ RequestStop

\* The operating system runs every live process, and the parent's loop waits
\* with a timeout: each of them goes on while it can.  Nobody has to stop the
\* run, and no process has to die.
Fairness ==
    /\ \A w \in Workers : WF_vars(WorkerStep(w)) /\ WF_vars(WakeWatch(w))
    /\ WF_vars(ParentStep)

Spec == Init /\ [][Next]_vars
FairSpec == Spec /\ Fairness

-----------------------------------------------------------------------------
(* Properties.                                                             *)

TypeOK ==
    /\ head \in 1..(N + EndMarks + 1)
    /\ lock \in SUBSET Workers
    /\ pc \in [Workers -> LivePoints \cup ExitPoints \cup {"none"}]
    /\ item \in [Workers -> Tasks \cup {NoTask}]
    /\ pipe \in [Workers -> Seq(Events)]
    /\ committed \in SUBSET Tasks
    /\ asleep \in SUBSET Workers /\ orphaned \in BOOLEAN
    /\ running \in SUBSET Workers
    /\ working \in [Workers -> Tasks \cup {NoTask}]
    /\ finished \in Nat /\ stored \in Nat
    /\ done \in SUBSET Tasks /\ failed \in SUBSET Tasks
    /\ error \in {"none", "gpu", "died"}
    /\ stop \in {"clear", "setting", "set"} /\ requested \in BOOLEAN
    /\ ready \in SUBSET Handles
    /\ handle \in Handles \cup {NoHandle}
    /\ result \in {"running", "returned", "raised"}

\* No task is given to both callbacks or twice to one of them: `finished` and
\* `stored`, which count the calls, are the numbers of tasks reported and stored.
ReportedOnce ==
    /\ done \cap failed = {}
    /\ finished = Cardinality(done \cup failed)
    /\ stored = Cardinality(done)

\* on_done is only called for a task whose results the database holds, however
\* late the event is read and whatever became of the worker in between.
DoneIsCommitted == done \subseteq committed

\* An outcome carries no task: the parent names the task `working` holds for the
\* pipe.  It names the task the worker meant, also when a new process uses the slot.
OutcomeNamesItsTask ==
    \A w \in Workers :
        pipe[w] # <<>> /\ Head(pipe[w]).kind \in {"done", "failed"}
            => working[w] = Head(pipe[w]).task

\* A worker that waits for an item finds one: an end mark is left for every slot
\* that may still read, whoever died, left for memory or was replaced.
QueueNeverStarves ==
    \A w \in Workers : pc[w] \in {"get", "read"} => head <= N + EndMarks

\* A run that ends without a stop has reported every task.
EveryTaskReported == result # "running" /\ stop = "clear" => done \cup failed = Tasks

\* The run keeps the promise of TaskLedger.
Status(t) ==
    CASE t \in done -> "done"
      [] t \in failed -> "failed"
      [] t < head /\ t \notin done \cup failed -> "taken"
      [] OTHER -> "pending"

Ledger == INSTANCE TaskLedger WITH
    status  <- [t \in Tasks |-> Status(t)],
    kept    <- committed,
    halted  <- stop # "clear",
    outcome <- result

KeepsLedger == Ledger!LedgerSpec

\* A run ends: nobody stops it, or stop.set() is through.  No worker waits for ever on the queue, no
\* exit is missed, no end mark is short.  (While stop.set() waits, the parent does nothing.)
RunEnds == []<>(result # "running" \/ stop = "setting")

\* "stops them all on a stop request or a lost GPU": the docstring of the module.
StopRequestEndsTheRun == requested ~> (result # "running")
=============================================================================
