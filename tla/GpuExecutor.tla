---------------------------- MODULE GpuExecutor ----------------------------
(***************************************************************************)
(* A process that solves songs on its GPU (gpu/executor.py and its         *)
(* callers): the main thread of a run's worker process or of the service's *)
(* persistent worker, the executor's owner thread, the worker's StopWatch  *)
(* thread and the parent that sets the stop event.                         *)
(*                                                                         *)
(* The owner thread initializes Taichi by the GA of a synthetic song, then *)
(* runs the calls put to its queue, one at a time, until the stop mark.    *)
(***************************************************************************)
EXTENDS GpuDevice, Sequences

CONSTANTS
    MaxCalls,    \* solves the process is asked for
    MayHang      \* whether a GPU step may never return

VARIABLES
    service,     \* settings.service_mode(): the service's worker, not a run's
    client,      \* the main thread: where it is
    task,        \* the task of its call
    future,      \* the outcome of its call
    calls,       \* the executor's queue
    owner,       \* the owner thread: where it is
    readyEvent,  \* _ready: the init ended
    initError,   \* _init_error
    abort,       \* _abort
    stopEvent,   \* the run's stop event
    asked,       \* solves so far (bounded by MaxCalls)
    hung,        \* a GPU step that does not return
    late         \* generations and passes evaluated since the abort was requested

clientVars == <<service, client, task, asked>>
ownerVars == <<owner, readyEvent, initError, hung>>
vars == <<gaVars, clientVars, future, calls, ownerVars, abort, stopEvent, late>>

Stop == "stop"
Outcomes == {"aborted", "error", "fatal"}
Ok(rows) == [kind |-> "ok", rows |-> rows]
Failed(kind) == [kind |-> kind, rows |-> <<>>]
NoFuture == Failed("none")
Pending == Failed("pending")
Alive == client # "exited"

Init ==
    /\ DeviceInit
    /\ service \in BOOLEAN
    /\ client = "boot" /\ task = Nothing /\ future = NoFuture /\ asked = 0
    /\ calls = <<>> /\ owner = "off" /\ readyEvent = FALSE /\ initError = FALSE /\ hung = FALSE
    /\ abort = FALSE /\ stopEvent = FALSE /\ late = 0

-----------------------------------------------------------------------------
\* The main thread.

\* start(): a run's worker starts it before its first task, the service's worker on its first request.
Start ==
    /\ client = "boot" /\ client' = "idle"
    /\ owner' = "init"
    /\ calls' = <<>> /\ readyEvent' = FALSE /\ initError' = FALSE /\ abort' = FALSE
    /\ EnterGa(Warm, 0)
    /\ UNCHANGED <<deviceVars, faults, service, task, asked, future, hung, stopEvent, late>>

\* The next task of the queue, the next request: solve_song reaches executor.call.
Call(t) ==
    /\ client = "idle" /\ asked < MaxCalls
    /\ ~service => ~stopEvent
    /\ client' = "waitReady" /\ task' = t /\ asked' = asked + 1
    /\ UNCHANGED <<gaVars, service, future, calls, ownerVars, abort, stopEvent, late>>

\* call(): the init is done, the call is queued.
Submit ==
    /\ client = "waitReady" /\ readyEvent /\ ~initError
    /\ client' = "waitCall" /\ future' = Pending
    /\ calls' = Append(calls, task)
    /\ UNCHANGED <<gaVars, service, task, asked, ownerVars, abort, stopEvent, late>>

\* stop(): the call in progress is aborted and the stop mark queued, then the owner is joined.
StopExecutor ==
    /\ abort' = TRUE
    /\ calls' = Append(calls, Stop)

\* call(): the init failed, or has not ended in _INIT_TIMEOUT_S.
InitFailed ==
    /\ client = "waitReady" /\ (initError \/ ~readyEvent)
    /\ client' = "joining"
    /\ StopExecutor
    /\ UNCHANGED <<gaVars, service, task, asked, future, ownerVars, stopEvent, late>>

\* The worker loop is left (no task left, or the stop event): finally executor.stop().
LeaveLoop ==
    /\ client = "idle" /\ ~service
    /\ client' = "joining"
    /\ StopExecutor
    /\ UNCHANGED <<gaVars, service, task, asked, future, ownerVars, stopEvent, late>>

\* The service's worker reads the end of its input and exits; its daemon owner thread dies with it.
EndOfInput ==
    /\ client \in {"boot", "idle"} /\ service
    /\ client' = "exited"
    /\ UNCHANGED <<gaVars, service, task, asked, future, calls, ownerVars, abort, stopEvent, late>>

\* The join ends with the owner thread, or after ten seconds without it; the process exits (after a
\* GpuFatalError too: the run's worker returns, the service's worker answers "restart").
Joined ==
    /\ client = "joining"
    /\ client' = "exited"
    /\ UNCHANGED <<gaVars, service, task, asked, future, calls, ownerVars, abort, stopEvent, late>>

\* future.result(): a table is finished and stored; an abort while the run stops leaves the worker
\* loop, a lost device the service's loop; any other failure is the task's own.
TakeAnswer ==
    /\ client = "waitCall" /\ future.kind \in Outcomes \cup {"ok"}
    /\ IF service /\ future.kind = "fatal"
       THEN client' = "exited" /\ UNCHANGED <<abort, calls>>
       ELSE IF ~service /\ future.kind = "aborted" /\ stopEvent
       THEN client' = "joining" /\ StopExecutor
       ELSE client' = "idle" /\ UNCHANGED <<abort, calls>>
    /\ future' = NoFuture
    /\ UNCHANGED <<gaVars, service, task, asked, ownerVars, stopEvent, late>>

\* Mutant: the service waits like a standalone run.
WaitsForever == FALSE /\ UNCHANGED vars

\* Under the service a call that does not end in _CALL_TIMEOUT_S is a stuck GPU: the process stops
\* itself, by its "restart" answer or the SIGTERM of _stop_this_process.
CallTimesOut ==
    /\ client = "waitCall" /\ service /\ future = Pending
    /\ client' = "exited"
    /\ UNCHANGED <<gaVars, service, task, asked, future, calls, ownerVars, abort, stopEvent, late>>

\* The parent's stop event, and the StopWatch thread that waits for it.
StopRequested ==
    /\ Alive /\ ~service /\ ~stopEvent
    /\ stopEvent' = TRUE
    /\ UNCHANGED <<gaVars, clientVars, future, calls, ownerVars, abort, late>>

StopWatch ==
    /\ Alive /\ client # "boot" /\ stopEvent /\ ~abort
    /\ abort' = TRUE
    /\ UNCHANGED <<gaVars, clientVars, future, calls, ownerVars, stopEvent, late>>

-----------------------------------------------------------------------------
\* The owner thread.

Running == Alive /\ owner \in {"init", "call"} /\ ~hung

\* A step of the GA it runs.
RunGa ==
    /\ Running /\ GaStep(abort)
    /\ late' = IF abort /\ owner = "call" /\ step \in {"evaluate", "polish"} /\ step' # "ready"
               THEN late + 1 ELSE late
    /\ UNCHANGED <<clientVars, future, calls, ownerVars, abort, stopEvent>>

\* The warmup's GA ends: the init is done.
InitDone ==
    /\ Running /\ owner = "init" /\ At("done")
    /\ owner' = "get" /\ readyEvent' = TRUE
    /\ LeaveGa
    /\ UNCHANGED <<faults, clientVars, future, calls, initError, hung, abort, stopEvent, late>>

\* The init raises: the error is there before the event, and the thread ends.
InitFails ==
    /\ Running /\ owner = "init" /\ FailsForGood
    /\ owner' = "dead" /\ readyEvent' = TRUE /\ initError' = TRUE
    /\ UNCHANGED <<clientVars, future, calls, hung, abort, stopEvent, late>>

\* The next queued call; while an abort is requested it is refused.
Take ==
    /\ Alive /\ owner = "get" /\ calls # <<>> /\ Head(calls) # Stop
    /\ calls' = Tail(calls)
    /\ IF abort
       THEN future' = Failed("aborted") /\ UNCHANGED <<owner, step, job>>
       ELSE owner' = "call" /\ EnterGa(Head(calls), 0) /\ UNCHANGED future
    /\ late' = 0
    /\ UNCHANGED <<deviceVars, faults, clientVars, readyEvent, initError, hung, abort, stopEvent>>

\* The call's outcome is set on its future.
EndCall(outcome) ==
    /\ future' = outcome
    /\ owner' = "get"
    /\ UNCHANGED <<clientVars, calls, readyEvent, initError, hung, abort, stopEvent, late>>

CallDone ==
    /\ Running /\ owner = "call" /\ At("done")
    /\ EndCall(Ok(table))
    /\ LeaveGa /\ UNCHANGED faults

CallAborted ==
    /\ Running /\ owner = "call" /\ abort /\ step \in {"check", "polishCheck"}
    /\ EndCall(Failed("aborted"))
    /\ LeaveGa /\ UNCHANGED faults

CallFails ==
    /\ Running /\ owner = "call" /\ FailsForGood
    /\ \E kind \in {"error", "fatal"} : EndCall(Failed(kind))

\* A GPU step does not return.
Hangs ==
    /\ Running /\ MayHang /\ step \in DriverSteps
    /\ hung' = TRUE
    /\ UNCHANGED <<gaVars, clientVars, future, calls, owner, readyEvent, initError, abort, stopEvent, late>>

\* The stop mark: Taichi is reset on the owner thread, and the thread ends.
Finalize ==
    /\ Alive /\ owner = "get" /\ calls # <<>> /\ Head(calls) = Stop
    /\ calls' = Tail(calls)
    /\ owner' = "dead"
    /\ HardReset
    /\ UNCHANGED <<step, job, faults, clientVars, future, readyEvent, initError, hung, abort, stopEvent, late>>

\* The process is gone, or waits for a GPU step that does not return.
Rest == (~Alive \/ hung) /\ UNCHANGED vars

OwnerStep == RunGa \/ InitDone \/ InitFails \/ Take \/ CallDone \/ CallAborted \/ CallFails \/ Finalize
ClientStep == Start \/ Submit \/ InitFailed \/ LeaveLoop \/ EndOfInput \/ Joined \/ TakeAnswer \/ CallTimesOut

Next ==
    \/ ClientStep \/ (\E t \in Tasks : Call(t))
    \/ StopRequested \/ StopWatch
    \/ OwnerStep \/ Hangs
    \/ Rest

Spec == Init /\ [][Next]_vars

\* A thread that can run does; a timeout that has run out is taken (each wait of the main thread has
\* one, except the wait for a call of a standalone run), and so is the abort of the StopWatch.  The
\* timeouts may win against the owner at any time, so weak fairness of the waits says only that they
\* end.
FairSpec == Spec /\ WF_vars(OwnerStep) /\ WF_vars(ClientStep) /\ WF_vars(StopWatch)

-----------------------------------------------------------------------------
\* The table a call returns holds only what its own song and items gave: no row of the song before,
\* of the warmup, or of a memo that outlived its song, across resets, retries and failed calls.
\* (The exception is a timeline upload that failed half way: see the README.)
AnswersAreTheirs ==
    future.kind = "ok" => \A r \in 1..Runs : RowIsOf(future.rows[r], task)

\* An abort is honoured at the next check: no more than the generation or the pass already past its
\* check is evaluated for the call in progress.
AbortIsHonoured == late <= 1

\* A call ends: with its answer, its failure, or the end of the process.  Standalone runs wait for a
\* GPU step that does not return.
CallsEnd == client \in {"waitReady", "waitCall"} /\ (service \/ ~hung)
                ~> (client \notin {"waitReady", "waitCall"} \/ (hung /\ ~service))
=============================================================================
