---------------------------- MODULE SolveWorker ----------------------------
(***************************************************************************)
(* A request of the HTTP service, from the in-flight table to the answer   *)
(* of a worker process: solve() and _SolveWorker of robeatsmeta_service.py *)
(* and main() of service_worker.py.                                        *)
(*                                                                         *)
(* Handler threads solve jobs.  A retry of a job in flight joins it.  The  *)
(* official charts share one warm worker, whose handle lets one request in *)
(* at a time; an uploaded chart has a worker of its own.  A worker process *)
(* answers one line per request; a reader thread moves its lines to the    *)
(* queue its handle got when it started the process, and adds an answer of *)
(* its own at the end of the output.  A request that times out, meets a    *)
(* lost GPU or the end of the output stops the process; the next request   *)
(* starts another one.                                                     *)
(*                                                                         *)
(* The slots of the service (ServiceUpdate models them) only refuse here:  *)
(* the service has more of them than the instances have threads.           *)
(***************************************************************************)
EXTENDS Integers, Sequences, FiniteSets

CONSTANTS
    Clients,      \* handler threads
    Official,     \* jobs on official charts: keys of the in-flight table
    Uploaded,     \* jobs on uploaded charts
    WarmWorker,   \* the handle of the official jobs
    CanCrash,     \* whether a worker process may die by itself
    MaxSolves     \* bound: solves begun

ASSUME JobsAssumption == Official \cap Uploaded = {} /\ WarmWorker \notin Uploaded
ASSUME BoundsAssumption == CanCrash \in BOOLEAN /\ MaxSolves \in Nat

Jobs == Official \cup Uploaded
Handles == {WarmWorker} \cup Uploaded
HandleOf(j) == IF j \in Uploaded THEN j ELSE WarmWorker

Solves == 1..MaxSolves   \* the _InFlightSolve objects, in the order of their creation
Procs == Solves          \* the worker processes, in the order of their start: one a solve at most
None == 0

\* What a request can end with: an answer of the worker (its loadouts or the error
\* of the solve, with restart or without), the reader's word that the output ended,
\* or what request() or the slot raised.
Answer(kind, solve) == [kind |-> kind, of |-> solve]
Pending == Answer("pending", None)
Kinds == {"solved", "restart", "exited", "disconnected", "timeout", "unstarted", "refused"}
Answers == {Answer(k, s) : k \in {"solved", "restart"}, s \in Solves} \cup {Answer("exited", None)}

VARIABLES
    client,     \* thread -> where it is and the solve it owns or joined
    solves,     \* the solves so far: job, outcome (result or error) and the event `done`
    inFlight,   \* _in_flight: job -> its solve, or None
    lock,       \* handle -> the thread in its lock: {c}, or {}
    current,    \* handle -> _proc, or None
    responses,  \* handle -> the process whose start made _responses, or None
    at,         \* process -> "none", "idle", "solving", "exiting", "gone" or "read" (gone and read to its end)
    queue,      \* process -> the queue its reader thread feeds
    stdin,      \* process -> requests written and not read
    stdout,     \* process -> answers written and not moved
    answers     \* queue -> answers moved and not taken

tableVars  == <<solves, inFlight>>
handleVars == <<lock, current, responses>>
procVars   == <<at, queue, stdin, stdout, answers>>
vars == <<client, tableVars, handleVars, procVars>>

Idle == [at |-> "idle", solve |-> None]
Places == {"joined", "slot", "lock", "poll", "write", "get", "stop", "finish", "delete"}

Init ==
    /\ client = [c \in Clients |-> Idle]
    /\ solves = <<>>
    /\ inFlight = [j \in Jobs |-> None]
    /\ lock = [h \in Handles |-> {}]
    /\ current = [h \in Handles |-> None]
    /\ responses = [h \in Handles |-> None]
    /\ at = [p \in Procs |-> "none"]
    /\ queue = [p \in Procs |-> p]
    /\ stdin = [p \in Procs |-> <<>>]
    /\ stdout = [p \in Procs |-> <<>>]
    /\ answers = [q \in Procs |-> <<>>]

-----------------------------------------------------------------------------
(* solve(): the in-flight table.                                           *)

JobOf(c) == solves[client[c].solve].job
Handle(c) == HandleOf(JobOf(c))
GoTo(c, place) == client' = [client EXCEPT ![c].at = place]
SetOutcome(c, outcome) == solves' = [solves EXCEPT ![client[c].solve].outcome = outcome]

\* Mutant: the new solve is not entered in the table.
OwnUnlisted(c, j) ==
    /\ client[c] = Idle
    /\ inFlight[j] = None
    /\ Len(solves) < MaxSolves
    /\ solves' = Append(solves, [job |-> j, outcome |-> Pending, done |-> FALSE])
    /\ client' = [client EXCEPT ![c] = [at |-> "slot", solve |-> Len(solves) + 1]]
    /\ UNCHANGED <<inFlight, handleVars, procVars>>

\* A request whose job is not in flight owns a new solve.
Own(c, j) ==
    /\ client[c] = Idle
    /\ inFlight[j] = None
    /\ Len(solves) < MaxSolves
    /\ solves' = Append(solves, [job |-> j, outcome |-> Pending, done |-> FALSE])
    /\ inFlight' = [inFlight EXCEPT ![j] = Len(solves) + 1]
    /\ client' = [client EXCEPT ![c] = [at |-> "slot", solve |-> Len(solves) + 1]]
    /\ UNCHANGED <<handleVars, procVars>>

\* A retry joins the solve in flight.
Join(c, j) ==
    /\ client[c] = Idle
    /\ inFlight[j] # None
    /\ client' = [client EXCEPT ![c] = [at |-> "joined", solve |-> inFlight[j]]]
    /\ UNCHANGED <<tableVars, handleVars, procVars>>

\* state.done.wait() is through: the retry has the outcome of the owner.
JoinEnds(c) ==
    /\ client[c].at = "joined"
    /\ solves[client[c].solve].done
    /\ client' = [client EXCEPT ![c] = Idle]
    /\ UNCHANGED <<tableVars, handleVars, procVars>>

\* _solve_slot admits the solve or the service is draining.
Slot(c) ==
    /\ client[c].at = "slot"
    /\ \/ GoTo(c, "lock") /\ UNCHANGED solves
       \/ GoTo(c, "finish") /\ SetOutcome(c, Answer("refused", None))
    /\ UNCHANGED <<inFlight, handleVars, procVars>>

\* Mutant: only a solve that succeeded wakes its retries.
FinishOnSuccess(c) ==
    /\ client[c].at = "finish"
    /\ solves' = [solves EXCEPT ![client[c].solve].done = (solves[client[c].solve].outcome.kind = "solved")]
    /\ GoTo(c, "delete")
    /\ UNCHANGED <<inFlight, handleVars, procVars>>

\* state.done.set()
Finish(c) ==
    /\ client[c].at = "finish"
    /\ solves' = [solves EXCEPT ![client[c].solve].done = TRUE]
    /\ GoTo(c, "delete")
    /\ UNCHANGED <<inFlight, handleVars, procVars>>

\* del _in_flight[key], and the owner returns or raises.
Delete(c) ==
    /\ client[c].at = "delete"
    /\ inFlight' = [inFlight EXCEPT ![JobOf(c)] = None]
    /\ client' = [client EXCEPT ![c] = Idle]
    /\ UNCHANGED <<solves, handleVars, procVars>>

-----------------------------------------------------------------------------
(* _SolveWorker: a request holds its handle's lock until it has an outcome. *)

Alive(p) == p # None /\ at[p] \in {"idle", "solving", "exiting"}

\* with self._lock
LockHandle(c) ==
    /\ client[c].at = "lock"
    /\ lock[Handle(c)] = {}
    /\ lock' = [lock EXCEPT ![Handle(c)] = {c}]
    /\ GoTo(c, "poll")
    /\ UNCHANGED <<tableVars, current, responses, procVars>>

\* _stop(): the process, if there is one, is killed and forgotten.
Stop(h) ==
    /\ at' = IF Alive(current[h]) THEN [at EXCEPT ![current[h]] = "gone"] ELSE at
    /\ current' = [current EXCEPT ![h] = None]

Started == Cardinality({p \in Procs : at[p] # "none"})

\* Mutant: a new process feeds the queue of the one before it.
StartSameQueue(h) ==
    LET p == Started + 1 IN
    /\ p \in Procs
    /\ at' = [at EXCEPT ![p] = "idle"]
    /\ queue' = [queue EXCEPT ![p] = IF responses[h] = None THEN p ELSE responses[h]]
    /\ current' = [current EXCEPT ![h] = p]
    /\ responses' = [responses EXCEPT ![h] = IF @ = None THEN p ELSE @]

\* _start(): a new process with a new queue.
Start(h) ==
    LET p == Started + 1 IN
    /\ p \in Procs
    /\ at' = [at EXCEPT ![p] = "idle"]
    /\ queue' = [queue EXCEPT ![p] = p]
    /\ current' = [current EXCEPT ![h] = p]
    /\ responses' = [responses EXCEPT ![h] = p]

\* proc is None or proc.poll() is not None: the process has exited, so stopping it
\* kills nothing, and a new one starts.
Poll(c) ==
    /\ client[c].at = "poll"
    /\ GoTo(c, "write")
    /\ IF Alive(current[Handle(c)])
       THEN UNCHANGED <<current, responses, at, queue>>
       ELSE Start(Handle(c))
    /\ UNCHANGED <<tableVars, lock, stdin, stdout, answers>>

\* The request ends with an outcome and leaves the handle's lock; an uploaded
\* chart's worker is still to be stopped.
EndRequest(c, outcome) ==
    /\ SetOutcome(c, outcome)
    /\ lock' = [lock EXCEPT ![Handle(c)] = {}]
    /\ GoTo(c, IF JobOf(c) \in Uploaded THEN "stop" ELSE "finish")

\* _start() raises (the workspace, Popen): the handle is left without a process.
StartFails(c) ==
    /\ client[c].at = "poll"
    /\ ~Alive(current[Handle(c)])
    /\ current' = [current EXCEPT ![Handle(c)] = None]
    /\ EndRequest(c, Answer("unstarted", None))
    /\ UNCHANGED <<inFlight, responses, procVars>>

\* proc.stdin.write(...) and flush()
Write(c) ==
    /\ client[c].at = "write"
    /\ Alive(current[Handle(c)])
    /\ stdin' = [stdin EXCEPT ![current[Handle(c)]] = Append(@, client[c].solve)]
    /\ GoTo(c, "get")
    /\ UNCHANGED <<tableVars, handleVars, at, queue, stdout, answers>>

\* The process is gone: OSError.
WriteFails(c) ==
    /\ client[c].at = "write"
    /\ ~Alive(current[Handle(c)])
    /\ Stop(Handle(c))
    /\ EndRequest(c, Answer("disconnected", None))
    /\ UNCHANGED <<inFlight, responses, queue, stdin, stdout, answers>>

\* _responses.get(): an answer that asks for a restart stops the process.
Get(c) ==
    LET h == Handle(c)
        q == responses[h]
        restart == Head(answers[q]).kind \in {"restart", "exited"}
    IN  /\ client[c].at = "get"
        /\ answers[q] # <<>>
        /\ answers' = [answers EXCEPT ![q] = Tail(@)]
        /\ IF restart THEN Stop(h) ELSE UNCHANGED <<at, current>>
        /\ EndRequest(c, Head(answers[q]))
        /\ UNCHANGED <<inFlight, responses, queue, stdin, stdout>>

\* Mutant: the process is left to finish what it does.
TimeOutNoStop(c) ==
    /\ client[c].at = "get"
    /\ answers[responses[Handle(c)]] = <<>>
    /\ EndRequest(c, Answer("timeout", None))
    /\ UNCHANGED <<inFlight, current, responses, procVars>>

\* _responses.get() gives up after _SOLVE_TIMEOUT_S.
TimeOut(c) ==
    /\ client[c].at = "get"
    /\ answers[responses[Handle(c)]] = <<>>
    /\ Stop(Handle(c))
    /\ EndRequest(c, Answer("timeout", None))
    /\ UNCHANGED <<inFlight, responses, queue, stdin, stdout, answers>>

\* Mutant: the worker of an uploaded chart stays.
StopOwnNot(c) ==
    /\ client[c].at = "stop"
    /\ GoTo(c, "finish")
    /\ UNCHANGED <<tableVars, handleVars, procVars>>

\* _solve_uploaded: worker.stop() at the end of the solve.
StopOwn(c) ==
    /\ client[c].at = "stop"
    /\ Stop(Handle(c))
    /\ GoTo(c, "finish")
    /\ UNCHANGED <<tableVars, lock, responses, queue, stdin, stdout, answers>>

-----------------------------------------------------------------------------
(* service_worker.main() in a process, and the reader of its output.       *)

\* for line in sys.stdin
ReadRequest(p) ==
    /\ at[p] = "idle" /\ stdin[p] # <<>>
    /\ at' = [at EXCEPT ![p] = "solving"]
    /\ UNCHANGED <<client, tableVars, handleVars, queue, stdin, stdout, answers>>

\* The answer is written; a lost GPU or the memory guard ends the loop.
WriteAnswer(p) ==
    /\ at[p] = "solving"
    /\ \E kind \in {"solved", "restart"} :
        /\ stdout' = [stdout EXCEPT ![p] = Append(@, Answer(kind, Head(stdin[p])))]
        /\ \E leaves \in BOOLEAN :
            /\ kind = "restart" => leaves
            /\ at' = [at EXCEPT ![p] = IF leaves THEN "exiting" ELSE "idle"]
    /\ stdin' = [stdin EXCEPT ![p] = Tail(@)]
    /\ UNCHANGED <<client, tableVars, handleVars, queue, answers>>

\* The loop is left: the process exits.
Exit(p) ==
    /\ at[p] = "exiting"
    /\ at' = [at EXCEPT ![p] = "gone"]
    /\ UNCHANGED <<client, tableVars, handleVars, queue, stdin, stdout, answers>>

\* A native crash, or the SIGTERM of the GPU watchdog.
Crash(p) ==
    /\ CanCrash
    /\ at[p] \in {"idle", "solving"}
    /\ at' = [at EXCEPT ![p] = "gone"]
    /\ UNCHANGED <<client, tableVars, handleVars, queue, stdin, stdout, answers>>

\* read_answers(): a line goes to the queue of the process's start.
MoveAnswer(p) ==
    /\ stdout[p] # <<>>
    /\ stdout' = [stdout EXCEPT ![p] = Tail(@)]
    /\ answers' = [answers EXCEPT ![queue[p]] = Append(@, Head(stdout[p]))]
    /\ UNCHANGED <<client, tableVars, handleVars, at, queue, stdin>>

\* read_answers(): the output has ended, or _stop() closed it with lines unread.
EndOfOutput(p) ==
    /\ at[p] = "gone"
    /\ stdout[p] = <<>> \/ \A h \in Handles : current[h] # p
    /\ stdout' = [stdout EXCEPT ![p] = <<>>]
    /\ at' = [at EXCEPT ![p] = "read"]
    /\ answers' = [answers EXCEPT ![queue[p]] = Append(@, Answer("exited", None))]
    /\ UNCHANGED <<client, tableVars, handleVars, queue, stdin>>
-----------------------------------------------------------------------------
\* What a handler thread does of itself once it has a request.
ClientStep(c) ==
    \/ JoinEnds(c) \/ Slot(c) \/ LockHandle(c) \/ Poll(c) \/ StartFails(c) \/ Write(c) \/ WriteFails(c)
    \/ Get(c) \/ TimeOut(c) \/ StopOwn(c) \/ Finish(c) \/ Delete(c)

ProcStep(p) ==
    ReadRequest(p) \/ WriteAnswer(p) \/ Exit(p) \/ Crash(p) \/ MoveAnswer(p) \/ EndOfOutput(p)

Next ==
    \/ \E c \in Clients : ClientStep(c) \/ \E j \in Jobs : Own(c, j) \/ Join(c, j)
    \/ \E p \in Procs : ProcStep(p)

\* The threads of the service go on, and the time-out of a request comes.  Nothing
\* is assumed of the worker processes: a GPU call may hang for ever.
Fairness == \A c \in Clients : WF_vars(ClientStep(c))

Spec == Init /\ [][Next]_vars
FairSpec == Spec /\ Fairness

-----------------------------------------------------------------------------
(* Properties.                                                             *)

\* An answer carries no name: the request that takes one from the queue is the one
\* the worker answered, whatever timed out, crashed or was restarted before.
AnswersAreTheirs ==
    \A s \in DOMAIN solves : solves[s].outcome.kind \in {"solved", "restart"} => solves[s].outcome.of = s

\* A worker solves for a request that waits for it: a request that was given up
\* leaves no process solving on, with the GPU and the memory of its slot.
NoOrphanSolve ==
    \A p \in Procs : at[p] = "solving" =>
        \E c \in Clients :
            /\ client[c].at = "get" /\ client[c].solve = Head(stdin[p])
            /\ current[Handle(c)] = p

\* A job is solved by one thread at a time: its retries join it, also when they
\* come while the solve ends.
OneSolvePerJob ==
    \A c, d \in Clients :
        c # d /\ client[c].at \notin {"idle", "joined"} /\ client[d].at \notin {"idle", "joined"}
            => JobOf(c) # JobOf(d)

\* Every live worker process is the one its handle would use next, and the worker
\* of an uploaded chart does not outlive its solve.
NoWorkerLeaks ==
    \A p \in Procs : Alive(p) =>
        \E h \in Handles : current[h] = p /\ (h \in Uploaded => inFlight[h] # None)

\* Every request returns, and every retry that joined one, though its worker may
\* hang, crash or leave at any moment.
RequestsReturn == \A c \in Clients : client[c] # Idle ~> client[c] = Idle

\* "Past the memory guard's limit the worker exits after answering; the service
\* starts a fresh one": when none crashes, no request meets the end of a worker.
MemoryExitIsSmooth ==
    \A s \in DOMAIN solves : solves[s].outcome.kind \notin {"exited", "disconnected"}
=============================================================================
