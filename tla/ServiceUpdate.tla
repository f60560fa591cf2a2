--------------------------- MODULE ServiceUpdate ---------------------------
(***************************************************************************)
(* The HTTP service while it follows its git remote: the solve slots and   *)
(* main() of robeatsmeta_service.py, and service_update.py.                *)
(*                                                                         *)
(* Solves hold a slot, admitted by the memory gate.  The updater's thread  *)
(* polls the remote: it drains the slots, fast-forwards the checkout, and  *)
(* either restarts the process (new code: main() leaves its loop and       *)
(* executes the new image on the same listening socket) or lets solves in  *)
(* again and refreshes the caches (new Data), which solves charts itself.  *)
(* A song publisher commits Data in the same checkout and asks for a       *)
(* check; others may pull.  SIGTERM and SIGINT end main()'s loop too.      *)
(*                                                                         *)
(* Revisions are a line 0..MaxRev: a history that diverges is a merge that *)
(* fails.  SolveWorker models what a solve does in its slot.               *)
(***************************************************************************)
EXTENDS Integers, FiniteSets

CONSTANTS
    Requests,     \* the solve requests of a behaviour, one thread each
    Updater,      \* the updater's thread, which solves charts of the catalog
    Pool,         \* service_settings().solve_pool
    NewCode,      \* the revisions that change more than Data and config.ini
    MaxRev,       \* bound: the last revision of the remote
    MaxFailures,  \* bound: failed fetches, merges and refreshes
    MaySignal     \* whether a SIGTERM or SIGINT may come

ASSUME ThreadsAssumption == Updater \notin Requests /\ IsFiniteSet(Requests)
ASSUME PoolAssumption == Pool \in Nat \ {0}
ASSUME RevsAssumption == MaxRev \in Nat /\ NewCode \subseteq 1..MaxRev
ASSUME BoundsAssumption == MaxFailures \in Nat /\ MaySignal \in BOOLEAN

Threads == Requests \cup {Updater}
Revs == 0..MaxRev
None == -1
MaxOf(r, s) == IF r >= s THEN r ELSE s

\* git diff outside Data and config.ini: two revisions run the same code when no
\* revision between them changes it.
SameCode(r, s) == \A n \in NewCode : n <= r <=> n <= s

VARIABLES
    \* The slots.
    slot,       \* thread -> "out", "gate" (it holds a permit), "in" or "over" (a request that ended)
    active,     \* _active_solves
    draining,   \* _draining
    \* Git.
    origin,     \* the remote's main
    fetched,    \* the remote ref in the checkout
    head,       \* the checkout's HEAD
    \* The updater.
    upd,        \* where its thread is
    seenHead,   \* `head` of run_once
    commit,     \* `commit` of run_once
    running,    \* _running, or None
    refreshed,  \* _refreshed, or None
    stopped,    \* _stop
    wake,       \* _wake
    unseen,     \* history: a check was asked for and no run_once has begun since
    failures,   \* failures so far
    \* main().
    main,       \* "serving", "stop worker", "stop updater", "close", "leave" or "exited"
    restart,    \* restart_revision, or None
    listening,  \* the listening socket is open
    asked,      \* a signal asked this image to shut down
    signalled,  \* history: a signal came, to this image or to an earlier one
    code,       \* history: the revision whose code this image runs
    current     \* history: the revision whose Data it is current with, or None

slotVars == <<slot, active, draining>>
gitVars  == <<origin, fetched, head>>
runVars  == <<seenHead, commit, running, refreshed>>
updVars  == <<upd, runVars, stopped, wake, unseen, failures>>
imageVars == <<code, current>>
mainVars == <<main, restart, listening, asked, signalled, imageVars>>
vars == <<slotVars, gitVars, updVars, mainVars>>

Init ==
    /\ slot = [t \in Threads |-> "out"]
    /\ active = 0 /\ draining = FALSE
    /\ origin = 0 /\ fetched = 0 /\ head = 0
    /\ upd = "loop" /\ seenHead = None /\ commit = None
    /\ running = None /\ refreshed = None
    /\ stopped = FALSE /\ wake = FALSE /\ unseen = FALSE
    /\ failures = 0
    /\ main = "serving" /\ restart = None /\ listening = TRUE
    /\ asked = FALSE /\ signalled = FALSE
    /\ code = 0 /\ current = None

Up == main # "exited"   \* the process is there
MayFail == failures < MaxFailures /\ failures' = failures + 1

-----------------------------------------------------------------------------
(* _solve_slot, _drain_solves and _resume_solves.                          *)

Holders == {t \in Threads : slot[t] \in {"gate", "in"}}
Solving == {t \in Threads : slot[t] = "in"}

\* with _solve_semaphore: of a request that has come, or of a catalog build.
Acquire(t) ==
    /\ Up /\ slot[t] = "out"
    /\ t = Updater => upd = "catalog"
    /\ Cardinality(Holders) < Pool
    /\ slot' = [slot EXCEPT ![t] = "gate"]
    /\ UNCHANGED <<active, draining, gitVars, updVars, mainVars>>

Ended(t) == IF t = Updater THEN "out" ELSE "over"

LetIn(t) ==
    /\ slot' = [slot EXCEPT ![t] = "in"]
    /\ active' = active + 1
    /\ UNCHANGED <<draining, gitVars, updVars, mainVars>>

\* Mutant: the gate does not look at the draining flag again.
AdmitDraining(t) == Up /\ slot[t] = "gate" /\ active = 0 /\ LetIn(t)

\* The gate lets the first solve in whatever the free memory is.
Admit(t) == Up /\ slot[t] = "gate" /\ ~draining /\ active = 0 /\ LetIn(t)

\* Another one goes in beside it when the free memory happens to allow it.
AdmitBeside(t) == Up /\ slot[t] = "gate" /\ ~draining /\ active > 0 /\ LetIn(t)

\* The end of a catalog build: build_missing_catalog_songs returns.
BuildOver(t) == upd' = (IF t = Updater THEN "refreshed" ELSE upd) /\ UNCHANGED failures

\* The solve was the warm-up, and it raises: the refresh fails.
WarmUpFails(t) == t = Updater /\ upd' = "wait" /\ MayFail

\* ServiceNotReady: a catalog build that is refused ends the builds.
Refuse(t) ==
    /\ Up /\ slot[t] = "gate"
    /\ draining
    /\ slot' = [slot EXCEPT ![t] = Ended(t)]
    /\ BuildOver(t)
    /\ UNCHANGED <<active, draining, gitVars, runVars, stopped, wake, unseen, mainVars>>

\* The solve ends, well or not, and gives its slot back.
Release(t) ==
    /\ Up /\ slot[t] = "in"
    /\ slot' = [slot EXCEPT ![t] = Ended(t)]
    /\ active' = active - 1
    /\ BuildOver(t) \/ WarmUpFails(t)
    /\ UNCHANGED <<draining, gitVars, runVars, stopped, wake, unseen, mainVars>>

-----------------------------------------------------------------------------
(* The remote, the publisher and other users of the checkout.              *)

Push ==
    /\ origin < MaxRev /\ head <= origin
    /\ origin' = origin + 1
    /\ UNCHANGED <<slotVars, fetched, head, updVars, mainVars>>

\* A song publish: a commit of Data in this checkout,
Publish ==
    /\ head = origin
    /\ head + 1 \in Revs \ NewCode
    /\ head' = head + 1
    /\ UNCHANGED <<slotVars, origin, fetched, updVars, mainVars>>

\* ... and its push.
PublishPush ==
    /\ head > origin
    /\ origin' = head /\ fetched' = head
    /\ UNCHANGED <<slotVars, head, updVars, mainVars>>

\* Somebody pulls.  Assumed: not before this image has looked at HEAD.
Pull ==
    /\ running # None
    /\ head < origin
    /\ head' = origin /\ fetched' = origin
    /\ UNCHANGED <<slotVars, origin, updVars, mainVars>>

\* POST /frontiers/refresh: request_check().
RequestCheck ==
    /\ Up
    /\ wake' = TRUE /\ unseen' = TRUE
    /\ UNCHANGED <<slotVars, gitVars, upd, runVars, stopped, failures, mainVars>>

-----------------------------------------------------------------------------
(* ServiceUpdater.                                                         *)

UpdGoes(from, to) == Up /\ upd = from /\ upd' = to

\* while not self._stop.is_set(), and the fetch of run_once.
Fetch ==
    /\ UpdGoes("loop", IF stopped THEN "ended" ELSE "head")
    /\ unseen' = (unseen /\ stopped)
    /\ \/ ~stopped /\ fetched' = MaxOf(fetched, origin) /\ UNCHANGED failures
       \/ ~stopped /\ MayFail /\ UNCHANGED fetched
       \/ stopped /\ UNCHANGED <<fetched, failures>>
    /\ UNCHANGED <<slotVars, origin, head, runVars, stopped, wake, mainVars>>

\* head = rev-parse HEAD
ReadHead ==
    /\ UpdGoes("head", "commit")
    /\ seenHead' = head
    /\ UNCHANGED <<slotVars, gitVars, commit, running, refreshed, stopped, wake, unseen, failures, mainVars>>

\* commit = rev-parse of the remote ref; what the revision calls for.
NeedsRestart == ~SameCode(running, commit)
ReadCommit ==
    /\ commit' = fetched
    /\ running' = IF running = None THEN seenHead ELSE running
    /\ UpdGoes("commit", IF fetched = refreshed THEN "wait"
                         ELSE IF fetched # seenHead \/ ~SameCode(running', fetched) THEN "drain"
                         ELSE "refresh")
    /\ UNCHANGED <<slotVars, gitVars, seenHead, refreshed, stopped, wake, unseen, failures, mainVars>>

\* rev-parse or diff fails: the run is over, the loop goes on.
ReadFails ==
    /\ \E place \in {"head", "commit"} : UpdGoes(place, "wait")
    /\ MayFail
    /\ \/ UNCHANGED running
       \/ upd = "commit" /\ running = None /\ running' = seenHead
    /\ UNCHANGED <<slotVars, gitVars, seenHead, commit, refreshed, stopped, wake, unseen, mainVars>>

\* drain(): no solve is admitted any more,
Drain ==
    /\ UpdGoes("drain", "draining")
    /\ draining' = TRUE
    /\ UNCHANGED <<slot, active, gitVars, runVars, stopped, wake, unseen, failures, mainVars>>

\* ... and the running ones are over.
Drained ==
    /\ active = 0
    /\ UpdGoes("draining", IF commit # seenHead THEN "merge" ELSE "restart")
    /\ UNCHANGED <<slotVars, gitVars, runVars, stopped, wake, unseen, failures, mainVars>>

\* git merge --ff-only, with nothing to do when HEAD is ahead already.
Merge ==
    /\ UpdGoes("merge", IF NeedsRestart THEN "restart" ELSE "resume")
    /\ head' = MaxOf(head, commit)
    /\ UNCHANGED <<slotVars, origin, fetched, runVars, stopped, wake, unseen, failures, mainVars>>

\* Mutant: the exception leaves the service drained.
MergeFailsDrained ==
    /\ UpdGoes("merge", "wait")
    /\ MayFail
    /\ UNCHANGED <<slotVars, gitVars, runVars, stopped, wake, unseen, mainVars>>

\* The checkout has local changes, or the merge fails: resume() and raise.
MergeFails ==
    /\ UpdGoes("merge", "wait")
    /\ MayFail
    /\ draining' = FALSE
    /\ UNCHANGED <<slot, active, gitVars, runVars, stopped, wake, unseen, mainVars>>

\* self.stop(), self.restart(commit)
Restart ==
    /\ UpdGoes("restart", "restarting")
    /\ stopped' = TRUE /\ wake' = TRUE
    /\ restart' = commit
    /\ UNCHANGED <<slotVars, gitVars, runVars, unseen, failures, main, listening, asked, signalled, imageVars>>

\* resume()
Resume ==
    /\ UpdGoes("resume", "refresh")
    /\ draining' = FALSE
    /\ UNCHANGED <<slot, active, gitVars, runVars, stopped, wake, unseen, failures, mainVars>>

\* refresh_data(): the frontier caches, then the catalog builds (or the warm-up),
\* here one solve for all of them.
BuildCaches ==
    /\ UpdGoes("refresh", "catalog")
    /\ current' = head
    /\ UNCHANGED <<slotVars, gitVars, runVars, stopped, wake, unseen, failures>>
    /\ UNCHANGED <<main, restart, listening, asked, signalled, code>>

\* Mutant: a refresh that failed is not tried again.
RefreshFailsForGood ==
    /\ \E place \in {"refresh", "catalog"} : UpdGoes(place, "wait")
    /\ slot[Updater] = "out"
    /\ MayFail
    /\ refreshed' = commit
    /\ UNCHANGED <<slotVars, gitVars, seenHead, commit, running, stopped, wake, unseen, mainVars>>

\* The cache build raises, or the look for the missing charts.
RefreshFails ==
    /\ \E place \in {"refresh", "catalog"} : UpdGoes(place, "wait")
    /\ slot[Updater] = "out"
    /\ MayFail
    /\ UNCHANGED <<slotVars, gitVars, runVars, stopped, wake, unseen, mainVars>>

\* Mutant: the wake-up is cleared after the run, before the wait.
RefreshedClears ==
    /\ UpdGoes("refreshed", "wait")
    /\ refreshed' = commit
    /\ wake' = FALSE
    /\ UNCHANGED <<slotVars, gitVars, seenHead, commit, running, stopped, unseen, failures, mainVars>>

\* self._refreshed = commit
Refreshed ==
    /\ UpdGoes("refreshed", "wait")
    /\ refreshed' = commit
    /\ UNCHANGED <<slotVars, gitVars, seenHead, commit, running, stopped, wake, unseen, failures, mainVars>>

\* run_once returns at once when it has asked for a restart.
Restarting ==
    /\ UpdGoes("restarting", "wait")
    /\ UNCHANGED <<slotVars, gitVars, runVars, stopped, wake, unseen, failures, mainVars>>

\* self._wake.wait(_POLL_SECONDS): woken, or the time has passed.
Wait ==
    /\ UpdGoes("wait", "woken")
    /\ UNCHANGED <<slotVars, gitVars, runVars, stopped, wake, unseen, failures, mainVars>>

\* self._wake.clear()
Clear ==
    /\ UpdGoes("woken", "loop")
    /\ wake' = FALSE
    /\ UNCHANGED <<slotVars, gitVars, runVars, stopped, unseen, failures, mainVars>>
-----------------------------------------------------------------------------
(* main().                                                                 *)

MainGoes(from, to) == main = from /\ main' = to
NoneOfTheRest == UNCHANGED <<slotVars, gitVars, upd, runVars, unseen, failures>>

\* handle_shutdown_signal: a thread of this image calls server.shutdown().
Signal ==
    /\ MaySignal /\ Up
    /\ asked' = TRUE /\ signalled' = TRUE
    /\ UNCHANGED <<stopped, wake, main, restart, listening, imageVars>> /\ NoneOfTheRest

\* server.serve_forever() returns: a signal, or shutdown_when_serving of restart().
LeaveServing ==
    /\ asked \/ restart # None
    /\ MainGoes("serving", "stop worker")
    /\ UNCHANGED <<stopped, wake, restart, listening, asked, signalled, imageVars>> /\ NoneOfTheRest

\* _warm_worker.stop(), which waits for the request that holds the worker.
StopWorker ==
    /\ MainGoes("stop worker", "stop updater")
    /\ UNCHANGED <<stopped, wake, restart, listening, asked, signalled, imageVars>> /\ NoneOfTheRest

\* updater.stop()
StopUpdater ==
    /\ MainGoes("stop updater", "close")
    /\ stopped' = TRUE /\ wake' = TRUE
    /\ UNCHANGED <<restart, listening, asked, signalled, imageVars>> /\ NoneOfTheRest

\* if not restart_revision: server.server_close()
Close ==
    /\ MainGoes("close", "leave")
    /\ listening' = (listening /\ restart # None)
    /\ UNCHANGED <<stopped, wake, restart, asked, signalled, imageVars>> /\ NoneOfTheRest

\* No restart: return 0.  A restart that came after the socket was closed raises.
Exit ==
    /\ restart = None \/ ~listening
    /\ MainGoes("leave", "exited")
    /\ UNCHANGED <<stopped, wake, restart, listening, asked, signalled, imageVars>> /\ NoneOfTheRest

\* os.execv: a new image of the checkout's code; the threads of this one are gone.
Exec ==
    /\ restart # None /\ listening
    /\ MainGoes("leave", "serving")
    /\ slot' = [t \in Threads |-> IF t = Updater THEN "out" ELSE IF t \in Holders THEN "over" ELSE slot[t]]
    /\ active' = 0 /\ draining' = FALSE
    /\ upd' = "loop" /\ seenHead' = None /\ commit' = None
    /\ running' = None /\ refreshed' = None
    /\ stopped' = FALSE /\ wake' = FALSE
    /\ restart' = None /\ asked' = FALSE
    /\ code' = head /\ current' = None
    /\ UNCHANGED <<gitVars, unseen, failures, listening, signalled>>

-----------------------------------------------------------------------------
UpdaterStep ==
    \/ Fetch \/ ReadHead \/ ReadCommit \/ ReadFails \/ Drain \/ Drained \/ Merge \/ MergeFails \/ Restart
    \/ Resume \/ BuildCaches \/ RefreshFails \/ Refreshed \/ Restarting \/ Wait \/ Clear
MainStep == LeaveServing \/ StopWorker \/ StopUpdater \/ Close \/ Exit \/ Exec
Environment == Push \/ Publish \/ PublishPush \/ Pull \/ RequestCheck \/ Signal

Next ==
    \/ \E t \in Threads : Acquire(t) \/ Admit(t) \/ AdmitBeside(t) \/ Refuse(t) \/ Release(t)
    \/ UpdaterStep \/ MainStep
    \/ Environment

\* The threads go on, every solve ends (SolveWorker: by an answer or by its
\* time-out) and the poll's time passes.  A request need not come: the updater's
\* own are the ones that must get their slot.
Fairness ==
    /\ \A t \in Threads : WF_vars(Admit(t)) /\ WF_vars(Refuse(t)) /\ WF_vars(Release(t))
    /\ WF_vars(Acquire(Updater))
    /\ WF_vars(UpdaterStep)
    /\ WF_vars(MainStep)

Spec == Init /\ [][Next]_vars
FairSpec == Spec /\ Fairness

-----------------------------------------------------------------------------
(* Properties.                                                             *)

TypeOK ==
    /\ slot \in [Threads -> {"out", "gate", "in", "over"}]
    /\ Cardinality(Holders) <= Pool
    /\ active = Cardinality(Solving)
    /\ draining \in BOOLEAN
    /\ origin \in Revs /\ fetched \in 0..origin /\ head \in Revs
    /\ upd \in {"loop", "head", "commit", "drain", "draining", "merge", "restart", "restarting", "resume",
                "refresh", "catalog", "refreshed", "wait", "woken", "ended"}
    /\ {seenHead, commit, running, refreshed} \subseteq Revs \cup {None}
    /\ {stopped, wake, unseen, listening, asked, signalled} \subseteq BOOLEAN
    /\ failures \in 0..MaxFailures
    /\ main \in {"serving", "stop worker", "stop updater", "close", "leave", "exited"}
    /\ {restart, current} \subseteq Revs \cup {None} /\ code \in Revs

\* "a new commit is fast-forwarded into the checkout while no solve runs", and no
\* solve is cut off by a restart: from the end of the drain until solves are let in
\* again, or the new image has started, nobody is in a slot.
NoSolveDuringUpdate ==
    Up /\ (upd \in {"merge", "restart", "restarting", "resume"} \/ restart # None) => Solving = {}

\* A check that was asked for during a run is not forgotten: the updater does not
\* sleep over it.
ChecksAreSeen == Up /\ upd = "wait" /\ ~wake => ~unseen

\* Draining ends: the service serves again, updated or not, or is replaced, or
\* leaves; no drain waits for a solve of the updater itself.
DrainEnds == draining ~> ~draining \/ ~Up

\* When nothing is pushed any more and failures end, the service comes to run the
\* code of the last revision with its Data, whoever moved the checkout and
\* whichever step had failed.
CatchesUp == <>[](~Up \/ (current >= origin /\ SameCode(code, origin)))

\* "SIGINT/SIGTERM shut it down": the comment at serve_forever() in main().
SignalsShutDown == signalled ~> ~Up
=============================================================================
