------------------------- MODULE ServiceUpdateProofs -------------------------
(***************************************************************************)
(* Proofs about ServiceUpdate, for any number of requests, any pool, any   *)
(* line of revisions and any number of failures: the slots are counted,    *)
(* nobody solves while the checkout or the image changes, and the updater  *)
(* never sleeps over a check.                                              *)
(***************************************************************************)
EXTENDS ServiceUpdate, FiniteSetTheorems, TLAPS

UpdPlaces == {"loop", "head", "commit", "drain", "draining", "merge", "restart", "restarting", "resume",
              "refresh", "catalog", "refreshed", "wait", "woken", "ended"}
MainPlaces == {"serving", "stop worker", "stop updater", "close", "leave", "exited"}

\* The two halves of TypeOK: the slots, and the rest.
SlotsOK ==
    /\ slot \in [Threads -> {"out", "gate", "in", "over"}]
    /\ Cardinality(Holders) <= Pool
    /\ active = Cardinality(Solving)

BoolsOK ==
    /\ draining \in BOOLEAN
    /\ stopped \in BOOLEAN /\ wake \in BOOLEAN /\ unseen \in BOOLEAN
    /\ listening \in BOOLEAN /\ asked \in BOOLEAN /\ signalled \in BOOLEAN

RestOK ==
    /\ BoolsOK
    /\ origin \in Revs /\ fetched \in 0..origin /\ head \in Revs
    /\ upd \in UpdPlaces
    /\ seenHead \in Revs \cup {None} /\ commit \in Revs \cup {None}
    /\ running \in Revs \cup {None} /\ refreshed \in Revs \cup {None}
    /\ failures \in 0..MaxFailures
    /\ main \in MainPlaces
    /\ restart \in Revs \cup {None} /\ current \in Revs \cup {None} /\ code \in Revs

\* run_once has read what it works with: HEAD, then the commit.
ReadInv ==
    /\ upd \notin {"loop", "head", "wait", "woken", "ended"} => seenHead # None
    /\ upd \in {"drain", "draining", "merge", "restart", "resume", "refresh", "catalog", "refreshed"} => commit # None

\* The updater's own slot is for its catalog builds.
CatalogInv == slot[Updater] \in {"gate", "in"} => upd = "catalog"

\* A restart is only asked for by an updater that has stopped, with the slots drained.
RestartInv ==
    /\ restart # None => draining /\ stopped /\ upd \in {"restarting", "wait", "woken", "loop", "ended"}
    /\ upd = "restarting" => restart # None
    /\ upd \in {"draining", "merge", "restart", "resume"} => draining

\* Nobody is in a slot from the end of the drain on.
DrainedInv == upd \in {"merge", "restart", "resume"} \/ restart # None => active = 0

\* A check that no run has seen yet has woken the updater up, or the loop has left.
WakeInv == unseen => wake \/ upd \in {"loop", "ended"}

IInv == SlotsOK /\ RestOK /\ ReadInv /\ CatalogInv /\ RestartInv /\ DrainedInv /\ WakeInv

-----------------------------------------------------------------------------
LEMMA TypeSplit == TypeOK <=> SlotsOK /\ RestOK
  BY DEF TypeOK, SlotsOK, RestOK, BoolsOK, UpdPlaces, MainPlaces

LEMMA ThreadsFinite ==
  /\ IsFiniteSet(Threads)
  /\ IsFiniteSet(Holders) /\ Cardinality(Holders) \in Nat
  /\ IsFiniteSet(Solving) /\ Cardinality(Solving) \in Nat
<1>1. IsFiniteSet(Threads)
  BY ThreadsAssumption, FS_AddElement DEF Threads
<1>2. Holders \subseteq Threads /\ Solving \subseteq Threads
  BY DEF Holders, Solving
<1> QED
  BY <1>1, <1>2, FS_Subset, FS_CardinalityType

\* The initial states.
LEMMA InitInv == Init => IInv
<1> SUFFICES ASSUME Init PROVE IInv
  OBVIOUS
<1>1. Holders = {} /\ Solving = {}
  BY DEF Init, Holders, Solving
<1>2. SlotsOK
  BY <1>1, FS_EmptySet, PoolAssumption DEF Init, SlotsOK
<1>3. 0 \in Revs /\ 0 \in 0..0 /\ 0 \in 0..MaxFailures
  BY RevsAssumption, BoundsAssumption DEF Revs
<1>4. RestOK
  BY <1>3 DEF Init, RestOK, BoolsOK, UpdPlaces, MainPlaces
<1>5. Updater \in Threads /\ slot[Updater] = "out"
  BY DEF Init, Threads
<1>6. ReadInv /\ CatalogInv /\ RestartInv /\ DrainedInv /\ WakeInv
  BY <1>5 DEF Init, ReadInv, CatalogInv, RestartInv, DrainedInv, WakeInv
<1> QED
  BY <1>2, <1>4, <1>6 DEF IInv

-----------------------------------------------------------------------------
\* A step that leaves the slots alone.
LEMMA SlotsKept == ASSUME SlotsOK, UNCHANGED <<slot, active>> PROVE SlotsOK'
  BY DEF SlotsOK, Holders, Solving

\* The slots are counted: a slot taken and given back changes the counts by one.
LEMMA SlotsStep == ASSUME SlotsOK, [Next]_vars PROVE SlotsOK'
<1>1. ASSUME NEW t \in Threads, Acquire(t) PROVE SlotsOK'
  <2>1. Holders' = Holders \cup {t} /\ Solving' = Solving /\ t \notin Holders
    BY <1>1 DEF SlotsOK, Acquire, Holders, Solving
  <2>2. Cardinality(Holders') = Cardinality(Holders) + 1
    BY <2>1, ThreadsFinite, FS_AddElement
  <2>3. Cardinality(Holders) < Pool
    BY <1>1 DEF Acquire
  <2>4. Cardinality(Holders') <= Pool
    BY <2>2, <2>3, ThreadsFinite, PoolAssumption
  <2> QED
    BY <1>1, <2>1, <2>4 DEF SlotsOK, Acquire
<1>2. ASSUME NEW t \in Threads, slot[t] = "gate", LetIn(t) PROVE SlotsOK'
  <2>1. Holders' = Holders /\ Solving' = Solving \cup {t} /\ t \notin Solving
    BY <1>2 DEF SlotsOK, LetIn, Holders, Solving
  <2>2. Cardinality(Solving') = Cardinality(Solving) + 1
    BY <2>1, ThreadsFinite, FS_AddElement
  <2> QED
    BY <1>2, <2>1, <2>2 DEF SlotsOK, LetIn
<1>3. ASSUME NEW t \in Threads, Refuse(t) PROVE SlotsOK'
  <2>1. Holders' = Holders \ {t} /\ Solving' = Solving /\ t \in Holders
    BY <1>3 DEF SlotsOK, Refuse, Ended, Holders, Solving
  <2>2. Cardinality(Holders') = Cardinality(Holders) - 1
    BY <2>1, ThreadsFinite, FS_RemoveElement
  <2> QED
    BY <1>3, <2>1, <2>2, ThreadsFinite, PoolAssumption DEF SlotsOK, Refuse, Ended
<1>4. ASSUME NEW t \in Threads, Release(t) PROVE SlotsOK'
  <2>1. Holders' = Holders \ {t} /\ Solving' = Solving \ {t} /\ t \in Holders /\ t \in Solving
    BY <1>4 DEF SlotsOK, Release, Ended, Holders, Solving
  <2>2. Cardinality(Holders') = Cardinality(Holders) - 1 /\ Cardinality(Solving') = Cardinality(Solving) - 1
    BY <2>1, ThreadsFinite, FS_RemoveElement
  <2> QED
    BY <1>4, <2>1, <2>2, ThreadsFinite, PoolAssumption DEF SlotsOK, Release, Ended
<1>5. CASE Exec
  <2>1. Holders' = {} /\ Solving' = {}
    BY <1>5 DEF SlotsOK, Exec, Holders, Solving
  <2> QED
    BY <1>5, <2>1, FS_EmptySet, PoolAssumption DEF SlotsOK, Exec
<1>6. CASE UpdaterStep
  <2>1. UNCHANGED <<slot, active>>
    BY <1>6 DEF UpdaterStep, Fetch, ReadHead, ReadCommit, ReadFails, Drain, Drained, Merge, MergeFails, Restart,
       Resume, BuildCaches, RefreshFails, Refreshed, Restarting, Wait, Clear, slotVars
  <2> QED
    BY <2>1, SlotsKept
<1>7. CASE LeaveServing \/ StopWorker \/ StopUpdater \/ Close \/ Exit \/ Environment \/ UNCHANGED vars
  <2>1. UNCHANGED <<slot, active>>
    BY <1>7 DEF LeaveServing, StopWorker, StopUpdater, Close, Exit, Environment, Push, Publish, PublishPush, Pull,
       RequestCheck, Signal, NoneOfTheRest, slotVars, vars
  <2> QED
    BY <2>1, SlotsKept
<1> QED
  BY <1>1, <1>2, <1>3, <1>4, <1>5, <1>6, <1>7 DEF Next, MainStep, Admit, AdmitBeside

-----------------------------------------------------------------------------
\* The steps of a thread at its slot, for everything but the slots.
LEMMA ThreadStep ==
  ASSUME IInv, NEW t \in Threads, Acquire(t) \/ Admit(t) \/ AdmitBeside(t) \/ Refuse(t) \/ Release(t)
  PROVE  RestOK' /\ ReadInv' /\ CatalogInv' /\ RestartInv' /\ DrainedInv' /\ WakeInv'
<1> USE DEF IInv
<1>0. slot \in [Threads -> {"out", "gate", "in", "over"}] /\ Updater \in Threads
  BY DEF SlotsOK, Threads
<1>1. CASE Acquire(t)
  <2>1. UNCHANGED <<active, draining, gitVars, updVars, mainVars>>
    BY <1>1 DEF Acquire
  <2>2. RestOK' /\ ReadInv' /\ RestartInv' /\ DrainedInv' /\ WakeInv'
    BY <2>1 DEF RestOK, BoolsOK, ReadInv, RestartInv, DrainedInv, WakeInv, gitVars, updVars, runVars, mainVars, imageVars
  <2>3. CatalogInv'
    BY <1>0, <1>1 DEF Acquire, CatalogInv, updVars
  <2> QED
    BY <2>2, <2>3
<1>2. CASE Admit(t) \/ AdmitBeside(t)
  <2>1. ~draining /\ slot[t] = "gate" /\ UNCHANGED <<draining, gitVars, updVars, mainVars>>
    BY <1>2 DEF Admit, AdmitBeside, LetIn
  <2>2. RestOK' /\ ReadInv' /\ RestartInv' /\ WakeInv'
    BY <2>1 DEF RestOK, BoolsOK, ReadInv, RestartInv, WakeInv, gitVars, updVars, runVars, mainVars, imageVars
  <2>3. DrainedInv'
    BY <2>1 DEF RestartInv, DrainedInv, updVars, mainVars
  <2>4. CatalogInv'
    BY <1>0, <1>2, <2>1 DEF Admit, AdmitBeside, LetIn, CatalogInv, updVars
  <2> QED
    BY <2>2, <2>3, <2>4
<1>3. CASE Refuse(t) \/ Release(t)
  <2>1. /\ slot[t] \in {"gate", "in"}
        /\ slot' = [slot EXCEPT ![t] = Ended(t)]
        /\ BuildOver(t) \/ WarmUpFails(t)
        /\ UNCHANGED <<draining, gitVars, runVars, stopped, wake, unseen, mainVars>>
    BY <1>3 DEF Refuse, Release
  <2>2. t = Updater => upd = "catalog" /\ upd' \in {"refreshed", "wait"}
    BY <2>1 DEF CatalogInv, BuildOver, WarmUpFails
  <2>3. (t # Updater => upd' = upd) /\ failures' \in 0..MaxFailures
    BY <2>1, BoundsAssumption DEF RestOK, BoolsOK, BuildOver, WarmUpFails, MayFail
  <2>4. RestOK' /\ ReadInv' /\ RestartInv' /\ WakeInv'
    BY <2>1, <2>2, <2>3 DEF RestOK, BoolsOK, UpdPlaces, ReadInv, RestartInv, WakeInv, gitVars, runVars, mainVars, imageVars
  <2>5. CatalogInv'
    BY <1>0, <2>1, <2>2, <2>3 DEF CatalogInv, Ended
  <2>6. CASE Refuse(t)
    BY <2>1, <2>2, <2>3, <2>4, <2>5, <2>6 DEF Refuse, DrainedInv, mainVars
  <2>7. CASE Release(t)
    <3>1. active # 0
      <4>1. t \in Solving
        BY <2>7 DEF Release, Solving
      <4> QED
        BY <4>1, ThreadsFinite, FS_EmptySet DEF SlotsOK
    <3>2. ~(upd' \in {"merge", "restart", "resume"} \/ restart' # None)
      BY <2>1, <2>2, <2>3, <3>1 DEF DrainedInv, mainVars
    <3> QED
      BY <2>4, <2>5, <3>2 DEF DrainedInv
  <2> QED
    BY <1>3, <2>6, <2>7
<1> QED
  BY <1>1, <1>2, <1>3

\* The steps of the remote, the publisher, others and signals.
LEMMA EnvironmentStep ==
  ASSUME IInv, Environment
  PROVE  RestOK' /\ ReadInv' /\ CatalogInv' /\ RestartInv' /\ DrainedInv' /\ WakeInv'
<1> USE DEF IInv
<1>1. UNCHANGED <<slotVars, upd, runVars, stopped, failures, main, restart, listening, imageVars>>
  BY DEF Environment, Push, Publish, PublishPush, Pull, RequestCheck, Signal, NoneOfTheRest, updVars, mainVars
<1>2. ReadInv' /\ CatalogInv' /\ RestartInv' /\ DrainedInv'
  BY <1>1 DEF ReadInv, CatalogInv, RestartInv, DrainedInv, slotVars, runVars
<1>3. (wake' = wake /\ unseen' = unseen) \/ (wake' = TRUE /\ unseen' = TRUE)
  <2>1. CASE Push \/ Publish \/ PublishPush \/ Pull
    BY <2>1, Zenon DEF Push, Publish, PublishPush, Pull, updVars
  <2>2. CASE RequestCheck
    BY <2>2, Zenon DEF RequestCheck
  <2>3. CASE Signal
    BY <2>3, Zenon DEF Signal, NoneOfTheRest
  <2> QED
    BY <2>1, <2>2, <2>3 DEF Environment
<1>4. WakeInv'
  BY <1>1, <1>3 DEF WakeInv
<1>5. origin' \in Revs /\ fetched' \in 0..origin' /\ head' \in Revs
  <2>1. CASE Push
    BY <2>1, RevsAssumption DEF Push, RestOK, BoolsOK, Revs
  <2>2. CASE Publish
    BY <2>2, RevsAssumption DEF Publish, RestOK, BoolsOK, Revs
  <2>3. CASE PublishPush
    BY <2>3, RevsAssumption DEF PublishPush, RestOK, BoolsOK, Revs
  <2>4. CASE Pull
    BY <2>4, RevsAssumption DEF Pull, RestOK, BoolsOK, Revs
  <2>5. CASE RequestCheck \/ Signal
    BY <2>5 DEF RequestCheck, Signal, NoneOfTheRest, RestOK, BoolsOK, gitVars
  <2> QED
    BY <2>1, <2>2, <2>3, <2>4, <2>5 DEF Environment
<1>6. asked' \in BOOLEAN /\ signalled' \in BOOLEAN
  BY DEF Environment, Push, Publish, PublishPush, Pull, RequestCheck, Signal, RestOK, BoolsOK, mainVars
<1>7. BoolsOK'
  <2>1. UNCHANGED <<draining, stopped, listening>>
    BY <1>1 DEF slotVars
  <2>2. BoolsOK
    BY DEF RestOK
  <2> QED
    BY <1>3, <1>6, <2>1, <2>2, Zenon DEF BoolsOK
<1>8. RestOK'
  BY <1>1, <1>5, <1>7 DEF RestOK, runVars, imageVars, Revs
<1> QED
  BY <1>2, <1>4, <1>8

\* The steps of main().
LEMMA MainStepInv ==
  ASSUME IInv, MainStep
  PROVE  RestOK' /\ ReadInv' /\ CatalogInv' /\ RestartInv' /\ DrainedInv' /\ WakeInv'
<1> USE DEF IInv
<1>1. CASE Exec
  <2>1. RestOK'
    BY <1>1 DEF Exec, MainGoes, RestOK, BoolsOK, gitVars, Revs, None, UpdPlaces, MainPlaces
  <2>2. slot'[Updater] = "out"
    BY <1>1 DEF Exec, Threads
  <2> QED
    BY <1>1, <2>1, <2>2 DEF Exec, ReadInv, CatalogInv, RestartInv, DrainedInv, WakeInv
<1>2. CASE LeaveServing \/ StopWorker \/ StopUpdater \/ Close \/ Exit
  <2>1. UNCHANGED <<slotVars, gitVars, upd, runVars, unseen, failures, restart, asked, signalled, imageVars>>
    BY <1>2 DEF LeaveServing, StopWorker, StopUpdater, Close, Exit, NoneOfTheRest
  <2>2. (wake' = wake /\ stopped' = stopped) \/ (wake' = TRUE /\ stopped' = TRUE)
    BY <1>2, Zenon DEF LeaveServing, StopWorker, StopUpdater, Close, Exit
  <2>3. main' \in MainPlaces /\ listening' \in BOOLEAN
    BY <1>2 DEF LeaveServing, StopWorker, StopUpdater, Close, Exit, MainGoes, MainPlaces, RestOK, BoolsOK
  <2>4. wake' \in BOOLEAN /\ stopped' \in BOOLEAN
    BY <2>2, Zenon DEF RestOK, BoolsOK
  <2>5. RestOK'
    BY <2>1, <2>3, <2>4 DEF RestOK, BoolsOK, slotVars, gitVars, runVars, imageVars, Revs
  <2> QED
    BY <2>1, <2>2, <2>5 DEF ReadInv, CatalogInv, RestartInv, DrainedInv, WakeInv, slotVars, runVars
<1> QED
  BY <1>1, <1>2 DEF MainStep

-----------------------------------------------------------------------------
\* The steps of the updater's thread, which leave the slots, the image and the
\* signals alone.
LEMMA UpdaterStepInv ==
  ASSUME IInv, UpdaterStep
  PROVE  RestOK' /\ ReadInv' /\ CatalogInv' /\ RestartInv' /\ DrainedInv' /\ WakeInv'
<1> USE DEF IInv
<1>0. UNCHANGED <<slot, active>>
  BY DEF UpdaterStep, Fetch, ReadHead, ReadCommit, ReadFails, Drain, Drained, Merge, MergeFails, Restart,
     Resume, BuildCaches, RefreshFails, Refreshed, Restarting, Wait, Clear, slotVars
<1>1. RestOK'
  <2>0. BoolsOK'
    <3>1. (draining' = draining \/ draining' = TRUE \/ draining' = FALSE)
          /\ (wake' = wake \/ wake' = TRUE \/ wake' = FALSE)
          /\ (unseen' = unseen \/ unseen' = TRUE \/ unseen' = FALSE)
          /\ (stopped' = stopped \/ stopped' = TRUE \/ stopped' = FALSE)
      BY DEF UpdaterStep, Fetch, ReadHead, ReadCommit, ReadFails, Drain, Drained, Merge, MergeFails, Restart,
         Resume, BuildCaches, RefreshFails, Refreshed, Restarting, Wait, Clear, slotVars
    <3>2. UNCHANGED <<listening, asked, signalled>>
      BY DEF UpdaterStep, Fetch, ReadHead, ReadCommit, ReadFails, Drain, Drained, Merge, MergeFails, Restart,
         Resume, BuildCaches, RefreshFails, Refreshed, Restarting, Wait, Clear, mainVars
    <3>3. BoolsOK
      BY DEF RestOK
    <3> QED
      BY <3>1, <3>2, <3>3, Zenon DEF BoolsOK
  <2>1. CASE Fetch
    <3>1. fetched' \in 0..origin' /\ failures' \in 0..MaxFailures
      BY <2>1, BoundsAssumption DEF Fetch, MayFail, MaxOf, RestOK, BoolsOK, Revs
    <3>2. unseen' \in BOOLEAN
      BY <2>1 DEF Fetch
    <3> QED
      BY <2>0, <2>1, <3>1, <3>2 DEF Fetch, UpdGoes, RestOK, UpdPlaces, slotVars, runVars, mainVars, imageVars, Revs
  <2>2. CASE ReadHead \/ ReadCommit
    <3>1. {seenHead', commit', running', refreshed'} \subseteq Revs \cup {None}
      <4>1. fetched \in Revs
        BY RevsAssumption DEF RestOK, BoolsOK, Revs
      <4>2. CASE ReadHead
        BY <4>2 DEF ReadHead, RestOK, BoolsOK
      <4>3. CASE ReadCommit
        BY <4>1, <4>3 DEF ReadCommit, RestOK, BoolsOK
      <4> QED
        BY <2>2, <4>2, <4>3
    <3>2. upd' \in UpdPlaces
      BY <2>2 DEF ReadHead, ReadCommit, UpdGoes, UpdPlaces
    <3> QED
      BY <2>0, <2>2, <3>1, <3>2 DEF ReadHead, ReadCommit, RestOK, slotVars, gitVars, mainVars, imageVars, Revs
  <2>3. CASE ReadFails \/ MergeFails \/ RefreshFails
    <3>1. failures' \in 0..MaxFailures
      BY <2>3, BoundsAssumption DEF ReadFails, MergeFails, RefreshFails, MayFail, RestOK, BoolsOK
    <3>2. CASE ReadFails
      BY <2>0, <3>1, <3>2 DEF ReadFails, UpdGoes, RestOK, UpdPlaces, slotVars, gitVars, runVars, mainVars, imageVars, Revs
    <3>3. CASE MergeFails
      BY <2>0, <3>1, <3>3 DEF MergeFails, UpdGoes, RestOK, UpdPlaces, slotVars, gitVars, runVars, mainVars, imageVars, Revs
    <3>4. CASE RefreshFails
      BY <2>0, <3>1, <3>4 DEF RefreshFails, UpdGoes, RestOK, UpdPlaces, slotVars, gitVars, runVars, mainVars, imageVars, Revs
    <3> QED
      BY <2>3, <3>2, <3>3, <3>4
  <2>4. CASE Drain \/ Drained \/ Resume \/ Refreshed \/ Restarting \/ Wait \/ Clear
    <3>1. CASE Drain
      BY <2>0, <3>1 DEF Drain, UpdGoes, RestOK, UpdPlaces, slotVars, gitVars, runVars, mainVars, imageVars, Revs
    <3>2. CASE Drained
      BY <2>0, <3>2 DEF Drained, UpdGoes, RestOK, UpdPlaces, slotVars, gitVars, runVars, mainVars, imageVars, Revs
    <3>3. CASE Resume
      BY <2>0, <3>3 DEF Resume, UpdGoes, RestOK, UpdPlaces, slotVars, gitVars, runVars, mainVars, imageVars, Revs
    <3>4. CASE Refreshed
      BY <2>0, <3>4 DEF Refreshed, UpdGoes, RestOK, UpdPlaces, slotVars, gitVars, runVars, mainVars, imageVars, Revs
    <3>5. CASE Restarting
      BY <2>0, <3>5 DEF Restarting, UpdGoes, RestOK, UpdPlaces, slotVars, gitVars, runVars, mainVars, imageVars, Revs
    <3>6. CASE Wait
      BY <2>0, <3>6 DEF Wait, UpdGoes, RestOK, UpdPlaces, slotVars, gitVars, runVars, mainVars, imageVars, Revs
    <3>7. CASE Clear
      BY <2>0, <3>7 DEF Clear, UpdGoes, RestOK, UpdPlaces, slotVars, gitVars, runVars, mainVars, imageVars, Revs
    <3> QED
      BY <2>4, <3>1, <3>2, <3>3, <3>4, <3>5, <3>6, <3>7
  <2>5. CASE Merge \/ Restart \/ BuildCaches
    <3>1. upd \in {"merge", "restart"} => commit \in Revs
      BY DEF ReadInv, RestOK, BoolsOK
    <3>2. CASE Merge
      BY <2>0, <3>1, <3>2 DEF Merge, MaxOf, UpdGoes, RestOK, UpdPlaces, slotVars, gitVars, runVars, mainVars, imageVars, Revs
    <3>3. CASE Restart
      BY <2>0, <3>1, <3>3 DEF Restart, UpdGoes, RestOK, UpdPlaces, slotVars, gitVars, runVars, mainVars, imageVars, Revs
    <3>4. CASE BuildCaches
      BY <2>0, <3>1, <3>4 DEF BuildCaches, UpdGoes, RestOK, UpdPlaces, slotVars, gitVars, runVars, mainVars, imageVars, Revs
    <3> QED
      BY <2>5, <3>2, <3>3, <3>4
  <2> QED
    BY <2>1, <2>2, <2>3, <2>4, <2>5 DEF UpdaterStep
<1>2. ReadInv'
  <2>1. seenHead' = seenHead \/ seenHead' = head
    BY DEF UpdaterStep, Fetch, ReadHead, ReadCommit, ReadFails, Drain, Drained, Merge, MergeFails, Restart,
       Resume, BuildCaches, RefreshFails, Refreshed, Restarting, Wait, Clear, runVars
  <2>2. head # None /\ fetched # None
    BY DEF RestOK, BoolsOK, Revs, None
  <2>3. CASE Fetch \/ ReadHead \/ ReadCommit \/ ReadFails
    BY <2>2, <2>3 DEF Fetch, ReadHead, ReadCommit, ReadFails, UpdGoes, ReadInv, runVars
  <2>4. CASE Drain \/ Drained \/ Merge \/ MergeFails \/ Restart
    BY <2>4 DEF Drain, Drained, Merge, MergeFails, Restart, UpdGoes, ReadInv, runVars
  <2>5. CASE Resume \/ BuildCaches \/ RefreshFails \/ Refreshed \/ Restarting \/ Wait \/ Clear
    BY <2>5 DEF Resume, BuildCaches, RefreshFails, Refreshed, Restarting, Wait, Clear, UpdGoes, ReadInv, runVars
  <2> QED
    BY <2>3, <2>4, <2>5 DEF UpdaterStep
<1>3. CatalogInv'
  <2>1. upd = "catalog" => slot[Updater] = "out"
    BY DEF UpdaterStep, Fetch, ReadHead, ReadCommit, ReadFails, Drain, Drained, Merge, MergeFails, Restart,
       Resume, BuildCaches, RefreshFails, Refreshed, Restarting, Wait, Clear, UpdGoes
  <2> QED
    BY <1>0, <2>1 DEF CatalogInv
<1>4. RestartInv' /\ DrainedInv'
  <2>1. CASE Fetch \/ ReadHead \/ ReadCommit \/ ReadFails \/ Resume \/ BuildCaches
    BY <1>0, <2>1 DEF Fetch, ReadHead, ReadCommit, ReadFails, Resume, BuildCaches, UpdGoes, RestartInv, DrainedInv,
       slotVars, mainVars
  <2>2. CASE Drain \/ Drained \/ Merge \/ MergeFails
    BY <1>0, <2>2 DEF Drain, Drained, Merge, MergeFails, UpdGoes, RestartInv, DrainedInv, slotVars, mainVars
  <2>3. CASE Restart
    BY <1>0, <2>3 DEF Restart, UpdGoes, ReadInv, RestartInv, DrainedInv, slotVars
  <2>4. CASE RefreshFails \/ Refreshed \/ Restarting \/ Wait \/ Clear
    BY <1>0, <2>4 DEF RefreshFails, Refreshed, Restarting, Wait, Clear, UpdGoes, RestartInv, DrainedInv,
       slotVars, mainVars
  <2> QED
    BY <2>1, <2>2, <2>3, <2>4 DEF UpdaterStep
<1>5. WakeInv'
  <2>1. CASE Fetch
    BY <2>1 DEF Fetch, UpdGoes, WakeInv
  <2>2. CASE Clear
    BY <2>2 DEF Clear, UpdGoes, WakeInv
  <2>3. CASE Restart
    BY <2>3 DEF Restart, UpdGoes, WakeInv
  <2>4. CASE ReadHead \/ ReadCommit \/ ReadFails \/ Drain \/ Drained \/ Merge \/ MergeFails
    BY <2>4 DEF ReadHead, ReadCommit, ReadFails, Drain, Drained, Merge, MergeFails, UpdGoes, WakeInv
  <2>5. CASE Resume \/ BuildCaches \/ RefreshFails \/ Refreshed \/ Restarting \/ Wait
    BY <2>5 DEF Resume, BuildCaches, RefreshFails, Refreshed, Restarting, Wait, UpdGoes, WakeInv
  <2> QED
    BY <2>1, <2>2, <2>3, <2>4, <2>5 DEF UpdaterStep
<1> QED
  BY <1>1, <1>2, <1>3, <1>4, <1>5

\* A stutter.
LEMMA StutterInv ==
  ASSUME IInv, UNCHANGED vars
  PROVE  RestOK' /\ ReadInv' /\ CatalogInv' /\ RestartInv' /\ DrainedInv' /\ WakeInv'
<1> USE DEF vars, slotVars, gitVars, updVars, runVars, mainVars, imageVars
<1>1. RestOK'
  BY DEF IInv, RestOK, BoolsOK, Revs
<1>2. ReadInv' /\ CatalogInv' /\ RestartInv' /\ DrainedInv' /\ WakeInv'
  BY DEF IInv, ReadInv, CatalogInv, RestartInv, DrainedInv, WakeInv
<1> QED
  BY <1>1, <1>2

-----------------------------------------------------------------------------
\* The inductive invariant holds of every behaviour.
THEOREM Invariance == Spec => []IInv
<1>1. IInv /\ [Next]_vars => IInv'
  <2> SUFFICES ASSUME IInv, [Next]_vars PROVE IInv'
    OBVIOUS
  <2>1. SlotsOK'
    BY SlotsStep DEF IInv
  <2>2. RestOK' /\ ReadInv' /\ CatalogInv' /\ RestartInv' /\ DrainedInv' /\ WakeInv'
    BY ThreadStep, EnvironmentStep, MainStepInv, UpdaterStepInv, StutterInv DEF Next
  <2> QED
    BY <2>1, <2>2 DEF IInv
<1> QED
  BY InitInv, <1>1, PTL DEF Spec

\* The slots: never more holders than the pool has, and _active_solves is at every
\* moment the number of solves that are in (_solve_slot), whatever is refused,
\* ends or is cut off by a restart.
THEOREM SlotsCounted == Spec => []TypeOK
<1>1. IInv => TypeOK
  BY TypeSplit DEF IInv
<1> QED
  BY <1>1, Invariance, PTL

\* The checkout is fast-forwarded, and the process replaced, only while no solve
\* is in its slot (run_once of ServiceUpdater, _drain_solves, main()).
THEOREM NobodySolvesDuringUpdate == Spec => []NoSolveDuringUpdate
<1>1. IInv => NoSolveDuringUpdate
  <2> SUFFICES ASSUME IInv,
                      upd \in {"merge", "restart", "restarting", "resume"} \/ restart # None
               PROVE  Solving = {}
    BY DEF NoSolveDuringUpdate
  <2>1. active = 0
    BY DEF IInv, RestartInv, DrainedInv
  <2> QED
    BY <2>1, ThreadsFinite, FS_EmptySet DEF IInv, SlotsOK
<1> QED
  BY <1>1, Invariance, PTL

\* A check that was asked for while a run was under way is never slept over
\* (request_check and the loop of _run in ServiceUpdater).
THEOREM ChecksSeen == Spec => []ChecksAreSeen
<1>1. IInv => ChecksAreSeen
  BY DEF IInv, WakeInv, ChecksAreSeen
<1> QED
  BY <1>1, Invariance, PTL
=============================================================================
