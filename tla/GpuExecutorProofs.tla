------------------------- MODULE GpuExecutorProofs -------------------------
(***************************************************************************)
(* Proofs about GpuExecutor, for any tasks and songs, any number of runs,  *)
(* generations, polish passes, calls and failing GPU steps: the table a    *)
(* call returns is its own, and an abort is met by the next check.         *)
(***************************************************************************)
EXTENDS GpuExecutor, TLAPS

Origins == [songs : SUBSET (Songs \cup {Nothing, Torn}), items : AllTasks \cup {Nothing}]

\* The steps of a GA whose timeline is on the device, and those whose items are too.
WithTimeline == {"items", "batch", "check", "evaluate", "pack", "polishCheck", "polish", "packBests", "done"}
WithItems == WithTimeline \ {"items"}
AllPacked == {"polishCheck", "polish", "packBests", "done"}
GaSteps == WithTimeline \cup {"out", "ready", "timeline", "uploading"}

DeviceOK ==
    /\ devReady \in BOOLEAN /\ step \in GaSteps
    /\ timelineKey \in Songs \cup {Nothing} /\ surfaces \in Songs \cup {Nothing, Torn}
    /\ memo \in SUBSET (Songs \cup {Nothing, Torn}) /\ itemsOf \in AllTasks \cup {Nothing}
    /\ runsBest \in [1..Runs -> Origins] /\ table \in [1..Runs -> Origins]
    /\ job \in [task : AllTasks \cup {Nothing}, attempt : {0, 1}, run : 1..Runs, generation : Nat, improved : Nat]
    /\ step # "out" => job.task \in AllTasks

\* The key names what the surfaces and the memo hold, but for what a failed upload tore.
KeyInv ==
    /\ ~devReady => timelineKey = Nothing /\ step \in {"out", "ready"}
    /\ surfaces \in {timelineKey, Torn} /\ memo \subseteq {timelineKey, Torn}
    /\ step = "uploading" => memo = {}
    /\ step \in WithTimeline => timelineKey = SongOf[job.task]

\* The bests of the runs that were searched, and their rows, are the task's.
Clean(row) == row.songs \subseteq {SongOf[job.task], Torn}
Packed(r) == r < job.run \/ step \in AllPacked
BestsInv ==
    /\ step \in GaSteps \ (WithItems \cup {"out"}) => job.run = 1
    /\ step \in WithItems =>
        /\ itemsOf = job.task
        /\ \A r \in 1..Runs : Clean(runsBest[r])
        /\ \A r \in 1..Runs : Packed(r) => RowIsOf(runsBest[r], job.task) /\ RowIsOf(table[r], job.task)
        /\ step = "pack" => RowIsOf(runsBest[job.run], job.task)

ExecutorOK ==
    /\ client \in {"boot", "idle", "waitReady", "waitCall", "joining", "exited"}
    /\ owner \in {"off", "init", "get", "call", "dead"}
    /\ abort \in BOOLEAN /\ late \in {0, 1}

\* The one call: queued, or run by the owner, or answered.
CallInv ==
    /\ client = "boot" => owner = "off"
    /\ owner \in {"init", "call"} \/ step = "out"
    /\ owner = "call" => job.task \in Tasks
    /\ client \in {"waitReady", "waitCall"} => task \in Tasks
    /\ client \in {"boot", "idle", "waitReady"} => calls = <<>>
    /\ client = "joining" => calls \in {<<>>, <<Stop>>}
    /\ client \in {"boot", "idle", "waitReady", "joining"} => future = NoFuture /\ owner # "call"
    /\ client = "waitCall" =>
        \/ future = Pending /\ calls \in {<<>>, <<task>>} /\ owner # "call"
        \/ future = Pending /\ calls = <<>> /\ owner = "call" /\ job.task = task
        \/ future.kind \in Outcomes \cup {"ok"} /\ calls = <<>> /\ owner # "call"
    /\ client = "exited" => future.kind # "ok"

\* What was evaluated late was past its check; the next check ends the call.
AbortInv == late = 1 /\ owner = "call" => abort /\ step \notin {"evaluate", "polish"}

IInv == DeviceOK /\ KeyInv /\ BestsInv /\ ExecutorOK /\ CallInv /\ AbortInv /\ AnswersAreTheirs

-----------------------------------------------------------------------------
\* A song has a key that is neither nothing nor torn.
LEMMA SongFacts ==
  ASSUME NEW t \in AllTasks PROVE SongOf[t] \in Songs /\ SongOf[t] \notin {Nothing, Torn} /\ t # Nothing
  BY DeviceAssumption DEF AllTasks, Songs

\* A row without a winner.
LEMMA NoOriginType == NoOrigin \in Origins /\ NoOrigin.songs = {}
  BY DEF NoOrigin, Origins

\* What an evaluation keeps of a row's songs.
LEMMA OriginAdded ==
  ASSUME DeviceOK, KeyInv, BestsInv, step \in WithItems, NEW songs \in SUBSET (Songs \cup {Nothing, Torn}),
         songs \subseteq {SongOf[job.task], Torn}, NEW row, row = [songs |-> songs \cup Origin.songs, items |-> Origin.items]
  PROVE  row \in Origins /\ Clean(row) /\ RowIsOf(row, job.task)
<1>1. timelineKey = SongOf[job.task] /\ itemsOf = job.task
  BY DEF KeyInv, BestsInv, WithItems
<1>2. memo \cup {surfaces} \subseteq {SongOf[job.task], Torn} /\ memo \cup {surfaces} \subseteq Songs \cup {Nothing, Torn}
  BY <1>1 DEF KeyInv, DeviceOK
<1>3. row.songs = songs \cup memo \cup {surfaces} /\ row.items = job.task
  BY <1>1 DEF Origin
<1>4. row \in Origins
  BY <1>1, <1>2 DEF Origin, Origins, DeviceOK
<1> QED
  BY <1>2, <1>3, <1>4 DEF Clean, RowIsOf

DeviceInv == DeviceOK /\ KeyInv /\ BestsInv

\* What the device knows is kept by a GA that ends,
LEMMA GaLeft == ASSUME DeviceInv, LeaveGa PROVE DeviceInv'
<1> USE DEF DeviceInv
<1>1. step' = "out" /\ UNCHANGED <<devReady, timelineKey, surfaces, memo, itemsOf, runsBest, table, job>>
  BY DEF LeaveGa, Goto, deviceVars, fieldVars
<1>2. DeviceOK'
  BY <1>1 DEF DeviceOK, GaSteps
<1>3. KeyInv'
  BY <1>1 DEF KeyInv, WithTimeline
<1>4. BestsInv'
  BY <1>1 DEF BestsInv, WithItems, WithTimeline
<1> QED
  BY <1>2, <1>3, <1>4

\* and by one that begins.
LEMMA GaEntered ==
  ASSUME DeviceInv, NEW t \in AllTasks, NEW n \in {0, 1}, EnterGa(t, n), UNCHANGED deviceVars
  PROVE  DeviceInv' /\ job'.task = t /\ step' = "ready"
<1> USE DEF DeviceInv
<1>1. /\ step' = "ready" /\ UNCHANGED <<devReady, timelineKey, surfaces, memo, itemsOf, runsBest, table>>
      /\ job' = [task |-> t, attempt |-> n, run |-> 1, generation |-> 0, improved |-> 0]
  BY DEF EnterGa, deviceVars, fieldVars
<1>2. DeviceOK'
  BY <1>1, DeviceAssumption DEF DeviceOK, GaSteps
<1>3. KeyInv'
  BY <1>1 DEF KeyInv, WithTimeline
<1>4. BestsInv'
  BY <1>1 DEF BestsInv, WithItems, WithTimeline
<1> QED
  BY <1>1, <1>2, <1>3, <1>4

\* A runtime that is reset knows nothing.
LEMMA DeviceReset ==
  ASSUME DeviceInv, HardReset,
         \/ step = "out" /\ UNCHANGED <<step, job>>
         \/ \E t \in AllTasks, n \in {0, 1} : EnterGa(t, n)
  PROVE  DeviceInv'
<1> USE DEF DeviceInv
<1>1. /\ devReady' = FALSE /\ timelineKey' = Nothing /\ surfaces' = Nothing /\ memo' = {} /\ itemsOf' = Nothing
      /\ runsBest' = [r \in 1..Runs |-> NoOrigin] /\ table' = [r \in 1..Runs |-> NoOrigin]
  BY DEF HardReset, FieldsGone
<1>2. /\ step' \in {"out", "ready"} /\ (step' = "out" => job' = job)
      /\ job' \in [task : AllTasks \cup {Nothing}, attempt : {0, 1}, run : 1..Runs, generation : Nat, improved : Nat]
      /\ step' = "ready" => job'.task \in AllTasks /\ job'.run = 1
  BY DeviceAssumption DEF EnterGa, DeviceOK
<1>3. DeviceOK'
  BY <1>1, <1>2, NoOriginType DEF DeviceOK, GaSteps
<1>4. KeyInv'
  BY <1>1, <1>2 DEF KeyInv, WithTimeline
<1>5. BestsInv'
  BY <1>2 DEF BestsInv, WithItems, WithTimeline
<1> QED
  BY <1>3, <1>4, <1>5

\* The steps of a GA: each is for the task of the job.
LEMMA GaStepKeeps ==
  ASSUME DeviceInv, NEW ab, GaStep(ab)
  PROVE  DeviceInv' /\ job'.task = job.task /\ step # "out" /\ step' # "out"
<1> USE DEF DeviceInv
<1> DEFINE t == job.task
<1>0. step # "out" /\ t \in AllTasks
  <2>1. step # "out"
    BY DEF GaStep, EnsureReady, UploadTimeline, TimelineUploaded, UploadItems, StartBatch, CheckPasses, Evaluate,
           PackCandidates, PolishPass, PackRunBests, RetryOnFreshRuntime, DriverFails, DriverSteps, At
  <2> QED
    BY <2>1 DEF DeviceOK
<1>1. CASE EnsureReady
  <2>1. /\ step = "ready" /\ step' = "timeline" /\ job' = job
        /\ \/ devReady /\ UNCHANGED <<devReady, timelineKey, surfaces, memo, itemsOf, runsBest, table>>
           \/ /\ ~devReady /\ devReady' = TRUE /\ timelineKey' = timelineKey
              /\ surfaces' = Nothing /\ memo' = {} /\ itemsOf' = Nothing
              /\ runsBest' = [r \in 1..Runs |-> NoOrigin] /\ table' = [r \in 1..Runs |-> NoOrigin]
    BY <1>1 DEF EnsureReady, At, Goto, deviceVars, fieldVars, FieldsGone, DeviceOK
  <2>2. DeviceOK'
    BY <1>0, <2>1, NoOriginType DEF DeviceOK, GaSteps
  <2>3. KeyInv'
    BY <2>1 DEF KeyInv, WithTimeline
  <2>4. BestsInv'
    BY <2>1 DEF BestsInv, WithItems, WithTimeline, GaSteps
  <2> QED
    BY <1>0, <2>1, <2>2, <2>3, <2>4
<1>2. CASE UploadTimeline
  <2>1. /\ step = "timeline" /\ job' = job /\ UNCHANGED <<devReady, timelineKey, itemsOf, runsBest, table>>
        /\ \/ timelineKey = SongOf[t] /\ step' = "items" /\ UNCHANGED <<surfaces, memo>>
           \/ step' = "uploading" /\ memo' = {} /\ surfaces' = Torn
    BY <1>2 DEF UploadTimeline, At, Goto
  <2>2. DeviceOK'
    BY <1>0, <2>1 DEF DeviceOK, GaSteps, WithTimeline
  <2>3. KeyInv'
    BY <2>1 DEF KeyInv, WithTimeline
  <2>4. BestsInv'
    BY <2>1 DEF BestsInv, WithItems, WithTimeline, GaSteps
  <2> QED
    BY <1>0, <2>1, <2>2, <2>3, <2>4
<1>3. CASE TimelineUploaded
  <2>1. /\ step = "uploading" /\ step' = "items" /\ job' = job /\ UNCHANGED <<devReady, memo, itemsOf, runsBest, table>>
        /\ surfaces' = SongOf[t] /\ timelineKey' = SongOf[t]
    BY <1>3 DEF TimelineUploaded, At, Goto
  <2>2. DeviceOK'
    BY <1>0, <2>1, SongFacts DEF DeviceOK, GaSteps, WithTimeline
  <2>3. devReady
    BY <2>1 DEF KeyInv, DeviceOK
  <2>4. KeyInv'
    BY <2>1, <2>3 DEF KeyInv, WithTimeline
  <2>5. BestsInv'
    BY <2>1 DEF BestsInv, WithItems, WithTimeline, GaSteps
  <2> QED
    BY <1>0, <2>1, <2>2, <2>4, <2>5
<1>4. CASE UploadItems
  <2>1. /\ step = "items" /\ step' = "batch" /\ job' = job /\ UNCHANGED <<devReady, timelineKey, surfaces, memo, table>>
        /\ itemsOf' = t /\ runsBest' = [r \in 1..Runs |-> NoOrigin]
    BY <1>4 DEF UploadItems, At, Goto
  <2>2. DeviceOK'
    BY <1>0, <2>1, NoOriginType DEF DeviceOK, GaSteps, WithTimeline
  <2>3. KeyInv'
    BY <2>1 DEF KeyInv, WithTimeline
  <2>4. job.run = 1
    BY <2>1 DEF BestsInv, WithItems, WithTimeline, GaSteps
  <2>5. \A r \in 1..Runs : runsBest'[r].songs = {} /\ ~Packed(r)'
    BY <2>1, <2>4, NoOriginType DEF Packed, AllPacked
  <2>6. BestsInv'
    BY <2>1, <2>5 DEF BestsInv, WithItems, WithTimeline, Clean
  <2> QED
    BY <1>0, <2>1, <2>2, <2>3, <2>6
<1>5. CASE StartBatch
  <2>1. /\ step = "batch" /\ step' = "check" /\ job' = [job EXCEPT !.generation = 0]
        /\ UNCHANGED <<devReady, timelineKey, surfaces, memo, itemsOf, runsBest, table>>
    BY <1>5 DEF StartBatch, At, Goto, deviceVars, fieldVars
  <2>2. job'.task = t /\ job'.run = job.run /\ DeviceOK'
    BY <1>0, <2>1 DEF DeviceOK, GaSteps, WithTimeline
  <2>3. KeyInv'
    BY <2>1, <2>2 DEF KeyInv, WithTimeline
  <2>4. BestsInv'
    BY <2>1, <2>2 DEF BestsInv, WithItems, WithTimeline, Clean, Packed, AllPacked, RowIsOf
  <2> QED
    BY <1>0, <2>1, <2>2, <2>3, <2>4
<1>6. CASE CheckPasses(ab, "check", "evaluate") \/ CheckPasses(ab, "polishCheck", "polish")
  <2>1. /\ (step = "check" /\ step' = "evaluate") \/ (step = "polishCheck" /\ step' = "polish")
        /\ UNCHANGED <<devReady, timelineKey, surfaces, memo, itemsOf, runsBest, table, job>>
    BY <1>6 DEF CheckPasses, At, Goto, deviceVars, fieldVars
  <2>2. DeviceOK'
    BY <1>0, <2>1 DEF DeviceOK, GaSteps, WithTimeline
  <2>3. KeyInv'
    BY <2>1 DEF KeyInv, WithTimeline
  <2>4. BestsInv'
    BY <2>1 DEF BestsInv, WithItems, WithTimeline, Clean, Packed, AllPacked, RowIsOf
  <2> QED
    BY <1>0, <2>1, <2>2, <2>3, <2>4
<1>7. CASE Evaluate
  <2> DEFINE row == [songs |-> runsBest[job.run].songs \cup Origin.songs, items |-> Origin.items]
  <2>1. /\ step = "evaluate" /\ step' \in {"check", "pack"} /\ job' = [job EXCEPT !.generation = @ + 1]
        /\ memo' = memo \cup {surfaces} /\ runsBest' = [runsBest EXCEPT ![job.run] = row]
        /\ UNCHANGED <<devReady, timelineKey, surfaces, itemsOf, table>>
    BY <1>7 DEF Evaluate, At, Goto
  <2>2. job.run \in 1..Runs /\ runsBest[job.run].songs \in SUBSET (Songs \cup {Nothing, Torn})
    BY DEF DeviceOK, Origins
  <2>3. row \in Origins /\ Clean(row) /\ RowIsOf(row, t)
    BY <2>1, <2>2, OriginAdded DEF BestsInv, WithItems, WithTimeline, Clean
  <2> HIDE DEF row
  <2>4. job'.task = t /\ job'.run = job.run /\ DeviceOK'
    BY <1>0, <2>1, <2>2, <2>3 DEF DeviceOK, GaSteps, WithTimeline
  <2>5. KeyInv'
    BY <2>1, <2>4 DEF KeyInv, WithTimeline
  <2>6. \A r \in 1..Runs : runsBest'[r] = IF r = job.run THEN row ELSE runsBest[r]
    BY <2>1 DEF DeviceOK
  <2>7. \A r \in 1..Runs : Clean(runsBest'[r])
    BY <2>1, <2>3, <2>6 DEF BestsInv, WithItems, WithTimeline
  <2>8. \A r \in 1..Runs : Packed(r)' => RowIsOf(runsBest'[r], t) /\ RowIsOf(table[r], t)
    BY <2>1, <2>2, <2>3, <2>4, <2>6 DEF BestsInv, WithItems, WithTimeline, Packed, AllPacked
  <2>9. RowIsOf(runsBest'[job.run], t)
    BY <2>2, <2>3, <2>6
  <2>10. itemsOf' = job'.task
    BY <2>1, <2>4 DEF BestsInv, WithItems, WithTimeline
  <2>11. BestsInv'
    BY <2>1, <2>4, <2>7, <2>8, <2>9, <2>10 DEF BestsInv, WithItems, WithTimeline, Clean, RowIsOf
  <2> QED
    BY <1>0, <2>1, <2>4, <2>5, <2>11
<1>8. CASE PackCandidates
  <2>1. /\ step = "pack" /\ table' = [table EXCEPT ![job.run] = runsBest[job.run]]
        /\ \/ job.run < Runs /\ step' = "batch" /\ job' = [job EXCEPT !.run = @ + 1]
           \/ ~(job.run < Runs) /\ step' = "polishCheck" /\ job' = job
        /\ UNCHANGED <<devReady, timelineKey, surfaces, memo, itemsOf, runsBest>>
    BY <1>8 DEF PackCandidates, At, Goto
  <2>2. job.run \in 1..Runs /\ Runs \in Nat
    BY DeviceAssumption DEF DeviceOK
  <2>3. job'.task = t /\ DeviceOK'
    <3>1. table' \in [1..Runs -> Origins]
      BY <2>1, <2>2 DEF DeviceOK
    <3>2. /\ job'.task = t
          /\ job' \in [task : AllTasks \cup {Nothing}, attempt : {0, 1}, run : 1..Runs, generation : Nat, improved : Nat]
      BY <2>1, <2>2 DEF DeviceOK
    <3> QED
      BY <1>0, <2>1, <3>1, <3>2 DEF DeviceOK, GaSteps, WithTimeline
  <2>4. KeyInv'
    BY <2>1, <2>3 DEF KeyInv, WithTimeline
  <2>5. \A r \in 1..Runs : table'[r] = IF r = job.run THEN runsBest[r] ELSE table[r]
    BY <2>1 DEF DeviceOK
  <2>6. \A r \in 1..Runs : Packed(r)' => r = job.run \/ Packed(r)
    BY <2>1, <2>2 DEF Packed, AllPacked, DeviceOK
  <2>7. \A r \in 1..Runs : Packed(r)' => RowIsOf(runsBest[r], t) /\ RowIsOf(table'[r], t)
    BY <2>1, <2>5, <2>6 DEF BestsInv, WithItems, WithTimeline
  <2>8. itemsOf = t /\ \A r \in 1..Runs : Clean(runsBest[r])
    BY <2>1 DEF BestsInv, WithItems, WithTimeline
  <2>9. BestsInv'
    BY <2>1, <2>3, <2>7, <2>8 DEF BestsInv, WithItems, WithTimeline, Clean, RowIsOf
  <2> QED
    BY <1>0, <2>1, <2>3, <2>4, <2>9
<1>9. CASE PolishPass
  <2> DEFINE row(r) == [songs |-> runsBest[r].songs \cup Origin.songs, items |-> Origin.items]
  <2>1. /\ step = "polish" /\ memo' = memo \cup {surfaces}
        /\ UNCHANGED <<devReady, timelineKey, surfaces, itemsOf, table>>
        /\ \/ /\ step' = "polishCheck" /\ job' = [job EXCEPT !.improved = @ + 1]
              /\ runsBest' = [r \in 1..Runs |-> row(r)]
           \/ step' = "packBests" /\ UNCHANGED <<job, runsBest>>
    BY <1>9 DEF PolishPass, At, Goto
  <2>2. \A r \in 1..Runs : row(r) \in Origins /\ Clean(row(r)) /\ RowIsOf(row(r), t)
    <3>1. SUFFICES ASSUME NEW r \in 1..Runs PROVE row(r) \in Origins /\ Clean(row(r)) /\ RowIsOf(row(r), t)
      OBVIOUS
    <3>2. runsBest[r].songs \in SUBSET (Songs \cup {Nothing, Torn}) /\ Clean(runsBest[r])
      BY <2>1 DEF DeviceOK, Origins, BestsInv, WithItems, WithTimeline
    <3> QED
      BY <2>1, <3>2, OriginAdded DEF WithItems, WithTimeline, Clean
  <2> HIDE DEF row
  <2>3. job'.task = t /\ job'.run = job.run /\ DeviceOK'
    BY <1>0, <2>1, <2>2 DEF DeviceOK, GaSteps, WithTimeline
  <2>4. KeyInv'
    BY <2>1, <2>3 DEF KeyInv, WithTimeline
  <2>5. \A r \in 1..Runs : RowIsOf(runsBest[r], t) /\ RowIsOf(table[r], t) /\ Clean(runsBest[r])
    BY <2>1 DEF BestsInv, WithItems, WithTimeline, Packed, AllPacked
  <2>6. \A r \in 1..Runs : RowIsOf(runsBest'[r], t) /\ Clean(runsBest'[r])
    BY <2>1, <2>2, <2>5
  <2>7. itemsOf = t
    BY <2>1 DEF BestsInv, WithItems, WithTimeline
  <2>8. BestsInv'
    BY <2>1, <2>3, <2>5, <2>6, <2>7 DEF BestsInv, WithItems, WithTimeline, Clean, RowIsOf
  <2> QED
    BY <1>0, <2>1, <2>3, <2>4, <2>8
<1>10. CASE PackRunBests
  <2> DEFINE row(r) == [songs |-> table[r].songs \cup runsBest[r].songs, items |-> runsBest[r].items]
  <2>1. /\ step = "packBests" /\ step' = "done" /\ table' = [r \in 1..Runs |-> row(r)]
        /\ UNCHANGED <<devReady, timelineKey, surfaces, memo, itemsOf, runsBest, job>>
    BY <1>10 DEF PackRunBests, At, Goto
  <2>2. \A r \in 1..Runs : RowIsOf(runsBest[r], t) /\ RowIsOf(table[r], t) /\ Clean(runsBest[r])
    BY <2>1 DEF BestsInv, WithItems, WithTimeline, Packed, AllPacked
  <2>3. \A r \in 1..Runs : row(r) \in Origins /\ RowIsOf(row(r), t)
    BY <2>2 DEF DeviceOK, Origins, RowIsOf
  <2> HIDE DEF row
  <2>4. DeviceOK'
    BY <1>0, <2>1, <2>3 DEF DeviceOK, GaSteps, WithTimeline
  <2>5. KeyInv'
    BY <2>1 DEF KeyInv, WithTimeline
  <2>6. itemsOf = t
    BY <2>1 DEF BestsInv, WithItems, WithTimeline
  <2>7. BestsInv'
    BY <2>1, <2>2, <2>3, <2>6 DEF BestsInv, WithItems, WithTimeline, Clean, RowIsOf
  <2> QED
    BY <1>0, <2>1, <2>4, <2>5, <2>7
<1>11. CASE RetryOnFreshRuntime
  <2>1. HardReset /\ EnterGa(t, 1)
    BY <1>11 DEF RetryOnFreshRuntime
  <2>2. DeviceInv'
    BY <1>0, <2>1, DeviceReset
  <2> QED
    BY <1>0, <2>1, <2>2 DEF EnterGa
<1> QED
  BY <1>1, <1>2, <1>3, <1>4, <1>5, <1>6, <1>7, <1>8, <1>9, <1>10, <1>11 DEF GaStep

-----------------------------------------------------------------------------
\* What the device knows, in every step of the executor.
\* The steps of the main thread and the StopWatch that leave the device alone.
Outside ==
    \/ (\E t \in Tasks : Call(t)) \/ Submit \/ InitFailed \/ LeaveLoop \/ EndOfInput \/ Joined \/ TakeAnswer
    \/ CallTimesOut \/ StopRequested \/ StopWatch

\* They touch neither the device nor the owner thread.
LEMMA OutsideFrame == ASSUME Outside PROVE UNCHANGED <<gaVars, ownerVars, late>>
  BY DEF Outside, Call, Submit, InitFailed, LeaveLoop, EndOfInput, Joined, TakeAnswer, CallTimesOut, StopRequested,
         StopWatch

\* A step that leaves the device alone.
LEMMA DeviceSame == ASSUME DeviceInv, UNCHANGED gaVars PROVE DeviceInv'
  BY DEF DeviceInv, DeviceOK, KeyInv, BestsInv, Clean, Packed, RowIsOf, gaVars, deviceVars, fieldVars

\* What Start, the owner and a hanging step do with the device.
LEMMA DeviceStep ==
  ASSUME IInv, [Next]_vars
  PROVE  DeviceInv'
<1>0. DeviceInv
  BY DEF IInv, DeviceInv
<1>1. CASE Start
  <2>1. EnterGa(Warm, 0) /\ UNCHANGED deviceVars
    BY <1>1 DEF Start
  <2> QED
    BY <1>0, <2>1, GaEntered DEF AllTasks
<1>2. CASE Outside \/ Hangs \/ Rest \/ UNCHANGED vars
  <2>1. UNCHANGED gaVars
    BY <1>2, OutsideFrame DEF Hangs, Rest, vars
  <2> QED
    BY <1>0, <2>1, DeviceSame
<1>3. CASE RunGa
  <2>1. GaStep(abort)
    BY <1>3 DEF RunGa
  <2> QED
    BY <1>0, <2>1, GaStepKeeps
<1>4. CASE InitDone \/ InitFails \/ CallDone \/ CallAborted \/ CallFails
  <2>1. LeaveGa
    BY <1>4 DEF InitDone, InitFails, CallDone, CallAborted, CallFails, FailsForGood
  <2> QED
    BY <1>0, <2>1, GaLeft
<1>5. CASE Take
  <2>1. UNCHANGED deviceVars /\ (UNCHANGED <<step, job>> \/ EnterGa(Head(calls), 0))
    BY <1>5 DEF Take
  <2>2. CASE UNCHANGED <<step, job>>
    BY <1>0, <2>1, <2>2 DEF DeviceInv, DeviceOK, KeyInv, BestsInv, Clean, Packed, RowIsOf, deviceVars, fieldVars
  <2>3. CASE EnterGa(Head(calls), 0)
    <3>1. Head(calls) \in AllTasks
      <4>1. client = "waitCall" /\ calls = <<task>> /\ task \in Tasks
        BY <1>5 DEF Take, Alive, IInv, CallInv, ExecutorOK
      <4> QED
        BY <4>1 DEF AllTasks
    <3> QED
      BY <1>0, <2>1, <2>3, <3>1, GaEntered
  <2> QED
    BY <2>1, <2>2, <2>3
<1>6. CASE Finalize
  <2>1. HardReset /\ UNCHANGED <<step, job>> /\ step = "out"
    BY <1>6 DEF Finalize, IInv, CallInv
  <2> QED
    BY <1>0, <2>1, DeviceReset
<1> QED
  BY <1>1, <1>2, <1>3, <1>4, <1>5, <1>6 DEF Next, ClientStep, OwnerStep, Outside

-----------------------------------------------------------------------------
\* The call, its answer and the abort.
CallParts == ExecutorOK /\ CallInv /\ AbortInv /\ AnswersAreTheirs

\* The outcomes of a call differ.
LEMMA FutureFacts ==
  /\ NoFuture.kind = "none" /\ Pending.kind = "pending" /\ Pending # NoFuture
  /\ \A k : Failed(k).kind = k
  /\ \A rows : Ok(rows).kind = "ok" /\ Ok(rows).rows = rows
  BY DEF NoFuture, Pending, Failed, Ok

\* The main thread: one call at a time.
LEMMA OutsideCalls == ASSUME IInv, Outside PROVE CallParts'
<1> USE DEF IInv
<1>0. UNCHANGED <<gaVars, ownerVars, late>> /\ step' = step /\ job' = job /\ owner' = owner
  BY OutsideFrame DEF gaVars, ownerVars
<1>1. ASSUME NEW t \in Tasks, Call(t) PROVE CallParts'
  <2>1. /\ client = "idle" /\ client' = "waitReady" /\ task' = t /\ UNCHANGED <<future, calls, abort>>
    BY <1>1 DEF Call
  <2>2. ExecutorOK' /\ AbortInv' /\ future = NoFuture
    BY <1>0, <2>1 DEF ExecutorOK, AbortInv, CallInv
  <2>3. CallInv'
    BY <1>0, <2>1 DEF CallInv
  <2>4. AnswersAreTheirs'
    BY <2>1, <2>2, FutureFacts DEF AnswersAreTheirs
  <2> QED
    BY <2>2, <2>3, <2>4 DEF CallParts
<1>2. CASE Submit
  <2>1. /\ client = "waitReady" /\ client' = "waitCall" /\ future' = Pending /\ calls = <<>> /\ calls' = Append(<<>>, task)
        /\ task \in Tasks /\ UNCHANGED <<task, abort>> /\ owner # "call"
    BY <1>2 DEF Submit, CallInv
  <2>2. calls' = <<task>>
    BY <2>1
  <2>3. ExecutorOK' /\ AbortInv'
    BY <1>0, <2>1 DEF ExecutorOK, AbortInv
  <2>4. CallInv'
    BY <1>0, <2>1, <2>2 DEF CallInv
  <2>5. AnswersAreTheirs'
    BY <2>1, FutureFacts DEF AnswersAreTheirs
  <2> QED
    BY <2>3, <2>4, <2>5 DEF CallParts
\* The executor is stopped while no call is in progress.
<1>3. ASSUME client' = "joining", calls = <<>>, owner # "call", StopExecutor, future' = NoFuture PROVE CallParts'
  <2>1. calls' = Append(<<>>, Stop) /\ abort' = TRUE
    BY <1>3 DEF StopExecutor
  <2>2. calls' = <<Stop>>
    BY <2>1
  <2>3. ExecutorOK' /\ AbortInv'
    BY <1>0, <1>3, <2>1 DEF ExecutorOK, AbortInv
  <2>4. CallInv'
    BY <1>0, <1>3, <2>2 DEF CallInv
  <2>5. AnswersAreTheirs'
    BY <1>3, FutureFacts DEF AnswersAreTheirs
  <2> QED
    BY <2>3, <2>4, <2>5 DEF CallParts
<1>4. CASE InitFailed \/ LeaveLoop
  <2>1. /\ client \in {"waitReady", "idle"} /\ client' = "joining" /\ StopExecutor /\ UNCHANGED future
    BY <1>4 DEF InitFailed, LeaveLoop
  <2>2. calls = <<>> /\ owner # "call" /\ future = NoFuture
    BY <2>1 DEF CallInv
  <2> QED
    BY <1>3, <2>1, <2>2
<1>5. CASE EndOfInput \/ Joined \/ CallTimesOut
  <2>1. /\ client' = "exited" /\ UNCHANGED <<future, task, abort>>
        /\ client \in {"boot", "idle", "joining"} \/ future = Pending
    BY <1>5 DEF EndOfInput, Joined, CallTimesOut
  <2>2. future.kind # "ok"
    BY <2>1, FutureFacts DEF CallInv
  <2>3. ExecutorOK' /\ AbortInv'
    BY <1>0, <2>1 DEF ExecutorOK, AbortInv
  <2>4. CallInv'
    BY <1>0, <2>1, <2>2 DEF CallInv
  <2>5. AnswersAreTheirs'
    BY <2>1, <2>2 DEF AnswersAreTheirs
  <2> QED
    BY <2>3, <2>4, <2>5 DEF CallParts
<1>6. CASE TakeAnswer
  <2>1. /\ client = "waitCall" /\ future.kind \in Outcomes \cup {"ok"} /\ future' = NoFuture /\ UNCHANGED task
        /\ \/ client' = "exited" /\ UNCHANGED <<abort, calls>>
           \/ client' = "joining" /\ StopExecutor
           \/ client' = "idle" /\ UNCHANGED <<abort, calls>>
    BY <1>6 DEF TakeAnswer
  <2>2. future # Pending
    BY <2>1, FutureFacts DEF Outcomes
  <2>3. calls = <<>> /\ owner # "call"
    BY <2>1, <2>2 DEF CallInv
  <2>4. CASE client' = "joining" /\ StopExecutor
    BY <1>3, <2>1, <2>3, <2>4
  <2>5. CASE client' \in {"exited", "idle"} /\ UNCHANGED <<abort, calls>>
    <3>1. ExecutorOK' /\ AbortInv'
      BY <1>0, <2>5 DEF ExecutorOK, AbortInv
    <3>2. CallInv'
      BY <1>0, <2>1, <2>3, <2>5, FutureFacts DEF CallInv
    <3>3. AnswersAreTheirs'
      BY <2>1, FutureFacts DEF AnswersAreTheirs
    <3> QED
      BY <3>1, <3>2, <3>3 DEF CallParts
  <2> QED
    BY <2>1, <2>4, <2>5
<1>7. CASE StopRequested \/ StopWatch
  <2>1. UNCHANGED <<client, task, future, calls>> /\ (abort' = abort \/ abort' = TRUE)
    BY <1>7 DEF StopRequested, StopWatch, clientVars
  <2>2. ExecutorOK' /\ AbortInv'
    BY <1>0, <2>1 DEF ExecutorOK, AbortInv
  <2>3. CallInv'
    BY <1>0, <2>1 DEF CallInv
  <2>4. AnswersAreTheirs'
    BY <2>1 DEF AnswersAreTheirs
  <2> QED
    BY <2>2, <2>3, <2>4 DEF CallParts
<1> QED
  BY <1>1, <1>2, <1>4, <1>5, <1>6, <1>7 DEF Outside

\* A GA that runs is aborted by its next check: late evaluations stay at one.
LEMMA RunGaCalls == ASSUME IInv, RunGa PROVE CallParts'
<1> USE DEF IInv
<1>1. /\ GaStep(abort) /\ owner \in {"init", "call"} /\ UNCHANGED <<client, task, future, calls, owner, abort>>
      /\ late' = IF abort /\ owner = "call" /\ step \in {"evaluate", "polish"} /\ step' # "ready" THEN late + 1 ELSE late
  BY DEF RunGa, Running, clientVars, ownerVars
<1>2. job'.task = job.task /\ step # "out" /\ step' # "out"
  BY <1>1, GaStepKeeps DEF DeviceInv
<1>3. CallInv' /\ AnswersAreTheirs'
  BY <1>1, <1>2 DEF CallInv, AnswersAreTheirs
<1>4. owner = "call" => job.task # Warm
  BY DeviceAssumption DEF CallInv
\* A driver step from which the GA restarts leads to "ready"; the others follow one another.
<1>5. step' \in {"evaluate", "polish"} => \/ step \in {"check", "polishCheck"} /\ (job.task = Warm \/ ~abort)
  BY <1>1 DEF GaStep, EnsureReady, UploadTimeline, TimelineUploaded, UploadItems, StartBatch, CheckPasses, Evaluate,
              PackCandidates, PolishPass, PackRunBests, RetryOnFreshRuntime, EnterGa, At, Goto
<1>6. CASE owner # "call"
  BY <1>1, <1>3, <1>6 DEF ExecutorOK, AbortInv, CallParts
<1>7. CASE owner = "call"
  <2>1. step' \in {"evaluate", "polish"} => ~abort /\ step \in {"check", "polishCheck"}
    BY <1>4, <1>5, <1>7
  <2>2. late' \in {0, 1} /\ (late' = 1 => abort /\ step' \notin {"evaluate", "polish"})
    BY <1>1, <1>7, <2>1 DEF ExecutorOK, AbortInv
  <2> QED
    BY <1>1, <1>3, <2>2 DEF ExecutorOK, AbortInv, CallParts
<1> QED
  BY <1>6, <1>7

\* The owner thread: it takes the one call, and answers it.
LEMMA OwnerCalls ==
  ASSUME IInv, Start \/ InitDone \/ InitFails \/ Take \/ CallDone \/ CallAborted \/ CallFails \/ Hangs \/ Finalize
  PROVE  CallParts'
<1> USE DEF IInv
<1>1. CASE Start
  <2>1. /\ client = "boot" /\ client' = "idle" /\ owner' = "init" /\ calls' = <<>> /\ abort' = FALSE
        /\ UNCHANGED <<task, future, late>>
    BY <1>1 DEF Start
  <2>2. future = NoFuture
    BY <2>1 DEF CallInv
  <2>3. ExecutorOK' /\ AbortInv'
    BY <2>1 DEF ExecutorOK, AbortInv
  <2>4. CallInv'
    BY <2>1, <2>2 DEF CallInv
  <2>5. AnswersAreTheirs'
    BY <2>1, <2>2, FutureFacts DEF AnswersAreTheirs
  <2> QED
    BY <2>3, <2>4, <2>5 DEF CallParts
<1>2. CASE InitDone \/ InitFails
  <2>1. /\ owner = "init" /\ owner' \in {"get", "dead"} /\ LeaveGa
        /\ UNCHANGED <<client, task, future, calls, abort, late>>
    BY <1>2 DEF InitDone, InitFails, FailsForGood, clientVars
  <2>2. ExecutorOK' /\ AbortInv' /\ AnswersAreTheirs' /\ step' = "out"
    BY <2>1 DEF ExecutorOK, AbortInv, AnswersAreTheirs, LeaveGa, Goto
  <2>3. CallInv'
    BY <2>1, <2>2 DEF CallInv
  <2> QED
    BY <2>2, <2>3 DEF CallParts
<1>3. CASE Take
  <2>1. /\ owner = "get" /\ calls # <<>> /\ Head(calls) # Stop /\ calls' = Tail(calls) /\ late' = 0
        /\ client # "exited" /\ UNCHANGED <<client, task, abort>>
        /\ \/ future' = Failed("aborted") /\ UNCHANGED <<owner, step, job>>
           \/ owner' = "call" /\ EnterGa(Head(calls), 0) /\ UNCHANGED future
    BY <1>3 DEF Take, Alive, clientVars
  <2>2. client = "waitCall" /\ calls = <<task>> /\ task \in Tasks /\ future = Pending
    BY <2>1 DEF CallInv, ExecutorOK
  <2>3. Head(calls) = task /\ calls' = <<>>
    BY <2>1, <2>2
  <2>4. ExecutorOK' /\ AbortInv'
    BY <2>1 DEF ExecutorOK, AbortInv
  <2>5. CASE future' = Failed("aborted") /\ UNCHANGED <<owner, step, job>>
    BY <2>1, <2>2, <2>3, <2>4, <2>5, FutureFacts DEF CallInv, Outcomes, AnswersAreTheirs, CallParts
  <2>6. CASE owner' = "call" /\ EnterGa(task, 0) /\ UNCHANGED future
    <3>1. job'.task = task
      BY <2>6 DEF EnterGa
    <3> QED
      BY <2>1, <2>2, <2>3, <2>4, <2>6, <3>1, FutureFacts DEF CallInv, AnswersAreTheirs, CallParts
  <2> QED
    BY <2>1, <2>3, <2>5, <2>6
<1>4. ASSUME owner = "call", client # "exited", NEW outcome, EndCall(outcome), LeaveGa,
             outcome.kind \in Outcomes \cup {"ok"},
             outcome.kind = "ok" => \A r \in 1..Runs : RowIsOf(outcome.rows[r], job.task)
      PROVE  CallParts'
  <2>1. /\ future' = outcome /\ owner' = "get" /\ step' = "out" /\ UNCHANGED <<client, task, calls, abort, late>>
    BY <1>4 DEF EndCall, LeaveGa, Goto, clientVars
  <2>2. client = "waitCall" /\ calls = <<>> /\ job.task = task /\ task \in Tasks
    BY <1>4 DEF CallInv, ExecutorOK
  <2>3. ExecutorOK' /\ AbortInv'
    BY <2>1 DEF ExecutorOK, AbortInv
  <2>4. CallInv'
    BY <1>4, <2>1, <2>2 DEF CallInv
  <2>5. AnswersAreTheirs'
    BY <1>4, <2>1, <2>2 DEF AnswersAreTheirs, RowIsOf
  <2> QED
    BY <2>3, <2>4, <2>5 DEF CallParts
<1>5. CASE CallDone
  <2>1. owner = "call" /\ client # "exited" /\ EndCall(Ok(table)) /\ LeaveGa /\ step = "done"
    BY <1>5 DEF CallDone, Running, Alive, At
  <2>2. \A r \in 1..Runs : RowIsOf(table[r], job.task)
    BY <2>1 DEF BestsInv, WithItems, WithTimeline, Packed, AllPacked
  <2> QED
    BY <1>4, <2>1, <2>2, FutureFacts
<1>6. CASE CallAborted \/ CallFails
  <2>1. PICK k \in Outcomes : owner = "call" /\ client # "exited" /\ EndCall(Failed(k)) /\ LeaveGa
    BY <1>6 DEF CallAborted, CallFails, FailsForGood, Running, Alive, Outcomes
  <2>2. Failed(k).kind = k /\ k # "ok"
    BY FutureFacts DEF Outcomes
  <2> QED
    BY <1>4, <2>1, <2>2
<1>7. CASE Hangs
  <2>1. UNCHANGED <<gaVars, client, task, future, calls, owner, abort, late>>
    BY <1>7 DEF Hangs, clientVars
  <2> QED
    BY <2>1 DEF gaVars, CallParts, ExecutorOK, CallInv, AbortInv, AnswersAreTheirs
<1>8. CASE Finalize
  <2>1. /\ owner = "get" /\ calls # <<>> /\ calls' = Tail(calls) /\ owner' = "dead" /\ client # "exited"
        /\ UNCHANGED <<step, job, client, task, future, abort, late>>
    BY <1>8 DEF Finalize, Alive, clientVars
  <2>2. \E x : calls = <<x>>
    BY <2>1 DEF CallInv, ExecutorOK
  <2>3. calls' = <<>>
    BY <2>1, <2>2
  <2>4. ExecutorOK' /\ AbortInv' /\ AnswersAreTheirs'
    BY <2>1 DEF ExecutorOK, AbortInv, AnswersAreTheirs
  <2>5. CallInv'
    BY <2>1, <2>3 DEF CallInv, ExecutorOK
  <2> QED
    BY <2>4, <2>5 DEF CallParts
<1> QED
  BY <1>1, <1>2, <1>3, <1>5, <1>6, <1>7, <1>8

\* Every step keeps the invariant,
LEMMA InvStep == ASSUME IInv, [Next]_vars PROVE IInv'
<1>1. CASE Rest \/ UNCHANGED vars
  <2>1. UNCHANGED <<gaVars, client, task, future, calls, owner, abort, late>>
    BY <1>1 DEF Rest, vars, clientVars, ownerVars
  <2>2. CallParts'
    BY <2>1 DEF IInv, gaVars, CallParts, ExecutorOK, CallInv, AbortInv, AnswersAreTheirs
  <2> QED
    BY <2>2, DeviceStep DEF IInv, CallParts, DeviceInv
<1>2. CASE ~(Rest \/ UNCHANGED vars)
  <2>1. CallParts'
    BY <1>2, OutsideCalls, RunGaCalls, OwnerCalls DEF Next, ClientStep, OwnerStep, Outside
  <2> QED
    BY <2>1, DeviceStep DEF IInv, CallParts, DeviceInv
<1> QED
  BY <1>1, <1>2

\* and the start has it.
LEMMA InitInv == ASSUME Init PROVE IInv
<1> USE DEF Init, DeviceInit
<1>1. DeviceOK
  <2>1. runsBest \in [1..Runs -> Origins] /\ table \in [1..Runs -> Origins]
    BY NoOriginType
  <2>2. job \in [task : AllTasks \cup {Nothing}, attempt : {0, 1}, run : 1..Runs, generation : Nat, improved : Nat]
    BY DeviceAssumption
  <2>3. devReady = FALSE /\ step = "out" /\ timelineKey = Nothing /\ surfaces = Nothing /\ memo = {} /\ itemsOf = Nothing
    OBVIOUS
  <2> QED
    BY <2>1, <2>2, <2>3 DEF DeviceOK, GaSteps
<1>2. KeyInv /\ BestsInv
  BY DEF KeyInv, BestsInv, WithItems, WithTimeline
<1>3. ExecutorOK /\ AbortInv
  BY DEF ExecutorOK, AbortInv
<1>4. client = "boot" /\ owner = "off" /\ step = "out" /\ calls = <<>> /\ future = NoFuture
  OBVIOUS
<1>5. CallInv
  BY ONLY <1>4 DEF CallInv
<1>6. AnswersAreTheirs
  BY <1>4, FutureFacts DEF AnswersAreTheirs
<1> QED
  BY <1>1, <1>2, <1>3, <1>5, <1>6 DEF IInv

\* The inductive invariant: the timeline key names what the device holds, the rows of a GA
\* are its task's from the batch on, and the one call is queued, run or answered.
THEOREM InvariantHolds == Spec => []IInv
<1>1. Init => IInv
  BY InitInv
<1>2. IInv /\ [Next]_vars => IInv'
  BY InvStep
<1> QED
  BY <1>1, <1>2, PTL DEF Spec

\* The table a call returns was computed from its own song and items, whatever ran on the
\* device before: resets, retries, failed uploads and calls that ended early.
THEOREM TablesAreTheirs == Spec => []AnswersAreTheirs
<1>1. IInv => AnswersAreTheirs
  BY DEF IInv
<1> QED
  BY <1>1, InvariantHolds, PTL

\* After an abort a call evaluates what is past its check and nothing more.
THEOREM AbortsAreHonoured == Spec => []AbortIsHonoured
<1>1. IInv => AbortIsHonoured
  BY DEF IInv, ExecutorOK, AbortIsHonoured
<1> QED
  BY <1>1, InvariantHolds, PTL
=============================================================================
