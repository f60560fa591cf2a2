-------------------------- MODULE SolveQueueProofs --------------------------
(***************************************************************************)
(* Proofs about SolveQueue, for every set of workers, number of tasks and  *)
(* set of crash points.                                                    *)
(***************************************************************************)
EXTENDS SolveQueue, FiniteSetTheorems, SequenceTheorems, TLAPS

\* The task w's events will have announced and not ended once the parent has read them all.
Announced(w) ==
    IF pipe[w] = <<>> THEN working[w]
    ELSE LET e == pipe[w][Len(pipe[w])] IN IF e.kind = "start" THEN e.task ELSE NoTask

\* The same just before the i-th event of the pipe is read.
AnnouncedBefore(w, i) ==
    IF i = 1 THEN working[w]
    ELSE IF pipe[w][i - 1].kind = "start" THEN pipe[w][i - 1].task ELSE NoTask

\* A process holds a task exactly between taking and ending it.
ItemInv ==
    /\ \A w \in Workers : item[w] # NoTask <=> pc[w] \in {"taken", "solve", "commit"}
    /\ \A w \in running : pc[w] # "none"
    /\ \A w \in Workers \ running : pc[w] = "none"
    /\ result # "running" => running = {}

\* Starts and outcomes alternate in a pipe.
PipeInv ==
    \A w \in Workers : \A i \in 1..Len(pipe[w]) :
        IF pipe[w][i].kind = "start"
        THEN AnnouncedBefore(w, i) = NoTask
        ELSE AnnouncedBefore(w, i) = pipe[w][i].task

\* What a worker announced agrees with where it is.
AnnouncedInv ==
    \A w \in Workers :
        /\ pc[w] \in {"solve", "commit"} => Announced(w) = item[w]
        /\ pc[w] \in {"boot", "check", "get", "read", "taken", "leave3", "exit3"}
             => Announced(w) = NoTask
        /\ pc[w] \in {"leave0", "exit0"} => Announced(w) = NoTask \/ stop = "set"

\* What is announced as stored is stored.
CommitInv ==
    /\ DoneIsCommitted
    /\ \A w \in Workers :
        /\ pc[w] = "commit" => item[w] \in committed
        /\ \A i \in 1..Len(pipe[w]) : pipe[w][i].kind = "done" => pipe[w][i].task \in committed

\* w has something to say or to do about task t.
Held(w, t) ==
    \/ item[w] = t
    \/ working[w] = t
    \/ \E i \in 1..Len(pipe[w]) : pipe[w][i].task = t

\* A task is held by one worker at most, and not once it is reported.
OwnInv ==
    /\ \A w \in Workers, t \in Tasks : Held(w, t) => t < head /\ t \notin done \cup failed
    /\ \A w, v \in Workers, t \in Tasks : Held(w, t) /\ Held(v, t) => w = v
    /\ \A t \in done \cup failed : t < head

\* After the outcome of a task, a worker only speaks of later ones.
OrderInv ==
    \A w \in Workers : \A i \in 1..Len(pipe[w]) :
        pipe[w][i].kind # "start" =>
            /\ \A j \in (i + 1)..Len(pipe[w]) : pipe[w][j].task > pipe[w][i].task
            /\ item[w] # NoTask => item[w] > pipe[w][i].task

\* A worker that died and will be found outside a task.
DiedOutside(w) == pc[w] = "died" /\ Announced(w) = NoTask

\* While the run is not stopped, every task taken is reported, held, or lost by
\* a death that will stop the run.
TakenInv ==
    stop = "clear" => \A t \in Tasks : t < head =>
        \/ t \in done \cup failed
        \/ \E w \in running : Held(w, t) \/ DiedOutside(w)

\* A slot is given up only at the end of the queue.
SlotInv == stop = "clear" => \A w \in Workers \ running : head > N \/ finished >= N

\* A worker that leaves for good met an end mark or tells of its lost GPU.
LeaveInv ==
    stop = "clear" => \A w \in Workers : pc[w] \in {"leave0", "exit0"} =>
        \/ head > N
        \/ \E i \in 1..Len(pipe[w]) : pipe[w][i].kind = "fatal"

\* The slots that read no item of the queue any more.
Gone == {w \in Workers : \/ pc[w] \in {"leave0", "exit0", "none"}
                         \/ pc[w] = "died" /\ (Announced(w) = NoTask \/ stop # "clear")}

\* No more end marks were read than slots are gone.
EndMarkInv == head <= N + 1 + Cardinality(Gone)

IInv ==
    /\ TypeOK /\ ItemInv /\ PipeInv /\ AnnouncedInv /\ CommitInv /\ OwnInv
    /\ OrderInv /\ ReportedOnce /\ TakenInv /\ SlotInv /\ LeaveInv /\ EndMarkInv

-----------------------------------------------------------------------------
USE DEF queueVars, watchVars, workerVars, reportVars, loopVars, parentVars, vars

\* There are finitely many end marks.
LEMMA EndMarksType == EndMarks \in Nat
BY WorkersAssumption, FS_CardinalityType DEF EndMarks

\* A sent event keeps the pipes sequences of events.
LEMMA SendType ==
  ASSUME TypeOK, NEW w \in Workers, NEW k \in {"start", "done", "failed", "fatal"},
         item[w] \in Tasks, Send(w, Event(k, item[w]))
  PROVE  pipe' \in [Workers -> Seq(Events)]
<1>1. Event(k, item[w]) \in Events
  BY DEF Event, Events
<1>. QED
  BY <1>1 DEF Send, TypeOK

\* The next event of a pipe, and the task `working` holds for it.
LEMMA HeadEvent ==
  ASSUME TypeOK, PipeInv, NEW w \in Workers, pipe[w] # <<>>
  PROVE  /\ Head(pipe[w]) \in Events
         /\ [pipe EXCEPT ![w] = Tail(@)] \in [Workers -> Seq(Events)]
         /\ Head(pipe[w]).kind = "start" => working[w] = NoTask
         /\ Head(pipe[w]).kind # "start" =>
               working[w] = Head(pipe[w]).task /\ working[w] \in Tasks
<1>1. pipe[w] \in Seq(Events) /\ pipe \in [Workers -> Seq(Events)]
  BY DEF TypeOK
<1>2. Head(pipe[w]) = pipe[w][1] /\ 1 \in 1..Len(pipe[w]) /\ Head(pipe[w]) \in Events
  BY <1>1
<1>3. Head(pipe[w]).task \in Tasks
  BY <1>2 DEF Events
<1>4. AnnouncedBefore(w, 1) = working[w]
  BY DEF AnnouncedBefore
<1>5. Tail(pipe[w]) \in Seq(Events)
  BY <1>1
<1>. QED
  BY <1>1, <1>2, <1>3, <1>4, <1>5 DEF PipeInv

\* The variables start with their types.
LEMMA TypeInit == Init => TypeOK
<1>. SUFFICES ASSUME Init PROVE TypeOK
  OBVIOUS
<1>1. head \in 1..(N + EndMarks + 1)
  BY EndMarksType, NAssumption DEF Init
<1>2. pipe \in [Workers -> Seq(Events)]
  BY DEF Init
<1>3. /\ pc \in [Workers -> LivePoints \cup ExitPoints \cup {"none"}]
      /\ item \in [Workers -> Tasks \cup {NoTask}]
      /\ working \in [Workers -> Tasks \cup {NoTask}]
  BY DEF Init, LivePoints
<1>. QED
  BY <1>1, <1>2, <1>3 DEF Init, TypeOK

\* TypeOK is kept.
LEMMA TypeStep == TypeOK /\ ItemInv /\ PipeInv /\ [Next]_vars => TypeOK'
<1>. SUFFICES ASSUME TypeOK, ItemInv, PipeInv, [Next]_vars PROVE TypeOK'
  OBVIOUS
<1>. USE EndMarksType, NAssumption
<1>1. ASSUME NEW w \in Workers, Boot(w) PROVE TypeOK'
  BY <1>1 DEF Boot, GoTo, TypeOK, LivePoints, ExitPoints, NoTask
<1>2. ASSUME NEW w \in Workers, CheckStop(w) PROVE TypeOK'
  BY <1>2 DEF CheckStop, GoTo, TypeOK, LivePoints, ExitPoints, NoTask
<1>3. ASSUME NEW w \in Workers, LockQueue(w) PROVE TypeOK'
  BY <1>3 DEF LockQueue, GoTo, TypeOK, LivePoints, ExitPoints, NoTask
<1>4. ASSUME NEW w \in Workers, TakeTask(w) PROVE TypeOK'
  BY <1>4 DEF TakeTask, GoTo, Tasks, TypeOK, LivePoints, ExitPoints, NoTask
<1>5. ASSUME NEW w \in Workers, TakeEndMark(w) PROVE TypeOK'
  BY <1>5 DEF TakeEndMark, GoTo, TypeOK, LivePoints, ExitPoints, NoTask
<1>6. ASSUME NEW w \in Workers, Start(w) PROVE TypeOK'
  <2>1. item[w] \in Tasks
    BY <1>6 DEF Start, ItemInv, TypeOK, NoTask
  <2>2. pipe' \in [Workers -> Seq(Events)]
    BY <1>6, <2>1, SendType DEF Start
  <2>. QED
    BY <1>6, <2>1, <2>2 DEF Start, GoTo, Send, Event, TypeOK, LivePoints, ExitPoints, NoTask
<1>7. ASSUME NEW w \in Workers, Commit(w) PROVE TypeOK'
  <2>1. item[w] \in Tasks
    BY <1>7 DEF Commit, ItemInv, TypeOK, NoTask
  <2>. QED
    BY <1>7, <2>1 DEF Commit, GoTo, TypeOK, LivePoints, ExitPoints, NoTask
<1>8. ASSUME NEW w \in Workers, SendDone(w) PROVE TypeOK'
  <2>1. item[w] \in Tasks
    BY <1>8 DEF SendDone, ItemInv, TypeOK, NoTask
  <2>2. pipe' \in [Workers -> Seq(Events)]
    BY <1>8, <2>1, SendType DEF SendDone
  <2>. QED
    BY <1>8, <2>1, <2>2 DEF SendDone, Send, Event, AfterTask, GoTo, TypeOK, LivePoints,
       ExitPoints, NoTask
<1>9. ASSUME NEW w \in Workers, SendFailed(w) PROVE TypeOK'
  <2>1. item[w] \in Tasks
    BY <1>9 DEF SendFailed, ItemInv, TypeOK, NoTask
  <2>2. pipe' \in [Workers -> Seq(Events)]
    BY <1>9, <2>1, SendType DEF SendFailed
  <2>. QED
    BY <1>9, <2>1, <2>2 DEF SendFailed, Send, Event, AfterTask, GoTo, TypeOK, LivePoints,
       ExitPoints, NoTask
<1>10. ASSUME NEW w \in Workers, AbortSolve(w) PROVE TypeOK'
  BY <1>10 DEF AbortSolve, GoTo, TypeOK, LivePoints, ExitPoints, NoTask
<1>11. ASSUME NEW w \in Workers, LoseGpu(w) PROVE TypeOK'
  <2>1. item[w] \in Tasks
    BY <1>11 DEF LoseGpu, ItemInv, TypeOK, NoTask
  <2>2. pipe' \in [Workers -> Seq(Events)]
    BY <1>11, <2>1, SendType DEF LoseGpu
  <2>. QED
    BY <1>11, <2>1, <2>2 DEF LoseGpu, Send, Event, GoTo, TypeOK, LivePoints, ExitPoints, NoTask
<1>12. ASSUME NEW w \in Workers, Leave(w) PROVE TypeOK'
  BY <1>12 DEF Leave, GoTo, WatchLost, TypeOK, LivePoints, ExitPoints, NoTask
<1>13. ASSUME NEW w \in Workers, WakeWatch(w) PROVE TypeOK'
  BY <1>13 DEF WakeWatch, TypeOK, LivePoints, ExitPoints, NoTask
<1>14. ASSUME NEW w \in Workers, Die(w) PROVE TypeOK'
  BY <1>14 DEF Die, GoTo, WatchLost, TypeOK, LivePoints, ExitPoints, NoTask
<1>15. ASSUME NEW w \in Workers, Receive(w) PROVE TypeOK'
  <2>1. pipe' \in [Workers -> Seq(Events)] /\ Head(pipe[w]) \in Events
    BY <1>15, HeadEvent DEF Receive, TypeOK
  <2>2. Head(pipe[w]).kind \in {"done", "failed"} => working[w] \in Tasks
    BY <1>15, HeadEvent DEF Receive
  <2>3. Head(pipe[w]).task \in Tasks
    BY <2>1 DEF Events
  <2>. QED
    BY <1>15, <2>1, <2>2, <2>3 DEF Receive, InLoop, ReceiveStart, ReceiveDone, ReceiveFailed,
       ReceiveFatal, CallSet, TypeOK, LivePoints, ExitPoints, NoTask
<1>16. ASSUME NEW w \in Workers, Drained(w) PROVE TypeOK'
  BY <1>16 DEF Drained, InLoop, TypeOK, LivePoints, ExitPoints, NoTask
<1>17. ASSUME NEW w \in Workers, ExitedEnd(w) PROVE TypeOK'
  BY <1>17 DEF ExitedEnd, Reap, InLoop, TypeOK, LivePoints, ExitPoints, NoTask
<1>18. ASSUME NEW w \in Workers, ExitedForMemory(w) PROVE TypeOK'
  BY <1>18 DEF ExitedForMemory, Reap, InLoop, TypeOK, LivePoints, ExitPoints, NoTask
<1>19. ASSUME NEW w \in Workers, ExitedInTask(w) PROVE TypeOK'
  BY <1>19 DEF ExitedInTask, Reap, InLoop, TypeOK, LivePoints, ExitPoints, NoTask
<1>20. ASSUME NEW w \in Workers, ExitedOutsideTask(w) PROVE TypeOK'
  BY <1>20 DEF ExitedOutsideTask, Reap, InLoop, CallSet, TypeOK, LivePoints, ExitPoints, NoTask
<1>21. CASE RequestStop
  BY <1>21 DEF RequestStop, TypeOK, LivePoints, ExitPoints, NoTask
<1>22. CASE PollStop
  BY <1>22 DEF PollStop, AtTop, InLoop, CallSet, TypeOK, LivePoints, ExitPoints, NoTask
<1>23. CASE Wait
  <2>1. ReadyHandles \subseteq Handles
    BY DEF ReadyHandles, Handles, TypeOK
  <2>. QED
    BY <1>23, <2>1 DEF Wait, AtTop, InLoop, TypeOK
<1>24. CASE Handle
  BY <1>24 DEF Handle, InLoop, TypeOK
<1>25. CASE SetReturns
  BY <1>25 DEF SetReturns, TypeOK, LivePoints, ExitPoints, NoTask
<1>26. CASE Return
  BY <1>26 DEF Return, InLoop, TypeOK, LivePoints, ExitPoints, NoTask
<1>27. CASE UNCHANGED vars
  BY <1>27 DEF TypeOK, LivePoints, ExitPoints, NoTask
<1>. QED
  BY <1>1, <1>2, <1>3, <1>4, <1>5, <1>6, <1>7, <1>8, <1>9, <1>10, <1>11, <1>12, <1>13, <1>14,
     <1>15, <1>16, <1>17, <1>18, <1>19, <1>20, <1>21, <1>22, <1>23, <1>24, <1>25, <1>26,
     <1>27 DEF Next, WorkerStep, ParentStep, ExitedStep

-----------------------------------------------------------------------------
\* What an event sent by w changes.
LEMMA SendFacts ==
  ASSUME TypeOK, NEW w \in Workers, NEW k \in {"start", "done", "failed", "fatal"},
         item[w] \in Tasks, Send(w, Event(k, item[w])), working' = working
  PROVE  /\ Len(pipe[w]) \in Nat
         /\ Len(pipe'[w]) = Len(pipe[w]) + 1
         /\ pipe'[w] # <<>>
         /\ pipe'[w][Len(pipe[w]) + 1] = Event(k, item[w])
         /\ \A i \in 1..Len(pipe[w]) :
                pipe'[w][i] = pipe[w][i] /\ AnnouncedBefore(w, i)' = AnnouncedBefore(w, i)
         /\ \A n : n = Len(pipe[w]) + 1 => AnnouncedBefore(w, n)' = Announced(w)
         /\ Announced(w)' = IF k = "start" THEN item[w] ELSE NoTask
         /\ \A v \in Workers \ {w} :
                /\ pipe'[v] = pipe[v]
                /\ Announced(v)' = Announced(v)
                /\ \A i \in Nat : AnnouncedBefore(v, i)' = AnnouncedBefore(v, i)
<1>1. /\ pipe[w] \in Seq(Events) /\ pipe \in [Workers -> Seq(Events)]
      /\ Event(k, item[w]) \in Events
  BY DEF TypeOK, Event, Events
<1>2. pipe'[w] = Append(pipe[w], Event(k, item[w]))
  BY <1>1 DEF Send
<1>3. \A v \in Workers \ {w} : pipe'[v] = pipe[v]
  BY <1>1 DEF Send
<1>4. /\ Len(pipe[w]) \in Nat /\ Len(pipe'[w]) = Len(pipe[w]) + 1 /\ pipe'[w] # <<>>
      /\ pipe'[w][Len(pipe[w]) + 1] = Event(k, item[w])
      /\ \A i \in 1..Len(pipe[w]) : pipe'[w][i] = pipe[w][i]
      /\ pipe[w] = <<>> <=> Len(pipe[w]) = 0
  BY <1>1, <1>2, EmptySeq
<1>5. \A i \in 1..Len(pipe[w]) : AnnouncedBefore(w, i)' = AnnouncedBefore(w, i)
  BY <1>4 DEF AnnouncedBefore
<1>6. ASSUME NEW n, n = Len(pipe[w]) + 1 PROVE AnnouncedBefore(w, n)' = Announced(w)
  <2>1. CASE pipe[w] = <<>>
    BY <2>1, <1>4, <1>6 DEF AnnouncedBefore, Announced
  <2>2. CASE pipe[w] # <<>>
    <3>1. n # 1 /\ Len(pipe[w]) \in 1..Len(pipe[w]) /\ n - 1 = Len(pipe[w])
      BY <2>2, <1>4, <1>6
    <3>. QED
      BY <2>2, <3>1, <1>4 DEF AnnouncedBefore, Announced
  <2>. QED
    BY <2>1, <2>2
<1>7. Announced(w)' = IF k = "start" THEN item[w] ELSE NoTask
  BY <1>4 DEF Announced, Event
<1>8. \A v \in Workers \ {w} :
         /\ Announced(v)' = Announced(v)
         /\ \A i \in Nat : AnnouncedBefore(v, i)' = AnnouncedBefore(v, i)
  BY <1>3 DEF AnnouncedBefore, Announced
<1>. QED
  BY <1>3, <1>4, <1>5, <1>6, <1>7, <1>8

\* What an event received from w changes.
LEMMA ReceiveFacts ==
  ASSUME TypeOK, PipeInv, NEW w \in Workers, Receive(w)
  PROVE  /\ Len(pipe[w]) \in Nat \ {0}
         /\ Len(pipe'[w]) = Len(pipe[w]) - 1
         /\ Head(pipe[w]) = pipe[w][1]
         /\ \A i \in 1..Len(pipe'[w]) :
                /\ pipe'[w][i] = pipe[w][i + 1]
                /\ AnnouncedBefore(w, i)' = AnnouncedBefore(w, i + 1)
         /\ working'[w] = IF Head(pipe[w]).kind = "start" THEN Head(pipe[w]).task ELSE NoTask
         /\ Announced(w)' = Announced(w)
         /\ \A v \in Workers \ {w} :
                /\ pipe'[v] = pipe[v] /\ working'[v] = working[v]
                /\ Announced(v)' = Announced(v)
                /\ \A i \in Nat : AnnouncedBefore(v, i)' = AnnouncedBefore(v, i)
<1>1. /\ pipe[w] \in Seq(Events) /\ pipe \in [Workers -> Seq(Events)] /\ pipe[w] # <<>>
      /\ working \in [Workers -> Tasks \cup {NoTask}]
  BY DEF TypeOK, Receive
<1>2. pipe' = [pipe EXCEPT ![w] = Tail(pipe[w])] /\ pipe'[w] \in Seq(Events)
  BY <1>1, HeadTailProperties DEF Receive
<1>3. \A v \in Workers \ {w} : pipe'[v] = pipe[v]
  BY <1>1, <1>2
<1>4. /\ Len(pipe[w]) \in Nat \ {0} /\ Head(pipe[w]) = pipe[w][1]
      /\ pipe'[w] = Tail(pipe[w])
      /\ Len(pipe'[w]) = Len(pipe[w]) - 1
      /\ \A i \in 1..Len(pipe'[w]) : pipe'[w][i] = pipe[w][i + 1]
  BY <1>1, <1>2, HeadTailProperties
<1>len. ASSUME NEW n \in Nat \ {0}, NEW m, m = n - 1, n # 1 PROVE m \in 1..m /\ m + 1 = n
  BY <1>len
<1>empty. pipe'[w] = <<>> <=> Len(pipe'[w]) = 0
  BY <1>2, EmptySeq
<1>5. /\ working'[w] = IF Head(pipe[w]).kind = "start" THEN Head(pipe[w]).task ELSE NoTask
      /\ \A v \in Workers \ {w} : working'[v] = working[v]
  BY <1>1 DEF Receive, ReceiveStart, ReceiveDone, ReceiveFailed, ReceiveFatal
<1>6. ASSUME NEW i \in 1..Len(pipe'[w])
      PROVE  AnnouncedBefore(w, i)' = AnnouncedBefore(w, i + 1)
  <2>1. CASE i = 1
    BY <2>1, <1>4, <1>5 DEF AnnouncedBefore
  <2>2. CASE i # 1
    <3>1. i - 1 \in 1..Len(pipe'[w]) /\ pipe'[w][i - 1] = pipe[w][i]
      BY <2>2, <1>4
    <3>. QED
      BY <2>2, <3>1, <1>4 DEF AnnouncedBefore
  <2>. QED
    BY <2>1, <2>2
<1>7. Announced(w)' = Announced(w)
  <2>1. CASE Len(pipe[w]) = 1
    BY <2>1, <1>1, <1>4, <1>empty, <1>5 DEF Announced
  <2>2. CASE Len(pipe[w]) # 1
    <3>1. Len(pipe'[w]) \in 1..Len(pipe'[w]) /\ Len(pipe'[w]) + 1 = Len(pipe[w])
      BY <2>2, <1>4, <1>len
    <3>2. pipe'[w][Len(pipe'[w])] = pipe[w][Len(pipe'[w]) + 1]
      BY <3>1, <1>4
    <3>. QED
      BY <2>2, <3>1, <3>2, <1>1, <1>4, <1>empty DEF Announced
  <2>. QED
    BY <2>1, <2>2
<1>8. \A v \in Workers \ {w} :
         /\ Announced(v)' = Announced(v)
         /\ \A i \in Nat : AnnouncedBefore(v, i)' = AnnouncedBefore(v, i)
  BY <1>3, <1>5 DEF AnnouncedBefore, Announced
<1>. QED
  BY <1>3, <1>4, <1>5, <1>6, <1>7, <1>8

\* A sent event continues the alternation.
LEMMA SendPipe ==
  ASSUME TypeOK, PipeInv, NEW w \in Workers, NEW k \in {"start", "done", "failed", "fatal"},
         item[w] \in Tasks, Send(w, Event(k, item[w])), working' = working,
         Announced(w) = IF k = "start" THEN NoTask ELSE item[w]
  PROVE  PipeInv'
<1>. SUFFICES ASSUME NEW v \in Workers, NEW i \in 1..Len(pipe'[v])
              PROVE  IF pipe'[v][i].kind = "start"
                     THEN AnnouncedBefore(v, i)' = NoTask
                     ELSE AnnouncedBefore(v, i)' = pipe'[v][i].task
  BY DEF PipeInv
<1>1. CASE v # w
  BY <1>1, SendFacts DEF PipeInv
<1>2. CASE v = w /\ i \in 1..Len(pipe[w])
  BY <1>2, SendFacts DEF PipeInv
<1>3. CASE v = w /\ i = Len(pipe[w]) + 1
  <2>1. pipe'[w][i] = Event(k, item[w]) /\ AnnouncedBefore(w, i)' = Announced(w)
    BY <1>3, SendFacts
  <2>. QED
    BY <2>1, <1>3 DEF Event
<1>. QED
  BY <1>1, <1>2, <1>3, SendFacts

\* ItemInv is kept.
LEMMA ItemStep == TypeOK /\ ItemInv /\ PipeInv /\ [Next]_vars => ItemInv'
<1>. SUFFICES ASSUME TypeOK, ItemInv, PipeInv, [Next]_vars PROVE ItemInv'
  OBVIOUS
<1>1. ASSUME NEW w \in Workers, Boot(w) PROVE ItemInv'
  BY <1>1 DEF Boot, GoTo, ItemInv, TypeOK, NoTask, Tasks
<1>2. ASSUME NEW w \in Workers, CheckStop(w) PROVE ItemInv'
  BY <1>2 DEF CheckStop, GoTo, ItemInv, TypeOK, NoTask, Tasks
<1>3. ASSUME NEW w \in Workers, LockQueue(w) PROVE ItemInv'
  BY <1>3 DEF LockQueue, GoTo, ItemInv, TypeOK, NoTask, Tasks
<1>4. ASSUME NEW w \in Workers, TakeTask(w) PROVE ItemInv'
  BY <1>4 DEF TakeTask, GoTo, ItemInv, TypeOK, NoTask, Tasks
<1>5. ASSUME NEW w \in Workers, TakeEndMark(w) PROVE ItemInv'
  BY <1>5 DEF TakeEndMark, GoTo, ItemInv, TypeOK, NoTask, Tasks
<1>6. ASSUME NEW w \in Workers, Start(w) PROVE ItemInv'
  BY <1>6 DEF Start, GoTo, Send, Event, ItemInv, TypeOK, NoTask, Tasks
<1>7. ASSUME NEW w \in Workers, Commit(w) PROVE ItemInv'
  BY <1>7 DEF Commit, GoTo, ItemInv, TypeOK, NoTask, Tasks
<1>8. ASSUME NEW w \in Workers, SendDone(w) PROVE ItemInv'
  BY <1>8 DEF SendDone, Send, Event, AfterTask, GoTo, ItemInv, TypeOK, NoTask, Tasks
<1>9. ASSUME NEW w \in Workers, SendFailed(w) PROVE ItemInv'
  BY <1>9 DEF SendFailed, Send, Event, AfterTask, GoTo, ItemInv, TypeOK, NoTask, Tasks
<1>10. ASSUME NEW w \in Workers, AbortSolve(w) PROVE ItemInv'
  BY <1>10 DEF AbortSolve, GoTo, ItemInv, TypeOK, NoTask, Tasks
<1>11. ASSUME NEW w \in Workers, LoseGpu(w) PROVE ItemInv'
  BY <1>11 DEF LoseGpu, Send, Event, GoTo, ItemInv, TypeOK, NoTask, Tasks
<1>12. ASSUME NEW w \in Workers, Leave(w) PROVE ItemInv'
  BY <1>12 DEF Leave, GoTo, WatchLost, ItemInv, TypeOK, NoTask, Tasks
<1>13. ASSUME NEW w \in Workers, WakeWatch(w) PROVE ItemInv'
  BY <1>13 DEF WakeWatch, ItemInv, TypeOK, NoTask, Tasks
<1>14. ASSUME NEW w \in Workers, Die(w) PROVE ItemInv'
  BY <1>14, CrashPointsAssumption DEF Die, GoTo, WatchLost, LivePoints, ItemInv, TypeOK, NoTask
<1>15. ASSUME NEW w \in Workers, Receive(w) PROVE ItemInv'
  BY <1>15 DEF Receive, InLoop, ReceiveStart, ReceiveDone, ReceiveFailed, ReceiveFatal, CallSet,
     ItemInv, TypeOK, NoTask, Tasks
<1>16. ASSUME NEW w \in Workers, Drained(w) PROVE ItemInv'
  BY <1>16 DEF Drained, InLoop, ItemInv, TypeOK, NoTask, Tasks
<1>17. ASSUME NEW w \in Workers, ExitedEnd(w) PROVE ItemInv'
  BY <1>17 DEF ExitedEnd, Reap, InLoop, ItemInv, TypeOK, NoTask, Tasks
<1>18. ASSUME NEW w \in Workers, ExitedForMemory(w) PROVE ItemInv'
  BY <1>18 DEF ExitedForMemory, Reap, InLoop, ItemInv, TypeOK, NoTask, Tasks
<1>19. ASSUME NEW w \in Workers, ExitedInTask(w) PROVE ItemInv'
  BY <1>19 DEF ExitedInTask, Reap, InLoop, ItemInv, TypeOK, NoTask, Tasks
<1>20. ASSUME NEW w \in Workers, ExitedOutsideTask(w) PROVE ItemInv'
  BY <1>20 DEF ExitedOutsideTask, Reap, InLoop, CallSet, ItemInv, TypeOK, NoTask, Tasks
<1>21. CASE RequestStop
  BY <1>21 DEF RequestStop, ItemInv, TypeOK, NoTask, Tasks
<1>22. CASE PollStop
  BY <1>22 DEF PollStop, AtTop, InLoop, CallSet, ItemInv, TypeOK, NoTask, Tasks
<1>23. CASE Wait
  BY <1>23 DEF Wait, AtTop, InLoop, ReadyHandles, ItemInv, TypeOK, NoTask, Tasks
<1>24. CASE Handle
  BY <1>24 DEF Handle, InLoop, ItemInv, TypeOK, NoTask, Tasks
<1>25. CASE SetReturns
  BY <1>25 DEF SetReturns, ItemInv, TypeOK, NoTask, Tasks
<1>26. CASE Return
  BY <1>26 DEF Return, InLoop, ItemInv, TypeOK, NoTask, Tasks
<1>27. CASE UNCHANGED vars
  BY <1>27 DEF ItemInv, TypeOK, NoTask, Tasks
<1>. QED
  BY <1>1, <1>2, <1>3, <1>4, <1>5, <1>6, <1>7, <1>8, <1>9, <1>10, <1>11, <1>12, <1>13, <1>14,
     <1>15, <1>16, <1>17, <1>18, <1>19, <1>20, <1>21, <1>22, <1>23, <1>24, <1>25, <1>26,
     <1>27 DEF Next, WorkerStep, ParentStep, ExitedStep

\* PipeInv is kept.
LEMMA PipeStep == TypeOK /\ ItemInv /\ PipeInv /\ AnnouncedInv /\ [Next]_vars => PipeInv'
<1>. SUFFICES ASSUME TypeOK, ItemInv, PipeInv, AnnouncedInv, [Next]_vars PROVE PipeInv'
  OBVIOUS
<1>1. ASSUME NEW w \in Workers, Boot(w) PROVE PipeInv'
  BY <1>1 DEF Boot, GoTo, PipeInv, AnnouncedBefore, TypeOK
<1>2. ASSUME NEW w \in Workers, CheckStop(w) PROVE PipeInv'
  BY <1>2 DEF CheckStop, GoTo, PipeInv, AnnouncedBefore, TypeOK
<1>3. ASSUME NEW w \in Workers, LockQueue(w) PROVE PipeInv'
  BY <1>3 DEF LockQueue, GoTo, PipeInv, AnnouncedBefore, TypeOK
<1>4. ASSUME NEW w \in Workers, TakeTask(w) PROVE PipeInv'
  BY <1>4 DEF TakeTask, GoTo, PipeInv, AnnouncedBefore, TypeOK
<1>5. ASSUME NEW w \in Workers, TakeEndMark(w) PROVE PipeInv'
  BY <1>5 DEF TakeEndMark, GoTo, PipeInv, AnnouncedBefore, TypeOK
<1>6. ASSUME NEW w \in Workers, Start(w) PROVE PipeInv'
  <2>1. item[w] \in Tasks /\ working' = working /\ Send(w, Event("start", item[w]))
    BY <1>6 DEF Start, AfterTask, ItemInv, TypeOK, NoTask
  <2>2. Announced(w) = NoTask
    BY <1>6 DEF Start, AnnouncedInv
  <2>. QED
    BY <2>1, <2>2, SendPipe
<1>7. ASSUME NEW w \in Workers, Commit(w) PROVE PipeInv'
  BY <1>7 DEF Commit, GoTo, PipeInv, AnnouncedBefore, TypeOK
<1>8. ASSUME NEW w \in Workers, SendDone(w) PROVE PipeInv'
  <2>1. item[w] \in Tasks /\ working' = working /\ Send(w, Event("done", item[w]))
    BY <1>8 DEF SendDone, AfterTask, ItemInv, TypeOK, NoTask
  <2>2. Announced(w) = item[w]
    BY <1>8 DEF SendDone, AnnouncedInv
  <2>. QED
    BY <2>1, <2>2, SendPipe
<1>9. ASSUME NEW w \in Workers, SendFailed(w) PROVE PipeInv'
  <2>1. item[w] \in Tasks /\ working' = working /\ Send(w, Event("failed", item[w]))
    BY <1>9 DEF SendFailed, AfterTask, ItemInv, TypeOK, NoTask
  <2>2. Announced(w) = item[w]
    BY <1>9 DEF SendFailed, AnnouncedInv
  <2>. QED
    BY <2>1, <2>2, SendPipe
<1>10. ASSUME NEW w \in Workers, AbortSolve(w) PROVE PipeInv'
  BY <1>10 DEF AbortSolve, GoTo, PipeInv, AnnouncedBefore, TypeOK
<1>11. ASSUME NEW w \in Workers, LoseGpu(w) PROVE PipeInv'
  <2>1. item[w] \in Tasks /\ working' = working /\ Send(w, Event("fatal", item[w]))
    BY <1>11 DEF LoseGpu, AfterTask, ItemInv, TypeOK, NoTask
  <2>2. Announced(w) = item[w]
    BY <1>11 DEF LoseGpu, AnnouncedInv
  <2>. QED
    BY <2>1, <2>2, SendPipe
<1>12. ASSUME NEW w \in Workers, Leave(w) PROVE PipeInv'
  BY <1>12 DEF Leave, GoTo, WatchLost, PipeInv, AnnouncedBefore, TypeOK
<1>13. ASSUME NEW w \in Workers, WakeWatch(w) PROVE PipeInv'
  BY <1>13 DEF WakeWatch, PipeInv, AnnouncedBefore, TypeOK
<1>14. ASSUME NEW w \in Workers, Die(w) PROVE PipeInv'
  BY <1>14 DEF Die, GoTo, WatchLost, PipeInv, AnnouncedBefore, TypeOK
<1>15. ASSUME NEW w \in Workers, Receive(w) PROVE PipeInv'
  <2>. SUFFICES ASSUME NEW v \in Workers, NEW i \in 1..Len(pipe'[v])
               PROVE  IF pipe'[v][i].kind = "start"
                      THEN AnnouncedBefore(v, i)' = NoTask
                      ELSE AnnouncedBefore(v, i)' = pipe'[v][i].task
    BY DEF PipeInv
  <2>1. CASE v = w
    <3>1. i + 1 \in 1..Len(pipe[w])
      BY <2>1, <1>15, ReceiveFacts
    <3>. QED
      BY <2>1, <3>1, <1>15, ReceiveFacts DEF PipeInv
  <2>2. CASE v # w
    BY <2>2, <1>15, ReceiveFacts DEF PipeInv
  <2>. QED
    BY <2>1, <2>2
<1>16. ASSUME NEW w \in Workers, Drained(w) PROVE PipeInv'
  BY <1>16 DEF Drained, InLoop, PipeInv, AnnouncedBefore, TypeOK
<1>17. ASSUME NEW w \in Workers, ExitedEnd(w) PROVE PipeInv'
  BY <1>17 DEF ExitedEnd, Reap, InLoop, PipeInv, AnnouncedBefore, TypeOK
<1>18. ASSUME NEW w \in Workers, ExitedForMemory(w) PROVE PipeInv'
  BY <1>18 DEF ExitedForMemory, Reap, InLoop, PipeInv, AnnouncedBefore, TypeOK
<1>19. ASSUME NEW w \in Workers, ExitedInTask(w) PROVE PipeInv'
  BY <1>19 DEF ExitedInTask, Reap, InLoop, PipeInv, AnnouncedBefore, TypeOK
<1>20. ASSUME NEW w \in Workers, ExitedOutsideTask(w) PROVE PipeInv'
  BY <1>20 DEF ExitedOutsideTask, Reap, InLoop, CallSet, PipeInv, AnnouncedBefore, TypeOK
<1>21. CASE RequestStop
  BY <1>21 DEF RequestStop, PipeInv, AnnouncedBefore, TypeOK
<1>22. CASE PollStop
  BY <1>22 DEF PollStop, AtTop, InLoop, CallSet, PipeInv, AnnouncedBefore, TypeOK
<1>23. CASE Wait
  BY <1>23 DEF Wait, AtTop, InLoop, ReadyHandles, PipeInv, AnnouncedBefore, TypeOK
<1>24. CASE Handle
  BY <1>24 DEF Handle, InLoop, PipeInv, AnnouncedBefore, TypeOK
<1>25. CASE SetReturns
  BY <1>25 DEF SetReturns, PipeInv, AnnouncedBefore, TypeOK
<1>26. CASE Return
  BY <1>26 DEF Return, InLoop, PipeInv, AnnouncedBefore, TypeOK
<1>27. CASE UNCHANGED vars
  BY <1>27 DEF PipeInv, AnnouncedBefore, TypeOK
<1>. QED
  BY <1>1, <1>2, <1>3, <1>4, <1>5, <1>6, <1>7, <1>8, <1>9, <1>10, <1>11, <1>12, <1>13, <1>14,
     <1>15, <1>16, <1>17, <1>18, <1>19, <1>20, <1>21, <1>22, <1>23, <1>24, <1>25, <1>26,
     <1>27 DEF Next, WorkerStep, ParentStep, ExitedStep

\* AnnouncedInv is kept.
LEMMA AnnouncedStep == TypeOK /\ ItemInv /\ PipeInv /\ AnnouncedInv /\ [Next]_vars => AnnouncedInv'
<1>. SUFFICES ASSUME TypeOK, ItemInv, PipeInv, AnnouncedInv, [Next]_vars PROVE AnnouncedInv'
  OBVIOUS
<1>1. ASSUME NEW w \in Workers, Boot(w) PROVE AnnouncedInv'
  BY <1>1 DEF Boot, GoTo, AnnouncedInv, Announced, TypeOK
<1>2. ASSUME NEW w \in Workers, CheckStop(w) PROVE AnnouncedInv'
  BY <1>2 DEF CheckStop, GoTo, AnnouncedInv, Announced, TypeOK
<1>3. ASSUME NEW w \in Workers, LockQueue(w) PROVE AnnouncedInv'
  BY <1>3 DEF LockQueue, GoTo, AnnouncedInv, Announced, TypeOK
<1>4. ASSUME NEW w \in Workers, TakeTask(w) PROVE AnnouncedInv'
  BY <1>4 DEF TakeTask, GoTo, AnnouncedInv, Announced, TypeOK
<1>5. ASSUME NEW w \in Workers, TakeEndMark(w) PROVE AnnouncedInv'
  BY <1>5 DEF TakeEndMark, GoTo, AnnouncedInv, Announced, TypeOK
<1>6. ASSUME NEW w \in Workers, Start(w) PROVE AnnouncedInv'
  <2>1. item[w] \in Tasks /\ working' = working /\ Send(w, Event("start", item[w]))
    BY <1>6 DEF Start, AfterTask, ItemInv, TypeOK, NoTask
  <2>2. /\ Announced(w)' = item[w]
        /\ \A v \in Workers \ {w} : Announced(v)' = Announced(v)
    BY <2>1, SendFacts
  <2>. QED
    BY <1>6, <2>2 DEF Start, GoTo, Send, Event, AnnouncedInv, TypeOK, NoTask
<1>7. ASSUME NEW w \in Workers, Commit(w) PROVE AnnouncedInv'
  BY <1>7 DEF Commit, GoTo, AnnouncedInv, Announced, TypeOK
<1>8. ASSUME NEW w \in Workers, SendDone(w) PROVE AnnouncedInv'
  <2>1. item[w] \in Tasks /\ working' = working /\ Send(w, Event("done", item[w]))
    BY <1>8 DEF SendDone, AfterTask, ItemInv, TypeOK, NoTask
  <2>2. /\ Announced(w)' = NoTask
        /\ \A v \in Workers \ {w} : Announced(v)' = Announced(v)
    BY <2>1, SendFacts
  <2>. QED
    BY <1>8, <2>2 DEF SendDone, Send, Event, AfterTask, GoTo, AnnouncedInv, TypeOK, NoTask
<1>9. ASSUME NEW w \in Workers, SendFailed(w) PROVE AnnouncedInv'
  <2>1. item[w] \in Tasks /\ working' = working /\ Send(w, Event("failed", item[w]))
    BY <1>9 DEF SendFailed, AfterTask, ItemInv, TypeOK, NoTask
  <2>2. /\ Announced(w)' = NoTask
        /\ \A v \in Workers \ {w} : Announced(v)' = Announced(v)
    BY <2>1, SendFacts
  <2>. QED
    BY <1>9, <2>2 DEF SendFailed, Send, Event, AfterTask, GoTo, AnnouncedInv, TypeOK, NoTask
<1>10. ASSUME NEW w \in Workers, AbortSolve(w) PROVE AnnouncedInv'
  BY <1>10 DEF AbortSolve, GoTo, AnnouncedInv, Announced, TypeOK
<1>11. ASSUME NEW w \in Workers, LoseGpu(w) PROVE AnnouncedInv'
  <2>1. item[w] \in Tasks /\ working' = working /\ Send(w, Event("fatal", item[w]))
    BY <1>11 DEF LoseGpu, AfterTask, ItemInv, TypeOK, NoTask
  <2>2. /\ Announced(w)' = NoTask
        /\ \A v \in Workers \ {w} : Announced(v)' = Announced(v)
    BY <2>1, SendFacts
  <2>3. pc' = [pc EXCEPT ![w] = "leave0"] /\ item' = [item EXCEPT ![w] = NoTask] /\ stop' = stop
    BY <1>11 DEF LoseGpu, GoTo, parentVars
  <2>4. pc'[w] = "leave0" /\ \A v \in Workers \ {w} : pc'[v] = pc[v] /\ item'[v] = item[v]
    BY <2>3 DEF TypeOK
  <2>5. ASSUME NEW v \in Workers \ {w}
        PROVE  /\ pc'[v] \in {"solve", "commit"} => Announced(v)' = item'[v]
               /\ pc'[v] \in {"boot", "check", "get", "read", "taken", "leave3", "exit3"} => Announced(v)' = NoTask
               /\ pc'[v] \in {"leave0", "exit0"} => Announced(v)' = NoTask \/ stop' = "set"
    BY <2>2, <2>3, <2>4 DEF AnnouncedInv
  <2>. QED
    BY <2>2, <2>4, <2>5 DEF AnnouncedInv
<1>12. ASSUME NEW w \in Workers, Leave(w) PROVE AnnouncedInv'
  BY <1>12 DEF Leave, GoTo, WatchLost, AnnouncedInv, Announced, TypeOK
<1>13. ASSUME NEW w \in Workers, WakeWatch(w) PROVE AnnouncedInv'
  BY <1>13 DEF WakeWatch, AnnouncedInv, Announced, TypeOK
<1>14. ASSUME NEW w \in Workers, Die(w) PROVE AnnouncedInv'
  BY <1>14 DEF Die, GoTo, WatchLost, AnnouncedInv, Announced, TypeOK
<1>15. ASSUME NEW w \in Workers, Receive(w) PROVE AnnouncedInv'
  <2>1. UNCHANGED <<pc, item>> /\ (stop = "set" => stop' = "set")
    BY <1>15 DEF Receive, ReceiveStart, ReceiveDone, ReceiveFailed, ReceiveFatal, CallSet, InLoop
  <2>2. \A v \in Workers : Announced(v)' = Announced(v)
    BY <1>15, ReceiveFacts
  <2>. QED
    BY <2>1, <2>2 DEF AnnouncedInv
<1>16. ASSUME NEW w \in Workers, Drained(w) PROVE AnnouncedInv'
  BY <1>16 DEF Drained, InLoop, AnnouncedInv, Announced, TypeOK
<1>17. ASSUME NEW w \in Workers, ExitedEnd(w) PROVE AnnouncedInv'
  BY <1>17 DEF ExitedEnd, Reap, InLoop, AnnouncedInv, Announced, TypeOK
<1>18. ASSUME NEW w \in Workers, ExitedForMemory(w) PROVE AnnouncedInv'
  BY <1>18 DEF ExitedForMemory, Reap, InLoop, AnnouncedInv, Announced, TypeOK
<1>19. ASSUME NEW w \in Workers, ExitedInTask(w) PROVE AnnouncedInv'
  BY <1>19 DEF ExitedInTask, Reap, InLoop, AnnouncedInv, Announced, TypeOK
<1>20. ASSUME NEW w \in Workers, ExitedOutsideTask(w) PROVE AnnouncedInv'
  BY <1>20 DEF ExitedOutsideTask, Reap, InLoop, CallSet, AnnouncedInv, Announced, TypeOK
<1>21. CASE RequestStop
  BY <1>21 DEF RequestStop, AnnouncedInv, Announced, TypeOK
<1>22. CASE PollStop
  BY <1>22 DEF PollStop, AtTop, InLoop, CallSet, AnnouncedInv, Announced, TypeOK
<1>23. CASE Wait
  BY <1>23 DEF Wait, AtTop, InLoop, ReadyHandles, AnnouncedInv, Announced, TypeOK
<1>24. CASE Handle
  BY <1>24 DEF Handle, InLoop, AnnouncedInv, Announced, TypeOK
<1>25. CASE SetReturns
  BY <1>25 DEF SetReturns, AnnouncedInv, Announced, TypeOK
<1>26. CASE Return
  BY <1>26 DEF Return, InLoop, AnnouncedInv, Announced, TypeOK
<1>27. CASE UNCHANGED vars
  BY <1>27 DEF AnnouncedInv, Announced, TypeOK
<1>. QED
  BY <1>1, <1>2, <1>3, <1>4, <1>5, <1>6, <1>7, <1>8, <1>9, <1>10, <1>11, <1>12, <1>13, <1>14,
     <1>15, <1>16, <1>17, <1>18, <1>19, <1>20, <1>21, <1>22, <1>23, <1>24, <1>25, <1>26,
     <1>27 DEF Next, WorkerStep, ParentStep, ExitedStep

\* A sent event keeps what is said to be stored stored.
LEMMA SendCommit ==
  ASSUME TypeOK, CommitInv, NEW w \in Workers, NEW k \in {"start", "done", "failed", "fatal"},
         item[w] \in Tasks, Send(w, Event(k, item[w])), working' = working,
         k = "done" => item[w] \in committed,
         committed' = committed, done' = done,
         \A v \in Workers : pc'[v] = "commit" => pc[v] = "commit" /\ item'[v] = item[v]
  PROVE  CommitInv'
<1>1. ASSUME NEW v \in Workers, NEW i \in 1..Len(pipe'[v]), pipe'[v][i].kind = "done"
      PROVE  pipe'[v][i].task \in committed
  <2>1. CASE v # w
    BY <2>1, <1>1, SendFacts DEF CommitInv
  <2>2. CASE v = w /\ i \in 1..Len(pipe[w])
    BY <2>2, <1>1, SendFacts DEF CommitInv
  <2>3. CASE v = w /\ i = Len(pipe[w]) + 1
    <3>1. pipe'[v][i] = Event(k, item[w])
      BY <2>3, SendFacts
    <3>. QED
      BY <3>1, <1>1 DEF Event
  <2>. QED
    BY <2>1, <2>2, <2>3, SendFacts
<1>. QED
  BY <1>1 DEF CommitInv, DoneIsCommitted

\* CommitInv is kept.
LEMMA CommitStep == TypeOK /\ ItemInv /\ PipeInv /\ CommitInv /\ [Next]_vars => CommitInv'
<1>. SUFFICES ASSUME TypeOK, ItemInv, PipeInv, CommitInv, [Next]_vars PROVE CommitInv'
  OBVIOUS
<1>1. ASSUME NEW w \in Workers, Boot(w) PROVE CommitInv'
  BY <1>1 DEF Boot, GoTo, CommitInv, DoneIsCommitted, TypeOK
<1>2. ASSUME NEW w \in Workers, CheckStop(w) PROVE CommitInv'
  BY <1>2 DEF CheckStop, GoTo, CommitInv, DoneIsCommitted, TypeOK
<1>3. ASSUME NEW w \in Workers, LockQueue(w) PROVE CommitInv'
  BY <1>3 DEF LockQueue, GoTo, CommitInv, DoneIsCommitted, TypeOK
<1>4. ASSUME NEW w \in Workers, TakeTask(w) PROVE CommitInv'
  BY <1>4 DEF TakeTask, GoTo, CommitInv, DoneIsCommitted, TypeOK
<1>5. ASSUME NEW w \in Workers, TakeEndMark(w) PROVE CommitInv'
  BY <1>5 DEF TakeEndMark, GoTo, CommitInv, DoneIsCommitted, TypeOK
<1>6. ASSUME NEW w \in Workers, Start(w) PROVE CommitInv'
  <2>1. item[w] \in Tasks /\ working' = working /\ Send(w, Event("start", item[w]))
    BY <1>6 DEF Start, AfterTask, ItemInv, TypeOK, NoTask
  <2>2. /\ "start" = "done" => item[w] \in committed
        /\ committed' = committed /\ done' = done
        /\ \A v \in Workers : pc'[v] = "commit" => pc[v] = "commit" /\ item'[v] = item[v]
    BY <1>6 DEF Start, GoTo, Send, Event, CommitInv, TypeOK
  <2>. QED
    BY <2>1, <2>2, SendCommit
<1>7. ASSUME NEW w \in Workers, Commit(w) PROVE CommitInv'
  BY <1>7 DEF Commit, GoTo, CommitInv, DoneIsCommitted, TypeOK
<1>8. ASSUME NEW w \in Workers, SendDone(w) PROVE CommitInv'
  <2>1. item[w] \in Tasks /\ working' = working /\ Send(w, Event("done", item[w]))
    BY <1>8 DEF SendDone, AfterTask, ItemInv, TypeOK, NoTask
  <2>2. /\ "done" = "done" => item[w] \in committed
        /\ committed' = committed /\ done' = done
        /\ \A v \in Workers : pc'[v] = "commit" => pc[v] = "commit" /\ item'[v] = item[v]
    BY <1>8 DEF SendDone, Send, Event, AfterTask, GoTo, CommitInv, TypeOK
  <2>. QED
    BY <2>1, <2>2, SendCommit
<1>9. ASSUME NEW w \in Workers, SendFailed(w) PROVE CommitInv'
  <2>1. item[w] \in Tasks /\ working' = working /\ Send(w, Event("failed", item[w]))
    BY <1>9 DEF SendFailed, AfterTask, ItemInv, TypeOK, NoTask
  <2>2. /\ "failed" = "done" => item[w] \in committed
        /\ committed' = committed /\ done' = done
        /\ \A v \in Workers : pc'[v] = "commit" => pc[v] = "commit" /\ item'[v] = item[v]
    BY <1>9 DEF SendFailed, Send, Event, AfterTask, GoTo, CommitInv, TypeOK
  <2>. QED
    BY <2>1, <2>2, SendCommit
<1>10. ASSUME NEW w \in Workers, AbortSolve(w) PROVE CommitInv'
  BY <1>10 DEF AbortSolve, GoTo, CommitInv, DoneIsCommitted, TypeOK
<1>11. ASSUME NEW w \in Workers, LoseGpu(w) PROVE CommitInv'
  <2>1. item[w] \in Tasks /\ working' = working /\ Send(w, Event("fatal", item[w]))
    BY <1>11 DEF LoseGpu, AfterTask, ItemInv, TypeOK, NoTask
  <2>2. /\ "fatal" = "done" => item[w] \in committed
        /\ committed' = committed /\ done' = done
        /\ \A v \in Workers : pc'[v] = "commit" => pc[v] = "commit" /\ item'[v] = item[v]
    BY <1>11 DEF LoseGpu, Send, Event, GoTo, CommitInv, TypeOK
  <2>. QED
    BY <2>1, <2>2, SendCommit
<1>12. ASSUME NEW w \in Workers, Leave(w) PROVE CommitInv'
  BY <1>12 DEF Leave, GoTo, WatchLost, CommitInv, DoneIsCommitted, TypeOK
<1>13. ASSUME NEW w \in Workers, WakeWatch(w) PROVE CommitInv'
  BY <1>13 DEF WakeWatch, CommitInv, DoneIsCommitted, TypeOK
<1>14. ASSUME NEW w \in Workers, Die(w) PROVE CommitInv'
  BY <1>14 DEF Die, GoTo, WatchLost, CommitInv, DoneIsCommitted, TypeOK
<1>15. ASSUME NEW w \in Workers, Receive(w) PROVE CommitInv'
  <2>1. done' \subseteq committed
    <3>1. CASE Head(pipe[w]).kind = "done"
      <4>1. Head(pipe[w]) = pipe[w][1] /\ 1 \in 1..Len(pipe[w]) /\ working[w] = Head(pipe[w]).task
        BY <3>1, <1>15, ReceiveFacts, HeadEvent DEF Receive
      <4>. QED
        BY <3>1, <4>1, <1>15 DEF Receive, ReceiveStart, ReceiveDone, ReceiveFailed,
           ReceiveFatal, CommitInv, DoneIsCommitted
    <3>2. CASE Head(pipe[w]).kind # "done"
      BY <3>2, <1>15 DEF Receive, ReceiveStart, ReceiveDone, ReceiveFailed, ReceiveFatal,
         CommitInv, DoneIsCommitted
    <3>. QED
      BY <3>1, <3>2
  <2>2. ASSUME NEW v \in Workers, NEW i \in 1..Len(pipe'[v]), pipe'[v][i].kind = "done"
        PROVE  pipe'[v][i].task \in committed
    <3>1. CASE v = w
      <4>1. i + 1 \in 1..Len(pipe[w]) /\ pipe'[w][i] = pipe[w][i + 1]
        BY <3>1, <2>2, <1>15, ReceiveFacts
      <4>. QED
        BY <3>1, <4>1, <2>2 DEF CommitInv
    <3>2. CASE v # w
      BY <3>2, <2>2, <1>15, ReceiveFacts DEF CommitInv
    <3>. QED
      BY <3>1, <3>2
  <2>. QED
    BY <2>1, <2>2, <1>15 DEF Receive, CommitInv, DoneIsCommitted
<1>16. ASSUME NEW w \in Workers, Drained(w) PROVE CommitInv'
  BY <1>16 DEF Drained, InLoop, CommitInv, DoneIsCommitted, TypeOK
<1>17. ASSUME NEW w \in Workers, ExitedEnd(w) PROVE CommitInv'
  BY <1>17 DEF ExitedEnd, Reap, InLoop, CommitInv, DoneIsCommitted, TypeOK
<1>18. ASSUME NEW w \in Workers, ExitedForMemory(w) PROVE CommitInv'
  BY <1>18 DEF ExitedForMemory, Reap, InLoop, CommitInv, DoneIsCommitted, TypeOK
<1>19. ASSUME NEW w \in Workers, ExitedInTask(w) PROVE CommitInv'
  BY <1>19 DEF ExitedInTask, Reap, InLoop, CommitInv, DoneIsCommitted, TypeOK
<1>20. ASSUME NEW w \in Workers, ExitedOutsideTask(w) PROVE CommitInv'
  BY <1>20 DEF ExitedOutsideTask, Reap, InLoop, CallSet, CommitInv, DoneIsCommitted, TypeOK
<1>21. CASE RequestStop
  BY <1>21 DEF RequestStop, CommitInv, DoneIsCommitted, TypeOK
<1>22. CASE PollStop
  BY <1>22 DEF PollStop, AtTop, InLoop, CallSet, CommitInv, DoneIsCommitted, TypeOK
<1>23. CASE Wait
  BY <1>23 DEF Wait, AtTop, InLoop, ReadyHandles, CommitInv, DoneIsCommitted, TypeOK
<1>24. CASE Handle
  BY <1>24 DEF Handle, InLoop, CommitInv, DoneIsCommitted, TypeOK
<1>25. CASE SetReturns
  BY <1>25 DEF SetReturns, CommitInv, DoneIsCommitted, TypeOK
<1>26. CASE Return
  BY <1>26 DEF Return, InLoop, CommitInv, DoneIsCommitted, TypeOK
<1>27. CASE UNCHANGED vars
  BY <1>27 DEF CommitInv, DoneIsCommitted, TypeOK
<1>. QED
  BY <1>1, <1>2, <1>3, <1>4, <1>5, <1>6, <1>7, <1>8, <1>9, <1>10, <1>11, <1>12, <1>13, <1>14,
     <1>15, <1>16, <1>17, <1>18, <1>19, <1>20, <1>21, <1>22, <1>23, <1>24, <1>25, <1>26,
     <1>27 DEF Next, WorkerStep, ParentStep, ExitedStep

\* Events are about tasks.
LEMMA PipeTasks ==
  ASSUME TypeOK, NEW w \in Workers, NEW i \in 1..Len(pipe[w])
  PROVE  pipe[w][i].task \in Tasks
<1>1. pipe[w] \in Seq(Events)
  BY DEF TypeOK
<1>2. pipe[w][i] \in Events
  BY <1>1, ElementOfSeq
<1>. QED
  BY <1>2 DEF Events

\* A sent event is about the task in hand, later than every task already ended.
LEMMA SendOrder ==
  ASSUME TypeOK, OrderInv, NEW w \in Workers, NEW k \in {"start", "done", "failed", "fatal"},
         item[w] \in Tasks, Send(w, Event(k, item[w])), working' = working,
         item' \in [Workers -> Tasks \cup {NoTask}],
         \A v \in Workers \ {w} : item'[v] = item[v],
         item'[w] = IF k = "start" THEN item[w] ELSE NoTask
  PROVE  OrderInv'
<1>. SUFFICES ASSUME NEW v \in Workers, NEW i \in 1..Len(pipe'[v]), pipe'[v][i].kind # "start"
              PROVE  /\ \A j \in (i + 1)..Len(pipe'[v]) : pipe'[v][j].task > pipe'[v][i].task
                     /\ item'[v] # NoTask => item'[v] > pipe'[v][i].task
  BY DEF OrderInv
<1>1. CASE v # w
  BY <1>1, SendFacts DEF OrderInv
<1>2. CASE v = w /\ i \in 1..Len(pipe[w])
  <2>1. pipe'[w][i] = pipe[w][i] /\ item[w] # NoTask
    BY <1>2, SendFacts DEF Tasks, NoTask
  <2>2. item[w] > pipe[w][i].task
    BY <2>1, <1>2 DEF OrderInv
  <2>3. ASSUME NEW j \in (i + 1)..Len(pipe'[w]) PROVE pipe'[w][j].task > pipe'[w][i].task
    <3>1. CASE j \in 1..Len(pipe[w])
      <4>1. pipe'[w][j] = pipe[w][j]
        BY <3>1, SendFacts
      <4>2. pipe[w][i].kind # "start" /\ j \in (i + 1)..Len(pipe[w])
        BY <3>1, <2>1, <1>2
      <4>3. pipe[w][j].task > pipe[w][i].task
        BY <4>2, <1>2 DEF OrderInv
      <4>. QED
        BY <4>1, <4>3, <2>1
    <3>2. CASE j = Len(pipe[w]) + 1
      <4>1. pipe'[w][j] = Event(k, item[w])
        BY <3>2, SendFacts
      <4>. QED
        BY <4>1, <2>1, <2>2 DEF Event
    <3>. QED
      BY <3>1, <3>2, SendFacts
  <2>. QED
    BY <1>2, <2>1, <2>2, <2>3
<1>3. CASE v = w /\ i = Len(pipe[w]) + 1
  <2>0. pipe'[v][i] = Event(k, item[w])
    BY <1>3, SendFacts
  <2>1. k # "start" /\ item'[w] = NoTask
    BY <1>3, <2>0 DEF Event
  <2>2. (i + 1)..Len(pipe'[w]) = {}
    BY <1>3, SendFacts
  <2>. QED
    BY <1>3, <2>1, <2>2
<1>. QED
  BY <1>1, <1>2, <1>3, SendFacts

\* OrderInv is kept: tasks are taken in increasing order.
LEMMA OrderStep ==
  TypeOK /\ ItemInv /\ PipeInv /\ OwnInv /\ OrderInv /\ [Next]_vars => OrderInv'
<1>. SUFFICES ASSUME TypeOK, ItemInv, PipeInv, OwnInv, OrderInv, [Next]_vars PROVE OrderInv'
  OBVIOUS
<1>1. ASSUME NEW w \in Workers, Boot(w) PROVE OrderInv'
  BY <1>1 DEF Boot, GoTo, OrderInv, TypeOK
<1>2. ASSUME NEW w \in Workers, CheckStop(w) PROVE OrderInv'
  BY <1>2 DEF CheckStop, GoTo, OrderInv, TypeOK
<1>3. ASSUME NEW w \in Workers, LockQueue(w) PROVE OrderInv'
  BY <1>3 DEF LockQueue, GoTo, OrderInv, TypeOK
<1>4. ASSUME NEW w \in Workers, TakeTask(w) PROVE OrderInv'
  <2>1. /\ pipe' = pipe /\ item'[w] = head
        /\ \A v \in Workers \ {w} : item'[v] = item[v]
    BY <1>4 DEF TakeTask, TypeOK
  <2>2. \A i \in 1..Len(pipe[w]) : pipe[w][i].task < head
    BY PipeTasks DEF OwnInv, Held
  <2>3. \A i \in 1..Len(pipe[w]) : pipe[w][i].task \in Nat
    BY PipeTasks DEF Tasks
  <2>4. head \in Nat
    BY EndMarksType, NAssumption DEF TypeOK
  <2>. QED
    BY <2>1, <2>2, <2>3, <2>4 DEF OrderInv
<1>5. ASSUME NEW w \in Workers, TakeEndMark(w) PROVE OrderInv'
  BY <1>5 DEF TakeEndMark, GoTo, OrderInv, TypeOK
<1>6. ASSUME NEW w \in Workers, Start(w) PROVE OrderInv'
  <2>1. item[w] \in Tasks /\ working' = working /\ Send(w, Event("start", item[w]))
    BY <1>6 DEF Start, AfterTask, ItemInv, TypeOK, NoTask
  <2>2. /\ item' \in [Workers -> Tasks \cup {NoTask}]
        /\ \A v \in Workers \ {w} : item'[v] = item[v]
        /\ item'[w] = item[w]
    BY <1>6 DEF Start, GoTo, Send, Event, TypeOK
  <2>. QED
    BY <2>1, <2>2, SendOrder
<1>7. ASSUME NEW w \in Workers, Commit(w) PROVE OrderInv'
  BY <1>7 DEF Commit, GoTo, OrderInv, TypeOK
<1>8. ASSUME NEW w \in Workers, SendDone(w) PROVE OrderInv'
  <2>1. item[w] \in Tasks /\ working' = working /\ Send(w, Event("done", item[w]))
    BY <1>8 DEF SendDone, AfterTask, ItemInv, TypeOK, NoTask
  <2>2. /\ item' \in [Workers -> Tasks \cup {NoTask}]
        /\ \A v \in Workers \ {w} : item'[v] = item[v]
        /\ item'[w] = NoTask
    BY <1>8 DEF SendDone, Send, Event, AfterTask, GoTo, TypeOK
  <2>. QED
    BY <2>1, <2>2, SendOrder
<1>9. ASSUME NEW w \in Workers, SendFailed(w) PROVE OrderInv'
  <2>1. item[w] \in Tasks /\ working' = working /\ Send(w, Event("failed", item[w]))
    BY <1>9 DEF SendFailed, AfterTask, ItemInv, TypeOK, NoTask
  <2>2. /\ item' \in [Workers -> Tasks \cup {NoTask}]
        /\ \A v \in Workers \ {w} : item'[v] = item[v]
        /\ item'[w] = NoTask
    BY <1>9 DEF SendFailed, Send, Event, AfterTask, GoTo, TypeOK
  <2>. QED
    BY <2>1, <2>2, SendOrder
<1>10. ASSUME NEW w \in Workers, AbortSolve(w) PROVE OrderInv'
  BY <1>10 DEF AbortSolve, GoTo, OrderInv, TypeOK
<1>11. ASSUME NEW w \in Workers, LoseGpu(w) PROVE OrderInv'
  <2>1. item[w] \in Tasks /\ working' = working /\ Send(w, Event("fatal", item[w]))
    BY <1>11 DEF LoseGpu, AfterTask, ItemInv, TypeOK, NoTask
  <2>2. /\ item' \in [Workers -> Tasks \cup {NoTask}]
        /\ \A v \in Workers \ {w} : item'[v] = item[v]
        /\ item'[w] = NoTask
    BY <1>11 DEF LoseGpu, Send, Event, GoTo, TypeOK
  <2>. QED
    BY <2>1, <2>2, SendOrder
<1>12. ASSUME NEW w \in Workers, Leave(w) PROVE OrderInv'
  BY <1>12 DEF Leave, GoTo, WatchLost, OrderInv, TypeOK
<1>13. ASSUME NEW w \in Workers, WakeWatch(w) PROVE OrderInv'
  BY <1>13 DEF WakeWatch, OrderInv, TypeOK
<1>14. ASSUME NEW w \in Workers, Die(w) PROVE OrderInv'
  BY <1>14 DEF Die, GoTo, WatchLost, OrderInv, TypeOK
<1>15. ASSUME NEW w \in Workers, Receive(w) PROVE OrderInv'
  <2>. SUFFICES ASSUME NEW v \in Workers, NEW i \in 1..Len(pipe'[v]), pipe'[v][i].kind # "start"
               PROVE  /\ \A j \in (i + 1)..Len(pipe'[v]) : pipe'[v][j].task > pipe'[v][i].task
                      /\ item[v] # NoTask => item[v] > pipe'[v][i].task
    BY <1>15 DEF OrderInv, Receive
  <2>1. CASE v = w
    <3>1. /\ i + 1 \in 1..Len(pipe[w]) /\ pipe'[w][i] = pipe[w][i + 1]
          /\ \A j \in (i + 1)..Len(pipe'[w]) : j + 1 \in (i + 2)..Len(pipe[w]) /\ pipe'[w][j] = pipe[w][j + 1]
      BY <2>1, <1>15, ReceiveFacts
    <3>2. /\ \A j \in (i + 2)..Len(pipe[w]) : pipe[w][j].task > pipe[w][i + 1].task
          /\ item[w] # NoTask => item[w] > pipe[w][i + 1].task
      <4>1. pipe[w][i + 1].kind # "start" /\ (i + 1) + 1 = i + 2
        BY <2>1, <3>1
      <4>. QED
        BY <3>1, <4>1 DEF OrderInv
    <3>. QED
      BY <2>1, <3>1, <3>2
  <2>2. CASE v # w
    <3>1. v \in Workers \ {w}
      BY <2>2
    <3>2. pipe'[v] = pipe[v]
      BY <3>1, <1>15, ReceiveFacts
    <3>3. /\ \A j \in (i + 1)..Len(pipe[v]) : pipe[v][j].task > pipe[v][i].task
          /\ item[v] # NoTask => item[v] > pipe[v][i].task
      BY <3>2 DEF OrderInv
    <3>. QED
      BY <3>2, <3>3
  <2>. QED
    BY <2>1, <2>2
<1>16. ASSUME NEW w \in Workers, Drained(w) PROVE OrderInv'
  BY <1>16 DEF Drained, InLoop, OrderInv, TypeOK
<1>17. ASSUME NEW w \in Workers, ExitedEnd(w) PROVE OrderInv'
  BY <1>17 DEF ExitedEnd, Reap, InLoop, OrderInv, TypeOK
<1>18. ASSUME NEW w \in Workers, ExitedForMemory(w) PROVE OrderInv'
  BY <1>18 DEF ExitedForMemory, Reap, InLoop, OrderInv, TypeOK
<1>19. ASSUME NEW w \in Workers, ExitedInTask(w) PROVE OrderInv'
  BY <1>19 DEF ExitedInTask, Reap, InLoop, OrderInv, TypeOK
<1>20. ASSUME NEW w \in Workers, ExitedOutsideTask(w) PROVE OrderInv'
  BY <1>20 DEF ExitedOutsideTask, Reap, InLoop, CallSet, OrderInv, TypeOK
<1>21. CASE RequestStop
  BY <1>21 DEF RequestStop, OrderInv, TypeOK
<1>22. CASE PollStop
  BY <1>22 DEF PollStop, AtTop, InLoop, CallSet, OrderInv, TypeOK
<1>23. CASE Wait
  BY <1>23 DEF Wait, AtTop, InLoop, ReadyHandles, OrderInv, TypeOK
<1>24. CASE Handle
  BY <1>24 DEF Handle, InLoop, OrderInv, TypeOK
<1>25. CASE SetReturns
  BY <1>25 DEF SetReturns, OrderInv, TypeOK
<1>26. CASE Return
  BY <1>26 DEF Return, InLoop, OrderInv, TypeOK
<1>27. CASE UNCHANGED vars
  BY <1>27 DEF OrderInv, TypeOK
<1>. QED
  BY <1>1, <1>2, <1>3, <1>4, <1>5, <1>6, <1>7, <1>8, <1>9, <1>10, <1>11, <1>12, <1>13, <1>14,
     <1>15, <1>16, <1>17, <1>18, <1>19, <1>20, <1>21, <1>22, <1>23, <1>24, <1>25, <1>26,
     <1>27 DEF Next, WorkerStep, ParentStep, ExitedStep

-----------------------------------------------------------------------------
\* Sending about the task in hand changes nobody's hold on a task.
LEMMA SendHeld ==
  ASSUME TypeOK, NEW w \in Workers, NEW k \in {"start", "done", "failed", "fatal"},
         item[w] \in Tasks, Send(w, Event(k, item[w])), working' = working,
         item'[w] \in {item[w], NoTask},
         \A v \in Workers \ {w} : item'[v] = item[v]
  PROVE  \A v \in Workers, t \in Tasks : Held(v, t)' <=> Held(v, t)
<1>1. ASSUME NEW v \in Workers \ {w}, NEW t \in Tasks PROVE Held(v, t)' <=> Held(v, t)
  BY SendFacts DEF Held
<1>2. ASSUME NEW t \in Tasks PROVE Held(w, t)' <=> Held(w, t)
  <2>1. /\ Len(pipe[w]) \in Nat /\ Len(pipe'[w]) = Len(pipe[w]) + 1
        /\ pipe'[w][Len(pipe[w]) + 1].task = item[w]
        /\ \A i \in 1..Len(pipe[w]) : pipe'[w][i] = pipe[w][i]
    <3>1. pipe'[w][Len(pipe[w]) + 1] = Event(k, item[w])
      BY SendFacts
    <3>2. pipe'[w][Len(pipe[w]) + 1].task = item[w]
      BY <3>1 DEF Event
    <3>. QED
      BY <3>2, SendFacts
  <2>2. 1..Len(pipe'[w]) = (1..Len(pipe[w])) \cup {Len(pipe[w]) + 1}
    BY <2>1
  <2>3. item'[w] = t => item[w] = t
    BY DEF Tasks, NoTask
  <2>. QED
    BY <2>1, <2>2, <2>3 DEF Held
<1>. QED
  BY <1>1, <1>2

\* Nobody's hold on a task grows and nothing is reported.
LEMMA OwnShrink ==
  ASSUME OwnInv, head \in Int, head' \in Int, head' >= head, done' = done, failed' = failed,
         done \cup failed \subseteq Tasks,
         \A v \in Workers, t \in Tasks : Held(v, t)' => Held(v, t)
  PROVE  OwnInv'
BY DEF OwnInv, Tasks

\* The one holder of a task reports it and lets it go.
LEMMA OwnReport ==
  ASSUME OwnInv, head' = head, NEW w \in Workers, NEW r \in Tasks,
         Held(w, r), ~Held(w, r)',
         done' \cup failed' = done \cup failed \cup {r},
         \A v \in Workers, t \in Tasks : Held(v, t)' => Held(v, t)
  PROVE  OwnInv'
<1>1. \A v \in Workers : ~Held(v, r)'
  BY DEF OwnInv
<1>2. \A v \in Workers, t \in Tasks : Held(v, t)' => t < head' /\ t \notin done' \cup failed'
  BY <1>1 DEF OwnInv
<1>3. \A t \in done' \cup failed' : t < head'
  BY DEF OwnInv
<1>4. \A v, u \in Workers, t \in Tasks : Held(v, t)' /\ Held(u, t)' => v = u
  BY DEF OwnInv
<1>. QED
  BY <1>2, <1>3, <1>4 DEF OwnInv

\* An event received moves the hold into `working`, or ends it.
LEMMA ReceiveHeld ==
  ASSUME TypeOK, ItemInv, PipeInv, AnnouncedInv, OrderInv, NEW w \in Workers, Receive(w)
  PROVE  /\ \A v \in Workers, t \in Tasks : Held(v, t)' => Held(v, t)
         /\ \A v \in Workers, t \in Tasks : Held(v, t) => Held(v, t)' \/ (v = w /\ t = working[w])
         /\ Head(pipe[w]).kind = "start" => \A t \in Tasks : Held(w, t)' <=> Held(w, t)
         /\ Head(pipe[w]).kind # "start" => Held(w, working[w])
                                          /\ \A r \in {working[w]} : ~Held(w, r)'
<1>. DEFINE e == Head(pipe[w])
<1>1. /\ Len(pipe[w]) \in Nat \ {0} /\ Len(pipe'[w]) = Len(pipe[w]) - 1
      /\ e = pipe[w][1] /\ item' = item
      /\ working'[w] = IF e.kind = "start" THEN e.task ELSE NoTask
  BY ReceiveFacts DEF Receive
<1>2. \A i \in 1..Len(pipe'[w]) : i + 1 \in 1..Len(pipe[w]) /\ pipe'[w][i] = pipe[w][i + 1]
  BY ReceiveFacts
<1>3. \A i \in 1..Len(pipe[w]) : i = 1 \/ (i - 1 \in 1..Len(pipe'[w]) /\ pipe'[w][i - 1] = pipe[w][i])
  BY <1>1, <1>2
<1>4. /\ e.kind = "start" => working[w] = NoTask
      /\ e.kind # "start" => working[w] = e.task /\ working[w] \in Tasks
  BY HeadEvent DEF Receive
<1>5. \A v \in Workers \ {w}, t \in Tasks : Held(v, t)' <=> Held(v, t)
  BY <1>1, ReceiveFacts DEF Held
<1>6. ASSUME NEW t \in Tasks, Held(w, t)' PROVE Held(w, t)
  <2>1. CASE item'[w] = t
    BY <2>1, <1>1 DEF Held
  <2>2. CASE working'[w] = t
    <3>1. e.kind = "start" /\ pipe[w][1].task = t
      BY <2>2, <1>1 DEF Tasks, NoTask
    <3>2. 1 \in 1..Len(pipe[w])
      BY <1>1
    <3>. QED
      BY <3>1, <3>2 DEF Held
  <2>3. CASE \E i \in 1..Len(pipe'[w]) : pipe'[w][i].task = t
    BY <2>3, <1>2 DEF Held
  <2>. QED
    BY <1>6, <2>1, <2>2, <2>3 DEF Held
<1>7. ASSUME NEW t \in Tasks, Held(w, t), t # working[w] PROVE Held(w, t)'
  <2>1. CASE item[w] = t
    BY <2>1, <1>1 DEF Held
  <2>2. CASE \E i \in 1..Len(pipe[w]) : pipe[w][i].task = t
    <3>1. PICK i \in 1..Len(pipe[w]) : pipe[w][i].task = t
      BY <2>2
    <3>2. CASE i = 1
      <4>1. e.kind = "start" /\ working'[w] = t
        BY <3>1, <3>2, <1>1, <1>4, <1>7
      <4>. QED
        BY <4>1 DEF Held
    <3>3. CASE i # 1
      BY <3>1, <3>3, <1>3 DEF Held
    <3>. QED
      BY <3>2, <3>3
  <2>. QED
    BY <1>7, <2>1, <2>2 DEF Held
<1>8. ASSUME e.kind = "start", NEW t \in Tasks PROVE Held(w, t)' <=> Held(w, t)
  BY <1>6, <1>7, <1>8, <1>4 DEF Tasks, NoTask
<1>9. ASSUME e.kind # "start" PROVE Held(w, working[w]) /\ \A r \in {working[w]} : ~Held(w, r)'
  <2>1. Held(w, working[w])
    BY DEF Held
  <2>2. item[w] # working[w]
    <3>1. 1 \in 1..Len(pipe[w])
      BY <1>1
    <3>2. item[w] # NoTask => item[w] > e.task
      BY <3>1, <1>1, <1>9 DEF OrderInv
    <3>. QED
      BY <3>2, <1>4, <1>9 DEF Tasks, NoTask
  <2>3. \A i \in 1..Len(pipe'[w]) : pipe'[w][i].task # working[w]
    <3>. SUFFICES ASSUME NEW i \in 1..Len(pipe'[w]) PROVE pipe'[w][i].task # working[w]
      OBVIOUS
    <3>1. 1 \in 1..Len(pipe[w]) /\ i + 1 \in (1 + 1)..Len(pipe[w])
      BY <1>1
    <3>2. pipe[w][i + 1].task > e.task
      BY <3>1, <1>1, <1>9 DEF OrderInv
    <3>. QED
      BY <3>2, <1>2, <1>4, <1>9 DEF Tasks
  <2>4. working'[w] # working[w]
    BY <1>1, <1>4, <1>9 DEF Tasks, NoTask
  <2>5. ASSUME NEW r \in {working[w]} PROVE ~Held(w, r)'
    BY <2>2, <2>3, <2>4, <2>5, <1>1 DEF Held
  <2>. QED
    BY <2>1, <2>5
<1>. QED
  BY <1>5, <1>6, <1>7, <1>8, <1>9


\* OwnInv is kept.
LEMMA OwnStep ==
  TypeOK /\ ItemInv /\ PipeInv /\ AnnouncedInv /\ OrderInv /\ OwnInv /\ [Next]_vars => OwnInv'
<1>. SUFFICES ASSUME TypeOK, ItemInv, PipeInv, AnnouncedInv, OrderInv, OwnInv, [Next]_vars
              PROVE  OwnInv'
  OBVIOUS
<1>0. head \in Int /\ done \cup failed \subseteq Tasks
  BY DEF TypeOK
<1>. USE <1>0
<1>1. ASSUME NEW w \in Workers, Boot(w) PROVE OwnInv'
  <2>1. head' \in Int /\ head' >= head /\ done' = done /\ failed' = failed
    BY <1>1 DEF Boot, GoTo
  <2>2. \A v \in Workers, t \in Tasks : Held(v, t)' => Held(v, t)
    BY <1>1 DEF Boot, GoTo, Held, TypeOK, NoTask, Tasks
  <2>. QED
    BY <2>1, <2>2, OwnShrink
<1>2. ASSUME NEW w \in Workers, CheckStop(w) PROVE OwnInv'
  <2>1. head' \in Int /\ head' >= head /\ done' = done /\ failed' = failed
    BY <1>2 DEF CheckStop, GoTo
  <2>2. \A v \in Workers, t \in Tasks : Held(v, t)' => Held(v, t)
    BY <1>2 DEF CheckStop, GoTo, Held, TypeOK, NoTask, Tasks
  <2>. QED
    BY <2>1, <2>2, OwnShrink
<1>3. ASSUME NEW w \in Workers, LockQueue(w) PROVE OwnInv'
  <2>1. head' \in Int /\ head' >= head /\ done' = done /\ failed' = failed
    BY <1>3 DEF LockQueue, GoTo
  <2>2. \A v \in Workers, t \in Tasks : Held(v, t)' => Held(v, t)
    BY <1>3 DEF LockQueue, GoTo, Held, TypeOK, NoTask, Tasks
  <2>. QED
    BY <2>1, <2>2, OwnShrink
<1>4. ASSUME NEW w \in Workers, TakeTask(w) PROVE OwnInv'
  <2>1. /\ pipe' = pipe /\ working' = working /\ done' = done /\ failed' = failed
        /\ head \in Tasks /\ head' = head + 1
        /\ \A v \in Workers : item'[v] = IF v = w THEN head ELSE item[v]
    BY <1>4 DEF TakeTask, TypeOK, Tasks
  <2>2. \A v \in Workers, t \in Tasks : Held(v, t)' => Held(v, t) \/ (v = w /\ t = head)
    BY <2>1 DEF Held
  <2>3. \A v \in Workers : ~Held(v, head)
    BY <2>1 DEF OwnInv
  <2>4. \A v \in Workers, t \in Tasks : Held(v, t)' => t < head' /\ t \notin done' \cup failed'
    BY <2>1, <2>2 DEF OwnInv, Tasks
  <2>5. \A v, u \in Workers, t \in Tasks : Held(v, t)' /\ Held(u, t)' => v = u
    BY <2>2, <2>3 DEF OwnInv
  <2>6. \A t \in done' \cup failed' : t < head'
    BY <2>1 DEF OwnInv, Tasks
  <2>. QED
    BY <2>4, <2>5, <2>6 DEF OwnInv
<1>5. ASSUME NEW w \in Workers, TakeEndMark(w) PROVE OwnInv'
  <2>1. head' \in Int /\ head' >= head /\ done' = done /\ failed' = failed
    BY <1>5 DEF TakeEndMark, GoTo
  <2>2. \A v \in Workers, t \in Tasks : Held(v, t)' => Held(v, t)
    BY <1>5 DEF TakeEndMark, GoTo, Held, TypeOK, NoTask, Tasks
  <2>. QED
    BY <2>1, <2>2, OwnShrink
<1>6. ASSUME NEW w \in Workers, Start(w) PROVE OwnInv'
  <2>1. /\ item[w] \in Tasks /\ working' = working /\ Send(w, Event("start", item[w]))
        /\ item'[w] \in {item[w], NoTask}
        /\ \A v \in Workers \ {w} : item'[v] = item[v]
    BY <1>6 DEF Start, AfterTask, ItemInv, TypeOK, NoTask
  <2>2. \A v \in Workers, t \in Tasks : Held(v, t)' <=> Held(v, t)
    BY <2>1, SendHeld
  <2>3. head' = head /\ done' = done /\ failed' = failed
    BY <1>6 DEF Start, GoTo, Send, Event
  <2>. QED
    BY <2>2, <2>3, OwnShrink
<1>7. ASSUME NEW w \in Workers, Commit(w) PROVE OwnInv'
  <2>1. head' \in Int /\ head' >= head /\ done' = done /\ failed' = failed
    BY <1>7 DEF Commit, GoTo
  <2>2. \A v \in Workers, t \in Tasks : Held(v, t)' => Held(v, t)
    BY <1>7 DEF Commit, GoTo, Held, TypeOK, NoTask, Tasks
  <2>. QED
    BY <2>1, <2>2, OwnShrink
<1>8. ASSUME NEW w \in Workers, SendDone(w) PROVE OwnInv'
  <2>1. /\ item[w] \in Tasks /\ working' = working /\ Send(w, Event("done", item[w]))
        /\ item'[w] \in {item[w], NoTask}
        /\ \A v \in Workers \ {w} : item'[v] = item[v]
    BY <1>8 DEF SendDone, AfterTask, ItemInv, TypeOK, NoTask
  <2>2. \A v \in Workers, t \in Tasks : Held(v, t)' <=> Held(v, t)
    BY <2>1, SendHeld
  <2>3. head' = head /\ done' = done /\ failed' = failed
    BY <1>8 DEF SendDone, Send, Event, AfterTask, GoTo
  <2>. QED
    BY <2>2, <2>3, OwnShrink
<1>9. ASSUME NEW w \in Workers, SendFailed(w) PROVE OwnInv'
  <2>1. /\ item[w] \in Tasks /\ working' = working /\ Send(w, Event("failed", item[w]))
        /\ item'[w] \in {item[w], NoTask}
        /\ \A v \in Workers \ {w} : item'[v] = item[v]
    BY <1>9 DEF SendFailed, AfterTask, ItemInv, TypeOK, NoTask
  <2>2. \A v \in Workers, t \in Tasks : Held(v, t)' <=> Held(v, t)
    BY <2>1, SendHeld
  <2>3. head' = head /\ done' = done /\ failed' = failed
    BY <1>9 DEF SendFailed, Send, Event, AfterTask, GoTo
  <2>. QED
    BY <2>2, <2>3, OwnShrink
<1>10. ASSUME NEW w \in Workers, AbortSolve(w) PROVE OwnInv'
  <2>1. head' \in Int /\ head' >= head /\ done' = done /\ failed' = failed
    BY <1>10 DEF AbortSolve, GoTo
  <2>2. \A v \in Workers, t \in Tasks : Held(v, t)' => Held(v, t)
    BY <1>10 DEF AbortSolve, GoTo, Held, TypeOK, NoTask, Tasks
  <2>. QED
    BY <2>1, <2>2, OwnShrink
<1>11. ASSUME NEW w \in Workers, LoseGpu(w) PROVE OwnInv'
  <2>1. /\ item[w] \in Tasks /\ working' = working /\ Send(w, Event("fatal", item[w]))
        /\ item'[w] \in {item[w], NoTask}
        /\ \A v \in Workers \ {w} : item'[v] = item[v]
    BY <1>11 DEF LoseGpu, AfterTask, ItemInv, TypeOK, NoTask
  <2>2. \A v \in Workers, t \in Tasks : Held(v, t)' <=> Held(v, t)
    BY <2>1, SendHeld
  <2>3. head' = head /\ done' = done /\ failed' = failed
    BY <1>11 DEF LoseGpu, Send, Event, GoTo
  <2>. QED
    BY <2>2, <2>3, OwnShrink
<1>12. ASSUME NEW w \in Workers, Leave(w) PROVE OwnInv'
  <2>1. head' \in Int /\ head' >= head /\ done' = done /\ failed' = failed
    BY <1>12 DEF Leave, GoTo, WatchLost
  <2>2. \A v \in Workers, t \in Tasks : Held(v, t)' => Held(v, t)
    BY <1>12 DEF Leave, GoTo, WatchLost, Held, TypeOK, NoTask, Tasks
  <2>. QED
    BY <2>1, <2>2, OwnShrink
<1>13. ASSUME NEW w \in Workers, WakeWatch(w) PROVE OwnInv'
  <2>1. head' \in Int /\ head' >= head /\ done' = done /\ failed' = failed
    BY <1>13 DEF WakeWatch
  <2>2. \A v \in Workers, t \in Tasks : Held(v, t)' => Held(v, t)
    BY <1>13 DEF WakeWatch, Held, TypeOK, NoTask, Tasks
  <2>. QED
    BY <2>1, <2>2, OwnShrink
<1>14. ASSUME NEW w \in Workers, Die(w) PROVE OwnInv'
  <2>1. head' \in Int /\ head' >= head /\ done' = done /\ failed' = failed
    BY <1>14 DEF Die, GoTo, WatchLost
  <2>2. \A v \in Workers, t \in Tasks : Held(v, t)' => Held(v, t)
    BY <1>14 DEF Die, GoTo, WatchLost, Held, TypeOK, NoTask, Tasks
  <2>. QED
    BY <2>1, <2>2, OwnShrink
<1>15. ASSUME NEW w \in Workers, Receive(w) PROVE OwnInv'
  <2>1. head' = head /\ (Head(pipe[w]).kind # "start" => working[w] \in Tasks)
    BY <1>15, HeadEvent DEF Receive
  <2>2. CASE done' \cup failed' = done \cup failed /\ done' = done /\ failed' = failed
    BY <1>15, <2>1, <2>2, ReceiveHeld, OwnShrink
  <2>3. CASE done' \cup failed' = done \cup failed \cup {working[w]} /\ Head(pipe[w]).kind # "start"
    <3>1. PICK r \in Tasks : r = working[w]
      BY <2>1, <2>3
    <3>2. Held(w, r) /\ ~Held(w, r)'
      BY <3>1, <2>3, <1>15, ReceiveHeld
    <3>. QED
      BY <2>1, <2>3, <3>1, <3>2, <1>15, ReceiveHeld, OwnReport
  <2>. QED
    BY <1>15, <2>2, <2>3 DEF Receive, ReceiveStart, ReceiveDone, ReceiveFailed, ReceiveFatal
<1>16. ASSUME NEW w \in Workers, Drained(w) PROVE OwnInv'
  <2>1. head' \in Int /\ head' >= head /\ done' = done /\ failed' = failed
    BY <1>16 DEF Drained, InLoop
  <2>2. \A v \in Workers, t \in Tasks : Held(v, t)' => Held(v, t)
    BY <1>16 DEF Drained, InLoop, Held, TypeOK, NoTask, Tasks
  <2>. QED
    BY <2>1, <2>2, OwnShrink
<1>17. ASSUME NEW w \in Workers, ExitedEnd(w) PROVE OwnInv'
  <2>1. head' \in Int /\ head' >= head /\ done' = done /\ failed' = failed
    BY <1>17 DEF ExitedEnd, Reap, InLoop
  <2>2. \A v \in Workers, t \in Tasks : Held(v, t)' => Held(v, t)
    BY <1>17 DEF ExitedEnd, Reap, InLoop, Held, TypeOK, NoTask, Tasks
  <2>. QED
    BY <2>1, <2>2, OwnShrink
<1>18. ASSUME NEW w \in Workers, ExitedForMemory(w) PROVE OwnInv'
  <2>1. head' \in Int /\ head' >= head /\ done' = done /\ failed' = failed
    BY <1>18 DEF ExitedForMemory, Reap, InLoop
  <2>2. \A v \in Workers, t \in Tasks : Held(v, t)' => Held(v, t)
    BY <1>18 DEF ExitedForMemory, Reap, InLoop, Held, TypeOK, NoTask, Tasks
  <2>. QED
    BY <2>1, <2>2, OwnShrink
<1>19. ASSUME NEW w \in Workers, ExitedInTask(w) PROVE OwnInv'
  <2>1. /\ pipe' = pipe /\ item' = item /\ pipe[w] = <<>> /\ item[w] = NoTask
        /\ working[w] \in Tasks /\ working' = [working EXCEPT ![w] = NoTask]
        /\ done' \cup failed' = done \cup failed \cup {working[w]} /\ head' = head
    BY <1>19 DEF ExitedInTask, Reap, ItemInv, TypeOK
  <2>2. PICK r \in Tasks : r = working[w]
    BY <2>1
  <2>3. Held(w, r)
    BY <2>2 DEF Held
  <2>4. ~Held(w, r)'
    BY <2>1, <2>2, EmptySeq DEF Held, TypeOK, NoTask, Tasks
  <2>5. \A v \in Workers, t \in Tasks : Held(v, t)' => Held(v, t)
    BY <2>1 DEF Held, TypeOK, NoTask, Tasks
  <2>. QED
    BY <2>1, <2>2, <2>3, <2>4, <2>5, OwnReport
<1>20. ASSUME NEW w \in Workers, ExitedOutsideTask(w) PROVE OwnInv'
  <2>1. head' \in Int /\ head' >= head /\ done' = done /\ failed' = failed
    BY <1>20 DEF ExitedOutsideTask, Reap, InLoop, CallSet
  <2>2. \A v \in Workers, t \in Tasks : Held(v, t)' => Held(v, t)
    BY <1>20 DEF ExitedOutsideTask, Reap, InLoop, CallSet, Held, TypeOK, NoTask, Tasks
  <2>. QED
    BY <2>1, <2>2, OwnShrink
<1>21. CASE RequestStop
  <2>1. head' \in Int /\ head' >= head /\ done' = done /\ failed' = failed
    BY <1>21 DEF RequestStop
  <2>2. \A v \in Workers, t \in Tasks : Held(v, t)' => Held(v, t)
    BY <1>21 DEF RequestStop, Held, TypeOK, NoTask, Tasks
  <2>. QED
    BY <2>1, <2>2, OwnShrink
<1>22. CASE PollStop
  <2>1. head' \in Int /\ head' >= head /\ done' = done /\ failed' = failed
    BY <1>22 DEF PollStop, AtTop, InLoop, CallSet
  <2>2. \A v \in Workers, t \in Tasks : Held(v, t)' => Held(v, t)
    BY <1>22 DEF PollStop, AtTop, InLoop, CallSet, Held, TypeOK, NoTask, Tasks
  <2>. QED
    BY <2>1, <2>2, OwnShrink
<1>23. CASE Wait
  <2>1. head' \in Int /\ head' >= head /\ done' = done /\ failed' = failed
    BY <1>23 DEF Wait, AtTop, InLoop, ReadyHandles
  <2>2. \A v \in Workers, t \in Tasks : Held(v, t)' => Held(v, t)
    BY <1>23 DEF Wait, AtTop, InLoop, ReadyHandles, Held, TypeOK, NoTask, Tasks
  <2>. QED
    BY <2>1, <2>2, OwnShrink
<1>24. CASE Handle
  <2>1. head' \in Int /\ head' >= head /\ done' = done /\ failed' = failed
    BY <1>24 DEF Handle, InLoop
  <2>2. \A v \in Workers, t \in Tasks : Held(v, t)' => Held(v, t)
    BY <1>24 DEF Handle, InLoop, Held, TypeOK, NoTask, Tasks
  <2>. QED
    BY <2>1, <2>2, OwnShrink
<1>25. CASE SetReturns
  <2>1. head' \in Int /\ head' >= head /\ done' = done /\ failed' = failed
    BY <1>25 DEF SetReturns
  <2>2. \A v \in Workers, t \in Tasks : Held(v, t)' => Held(v, t)
    BY <1>25 DEF SetReturns, Held, TypeOK, NoTask, Tasks
  <2>. QED
    BY <2>1, <2>2, OwnShrink
<1>26. CASE Return
  <2>1. head' \in Int /\ head' >= head /\ done' = done /\ failed' = failed
    BY <1>26 DEF Return, InLoop
  <2>2. \A v \in Workers, t \in Tasks : Held(v, t)' => Held(v, t)
    BY <1>26 DEF Return, InLoop, Held, TypeOK, NoTask, Tasks
  <2>. QED
    BY <2>1, <2>2, OwnShrink
<1>27. CASE UNCHANGED vars
  BY <1>27 DEF OwnInv, Held, TypeOK
<1>. QED
  BY <1>1, <1>2, <1>3, <1>4, <1>5, <1>6, <1>7, <1>8, <1>9, <1>10, <1>11, <1>12, <1>13, <1>14,
     <1>15, <1>16, <1>17, <1>18, <1>19, <1>20, <1>21, <1>22, <1>23, <1>24, <1>25, <1>26,
     <1>27 DEF Next, WorkerStep, ParentStep, ExitedStep

\* A report of a task not reported before keeps the counters right.
LEMMA ReportOne ==
  ASSUME TypeOK, ReportedOnce, NEW r \in Tasks, r \notin done \cup failed,
         finished' = finished + 1,
         \/ done' = done \cup {r} /\ failed' = failed /\ stored' = stored + 1
         \/ failed' = failed \cup {r} /\ done' = done /\ stored' = stored
  PROVE  ReportedOnce'
<1>1. IsFiniteSet(Tasks)
  BY FS_Interval, NAssumption DEF Tasks
<1>2. IsFiniteSet(done) /\ IsFiniteSet(done \cup failed)
  BY <1>1, FS_Subset DEF TypeOK
<1>3. /\ Cardinality(done \cup {r}) = Cardinality(done) + 1
      /\ Cardinality((done \cup failed) \cup {r}) = Cardinality(done \cup failed) + 1
  BY <1>2, FS_AddElement
<1>4. done' \cup failed' = (done \cup failed) \cup {r}
  OBVIOUS
<1>5. finished' = Cardinality(done' \cup failed') /\ stored' = Cardinality(done')
  BY <1>3, <1>4 DEF ReportedOnce
<1>. QED
  BY <1>5 DEF ReportedOnce

\* ReportedOnce is kept.
LEMMA ReportStep ==
  TypeOK /\ PipeInv /\ OwnInv /\ ReportedOnce /\ [Next]_vars => ReportedOnce'
<1>. SUFFICES ASSUME TypeOK, PipeInv, OwnInv, ReportedOnce, [Next]_vars PROVE ReportedOnce'
  OBVIOUS
<1>1. ASSUME NEW w \in Workers, Boot(w) PROVE ReportedOnce'
  BY <1>1 DEF Boot, GoTo, ReportedOnce
<1>2. ASSUME NEW w \in Workers, CheckStop(w) PROVE ReportedOnce'
  BY <1>2 DEF CheckStop, GoTo, ReportedOnce
<1>3. ASSUME NEW w \in Workers, LockQueue(w) PROVE ReportedOnce'
  BY <1>3 DEF LockQueue, GoTo, ReportedOnce
<1>4. ASSUME NEW w \in Workers, TakeTask(w) PROVE ReportedOnce'
  BY <1>4 DEF TakeTask, GoTo, ReportedOnce
<1>5. ASSUME NEW w \in Workers, TakeEndMark(w) PROVE ReportedOnce'
  BY <1>5 DEF TakeEndMark, GoTo, ReportedOnce
<1>6. ASSUME NEW w \in Workers, Start(w) PROVE ReportedOnce'
  BY <1>6 DEF Start, GoTo, Send, Event, ReportedOnce
<1>7. ASSUME NEW w \in Workers, Commit(w) PROVE ReportedOnce'
  BY <1>7 DEF Commit, GoTo, ReportedOnce
<1>8. ASSUME NEW w \in Workers, SendDone(w) PROVE ReportedOnce'
  BY <1>8 DEF SendDone, Send, Event, AfterTask, GoTo, ReportedOnce
<1>9. ASSUME NEW w \in Workers, SendFailed(w) PROVE ReportedOnce'
  BY <1>9 DEF SendFailed, Send, Event, AfterTask, GoTo, ReportedOnce
<1>10. ASSUME NEW w \in Workers, AbortSolve(w) PROVE ReportedOnce'
  BY <1>10 DEF AbortSolve, GoTo, ReportedOnce
<1>11. ASSUME NEW w \in Workers, LoseGpu(w) PROVE ReportedOnce'
  BY <1>11 DEF LoseGpu, Send, Event, GoTo, ReportedOnce
<1>12. ASSUME NEW w \in Workers, Leave(w) PROVE ReportedOnce'
  BY <1>12 DEF Leave, GoTo, WatchLost, ReportedOnce
<1>13. ASSUME NEW w \in Workers, WakeWatch(w) PROVE ReportedOnce'
  BY <1>13 DEF WakeWatch, ReportedOnce
<1>14. ASSUME NEW w \in Workers, Die(w) PROVE ReportedOnce'
  BY <1>14 DEF Die, GoTo, WatchLost, ReportedOnce
<1>15. ASSUME NEW w \in Workers, Receive(w) PROVE ReportedOnce'
  <2>1. CASE Head(pipe[w]).kind \in {"done", "failed"}
    <3>1. working[w] \in Tasks
      BY <1>15, <2>1, HeadEvent DEF Receive
    <3>2. working[w] \notin done \cup failed
      BY <3>1 DEF OwnInv, Held
    <3>. QED
      BY <1>15, <2>1, <3>1, <3>2, ReportOne
         DEF Receive, ReceiveStart, ReceiveDone, ReceiveFailed, ReceiveFatal
  <2>2. CASE Head(pipe[w]).kind \notin {"done", "failed"}
    BY <1>15, <2>2 DEF Receive, ReceiveStart, ReceiveDone, ReceiveFailed, ReceiveFatal,
       ReportedOnce
  <2>. QED
    BY <2>1, <2>2
<1>16. ASSUME NEW w \in Workers, Drained(w) PROVE ReportedOnce'
  BY <1>16 DEF Drained, InLoop, ReportedOnce
<1>17. ASSUME NEW w \in Workers, ExitedEnd(w) PROVE ReportedOnce'
  BY <1>17 DEF ExitedEnd, Reap, InLoop, ReportedOnce
<1>18. ASSUME NEW w \in Workers, ExitedForMemory(w) PROVE ReportedOnce'
  BY <1>18 DEF ExitedForMemory, Reap, InLoop, ReportedOnce
<1>19. ASSUME NEW w \in Workers, ExitedInTask(w) PROVE ReportedOnce'
  <2>1. working[w] \in Tasks
    BY <1>19 DEF ExitedInTask, TypeOK
  <2>2. working[w] \notin done \cup failed
    BY <2>1 DEF OwnInv, Held
  <2>. QED
    BY <1>19, <2>1, <2>2, ReportOne DEF ExitedInTask, Reap
<1>20. ASSUME NEW w \in Workers, ExitedOutsideTask(w) PROVE ReportedOnce'
  BY <1>20 DEF ExitedOutsideTask, Reap, InLoop, CallSet, ReportedOnce
<1>21. CASE RequestStop
  BY <1>21 DEF RequestStop, ReportedOnce
<1>22. CASE PollStop
  BY <1>22 DEF PollStop, AtTop, InLoop, CallSet, ReportedOnce
<1>23. CASE Wait
  BY <1>23 DEF Wait, AtTop, InLoop, ReadyHandles, ReportedOnce
<1>24. CASE Handle
  BY <1>24 DEF Handle, InLoop, ReportedOnce
<1>25. CASE SetReturns
  BY <1>25 DEF SetReturns, ReportedOnce
<1>26. CASE Return
  BY <1>26 DEF Return, InLoop, ReportedOnce
<1>27. CASE UNCHANGED vars
  BY <1>27 DEF ReportedOnce
<1>. QED
  BY <1>1, <1>2, <1>3, <1>4, <1>5, <1>6, <1>7, <1>8, <1>9, <1>10, <1>11, <1>12, <1>13, <1>14,
     <1>15, <1>16, <1>17, <1>18, <1>19, <1>20, <1>21, <1>22, <1>23, <1>24, <1>25, <1>26,
     <1>27 DEF Next, WorkerStep, ParentStep, ExitedStep

\* Only stop.set() ends the time when the run is not stopped, and it never comes back.
LEMMA StopStays == [Next]_vars /\ stop' = "clear" => stop = "clear"
<1>. SUFFICES ASSUME [Next]_vars, stop' = "clear" PROVE stop = "clear"
  OBVIOUS
<1>1. ASSUME NEW w \in Workers, Boot(w) PROVE stop = "clear"
  BY <1>1 DEF Boot, GoTo, AfterTask
<1>2. ASSUME NEW w \in Workers, CheckStop(w) PROVE stop = "clear"
  BY <1>2 DEF CheckStop, GoTo, AfterTask
<1>3. ASSUME NEW w \in Workers, LockQueue(w) PROVE stop = "clear"
  BY <1>3 DEF LockQueue, GoTo, AfterTask
<1>4. ASSUME NEW w \in Workers, TakeTask(w) PROVE stop = "clear"
  BY <1>4 DEF TakeTask, GoTo, AfterTask
<1>5. ASSUME NEW w \in Workers, TakeEndMark(w) PROVE stop = "clear"
  BY <1>5 DEF TakeEndMark, GoTo, AfterTask
<1>6. ASSUME NEW w \in Workers, Start(w) PROVE stop = "clear"
  BY <1>6 DEF Start, GoTo, Send, Event, AfterTask
<1>7. ASSUME NEW w \in Workers, Commit(w) PROVE stop = "clear"
  BY <1>7 DEF Commit, GoTo, AfterTask
<1>8. ASSUME NEW w \in Workers, SendDone(w) PROVE stop = "clear"
  BY <1>8 DEF SendDone, Send, Event, AfterTask, GoTo, AfterTask
<1>9. ASSUME NEW w \in Workers, SendFailed(w) PROVE stop = "clear"
  BY <1>9 DEF SendFailed, Send, Event, AfterTask, GoTo, AfterTask
<1>10. ASSUME NEW w \in Workers, AbortSolve(w) PROVE stop = "clear"
  BY <1>10 DEF AbortSolve, GoTo, AfterTask
<1>11. ASSUME NEW w \in Workers, LoseGpu(w) PROVE stop = "clear"
  BY <1>11 DEF LoseGpu, Send, Event, GoTo, AfterTask
<1>12. ASSUME NEW w \in Workers, Leave(w) PROVE stop = "clear"
  BY <1>12 DEF Leave, GoTo, WatchLost, AfterTask
<1>13. ASSUME NEW w \in Workers, WakeWatch(w) PROVE stop = "clear"
  BY <1>13 DEF WakeWatch, AfterTask
<1>14. ASSUME NEW w \in Workers, Die(w) PROVE stop = "clear"
  BY <1>14 DEF Die, GoTo, WatchLost, AfterTask
<1>15. ASSUME NEW w \in Workers, Receive(w) PROVE stop = "clear"
  BY <1>15 DEF Receive, InLoop, ReceiveStart, ReceiveDone, ReceiveFailed, ReceiveFatal, CallSet,
     AfterTask
<1>16. ASSUME NEW w \in Workers, Drained(w) PROVE stop = "clear"
  BY <1>16 DEF Drained, InLoop, AfterTask
<1>17. ASSUME NEW w \in Workers, ExitedEnd(w) PROVE stop = "clear"
  BY <1>17 DEF ExitedEnd, Reap, InLoop, AfterTask
<1>18. ASSUME NEW w \in Workers, ExitedForMemory(w) PROVE stop = "clear"
  BY <1>18 DEF ExitedForMemory, Reap, InLoop, AfterTask
<1>19. ASSUME NEW w \in Workers, ExitedInTask(w) PROVE stop = "clear"
  BY <1>19 DEF ExitedInTask, Reap, InLoop, AfterTask
<1>20. ASSUME NEW w \in Workers, ExitedOutsideTask(w) PROVE stop = "clear"
  BY <1>20 DEF ExitedOutsideTask, Reap, InLoop, CallSet, AfterTask
<1>21. CASE RequestStop
  BY <1>21 DEF RequestStop, AfterTask
<1>22. CASE PollStop
  BY <1>22 DEF PollStop, AtTop, InLoop, CallSet, AfterTask
<1>23. CASE Wait
  BY <1>23 DEF Wait, AtTop, InLoop, ReadyHandles, AfterTask
<1>24. CASE Handle
  BY <1>24 DEF Handle, InLoop, AfterTask
<1>25. CASE SetReturns
  BY <1>25 DEF SetReturns, AfterTask
<1>26. CASE Return
  BY <1>26 DEF Return, InLoop, AfterTask
<1>27. CASE UNCHANGED vars
  BY <1>27 DEF AfterTask
<1>. QED
  BY <1>1, <1>2, <1>3, <1>4, <1>5, <1>6, <1>7, <1>8, <1>9, <1>10, <1>11, <1>12, <1>13, <1>14,
     <1>15, <1>16, <1>17, <1>18, <1>19, <1>20, <1>21, <1>22, <1>23, <1>24, <1>25, <1>26,
     <1>27 DEF Next, WorkerStep, ParentStep, ExitedStep

\* SlotInv is kept.
LEMMA SlotStep ==
  TypeOK /\ LeaveInv /\ SlotInv /\ [Next]_vars => SlotInv'
<1>. SUFFICES ASSUME TypeOK, LeaveInv, SlotInv, [Next]_vars, stop' = "clear"
              PROVE  \A v \in Workers \ running' : head' > N \/ finished' >= N
  BY DEF SlotInv
<1>0. head \in Int /\ finished \in Nat /\ N \in Nat /\ stop = "clear"
  BY StopStays, NAssumption DEF TypeOK
<1>. DEFINE Goal == \A v \in Workers \ running' : head' > N \/ finished' >= N
<1>. USE <1>0
<1>1. ASSUME NEW w \in Workers, Boot(w) PROVE Goal
  BY <1>1 DEF Boot, GoTo, SlotInv
<1>2. ASSUME NEW w \in Workers, CheckStop(w) PROVE Goal
  BY <1>2 DEF CheckStop, GoTo, SlotInv
<1>3. ASSUME NEW w \in Workers, LockQueue(w) PROVE Goal
  BY <1>3 DEF LockQueue, GoTo, SlotInv
<1>4. ASSUME NEW w \in Workers, TakeTask(w) PROVE Goal
  BY <1>4 DEF TakeTask, GoTo, SlotInv
<1>5. ASSUME NEW w \in Workers, TakeEndMark(w) PROVE Goal
  BY <1>5 DEF TakeEndMark, GoTo, SlotInv
<1>6. ASSUME NEW w \in Workers, Start(w) PROVE Goal
  BY <1>6 DEF Start, GoTo, Send, Event, SlotInv
<1>7. ASSUME NEW w \in Workers, Commit(w) PROVE Goal
  BY <1>7 DEF Commit, GoTo, SlotInv
<1>8. ASSUME NEW w \in Workers, SendDone(w) PROVE Goal
  BY <1>8 DEF SendDone, Send, Event, AfterTask, GoTo, SlotInv
<1>9. ASSUME NEW w \in Workers, SendFailed(w) PROVE Goal
  BY <1>9 DEF SendFailed, Send, Event, AfterTask, GoTo, SlotInv
<1>10. ASSUME NEW w \in Workers, AbortSolve(w) PROVE Goal
  BY <1>10 DEF AbortSolve, GoTo, SlotInv
<1>11. ASSUME NEW w \in Workers, LoseGpu(w) PROVE Goal
  BY <1>11 DEF LoseGpu, Send, Event, GoTo, SlotInv
<1>12. ASSUME NEW w \in Workers, Leave(w) PROVE Goal
  BY <1>12 DEF Leave, GoTo, WatchLost, SlotInv
<1>13. ASSUME NEW w \in Workers, WakeWatch(w) PROVE Goal
  BY <1>13 DEF WakeWatch, SlotInv
<1>14. ASSUME NEW w \in Workers, Die(w) PROVE Goal
  BY <1>14 DEF Die, GoTo, WatchLost, SlotInv
<1>15. ASSUME NEW w \in Workers, Receive(w) PROVE Goal
  BY <1>15 DEF Receive, InLoop, ReceiveStart, ReceiveDone, ReceiveFailed, ReceiveFatal, CallSet,
     SlotInv
<1>16. ASSUME NEW w \in Workers, Drained(w) PROVE Goal
  BY <1>16 DEF Drained, InLoop, SlotInv
<1>17. ASSUME NEW w \in Workers, ExitedEnd(w) PROVE Goal
  <2>1. head > N
    BY <1>17, EmptySeq DEF ExitedEnd, LeaveInv, TypeOK
  <2>. QED
    BY <1>17, <2>1 DEF ExitedEnd, Reap
<1>18. ASSUME NEW w \in Workers, ExitedForMemory(w) PROVE Goal
  BY <1>18 DEF ExitedForMemory, Reap, InLoop, SlotInv
<1>19. ASSUME NEW w \in Workers, ExitedInTask(w) PROVE Goal
  BY <1>19 DEF ExitedInTask, Reap, InLoop, SlotInv
<1>20. ASSUME NEW w \in Workers, ExitedOutsideTask(w) PROVE Goal
  BY <1>20 DEF ExitedOutsideTask, Reap, InLoop, CallSet, SlotInv
<1>21. CASE RequestStop
  BY <1>21 DEF RequestStop, SlotInv
<1>22. CASE PollStop
  BY <1>22 DEF PollStop, AtTop, InLoop, CallSet, SlotInv
<1>23. CASE Wait
  BY <1>23 DEF Wait, AtTop, InLoop, ReadyHandles, SlotInv
<1>24. CASE Handle
  BY <1>24 DEF Handle, InLoop, SlotInv
<1>25. CASE SetReturns
  BY <1>25 DEF SetReturns, SlotInv
<1>26. CASE Return
  BY <1>26 DEF Return, InLoop, SlotInv
<1>27. CASE UNCHANGED vars
  BY <1>27 DEF SlotInv
<1>. QED
  BY <1>1, <1>2, <1>3, <1>4, <1>5, <1>6, <1>7, <1>8, <1>9, <1>10, <1>11, <1>12, <1>13, <1>14,
     <1>15, <1>16, <1>17, <1>18, <1>19, <1>20, <1>21, <1>22, <1>23, <1>24, <1>25, <1>26,
     <1>27 DEF Next, WorkerStep, ParentStep, ExitedStep

\* LeaveInv is kept.
LEMMA LeaveStep ==
  TypeOK /\ ItemInv /\ PipeInv /\ LeaveInv /\ [Next]_vars => LeaveInv'
<1>. SUFFICES ASSUME TypeOK, ItemInv, PipeInv, LeaveInv, [Next]_vars, stop' = "clear",
                     NEW u \in Workers, pc'[u] \in {"leave0", "exit0"}
              PROVE  head' > N \/ \E i \in 1..Len(pipe'[u]) : pipe'[u][i].kind = "fatal"
  BY DEF LeaveInv
<1>0. head \in Int /\ N \in Nat /\ stop = "clear"
  BY StopStays, NAssumption DEF TypeOK
<1>. DEFINE Goal == head' > N \/ \E i \in 1..Len(pipe'[u]) : pipe'[u][i].kind = "fatal"
<1>. USE <1>0
<1>1. ASSUME NEW w \in Workers, Boot(w) PROVE Goal
  BY <1>1 DEF Boot, GoTo, LeaveInv, TypeOK
<1>2. ASSUME NEW w \in Workers, CheckStop(w) PROVE Goal
  BY <1>2 DEF CheckStop, GoTo, LeaveInv, TypeOK
<1>3. ASSUME NEW w \in Workers, LockQueue(w) PROVE Goal
  BY <1>3 DEF LockQueue, GoTo, LeaveInv, TypeOK
<1>4. ASSUME NEW w \in Workers, TakeTask(w) PROVE Goal
  BY <1>4 DEF TakeTask, GoTo, LeaveInv, TypeOK
<1>5. ASSUME NEW w \in Workers, TakeEndMark(w) PROVE Goal
  BY <1>5 DEF TakeEndMark, GoTo, LeaveInv, TypeOK
<1>6. ASSUME NEW w \in Workers, Start(w) PROVE Goal
  <2>1. item[w] \in Tasks /\ working' = working /\ Send(w, Event("start", item[w]))
    BY <1>6 DEF Start, AfterTask, ItemInv, TypeOK, NoTask
  <2>2. CASE u = w
    BY <1>6, <2>2 DEF Start, GoTo, Send, Event, TypeOK
  <2>3. CASE u # w
    <3>1. pipe'[u] = pipe[u] /\ pc'[u] = pc[u] /\ head' = head
      BY <1>6, <2>1, <2>3, SendFacts DEF Start, GoTo, Send, Event, TypeOK
    <3>. QED
      BY <3>1 DEF LeaveInv
  <2>. QED
    BY <2>2, <2>3
<1>7. ASSUME NEW w \in Workers, Commit(w) PROVE Goal
  BY <1>7 DEF Commit, GoTo, LeaveInv, TypeOK
<1>8. ASSUME NEW w \in Workers, SendDone(w) PROVE Goal
  <2>1. item[w] \in Tasks /\ working' = working /\ Send(w, Event("done", item[w]))
    BY <1>8 DEF SendDone, AfterTask, ItemInv, TypeOK, NoTask
  <2>2. CASE u = w
    BY <1>8, <2>2 DEF SendDone, Send, Event, AfterTask, GoTo, TypeOK
  <2>3. CASE u # w
    <3>1. pipe'[u] = pipe[u] /\ pc'[u] = pc[u] /\ head' = head
      BY <1>8, <2>1, <2>3, SendFacts DEF SendDone, Send, Event, AfterTask, GoTo, TypeOK
    <3>. QED
      BY <3>1 DEF LeaveInv
  <2>. QED
    BY <2>2, <2>3
<1>9. ASSUME NEW w \in Workers, SendFailed(w) PROVE Goal
  <2>1. item[w] \in Tasks /\ working' = working /\ Send(w, Event("failed", item[w]))
    BY <1>9 DEF SendFailed, AfterTask, ItemInv, TypeOK, NoTask
  <2>2. CASE u = w
    BY <1>9, <2>2 DEF SendFailed, Send, Event, AfterTask, GoTo, TypeOK
  <2>3. CASE u # w
    <3>1. pipe'[u] = pipe[u] /\ pc'[u] = pc[u] /\ head' = head
      BY <1>9, <2>1, <2>3, SendFacts DEF SendFailed, Send, Event, AfterTask, GoTo, TypeOK
    <3>. QED
      BY <3>1 DEF LeaveInv
  <2>. QED
    BY <2>2, <2>3
<1>10. ASSUME NEW w \in Workers, AbortSolve(w) PROVE Goal
  BY <1>10 DEF AbortSolve, GoTo, LeaveInv, TypeOK
<1>11. ASSUME NEW w \in Workers, LoseGpu(w) PROVE Goal
  <2>1. item[w] \in Tasks /\ working' = working /\ Send(w, Event("fatal", item[w]))
    BY <1>11 DEF LoseGpu, ItemInv, TypeOK, NoTask
  <2>2. CASE u = w
    <3>1. /\ Len(pipe[w]) + 1 \in 1..Len(pipe'[w])
          /\ pipe'[w][Len(pipe[w]) + 1] = Event("fatal", item[w])
      BY <2>1, SendFacts
    <3>. QED
      BY <2>2, <3>1 DEF Event
  <2>3. CASE u # w
    <3>1. pipe'[u] = pipe[u] /\ pc'[u] = pc[u] /\ head' = head
      BY <1>11, <2>1, <2>3, SendFacts DEF LoseGpu, Send, Event, GoTo, TypeOK
    <3>. QED
      BY <3>1 DEF LeaveInv
  <2>. QED
    BY <2>2, <2>3
<1>12. ASSUME NEW w \in Workers, Leave(w) PROVE Goal
  BY <1>12 DEF Leave, GoTo, WatchLost, LeaveInv, TypeOK
<1>13. ASSUME NEW w \in Workers, WakeWatch(w) PROVE Goal
  BY <1>13 DEF WakeWatch, LeaveInv, TypeOK
<1>14. ASSUME NEW w \in Workers, Die(w) PROVE Goal
  BY <1>14 DEF Die, GoTo, WatchLost, LeaveInv, TypeOK
<1>15. ASSUME NEW w \in Workers, Receive(w) PROVE Goal
  <2>1. pc' = pc /\ head' = head
    BY <1>15 DEF Receive
  <2>2. CASE u # w
    BY <1>15, <2>1, <2>2, ReceiveFacts DEF LeaveInv
  <2>3. CASE u = w /\ head <= N
    <3>1. PICK i \in 1..Len(pipe[w]) : pipe[w][i].kind = "fatal"
      BY <2>1, <2>3 DEF LeaveInv
    <3>2. CASE i = 1
      <4>1. Head(pipe[w]).kind = "fatal"
        BY <3>1, <3>2, <1>15, ReceiveFacts
      <4>. QED
        BY <4>1, <1>15 DEF Receive, ReceiveStart, ReceiveDone, ReceiveFailed, ReceiveFatal,
           CallSet
    <3>3. CASE i # 1
      <4>1. i - 1 \in 1..Len(pipe'[w]) /\ (i - 1) + 1 = i
        BY <3>3, <1>15, ReceiveFacts
      <4>2. pipe'[w][i - 1] = pipe[w][i]
        BY <4>1, <1>15, ReceiveFacts
      <4>. QED
        BY <2>3, <3>1, <4>1, <4>2
    <3>. QED
      BY <3>2, <3>3
  <2>. QED
    BY <2>1, <2>2, <2>3
<1>16. ASSUME NEW w \in Workers, Drained(w) PROVE Goal
  BY <1>16 DEF Drained, InLoop, LeaveInv, TypeOK
<1>17. ASSUME NEW w \in Workers, ExitedEnd(w) PROVE Goal
  BY <1>17 DEF ExitedEnd, Reap, InLoop, LeaveInv, TypeOK
<1>18. ASSUME NEW w \in Workers, ExitedForMemory(w) PROVE Goal
  BY <1>18 DEF ExitedForMemory, Reap, InLoop, LeaveInv, TypeOK
<1>19. ASSUME NEW w \in Workers, ExitedInTask(w) PROVE Goal
  BY <1>19 DEF ExitedInTask, Reap, InLoop, LeaveInv, TypeOK
<1>20. ASSUME NEW w \in Workers, ExitedOutsideTask(w) PROVE Goal
  BY <1>20 DEF ExitedOutsideTask, Reap, InLoop, CallSet, LeaveInv, TypeOK
<1>21. CASE RequestStop
  BY <1>21 DEF RequestStop, LeaveInv, TypeOK
<1>22. CASE PollStop
  BY <1>22 DEF PollStop, AtTop, InLoop, CallSet, LeaveInv, TypeOK
<1>23. CASE Wait
  BY <1>23 DEF Wait, AtTop, InLoop, ReadyHandles, LeaveInv, TypeOK
<1>24. CASE Handle
  BY <1>24 DEF Handle, InLoop, LeaveInv, TypeOK
<1>25. CASE SetReturns
  BY <1>25 DEF SetReturns, LeaveInv, TypeOK
<1>26. CASE Return
  BY <1>26 DEF Return, InLoop, LeaveInv, TypeOK
<1>27. CASE UNCHANGED vars
  BY <1>27 DEF LeaveInv, TypeOK
<1>. QED
  BY <1>1, <1>2, <1>3, <1>4, <1>5, <1>6, <1>7, <1>8, <1>9, <1>10, <1>11, <1>12, <1>13, <1>14,
     <1>15, <1>16, <1>17, <1>18, <1>19, <1>20, <1>21, <1>22, <1>23, <1>24, <1>25, <1>26,
     <1>27 DEF Next, WorkerStep, ParentStep, ExitedStep

\* A worker outside `running` holds no task.
LEMMA HolderRuns ==
  ASSUME TypeOK, ItemInv, NEW w \in Workers, pc[w] \in LivePoints PROVE w \in running
BY DEF ItemInv, LivePoints

\* Every hold and every death outside a task that counted before still counts, or
\* the task is reported.
LEMMA TakenKeep ==
  ASSUME TakenInv, stop = "clear", head' = head, done \cup failed \subseteq done' \cup failed',
         \A v \in running, t \in Tasks :
            Held(v, t) => \/ t \in done' \cup failed'
                          \/ v \in running' /\ (Held(v, t)' \/ DiedOutside(v)'),
         \A v \in running : DiedOutside(v) => v \in running' /\ DiedOutside(v)'
  PROVE  TakenInv'
BY DEF TakenInv

\* TakenInv is kept.
LEMMA TakenStep ==
  TypeOK /\ ItemInv /\ PipeInv /\ AnnouncedInv /\ OrderInv /\ TakenInv /\ [Next]_vars => TakenInv'
<1>. SUFFICES ASSUME TypeOK, ItemInv, PipeInv, AnnouncedInv, OrderInv, TakenInv, [Next]_vars,
                     stop' = "clear"
              PROVE  TakenInv'
  BY DEF TakenInv
<1>0. head \in Int /\ N \in Nat /\ stop = "clear" /\ running \subseteq Workers
  BY StopStays, NAssumption DEF TypeOK
<1>. USE <1>0
<1>1. ASSUME NEW w \in Workers, Boot(w) PROVE TakenInv'
  <2>1. /\ head' = head /\ done' = done /\ failed' = failed /\ running' = running
        /\ pipe' = pipe /\ working' = working
    BY <1>1 DEF Boot, GoTo
  <2>2. \A v \in Workers, t \in Tasks : Held(v, t) => Held(v, t)'
    BY <1>1, <2>1 DEF Boot, GoTo, Held, TypeOK, NoTask, Tasks
  <2>3. \A v \in Workers : DiedOutside(v) => DiedOutside(v)'
    BY <1>1, <2>1 DEF Boot, GoTo, DiedOutside, Announced, TypeOK
  <2>. QED
    BY <2>1, <2>2, <2>3, TakenKeep
<1>2. ASSUME NEW w \in Workers, CheckStop(w) PROVE TakenInv'
  <2>1. /\ head' = head /\ done' = done /\ failed' = failed /\ running' = running
        /\ pipe' = pipe /\ working' = working
    BY <1>2 DEF CheckStop, GoTo
  <2>2. \A v \in Workers, t \in Tasks : Held(v, t) => Held(v, t)'
    BY <1>2, <2>1 DEF CheckStop, GoTo, Held, TypeOK, NoTask, Tasks
  <2>3. \A v \in Workers : DiedOutside(v) => DiedOutside(v)'
    BY <1>2, <2>1 DEF CheckStop, GoTo, DiedOutside, Announced, TypeOK
  <2>. QED
    BY <2>1, <2>2, <2>3, TakenKeep
<1>3. ASSUME NEW w \in Workers, LockQueue(w) PROVE TakenInv'
  <2>1. /\ head' = head /\ done' = done /\ failed' = failed /\ running' = running
        /\ pipe' = pipe /\ working' = working
    BY <1>3 DEF LockQueue, GoTo
  <2>2. \A v \in Workers, t \in Tasks : Held(v, t) => Held(v, t)'
    BY <1>3, <2>1 DEF LockQueue, GoTo, Held, TypeOK, NoTask, Tasks
  <2>3. \A v \in Workers : DiedOutside(v) => DiedOutside(v)'
    BY <1>3, <2>1 DEF LockQueue, GoTo, DiedOutside, Announced, TypeOK
  <2>. QED
    BY <2>1, <2>2, <2>3, TakenKeep
<1>4. ASSUME NEW w \in Workers, TakeTask(w) PROVE TakenInv'
  <2>1. /\ head' = head + 1 /\ done' = done /\ failed' = failed /\ running' = running
        /\ pipe' = pipe /\ working' = working /\ item'[w] = head /\ pc[w] = "read"
        /\ item[w] = NoTask
        /\ \A v \in Workers \ {w} : item'[v] = item[v] /\ pc'[v] = pc[v]
    BY <1>4 DEF TakeTask, GoTo, ItemInv, TypeOK
  <2>2. w \in running
    BY <2>1, HolderRuns DEF LivePoints
  <2>3. \A v \in Workers, t \in Tasks : Held(v, t) => Held(v, t)'
    BY <2>1 DEF Held, NoTask, Tasks
  <2>4. \A v \in Workers : DiedOutside(v) => DiedOutside(v)'
    BY <2>1 DEF DiedOutside, Announced
  <2>5. \A n : n = head => Held(w, n)'
    BY <2>1 DEF Held
  <2>6. \A t \in Tasks : t < head' => t < head \/ t = head
    BY <2>1 DEF Tasks
  <2>. QED
    BY <2>1, <2>2, <2>3, <2>4, <2>5, <2>6 DEF TakenInv
<1>5. ASSUME NEW w \in Workers, TakeEndMark(w) PROVE TakenInv'
  <2>1. /\ head > N /\ done' = done /\ failed' = failed /\ running' = running
        /\ pipe' = pipe /\ working' = working /\ item' = item /\ pc[w] = "read"
        /\ \A v \in Workers \ {w} : pc'[v] = pc[v]
    BY <1>5 DEF TakeEndMark, GoTo, TypeOK
  <2>2. \A t \in Tasks : t < head
    BY <2>1 DEF Tasks
  <2>3. \A v \in Workers, t \in Tasks : Held(v, t) => Held(v, t)'
    BY <2>1 DEF Held
  <2>4. \A v \in Workers : DiedOutside(v) => DiedOutside(v)'
    BY <2>1 DEF DiedOutside, Announced
  <2>. QED
    BY <2>1, <2>2, <2>3, <2>4 DEF TakenInv
<1>6. ASSUME NEW w \in Workers, Start(w) PROVE TakenInv'
  <2>1. /\ item[w] \in Tasks /\ working' = working /\ Send(w, Event("start", item[w]))
        /\ item'[w] \in {item[w], NoTask}
        /\ \A v \in Workers \ {w} : item'[v] = item[v]
    BY <1>6 DEF Start, AfterTask, ItemInv, TypeOK, NoTask
  <2>2. \A v \in Workers, t \in Tasks : Held(v, t)' <=> Held(v, t)
    BY <2>1, SendHeld
  <2>3. /\ head' = head /\ done' = done /\ failed' = failed /\ running' = running
        /\ pc[w] # "died" /\ \A v \in Workers \ {w} : pc'[v] = pc[v]
    BY <1>6 DEF Start, GoTo, Send, Event, TypeOK
  <2>4. \A v \in Workers : DiedOutside(v) => DiedOutside(v)'
    BY <2>1, <2>3, SendFacts DEF DiedOutside
  <2>. QED
    BY <2>2, <2>3, <2>4, TakenKeep
<1>7. ASSUME NEW w \in Workers, Commit(w) PROVE TakenInv'
  <2>1. /\ head' = head /\ done' = done /\ failed' = failed /\ running' = running
        /\ pipe' = pipe /\ working' = working
    BY <1>7 DEF Commit, GoTo
  <2>2. \A v \in Workers, t \in Tasks : Held(v, t) => Held(v, t)'
    BY <1>7, <2>1 DEF Commit, GoTo, Held, TypeOK, NoTask, Tasks
  <2>3. \A v \in Workers : DiedOutside(v) => DiedOutside(v)'
    BY <1>7, <2>1 DEF Commit, GoTo, DiedOutside, Announced, TypeOK
  <2>. QED
    BY <2>1, <2>2, <2>3, TakenKeep
<1>8. ASSUME NEW w \in Workers, SendDone(w) PROVE TakenInv'
  <2>1. /\ item[w] \in Tasks /\ working' = working /\ Send(w, Event("done", item[w]))
        /\ item'[w] \in {item[w], NoTask}
        /\ \A v \in Workers \ {w} : item'[v] = item[v]
    BY <1>8 DEF SendDone, AfterTask, ItemInv, TypeOK, NoTask
  <2>2. \A v \in Workers, t \in Tasks : Held(v, t)' <=> Held(v, t)
    BY <2>1, SendHeld
  <2>3. /\ head' = head /\ done' = done /\ failed' = failed /\ running' = running
        /\ pc[w] # "died" /\ \A v \in Workers \ {w} : pc'[v] = pc[v]
    BY <1>8 DEF SendDone, Send, Event, AfterTask, GoTo, TypeOK
  <2>4. \A v \in Workers : DiedOutside(v) => DiedOutside(v)'
    BY <2>1, <2>3, SendFacts DEF DiedOutside
  <2>. QED
    BY <2>2, <2>3, <2>4, TakenKeep
<1>9. ASSUME NEW w \in Workers, SendFailed(w) PROVE TakenInv'
  <2>1. /\ item[w] \in Tasks /\ working' = working /\ Send(w, Event("failed", item[w]))
        /\ item'[w] \in {item[w], NoTask}
        /\ \A v \in Workers \ {w} : item'[v] = item[v]
    BY <1>9 DEF SendFailed, AfterTask, ItemInv, TypeOK, NoTask
  <2>2. \A v \in Workers, t \in Tasks : Held(v, t)' <=> Held(v, t)
    BY <2>1, SendHeld
  <2>3. /\ head' = head /\ done' = done /\ failed' = failed /\ running' = running
        /\ pc[w] # "died" /\ \A v \in Workers \ {w} : pc'[v] = pc[v]
    BY <1>9 DEF SendFailed, Send, Event, AfterTask, GoTo, TypeOK
  <2>4. \A v \in Workers : DiedOutside(v) => DiedOutside(v)'
    BY <2>1, <2>3, SendFacts DEF DiedOutside
  <2>. QED
    BY <2>2, <2>3, <2>4, TakenKeep
<1>10. ASSUME NEW w \in Workers, AbortSolve(w) PROVE TakenInv'
  BY <1>10 DEF AbortSolve
<1>11. ASSUME NEW w \in Workers, LoseGpu(w) PROVE TakenInv'
  <2>1. /\ item[w] \in Tasks /\ working' = working /\ Send(w, Event("fatal", item[w]))
        /\ item'[w] \in {item[w], NoTask}
        /\ \A v \in Workers \ {w} : item'[v] = item[v]
    BY <1>11 DEF LoseGpu, AfterTask, ItemInv, TypeOK, NoTask
  <2>2. \A v \in Workers, t \in Tasks : Held(v, t)' <=> Held(v, t)
    BY <2>1, SendHeld
  <2>3. /\ head' = head /\ done' = done /\ failed' = failed /\ running' = running
        /\ pc[w] # "died" /\ \A v \in Workers \ {w} : pc'[v] = pc[v]
    BY <1>11 DEF LoseGpu, Send, Event, GoTo, TypeOK
  <2>4. \A v \in Workers : DiedOutside(v) => DiedOutside(v)'
    BY <2>1, <2>3, SendFacts DEF DiedOutside
  <2>. QED
    BY <2>2, <2>3, <2>4, TakenKeep
<1>12. ASSUME NEW w \in Workers, Leave(w) PROVE TakenInv'
  <2>1. /\ head' = head /\ done' = done /\ failed' = failed /\ running' = running
        /\ pipe' = pipe /\ working' = working
    BY <1>12 DEF Leave, GoTo, WatchLost
  <2>2. \A v \in Workers, t \in Tasks : Held(v, t) => Held(v, t)'
    BY <1>12, <2>1 DEF Leave, GoTo, WatchLost, Held, TypeOK, NoTask, Tasks
  <2>3. \A v \in Workers : DiedOutside(v) => DiedOutside(v)'
    BY <1>12, <2>1 DEF Leave, GoTo, WatchLost, DiedOutside, Announced, TypeOK
  <2>. QED
    BY <2>1, <2>2, <2>3, TakenKeep
<1>13. ASSUME NEW w \in Workers, WakeWatch(w) PROVE TakenInv'
  <2>1. /\ head' = head /\ done' = done /\ failed' = failed /\ running' = running
        /\ pipe' = pipe /\ working' = working
    BY <1>13 DEF WakeWatch
  <2>2. \A v \in Workers, t \in Tasks : Held(v, t) => Held(v, t)'
    BY <1>13, <2>1 DEF WakeWatch, Held, TypeOK, NoTask, Tasks
  <2>3. \A v \in Workers : DiedOutside(v) => DiedOutside(v)'
    BY <1>13, <2>1 DEF WakeWatch, DiedOutside, Announced, TypeOK
  <2>. QED
    BY <2>1, <2>2, <2>3, TakenKeep
<1>14. ASSUME NEW w \in Workers, Die(w) PROVE TakenInv'
  <2>1. /\ head' = head /\ done' = done /\ failed' = failed /\ running' = running
        /\ pipe' = pipe /\ working' = working
    BY <1>14 DEF Die
  <2>2. \A v \in Workers : DiedOutside(v) => DiedOutside(v)'
    BY <1>14, <2>1 DEF Die, GoTo, DiedOutside, Announced, TypeOK
  <2>3. ASSUME NEW v \in Workers, NEW t \in Tasks, Held(v, t) PROVE Held(v, t)' \/ DiedOutside(v)'
    <3>1. CASE v # w \/ item[v] # t
      BY <1>14, <2>1, <2>3, <3>1 DEF Die, Held, TypeOK
    <3>2. CASE v = w /\ item[w] = t
      <4>1. item[w] # NoTask /\ pc'[w] = "died" /\ Announced(w)' = Announced(w)
        BY <1>14, <2>1, <3>2 DEF Die, GoTo, Announced, TypeOK, NoTask, Tasks
      <4>2. CASE pc[w] = "taken"
        BY <3>2, <4>1, <4>2 DEF DiedOutside, AnnouncedInv
      <4>3. CASE pc[w] # "taken"
        <5>1. Announced(w) = t
          BY <3>2, <4>1, <4>3 DEF AnnouncedInv, ItemInv
        <5>2. CASE pipe[w] = <<>>
          BY <5>1, <5>2, <2>1, <3>2 DEF Held, Announced
        <5>3. CASE pipe[w] # <<>>
          <6>1. pipe[w] \in Seq(Events) /\ Len(pipe[w]) \in 1..Len(pipe[w])
            BY <5>3, EmptySeq DEF TypeOK
          <6>2. pipe[w][Len(pipe[w])].task = t
            BY <5>1, <5>3 DEF Announced, NoTask, Tasks
          <6>. QED
            BY <6>1, <6>2, <2>1, <3>2 DEF Held
        <5>. QED
          BY <5>2, <5>3
      <4>. QED
        BY <4>2, <4>3
    <3>. QED
      BY <3>1, <3>2
  <2>. QED
    BY <2>1, <2>2, <2>3, TakenKeep
<1>15. ASSUME NEW w \in Workers, Receive(w) PROVE TakenInv'
  <2>1. /\ head' = head /\ running' = running /\ pc' = pc
        /\ done \cup failed \subseteq done' \cup failed'
    BY <1>15 DEF Receive, ReceiveStart, ReceiveDone, ReceiveFailed, ReceiveFatal
  <2>2. \A v \in Workers : DiedOutside(v) => DiedOutside(v)'
    BY <1>15, <2>1, ReceiveFacts DEF DiedOutside
  <2>3. ASSUME NEW v \in Workers, NEW t \in Tasks, Held(v, t)
        PROVE  t \in done' \cup failed' \/ Held(v, t)'
    <3>1. CASE Head(pipe[w]).kind = "start"
      BY <1>15, <2>3, <3>1, ReceiveHeld
    <3>2. CASE Head(pipe[w]).kind # "start"
      <4>1. working[w] \in done' \cup failed'
        BY <1>15, <3>2 DEF Receive, ReceiveStart, ReceiveDone, ReceiveFailed, ReceiveFatal,
           CallSet
      <4>. QED
        BY <1>15, <2>3, <4>1, ReceiveHeld
    <3>. QED
      BY <3>1, <3>2
  <2>. QED
    BY <2>1, <2>2, <2>3, TakenKeep
<1>16. ASSUME NEW w \in Workers, Drained(w) PROVE TakenInv'
  <2>1. /\ head' = head /\ done' = done /\ failed' = failed /\ running' = running
        /\ pipe' = pipe /\ working' = working
    BY <1>16 DEF Drained, InLoop
  <2>2. \A v \in Workers, t \in Tasks : Held(v, t) => Held(v, t)'
    BY <1>16, <2>1 DEF Drained, InLoop, Held, TypeOK, NoTask, Tasks
  <2>3. \A v \in Workers : DiedOutside(v) => DiedOutside(v)'
    BY <1>16, <2>1 DEF Drained, InLoop, DiedOutside, Announced, TypeOK
  <2>. QED
    BY <2>1, <2>2, <2>3, TakenKeep
<1>17. ASSUME NEW w \in Workers, ExitedEnd(w) PROVE TakenInv'
  <2>1. /\ head' = head /\ done \cup failed \subseteq done' \cup failed'
        /\ pipe' = pipe /\ item' = item /\ running \ {w} \subseteq running'
        /\ pipe[w] = <<>> /\ item[w] = NoTask
        /\ \A v \in Workers \ {w} : pc'[v] = pc[v] /\ working'[v] = working[v]
    BY <1>17 DEF ExitedEnd, Reap, InLoop, ItemInv, TypeOK
  <2>2. \A v \in Workers \ {w}, t \in Tasks : Held(v, t) => Held(v, t)'
    BY <2>1 DEF Held
  <2>3. \A v \in Workers \ {w} : DiedOutside(v) => DiedOutside(v)'
    BY <2>1 DEF DiedOutside, Announced
  <2>4. ~DiedOutside(w)
    BY <1>17, <2>1 DEF ExitedEnd, DiedOutside, Announced
  <2>5. \A t \in Tasks : ~Held(w, t)
    <3>1. working[w] = NoTask
      BY <1>17, <2>1 DEF ExitedEnd, AnnouncedInv, Announced
    <3>. QED
      BY <3>1, <2>1, EmptySeq DEF Held, TypeOK, NoTask, Tasks
  <2>. QED
    BY <2>1, <2>2, <2>3, <2>4, <2>5, TakenKeep
<1>18. ASSUME NEW w \in Workers, ExitedForMemory(w) PROVE TakenInv'
  <2>1. /\ head' = head /\ done \cup failed \subseteq done' \cup failed'
        /\ pipe' = pipe /\ item' = item /\ running \ {w} \subseteq running'
        /\ pipe[w] = <<>> /\ item[w] = NoTask
        /\ \A v \in Workers \ {w} : pc'[v] = pc[v] /\ working'[v] = working[v]
    BY <1>18 DEF ExitedForMemory, Reap, InLoop, ItemInv, TypeOK
  <2>2. \A v \in Workers \ {w}, t \in Tasks : Held(v, t) => Held(v, t)'
    BY <2>1 DEF Held
  <2>3. \A v \in Workers \ {w} : DiedOutside(v) => DiedOutside(v)'
    BY <2>1 DEF DiedOutside, Announced
  <2>4. ~DiedOutside(w)
    BY <1>18, <2>1 DEF ExitedForMemory, DiedOutside, Announced
  <2>5. \A t \in Tasks : ~Held(w, t)
    <3>1. working[w] = NoTask
      BY <1>18, <2>1 DEF ExitedForMemory, AnnouncedInv, Announced
    <3>. QED
      BY <3>1, <2>1, EmptySeq DEF Held, TypeOK, NoTask, Tasks
  <2>. QED
    BY <2>1, <2>2, <2>3, <2>4, <2>5, TakenKeep
<1>19. ASSUME NEW w \in Workers, ExitedInTask(w) PROVE TakenInv'
  <2>1. /\ head' = head /\ done \cup failed \subseteq done' \cup failed'
        /\ pipe' = pipe /\ item' = item /\ running \ {w} \subseteq running'
        /\ pipe[w] = <<>> /\ item[w] = NoTask
        /\ \A v \in Workers \ {w} : pc'[v] = pc[v] /\ working'[v] = working[v]
    BY <1>19 DEF ExitedInTask, Reap, InLoop, ItemInv, TypeOK
  <2>2. \A v \in Workers \ {w}, t \in Tasks : Held(v, t) => Held(v, t)'
    BY <2>1 DEF Held
  <2>3. \A v \in Workers \ {w} : DiedOutside(v) => DiedOutside(v)'
    BY <2>1 DEF DiedOutside, Announced
  <2>4. ~DiedOutside(w)
    BY <1>19, <2>1 DEF ExitedInTask, DiedOutside, Announced
  <2>5. \A t \in Tasks : Held(w, t) => t \in done' \cup failed'
    <3>1. working[w] \in failed'
      BY <1>19 DEF ExitedInTask
    <3>. QED
      BY <3>1, <2>1, EmptySeq DEF Held, TypeOK, NoTask, Tasks
  <2>. QED
    BY <2>1, <2>2, <2>3, <2>4, <2>5, TakenKeep
<1>20. ASSUME NEW w \in Workers, ExitedOutsideTask(w) PROVE TakenInv'
  BY <1>20 DEF ExitedOutsideTask, CallSet
<1>21. CASE RequestStop
  <2>1. /\ head' = head /\ done' = done /\ failed' = failed /\ running' = running
        /\ pipe' = pipe /\ working' = working
    BY <1>21 DEF RequestStop
  <2>2. \A v \in Workers, t \in Tasks : Held(v, t) => Held(v, t)'
    BY <1>21, <2>1 DEF RequestStop, Held, TypeOK, NoTask, Tasks
  <2>3. \A v \in Workers : DiedOutside(v) => DiedOutside(v)'
    BY <1>21, <2>1 DEF RequestStop, DiedOutside, Announced, TypeOK
  <2>. QED
    BY <2>1, <2>2, <2>3, TakenKeep
<1>22. CASE PollStop
  <2>1. /\ head' = head /\ done' = done /\ failed' = failed /\ running' = running
        /\ pipe' = pipe /\ working' = working
    BY <1>22 DEF PollStop, AtTop, InLoop, CallSet
  <2>2. \A v \in Workers, t \in Tasks : Held(v, t) => Held(v, t)'
    BY <1>22, <2>1 DEF PollStop, AtTop, InLoop, CallSet, Held, TypeOK, NoTask, Tasks
  <2>3. \A v \in Workers : DiedOutside(v) => DiedOutside(v)'
    BY <1>22, <2>1 DEF PollStop, AtTop, InLoop, CallSet, DiedOutside, Announced, TypeOK
  <2>. QED
    BY <2>1, <2>2, <2>3, TakenKeep
<1>23. CASE Wait
  <2>1. /\ head' = head /\ done' = done /\ failed' = failed /\ running' = running
        /\ pipe' = pipe /\ working' = working
    BY <1>23 DEF Wait, AtTop, InLoop, ReadyHandles
  <2>2. \A v \in Workers, t \in Tasks : Held(v, t) => Held(v, t)'
    BY <1>23, <2>1 DEF Wait, AtTop, InLoop, ReadyHandles, Held, TypeOK, NoTask, Tasks
  <2>3. \A v \in Workers : DiedOutside(v) => DiedOutside(v)'
    BY <1>23, <2>1 DEF Wait, AtTop, InLoop, ReadyHandles, DiedOutside, Announced, TypeOK
  <2>. QED
    BY <2>1, <2>2, <2>3, TakenKeep
<1>24. CASE Handle
  <2>1. /\ head' = head /\ done' = done /\ failed' = failed /\ running' = running
        /\ pipe' = pipe /\ working' = working
    BY <1>24 DEF Handle, InLoop
  <2>2. \A v \in Workers, t \in Tasks : Held(v, t) => Held(v, t)'
    BY <1>24, <2>1 DEF Handle, InLoop, Held, TypeOK, NoTask, Tasks
  <2>3. \A v \in Workers : DiedOutside(v) => DiedOutside(v)'
    BY <1>24, <2>1 DEF Handle, InLoop, DiedOutside, Announced, TypeOK
  <2>. QED
    BY <2>1, <2>2, <2>3, TakenKeep
<1>25. CASE SetReturns
  <2>1. /\ head' = head /\ done' = done /\ failed' = failed /\ running' = running
        /\ pipe' = pipe /\ working' = working
    BY <1>25 DEF SetReturns
  <2>2. \A v \in Workers, t \in Tasks : Held(v, t) => Held(v, t)'
    BY <1>25, <2>1 DEF SetReturns, Held, TypeOK, NoTask, Tasks
  <2>3. \A v \in Workers : DiedOutside(v) => DiedOutside(v)'
    BY <1>25, <2>1 DEF SetReturns, DiedOutside, Announced, TypeOK
  <2>. QED
    BY <2>1, <2>2, <2>3, TakenKeep
<1>26. CASE Return
  <2>1. /\ head' = head /\ done' = done /\ failed' = failed /\ running' = running
        /\ pipe' = pipe /\ working' = working
    BY <1>26 DEF Return, InLoop
  <2>2. \A v \in Workers, t \in Tasks : Held(v, t) => Held(v, t)'
    BY <1>26, <2>1 DEF Return, InLoop, Held, TypeOK, NoTask, Tasks
  <2>3. \A v \in Workers : DiedOutside(v) => DiedOutside(v)'
    BY <1>26, <2>1 DEF Return, InLoop, DiedOutside, Announced, TypeOK
  <2>. QED
    BY <2>1, <2>2, <2>3, TakenKeep
<1>27. CASE UNCHANGED vars
  BY <1>27 DEF Held, DiedOutside, Announced, TypeOK, NoTask, Tasks, TakenInv
<1>. QED
  BY <1>1, <1>2, <1>3, <1>4, <1>5, <1>6, <1>7, <1>8, <1>9, <1>10, <1>11, <1>12, <1>13, <1>14,
     <1>15, <1>16, <1>17, <1>18, <1>19, <1>20, <1>21, <1>22, <1>23, <1>24, <1>25, <1>26,
     <1>27 DEF Next, WorkerStep, ParentStep, ExitedStep

\* No slot comes back to the queue.
LEMMA GoneGrows ==
  ASSUME EndMarkInv, TypeOK, head' = head, Gone \subseteq Gone' PROVE EndMarkInv'
<1>1. IsFiniteSet(Gone') /\ Gone \in SUBSET Gone' /\ Gone' \subseteq Workers
  BY WorkersAssumption, FS_Subset DEF Gone
<1>2. Cardinality(Gone) <= Cardinality(Gone')
  BY <1>1, FS_Subset
<1>3. Cardinality(Gone) \in Nat /\ Cardinality(Gone') \in Nat
  BY <1>1, FS_Subset, FS_CardinalityType
<1>. QED
  BY <1>2, <1>3, NAssumption, EndMarksType DEF EndMarkInv, TypeOK

\* EndMarkInv is kept.
LEMMA EndMarkStep ==
  TypeOK /\ ItemInv /\ PipeInv /\ AnnouncedInv /\ EndMarkInv /\ [Next]_vars => EndMarkInv'
<1>. SUFFICES ASSUME TypeOK, ItemInv, PipeInv, AnnouncedInv, EndMarkInv, [Next]_vars
              PROVE  EndMarkInv'
  OBVIOUS
<1>1. ASSUME NEW w \in Workers, Boot(w) PROVE EndMarkInv'
  <2>1. head' = head
    BY <1>1 DEF Boot, GoTo
  <2>2. Gone \subseteq Gone'
    BY <1>1 DEF Boot, GoTo, Gone, Announced, TypeOK
  <2>. QED
    BY <2>1, <2>2, GoneGrows
<1>2. ASSUME NEW w \in Workers, CheckStop(w) PROVE EndMarkInv'
  <2>1. head' = head
    BY <1>2 DEF CheckStop, GoTo
  <2>2. Gone \subseteq Gone'
    BY <1>2 DEF CheckStop, GoTo, Gone, Announced, TypeOK
  <2>. QED
    BY <2>1, <2>2, GoneGrows
<1>3. ASSUME NEW w \in Workers, LockQueue(w) PROVE EndMarkInv'
  <2>1. head' = head
    BY <1>3 DEF LockQueue, GoTo
  <2>2. Gone \subseteq Gone'
    BY <1>3 DEF LockQueue, GoTo, Gone, Announced, TypeOK
  <2>. QED
    BY <2>1, <2>2, GoneGrows
<1>4. ASSUME NEW w \in Workers, TakeTask(w) PROVE EndMarkInv'
  <2>. SUFFICES head <= N /\ head' = head + 1 /\ Cardinality(Gone') \in Nat
    BY NAssumption DEF EndMarkInv, TypeOK
  <2>1. Gone' \in SUBSET Workers
    BY DEF Gone
  <2>. QED
    BY <1>4, <2>1, WorkersAssumption, FS_Subset, FS_CardinalityType DEF TakeTask
<1>5. ASSUME NEW w \in Workers, TakeEndMark(w) PROVE EndMarkInv'
  <2>1. head' = head + 1 /\ w \notin Gone /\ stop' = stop
    BY <1>5 DEF TakeEndMark, Gone
  <2>2. Gone' = Gone \cup {w}
    BY <1>5 DEF TakeEndMark, GoTo, Gone, Announced, TypeOK
  <2>3. Gone \in SUBSET Workers
    BY DEF Gone
  <2>4. IsFiniteSet(Gone) /\ Cardinality(Gone) \in Nat
    BY <2>3, WorkersAssumption, FS_Subset, FS_CardinalityType
  <2>5. Cardinality(Gone') = Cardinality(Gone) + 1
    BY <2>1, <2>2, <2>4, FS_AddElement
  <2>. QED
    BY <2>1, <2>4, <2>5, NAssumption, EndMarksType DEF EndMarkInv, TypeOK
<1>6. ASSUME NEW w \in Workers, Start(w) PROVE EndMarkInv'
  <2>1. item[w] \in Tasks /\ working' = working /\ Send(w, Event("start", item[w]))
    BY <1>6 DEF Start, AfterTask, ItemInv, TypeOK, NoTask
  <2>2. head' = head /\ w \notin Gone /\ stop' = stop
    BY <1>6 DEF Start, GoTo, Send, Event, Gone
  <2>3. \A v \in Workers \ {w} : pc'[v] = pc[v] /\ Announced(v)' = Announced(v)
    BY <1>6, <2>1, SendFacts DEF Start, GoTo, Send, Event, TypeOK
  <2>4. Gone \subseteq Gone'
    BY <2>2, <2>3 DEF Gone
  <2>. QED
    BY <2>2, <2>4, GoneGrows
<1>7. ASSUME NEW w \in Workers, Commit(w) PROVE EndMarkInv'
  <2>1. head' = head
    BY <1>7 DEF Commit, GoTo
  <2>2. Gone \subseteq Gone'
    BY <1>7 DEF Commit, GoTo, Gone, Announced, TypeOK
  <2>. QED
    BY <2>1, <2>2, GoneGrows
<1>8. ASSUME NEW w \in Workers, SendDone(w) PROVE EndMarkInv'
  <2>1. item[w] \in Tasks /\ working' = working /\ Send(w, Event("done", item[w]))
    BY <1>8 DEF SendDone, AfterTask, ItemInv, TypeOK, NoTask
  <2>2. head' = head /\ w \notin Gone /\ stop' = stop
    BY <1>8 DEF SendDone, Send, Event, AfterTask, GoTo, Gone
  <2>3. \A v \in Workers \ {w} : pc'[v] = pc[v] /\ Announced(v)' = Announced(v)
    BY <1>8, <2>1, SendFacts DEF SendDone, Send, Event, AfterTask, GoTo, TypeOK
  <2>4. Gone \subseteq Gone'
    BY <2>2, <2>3 DEF Gone
  <2>. QED
    BY <2>2, <2>4, GoneGrows
<1>9. ASSUME NEW w \in Workers, SendFailed(w) PROVE EndMarkInv'
  <2>1. item[w] \in Tasks /\ working' = working /\ Send(w, Event("failed", item[w]))
    BY <1>9 DEF SendFailed, AfterTask, ItemInv, TypeOK, NoTask
  <2>2. head' = head /\ w \notin Gone /\ stop' = stop
    BY <1>9 DEF SendFailed, Send, Event, AfterTask, GoTo, Gone
  <2>3. \A v \in Workers \ {w} : pc'[v] = pc[v] /\ Announced(v)' = Announced(v)
    BY <1>9, <2>1, SendFacts DEF SendFailed, Send, Event, AfterTask, GoTo, TypeOK
  <2>4. Gone \subseteq Gone'
    BY <2>2, <2>3 DEF Gone
  <2>. QED
    BY <2>2, <2>4, GoneGrows
<1>10. ASSUME NEW w \in Workers, AbortSolve(w) PROVE EndMarkInv'
  <2>1. head' = head
    BY <1>10 DEF AbortSolve, GoTo
  <2>2. Gone \subseteq Gone'
    BY <1>10 DEF AbortSolve, GoTo, Gone, Announced, TypeOK
  <2>. QED
    BY <2>1, <2>2, GoneGrows
<1>11. ASSUME NEW w \in Workers, LoseGpu(w) PROVE EndMarkInv'
  <2>1. item[w] \in Tasks /\ working' = working /\ Send(w, Event("fatal", item[w]))
    BY <1>11 DEF LoseGpu, AfterTask, ItemInv, TypeOK, NoTask
  <2>2. head' = head /\ w \notin Gone /\ stop' = stop
    BY <1>11 DEF LoseGpu, Send, Event, GoTo, Gone
  <2>3. \A v \in Workers \ {w} : pc'[v] = pc[v] /\ Announced(v)' = Announced(v)
    BY <1>11, <2>1, SendFacts DEF LoseGpu, Send, Event, GoTo, TypeOK
  <2>4. Gone \subseteq Gone'
    BY <2>2, <2>3 DEF Gone
  <2>. QED
    BY <2>2, <2>4, GoneGrows
<1>12. ASSUME NEW w \in Workers, Leave(w) PROVE EndMarkInv'
  <2>1. head' = head
    BY <1>12 DEF Leave, GoTo, WatchLost
  <2>2. Gone \subseteq Gone'
    BY <1>12 DEF Leave, GoTo, WatchLost, Gone, Announced, TypeOK
  <2>. QED
    BY <2>1, <2>2, GoneGrows
<1>13. ASSUME NEW w \in Workers, WakeWatch(w) PROVE EndMarkInv'
  <2>1. head' = head
    BY <1>13 DEF WakeWatch
  <2>2. Gone \subseteq Gone'
    BY <1>13 DEF WakeWatch, Gone, Announced, TypeOK
  <2>. QED
    BY <2>1, <2>2, GoneGrows
<1>14. ASSUME NEW w \in Workers, Die(w) PROVE EndMarkInv'
  <2>1. head' = head /\ pipe' = pipe /\ working' = working /\ stop' = stop
    BY <1>14 DEF Die
  <2>2. \A v \in Workers \ {w} : pc'[v] = pc[v]
    BY <1>14 DEF Die, GoTo, TypeOK
  <2>3. \A v \in Workers : Announced(v)' = Announced(v)
    BY <2>1 DEF Announced
  <2>4. pc'[w] = "died" /\ pc[w] \in LivePoints
    BY <1>14, CrashPointsAssumption DEF Die, GoTo, TypeOK
  <2>5. w \in Gone => w \in Gone'
    BY <2>1, <2>3, <2>4 DEF Gone, AnnouncedInv, LivePoints
  <2>6. Gone \subseteq Gone'
    BY <2>1, <2>2, <2>3, <2>5 DEF Gone
  <2>. QED
    BY <2>1, <2>6, GoneGrows
<1>15. ASSUME NEW w \in Workers, Receive(w) PROVE EndMarkInv'
  <2>1. head' = head /\ pc' = pc /\ (stop # "clear" => stop' # "clear")
    BY <1>15 DEF Receive, ReceiveStart, ReceiveDone, ReceiveFailed, ReceiveFatal, CallSet
  <2>2. Gone \subseteq Gone'
    BY <1>15, <2>1, ReceiveFacts DEF Gone
  <2>. QED
    BY <2>1, <2>2, GoneGrows
<1>16. ASSUME NEW w \in Workers, Drained(w) PROVE EndMarkInv'
  <2>1. head' = head
    BY <1>16 DEF Drained, InLoop
  <2>2. Gone \subseteq Gone'
    BY <1>16 DEF Drained, InLoop, Gone, Announced, TypeOK
  <2>. QED
    BY <2>1, <2>2, GoneGrows
<1>17. ASSUME NEW w \in Workers, ExitedEnd(w) PROVE EndMarkInv'
  <2>1. head' = head
    BY <1>17 DEF ExitedEnd, Reap, InLoop
  <2>2. Gone \subseteq Gone'
    BY <1>17 DEF ExitedEnd, Reap, InLoop, Gone, Announced, TypeOK
  <2>. QED
    BY <2>1, <2>2, GoneGrows
<1>18. ASSUME NEW w \in Workers, ExitedForMemory(w) PROVE EndMarkInv'
  <2>1. head' = head
    BY <1>18 DEF ExitedForMemory, Reap, InLoop
  <2>2. Gone \subseteq Gone'
    BY <1>18 DEF ExitedForMemory, Reap, InLoop, Gone, Announced, TypeOK
  <2>. QED
    BY <2>1, <2>2, GoneGrows
<1>19. ASSUME NEW w \in Workers, ExitedInTask(w) PROVE EndMarkInv'
  <2>1. head' = head /\ pipe' = pipe /\ stop' = stop
    BY <1>19 DEF ExitedInTask, Reap
  <2>2. \A v \in Workers \ {w} : pc'[v] = pc[v] /\ Announced(v)' = Announced(v)
    BY <1>19 DEF ExitedInTask, Reap, Announced, TypeOK
  <2>3. w \in Gone => w \in Gone'
    BY <1>19 DEF ExitedInTask, Reap, Gone, Announced, TypeOK
  <2>4. Gone \subseteq Gone'
    BY <2>1, <2>2, <2>3 DEF Gone
  <2>. QED
    BY <2>1, <2>4, GoneGrows
<1>20. ASSUME NEW w \in Workers, ExitedOutsideTask(w) PROVE EndMarkInv'
  <2>1. head' = head
    BY <1>20 DEF ExitedOutsideTask, Reap, InLoop, CallSet
  <2>2. Gone \subseteq Gone'
    BY <1>20 DEF ExitedOutsideTask, Reap, InLoop, CallSet, Gone, Announced, TypeOK
  <2>. QED
    BY <2>1, <2>2, GoneGrows
<1>21. CASE RequestStop
  <2>1. head' = head
    BY <1>21 DEF RequestStop
  <2>2. Gone \subseteq Gone'
    BY <1>21 DEF RequestStop, Gone, Announced, TypeOK
  <2>. QED
    BY <2>1, <2>2, GoneGrows
<1>22. CASE PollStop
  <2>1. head' = head
    BY <1>22 DEF PollStop, AtTop, InLoop, CallSet
  <2>2. Gone \subseteq Gone'
    BY <1>22 DEF PollStop, AtTop, InLoop, CallSet, Gone, Announced, TypeOK
  <2>. QED
    BY <2>1, <2>2, GoneGrows
<1>23. CASE Wait
  <2>1. head' = head
    BY <1>23 DEF Wait, AtTop, InLoop, ReadyHandles
  <2>2. Gone \subseteq Gone'
    BY <1>23 DEF Wait, AtTop, InLoop, ReadyHandles, Gone, Announced, TypeOK
  <2>. QED
    BY <2>1, <2>2, GoneGrows
<1>24. CASE Handle
  <2>1. head' = head
    BY <1>24 DEF Handle, InLoop
  <2>2. Gone \subseteq Gone'
    BY <1>24 DEF Handle, InLoop, Gone, Announced, TypeOK
  <2>. QED
    BY <2>1, <2>2, GoneGrows
<1>25. CASE SetReturns
  <2>1. head' = head
    BY <1>25 DEF SetReturns
  <2>2. Gone \subseteq Gone'
    BY <1>25 DEF SetReturns, Gone, Announced, TypeOK
  <2>. QED
    BY <2>1, <2>2, GoneGrows
<1>26. CASE Return
  <2>1. head' = head
    BY <1>26 DEF Return, InLoop
  <2>2. Gone \subseteq Gone'
    BY <1>26 DEF Return, InLoop, Gone, Announced, TypeOK
  <2>. QED
    BY <2>1, <2>2, GoneGrows
<1>27. CASE UNCHANGED vars
  BY <1>27 DEF EndMarkInv, Gone, Announced
<1>. QED
  BY <1>1, <1>2, <1>3, <1>4, <1>5, <1>6, <1>7, <1>8, <1>9, <1>10, <1>11, <1>12, <1>13, <1>14,
     <1>15, <1>16, <1>17, <1>18, <1>19, <1>20, <1>21, <1>22, <1>23, <1>24, <1>25, <1>26,
     <1>27 DEF Next, WorkerStep, ParentStep, ExitedStep

-----------------------------------------------------------------------------
\* The inductive invariant holds at the start and is kept.
LEMMA InvInit == Init => IInv
<1>. SUFFICES ASSUME Init PROVE IInv
  OBVIOUS
<1>1. TypeOK
  BY TypeInit
<1>2. ItemInv /\ LeaveInv /\ SlotInv
  BY DEF Init, ItemInv, LeaveInv, SlotInv
<1>3. \A w \in Workers : pipe[w] = <<>> /\ 1..Len(pipe[w]) = {} /\ Announced(w) = NoTask
  BY EmptySeq DEF Init, Announced
<1>4. PipeInv /\ OrderInv
  BY <1>3 DEF PipeInv, OrderInv
<1>5. AnnouncedInv
  BY <1>3 DEF AnnouncedInv, Init
<1>6. CommitInv
  BY <1>3 DEF CommitInv, DoneIsCommitted, Init
<1>7. OwnInv /\ TakenInv
  BY <1>3 DEF OwnInv, TakenInv, Held, Init, Tasks, NoTask
<1>8. ReportedOnce
  BY FS_EmptySet DEF ReportedOnce, Init
<1>9. EndMarkInv
  <2>1. Gone \in SUBSET Workers
    BY DEF Gone
  <2>2. Cardinality(Gone) \in Nat
    BY <2>1, WorkersAssumption, FS_Subset, FS_CardinalityType
  <2>. QED
    BY <2>2, NAssumption DEF EndMarkInv, Init
<1>. QED
  BY <1>1, <1>2, <1>4, <1>5, <1>6, <1>7, <1>8, <1>9 DEF IInv

\* Every step keeps the inductive invariant.
LEMMA InvStep == IInv /\ [Next]_vars => IInv'
BY TypeStep, ItemStep, PipeStep, AnnouncedStep, CommitStep, OwnStep, OrderStep, ReportStep,
   TakenStep, SlotStep, LeaveStep, EndMarkStep DEF IInv

\* The inductive invariant holds in every reachable state.
LEMMA Invariance == Spec => []IInv
<1>1. Init => IInv
  BY InvInit
<1>2. IInv /\ [Next]_vars => IInv'
  BY InvStep
<1>. QED
  BY <1>1, <1>2, PTL DEF Spec

\* Every variable keeps its type.
THEOREM TypeCorrect == Spec => []TypeOK
<1>1. IInv => TypeOK
  BY DEF IInv
<1>. QED
  BY <1>1, Invariance, PTL

\* However many workers die, leave or are replaced, and whenever, no task is
\* reported twice and the counters of solve_queue count what was reported.
THEOREM TasksReportedOnce == Spec => []ReportedOnce
<1>1. IInv => ReportedOnce
  BY DEF IInv
<1>. QED
  BY <1>1, Invariance, PTL

\* on_done names only tasks whose results were committed before.
THEOREM DoneMeansCommitted == Spec => []DoneIsCommitted
<1>1. IInv => DoneIsCommitted
  BY DEF IInv, CommitInv
<1>. QED
  BY <1>1, Invariance, PTL

\* An outcome received from a pipe is the one of the task `working` names.
THEOREM OutcomesNameTheirTask == Spec => []OutcomeNamesItsTask
<1>1. ASSUME IInv, NEW w \in Workers, pipe[w] # <<>>, Head(pipe[w]).kind \in {"done", "failed"}
      PROVE  working[w] = Head(pipe[w]).task
  BY <1>1, HeadEvent DEF IInv
<1>2. IInv => OutcomeNamesItsTask
  BY <1>1 DEF OutcomeNamesItsTask
<1>. QED
  BY <1>2, Invariance, PTL

\* A worker that still reads the queue is not one of those that used up an end mark.
THEOREM NobodyStarves == Spec => []QueueNeverStarves
<1>1. ASSUME IInv, NEW w \in Workers, pc[w] \in {"get", "read"}
      PROVE  head <= N + EndMarks
  <2>1. IsFiniteSet(Workers \ {w}) /\ Cardinality(Workers \ {w}) = EndMarks - 1
    BY WorkersAssumption, FS_RemoveElement DEF EndMarks
  <2>2. Gone \in SUBSET (Workers \ {w})
    BY <1>1 DEF Gone
  <2>3. Cardinality(Gone) <= EndMarks - 1 /\ Cardinality(Gone) \in Nat
    BY <2>1, <2>2, FS_Subset, FS_CardinalityType
  <2>. QED
    BY <1>1, <2>3, NAssumption, EndMarksType DEF IInv, EndMarkInv, TypeOK
<1>2. IInv => QueueNeverStarves
  BY <1>1 DEF QueueNeverStarves
<1>. QED
  BY <1>2, Invariance, PTL

\* When no worker is left and nothing was stopped, every task is reported.
LEMMA AllReported ==
  ASSUME IInv, running = {}, stop = "clear"
  PROVE  done \cup failed = Tasks
<1>1. done \cup failed \subseteq Tasks /\ finished \in Nat
  BY DEF IInv, TypeOK
<1>2. PICK w : w \in Workers
  BY WorkersAssumption
<1>3. head > N \/ finished >= N
  BY <1>2 DEF IInv, SlotInv
<1>4. CASE head > N
  <2>1. \A t \in Tasks : t < head
    BY <1>4, NAssumption DEF IInv, TypeOK, Tasks
  <2>. QED
    BY <1>1, <2>1 DEF IInv, TakenInv
<1>5. CASE finished >= N
  <2>1. IsFiniteSet(Tasks) /\ Cardinality(Tasks) = N
    BY FS_Interval, NAssumption DEF Tasks
  <2>2. finished = Cardinality(done \cup failed)
    BY DEF IInv, ReportedOnce
  <2>3. Cardinality(done \cup failed) <= Cardinality(Tasks)
    BY <1>1, <2>1, FS_Subset
  <2>4. Cardinality(done \cup failed) = Cardinality(Tasks)
    BY <1>1, <1>5, <2>1, <2>2, <2>3, NAssumption
  <2>. QED
    BY <1>1, <2>1, <2>4, FS_Subset
<1>. QED
  BY <1>3, <1>4, <1>5

\* A run that ends without a stop has called back for every task of its queue.
THEOREM EveryTaskIsReported == Spec => []EveryTaskReported
<1>1. ASSUME IInv, result # "running", stop = "clear" PROVE done \cup failed = Tasks
  BY <1>1, AllReported DEF IInv, ItemInv
<1>2. IInv => EveryTaskReported
  BY <1>1 DEF EveryTaskReported
<1>. QED
  BY <1>2, Invariance, PTL

\* An error stops the run, so a run that raises one was stopped.
ErrorInv == error # "none" => stop # "clear"

\* A stopped run stays stopped, and an error is only noted with stop.set().
LEMMA ErrorStep == ErrorInv /\ [Next]_vars => ErrorInv'
<1>. SUFFICES ASSUME ErrorInv, [Next]_vars PROVE ErrorInv'
  OBVIOUS
<1>1. CASE error' = error
  BY <1>1, StopStays DEF ErrorInv
<1>2. ASSUME NEW w \in Workers, Receive(w) PROVE error' = error \/ stop' # "clear"
  BY <1>2 DEF Receive, ReceiveStart, ReceiveDone, ReceiveFailed, ReceiveFatal, CallSet
<1>3. ASSUME NEW w \in Workers, ExitedOutsideTask(w) PROVE stop' # "clear"
  BY <1>3 DEF ExitedOutsideTask, CallSet
<1>4. ASSUME NEW w \in Workers, ExitedStep(w) PROVE error' = error \/ stop' # "clear"
  BY <1>3, <1>4 DEF ExitedStep, ExitedEnd, ExitedForMemory, ExitedInTask
<1>5. ASSUME NEW w \in Workers, WorkerStep(w) \/ WakeWatch(w) \/ Die(w) PROVE error' = error
  BY <1>5 DEF WorkerStep, Boot, CheckStop, LockQueue, TakeTask, TakeEndMark, Start, Commit,
     SendDone, SendFailed, AfterTask, AbortSolve, LoseGpu, Leave, WakeWatch, Die
<1>6. ASSUME ParentStep PROVE error' = error \/ stop' # "clear"
  BY <1>2, <1>4, <1>6 DEF ParentStep, PollStop, Wait, Handle, SetReturns, Return, Drained
<1>7. error' = error \/ stop' # "clear"
  BY <1>5, <1>6 DEF Next, RequestStop
<1>. QED
  BY <1>1, <1>7 DEF ErrorInv

\* A step that takes, keeps and reports no task, stops nothing and ends nothing is
\* a stutter of the ledger.
LEMMA LedgerStutter ==
  ASSUME UNCHANGED <<head, done, failed, committed, stop, result>>
  PROVE  UNCHANGED Ledger!ledgerVars
BY DEF Ledger!ledgerVars, Status

\* A step that changes the status of one task, and that alone.
LEMMA OneStatus ==
  ASSUME NEW t \in Tasks, NEW s,
         Status(t)' = s, \A u \in Tasks \ {t} : Status(u)' = Status(u)
  PROVE  [u \in Tasks |-> Status(u)]' = [[u \in Tasks |-> Status(u)] EXCEPT ![t] = s]
BY Zenon

\* Taking the task at the head of the queue is the ledger's Take.
LEMMA TakeIsTake ==
  ASSUME IInv, NEW w \in Workers, TakeTask(w)
  PROVE  Ledger!LedgerNext
<1>1. head \in Tasks /\ head' = head + 1
  BY NAssumption DEF IInv, TypeOK, TakeTask, Tasks
<1>2. PICK t \in Tasks : t = head
  BY <1>1
<1>3. t \notin done \cup failed
  <2>1. \A u \in done \cup failed : u < head
    BY DEF IInv, OwnInv
  <2>. QED
    BY <1>1, <1>2, <2>1, NAssumption DEF Tasks
<1>4. UNCHANGED <<done, failed, committed, stop, result>>
  BY DEF TakeTask
<1>5. head' = t + 1 /\ \A u \in Tasks : u \in Int
  BY <1>1, <1>2, NAssumption DEF Tasks
<1>6. Status(t) = "pending"
  BY <1>2, <1>3, <1>5 DEF Status
<1>7. Status(t)' = "taken"
  BY <1>3, <1>4, <1>5 DEF Status
<1>8. ASSUME NEW u \in Tasks \ {t} PROVE Status(u)' = Status(u)
  BY <1>2, <1>4, <1>5 DEF Status
<1>9. Ledger!Take(t)
  BY <1>4, <1>6, <1>7, <1>8, OneStatus DEF Ledger!Take
<1>. QED
  BY <1>9 DEF Ledger!LedgerNext

\* The commit of a task a worker holds is the ledger's Keep.
LEMMA CommitIsKeep ==
  ASSUME IInv, NEW w \in Workers, Commit(w)
  PROVE  Ledger!LedgerNext
<1>1. item[w] \in Tasks
  BY DEF IInv, ItemInv, TypeOK, Commit
<1>2. Held(w, item[w])
  BY DEF Held
<1>3. Status(item[w]) = "taken"
  BY <1>1, <1>2 DEF IInv, OwnInv, Status
<1>4. UNCHANGED <<head, done, failed, stop, result>> /\ committed' = committed \cup {item[w]}
  BY DEF Commit
<1>5. PICK t \in Tasks : t = item[w]
  BY <1>1
<1>6. [u \in Tasks |-> Status(u)]' = [u \in Tasks |-> Status(u)]
  BY <1>4 DEF Status
<1>7. Ledger!Keep(t)
  BY <1>3, <1>4, <1>5, <1>6 DEF Ledger!Keep
<1>. QED
  BY <1>7 DEF Ledger!LedgerNext

\* An end mark is no task: the ledger does not see it taken.
LEMMA EndMarkIsStutter ==
  ASSUME IInv, NEW w \in Workers, TakeEndMark(w)
  PROVE  UNCHANGED Ledger!ledgerVars
<1>1. head > N /\ head' = head + 1 /\ head \in Int /\ \A t \in Tasks : t < head /\ t < head'
  BY NAssumption, EndMarksType DEF IInv, TypeOK, TakeEndMark, Tasks
<1>2. UNCHANGED <<done, failed, committed, stop, result>>
  BY DEF TakeEndMark
<1>3. [t \in Tasks |-> Status(t)]' = [t \in Tasks |-> Status(t)]
  BY <1>1, <1>2 DEF Status
<1>. QED
  BY <1>2, <1>3 DEF Ledger!ledgerVars

\* A task that a worker holds and that is now reported as done, and kept, or as failed.
LEMMA ReportIsReport ==
  ASSUME IInv, NEW w \in Workers, NEW t \in Tasks, Held(w, t),
         UNCHANGED <<head, committed, stop, result>>,
         \/ done' = done \cup {t} /\ failed' = failed /\ t \in committed
         \/ failed' = failed \cup {t} /\ done' = done
  PROVE  Ledger!LedgerNext
<1>1. t < head /\ t \notin done \cup failed
  BY DEF IInv, OwnInv
<1>2. Status(t) = "taken"
  BY <1>1 DEF Status
<1>3. ASSUME NEW u \in Tasks \ {t} PROVE Status(u)' = Status(u)
  BY DEF Status
<1>4. CASE done' = done \cup {t} /\ failed' = failed /\ t \in committed
  <2>1. Status(t)' = "done"
    BY <1>1, <1>4 DEF Status
  <2>2. Ledger!ReportDone(t)
    BY <1>2, <1>3, <1>4, <2>1, OneStatus DEF Ledger!ReportDone
  <2>. QED
    BY <2>2 DEF Ledger!LedgerNext
<1>5. CASE failed' = failed \cup {t} /\ done' = done
  <2>1. Status(t)' = "failed"
    BY <1>1, <1>5 DEF Status
  <2>2. Ledger!ReportFailed(t)
    BY <1>2, <1>3, <1>5, <2>1, OneStatus DEF Ledger!ReportFailed
  <2>. QED
    BY <2>2 DEF Ledger!LedgerNext
<1>. QED
  BY <1>4, <1>5

\* A step that at most sets the stop event.
LEMMA StopIsHalt ==
  ASSUME UNCHANGED <<head, done, failed, committed, result>>,
         stop' = stop \/ CallSet
  PROVE  [Ledger!LedgerNext]_Ledger!ledgerVars
<1>1. CASE stop' = stop
  BY <1>1, LedgerStutter
<1>2. CASE stop' # stop
  <2>1. stop' # "clear"
    BY <1>2 DEF CallSet
  <2>2. Ledger!Halt
    BY <2>1 DEF Ledger!Halt, Status
  <2>. QED
    BY <2>2 DEF Ledger!LedgerNext
<1>. QED
  BY <1>1, <1>2

\* An event the parent reads reports the task its pipe holds, stops the run or
\* is none of the ledger's business.
LEMMA ReceiveReports ==
  ASSUME IInv, NEW w \in Workers, Receive(w)
  PROVE  [Ledger!LedgerNext]_Ledger!ledgerVars
<1>1. UNCHANGED <<head, committed, result>>
  BY DEF Receive
<1>. DEFINE e == Head(pipe[w])
<1>2. pipe[w] # <<>> /\ (ReceiveStart(w, e) \/ ReceiveDone(w, e) \/ ReceiveFailed(w, e)
                           \/ ReceiveFatal(w, e))
  BY DEF Receive
<1>3. e.kind # "start" => working[w] = e.task /\ working[w] \in Tasks
  BY <1>2, HeadEvent DEF IInv
<1>4. e = pipe[w][1] /\ 1 \in 1..Len(pipe[w])
  BY <1>2 DEF IInv, TypeOK
<1>5. Held(w, working[w])
  BY DEF Held
<1>6. CASE ReceiveStart(w, e) \/ ReceiveFatal(w, e)
  BY <1>1, <1>6, StopIsHalt DEF ReceiveStart, ReceiveFatal
<1>7. CASE ReceiveDone(w, e)
  <2>1. e.kind = "done" /\ done' = done \cup {working[w]} /\ UNCHANGED <<failed, stop>>
    BY <1>7 DEF ReceiveDone
  <2>2. working[w] \in committed
    BY <1>3, <1>4, <2>1 DEF IInv, CommitInv
  <2>. QED
    BY <1>1, <1>3, <1>5, <2>1, <2>2, ReportIsReport
<1>8. CASE ReceiveFailed(w, e)
  <2>1. e.kind = "failed" /\ failed' = failed \cup {working[w]} /\ UNCHANGED <<done, stop>>
    BY <1>8 DEF ReceiveFailed
  <2>. QED
    BY <1>1, <1>3, <1>5, <2>1, ReportIsReport
<1>. QED
  BY <1>2, <1>6, <1>7, <1>8

\* A worker's exit reports the task its process died in, stops the run or changes nothing.
LEMMA ExitReports ==
  ASSUME IInv, NEW w \in Workers, ExitedStep(w)
  PROVE  [Ledger!LedgerNext]_Ledger!ledgerVars
<1>1. UNCHANGED <<head, committed, done, result>>
  BY DEF ExitedStep, ExitedEnd, ExitedForMemory, ExitedInTask, ExitedOutsideTask, Reap
<1>2. CASE ExitedInTask(w)
  <2>1. working[w] \in Tasks /\ failed' = failed \cup {working[w]} /\ stop' = stop
    BY <1>2 DEF IInv, TypeOK, ExitedInTask
  <2>2. Held(w, working[w])
    BY DEF Held
  <2>. QED
    BY <1>1, <2>1, <2>2, ReportIsReport
<1>3. CASE ExitedEnd(w) \/ ExitedForMemory(w) \/ ExitedOutsideTask(w)
  <2>1. failed' = failed /\ (stop' = stop \/ CallSet)
    BY <1>3 DEF ExitedEnd, ExitedForMemory, ExitedOutsideTask
  <2>. QED
    BY <1>1, <2>1, StopIsHalt
<1>. QED
  BY <1>2, <1>3 DEF ExitedStep

\* The run returns or raises because it was stopped, or has reported every task.
LEMMA ReturnIsFinish ==
  ASSUME IInv, ErrorInv, Return
  PROVE  Ledger!LedgerNext
<1>1. UNCHANGED <<head, done, failed, committed, stop>> /\ running = {} /\ result = "running"
  BY DEF Return, InLoop
<1>2. [t \in Tasks |-> Status(t)]' = [t \in Tasks |-> Status(t)]
  BY <1>1 DEF Status
<1>3. result' \in {"returned", "raised"}
  BY DEF Return
<1>4. CASE stop # "clear"
  BY <1>1, <1>2, <1>3, <1>4 DEF Ledger!Finish, Ledger!LedgerNext
<1>5. CASE stop = "clear"
  <2>1. result' = "returned"
    BY <1>5 DEF Return, ErrorInv
  <2>2. done \cup failed = Tasks
    BY <1>1, <1>5, AllReported
  <2>3. \A t \in Tasks : Status(t) \in {"done", "failed"}
    BY <2>2 DEF Status
  <2>. QED
    BY <1>1, <1>2, <2>1, <2>3 DEF Ledger!Finish, Ledger!LedgerNext
<1>. QED
  BY <1>4, <1>5

\* Every step of the queue is a step of the ledger or leaves it alone.
LEMMA LedgerStep ==
  ASSUME IInv, ErrorInv, [Next]_vars
  PROVE  [Ledger!LedgerNext]_Ledger!ledgerVars
<1>1. ASSUME NEW w \in Workers, WorkerStep(w) \/ WakeWatch(w) \/ Die(w)
      PROVE  [Ledger!LedgerNext]_Ledger!ledgerVars
  <2>1. CASE TakeTask(w) \/ Commit(w)
    BY <2>1, TakeIsTake, CommitIsKeep
  <2>2. CASE Boot(w) \/ CheckStop(w) \/ LockQueue(w) \/ Start(w) \/ SendDone(w) \/ SendFailed(w)
             \/ AbortSolve(w) \/ LoseGpu(w) \/ Leave(w) \/ WakeWatch(w) \/ Die(w)
    <3>1. UNCHANGED <<head, done, failed, committed, stop, result>>
      BY <2>2 DEF Boot, CheckStop, LockQueue, Start, SendDone, SendFailed, AfterTask, AbortSolve,
         LoseGpu, Leave, WakeWatch, Die
    <3>. QED
      BY <3>1, LedgerStutter
  <2>3. CASE TakeEndMark(w)
    BY <2>3, EndMarkIsStutter
  <2>. QED
    BY <1>1, <2>1, <2>2, <2>3 DEF WorkerStep
<1>2. ASSUME NEW w \in Workers, Receive(w) \/ Drained(w) \/ ExitedStep(w)
      PROVE  [Ledger!LedgerNext]_Ledger!ledgerVars
  <2>1. CASE Drained(w)
    BY <2>1, LedgerStutter DEF Drained
  <2>. QED
    BY <1>2, <2>1, ReceiveReports, ExitReports
<1>3. CASE PollStop
  BY <1>3, StopIsHalt DEF PollStop
<1>4. CASE SetReturns
  <2>1. stop # "clear" /\ stop' # "clear" /\ UNCHANGED <<head, done, failed, committed, result>>
    BY <1>4 DEF SetReturns
  <2>. QED
    BY <2>1 DEF Ledger!ledgerVars, Status
<1>5. CASE Return
  BY <1>5, ReturnIsFinish
<1>6. CASE Wait \/ Handle \/ RequestStop \/ UNCHANGED vars
  <2>1. UNCHANGED <<head, done, failed, committed, stop, result>>
    BY <1>6 DEF Wait, Handle, RequestStop
  <2>. QED
    BY <2>1, LedgerStutter
<1>. QED
  BY <1>1, <1>2, <1>3, <1>4, <1>5, <1>6 DEF Next, ParentStep

\* The queue implements the ledger: with any number of workers, deaths, memory
\* exits and stops, a task is handed out once, reported at most once and as done
\* only when its results are kept, and a run nobody stopped ends with all reported.
THEOREM LedgerIsKept == Spec => KeepsLedger
<1>1. Init => IInv /\ ErrorInv
  BY InvInit DEF Init, ErrorInv
<1>2. IInv /\ ErrorInv /\ [Next]_vars => IInv' /\ ErrorInv'
  BY InvStep, ErrorStep
<1>3. Init => Ledger!LedgerInit
  <2>1. Init => \A t \in Tasks : Status(t) = "pending"
    BY NAssumption DEF Init, Tasks, Status
  <2>. QED
    BY <2>1 DEF Init, Ledger!LedgerInit
<1>4. IInv /\ ErrorInv /\ [Next]_vars => [Ledger!LedgerNext]_Ledger!ledgerVars
  BY LedgerStep
<1>. QED
  BY <1>1, <1>2, <1>3, <1>4, PTL DEF Spec, KeepsLedger, Ledger!LedgerSpec
=============================================================================
