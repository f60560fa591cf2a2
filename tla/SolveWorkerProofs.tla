-------------------------- MODULE SolveWorkerProofs --------------------------
(***************************************************************************)
(* Proofs about SolveWorker, for any number of handler threads, any jobs,  *)
(* any number of worker processes that may crash, hang or leave: one       *)
(* thread solves a job, a process answers the request that waits for it,   *)
(* no process is left behind and an answer is its own request's.           *)
(***************************************************************************)
EXTENDS SolveWorker, FiniteSetTheorems, SequenceTheorems, TLAPS

Outcomes == [kind : Kinds \cup {"pending"}, of : Solves \cup {None}]
SolveRecords == [job : Jobs, outcome : Outcomes, done : BOOLEAN]
AnyPlace == Places \cup {"idle"}
States == {"none", "idle", "solving", "exiting", "gone", "read"}

TableOK ==
    /\ client \in [Clients -> [at : AnyPlace, solve : Solves \cup {None}]]
    /\ solves \in Seq(SolveRecords) /\ Len(solves) <= MaxSolves
    /\ inFlight \in [Jobs -> Solves \cup {None}]

HandlesOK ==
    /\ lock \in [Handles -> SUBSET Clients]
    /\ current \in [Handles -> Procs \cup {None}]
    /\ responses \in [Handles -> Procs \cup {None}]

ProcsOK ==
    /\ at \in [Procs -> States]
    /\ queue = [p \in Procs |-> p]
    /\ stdin \in [Procs -> Seq(Solves)]
    /\ stdout \in [Procs -> Seq(Outcomes)]
    /\ answers \in [Procs -> Seq(Outcomes)]

\* A thread that owns the solve it works on.
Busy(c) == client[c].at \notin {"idle", "joined"}

\* The in-flight table names the solve of every owner; nobody shares one.
TableInv ==
    /\ \A c \in Clients : client[c].at # "idle" => client[c].solve \in DOMAIN solves
    /\ \A c \in Clients : Busy(c) => inFlight[JobOf(c)] = client[c].solve
    /\ \A c, d \in Clients : Busy(c) /\ Busy(d) /\ client[c].solve = client[d].solve => c = d
    /\ \A j \in Jobs : inFlight[j] # None => inFlight[j] \in DOMAIN solves /\ solves[inFlight[j]].job = j

\* The lock of a handle is held by the one thread that uses its process.
Locking == {"poll", "write", "get"}
Holds(c, h) == client[c].at \in Locking /\ Handle(c) = h
LockInv ==
    \A h \in Handles :
        /\ \A c \in Clients : c \in lock[h] <=> Holds(c, h)
        /\ \A c, d \in lock[h] : c = d

\* A live process belongs to one handle, whose requests it answers.
HandleInv ==
    /\ \A h \in Handles : current[h] # None => responses[h] = current[h] /\ at[current[h]] # "none"
    /\ \A g, h \in Handles : current[g] # None /\ current[g] = current[h] => g = h
    /\ \A c \in Clients : client[c].at = "get" => current[Handle(c)] # None
    /\ \A h \in Uploaded : current[h] # None =>
         \E c \in Clients : client[c].at \in {"write", "get", "stop"} /\ Handle(c) = h
    /\ \A p \in Procs : Alive(p) => \E h \in Handles : current[h] = p

\* Processes start one after the other, with nothing written.
StartInv ==
    /\ \A p, q \in Procs : p <= q /\ at[q] # "none" => at[p] # "none"
    /\ \A p \in Procs : at[p] = "none" => stdin[p] = <<>> /\ stdout[p] = <<>> /\ answers[p] = <<>>
    /\ \A p \in Procs : at[p] = "solving" => stdin[p] # <<>>

\* What process p and its reader hold of the request of solve s that waits for it: the
\* request, or its answer on the way; then the end of the output, once the reader met it.
Ending(p) == IF at[p] = "read" THEN <<Answer("exited", None)>> ELSE <<>>
AnswersTo(s) == {Answer(k, s) : k \in {"solved", "restart"}}
Asked(p, s) ==
    \/ stdin[p] = <<s>> /\ stdout[p] = <<>> /\ answers[p] = Ending(p)
    \/ stdin[p] = <<>> /\ answers[p] = <<>> /\ at[p] # "read" /\ \E a \in AnswersTo(s) : stdout[p] = <<a>>
    \/ stdin[p] = <<>> /\ stdout[p] = <<>> /\ \E a \in AnswersTo(s) : answers[p] = <<a>> \o Ending(p)
Quiet(p) == stdin[p] = <<>> /\ stdout[p] = <<>> /\ answers[p] = Ending(p)

\* The process of a handle holds what the one waiting request asked, or nothing.
Waits(c, h) == client[c].at = "get" /\ Handle(c) = h
FlowAt(h) ==
    current[h] # None =>
        /\ \A c \in Clients : Waits(c, h) => Asked(current[h], client[c].solve)
        /\ (\A c \in Clients : ~Waits(c, h)) => Quiet(current[h])
FlowInv == \A h \in Handles : FlowAt(h)

\* Only the worker of an uploaded chart is stopped by its request.
StopInv == \A c \in Clients : client[c].at = "stop" => JobOf(c) \in Uploaded

IInv == /\ TableOK /\ HandlesOK /\ ProcsOK /\ TableInv /\ LockInv /\ HandleInv /\ StartInv /\ FlowInv
        /\ StopInv /\ AnswersAreTheirs

-----------------------------------------------------------------------------
\* Sequences of one and two elements.
LEMMA OneElement == ASSUME NEW x PROVE Append(<<>>, x) = <<x>> /\ Head(<<x>>) = x /\ Tail(<<x>>) = <<>> /\ <<x>> # <<>>
  OBVIOUS

\* Appending keeps the type and leaves no empty queue.
LEMMA AppendFacts ==
  ASSUME NEW S, NEW s \in Seq(S), NEW e \in S
  PROVE  Append(s, e) \in Seq(S) /\ Append(s, e) # <<>>
<1>1. Append(s, e) \in Seq(S) /\ Len(Append(s, e)) = Len(s) + 1 /\ Len(s) \in Nat
  OBVIOUS
<1>2. Len(Append(s, e)) # 0
  BY <1>1
<1> QED
  BY <1>1, <1>2, EmptySeq

\* A queue of one element is what its element is.
LEMMA SameSingle ==
  ASSUME NEW S, NEW u \in Seq(S), NEW one \in Seq(S), Len(u) = 1, Len(one) = 1, u[1] = one[1]
  PROVE  u = one
<1>1. \A i \in 1..Len(u) : u[i] = one[i]
  OBVIOUS
<1> QED
  BY <1>1, SeqEqual

\* The second of two elements is left when the first is taken.
LEMMA TailOfTwo ==
  ASSUME NEW S, NEW t \in Seq(S), Len(t) = 2, NEW one \in Seq(S), Len(one) = 1, one[1] = t[2]
  PROVE  Tail(t) = one
<1>1. t # <<>>
  BY EmptySeq
<1>2. Tail(t) \in Seq(S) /\ Len(Tail(t)) = 1 /\ \A i \in 1..Len(Tail(t)) : Tail(t)[i] = t[i + 1]
  BY <1>1, HeadTailProperties
<1>3. 1 \in 1..1 /\ 1 + 1 = 2
  OBVIOUS
<1>4. Tail(t)[1] = one[1]
  BY <1>2, <1>3
<1>5. Tail(t) \in Seq(S) /\ Len(Tail(t)) = 1
  BY <1>2
<1> QED
  BY ONLY one \in Seq(S), Len(one) = 1, <1>4, <1>5, SameSingle

\* Two elements, appended or concatenated.
LEMMA TwoElements ==
  ASSUME NEW x, NEW y
  PROVE  /\ Append(<<x>>, y) = <<x>> \o <<y>>
         /\ <<x>> \o <<>> = <<x>>
         /\ Head(<<x>> \o <<y>>) = x /\ Tail(<<x>> \o <<y>>) = <<y>> /\ <<x>> \o <<y>> # <<>>
<1> DEFINE S == {x, y}
           two == <<x>> \o <<y>>
<1>1. <<x>> \in Seq(S) /\ <<y>> \in Seq(S)
  OBVIOUS
<1>2. two \in Seq(S) /\ Len(two) = 2 /\ two[1] = x /\ two[2] = y
  BY <1>1, ConcatProperties
<1>3. Append(<<x>>, y) \in Seq(S) /\ Len(Append(<<x>>, y)) = 2
      /\ Append(<<x>>, y)[1] = x /\ Append(<<x>>, y)[2] = y
  BY <1>1
<1>4. Append(<<x>>, y) = two
  BY <1>2, <1>3, SeqEqual
<1>5. two # <<>> /\ Head(two) = x
  BY <1>2
<1>6. Len(<<y>>) = 1 /\ <<y>>[1] = y
  OBVIOUS
<1>7. Tail(two) = <<y>>
  BY <1>1, <1>2, <1>6, TailOfTwo
<1> QED
  BY <1>1, <1>4, <1>5, <1>7, ConcatEmptySeq

\* An uploaded job is the only one of its handle.
LEMMA HandleFacts ==
  /\ \A j \in Jobs : HandleOf(j) \in Handles
  /\ \A j \in Jobs, h \in Uploaded : HandleOf(j) = h => j = h
  /\ \A j \in Uploaded : j \in Jobs /\ j \in Handles /\ HandleOf(j) = j
  BY JobsAssumption DEF Jobs, Handles, HandleOf

\* The solves keep their jobs and number.
JobsKept ==
    /\ Len(solves') = Len(solves) /\ DOMAIN solves' = DOMAIN solves
    /\ \A s \in DOMAIN solves : solves'[s].job = solves[s].job

\* The solves are numbered from 1 on.
LEMMA SolvesDomain == ASSUME TableOK PROVE DOMAIN solves = 1..Len(solves) /\ Len(solves) \in 0..MaxSolves
                        /\ DOMAIN solves \subseteq Solves /\ \A s \in DOMAIN solves : solves[s] \in SolveRecords
  BY LenProperties, ElementOfSeq, BoundsAssumption DEF TableOK, Solves

\* A thread with a solve has a job and a handle.
LEMMA JobFacts ==
  ASSUME TableOK, TableInv, NEW c \in Clients, client[c].at # "idle"
  PROVE  client[c].solve \in DOMAIN solves /\ JobOf(c) \in Jobs /\ Handle(c) \in Handles
<1>1. client[c].solve \in DOMAIN solves
  BY DEF TableInv
<1>2. JobOf(c) \in Jobs
  BY <1>1, SolvesDomain DEF JobOf, SolveRecords
<1> QED
  BY <1>1, <1>2, HandleFacts DEF Handle

\* A field of a solve is set.
LEMMA OutcomeSet ==
  ASSUME TableOK, NEW s \in DOMAIN solves, NEW o \in Outcomes, solves' = [solves EXCEPT ![s].outcome = o]
  PROVE  /\ solves' \in Seq(SolveRecords) /\ JobsKept
         /\ solves'[s].outcome = o
         /\ \A r \in DOMAIN solves \ {s} : solves'[r] = solves[r]
<1> DEFINE e == [solves[s] EXCEPT !.outcome = o]
<1>1. s \in 1..Len(solves) /\ solves \in Seq(SolveRecords) /\ solves[s] \in SolveRecords
  BY SolvesDomain DEF TableOK
<1>2. e \in SolveRecords /\ e.job = solves[s].job /\ e.outcome = o
  BY <1>1 DEF SolveRecords
<1>3. solves' = [solves EXCEPT ![s] = e]
  BY <1>1
<1>4. solves' \in Seq(SolveRecords) /\ Len(solves') = Len(solves)
      /\ \A r \in 1..Len(solves) : solves'[r] = IF r = s THEN e ELSE solves[r]
  BY <1>1, <1>2, <1>3, ExceptSeq
<1> QED
  BY <1>1, <1>2, <1>4, SolvesDomain, LenProperties DEF JobsKept

\* The event of a solve is set.
LEMMA DoneSet ==
  ASSUME TableOK, NEW s \in DOMAIN solves, solves' = [solves EXCEPT ![s].done = TRUE]
  PROVE  /\ solves' \in Seq(SolveRecords) /\ JobsKept
         /\ \A r \in DOMAIN solves : solves'[r].outcome = solves[r].outcome
<1> DEFINE e == [solves[s] EXCEPT !.done = TRUE]
<1>1. s \in 1..Len(solves) /\ solves \in Seq(SolveRecords) /\ solves[s] \in SolveRecords
  BY SolvesDomain DEF TableOK
<1>2. e \in SolveRecords /\ e.job = solves[s].job /\ e.outcome = solves[s].outcome
  BY <1>1 DEF SolveRecords
<1>3. solves' = [solves EXCEPT ![s] = e]
  BY <1>1
<1>4. solves' \in Seq(SolveRecords) /\ Len(solves') = Len(solves)
      /\ \A r \in 1..Len(solves) : solves'[r] = IF r = s THEN e ELSE solves[r]
  BY <1>1, <1>2, <1>3, ExceptSeq
<1> QED
  BY <1>1, <1>2, <1>4, SolvesDomain, LenProperties DEF JobsKept

-----------------------------------------------------------------------------
\* A thread goes on with its solve: it and the others keep their jobs and handles.
LEMMA Moved ==
  ASSUME TableOK, TableInv, NEW c \in Clients, NEW place \in AnyPlace, client[c].at # "idle",
         client' = [client EXCEPT ![c].at = place], JobsKept
  PROVE  /\ client' \in [Clients -> [at : AnyPlace, solve : Solves \cup {None}]]
         /\ client'[c].at = place /\ client'[c].solve = client[c].solve
         /\ \A d \in Clients \ {c} : client'[d] = client[d]
         /\ \A d \in Clients : client[d].at # "idle" => JobOf(d)' = JobOf(d) /\ Handle(d)' = Handle(d)
<1>1. /\ client' \in [Clients -> [at : AnyPlace, solve : Solves \cup {None}]]
      /\ client'[c].at = place /\ client'[c].solve = client[c].solve
      /\ \A d \in Clients \ {c} : client'[d] = client[d]
  BY DEF TableOK
<1>2. ASSUME NEW d \in Clients, client[d].at # "idle" PROVE JobOf(d)' = JobOf(d)
  <2>1. client'[d].solve = client[d].solve /\ client[d].solve \in DOMAIN solves
    BY <1>1, <1>2 DEF TableInv
  <2> QED
    BY <2>1 DEF JobOf, JobsKept
<1> QED
  BY <1>1, <1>2 DEF Handle

\* The in-flight table is kept by an owner that goes on.
LEMMA TableMoved ==
  ASSUME TableOK, TableInv, NEW c \in Clients, NEW place \in Places \ {"joined"}, Busy(c),
         client' = [client EXCEPT ![c].at = place], JobsKept, solves' \in Seq(SolveRecords), inFlight' = inFlight
  PROVE  TableOK' /\ TableInv'
<1>1. client[c].at # "idle" /\ place \in AnyPlace /\ place # "idle"
  BY DEF Busy, AnyPlace, Places
<1>2. TableOK'
  BY <1>1, Moved DEF TableOK, JobsKept
<1>3. \A d \in Clients : /\ Busy(d)' <=> Busy(d)
                         /\ client'[d].at # "idle" <=> client[d].at # "idle"
                         /\ client'[d].solve = client[d].solve
  BY <1>1, Moved DEF Busy
<1>4. \A d \in Clients : Busy(d) => inFlight'[JobOf(d)'] = client'[d].solve
  <2>1. \A d \in Clients : Busy(d) => JobOf(d)' = JobOf(d)
    BY <1>1, Moved DEF Busy
  <2> QED
    BY <1>3, <2>1 DEF TableInv
<1>5. \A j \in Jobs : inFlight'[j] # None => inFlight'[j] \in DOMAIN solves' /\ solves'[inFlight'[j]].job = j
  BY DEF TableInv, JobsKept
<1>6. \A d \in Clients : client'[d].at # "idle" => client'[d].solve \in DOMAIN solves'
  BY <1>3 DEF TableInv, JobsKept
<1> QED
  BY <1>2, <1>3, <1>4, <1>5, <1>6 DEF TableInv

\* The end of a request.
LEMMA RequestEnded ==
  ASSUME TableOK, TableInv, NEW c \in Clients, Busy(c), NEW o \in Outcomes, EndRequest(c, o)
  PROVE  /\ solves' \in Seq(SolveRecords) /\ JobsKept
         /\ solves'[client[c].solve].outcome = o
         /\ \A r \in DOMAIN solves \ {client[c].solve} : solves'[r] = solves[r]
         /\ lock' = [lock EXCEPT ![Handle(c)] = {}]
         /\ client' = [client EXCEPT ![c].at = IF JobOf(c) \in Uploaded THEN "stop" ELSE "finish"]
<1>1. client[c].solve \in DOMAIN solves
  BY JobFacts DEF Busy
<1>2. solves' = [solves EXCEPT ![client[c].solve].outcome = o]
  BY DEF EndRequest, SetOutcome
<1> QED
  BY <1>1, <1>2, OutcomeSet DEF EndRequest, GoTo

\* Two owners have different jobs; so OneSolvePerJob holds.
LEMMA OwnersDiffer ==
  ASSUME TableOK, TableInv, NEW c \in Clients, NEW d \in Clients, Busy(c), Busy(d), JobOf(c) = JobOf(d)
  PROVE  c = d
  BY DEF TableInv

\* The handle of an uploaded chart is used by the owner of its job alone.
LEMMA UploadedAlone ==
  ASSUME TableOK, TableInv, NEW h \in Uploaded, NEW c \in Clients, NEW d \in Clients, Busy(c), Busy(d),
         Handle(c) = h, Handle(d) = h
  PROVE  c = d
<1>1. JobOf(c) \in Jobs /\ JobOf(d) \in Jobs
  BY JobFacts DEF Busy
<1>2. JobOf(c) = h /\ JobOf(d) = h
  BY <1>1, HandleFacts DEF Handle
<1> QED
  BY <1>2, OwnersDiffer

-----------------------------------------------------------------------------
\* _stop() kills the process of its handle and touches no other.
LEMMA Stopped ==
  ASSUME HandlesOK, ProcsOK, NEW h \in Handles, Stop(h)
  PROVE  /\ current' \in [Handles -> Procs \cup {None}] /\ at' \in [Procs -> States]
         /\ current'[h] = None
         /\ \A g \in Handles \ {h} : current'[g] = current[g]
         /\ \A p \in Procs : p # current[h] => at'[p] = at[p]
         /\ \A p \in Procs : at'[p] = at[p] \/ (Alive(p) /\ at'[p] = "gone")
         /\ current[h] # None => at'[current[h]] \notin {"idle", "solving", "exiting"}
  BY DEF Stop, HandlesOK, ProcsOK, Alive, States

\* The processes start in order: the next one has not started.
LEMMA NextProc ==
  ASSUME ProcsOK, StartInv
  PROVE  /\ Started \in Nat
         /\ \A p \in Procs : at[p] # "none" <=> p <= Started
<1> DEFINE S == {p \in Procs : at[p] # "none"}
<1>1. IsFiniteSet(S) /\ Cardinality(S) \in Nat
  <2>1. IsFiniteSet(Procs) /\ S \subseteq Procs
    BY FS_Interval, BoundsAssumption DEF Procs, Solves
  <2> QED
    BY <2>1, FS_Subset, FS_CardinalityType
<1>2. Started = Cardinality(S)
  BY DEF Started
<1> DEFINE n == Cardinality(S)
<1> HIDE DEF n
<1>3. ASSUME NEW p \in S PROVE p <= n
  <2>1. p \in Nat /\ 1..p \subseteq S
    BY BoundsAssumption DEF StartInv, Procs, Solves
  <2>2. Cardinality(1..p) = p
    BY <2>1, FS_Interval, FS_EmptySet
  <2> QED
    BY <1>1, <2>1, <2>2, FS_Subset DEF n
<1>4. S \subseteq 1..n
  BY <1>3, <1>1 DEF Procs, Solves, n
<1>5. IsFiniteSet(1..n) /\ Cardinality(1..n) = n
  BY <1>1, FS_Interval, FS_EmptySet DEF n
<1>6. 1..n = S
  BY <1>4, <1>5, FS_Subset DEF n
<1> QED
  BY <1>1, <1>2, <1>6 DEF n, Procs, Solves

\* _start() gives the handle a process that was never started.
LEMMA StartFacts ==
  ASSUME HandlesOK, ProcsOK, StartInv, NEW h \in Handles, Start(h)
  PROVE  \E p \in Procs :
            /\ at[p] = "none" /\ at' = [at EXCEPT ![p] = "idle"] /\ queue' = queue
            /\ current' = [current EXCEPT ![h] = p] /\ responses' = [responses EXCEPT ![h] = p]
            /\ \A q \in Procs : q < p => at[q] # "none"
            /\ \A q \in Procs : q > p => at[q] = "none"
<1> DEFINE p == Started + 1
<1>1. p \in Procs /\ at' = [at EXCEPT ![p] = "idle"] /\ queue' = [queue EXCEPT ![p] = p]
      /\ current' = [current EXCEPT ![h] = p] /\ responses' = [responses EXCEPT ![h] = p]
  BY DEF Start
<1>2. queue' = queue
  BY <1>1 DEF ProcsOK
<1>3. Started \in Nat /\ \A q \in Procs : at[q] # "none" <=> q <= Started
  BY NextProc
<1>4. at[p] = "none" /\ \A q \in Procs : (q < p => at[q] # "none") /\ (q > p => at[q] = "none")
  BY <1>1, <1>3 DEF Procs, Solves
<1> QED
  BY <1>1, <1>2, <1>4

-----------------------------------------------------------------------------
\* Every answer is an outcome.
LEMMA AnswerType ==
  /\ \A k \in Kinds, s \in Solves \cup {None} : Answer(k, s) \in Outcomes /\ Answer(k, s).kind = k /\ Answer(k, s).of = s
  /\ Pending \in Outcomes /\ Pending.kind = "pending"
  BY DEF Answer, Pending, Outcomes, Kinds

\* What a request takes from its queue: the end of the output, or the answer to itself,
\* behind which nothing but the end of the output is left.
LEMMA GetFacts ==
  ASSUME IInv, NEW c \in Clients, Get(c), NEW h, h = Handle(c), NEW p, p = current[h], NEW a, a = Head(answers[p])
  PROVE  /\ h \in Handles /\ p \in Procs /\ responses[h] = p /\ a \in Outcomes
         /\ answers' = [answers EXCEPT ![p] = Tail(@)] /\ EndRequest(c, a)
         /\ \/ a = Answer("exited", None) /\ Stop(h)
            \/ /\ a \in AnswersTo(client[c].solve) /\ stdin[p] = <<>> /\ stdout[p] = <<>>
               /\ Tail(answers[p]) = Ending(p)
               /\ Stop(h) \/ UNCHANGED <<at, current>>
<1>1. client[c].at = "get" /\ h \in Handles /\ client[c].solve \in DOMAIN solves
  BY JobFacts DEF Get, IInv
<1>2. p # None /\ p \in Procs /\ responses[h] = p
  BY <1>1 DEF IInv, HandleInv, HandlesOK
<1>3. /\ answers[p] # <<>> /\ answers' = [answers EXCEPT ![p] = Tail(@)] /\ EndRequest(c, a)
      /\ IF a.kind \in {"restart", "exited"} THEN Stop(h) ELSE UNCHANGED <<at, current>>
  BY <1>2 DEF Get
<1>4. Waits(c, h) /\ Asked(p, client[c].solve)
  BY <1>1, <1>2 DEF IInv, FlowInv, FlowAt, Waits
<1>5. CASE answers[p] = Ending(p)
  <2>1. answers[p] = <<Answer("exited", None)>>
    BY <1>3, <1>5 DEF Ending
  <2>2. a = Answer("exited", None)
    BY <2>1, OneElement
  <2>3. a \in Outcomes /\ a.kind = "exited"
    BY <2>2, AnswerType DEF Kinds
  <2> QED
    BY <1>1, <1>2, <1>3, <2>2, <2>3
<1>6. ASSUME NEW b \in AnswersTo(client[c].solve), answers[p] = <<b>> \o Ending(p), stdin[p] = <<>>, stdout[p] = <<>>
      PROVE  a = b /\ Tail(answers[p]) = Ending(p)
  <2>1. CASE at[p] = "read"
    <3>1. Ending(p) = <<Answer("exited", None)>>
      BY <2>1 DEF Ending
    <3> QED
      BY <1>6, <3>1, TwoElements
  <2>2. CASE at[p] # "read"
    <3>1. Ending(p) = <<>>
      BY <2>2 DEF Ending
    <3>2. answers[p] = <<b>>
      BY <1>6, <3>1, TwoElements
    <3> QED
      BY <3>1, <3>2, OneElement
  <2> QED
    BY <2>1, <2>2
<1>7. AnswersTo(client[c].solve) \subseteq Outcomes
  BY <1>1, SolvesDomain, AnswerType DEF AnswersTo, Kinds, IInv
<1>8. CASE \E b \in AnswersTo(client[c].solve) : answers[p] = <<b>> \o Ending(p) /\ stdin[p] = <<>> /\ stdout[p] = <<>>
  <2>1. a \in AnswersTo(client[c].solve) /\ stdin[p] = <<>> /\ stdout[p] = <<>> /\ Tail(answers[p]) = Ending(p)
    BY <1>6, <1>8
  <2> QED
    BY <1>1, <1>2, <1>3, <1>7, <2>1
<1> QED
  BY <1>3, <1>4, <1>5, <1>8 DEF Asked

\* The steps of an owner, by what they do to the table.
OwnerStep(c) ==
    \/ Slot(c) \/ LockHandle(c) \/ Poll(c) \/ StartFails(c) \/ Write(c) \/ WriteFails(c)
    \/ Get(c) \/ TimeOut(c) \/ StopOwn(c) \/ Finish(c)

\* An owner goes on with its solve, and gives it an outcome that is its own.
LEMMA OwnerShape ==
  ASSUME IInv, NEW c \in Clients, OwnerStep(c)
  PROVE  /\ Busy(c) /\ inFlight' = inFlight /\ solves' \in Seq(SolveRecords) /\ JobsKept
         /\ \E place \in Places \ {"joined"} : client' = [client EXCEPT ![c].at = place]
         /\ AnswersAreTheirs'
<1> USE DEF IInv
<1>1. UNCHANGED solves => solves' \in Seq(SolveRecords) /\ JobsKept /\ AnswersAreTheirs'
  BY DEF TableOK, JobsKept, AnswersAreTheirs
<1>2. CASE Finish(c)
  <2>1. Busy(c) /\ client[c].solve \in DOMAIN solves
    BY <1>2, JobFacts DEF Finish, Busy
  <2>2. solves' = [solves EXCEPT ![client[c].solve].done = TRUE]
    BY <1>2 DEF Finish
  <2>3. /\ solves' \in Seq(SolveRecords) /\ JobsKept
        /\ \A r \in DOMAIN solves : solves'[r].outcome = solves[r].outcome
    BY <2>1, <2>2, DoneSet
  <2>4. AnswersAreTheirs'
    BY <2>3 DEF AnswersAreTheirs, JobsKept
  <2> QED
    BY <1>2, <2>1, <2>3, <2>4 DEF Finish, GoTo, Places
<1>3. ASSUME Busy(c), NEW o \in Outcomes, o.kind \in {"solved", "restart"} => o.of = client[c].solve,
             solves' \in Seq(SolveRecords), JobsKept, solves'[client[c].solve].outcome = o,
             \A r \in DOMAIN solves \ {client[c].solve} : solves'[r] = solves[r]
      PROVE  AnswersAreTheirs'
  BY <1>3 DEF AnswersAreTheirs, JobsKept
<1>4. ASSUME SetOutcome(c, Answer("refused", None)), Slot(c) PROVE Busy(c) /\ solves' \in Seq(SolveRecords) /\ JobsKept /\ AnswersAreTheirs'
  <2>1. Busy(c) /\ client[c].solve \in DOMAIN solves
    BY <1>4, JobFacts DEF Slot, Busy
  <2>2. Answer("refused", None) \in Outcomes /\ Answer("refused", None).kind = "refused"
    BY AnswerType DEF Kinds
  <2>3. /\ solves' \in Seq(SolveRecords) /\ JobsKept
        /\ solves'[client[c].solve].outcome = Answer("refused", None)
        /\ \A r \in DOMAIN solves \ {client[c].solve} : solves'[r] = solves[r]
    BY <1>4, <2>1, <2>2, OutcomeSet DEF SetOutcome
  <2> QED
    BY <1>3, <2>1, <2>2, <2>3
<1>5. CASE Slot(c)
  <2>1. CASE SetOutcome(c, Answer("refused", None))
    BY <1>4, <1>5, <2>1 DEF Slot, GoTo, Places
  <2>2. CASE GoTo(c, "lock") /\ UNCHANGED solves
    BY <1>1, <1>5, <2>2 DEF Slot, Busy, GoTo, Places
  <2> QED
    BY <1>5, <2>1, <2>2 DEF Slot
<1>6. ASSUME NEW o \in Outcomes, o.kind \in {"solved", "restart"} => o.of = client[c].solve, EndRequest(c, o), Busy(c)
      PROVE  /\ solves' \in Seq(SolveRecords) /\ JobsKept /\ AnswersAreTheirs'
             /\ \E place \in Places \ {"joined"} : client' = [client EXCEPT ![c].at = place]
  <2>1. /\ solves' \in Seq(SolveRecords) /\ JobsKept
        /\ solves'[client[c].solve].outcome = o
        /\ \A r \in DOMAIN solves \ {client[c].solve} : solves'[r] = solves[r]
        /\ client' = [client EXCEPT ![c].at = IF JobOf(c) \in Uploaded THEN "stop" ELSE "finish"]
    BY <1>6, RequestEnded
  <2>2. AnswersAreTheirs'
    BY <1>3, <1>6, <2>1
  <2>3. \E place \in Places \ {"joined"} : client' = [client EXCEPT ![c].at = place]
    <3> DEFINE place == IF JobOf(c) \in Uploaded THEN "stop" ELSE "finish"
    <3>1. place \in Places \ {"joined"} /\ client' = [client EXCEPT ![c].at = place]
      BY <2>1 DEF Places
    <3> QED
      BY <3>1
  <2> QED
    BY <2>1, <2>2, <2>3
<1>7. CASE StartFails(c) \/ WriteFails(c) \/ TimeOut(c)
  <2>1. Busy(c) /\ inFlight' = inFlight
    BY <1>7 DEF StartFails, WriteFails, TimeOut, Busy
  <2>2. \E k \in {"unstarted", "disconnected", "timeout"} : EndRequest(c, Answer(k, None))
    BY <1>7 DEF StartFails, WriteFails, TimeOut
  <2>3. \A k \in {"unstarted", "disconnected", "timeout"} : Answer(k, None) \in Outcomes /\ Answer(k, None).kind = k
    BY AnswerType DEF Kinds
  <2> QED
    BY <1>6, <2>1, <2>2, <2>3
<1>8. CASE Get(c)
  <2>1. Busy(c) /\ inFlight' = inFlight /\ client[c].solve \in Solves \cup {None}
    BY <1>8, JobFacts, SolvesDomain DEF Get, Busy
  <2>2. \E a \in Outcomes : EndRequest(c, a) /\ (a = Answer("exited", None) \/ a \in AnswersTo(client[c].solve))
    BY <1>8, GetFacts
  <2>3. \A a \in AnswersTo(client[c].solve) : a.of = client[c].solve
    BY <2>1, AnswerType DEF AnswersTo, Kinds
  <2>4. Answer("exited", None).kind = "exited"
    BY AnswerType DEF Kinds
  <2> QED
    BY <1>6, <2>1, <2>2, <2>3, <2>4
<1>9. CASE LockHandle(c) \/ Poll(c) \/ Write(c) \/ StopOwn(c)
  BY <1>1, <1>9 DEF LockHandle, Poll, Write, StopOwn, tableVars, Busy, GoTo, Places
<1> QED
  BY <1>2, <1>5, <1>7, <1>8, <1>9 DEF OwnerStep

-----------------------------------------------------------------------------
\* A new solve, with the job of the table's entry.
LEMMA OwnFacts ==
  ASSUME TableOK, NEW c \in Clients, NEW j \in Jobs, Own(c, j), NEW n, n = Len(solves) + 1
  PROVE  /\ n \in Solves /\ n \notin DOMAIN solves /\ n # None
         /\ solves' \in Seq(SolveRecords) /\ Len(solves') = n /\ DOMAIN solves' = DOMAIN solves \cup {n}
         /\ solves'[n].job = j /\ solves'[n].outcome = Pending
         /\ \A s \in DOMAIN solves : solves'[s] = solves[s]
         /\ inFlight' = [inFlight EXCEPT ![j] = n]
         /\ client' = [client EXCEPT ![c] = [at |-> "slot", solve |-> n]]
<1> DEFINE e == [job |-> j, outcome |-> Pending, done |-> FALSE]
<1>1. e \in SolveRecords /\ e.job = j /\ e.outcome = Pending
  BY AnswerType DEF SolveRecords
<1>2. solves' = Append(solves, e) /\ Len(solves) < MaxSolves
  BY DEF Own
<1> HIDE DEF e
<1>3. /\ solves' \in Seq(SolveRecords) /\ Len(solves') = n /\ solves'[n] = e
      /\ \A s \in 1..Len(solves) : solves'[s] = solves[s]
  BY <1>1, <1>2 DEF TableOK
<1>4. DOMAIN solves' = 1..n /\ DOMAIN solves = 1..Len(solves) /\ Len(solves) \in 0..MaxSolves
  BY <1>3, SolvesDomain, LenProperties
<1>5. n \in Solves /\ n \notin DOMAIN solves /\ n # None /\ DOMAIN solves' = DOMAIN solves \cup {n}
  BY <1>2, <1>4, BoundsAssumption DEF Solves, None
<1> QED
  BY <1>1, <1>3, <1>4, <1>5 DEF Own

\* Only owners step in the table, and by their own solve.
LEMMA TableStep ==
  ASSUME IInv, [Next]_vars
  PROVE  TableOK' /\ TableInv' /\ AnswersAreTheirs'
<1> USE DEF IInv
<1>1. ASSUME NEW c \in Clients, OwnerStep(c) PROVE TableOK' /\ TableInv' /\ AnswersAreTheirs'
  BY <1>1, OwnerShape, TableMoved
<1>2. ASSUME NEW c \in Clients, NEW j \in Jobs, Own(c, j) PROVE TableOK' /\ TableInv' /\ AnswersAreTheirs'
  <2> DEFINE n == Len(solves) + 1
  <2>1. /\ n \in Solves /\ n \notin DOMAIN solves /\ n # None
        /\ solves' \in Seq(SolveRecords) /\ Len(solves') = n /\ DOMAIN solves' = DOMAIN solves \cup {n}
        /\ solves'[n].job = j /\ solves'[n].outcome = Pending
        /\ \A s \in DOMAIN solves : solves'[s] = solves[s]
        /\ inFlight' = [inFlight EXCEPT ![j] = n]
        /\ client' = [client EXCEPT ![c] = [at |-> "slot", solve |-> n]]
    BY <1>2, OwnFacts
  <2> HIDE DEF n
  <2>2. TableOK'
    BY <2>1, BoundsAssumption DEF TableOK, AnyPlace, Places, Solves
  <2>3. AnswersAreTheirs'
    BY <2>1, AnswerType DEF AnswersAreTheirs
  <2>4. /\ client'[c].at = "slot" /\ client'[c].solve = n /\ JobOf(c)' = j
        /\ \A d \in Clients \ {c} : client'[d] = client[d]
    BY <2>1 DEF TableOK, JobOf
  <2>5. \A d \in Clients \ {c} : client[d].at # "idle" => client[d].solve \in DOMAIN solves /\ JobOf(d)' = JobOf(d)
    BY <2>1, <2>4 DEF TableInv, JobOf
  <2>6. inFlight[j] = None /\ inFlight'[j] = n /\ \A i \in Jobs \ {j} : inFlight'[i] = inFlight[i]
    BY <1>2, <2>1 DEF Own, TableOK
  <2>7. \A d \in Clients \ {c} : Busy(d) => JobOf(d) \in Jobs /\ JobOf(d) # j
    BY <2>5, <2>6, JobFacts, SolvesDomain, BoundsAssumption DEF TableInv, Busy, None, Solves
  <2>8. \A d \in Clients : Busy(d)' <=> (d = c \/ Busy(d))
    BY <2>4 DEF Busy
  <2>9. \A d \in Clients : Busy(d)' => inFlight'[JobOf(d)'] = client'[d].solve
    BY <2>4, <2>5, <2>6, <2>7, <2>8 DEF TableInv, Busy
  <2>10. \A d, e \in Clients : Busy(d)' /\ Busy(e)' /\ client'[d].solve = client'[e].solve => d = e
    BY <2>1, <2>4, <2>5, <2>8 DEF TableInv, Busy
  <2>11. \A d \in Clients : client'[d].at # "idle" => client'[d].solve \in DOMAIN solves'
    BY <2>1, <2>4, <2>5
  <2>12. \A i \in Jobs : inFlight'[i] # None => inFlight'[i] \in DOMAIN solves' /\ solves'[inFlight'[i]].job = i
    BY <2>1, <2>6 DEF TableInv
  <2> QED
    BY <2>2, <2>3, <2>9, <2>10, <2>11, <2>12 DEF TableInv
<1>3. ASSUME NEW c \in Clients, NEW j \in Jobs, Join(c, j) PROVE TableOK' /\ TableInv' /\ AnswersAreTheirs'
  <2>1. /\ client' = [client EXCEPT ![c] = [at |-> "joined", solve |-> inFlight[j]]]
        /\ solves' = solves /\ inFlight' = inFlight /\ inFlight[j] \in DOMAIN solves /\ inFlight[j] \in Solves \cup {None}
        /\ client[c] = Idle
    BY <1>3 DEF Join, tableVars, TableInv, TableOK
  <2>2. TableOK' /\ AnswersAreTheirs'
    BY <2>1 DEF TableOK, AnswersAreTheirs, AnyPlace, Places
  <2>3. /\ client'[c].at = "joined" /\ client'[c].solve = inFlight[j]
        /\ \A d \in Clients \ {c} : client'[d] = client[d]
    BY <2>1 DEF TableOK
  <2>4. \A d \in Clients : /\ Busy(d)' <=> Busy(d)
                           /\ Busy(d) => client'[d] = client[d] /\ JobOf(d)' = JobOf(d)
    BY <2>1, <2>3 DEF Busy, Idle, JobOf
  <2> QED
    BY <2>1, <2>2, <2>3, <2>4 DEF TableInv
<1>4. ASSUME NEW c \in Clients, JoinEnds(c) PROVE TableOK' /\ TableInv' /\ AnswersAreTheirs'
  <2>1. client' = [client EXCEPT ![c] = Idle] /\ solves' = solves /\ inFlight' = inFlight /\ client[c].at = "joined"
    BY <1>4 DEF JoinEnds, tableVars
  <2>2. TableOK' /\ AnswersAreTheirs'
    BY <2>1 DEF TableOK, AnswersAreTheirs, AnyPlace, Idle
  <2>3. client'[c].at = "idle" /\ \A d \in Clients \ {c} : client'[d] = client[d]
    BY <2>1 DEF TableOK, Idle
  <2>4. \A d \in Clients : /\ Busy(d)' <=> Busy(d)
                           /\ Busy(d) => client'[d] = client[d] /\ JobOf(d)' = JobOf(d)
    BY <2>1, <2>3 DEF Busy, JobOf
  <2> QED
    BY <2>1, <2>2, <2>3, <2>4 DEF TableInv
<1>5. ASSUME NEW c \in Clients, Delete(c) PROVE TableOK' /\ TableInv' /\ AnswersAreTheirs'
  <2>1. /\ client' = [client EXCEPT ![c] = Idle] /\ solves' = solves /\ Busy(c)
        /\ inFlight' = [inFlight EXCEPT ![JobOf(c)] = None] /\ JobOf(c) \in Jobs
    BY <1>5, JobFacts DEF Delete, Busy
  <2>2. TableOK' /\ AnswersAreTheirs'
    BY <2>1 DEF TableOK, AnswersAreTheirs, AnyPlace, Idle
  <2>3. client'[c].at = "idle" /\ \A d \in Clients \ {c} : client'[d] = client[d]
    BY <2>1 DEF TableOK, Idle
  <2>4. \A d \in Clients : /\ Busy(d)' <=> Busy(d) /\ d # c
                           /\ d # c => client'[d] = client[d] /\ JobOf(d)' = JobOf(d)
    BY <2>1, <2>3 DEF Busy, JobOf
  <2>5. \A d \in Clients \ {c} : Busy(d) => JobOf(d) \in Jobs /\ JobOf(d) # JobOf(c)
    BY <2>1, OwnersDiffer, JobFacts DEF Busy
  <2>6. \A j \in Jobs : inFlight'[j] = IF j = JobOf(c) THEN None ELSE inFlight[j]
    BY <2>1 DEF TableOK
  <2> QED
    BY <2>1, <2>2, <2>3, <2>4, <2>5, <2>6 DEF TableInv
<1>6. ASSUME UNCHANGED <<client, tableVars>> PROVE TableOK' /\ TableInv' /\ AnswersAreTheirs'
  BY <1>6 DEF tableVars, TableOK, TableInv, AnswersAreTheirs, Busy, JobOf
<1>7. ASSUME NEW p \in Procs, ProcStep(p) PROVE UNCHANGED <<client, tableVars>>
  BY <1>7 DEF ProcStep, ReadRequest, WriteAnswer, Exit, Crash, MoveAnswer, EndOfOutput, tableVars
<1>8. CASE UNCHANGED vars
  BY <1>6, <1>8 DEF vars
<1> QED
  BY <1>1, <1>2, <1>3, <1>4, <1>5, <1>6, <1>7, <1>8 DEF Next, ClientStep, OwnerStep

-----------------------------------------------------------------------------
\* Who goes on keeps its handle; who begins or ends holds none.
LEMMA HandlesStay ==
  ASSUME IInv, NEW c \in Clients, OwnerStep(c)
  PROVE  /\ Handle(c) \in Handles /\ Handle(c)' = Handle(c) /\ client'[c].solve = client[c].solve
         /\ \A d \in Clients \ {c} : client'[d] = client[d]
         /\ \A d \in Clients \ {c} : client[d].at # "idle" => Handle(d)' = Handle(d) /\ Handle(d) \in Handles
<1>1. Busy(c) /\ JobsKept /\ \E place \in Places \ {"joined"} : client' = [client EXCEPT ![c].at = place]
  BY OwnerShape
<1>2. client[c].at # "idle" /\ Places \subseteq AnyPlace
  BY <1>1 DEF Busy, AnyPlace
<1>3. PICK place \in AnyPlace : client' = [client EXCEPT ![c].at = place]
  BY <1>1, <1>2
<1> QED
  BY <1>1, <1>2, <1>3, Moved, JobFacts DEF IInv

\* The steps that begin or end a request touch no handle and no process.
LEMMA OthersStay ==
  ASSUME IInv, NEW c \in Clients,
         JoinEnds(c) \/ Delete(c) \/ \E j \in Jobs : Own(c, j) \/ Join(c, j)
  PROVE  /\ client[c].at \in {"idle", "joined", "delete"} /\ client'[c].at \in {"slot", "joined", "idle"}
         /\ \A d \in Clients \ {c} : client'[d] = client[d]
         /\ \A d \in Clients \ {c} : client[d].at # "idle" => Handle(d)' = Handle(d) /\ Handle(d) \in Handles
         /\ UNCHANGED <<handleVars, procVars>>
<1> USE DEF IInv
<1>1. /\ client[c].at \in {"idle", "joined", "delete"} /\ client'[c].at \in {"slot", "joined", "idle"}
      /\ \A d \in Clients \ {c} : client'[d] = client[d]
      /\ UNCHANGED <<handleVars, procVars>>
  <2>1. CASE JoinEnds(c)
    BY <2>1 DEF JoinEnds, Idle, TableOK
  <2>2. CASE Delete(c)
    BY <2>2 DEF Delete, Idle, TableOK
  <2>3. ASSUME NEW j \in Jobs, Own(c, j) \/ Join(c, j)
        PROVE  /\ client[c].at = "idle" /\ client'[c].at \in {"slot", "joined"}
               /\ \A d \in Clients \ {c} : client'[d] = client[d]
               /\ UNCHANGED <<handleVars, procVars>>
    BY <2>3 DEF Own, Join, Idle, TableOK
  <2> QED
    BY <2>1, <2>2, <2>3
<1>2. \A s \in DOMAIN solves : solves'[s].job = solves[s].job
  <2>1. CASE JoinEnds(c) \/ Delete(c) \/ \E j \in Jobs : Join(c, j)
    BY <2>1 DEF JoinEnds, Delete, Join, tableVars
  <2>2. ASSUME NEW j \in Jobs, Own(c, j) PROVE \A s \in DOMAIN solves : solves'[s] = solves[s]
    BY <2>2, OwnFacts
  <2> QED
    BY <2>1, <2>2
<1>3. \A d \in Clients \ {c} : client[d].at # "idle" => JobOf(d)' = JobOf(d)
  BY <1>1, <1>2 DEF JobOf, TableInv
<1> QED
  BY <1>1, <1>3, JobFacts DEF Handle

-----------------------------------------------------------------------------
\* The lock of a handle.
LEMMA LockStep == ASSUME IInv, [Next]_vars PROVE LockInv'
<1> USE DEF IInv
<1>1. ASSUME NEW c \in Clients, OwnerStep(c), UNCHANGED lock, client[c].at \in Locking <=> client'[c].at \in Locking
      PROVE  LockInv'
  <2>1. \A h \in Handles, d \in Clients : Holds(d, h)' <=> Holds(d, h)
    BY <1>1, HandlesStay DEF Holds, Locking
  <2> QED
    BY <1>1, <2>1 DEF LockInv
<1>2. ASSUME NEW c \in Clients, OwnerStep(c), lock' = [lock EXCEPT ![Handle(c)] = {}], client[c].at \in Locking,
             client'[c].at \notin Locking
      PROVE  LockInv'
  <2>1. \A h \in Handles, d \in Clients : Holds(d, h)' <=> Holds(d, h) /\ d # c
    BY <1>2, HandlesStay DEF Holds, Locking
  <2>2. \A h \in Handles : lock'[h] = IF h = Handle(c) THEN {} ELSE lock[h]
    BY <1>2 DEF HandlesOK
  <2>3. \A d \in Clients : Holds(d, Handle(c)) => d = c
    BY <1>2, HandlesStay DEF LockInv, Holds
  <2>4. \A h \in Handles : Holds(c, h) => h = Handle(c)
    BY DEF Holds
  <2> QED
    BY <2>1, <2>2, <2>3, <2>4 DEF LockInv
<1>3. ASSUME NEW c \in Clients, LockHandle(c) PROVE LockInv'
  <2>1. /\ OwnerStep(c) /\ client[c].at = "lock" /\ client'[c].at = "poll" /\ lock[Handle(c)] = {}
        /\ lock' = [lock EXCEPT ![Handle(c)] = {c}]
    BY <1>3 DEF LockHandle, OwnerStep, GoTo, TableOK
  <2>2. \A h \in Handles, d \in Clients : Holds(d, h)' <=> Holds(d, h) \/ (d = c /\ h = Handle(c))
    BY <2>1, HandlesStay DEF Holds, Locking
  <2>3. \A h \in Handles : lock'[h] = IF h = Handle(c) THEN {c} ELSE lock[h]
    BY <2>1 DEF HandlesOK
  <2>4. Handle(c) \in Handles
    BY <2>1, HandlesStay
  <2> QED
    BY <2>1, <2>2, <2>3, <2>4 DEF LockInv
<1>4. ASSUME NEW c \in Clients, StartFails(c) \/ WriteFails(c) \/ Get(c) \/ TimeOut(c) PROVE LockInv'
  <2>1. client[c].at \in Locking /\ OwnerStep(c) /\ \E o : EndRequest(c, o)
    BY <1>4 DEF StartFails, WriteFails, Get, TimeOut, OwnerStep, Locking
  <2>2. lock' = [lock EXCEPT ![Handle(c)] = {}] /\ client'[c].at \in {"stop", "finish"}
    BY <2>1 DEF EndRequest, GoTo, TableOK
  <2> QED
    BY <1>2, <2>1, <2>2 DEF Locking
<1>5. ASSUME NEW c \in Clients, Slot(c) \/ Poll(c) \/ Write(c) \/ StopOwn(c) \/ Finish(c) PROVE LockInv'
  <2>1. OwnerStep(c) /\ UNCHANGED lock
    BY <1>5 DEF OwnerStep, Slot, Poll, Write, StopOwn, Finish, handleVars
  <2>2. client[c].at \in Locking <=> client'[c].at \in Locking
    BY <1>5 DEF Slot, Poll, Write, StopOwn, Finish, GoTo, TableOK, Locking
  <2> QED
    BY <1>1, <2>1, <2>2
<1>6. ASSUME NEW c \in Clients, JoinEnds(c) \/ Delete(c) \/ \E j \in Jobs : Own(c, j) \/ Join(c, j) PROVE LockInv'
  <2>1. \A h \in Handles, d \in Clients : Holds(d, h)' <=> Holds(d, h)
    BY <1>6, OthersStay DEF Holds, Locking
  <2> QED
    BY <1>6, <2>1, OthersStay DEF LockInv, handleVars
<1>7. ASSUME UNCHANGED <<client, tableVars, lock>> PROVE LockInv'
  BY <1>7 DEF tableVars, LockInv, Holds, Handle, JobOf
<1>8. ASSUME NEW p \in Procs, ProcStep(p) PROVE UNCHANGED <<client, tableVars, lock>>
  BY <1>8 DEF ProcStep, ReadRequest, WriteAnswer, Exit, Crash, MoveAnswer, EndOfOutput, tableVars, handleVars
<1>9. CASE UNCHANGED vars
  BY <1>7, <1>9 DEF vars, handleVars
<1> QED
  BY <1>3, <1>4, <1>5, <1>6, <1>7, <1>8, <1>9 DEF Next, ClientStep

-----------------------------------------------------------------------------
\* What EndRequest does to the lock, and what else the steps of an owner leave alone.
LEMMA LockType ==
  ASSUME HandlesOK, NEW c \in Clients, NEW h, lock' = [lock EXCEPT ![h] = {}] \/ lock' = [lock EXCEPT ![h] = {c}]
  PROVE  lock' \in [Handles -> SUBSET Clients]
  BY DEF HandlesOK

\* A step that stops the process of its handle at most.
Stopping(h) == (Stop(h) \/ UNCHANGED <<at, current>>) /\ UNCHANGED <<responses, queue, stdin, stdout>>

\* What such a step may change.
LEMMA StoppingFacts ==
  ASSUME HandlesOK, ProcsOK, NEW h \in Handles, Stopping(h)
  PROVE  /\ current' \in [Handles -> Procs \cup {None}] /\ at' \in [Procs -> States]
         /\ current'[h] \in {None, current[h]}
         /\ \A g \in Handles \ {h} : current'[g] = current[g]
         /\ \A p \in Procs : p # current[h] => at'[p] = at[p]
         /\ \A p \in Procs : at'[p] = at[p] \/ (Alive(p) /\ at'[p] = "gone")
         /\ current'[h] # current[h] => at'[current[h]] \notin {"idle", "solving", "exiting"}
<1>1. CASE Stop(h)
  BY <1>1, Stopped
<1>2. CASE UNCHANGED <<at, current>>
  BY <1>2 DEF HandlesOK, ProcsOK
<1> QED
  BY <1>1, <1>2 DEF Stopping

\* The types, and the order of the starts.
Kept == HandlesOK' /\ ProcsOK' /\ StartInv'

\* It keeps the types and the order of the starts.
LEMMA KeptByStopping ==
  ASSUME IInv, NEW h \in Handles, Stopping(h), lock' \in [Handles -> SUBSET Clients],
         \/ UNCHANGED answers
         \/ \E p \in Procs : answers[p] # <<>> /\ answers' = [answers EXCEPT ![p] = Tail(@)]
  PROVE  Kept
<1> USE DEF IInv
<1>1. answers' \in [Procs -> Seq(Outcomes)] /\ \A p \in Procs : answers[p] = <<>> => answers'[p] = <<>>
  <2>1. CASE UNCHANGED answers
    BY <2>1 DEF ProcsOK
  <2>2. ASSUME NEW p \in Procs, answers[p] # <<>>, answers' = [answers EXCEPT ![p] = Tail(@)]
        PROVE  answers' \in [Procs -> Seq(Outcomes)] /\ \A q \in Procs : answers[q] = <<>> => answers'[q] = <<>>
    <3>1. Tail(answers[p]) \in Seq(Outcomes)
      BY <2>2, HeadTailProperties DEF ProcsOK
    <3> QED
      BY <2>2, <3>1 DEF ProcsOK
  <2> QED
    BY <2>1, <2>2
<1>2. HandlesOK'
  BY StoppingFacts DEF HandlesOK, Stopping
<1>3. ProcsOK'
  BY <1>1, StoppingFacts DEF ProcsOK, Stopping
<1>4. \A p \in Procs : (at'[p] = "none" <=> at[p] = "none") /\ (at'[p] = "solving" => at[p] = "solving")
  BY StoppingFacts DEF Alive
<1>5. StartInv'
  BY <1>1, <1>4 DEF StartInv, Stopping
<1> QED
  BY <1>2, <1>3, <1>5 DEF Kept

\* So does every step of an owner,
LEMMA OwnerKeeps == ASSUME IInv, NEW c \in Clients, OwnerStep(c) PROVE Kept
<1> USE DEF IInv
<1> DEFINE h == Handle(c)
<1>0. h \in Handles /\ lock \in [Handles -> SUBSET Clients]
  BY HandlesStay DEF HandlesOK
<1> HIDE DEF h
<1>1. CASE Slot(c) \/ LockHandle(c) \/ Finish(c)
  <2>1. lock' \in [Handles -> SUBSET Clients]
    BY <1>1, <1>0, LockType DEF Slot, LockHandle, Finish, handleVars
  <2>2. Stopping(h) /\ UNCHANGED answers
    BY <1>1 DEF Slot, LockHandle, Finish, handleVars, procVars, Stopping
  <2> QED
    BY <1>0, <2>1, <2>2, KeptByStopping
<1>2. CASE WriteFails(c) \/ TimeOut(c) \/ StopOwn(c)
  <2>1. lock' \in [Handles -> SUBSET Clients]
    BY <1>2, <1>0, LockType DEF WriteFails, TimeOut, StopOwn, EndRequest
  <2>2. Stopping(h) /\ UNCHANGED answers
    BY <1>2 DEF WriteFails, TimeOut, StopOwn, Stopping, h
  <2> QED
    BY <1>0, <2>1, <2>2, KeptByStopping
<1>3. CASE Get(c)
  <2>1. lock' \in [Handles -> SUBSET Clients]
    BY <1>3, <1>0, LockType DEF Get, EndRequest
  <2>2. Stopping(h)
    BY <1>3 DEF Get, Stopping, h
  <2>3. \E p \in Procs : answers[p] # <<>> /\ answers' = [answers EXCEPT ![p] = Tail(@)]
    BY <1>3, GetFacts DEF Get, h
  <2> QED
    BY <1>0, <2>1, <2>2, <2>3, KeptByStopping
<1>4. CASE StartFails(c)
  <2>1. lock' \in [Handles -> SUBSET Clients]
    BY <1>4, <1>0, LockType DEF StartFails, EndRequest
  <2>2. current' = [current EXCEPT ![h] = None] /\ UNCHANGED <<responses, procVars>>
    BY <1>4 DEF StartFails, h
  <2> QED
    BY <1>0, <2>1, <2>2 DEF Kept, HandlesOK, ProcsOK, StartInv, procVars
<1>5. CASE Poll(c)
  <2>1. UNCHANGED <<lock, stdin, stdout, answers>>
    BY <1>5 DEF Poll
  <2>2. CASE UNCHANGED <<current, responses, at, queue>>
    BY <2>1, <2>2 DEF Kept, HandlesOK, ProcsOK, StartInv
  <2>3. CASE Start(h)
    <3>1. PICK p \in Procs :
            /\ at[p] = "none" /\ at' = [at EXCEPT ![p] = "idle"] /\ queue' = queue
            /\ current' = [current EXCEPT ![h] = p] /\ responses' = [responses EXCEPT ![h] = p]
            /\ \A q \in Procs : q < p => at[q] # "none"
            /\ \A q \in Procs : q > p => at[q] = "none"
      BY <1>0, <2>3, StartFacts
    <3>2. HandlesOK' /\ ProcsOK'
      BY <2>1, <3>1 DEF HandlesOK, ProcsOK, States
    <3>3. \A q \in Procs : at'[q] = IF q = p THEN "idle" ELSE at[q]
      BY <3>1 DEF ProcsOK
    <3>4. \A q, r \in Procs : q <= r /\ at'[r] # "none" => at'[q] # "none"
      BY <3>1, <3>3, BoundsAssumption DEF StartInv, Procs, Solves
    <3>5. StartInv'
      BY <2>1, <3>3, <3>4 DEF StartInv
    <3> QED
      BY <3>2, <3>5 DEF Kept
  <2> QED
    BY <1>5, <2>2, <2>3 DEF Poll, h
<1>6. CASE Write(c)
  <2> DEFINE p == current[h]
  <2>1. p \in Procs /\ at[p] # "none" /\ stdin' = [stdin EXCEPT ![p] = Append(@, client[c].solve)]
        /\ UNCHANGED <<handleVars, at, queue, stdout, answers>>
    BY <1>0, <1>6 DEF Write, Alive, HandlesOK, h
  <2>2. client[c].solve \in Solves
    BY <1>6, JobFacts, SolvesDomain DEF Write
  <2> HIDE DEF p
  <2>3. HandlesOK' /\ ProcsOK'
    BY <2>1, <2>2 DEF HandlesOK, ProcsOK, handleVars
  <2>4. stdin'[p] # <<>> /\ \A q \in Procs \ {p} : stdin'[q] = stdin[q]
    <3>1. stdin'[p] = Append(stdin[p], client[c].solve) /\ stdin[p] \in Seq(Solves)
      BY <2>1 DEF ProcsOK
    <3> QED
      BY <2>1, <2>2, <3>1, AppendFacts DEF ProcsOK
  <2>5. StartInv'
    BY <2>1, <2>4 DEF StartInv
  <2> QED
    BY <2>3, <2>5 DEF Kept
<1> QED
  BY <1>1, <1>2, <1>3, <1>4, <1>5, <1>6 DEF OwnerStep

\* A step of process p, or of the reader of its output, touches p alone.
LEMMA ProcFacts ==
  ASSUME IInv, NEW p \in Procs, ProcStep(p)
  PROVE  /\ UNCHANGED <<client, tableVars, handleVars, queue>>
         /\ \A q \in Procs \ {p} : /\ at'[q] = at[q] /\ stdin'[q] = stdin[q]
                                   /\ stdout'[q] = stdout[q] /\ answers'[q] = answers[q]
         /\ at[p] # "none" /\ at'[p] # "none" /\ (at'[p] \in {"idle", "solving", "exiting"} => Alive(p))
         /\ at'[p] = "solving" => stdin'[p] # <<>>
         /\ ProcsOK'
<1> USE DEF IInv
<1>0. p # None /\ UNCHANGED <<client, tableVars, handleVars, queue>>
  BY BoundsAssumption DEF ProcStep, ReadRequest, WriteAnswer, Exit, Crash, MoveAnswer, EndOfOutput, Procs, Solves, None
<1>1. CASE ReadRequest(p) \/ Exit(p) \/ Crash(p)
  <2>1. /\ UNCHANGED <<stdin, stdout, answers>> /\ at[p] \in {"idle", "solving", "exiting"}
        /\ \E s \in {"solving", "gone"} : at' = [at EXCEPT ![p] = s] /\ (s = "solving" => stdin[p] # <<>>)
    BY <1>1 DEF ReadRequest, Exit, Crash
  <2> QED
    BY <1>0, <2>1 DEF ProcsOK, States, Alive
<1>2. CASE WriteAnswer(p)
  <2>1. at[p] = "solving" /\ stdin[p] # <<>> /\ stdin[p] \in Seq(Solves) /\ stdout[p] \in Seq(Outcomes)
    BY <1>2 DEF WriteAnswer, StartInv, ProcsOK
  <2>2. Head(stdin[p]) \in Solves /\ Tail(stdin[p]) \in Seq(Solves)
    BY <2>1, HeadTailProperties
  <2>3. /\ \E kind \in {"solved", "restart"} : stdout' = [stdout EXCEPT ![p] = Append(@, Answer(kind, Head(stdin[p])))]
        /\ \E s \in {"exiting", "idle"} : at' = [at EXCEPT ![p] = s]
        /\ stdin' = [stdin EXCEPT ![p] = Tail(@)] /\ UNCHANGED answers
    BY <1>2 DEF WriteAnswer
  <2>4. \A k \in {"solved", "restart"} : Answer(k, Head(stdin[p])) \in Outcomes
    BY <2>2, AnswerType DEF Kinds
  <2>5. PICK o \in Outcomes : stdout' = [stdout EXCEPT ![p] = Append(@, o)]
    BY <2>3, <2>4
  <2>6. Append(stdout[p], o) \in Seq(Outcomes)
    BY <2>1, AppendFacts
  <2>7. ProcsOK'
    BY <1>0, <2>2, <2>3, <2>5, <2>6 DEF ProcsOK, States
  <2> QED
    BY <1>0, <2>1, <2>3, <2>5, <2>7 DEF ProcsOK, Alive
<1>3. CASE MoveAnswer(p)
  <2>1. /\ stdout[p] # <<>> /\ stdout' = [stdout EXCEPT ![p] = Tail(@)]
        /\ answers' = [answers EXCEPT ![p] = Append(@, Head(stdout[p]))] /\ UNCHANGED <<at, stdin>>
    BY <1>3 DEF MoveAnswer, ProcsOK
  <2>2. Head(stdout[p]) \in Outcomes /\ Tail(stdout[p]) \in Seq(Outcomes) /\ at[p] # "none"
    BY <2>1, HeadTailProperties DEF ProcsOK, StartInv
  <2>3. Append(answers[p], Head(stdout[p])) \in Seq(Outcomes)
    BY <2>2, AppendFacts DEF ProcsOK
  <2>4. ProcsOK'
    BY <1>0, <2>1, <2>2, <2>3 DEF ProcsOK
  <2> QED
    BY <1>0, <2>1, <2>2, <2>4 DEF ProcsOK, Alive, StartInv
<1>4. CASE EndOfOutput(p)
  <2>1. /\ at[p] = "gone" /\ stdout' = [stdout EXCEPT ![p] = <<>>] /\ at' = [at EXCEPT ![p] = "read"]
        /\ answers' = [answers EXCEPT ![p] = Append(@, Answer("exited", None))] /\ UNCHANGED stdin
    BY <1>4 DEF EndOfOutput, ProcsOK
  <2>2. Append(answers[p], Answer("exited", None)) \in Seq(Outcomes)
    BY AppendFacts, AnswerType DEF ProcsOK, Kinds
  <2>3. ProcsOK'
    BY <1>0, <2>1, <2>2 DEF ProcsOK, States
  <2> QED
    BY <1>0, <2>1, <2>3 DEF ProcsOK
<1> QED
  BY <1>1, <1>2, <1>3, <1>4 DEF ProcStep

\* and every step.
LEMMA KeptStep == ASSUME IInv, [Next]_vars PROVE Kept
<1>1. ASSUME NEW p \in Procs, ProcStep(p) PROVE Kept
  <2>1. /\ HandlesOK' /\ ProcsOK'
        /\ \A q \in Procs : at'[q] = "none" <=> at[q] = "none"
    BY <1>1, ProcFacts DEF IInv, HandlesOK, handleVars
  <2>2. \A q, r \in Procs : q <= r /\ at'[r] # "none" => at'[q] # "none"
    BY <2>1 DEF IInv, StartInv
  <2>3. StartInv'
    BY <1>1, <2>1, <2>2, ProcFacts DEF IInv, StartInv
  <2> QED
    BY <2>1, <2>3 DEF Kept
<1>2. ASSUME UNCHANGED <<handleVars, procVars>> PROVE Kept
  BY <1>2 DEF Kept, IInv, HandlesOK, ProcsOK, StartInv, handleVars, procVars
<1>3. ASSUME NEW c \in Clients, JoinEnds(c) \/ Delete(c) \/ \E j \in Jobs : Own(c, j) \/ Join(c, j) PROVE Kept
  BY <1>2, <1>3, OthersStay
<1>4. CASE UNCHANGED vars
  BY <1>2, <1>4 DEF vars
<1> QED
  BY <1>1, <1>3, <1>4, OwnerKeeps DEF Next, ClientStep, OwnerStep

-----------------------------------------------------------------------------
\* The request of an uploaded chart, and no other, goes on to stop its worker.
LEMMA StopStep == ASSUME IInv, [Next]_vars PROVE StopInv'
<1> USE DEF IInv
<1>1. ASSUME NEW c \in Clients, OwnerStep(c) PROVE StopInv'
  <2>1. client[c].at # "idle" /\ JobsKept /\ \E place \in AnyPlace : client' = [client EXCEPT ![c].at = place]
    BY <1>1, OwnerShape DEF Busy, AnyPlace
  <2>2. /\ \A d \in Clients \ {c} : client'[d] = client[d]
        /\ \A d \in Clients : client[d].at # "idle" => JobOf(d)' = JobOf(d)
    BY <2>1, Moved
  <2>3. client'[c].at = "stop" => JobOf(c) \in Uploaded
    <3>1. CASE \E o : EndRequest(c, o)
      BY <3>1 DEF EndRequest, GoTo, TableOK
    <3>2. CASE Slot(c) \/ LockHandle(c) \/ Poll(c) \/ Write(c) \/ StopOwn(c) \/ Finish(c)
      BY <3>2 DEF Slot, LockHandle, Poll, Write, StopOwn, Finish, GoTo, TableOK
    <3> QED
      BY <1>1, <3>1, <3>2 DEF OwnerStep, StartFails, WriteFails, Get, TimeOut
  <2> QED
    BY <2>1, <2>2, <2>3 DEF StopInv
<1>2. ASSUME NEW c \in Clients, JoinEnds(c) \/ Delete(c) \/ \E j \in Jobs : Own(c, j) \/ Join(c, j) PROVE StopInv'
  <2>1. \A s \in DOMAIN solves : solves'[s].job = solves[s].job
    <3>1. CASE JoinEnds(c) \/ Delete(c) \/ \E j \in Jobs : Join(c, j)
      BY <3>1 DEF JoinEnds, Delete, Join, tableVars
    <3>2. ASSUME NEW j \in Jobs, Own(c, j) PROVE \A s \in DOMAIN solves : solves'[s] = solves[s]
      BY <3>2, OwnFacts
    <3> QED
      BY <1>2, <3>1, <3>2
  <2> QED
    BY <1>2, <2>1, OthersStay DEF StopInv, JobOf, TableInv
<1>3. ASSUME UNCHANGED <<client, tableVars>> PROVE StopInv'
  BY <1>3 DEF tableVars, StopInv, JobOf
<1>4. ASSUME NEW p \in Procs, ProcStep(p) PROVE UNCHANGED <<client, tableVars>>
  BY <1>4, ProcFacts
<1>5. CASE UNCHANGED vars
  BY <1>3, <1>5 DEF vars
<1> QED
  BY <1>1, <1>2, <1>3, <1>4, <1>5 DEF Next, ClientStep, OwnerStep

-----------------------------------------------------------------------------
\* The five parts of HandleInv.
AnswersHere(h) == current[h] # None => responses[h] = current[h] /\ at[current[h]] # "none"
NoSharing == \A g, h \in Handles : current[g] # None /\ current[g] = current[h] => g = h
GetsFrom(c) == client[c].at = "get" => current[Handle(c)] # None
UsedBy(c, h) == client[c].at \in {"write", "get", "stop"} /\ Handle(c) = h
OwnedBy(p) == Alive(p) => \E h \in Handles : current[h] = p

\* HandleInv after a step, from its parts.
LEMMA HandlePartsAfter ==
  ASSUME /\ \A h \in Handles : AnswersHere(h)'
         /\ NoSharing'
         /\ \A c \in Clients : GetsFrom(c)'
         /\ \A h \in Uploaded : current'[h] # None => \E c \in Clients : UsedBy(c, h)'
         /\ \A p \in Procs : OwnedBy(p)'
  PROVE  HandleInv'
  BY DEF HandleInv, AnswersHere, NoSharing, GetsFrom, UsedBy, OwnedBy

\* Two threads that use the process of one handle are one.
LEMMA UserAlone ==
  ASSUME IInv, NEW c \in Clients, NEW d \in Clients, client[c].at \in Locking \cup {"stop"}, client[d].at \in Locking,
         Handle(c) = Handle(d)
  PROVE  c = d
<1> USE DEF IInv
<1>0. Handle(c) \in Handles /\ Busy(c) /\ Busy(d) /\ JobOf(c) \in Jobs
  BY JobFacts DEF Locking, Busy
<1>1. CASE client[c].at \in Locking
  BY <1>0, <1>1 DEF LockInv, Holds
<1>2. CASE client[c].at = "stop"
  <2>1. JobOf(c) \in Uploaded
    BY <1>2 DEF StopInv
  <2>2. Handle(c) \in Uploaded
    BY <2>1, HandleFacts DEF Handle
  <2> QED
    BY <1>0, <2>2, UploadedAlone
<1> QED
  BY <1>1, <1>2

\* The process of handle h is stopped and forgotten at most.
Dropping(h) ==
    /\ current'[h] \in {None, current[h]}
    /\ \A g \in Handles \ {h} : current'[g] = current[g]
    /\ \A p \in Procs : p # current[h] => at'[p] = at[p]
    /\ \A p \in Procs : at'[p] = at[p] \/ (Alive(p) /\ at'[p] = "gone")
    /\ current'[h] # current[h] => at'[current[h]] \notin {"idle", "solving", "exiting"}
    /\ responses' = responses

\* The steps of an owner that start no process and write no request.
LEMMA OwnerDrops ==
  ASSUME IInv, NEW c \in Clients,
         \/ Slot(c) \/ LockHandle(c) \/ StartFails(c) \/ WriteFails(c) \/ Get(c) \/ TimeOut(c) \/ StopOwn(c)
         \/ Finish(c)
  PROVE  /\ OwnerStep(c) /\ Dropping(Handle(c)) /\ client'[c].at # "get"
         /\ current'[Handle(c)] # current[Handle(c)] => client[c].at \in Locking \cup {"stop"}
         /\ /\ current'[Handle(c)] # None /\ client[c].at \in {"write", "get", "stop"} /\ JobOf(c) \in Uploaded
            => client'[c].at = "stop"
<1> USE DEF IInv
<1> DEFINE h == Handle(c)
<1>1. OwnerStep(c) /\ h \in Handles
  BY HandlesStay DEF OwnerStep
<1> HIDE DEF h
<1>2. CASE Slot(c) \/ LockHandle(c) \/ Finish(c)
  <2>1. Stopping(h) /\ current' = current /\ responses' = responses
    BY <1>2 DEF Slot, LockHandle, Finish, handleVars, procVars, Stopping
  <2>2. client[c].at \in {"slot", "lock", "finish"} /\ client'[c].at # "get"
    BY <1>2 DEF Slot, LockHandle, Finish, GoTo, TableOK
  <2> QED
    BY <1>1, <2>1, <2>2, StoppingFacts DEF Dropping, h
<1>3. ASSUME NEW o, EndRequest(c, o)
      PROVE  client'[c].at = IF JobOf(c) \in Uploaded THEN "stop" ELSE "finish"
  BY <1>3 DEF EndRequest, GoTo, TableOK
<1>4. CASE WriteFails(c) \/ TimeOut(c) \/ Get(c)
  <2>1. Stopping(h) /\ responses' = responses /\ client[c].at \in {"write", "get"} /\ \E o : EndRequest(c, o)
    BY <1>4 DEF WriteFails, TimeOut, Get, Stopping, h
  <2> QED
    BY <1>1, <1>3, <2>1, StoppingFacts DEF Dropping, Locking, h
<1>5. CASE StopOwn(c)
  <2>1. Stopping(h) /\ Stop(h) /\ responses' = responses /\ client[c].at = "stop" /\ client'[c].at = "finish"
    BY <1>5 DEF StopOwn, Stopping, GoTo, TableOK, h
  <2>2. current'[h] = None
    BY <1>1, <2>1, Stopped
  <2> QED
    BY <1>1, <2>1, <2>2, StoppingFacts DEF Dropping, h
<1>6. CASE StartFails(c)
  <2>1. /\ current' = [current EXCEPT ![h] = None] /\ at' = at /\ responses' = responses /\ ~Alive(current[h])
        /\ client[c].at = "poll" /\ \E o : EndRequest(c, o)
    BY <1>6 DEF StartFails, procVars, h
  <2>2. Dropping(h) /\ current'[h] = None
    BY <1>1, <2>1 DEF Dropping, HandlesOK, Alive
  <2> QED
    BY <1>1, <1>3, <2>1, <2>2 DEF Locking, h
<1> QED
  BY <1>2, <1>4, <1>5, <1>6

\* Such a step of the one thread that uses a handle keeps what the handles know.
LEMMA HandleDropped ==
  ASSUME IInv, NEW c \in Clients,
         \/ Slot(c) \/ LockHandle(c) \/ StartFails(c) \/ WriteFails(c) \/ Get(c) \/ TimeOut(c) \/ StopOwn(c)
         \/ Finish(c)
  PROVE  HandleInv'
<1> USE DEF IInv
<1> DEFINE h == Handle(c)
<1>1. /\ OwnerStep(c) /\ Dropping(h) /\ client'[c].at # "get"
      /\ current'[h] # current[h] => client[c].at \in Locking \cup {"stop"}
      /\ /\ current'[h] # None /\ client[c].at \in {"write", "get", "stop"} /\ JobOf(c) \in Uploaded
         => client'[c].at = "stop"
  BY OwnerDrops
<1>2. /\ h \in Handles /\ Handle(c)' = h
      /\ \A d \in Clients \ {c} : client'[d] = client[d]
      /\ \A d \in Clients \ {c} : client[d].at # "idle" => Handle(d)' = Handle(d) /\ Handle(d) \in Handles
  BY <1>1, HandlesStay
<1> HIDE DEF h
<1>3. \A g \in Handles : current'[g] \in {None, current[g]} /\ current[g] \in Procs \cup {None}
  BY <1>1, <1>2 DEF Dropping, HandlesOK
<1>4. \A p \in Procs : (at'[p] = "none" <=> at[p] = "none") /\ (Alive(p)' => Alive(p))
  BY <1>1 DEF Dropping, Alive
<1>5. \A g \in Handles : AnswersHere(g)'
  BY <1>1, <1>3, <1>4 DEF AnswersHere, HandleInv, Dropping
<1>6. NoSharing'
  BY <1>3 DEF NoSharing, HandleInv
<1>7. ASSUME NEW d \in Clients PROVE GetsFrom(d)'
  <2>1. CASE client'[d].at # "get"
    BY <2>1 DEF GetsFrom
  <2>2. CASE client'[d].at = "get"
    <3>1. d # c /\ client[d].at = "get" /\ Handle(d)' = Handle(d) /\ Handle(d) \in Handles /\ current[Handle(d)] # None
      BY <1>1, <1>2, <2>2 DEF HandleInv
    <3>2. CASE Handle(d) # h
      BY <1>1, <3>1, <3>2 DEF Dropping, GetsFrom
    <3>3. CASE Handle(d) = h
      <4>1. client[c].at \notin Locking \cup {"stop"}
        BY <3>1, <3>3, UserAlone DEF h, Locking
      <4> QED
        BY <1>1, <3>1, <3>3, <4>1 DEF GetsFrom
    <3> QED
      BY <3>2, <3>3
  <2> QED
    BY <2>1, <2>2
<1>8. ASSUME NEW g \in Uploaded, current'[g] # None PROVE \E d \in Clients : UsedBy(d, g)'
  <2>1. g \in Handles /\ current[g] # None
    BY <1>3, <1>8, HandleFacts
  <2>2. PICK d \in Clients : client[d].at \in {"write", "get", "stop"} /\ Handle(d) = g
    BY <2>1 DEF HandleInv
  <2>3. CASE d # c
    BY <1>2, <2>2, <2>3 DEF UsedBy
  <2>4. CASE d = c
    <3>1. JobOf(c) \in Uploaded /\ g = h
      BY <2>2, <2>4, JobFacts, HandleFacts DEF Handle, h
    <3>2. UsedBy(c, g)'
      BY <1>1, <1>2, <1>8, <2>2, <2>4, <3>1 DEF UsedBy
    <3> QED
      BY <3>2
  <2> QED
    BY <2>3, <2>4
<1>9. ASSUME NEW p \in Procs, Alive(p)' PROVE \E g \in Handles : current'[g] = p
  <2>1. Alive(p) /\ at'[p] \in {"idle", "solving", "exiting"}
    BY <1>4, <1>9 DEF Alive
  <2>2. PICK g \in Handles : current[g] = p
    BY <2>1 DEF HandleInv
  <2>3. current'[g] = p
    BY <1>1, <2>1, <2>2 DEF Dropping
  <2> QED
    BY <2>3
<1>10. \A p \in Procs : OwnedBy(p)'
  BY <1>9 DEF OwnedBy
<1> QED
  BY <1>5, <1>6, <1>7, <1>8, <1>10, HandlePartsAfter

\* The other steps of an owner start a process or write to it.
LEMMA HandlePoll == ASSUME IInv, NEW c \in Clients, Poll(c) PROVE HandleInv'
<1> USE DEF IInv
<1> DEFINE h == Handle(c)
<1>1. OwnerStep(c) /\ client[c].at = "poll" /\ client'[c].at = "write" /\ h \in Handles
  BY HandlesStay DEF Poll, OwnerStep, GoTo, TableOK
<1>2. /\ Handle(c)' = h
      /\ \A d \in Clients \ {c} : client'[d] = client[d]
      /\ \A d \in Clients \ {c} : client[d].at # "idle" => Handle(d)' = Handle(d) /\ Handle(d) \in Handles
  BY <1>1, HandlesStay
<1>3. IF Alive(current[h]) THEN UNCHANGED <<current, responses, at, queue>> ELSE Start(h)
  BY DEF Poll, h
<1> HIDE DEF h
<1>4. CASE Alive(current[h])
  <2>1. UNCHANGED <<current, responses, at>>
    BY <1>3, <1>4
  <2> QED
    BY <1>1, <1>2, <2>1 DEF HandleInv, Alive
<1>5. CASE ~Alive(current[h])
  <2>1. PICK p \in Procs :
          /\ at[p] = "none" /\ at' = [at EXCEPT ![p] = "idle"] /\ queue' = queue
          /\ current' = [current EXCEPT ![h] = p] /\ responses' = [responses EXCEPT ![h] = p]
          /\ \A q \in Procs : q < p => at[q] # "none"
          /\ \A q \in Procs : q > p => at[q] = "none"
    BY <1>1, <1>3, <1>5, StartFacts
  <2>2. /\ current'[h] = p /\ responses'[h] = p /\ p # None
        /\ \A g \in Handles \ {h} : current'[g] = current[g] /\ responses'[g] = responses[g]
        /\ at'[p] = "idle" /\ \A q \in Procs \ {p} : at'[q] = at[q]
    BY <1>1, <2>1, BoundsAssumption DEF HandlesOK, ProcsOK, Procs, Solves, None
  <2>3. \A g \in Handles : current[g] \in Procs \cup {None} /\ (current[g] # None => current[g] # p)
    BY <2>1 DEF HandleInv, HandlesOK
  <2>4. \A g \in Handles : AnswersHere(g)'
    BY <2>2, <2>3 DEF AnswersHere, HandleInv
  <2>5. NoSharing'
    BY <2>2, <2>3 DEF NoSharing, HandleInv
  <2>6. \A d \in Clients : GetsFrom(d)'
    BY <1>1, <1>2, <2>2 DEF GetsFrom, HandleInv
  <2>7. ASSUME NEW g \in Uploaded, current'[g] # None PROVE \E d \in Clients : UsedBy(d, g)'
    <3>1. g \in Handles
      BY HandleFacts
    <3>2. CASE g = h
      BY <1>1, <1>2, <3>2 DEF UsedBy
    <3>3. CASE g # h
      <4>1. current[g] # None
        BY <2>2, <2>7, <3>1, <3>3
      <4>2. PICK d \in Clients : client[d].at \in {"write", "get", "stop"} /\ Handle(d) = g
        BY <4>1 DEF HandleInv
      <4> QED
        BY <1>1, <1>2, <4>2 DEF UsedBy
    <3> QED
      BY <3>2, <3>3
  <2>8. ASSUME NEW q \in Procs, Alive(q)' PROVE \E g \in Handles : current'[g] = q
    <3>1. CASE q = p
      BY <1>1, <2>2, <3>1
    <3>2. CASE q # p
      <4>1. Alive(q)
        BY <2>2, <2>8, <3>2 DEF Alive
      <4>2. PICK g \in Handles : current[g] = q
        BY <4>1 DEF HandleInv
      <4>3. g # h
        BY <1>5, <4>1, <4>2
      <4> QED
        BY <2>2, <4>2, <4>3
    <3> QED
      BY <3>1, <3>2
  <2>9. \A q \in Procs : OwnedBy(q)'
    BY <2>8 DEF OwnedBy
  <2> QED
    BY <2>4, <2>5, <2>6, <2>7, <2>9, HandlePartsAfter
<1> QED
  BY <1>4, <1>5

\* The handles and the processes they use agree after every step.
LEMMA HandleStep == ASSUME IInv, [Next]_vars PROVE HandleInv'
<1> USE DEF IInv
<1>1. ASSUME NEW c \in Clients, Write(c) PROVE HandleInv'
  <2>1. /\ OwnerStep(c) /\ client[c].at = "write" /\ client'[c].at = "get" /\ current[Handle(c)] # None
        /\ UNCHANGED <<current, responses, at>>
    BY <1>1 DEF Write, OwnerStep, GoTo, TableOK, handleVars, Alive
  <2>2. /\ Handle(c)' = Handle(c)
        /\ \A d \in Clients \ {c} : client'[d] = client[d]
        /\ \A d \in Clients \ {c} : client[d].at # "idle" => Handle(d)' = Handle(d)
    BY <2>1, HandlesStay
  <2> QED
    BY <2>1, <2>2 DEF HandleInv, Alive
<1>2. ASSUME NEW c \in Clients, JoinEnds(c) \/ Delete(c) \/ \E j \in Jobs : Own(c, j) \/ Join(c, j) PROVE HandleInv'
  BY <1>2, OthersStay DEF HandleInv, handleVars, procVars, Alive
<1>3. ASSUME NEW p \in Procs, ProcStep(p) PROVE HandleInv'
  <2>1. /\ UNCHANGED <<client, solves, current, responses>>
        /\ \A q \in Procs \ {p} : at'[q] = at[q]
        /\ at[p] # "none" /\ at'[p] # "none" /\ (at'[p] \in {"idle", "solving", "exiting"} => Alive(p))
    BY <1>3, ProcFacts DEF tableVars, handleVars
  <2>2. \A q \in Procs : (at'[q] # "none" <=> at[q] # "none") /\ (Alive(q)' => Alive(q))
    BY <2>1 DEF Alive
  <2>3. \A c \in Clients : Handle(c)' = Handle(c)
    BY <2>1 DEF Handle, JobOf
  <2>4. \A h \in Handles : current[h] # None => current[h] \in Procs
    BY DEF HandlesOK
  <2> QED
    BY <2>1, <2>2, <2>3, <2>4 DEF HandleInv
<1>4. CASE UNCHANGED vars
  BY <1>4 DEF vars, tableVars, handleVars, procVars, HandleInv, Handle, JobOf, Alive
<1> QED
  BY <1>1, <1>2, <1>3, <1>4, HandlePoll, HandleDropped DEF Next, ClientStep

-----------------------------------------------------------------------------
\* A process that is left alone, and that is asked no more and no less, holds what it held.
LEMMA FlowKept ==
  ASSUME NEW h \in Handles, FlowAt(h), current'[h] \in {None, current[h]},
         current'[h] # None =>
            /\ stdin'[current[h]] = stdin[current[h]] /\ stdout'[current[h]] = stdout[current[h]]
            /\ answers'[current[h]] = answers[current[h]] /\ (at'[current[h]] = "read" <=> at[current[h]] = "read"),
         \A d \in Clients : (Waits(d, h)' <=> Waits(d, h)) /\ (Waits(d, h) => client'[d].solve = client[d].solve)
  PROVE  FlowAt(h)'
<1>1. CASE current'[h] = None
  BY <1>1 DEF FlowAt
<1>2. CASE current'[h] # None
  <2>1. current'[h] = current[h] /\ current[h] # None
    BY <1>2
  <2> DEFINE p == current[h]
  <2>2. Ending(p)' = Ending(p)
    BY <1>2, <2>1 DEF Ending
  <2>3. \A s : Asked(p, s)' <=> Asked(p, s)
    BY <1>2, <2>1, <2>2 DEF Asked
  <2>4. Quiet(p)' <=> Quiet(p)
    BY <1>2, <2>1, <2>2 DEF Quiet
  <2> QED
    BY <2>1, <2>3, <2>4 DEF FlowAt
<1> QED
  BY <1>1, <1>2

\* A process of another handle is none of this owner's business.
LEMMA FlowElsewhere ==
  ASSUME IInv, NEW c \in Clients, OwnerStep(c), NEW g \in Handles, g # Handle(c)
  PROVE  FlowAt(g)'
<1> USE DEF IInv
<1> DEFINE h == Handle(c)
           p == current[g]
<1>1. /\ h \in Handles /\ Handle(c)' = h
      /\ \A d \in Clients \ {c} : client'[d] = client[d]
      /\ \A d \in Clients \ {c} : client[d].at # "idle" => Handle(d)' = Handle(d)
  BY HandlesStay
<1>2. \A d \in Clients : (Waits(d, g)' <=> Waits(d, g)) /\ (Waits(d, g) => client'[d].solve = client[d].solve)
  BY <1>1 DEF Waits
<1>3. current[h] \in Procs \cup {None} /\ p \in Procs \cup {None} /\ (p # None => p # current[h] /\ at[p] # "none")
  BY <1>1 DEF HandlesOK, HandleInv
<1> HIDE DEF h, p
<1>4. current'[g] = p /\ (p # None => /\ stdin'[p] = stdin[p] /\ stdout'[p] = stdout[p]
                                      /\ answers'[p] = answers[p] /\ at'[p] = at[p])
  <2>1. CASE \/ Slot(c) \/ LockHandle(c) \/ StartFails(c) \/ WriteFails(c) \/ Get(c) \/ TimeOut(c) \/ StopOwn(c)
             \/ Finish(c)
    <3>1. Dropping(h) /\ UNCHANGED <<stdin, stdout>>
      BY <2>1, OwnerDrops
      DEF h, Slot, LockHandle, StartFails, WriteFails, Get, TimeOut, StopOwn, Finish, handleVars, procVars
    <3>2. CASE Get(c)
      <4>1. answers' = [answers EXCEPT ![current[h]] = Tail(@)]
        BY <3>2, GetFacts DEF h
      <4> QED
        BY <1>1, <1>3, <3>1, <4>1 DEF Dropping, ProcsOK, p
    <3>3. CASE ~Get(c)
      <4>1. UNCHANGED answers
        BY <2>1, <3>3 DEF Slot, LockHandle, StartFails, WriteFails, TimeOut, StopOwn, Finish, procVars
      <4> QED
        BY <1>1, <1>3, <3>1, <4>1 DEF Dropping, p
    <3> QED
      BY <3>2, <3>3
  <2>2. CASE Poll(c)
    <3>1. UNCHANGED <<stdin, stdout, answers>> /\ (UNCHANGED <<current, responses, at, queue>> \/ Start(h))
      BY <2>2 DEF Poll, h
    <3>2. CASE UNCHANGED <<current, responses, at, queue>>
      BY <3>1, <3>2 DEF p
    <3>3. CASE Start(h)
      <4>1. PICK q \in Procs :
              /\ at[q] = "none" /\ at' = [at EXCEPT ![q] = "idle"] /\ queue' = queue
              /\ current' = [current EXCEPT ![h] = q] /\ responses' = [responses EXCEPT ![h] = q]
              /\ \A r \in Procs : r < q => at[r] # "none"
              /\ \A r \in Procs : r > q => at[r] = "none"
        BY <1>1, <3>3, StartFacts
      <4> QED
        BY <1>1, <1>3, <3>1, <4>1 DEF HandlesOK, ProcsOK, p, h
    <3> QED
      BY <3>1, <3>2, <3>3
  <2>3. CASE Write(c)
    <3>1. /\ stdin' = [stdin EXCEPT ![current[h]] = Append(@, client[c].solve)]
          /\ UNCHANGED <<current, at, stdout, answers>>
      BY <2>3 DEF Write, handleVars, h
    <3> QED
      BY <1>3, <3>1 DEF ProcsOK, p
  <2> QED
    BY <2>1, <2>2, <2>3 DEF OwnerStep
<1>5. FlowAt(g)
  BY DEF FlowInv
<1> QED
  BY <1>2, <1>4, <1>5, FlowKept DEF p

\* The process of the owner's own handle.
LEMMA FlowHere ==
  ASSUME IInv, NEW c \in Clients, OwnerStep(c), NEW h, h = Handle(c)
  PROVE  FlowAt(h)'
<1> USE DEF IInv
<1>1. /\ h \in Handles /\ Handle(c)' = h /\ client'[c].solve = client[c].solve
      /\ \A d \in Clients \ {c} : client'[d] = client[d]
      /\ \A d \in Clients \ {c} : client[d].at # "idle" => Handle(d)' = Handle(d)
  BY HandlesStay
<1>2. FlowAt(h) /\ current[h] \in Procs \cup {None}
  BY <1>1 DEF FlowInv, HandlesOK
\* A thread that uses the handle uses it alone.
<1>3. ASSUME client[c].at \in Locking PROVE \A d \in Clients \ {c} : ~Waits(d, h) /\ ~Waits(d, h)'
  <2>1. \A d \in Clients \ {c} : ~Waits(d, h)
    BY <1>3, UserAlone DEF Waits, Locking
  <2> QED
    BY <1>1, <2>1 DEF Waits
<1>4. CASE Slot(c) \/ LockHandle(c) \/ Finish(c)
  <2>1. /\ UNCHANGED <<handleVars, procVars>> \/ (LockHandle(c) /\ UNCHANGED <<current, procVars>>)
        /\ client[c].at # "get" /\ client'[c].at # "get"
    BY <1>4 DEF Slot, LockHandle, Finish, GoTo, TableOK
  <2>2. \A d \in Clients : (Waits(d, h)' <=> Waits(d, h)) /\ (Waits(d, h) => client'[d].solve = client[d].solve)
    BY <1>1, <2>1 DEF Waits
  <2> QED
    BY <1>1, <1>2, <2>1, <2>2, FlowKept DEF handleVars, procVars
<1>5. CASE StartFails(c) \/ WriteFails(c) \/ TimeOut(c) \/ StopOwn(c)
  <2>1. Stop(h) \/ current' = [current EXCEPT ![h] = None]
    BY <1>5 DEF StartFails, WriteFails, TimeOut, StopOwn
  <2>2. current'[h] = None
    BY <1>1, <2>1 DEF Stop, HandlesOK
  <2> QED
    BY <2>2 DEF FlowAt
<1>6. CASE Poll(c)
  <2>1. client[c].at = "poll" /\ client'[c].at = "write" /\ UNCHANGED <<stdin, stdout, answers>>
        /\ (UNCHANGED <<current, responses, at, queue>> \/ Start(h))
    BY <1>6 DEF Poll, GoTo, TableOK
  <2>2. \A d \in Clients : ~Waits(d, h) /\ ~Waits(d, h)'
    BY <1>3, <2>1 DEF Locking, Waits
  <2>3. CASE UNCHANGED <<current, responses, at, queue>>
    <3>1. UNCHANGED <<current, at, stdin, stdout, answers>>
      BY <2>1, <2>3
    <3>2. \A d \in Clients : (Waits(d, h)' <=> Waits(d, h)) /\ (Waits(d, h) => client'[d].solve = client[d].solve)
      BY <2>2
    <3> QED
      BY ONLY <1>1, <1>2, <3>1, <3>2, FlowKept
  <2>4. CASE Start(h)
    <3>1. PICK p \in Procs :
            /\ at[p] = "none" /\ at' = [at EXCEPT ![p] = "idle"] /\ queue' = queue
            /\ current' = [current EXCEPT ![h] = p] /\ responses' = [responses EXCEPT ![h] = p]
            /\ \A q \in Procs : q < p => at[q] # "none"
            /\ \A q \in Procs : q > p => at[q] = "none"
      BY <1>1, <2>4, StartFacts
    <3>2. current'[h] = p /\ at'[p] = "idle"
      BY <1>1, <3>1 DEF HandlesOK, ProcsOK
    <3>3. stdin'[p] = <<>> /\ stdout'[p] = <<>> /\ answers'[p] = <<>>
      BY <2>1, <3>1 DEF StartInv
    <3>4. Quiet(p)'
      BY <3>2, <3>3 DEF Quiet, Ending
    <3> QED
      BY <2>2, <3>2, <3>4 DEF FlowAt
  <2> QED
    BY <2>1, <2>3, <2>4
<1>7. CASE Write(c)
  <2> DEFINE p == current[h]
             s == client[c].solve
  <2>1. /\ client[c].at = "write" /\ client'[c].at = "get" /\ p # None
        /\ stdin' = [stdin EXCEPT ![p] = Append(@, s)] /\ UNCHANGED <<current, at, stdout, answers>>
    BY <1>7 DEF Write, Alive, GoTo, TableOK, handleVars
  <2>2. p \in Procs /\ \A d \in Clients : ~Waits(d, h)
    BY <1>2, <1>3, <2>1 DEF Locking, Waits
  <2>3. Quiet(p)
    BY <1>2, <2>1, <2>2 DEF FlowAt
  <2>4. stdin'[p] = <<s>>
    <3>1. stdin'[p] = Append(stdin[p], s) /\ stdin[p] = <<>>
      BY <2>1, <2>2, <2>3 DEF ProcsOK, Quiet
    <3> QED
      BY <3>1, OneElement
  <2>5. Asked(p, s)'
    BY <1>1, <2>1, <2>3, <2>4 DEF Asked, Quiet, Ending
  <2>6. \A d \in Clients : Waits(d, h)' => d = c
    BY <1>3, <2>1 DEF Locking
  <2>7. Waits(c, h)'
    BY <1>1, <2>1 DEF Waits
  <2> QED
    BY <1>1, <2>1, <2>5, <2>6, <2>7 DEF FlowAt
<1>8. CASE Get(c)
  <2> DEFINE p == current[h]
             a == Head(answers[p])
  <2>1. /\ p \in Procs /\ answers' = [answers EXCEPT ![p] = Tail(@)] /\ UNCHANGED <<stdin, stdout>>
        /\ client[c].at = "get" /\ client'[c].at # "get"
    <3>1. p \in Procs /\ answers' = [answers EXCEPT ![p] = Tail(@)]
      BY <1>8, GetFacts
    <3>2. client'[c].at # "get"
      BY <1>8, OwnerDrops
    <3> QED
      BY <1>8, <3>1, <3>2 DEF Get
  <2>2. \A d \in Clients : ~Waits(d, h)'
    BY <1>3, <2>1 DEF Locking, Waits
  <2>3. CASE Stop(h)
    BY <1>1, <2>3, Stopped DEF FlowAt
  <2>4. CASE ~Stop(h)
    <3>1. stdin[p] = <<>> /\ stdout[p] = <<>> /\ Tail(answers[p]) = Ending(p) /\ UNCHANGED <<at, current>>
      BY <1>8, <2>4, GetFacts
    <3>2. Quiet(p)'
      BY <2>1, <3>1 DEF Quiet, Ending, ProcsOK
    <3> QED
      BY <2>2, <3>1, <3>2 DEF FlowAt
  <2> QED
    BY <2>3, <2>4
<1> QED
  BY <1>4, <1>5, <1>6, <1>7, <1>8 DEF OwnerStep

\* Every process holds what it was asked after a step of an owner,
LEMMA FlowOwner == ASSUME IInv, NEW c \in Clients, OwnerStep(c) PROVE FlowInv'
<1>1. ASSUME NEW g \in Handles PROVE FlowAt(g)'
  BY FlowElsewhere, FlowHere
<1> QED
  BY <1>1 DEF FlowInv

\* The request, its answer and the end of the output, one after the other.
LEMMA FlowProc == ASSUME IInv, NEW p \in Procs, ProcStep(p) PROVE FlowInv'
<1> USE DEF IInv
<1>1. /\ UNCHANGED <<client, solves, current>>
      /\ \A q \in Procs \ {p} : /\ at'[q] = at[q] /\ stdin'[q] = stdin[q]
                                /\ stdout'[q] = stdout[q] /\ answers'[q] = answers[q]
  BY ProcFacts DEF tableVars, handleVars
<1>2. \A g \in Handles, d \in Clients :
        (Waits(d, g)' <=> Waits(d, g)) /\ (Waits(d, g) => client'[d].solve = client[d].solve)
  BY <1>1 DEF Waits, Handle, JobOf
<1>3. SUFFICES ASSUME NEW h \in Handles PROVE FlowAt(h)'
  BY DEF FlowInv
<1>4. FlowAt(h) /\ current[h] \in Procs \cup {None}
  BY DEF FlowInv, HandlesOK
<1>5. CASE current[h] # p
  BY <1>1, <1>2, <1>4, <1>5, FlowKept
<1>6. CASE current[h] = p
  <2>1. p # None /\ current'[h] = p
    BY <1>1, <1>6, BoundsAssumption DEF Procs, Solves, None
  <2>2. /\ \A d \in Clients : Waits(d, h) => Asked(p, client[d].solve)
        /\ (\A d \in Clients : ~Waits(d, h)) => Quiet(p)
    BY <1>4, <1>6, <2>1 DEF FlowAt
  <2>3. ASSUME \A s : Asked(p, s) => Asked(p, s)', Quiet(p) => Quiet(p)'
        PROVE  FlowAt(h)'
    BY <1>1, <1>2, <2>1, <2>2, <2>3 DEF FlowAt
  <2>4. CASE ReadRequest(p) \/ Exit(p) \/ Crash(p)
    <3>1. UNCHANGED <<stdin, stdout, answers>> /\ at[p] # "read" /\ at'[p] # "read"
      BY <2>4 DEF ReadRequest, Exit, Crash, ProcsOK
    <3> QED
      BY <2>3, <3>1 DEF Asked, Quiet, Ending
  <2>5. CASE WriteAnswer(p)
    <3>1. at[p] = "solving" /\ stdin[p] # <<>>
      BY <2>5 DEF WriteAnswer, StartInv
    <3>2. Ending(p) = <<>> /\ ~Quiet(p)
      BY <3>1 DEF Ending, Quiet
    <3>3. ASSUME NEW s, Asked(p, s) PROVE Asked(p, s)'
      <4>1. stdin[p] = <<s>> /\ stdout[p] = <<>> /\ answers[p] = <<>>
        BY <3>1, <3>2, <3>3 DEF Asked
      <4>2. Head(stdin[p]) = s /\ Tail(stdin[p]) = <<>>
        BY <4>1, OneElement
      <4>3. /\ \E kind \in {"solved", "restart"} : stdout' = [stdout EXCEPT ![p] = Append(@, Answer(kind, s))]
            /\ stdin' = [stdin EXCEPT ![p] = Tail(@)] /\ UNCHANGED answers
            /\ \E e \in {"exiting", "idle"} : at' = [at EXCEPT ![p] = e]
        BY <2>5, <4>2 DEF WriteAnswer
      <4>4. PICK a \in AnswersTo(s) : stdout' = [stdout EXCEPT ![p] = Append(@, a)]
        BY <4>3 DEF AnswersTo
      <4>5. stdout'[p] = Append(<<>>, a) /\ stdin'[p] = <<>> /\ answers'[p] = <<>> /\ at'[p] # "read"
        BY <4>1, <4>2, <4>3, <4>4 DEF ProcsOK
      <4>6. stdout'[p] = <<a>>
        BY <4>5, OneElement
      <4> QED
        BY <4>4, <4>5, <4>6 DEF Asked, AnswersTo
    <3> QED
      BY <2>3, <3>2, <3>3
  <2>6. CASE MoveAnswer(p)
    <3>1. /\ stdout[p] # <<>> /\ stdout' = [stdout EXCEPT ![p] = Tail(@)]
          /\ answers' = [answers EXCEPT ![p] = Append(@, Head(stdout[p]))] /\ UNCHANGED <<at, stdin>>
      BY <2>6 DEF MoveAnswer, ProcsOK
    <3>2. ~Quiet(p)
      BY <3>1 DEF Quiet
    <3>3. ASSUME NEW s, Asked(p, s) PROVE Asked(p, s)'
      <4>1. stdin[p] = <<>> /\ answers[p] = <<>> /\ at[p] # "read" /\ \E a \in AnswersTo(s) : stdout[p] = <<a>>
        BY <3>1, <3>3 DEF Asked
      <4>2. PICK a \in AnswersTo(s) : stdout[p] = <<a>>
        BY <4>1
      <4>3. Head(stdout[p]) = a /\ Tail(stdout[p]) = <<>>
        BY <4>2, OneElement
      <4>4. stdout'[p] = <<>> /\ stdin'[p] = <<>> /\ answers'[p] = Append(<<>>, a) /\ at'[p] # "read"
        BY <3>1, <4>1, <4>3 DEF ProcsOK
      <4>5. Ending(p)' = <<>>
        BY <4>4 DEF Ending
      <4>6. answers'[p] = <<a>> \o <<>>
        BY <4>4, OneElement, TwoElements
      <4> QED
        BY <4>2, <4>4, <4>5, <4>6 DEF Asked, AnswersTo
    <3> QED
      BY <2>3, <3>2, <3>3
  <2>7. CASE EndOfOutput(p)
    <3> DEFINE e == Answer("exited", None)
    <3>1. /\ at[p] = "gone" /\ stdout[p] = <<>> /\ at' = [at EXCEPT ![p] = "read"]
          /\ stdout' = [stdout EXCEPT ![p] = <<>>]
          /\ answers' = [answers EXCEPT ![p] = Append(@, e)] /\ UNCHANGED stdin
      BY <1>6, <2>7 DEF EndOfOutput, ProcsOK
    <3>2. Ending(p) = <<>> /\ Ending(p)' = <<e>>
      BY <3>1 DEF Ending, ProcsOK
    <3>3. stdout'[p] = <<>> /\ stdin'[p] = stdin[p] /\ answers'[p] = Append(answers[p], e)
      BY <3>1 DEF ProcsOK
    <3>4. answers[p] = <<>> => answers'[p] = <<e>>
      BY <3>3, OneElement
    <3>5. Quiet(p) => Quiet(p)'
      BY <3>2, <3>3, <3>4 DEF Quiet
    <3>6. ASSUME NEW s, Asked(p, s) PROVE Asked(p, s)'
      <4>1. CASE stdin[p] = <<s>> /\ answers[p] = <<>>
        BY <3>2, <3>3, <3>4, <4>1 DEF Asked
      <4>2. ASSUME stdin[p] = <<>>, NEW a \in AnswersTo(s), answers[p] = <<a>> \o <<>> PROVE Asked(p, s)'
        <5>1. answers[p] = <<a>>
          BY <4>2, TwoElements
        <5>2. answers'[p] = <<a>> \o <<e>>
          BY <3>3, <5>1, TwoElements
        <5> QED
          BY <3>2, <3>3, <4>2, <5>2 DEF Asked, AnswersTo
      <4>3. \A a : stdout[p] # <<a>>
        BY <3>1, OneElement
      <4> QED
        BY <3>2, <3>6, <4>1, <4>2, <4>3 DEF Asked
    <3> QED
      BY <2>3, <3>5, <3>6
  <2> QED
    BY <2>4, <2>5, <2>6, <2>7 DEF ProcStep
<1> QED
  BY <1>5, <1>6

\* and after every step.
LEMMA FlowStep == ASSUME IInv, [Next]_vars PROVE FlowInv'
<1> USE DEF IInv
<1>1. ASSUME NEW c \in Clients, JoinEnds(c) \/ Delete(c) \/ \E j \in Jobs : Own(c, j) \/ Join(c, j) PROVE FlowInv'
  <2>1. /\ client[c].at \in {"idle", "joined", "delete"} /\ client'[c].at \in {"slot", "joined", "idle"}
        /\ \A d \in Clients \ {c} : client'[d] = client[d]
        /\ \A d \in Clients \ {c} : client[d].at # "idle" => Handle(d)' = Handle(d)
        /\ UNCHANGED <<current, at, stdin, stdout, answers>>
    BY <1>1, OthersStay DEF handleVars, procVars
  <2>2. ASSUME NEW h \in Handles PROVE FlowAt(h)'
    <3>1. \A d \in Clients : (Waits(d, h)' <=> Waits(d, h)) /\ (Waits(d, h) => client'[d].solve = client[d].solve)
      BY <2>1 DEF Waits
    <3>2. FlowAt(h)
      BY DEF FlowInv
    <3> QED
      BY <2>1, <3>1, <3>2, FlowKept
  <2> QED
    BY <2>2 DEF FlowInv
<1>2. CASE UNCHANGED vars
  <2>1. UNCHANGED <<client, solves, current, at, stdin, stdout, answers>>
    BY <1>2 DEF vars, tableVars, handleVars, procVars
  <2>2. \A h \in Handles, d \in Clients : Waits(d, h)' <=> Waits(d, h)
    BY <2>1 DEF Waits, Handle, JobOf
  <2> QED
    BY <2>1, <2>2, FlowKept DEF FlowInv
<1> QED
  BY <1>1, <1>2, FlowOwner, FlowProc DEF Next, ClientStep, OwnerStep

-----------------------------------------------------------------------------
\* At the start nothing is asked and nothing runs.
LEMMA InitInv == ASSUME Init PROVE IInv
<1> USE DEF Init
<1>1. \A c \in Clients : client[c] = Idle /\ client[c].at = "idle" /\ client[c].solve = None
  BY DEF Idle
<1>2. solves = <<>> /\ Len(solves) = 0 /\ DOMAIN solves = {} /\ solves \in Seq(SolveRecords)
  OBVIOUS
<1>3. TableOK
  BY <1>1, <1>2, BoundsAssumption DEF TableOK, AnyPlace, Idle
<1>4. HandlesOK
  BY DEF HandlesOK
<1>5. \A p \in Procs : stdin[p] = <<>> /\ stdout[p] = <<>> /\ answers[p] = <<>> /\ at[p] = "none"
  OBVIOUS
<1>6. ProcsOK /\ StartInv
  BY <1>5 DEF ProcsOK, StartInv, States
<1>7. TableInv /\ StopInv /\ AnswersAreTheirs
  BY <1>1, <1>2 DEF TableInv, StopInv, AnswersAreTheirs, Busy
<1>8. LockInv
  BY <1>1 DEF LockInv, Holds, Locking
<1>9. HandleInv
  BY <1>1, <1>5 DEF HandleInv, Alive, HandleFacts, Handles
<1>10. FlowInv
  BY DEF FlowInv, FlowAt
<1> QED
  BY <1>3, <1>4, <1>6, <1>7, <1>8, <1>9, <1>10 DEF IInv

\* Every step keeps the invariant.
LEMMA InvStep == ASSUME IInv, [Next]_vars PROVE IInv'
  BY TableStep, KeptStep, LockStep, HandleStep, FlowStep, StopStep DEF IInv, Kept

\* The inductive invariant: the in-flight table, the locks and the handles agree with
\* where the threads are, and what is on the way in a pipe or a queue is what the one
\* request that holds the handle asked.
THEOREM InvariantHolds == Spec => []IInv
<1>1. Init => IInv
  BY InitInv
<1>2. IInv /\ [Next]_vars => IInv'
  BY InvStep
<1> QED
  BY <1>1, <1>2, PTL DEF Spec

\* The answer a request returns, and its retries with it, is the answer to that request:
\* a process that was given up, or died, never answers a later request in its place.
THEOREM AnswersAreRight == Spec => []AnswersAreTheirs
<1>1. IInv => AnswersAreTheirs
  BY DEF IInv
<1> QED
  BY <1>1, InvariantHolds, PTL

\* One handler thread at a time solves a job, retries included.
THEOREM OneThreadPerJob == Spec => []OneSolvePerJob
<1>1. IInv => OneSolvePerJob
  BY OwnersDiffer DEF IInv, OneSolvePerJob, Busy
<1> QED
  BY <1>1, InvariantHolds, PTL

\* A worker process that solves, solves for the request that waits for its answer.
THEOREM SolvesAreWaitedFor == Spec => []NoOrphanSolve
<1>1. IInv => NoOrphanSolve
  <2>1. SUFFICES ASSUME IInv, NEW p \in Procs, at[p] = "solving"
                 PROVE  \E c \in Clients : /\ client[c].at = "get" /\ client[c].solve = Head(stdin[p])
                                           /\ current[Handle(c)] = p
    BY DEF NoOrphanSolve
  <2>2. stdin[p] # <<>> /\ p # None
    BY <2>1, BoundsAssumption DEF IInv, StartInv, Procs, Solves, None
  <2>3. PICK h \in Handles : current[h] = p
    BY <2>1, <2>2 DEF IInv, HandleInv, Alive
  <2>4. FlowAt(h) /\ ~Quiet(p)
    BY <2>1, <2>2 DEF IInv, FlowInv, Quiet
  <2>5. PICK c \in Clients : Waits(c, h)
    BY <2>2, <2>3, <2>4 DEF FlowAt
  <2>6. Asked(p, client[c].solve)
    BY <2>2, <2>3, <2>4, <2>5 DEF FlowAt
  <2>7. stdin[p] = <<client[c].solve>>
    BY <2>2, <2>6 DEF Asked
  <2> QED
    BY <2>3, <2>5, <2>7, OneElement DEF Waits
<1> QED
  BY <1>1, InvariantHolds, PTL

\* Every live worker process is in use by a handle, that of an uploaded chart only while
\* its solve is in flight.
THEOREM WorkersAreUsed == Spec => []NoWorkerLeaks
<1>1. IInv => NoWorkerLeaks
  <2>1. SUFFICES ASSUME IInv, NEW p \in Procs, Alive(p)
                 PROVE  \E h \in Handles : current[h] = p /\ (h \in Uploaded => inFlight[h] # None)
    BY DEF NoWorkerLeaks
  <2>2. PICK h \in Handles : current[h] = p
    BY <2>1 DEF IInv, HandleInv
  <2>3. ASSUME h \in Uploaded PROVE inFlight[h] # None
    <3>1. current[h] # None
      BY <2>1, <2>2 DEF Alive
    <3>2. PICK c \in Clients : client[c].at \in {"write", "get", "stop"} /\ Handle(c) = h
      BY <2>1, <2>3, <3>1 DEF IInv, HandleInv
    <3>3. Busy(c) /\ client[c].solve \in DOMAIN solves /\ JobOf(c) \in Jobs
      BY <2>1, <3>2, JobFacts DEF Busy, IInv
    <3>4. JobOf(c) = h /\ inFlight[h] = client[c].solve
      BY <2>1, <2>3, <3>2, <3>3, HandleFacts DEF Handle, IInv, TableInv
    <3> QED
      BY <2>1, <3>3, <3>4, SolvesDomain, BoundsAssumption DEF IInv, Solves, None
  <2> QED
    BY <2>2, <2>3
<1> QED
  BY <1>1, InvariantHolds, PTL
=============================================================================
