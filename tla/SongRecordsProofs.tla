------------------------- MODULE SongRecordsProofs -------------------------
(***************************************************************************)
(* SongRecords for every number of workers, songs and stores: the counter  *)
(* of NEW records counts each improvement of a song once.                  *)
(*                                                                         *)
(* The counter itself says nothing of what it counted, so the invariant    *)
(* carries the bests that are still on their way to it: what a worker read *)
(* (ReadsHeld) and what its events say (SentHeld) are bests the song had,  *)
(* the second one not below the first, and no counted best is above the    *)
(* song's last record (CountedBelow).                                      *)
(***************************************************************************)
EXTENDS SongRecords, FiniteSetTheorems, SequenceTheorems, TLAPS

\* A worker in store_solve read a best its song had, and the best has not fallen since.
ReadsHeld ==
    \A w \in Workers : worker[w] # Idle =>
        /\ worker[w].before \in held[worker[w].song]
        /\ worker[w].before <= best[worker[w].song]

\* The bests of an event on its way are bests its song had.
SentHeld ==
    \A w \in Workers : \A i \in 1..Len(pipe[w]) :
        /\ pipe[w][i].before \in held[pipe[w][i].song]
        /\ pipe[w][i].after \in held[pipe[w][i].song]

BestHeld == \A s \in Songs : best[s] \in held[s]

\* Every record counted of a song is at most its last one: a higher best is a new one.
CountedBelow == \A r \in counted : r[2] <= recordBest[r[1]]

RecordsInv ==
    /\ TypeOK
    /\ ReadsHeld
    /\ SentHeld
    /\ BestHeld
    /\ CountedBelow
    /\ RecordsCountedOnce
    /\ IsFiniteSet(counted)

-----------------------------------------------------------------------------
\* A worker that is in store_solve has a song, the best it read, and a place.
LEMMA InStore ==
    ASSUME NEW p \in Places, p # Idle
    PROVE  /\ p.song \in Songs /\ p.before \in Bests
           /\ p = Storing(p.at, p.song, p.before)
           /\ p.at \in {"before", "stored"}
  BY DEF Places, Storing, Idle

\* A place outside store_solve is not one inside.
LEMMA IdleApart ==
    /\ Idle.at = "idle"
    /\ \A p, s, b : Storing(p, s, b).at = p /\ Storing(p, s, b).song = s /\ Storing(p, s, b).before = b
  BY DEF Idle, Storing

\* What an Append leaves in a pipe: the new event last, the others in place.
LEMMA Appended ==
    ASSUME NEW s \in Seq(Events), NEW e \in Events
    PROVE  /\ Append(s, e) \in Seq(Events)
           /\ Len(Append(s, e)) = Len(s) + 1
           /\ \A i \in 1..Len(s) : Append(s, e)[i] = s[i]
           /\ Append(s, e)[Len(s) + 1] = e
  BY AppendProperties

\* What a Tail leaves in a pipe: the events after the first, one place down.
LEMMA Received ==
    ASSUME NEW s \in Seq(Events), s # <<>>
    PROVE  /\ Head(s) \in Events /\ Head(s) = s[1]
           /\ Tail(s) \in Seq(Events)
           /\ Len(s) \in Nat \ {0}
           /\ Len(Tail(s)) = Len(s) - 1
           /\ \A i \in 1..Len(Tail(s)) : Tail(s)[i] = s[i + 1]
  BY HeadTailProperties, EmptySeq, LenProperties

LEMMA RecordsInit == Init => RecordsInv
<1> SUFFICES ASSUME Init PROVE RecordsInv
  OBVIOUS
<1>1. TypeOK
  BY BoundsAssumption DEF Init, TypeOK, Bests, Places, Idle
<1>2. ReadsHeld
  BY DEF Init, ReadsHeld
<1>3. SentHeld
  BY DEF Init, SentHeld
<1>4. BestHeld
  BY DEF Init, BestHeld
<1>5. CountedBelow /\ RecordsCountedOnce /\ IsFiniteSet(counted)
  BY FS_EmptySet DEF Init, CountedBelow, RecordsCountedOnce
<1> QED
  BY <1>1, <1>2, <1>3, <1>4, <1>5 DEF RecordsInv

-----------------------------------------------------------------------------
(* One lemma per action.                                                   *)

LEMMA ReadBeforeStep ==
    ASSUME RecordsInv, NEW w \in Workers, NEW s \in Songs, ReadBefore(w, s)
    PROVE  RecordsInv'
<1>1. TypeOK'
  <2>1. Storing("before", s, best[s]) \in Places
    BY DEF RecordsInv, TypeOK, Places
  <2>2. worker' \in [Workers -> Places]
    BY <2>1 DEF RecordsInv, TypeOK, ReadBefore
  <2> QED
    BY <2>2 DEF RecordsInv, TypeOK, ReadBefore, parentVars
<1>2. ReadsHeld'
  <2> SUFFICES ASSUME NEW v \in Workers, worker'[v] # Idle
               PROVE  /\ worker'[v].before \in held[worker'[v].song]
                      /\ worker'[v].before <= best[worker'[v].song]
    BY DEF ReadsHeld, ReadBefore
  <2>1. CASE v = w
    <3>1. worker'[v].before = best[s] /\ worker'[v].song = s
      BY <2>1, IdleApart DEF ReadBefore, RecordsInv, TypeOK
    <3> QED
      BY <3>1 DEF RecordsInv, BestHeld, TypeOK, Bests
  <2>2. CASE v # w
    BY <2>2 DEF ReadBefore, RecordsInv, TypeOK, ReadsHeld
  <2> QED
    BY <2>1, <2>2
<1>3. SentHeld' /\ BestHeld' /\ CountedBelow' /\ RecordsCountedOnce' /\ IsFiniteSet(counted)'
  BY DEF ReadBefore, parentVars, RecordsInv, SentHeld, BestHeld, CountedBelow, RecordsCountedOnce
<1> QED
  BY <1>1, <1>2, <1>3 DEF RecordsInv

\* A raise keeps every best a song had, and no best falls.
LEMMA RaiseStep ==
    ASSUME RecordsInv, NEW s \in Songs, NEW b \in Bests, Raise(s, b)
    PROVE  /\ best' \in [Songs -> Bests] /\ held' \in [Songs -> SUBSET Bests]
           /\ \A t \in Songs : held[t] \subseteq held'[t] /\ best[t] <= best'[t] /\ best'[t] \in held'[t]
  BY DEF Raise, RecordsInv, TypeOK, BestHeld, Bests

\* What the histories say holds of larger ones.
LEMMA GrowStep ==
    ASSUME RecordsInv, UNCHANGED <<pipe, parentVars>>,
           \A t \in Songs : held[t] \subseteq held'[t] /\ best'[t] \in held'[t]
    PROVE  SentHeld' /\ BestHeld' /\ CountedBelow' /\ RecordsCountedOnce' /\ IsFiniteSet(counted)'
<1>1. SentHeld'
  <2> SUFFICES ASSUME NEW v \in Workers, NEW i \in 1..Len(pipe[v])
               PROVE  /\ pipe[v][i].before \in held'[pipe[v][i].song]
                      /\ pipe[v][i].after \in held'[pipe[v][i].song]
    BY DEF SentHeld
  <2>1. pipe[v][i].song \in Songs
    <3>1. pipe[v][i] \in Events
      BY ElementOfSeq DEF RecordsInv, TypeOK
    <3> QED
      BY <3>1 DEF Events
  <2> QED
    BY <2>1 DEF RecordsInv, SentHeld
<1>2. BestHeld' /\ CountedBelow' /\ IsFiniteSet(counted)'
  BY DEF BestHeld, CountedBelow, RecordsInv, parentVars
<1>3. RecordsCountedOnce'
  BY DEF RecordsCountedOnce, RecordsInv, TypeOK, parentVars
<1> QED
  BY <1>1, <1>2, <1>3

LEMMA StoreStep ==
    ASSUME RecordsInv, NEW w \in Workers, Store(w)
    PROVE  RecordsInv'
<1>1. worker[w] \in Places /\ worker[w] # Idle
  BY IdleApart DEF RecordsInv, TypeOK, Store
<1>2. /\ worker[w].song \in Songs /\ worker[w].before \in Bests
      /\ worker[w] = Storing("before", worker[w].song, worker[w].before)
  BY <1>1, InStore DEF Store
<1> DEFINE s == worker[w].song
<1>3. PICK b \in Bests : Raise(s, b)
  BY DEF Store
<1>4. /\ best' \in [Songs -> Bests] /\ held' \in [Songs -> SUBSET Bests]
      /\ \A t \in Songs : held[t] \subseteq held'[t] /\ best[t] <= best'[t] /\ best'[t] \in held'[t]
  BY <1>2, <1>3, RaiseStep
<1>5. worker' = [worker EXCEPT ![w] = Storing("stored", s, worker[w].before)]
  <2>1. worker' = [worker EXCEPT ![w] = [worker[w] EXCEPT !.at = "stored"]]
    BY DEF Store
  <2>2. [Storing("before", s, worker[w].before) EXCEPT !.at = "stored"] = Storing("stored", s, worker[w].before)
    BY DEF Storing
  <2> QED
    BY <2>1, <2>2, <1>2
<1>6. TypeOK'
  <2>1. Storing("stored", s, worker[w].before) \in Places
    BY <1>2 DEF Places
  <2>2. worker' \in [Workers -> Places]
    BY <2>1, <1>5 DEF RecordsInv, TypeOK
  <2> QED
    BY <2>2, <1>4 DEF TypeOK, RecordsInv, Store, parentVars
<1>7. ReadsHeld'
  <2> SUFFICES ASSUME NEW v \in Workers, worker'[v] # Idle
               PROVE  /\ worker'[v].before \in held'[worker'[v].song]
                      /\ worker'[v].before <= best'[worker'[v].song]
    BY DEF ReadsHeld
  <2>1. worker[v] # Idle /\ worker'[v].song = worker[v].song /\ worker'[v].before = worker[v].before
    BY <1>1, <1>5, IdleApart DEF RecordsInv, TypeOK
  <2>2. worker[v].song \in Songs /\ worker[v].before \in Bests
    BY <2>1, InStore DEF RecordsInv, TypeOK
  <2>3. worker[v].before \in held[worker[v].song] /\ worker[v].before <= best[worker[v].song]
    BY <2>1 DEF RecordsInv, ReadsHeld
  <2>4. best[worker[v].song] \in Int /\ best'[worker[v].song] \in Int /\ worker[v].before \in Int
    BY <2>2, <1>4, BoundsAssumption DEF RecordsInv, TypeOK, Bests
  <2> QED
    BY <2>1, <2>2, <2>3, <2>4, <1>4
<1>8. SentHeld' /\ BestHeld' /\ CountedBelow' /\ RecordsCountedOnce' /\ IsFiniteSet(counted)'
  BY <1>4, GrowStep DEF Store
<1> QED
  BY <1>6, <1>7, <1>8 DEF RecordsInv

LEMMA StoreElsewhereStep ==
    ASSUME RecordsInv, NEW s \in Songs, StoreElsewhere(s)
    PROVE  RecordsInv'
<1>1. PICK b \in Bests : Raise(s, b)
  BY DEF StoreElsewhere
<1>2. /\ best' \in [Songs -> Bests] /\ held' \in [Songs -> SUBSET Bests]
      /\ \A t \in Songs : held[t] \subseteq held'[t] /\ best[t] <= best'[t] /\ best'[t] \in held'[t]
  BY <1>1, RaiseStep
<1>3. TypeOK'
  BY <1>2 DEF TypeOK, RecordsInv, StoreElsewhere, parentVars
<1>4. ReadsHeld'
  <2> SUFFICES ASSUME NEW v \in Workers, worker[v] # Idle
               PROVE  /\ worker[v].before \in held'[worker[v].song]
                      /\ worker[v].before <= best'[worker[v].song]
    BY DEF ReadsHeld, StoreElsewhere
  <2>1. worker[v].song \in Songs /\ worker[v].before \in Bests
    BY InStore DEF RecordsInv, TypeOK
  <2>2. worker[v].before \in held[worker[v].song] /\ worker[v].before <= best[worker[v].song]
    BY DEF RecordsInv, ReadsHeld
  <2>3. best[worker[v].song] \in Int /\ best'[worker[v].song] \in Int /\ worker[v].before \in Int
    BY <2>1, <1>2, BoundsAssumption DEF RecordsInv, TypeOK, Bests
  <2> QED
    BY <2>1, <2>2, <2>3, <1>2
<1>5. SentHeld' /\ BestHeld' /\ CountedBelow' /\ RecordsCountedOnce' /\ IsFiniteSet(counted)'
  BY <1>2, GrowStep DEF StoreElsewhere
<1> QED
  BY <1>3, <1>4, <1>5 DEF RecordsInv

LEMMA ReadAfterStep ==
    ASSUME RecordsInv, NEW w \in Workers, ReadAfter(w)
    PROVE  RecordsInv'
<1>1. worker[w] \in Places /\ worker[w] # Idle
  BY IdleApart DEF RecordsInv, TypeOK, ReadAfter
<1> DEFINE s == worker[w].song
           b == worker[w].before
           e == DoneEvent(s, b, best[s])
<1>2. s \in Songs /\ b \in Bests /\ best[s] \in Bests
  BY <1>1, InStore DEF RecordsInv, TypeOK
<1>3. b \in held[s] /\ b <= best[s] /\ best[s] \in held[s]
  BY <1>1, <1>2 DEF RecordsInv, ReadsHeld, BestHeld
<1>4. e \in Events /\ e.song = s /\ e.before = b /\ e.after = best[s]
  BY <1>2, <1>3 DEF Events, DoneEvent
<1> DEFINE p == pipe[w]
<1>5. p \in Seq(Events) /\ pipe' = [pipe EXCEPT ![w] = Append(p, e)] /\ pipe \in [Workers -> Seq(Events)]
  BY DEF ReadAfter, RecordsInv, TypeOK
<1>6. /\ Append(p, e) \in Seq(Events)
      /\ Len(Append(p, e)) = Len(p) + 1
      /\ \A i \in 1..Len(p) : Append(p, e)[i] = p[i]
      /\ Append(p, e)[Len(p) + 1] = e
  BY <1>4, <1>5, Appended
<1>7. TypeOK'
  <2>1. pipe' \in [Workers -> Seq(Events)]
    BY <1>5, <1>6
  <2> QED
    BY <2>1 DEF TypeOK, RecordsInv, ReadAfter, storeVars, parentVars, Places
<1>8. ReadsHeld'
  BY DEF ReadsHeld, RecordsInv, TypeOK, ReadAfter, storeVars
<1>9. SentHeld'
  <2> SUFFICES ASSUME NEW v \in Workers, NEW i \in 1..Len(pipe'[v])
               PROVE  /\ pipe'[v][i].before \in held[pipe'[v][i].song]
                      /\ pipe'[v][i].after \in held[pipe'[v][i].song]
    BY DEF SentHeld, ReadAfter, storeVars
  <2>1. CASE v = w /\ i \in 1..Len(p)
    BY <2>1, <1>5, <1>6 DEF RecordsInv, SentHeld
  <2>2. CASE v = w /\ i \notin 1..Len(p)
    <3>1. i = Len(p) + 1
      BY <2>2, <1>5, <1>6, LenProperties
    <3> QED
      BY <3>1, <2>2, <1>3, <1>4, <1>5, <1>6
  <2>3. CASE v # w
    BY <2>3, <1>5 DEF RecordsInv, SentHeld
  <2> QED
    BY <2>1, <2>2, <2>3
<1>10. BestHeld' /\ CountedBelow' /\ RecordsCountedOnce' /\ IsFiniteSet(counted)'
  BY DEF ReadAfter, storeVars, parentVars, RecordsInv, BestHeld, CountedBelow, RecordsCountedOnce
<1> QED
  BY <1>7, <1>8, <1>9, <1>10 DEF RecordsInv

LEMMA FailStep ==
    ASSUME RecordsInv, NEW w \in Workers, Fail(w)
    PROVE  RecordsInv'
<1>1. TypeOK'
  BY DEF TypeOK, RecordsInv, Fail, storeVars, parentVars, Places
<1>2. ReadsHeld'
  BY DEF ReadsHeld, RecordsInv, TypeOK, Fail, storeVars
<1>3. SentHeld' /\ BestHeld' /\ CountedBelow' /\ RecordsCountedOnce' /\ IsFiniteSet(counted)'
  BY DEF Fail, storeVars, parentVars, RecordsInv, SentHeld, BestHeld, CountedBelow, RecordsCountedOnce
<1> QED
  BY <1>1, <1>2, <1>3 DEF RecordsInv

LEMMA SongStoredStep ==
    ASSUME RecordsInv, NEW w \in Workers, SongStored(w)
    PROVE  RecordsInv'
<1> DEFINE p == pipe[w]
           e == Head(p)
<1>1. p \in Seq(Events) /\ p # <<>> /\ pipe' = [pipe EXCEPT ![w] = Tail(p)] /\ pipe \in [Workers -> Seq(Events)]
  BY DEF SongStored, RecordsInv, TypeOK
<1>2. /\ e \in Events /\ e = p[1]
      /\ Tail(p) \in Seq(Events)
      /\ Len(p) \in Nat \ {0}
      /\ Len(Tail(p)) = Len(p) - 1
      /\ \A i \in 1..Len(Tail(p)) : Tail(p)[i] = p[i + 1]
  BY <1>1, Received
<1>3. /\ e.song \in Songs /\ e.before \in Bests /\ e.after \in Bests
      /\ e.before \in held[e.song] /\ e.after \in held[e.song]
  <2>1. e.song \in Songs /\ e.before \in Bests /\ e.after \in Bests
    BY <1>2 DEF Events
  <2>2. 1 \in 1..Len(p)
    BY <1>2
  <2> QED
    BY <2>1, <2>2, <1>2 DEF RecordsInv, SentHeld
<1>4. ReadsHeld' /\ BestHeld'
  BY DEF ReadsHeld, BestHeld, RecordsInv, SongStored, storeVars
<1>5. SentHeld'
  <2> SUFFICES ASSUME NEW v \in Workers, NEW i \in 1..Len(pipe'[v])
               PROVE  /\ pipe'[v][i].before \in held[pipe'[v][i].song]
                      /\ pipe'[v][i].after \in held[pipe'[v][i].song]
    BY DEF SentHeld, SongStored, storeVars
  <2>1. CASE v = w
    <3>1. pipe'[v] = Tail(p) /\ i \in 1..Len(Tail(p)) /\ i + 1 \in 1..Len(p)
      BY <2>1, <1>1, <1>2
    <3>2. pipe'[v][i] = p[i + 1]
      BY <3>1, <1>2
    <3> QED
      BY <3>1, <3>2 DEF RecordsInv, SentHeld
  <2>2. CASE v # w
    BY <2>2, <1>1 DEF RecordsInv, SentHeld
  <2> QED
    BY <2>1, <2>2
<1>6. CASE ~IsRecord(e)
  <2>1. UNCHANGED parentVars
    BY <1>6 DEF SongStored
  <2>2. TypeOK'
    <3>1. pipe' \in [Workers -> Seq(Events)]
      BY <1>1, <1>2
    <3> QED
      BY <2>1, <3>1 DEF TypeOK, RecordsInv, SongStored, storeVars, parentVars
  <2>3. CountedBelow' /\ RecordsCountedOnce' /\ IsFiniteSet(counted)'
    BY <2>1 DEF CountedBelow, RecordsCountedOnce, RecordsInv, parentVars, SongStored, storeVars
  <2> QED
    BY <1>4, <1>5, <2>2, <2>3 DEF RecordsInv
<1>7. CASE IsRecord(e)
  <2>1. /\ recordBest' = [recordBest EXCEPT ![e.song] = e.after]
        /\ records' = records + 1
        /\ counted' = counted \cup {<<e.song, e.after>>}
        /\ UNCHANGED held
    BY <1>7 DEF SongStored, storeVars
  <2>2. TypeOK'
    <3>1. pipe' \in [Workers -> Seq(Events)]
      BY <1>1, <1>2
    <3> QED
      BY <2>1, <3>1, <1>3 DEF TypeOK, RecordsInv, SongStored, storeVars
  <2>3. \A r \in counted : r[1] \in Songs /\ r[2] \in Bests /\ r[2] <= recordBest[r[1]]
    BY DEF RecordsInv, TypeOK, CountedBelow
  <2>4. recordBest[e.song] < e.after /\ recordBest[e.song] \in Nat /\ e.after \in Nat
    BY <1>3, <1>7, BoundsAssumption DEF IsRecord, RecordsInv, TypeOK, Bests
  <2>5. CountedBelow'
    <3> SUFFICES ASSUME NEW r \in counted' PROVE r[2] <= recordBest'[r[1]]
      BY DEF CountedBelow
    <3>1. CASE r \in counted
      BY <3>1, <2>1, <2>3, <2>4, <1>3, BoundsAssumption DEF RecordsInv, TypeOK, Bests
    <3>2. CASE r = <<e.song, e.after>>
      BY <3>2, <2>1, <2>4, <1>3 DEF RecordsInv, TypeOK
    <3> QED
      BY <3>1, <3>2, <2>1
  <2>6. <<e.song, e.after>> \notin counted
    BY <2>3, <2>4
  <2>7. IsFiniteSet(counted') /\ Cardinality(counted') = Cardinality(counted) + 1
    BY <2>1, <2>6, FS_AddElement DEF RecordsInv
  <2>8. RecordsCountedOnce'
    <3>1. records' = Cardinality(counted')
      BY <2>1, <2>7 DEF RecordsInv, RecordsCountedOnce
    <3>2. e.before < e.after
      BY <1>3, <1>7, EpsilonAssumption, BoundsAssumption DEF IsRecord, Bests
    <3>3. \A r \in counted' : r[2] \in held[r[1]] /\ \E b \in held[r[1]] : b < r[2]
      BY <3>2, <1>3, <2>1 DEF RecordsInv, RecordsCountedOnce
    <3> QED
      BY <3>1, <3>3, <2>1 DEF RecordsCountedOnce
  <2> QED
    BY <1>4, <1>5, <2>2, <2>5, <2>7, <2>8 DEF RecordsInv
<1> QED
  BY <1>6, <1>7

-----------------------------------------------------------------------------
LEMMA RecordsStep == RecordsInv /\ [Next]_vars => RecordsInv'
<1> SUFFICES ASSUME RecordsInv, [Next]_vars PROVE RecordsInv'
  OBVIOUS
<1>1. CASE UNCHANGED vars
  BY <1>1 DEF vars, storeVars, parentVars, RecordsInv, TypeOK, ReadsHeld, SentHeld, BestHeld, CountedBelow,
              RecordsCountedOnce
<1>2. ASSUME NEW w \in Workers, NEW s \in Songs, ReadBefore(w, s) PROVE RecordsInv'
  BY <1>2, ReadBeforeStep
<1>3. ASSUME NEW w \in Workers, Store(w) PROVE RecordsInv'
  BY <1>3, StoreStep
<1>4. ASSUME NEW w \in Workers, ReadAfter(w) PROVE RecordsInv'
  BY <1>4, ReadAfterStep
<1>5. ASSUME NEW w \in Workers, Fail(w) PROVE RecordsInv'
  BY <1>5, FailStep
<1>6. ASSUME NEW w \in Workers, SongStored(w) PROVE RecordsInv'
  BY <1>6, SongStoredStep
<1>7. ASSUME NEW s \in Songs, StoreElsewhere(s) PROVE RecordsInv'
  BY <1>7, StoreElsewhereStep
<1> QED
  BY <1>1, <1>2, <1>3, <1>4, <1>5, <1>6, <1>7 DEF Next

\* RecordsInv always holds.
LEMMA RecordsInvariance == Spec => []RecordsInv
  BY RecordsInit, RecordsStep, PTL DEF Spec

\* The counter counts each improvement of a song's stored best once, for every number
\* of workers and repeats and every order of their events (_song_stored).
THEOREM RecordsAreImprovements == Spec => []RecordsCountedOnce
<1>1. RecordsInv => RecordsCountedOnce
  BY DEF RecordsInv
<1> QED
  BY RecordsInvariance, <1>1, PTL

\* Type correctness of SongRecords; no "done" event says that a best fell.
THEOREM RecordsTypeCorrect == Spec => []TypeOK
<1>1. RecordsInv => TypeOK
  BY DEF RecordsInv
<1> QED
  BY RecordsInvariance, <1>1, PTL
=============================================================================
