------------------------ MODULE FrontierCacheProofs ------------------------
(***************************************************************************)
(* Proofs about FrontierCache, for any number of processes, charts, songs  *)
(* and stat keys, processes that die and files that are damaged: who is    *)
(* served is served in full, bundles only grow, and a prebuild that says   *)
(* "ready" is.                                                             *)
(*                                                                         *)
(* The invariant adds to these who holds which lock (LocksOK), that the    *)
(* holder of a song's lock has read what serves the song and nobody else   *)
(* writes it (WorkOK), that a plan's hits and what was built stay complete *)
(* (PlanOK), and that a complete file serves every chart the manifest      *)
(* records (FilesInv).                                                     *)
(* One Own... lemma for each step says what it does to the process that    *)
(* takes it; StepAlone, StepGrows and OthersKept say what it leaves of the *)
(* others.                                                                 *)
(***************************************************************************)
EXTENDS FrontierCache, TLAPS

Steps == {"idle", "probePlan", "waitBuild", "plan", "maintain", "build", "ensure", "discard", "waitSong", "merge",
          "write", "rename", "unlock", "load", "open"}
Ends == {"none", "served", "ready", "failed", "refused", "crashed"}
\* The steps of the startup prebuild itself, and those for one song.
PrebuildSteps == {"probePlan", "waitBuild", "plan", "maintain", "build"}
SongWork == {"ensure", "discard", "waitSong", "merge", "write", "rename", "unlock", "load", "open"}

\* What a process keeps for itself.
Local(p) == <<pc[p], song[p], need[p], path[p], loaded[p], startup[p], misses[p], todo[p], built[p], memory[p], result[p]>>

LocalsOK ==
    /\ pc \in [Procs -> Steps] /\ song \in [Procs -> Songs \cup {None}] /\ need \in [Procs -> SUBSET Keys]
    /\ path \in [Procs -> Files \cup {None}] /\ loaded \in [Procs -> Contents] /\ startup \in [Procs -> BOOLEAN]
    /\ misses \in [Procs -> SUBSET Charts] /\ todo \in [Procs -> SUBSET Songs]
    /\ built \in [Procs -> [Songs -> Files \cup {None}]] /\ memory \in [Procs -> [Songs -> SUBSET Keys]]
    /\ result \in [Procs -> Ends]

SharedOK ==
    /\ kind \in {"fg", "timeline"} /\ disk \in [Files -> Contents]
    /\ \A c \in Charts : manifest[c] = None \/ manifest[c] \in [file : Files, size : SUBSET Keys]
    /\ stale \in BOOLEAN /\ marker \in BOOLEAN /\ temps \subseteq Procs
    /\ buildLock \in Procs \cup {None} /\ songLock \in [Songs -> Procs \cup {None}]
    /\ corruptions \in Nat

\* The locks, seen by the process that holds them.
LocksOK(p) ==
    /\ buildLock = p <=> startup[p] /\ pc[p] \in BuildSteps
    /\ \A s \in Songs : songLock[s] = p <=> kind = "fg" /\ song[p] = s /\ pc[p] \in SongSteps

\* Which steps a process takes for which cache and operation.
PlaceOK(p) ==
    /\ pc[p] \in {"ensure", "waitSong", "merge", "unlock", "load"} => kind = "fg"
    /\ pc[p] = "open" => kind = "timeline"
    /\ pc[p] \in PrebuildSteps => startup[p]
    /\ pc[p] = "load" => ~startup[p]
    /\ pc[p] \in SongWork => song[p] \in Songs /\ (startup[p] \/ kind = "timeline" => need[p] = Keys)
    /\ pc[p] = "discard" => corruptions # 0 /\ path[p] \in Files
    /\ pc[p] # "idle" => result[p] = "none"

\* A file that is not there holds nothing, one that nobody damaged can be read, a timeline is whole on
\* disk and in memory, and a build returns a file of its song.  The file that serves a recorded chart is
\* complete, be it the one recorded or not: so a drift the sample misses does no harm.
FilesInv ==
    /\ \A f \in Files : ~disk[f].there => disk[f].keys = {}
    /\ corruptions = 0 => \A f \in Files : disk[f].there => disk[f].readable /\ disk[f].head
    /\ kind = "timeline" => \A f \in Files : disk[f].there /\ disk[f].readable => disk[f].keys = Keys
    /\ kind = "timeline" => \A p \in Procs, s \in Songs : memory[p][s] \in {{}, Keys}
    /\ \A p \in Procs, s \in Songs : built[p][s] # None => built[p][s] \in {s} \X Versions
    /\ corruptions = 0 => \A c \in Charts : manifest[c] # None => Complete(Serving(SongOf[c]))

\* The holder of a song's lock writes what the song had and more; what it wrote is served.
WorkOK(p) ==
    corruptions = 0 /\ kind = "fg" =>
        /\ pc[p] \in {"write", "rename"} => Serving(song[p]).keys \subseteq loaded[p].keys
        /\ pc[p] = "unlock" => need[p] \subseteq Serving(song[p]).keys

\* What a prebuild does not miss is complete, and so is what it built.
Held(p, s) == Complete(Serving(s)) \/ (kind = "timeline" /\ Keys \subseteq memory[p][s])
PlanOK(p) ==
    corruptions = 0 /\ startup[p] /\ pc[p] # "idle" =>
        /\ pc[p] \notin {"probePlan", "waitBuild", "plan"} =>
              \A c \in Charts \ misses[p] : Complete(Serving(SongOf[c]))
        /\ \A s \in Songs : built[p][s] # None => Held(p, s)

ServedOK(p) == result[p] = "served" => loaded[p].readable /\ need[p] \subseteq loaded[p].keys
ReadyOK(p) == corruptions = 0 /\ startup[p] /\ result[p] = "ready" => \A c \in Charts : Held(p, SongOf[c])

ProcInv(p) == LocksOK(p) /\ PlaceOK(p) /\ WorkOK(p) /\ PlanOK(p) /\ ServedOK(p) /\ ReadyOK(p)

IInv == LocalsOK /\ SharedOK /\ FilesInv /\ \A p \in Procs : ProcInv(p)

-----------------------------------------------------------------------------
\* Contents and files.
LEMMA ContentFacts ==
  /\ Absent \in Contents /\ \A keys \in SUBSET Keys : Bundle(keys) \in Contents
  /\ Absent.there = FALSE /\ Absent.keys = {}
  /\ \A keys : Bundle(keys).there = TRUE /\ Bundle(keys).keys = keys /\ Bundle(keys).readable = TRUE /\ Bundle(keys).head = TRUE
  BY DEF Absent, Bundle, Contents

\* A song is served by a file of the directory.
LEMMA ServingFacts ==
  ASSUME SharedOK, NEW s \in Songs
  PROVE  ServingFile(s) \in Files /\ Serving(s) \in Contents /\ Serving(s) = disk[ServingFile(s)]
  BY DEF ServingFile, Serving, Files, Versions, SharedOK

\* A step deletes no file but what could not be read, or nothing at all.
Fails(content) == Unreadable(content) \/ ProbeFails(content)
Deletes ==
    /\ disk' \in [Files -> Contents]
    /\ \A f \in Files : disk'[f] = disk[f] \/ (disk'[f] = Absent /\ (Fails(disk[f]) \/ corruptions # 0))

\* A step that leaves the files alone deletes none.
LEMMA DiskSame == ASSUME SharedOK, disk' = disk PROVE Deletes
  BY DEF Deletes, SharedOK

\* The steps of process p that publish nothing.
Careful(p) ==
    \/ ProbePlan(p) \/ TakeBuildLock(p) \/ Plan(p) \/ Maintain(p) \/ RecordBuilds(p)
    \/ (\E s \in Songs : BuildNext(p, s))
    \/ Probe(p) \/ Discard(p) \/ TakeSongLock(p) \/ Merge(p) \/ Open(p)
    \/ BuildFails(p) \/ WriteTemp(p) \/ Unlock(p) \/ Load(p) \/ Crash(p)
    \/ (\E authorize \in BOOLEAN : BeginStartup(p, authorize))
    \/ (\E s \in Songs, keys \in SUBSET Keys : BeginServe(p, s, keys))

\* Only what could not be read is deleted (is_complete, _payload_file_is_complete, the merge), or what is there instead by now.
LEMMA CarefulDeletes ==
  ASSUME LocalsOK, SharedOK, FilesInv, NEW p \in Procs, PlaceOK(p), Careful(p)
  PROVE  Deletes
<1>1. CASE disk' = disk
  BY <1>1, DiskSame
<1>2. CASE ProbePlan(p) \/ Plan(p)
  <2>1. disk' = AfterProbes({c \in Charts : ~Recorded(c)})
    BY <1>2 DEF ProbePlan, Plan
  <2> QED
    BY <2>1, ContentFacts DEF AfterProbes, Deletes, SharedOK, Fails
<1>3. CASE RecordBuilds(p)
  <2>1. \E D : disk' = [f \in Files |-> IF kind = "fg" /\ ProbeFails(disk[f]) /\ f \in D THEN Absent ELSE disk[f]]
    <3> DEFINE done == {c \in misses[p] : built[p][SongOf[c]] # None}
               D == {f \in Files : \E c \in done : f = built[p][SongOf[c]]}
    <3>1. disk' = [f \in Files |-> IF kind = "fg" /\ ProbeFails(disk[f]) /\ f \in D THEN Absent ELSE disk[f]]
      BY <1>3 DEF RecordBuilds
    <3> QED
      BY <3>1
  <2> QED
    BY <2>1, ContentFacts DEF Deletes, SharedOK, Fails
<1>4. CASE Discard(p)
  <2>1. disk' = [disk EXCEPT ![path[p]] = Absent] /\ corruptions # 0
    BY <1>4 DEF Discard, At, PlaceOK
  <2> QED
    BY <2>1, ContentFacts DEF Deletes, SharedOK
<1>5. CASE Merge(p)
  <2>1. disk' = disk \/ (Unreadable(Serving(song[p])) /\ disk' = [disk EXCEPT ![ServingFile(song[p])] = Absent])
    BY <1>5 DEF Merge
  <2>2. song[p] \in Songs
    BY <1>5 DEF Merge, At, PlaceOK, SongWork
  <2>3. Serving(song[p]) = disk[ServingFile(song[p])]
    BY <2>2, ServingFacts
  <2> QED
    BY <1>1, <2>1, <2>3, ContentFacts DEF Deletes, SharedOK, Fails
<1> QED
  <2>1. CASE TakeBuildLock(p) \/ Maintain(p) \/ Probe(p) \/ TakeSongLock(p) \/ Open(p) \/ BuildFails(p)
              \/ WriteTemp(p) \/ Unlock(p) \/ Load(p) \/ Crash(p)
    BY <1>1, <2>1 DEF TakeBuildLock, Maintain, Probe, TakeSongLock, Open, BuildFails, WriteTemp, Unlock, Load, Crash, diskVars
  <2>2. CASE \/ (\E s \in Songs : BuildNext(p, s)) \/ (\E authorize \in BOOLEAN : BeginStartup(p, authorize))
             \/ (\E s \in Songs, keys \in SUBSET Keys : BeginServe(p, s, keys))
    BY <1>1, <2>2 DEF BuildNext, BeginStartup, BeginServe, diskVars
  <2> QED
    BY <1>2, <1>3, <1>4, <1>5, <2>1, <2>2 DEF Careful

-----------------------------------------------------------------------------
\* A process changes what it keeps for itself, and leaves what the others keep alone.
Framed(p) ==
    /\ pc' = [pc EXCEPT ![p] = pc'[p]]
    /\ song' = [song EXCEPT ![p] = song'[p]]
    /\ need' = [need EXCEPT ![p] = need'[p]]
    /\ path' = [path EXCEPT ![p] = path'[p]]
    /\ loaded' = [loaded EXCEPT ![p] = loaded'[p]]
    /\ startup' = [startup EXCEPT ![p] = startup'[p]]
    /\ misses' = [misses EXCEPT ![p] = misses'[p]]
    /\ todo' = [todo EXCEPT ![p] = todo'[p]]
    /\ built' = [built EXCEPT ![p] = built'[p]]
    /\ memory' = [memory EXCEPT ![p] = memory'[p]]
    /\ result' = [result EXCEPT ![p] = result'[p]]

LocalOK(p) ==
    /\ pc[p] \in Steps /\ song[p] \in Songs \cup {None} /\ need[p] \in SUBSET Keys /\ path[p] \in Files \cup {None}
    /\ loaded[p] \in Contents /\ startup[p] \in BOOLEAN /\ misses[p] \in SUBSET Charts /\ todo[p] \in SUBSET Songs
    /\ built[p] \in [Songs -> Files \cup {None}] /\ memory[p] \in [Songs -> SUBSET Keys] /\ result[p] \in Ends

\* A step that types the process's own state types everybody's.
LEMMA FramedType == ASSUME LocalsOK, NEW p \in Procs, Framed(p), LocalOK(p)' PROVE LocalsOK'
<1>1. pc' \in [Procs -> Steps]
  <2>1. pc \in [Procs -> Steps] /\ pc' = [pc EXCEPT ![p] = pc'[p]] /\ pc'[p] \in Steps
    BY DEF LocalsOK, Framed, LocalOK
  <2> QED
    BY ONLY <2>1
<1>2. song' \in [Procs -> Songs \cup {None}]
  <2>1. song \in [Procs -> Songs \cup {None}] /\ song' = [song EXCEPT ![p] = song'[p]] /\ song'[p] \in Songs \cup {None}
    BY DEF LocalsOK, Framed, LocalOK
  <2> QED
    BY ONLY <2>1
<1>3. need' \in [Procs -> SUBSET Keys]
  <2>1. need \in [Procs -> SUBSET Keys] /\ need' = [need EXCEPT ![p] = need'[p]] /\ need'[p] \in SUBSET Keys
    BY DEF LocalsOK, Framed, LocalOK
  <2> QED
    BY ONLY <2>1
<1>4. path' \in [Procs -> Files \cup {None}]
  <2>1. path \in [Procs -> Files \cup {None}] /\ path' = [path EXCEPT ![p] = path'[p]] /\ path'[p] \in Files \cup {None}
    BY DEF LocalsOK, Framed, LocalOK
  <2> QED
    BY ONLY <2>1
<1>5. loaded' \in [Procs -> Contents]
  <2>1. loaded \in [Procs -> Contents] /\ loaded' = [loaded EXCEPT ![p] = loaded'[p]] /\ loaded'[p] \in Contents
    BY DEF LocalsOK, Framed, LocalOK
  <2> QED
    BY ONLY <2>1
<1>6. startup' \in [Procs -> BOOLEAN]
  <2>1. startup \in [Procs -> BOOLEAN] /\ startup' = [startup EXCEPT ![p] = startup'[p]] /\ startup'[p] \in BOOLEAN
    BY DEF LocalsOK, Framed, LocalOK
  <2> QED
    BY ONLY <2>1
<1>7. misses' \in [Procs -> SUBSET Charts]
  <2>1. misses \in [Procs -> SUBSET Charts] /\ misses' = [misses EXCEPT ![p] = misses'[p]] /\ misses'[p] \in SUBSET Charts
    BY DEF LocalsOK, Framed, LocalOK
  <2> QED
    BY ONLY <2>1
<1>8. todo' \in [Procs -> SUBSET Songs]
  <2>1. todo \in [Procs -> SUBSET Songs] /\ todo' = [todo EXCEPT ![p] = todo'[p]] /\ todo'[p] \in SUBSET Songs
    BY DEF LocalsOK, Framed, LocalOK
  <2> QED
    BY ONLY <2>1
<1>9. built' \in [Procs -> [Songs -> Files \cup {None}]]
  <2>1. built \in [Procs -> [Songs -> Files \cup {None}]] /\ built' = [built EXCEPT ![p] = built'[p]] /\ built'[p] \in [Songs -> Files \cup {None}]
    BY DEF LocalsOK, Framed, LocalOK
  <2> QED
    BY ONLY <2>1
<1>10. memory' \in [Procs -> [Songs -> SUBSET Keys]]
  <2>1. memory \in [Procs -> [Songs -> SUBSET Keys]] /\ memory' = [memory EXCEPT ![p] = memory'[p]] /\ memory'[p] \in [Songs -> SUBSET Keys]
    BY DEF LocalsOK, Framed, LocalOK
  <2> QED
    BY ONLY <2>1
<1>11. result' \in [Procs -> Ends]
  <2>1. result \in [Procs -> Ends] /\ result' = [result EXCEPT ![p] = result'[p]] /\ result'[p] \in Ends
    BY DEF LocalsOK, Framed, LocalOK
  <2> QED
    BY ONLY <2>1
<1> QED
  BY <1>1, <1>2, <1>3, <1>4, <1>5, <1>6, <1>7, <1>8, <1>9, <1>10, <1>11 DEF LocalsOK

\* Every step of a process is framed; none of them damages a file.
LEMMA StepFramed ==
  ASSUME LocalsOK, NEW p \in Procs, Careful(p) \/ Rename(p)
  PROVE  Framed(p) /\ kind' = kind /\ corruptions' = corruptions
<1> USE DEF LocalsOK, Goto, End, Framed
<1>1. CASE ProbePlan(p)
  BY <1>1 DEF ProbePlan, diskVars, lockVars, planVars, boundVars
<1>2. CASE TakeBuildLock(p)
  BY <1>2 DEF TakeBuildLock, diskVars, lockVars, planVars, boundVars
<1>3. CASE Plan(p)
  BY <1>3 DEF Plan, diskVars, lockVars, planVars, boundVars
<1>4. CASE Maintain(p)
  BY <1>4 DEF Maintain, diskVars, lockVars, planVars, boundVars
<1>5. CASE RecordBuilds(p)
  BY <1>5 DEF RecordBuilds, diskVars, lockVars, planVars, boundVars
<1>6. CASE Probe(p)
  BY <1>6 DEF Probe, Ensured, diskVars, lockVars, planVars, boundVars
<1>7. CASE Discard(p)
  BY <1>7 DEF Discard, diskVars, lockVars, planVars, boundVars
<1>8. CASE TakeSongLock(p)
  BY <1>8 DEF TakeSongLock, diskVars, lockVars, planVars, boundVars
<1>9. CASE Merge(p)
  BY <1>9 DEF Merge, diskVars, lockVars, planVars, boundVars
<1>10. CASE Open(p)
  BY <1>10 DEF Open, Ensured, diskVars, lockVars, planVars, boundVars
<1>11. CASE WriteTemp(p)
  BY <1>11 DEF WriteTemp, diskVars, lockVars, planVars, boundVars
<1>12. CASE Rename(p)
  BY <1>12 DEF Rename, GivesUp, diskVars, lockVars, planVars, boundVars
<1>13. CASE Unlock(p)
  BY <1>13 DEF Unlock, Ensured, diskVars, lockVars, planVars, boundVars
<1>14. CASE Load(p)
  BY <1>14 DEF Load, diskVars, lockVars, planVars, boundVars
<1>15. CASE Crash(p)
  BY <1>15 DEF Crash, diskVars, lockVars, planVars, boundVars
<1>16. ASSUME NEW s \in Songs, BuildNext(p, s) PROVE Framed(p) /\ kind' = kind /\ corruptions' = corruptions
  BY <1>16 DEF BuildNext, diskVars, lockVars, planVars, boundVars
<1>17. ASSUME NEW authorize \in BOOLEAN, BeginStartup(p, authorize)
      PROVE  Framed(p) /\ kind' = kind /\ corruptions' = corruptions
  BY <1>17 DEF BeginStartup, diskVars, lockVars, planVars, boundVars
<1>18. ASSUME NEW s \in Songs, NEW keys \in SUBSET Keys, BeginServe(p, s, keys)
      PROVE  Framed(p) /\ kind' = kind /\ corruptions' = corruptions
  BY <1>18 DEF BeginServe, diskVars, lockVars, planVars, boundVars
<1>19. CASE BuildFails(p)
  BY <1>19 DEF BuildFails, GivesUp, diskVars, lockVars, planVars, boundVars
<1> QED
  BY <1>1, <1>2, <1>3, <1>4, <1>5, <1>6, <1>7, <1>8, <1>9, <1>10, <1>11, <1>12, <1>13, <1>14, <1>15, <1>16, <1>17, <1>18, <1>19
     DEF Careful

\* What the others keep for themselves is what it was.
LEMMA StepAlone ==
  ASSUME LocalsOK, NEW p \in Procs, Framed(p), NEW q \in Procs \ {p}
  PROVE  Local(q)' = Local(q)
<1>1. pc'[q] = pc[q]
  BY DEF LocalsOK, Framed
<1>2. song'[q] = song[q]
  BY DEF LocalsOK, Framed
<1>3. need'[q] = need[q]
  BY DEF LocalsOK, Framed
<1>4. path'[q] = path[q]
  BY DEF LocalsOK, Framed
<1>5. loaded'[q] = loaded[q]
  BY DEF LocalsOK, Framed
<1>6. startup'[q] = startup[q]
  BY DEF LocalsOK, Framed
<1>7. misses'[q] = misses[q]
  BY DEF LocalsOK, Framed
<1>8. todo'[q] = todo[q]
  BY DEF LocalsOK, Framed
<1>9. built'[q] = built[q]
  BY DEF LocalsOK, Framed
<1>10. memory'[q] = memory[q]
  BY DEF LocalsOK, Framed
<1>11. result'[q] = result[q]
  BY DEF LocalsOK, Framed
<1> QED
  BY <1>1, <1>2, <1>3, <1>4, <1>5, <1>6, <1>7, <1>8, <1>9, <1>10, <1>11 DEF Local

-----------------------------------------------------------------------------
\* What a process keeps for itself has its types.
LEMMA LocalTypes == ASSUME LocalsOK, NEW p \in Procs PROVE LocalOK(p)
  BY DEF LocalsOK, LocalOK

\* Without damaged files nothing is deleted.
LEMMA CalmDisk ==
  ASSUME LocalsOK, SharedOK, FilesInv, NEW p \in Procs, PlaceOK(p), Careful(p), corruptions = 0
  PROVE  disk' = disk
<1>1. Deletes
  BY CarefulDeletes
<1>2. \A f \in Files : ~Fails(disk[f])
  BY DEF Fails, Unreadable, ProbeFails, FilesInv
<1>3. disk \in [Files -> Contents] /\ disk' \in [Files -> Contents] /\ \A f \in Files : disk'[f] = disk[f]
  BY <1>1, <1>2 DEF Deletes, SharedOK
<1> QED
  BY ONLY <1>3

\* What a plan does not miss is complete, whichever hits it samples.
LEMMA HitsComplete ==
  ASSUME FilesInv, corruptions = 0, NEW sample, NEW c \in Charts \ PlanMisses(sample)
  PROVE  Complete(Serving(SongOf[c]))
<1>1. c \in NewlyComplete \/ Recorded(c)
  BY DEF PlanMisses, Hits
<1> QED
  BY <1>1 DEF NewlyComplete, Recorded, FilesInv

\* A rename publishes no less than the song had: what is complete stays so.
LEMMA RenameGrows ==
  ASSUME LocalsOK, SharedOK, FilesInv, NEW p \in Procs, ProcInv(p), Rename(p), corruptions = 0, NEW s \in Songs
  PROVE  /\ Serving(s).there => (Serving(s)').there
         /\ Serving(s).keys \subseteq (Serving(s)').keys
         /\ ~ProbeFails(Serving(s)) => ~ProbeFails(Serving(s))'
         /\ s # song[p] => Serving(s)' = Serving(s)
<1>1. song[p] \in Songs /\ pc[p] = "rename" /\ kind \in {"fg", "timeline"}
  BY DEF Rename, At, ProcInv, PlaceOK, SongWork, SharedOK
<1>0. kind' = kind
  BY StepFramed
<1>2. CASE disk' = disk
  BY <1>0, <1>2 DEF Serving, ServingFile, ProbeFails
<1>3. CASE disk' = [disk EXCEPT ![<<song[p], "current">>] = Bundle(Payload(p))]
  <2>1. <<song[p], "current">> \in Files /\ <<s, "current">> \in Files /\ <<s, "predecessor">> \in Files
    BY <1>1 DEF Files, Versions
  <2>2. /\ disk'[<<song[p], "current">>] = Bundle(Payload(p))
        /\ disk'[<<s, "predecessor">>] = disk[<<s, "predecessor">>]
        /\ s # song[p] => disk'[<<s, "current">>] = disk[<<s, "current">>]
    BY <1>3, <2>1 DEF SharedOK
  <2>3. CASE s # song[p]
    BY <1>0, <2>2, <2>3 DEF Serving, ServingFile, ProbeFails
  <2>4. CASE s = song[p]
    <3>1. Serving(s)' = Bundle(Payload(p))
      BY <2>2, <2>4, ContentFacts DEF Serving, ServingFile
    <3>2. Serving(s) \in Contents
      BY ServingFacts
    <3>3. Serving(s).keys \subseteq Payload(p)
      BY <1>1, <2>4, <3>2 DEF ProcInv, WorkOK, Payload, Contents
    <3> QED
      BY <2>4, <3>1, <3>3, ContentFacts DEF ProbeFails
  <2> QED
    BY <2>3, <2>4
<1> QED
  BY <1>2, <1>3 DEF Rename

\* What nobody touches stays held.
LEMMA CalmHeld ==
  ASSUME NEW p \in Procs, NEW s \in Songs, disk' = disk, kind' = kind, Complete(Serving(s))
  PROVE  Complete(Serving(s))' /\ Held(p, s)'
<1>1. Serving(s)' = Serving(s)
  BY DEF Serving, ServingFile
<1> QED
  BY <1>1 DEF Held, Complete, ProbeFails

\* A prebuild's plan stays good while what it built is held and nothing is deleted.
LEMMA PlanKept ==
  ASSUME NEW p \in Procs, PlanOK(p), kind' = kind, corruptions' = corruptions, corruptions = 0 => disk' = disk,
         startup'[p] = startup[p], pc[p] # "idle",
         pc[p] \notin {"probePlan", "waitBuild", "plan"} \/ pc'[p] \in {"idle", "probePlan", "waitBuild", "plan"},
         misses'[p] = misses[p],
         startup[p] => \A s \in Songs : built'[p][s] = built[p][s] \/ (corruptions = 0 => Held(p, s)'),
         kind = "timeline" => \A s \in Songs : Keys \subseteq memory[p][s] => Keys \subseteq memory'[p][s]
  PROVE  PlanOK(p)'
<1>1. ASSUME corruptions = 0, NEW s \in Songs, Held(p, s), kind = "timeline" /\ Keys \subseteq memory[p][s] => Keys \subseteq memory'[p][s]
      PROVE  Held(p, s)'
  BY <1>1, CalmHeld DEF Held
<1>2. ASSUME corruptions = 0, NEW c \in Charts, Complete(Serving(SongOf[c])) PROVE Complete(Serving(SongOf[c]))'
  BY <1>2, CalmHeld, CacheAssumption
<1> QED
  BY <1>1, <1>2 DEF PlanOK

-----------------------------------------------------------------------------
\* A process takes locks that are free and releases its own.
LockFrame(p) ==
    /\ \/ buildLock' = buildLock
       \/ buildLock = None /\ buildLock' = p
       \/ buildLock = p /\ buildLock' = None
    /\ songLock' \in [Songs -> Procs \cup {None}]
    /\ \A s \in Songs : \/ songLock'[s] = songLock[s]
                        \/ songLock[s] = None /\ songLock'[s] = p
                        \/ songLock[s] = p /\ songLock'[s] = None

\* The unlocked probe of the plan: it ends "ready" only when nothing is missed.
LEMMA OwnProbePlan ==
  ASSUME LocalsOK, SharedOK, FilesInv, NEW p \in Procs, ProcInv(p), ProbePlan(p)
  PROVE  LocalOK(p)' /\ ProcInv(p)' /\ LockFrame(p)
<1>1. /\ pc[p] = "probePlan"
      /\ song'[p] = song[p] /\ need'[p] = need[p] /\ path'[p] = path[p] /\ loaded'[p] = loaded[p] /\ startup'[p] = startup[p] /\ misses'[p] = misses[p]
      /\ todo'[p] = todo[p] /\ built'[p] = built[p] /\ memory'[p] = memory[p]
      /\ \/ pc'[p] = "idle" /\ result'[p] = "ready" /\ \E sample \in Samples : PlanMisses(sample) = {}
         \/ pc'[p] = "waitBuild" /\ result'[p] = result[p]
  BY DEF ProbePlan, At, Goto, End, LocalsOK, diskVars, lockVars, planVars, boundVars
<1>2. buildLock' = buildLock /\ songLock' = songLock
  BY DEF ProbePlan, lockVars
<1>3. kind' = kind /\ corruptions' = corruptions /\ (corruptions = 0 => disk' = disk)
  BY StepFramed, CalmDisk DEF Careful, ProcInv
<1>4. LocalOK(p) /\ (pc[p] \in SongWork => ServingFile(song[p]) \in Files /\ Serving(song[p]) \in Contents)
  BY LocalTypes, ServingFacts DEF ProcInv, PlaceOK
<1>5. LocalOK(p)'
  BY <1>1, <1>4, ContentFacts, CacheAssumption DEF LocalOK, Steps, Ends, SongWork
<1>6. LockFrame(p)
  BY <1>1, <1>2, CacheAssumption DEF LockFrame, ProcInv, LocksOK, PlaceOK, SharedOK, SongWork, SongSteps, BuildSteps
<1>7. LocksOK(p)'
  BY <1>1, <1>2, <1>3, CacheAssumption DEF ProcInv, LocksOK, PlaceOK, SharedOK, SongWork, SongSteps, BuildSteps, PrebuildSteps
<1>8. PlaceOK(p)'
  BY <1>1, <1>3, <1>4 DEF ProcInv, PlaceOK, SongWork, PrebuildSteps, SharedOK, FilesInv, Unreadable
<1>9. WorkOK(p)'
  BY <1>1, <1>3, <1>4, ContentFacts DEF ProcInv, WorkOK, PlaceOK, SongWork, Serving, ServingFile
<1>10. PlanOK(p)'
  BY <1>1, <1>3, PlanKept DEF ProcInv
<1>11. ServedOK(p)'
  BY <1>1, <1>4, ContentFacts DEF ProcInv, ServedOK, PlaceOK
<1>12. ReadyOK(p)'
  <2>1. ASSUME corruptions = 0, NEW sample \in Samples, PlanMisses(sample) = {}, NEW c \in Charts PROVE Held(p, SongOf[c])'
    <3>1. Complete(Serving(SongOf[c])) /\ SongOf[c] \in Songs
      BY <2>1, HitsComplete, CacheAssumption
    <3> QED
      BY <1>3, <2>1, <3>1, CalmHeld
  <2> QED
    BY <1>1, <1>3, <2>1 DEF ProcInv, ReadyOK, PlaceOK
<1> QED
  BY <1>5, <1>6, <1>7, <1>8, <1>9, <1>10, <1>11, <1>12 DEF ProcInv

\* The build lock is taken when it is free.
LEMMA OwnTakeBuildLock ==
  ASSUME LocalsOK, SharedOK, FilesInv, NEW p \in Procs, ProcInv(p), TakeBuildLock(p)
  PROVE  LocalOK(p)' /\ ProcInv(p)' /\ LockFrame(p)
<1>1. /\ pc[p] = "waitBuild"
      /\ song'[p] = song[p] /\ need'[p] = need[p] /\ path'[p] = path[p] /\ loaded'[p] = loaded[p] /\ startup'[p] = startup[p] /\ misses'[p] = misses[p]
      /\ todo'[p] = todo[p] /\ built'[p] = built[p] /\ memory'[p] = memory[p] /\ result'[p] = result[p]
      /\ pc'[p] = "plan"
  BY DEF TakeBuildLock, At, Goto, End, LocalsOK, diskVars, lockVars, planVars, boundVars
<1>2. buildLock = None /\ buildLock' = p /\ songLock' = songLock
  BY DEF TakeBuildLock, lockVars
<1>3. kind' = kind /\ corruptions' = corruptions /\ (corruptions = 0 => disk' = disk)
  BY StepFramed, CalmDisk DEF Careful, ProcInv
<1>4. LocalOK(p) /\ (pc[p] \in SongWork => ServingFile(song[p]) \in Files /\ Serving(song[p]) \in Contents)
  BY LocalTypes, ServingFacts DEF ProcInv, PlaceOK
<1>5. LocalOK(p)'
  BY <1>1, <1>4, ContentFacts, CacheAssumption DEF LocalOK, Steps, Ends, SongWork
<1>6. LockFrame(p)
  BY <1>1, <1>2, CacheAssumption DEF LockFrame, ProcInv, LocksOK, PlaceOK, SharedOK, SongWork, SongSteps, BuildSteps
<1>7. LocksOK(p)'
  BY <1>1, <1>2, <1>3, CacheAssumption DEF ProcInv, LocksOK, PlaceOK, SharedOK, SongWork, SongSteps, BuildSteps, PrebuildSteps
<1>8. PlaceOK(p)'
  BY <1>1, <1>3, <1>4 DEF ProcInv, PlaceOK, SongWork, PrebuildSteps, SharedOK, FilesInv, Unreadable
<1>9. WorkOK(p)'
  BY <1>1, <1>3, <1>4, ContentFacts DEF ProcInv, WorkOK, PlaceOK, SongWork, Serving, ServingFile
<1>10. PlanOK(p)'
  BY <1>1, <1>3, PlanKept DEF ProcInv
<1>11. ServedOK(p)'
  BY <1>1, <1>4, ContentFacts DEF ProcInv, ServedOK, PlaceOK
<1>12. ReadyOK(p)'
  BY <1>1 DEF ProcInv, ReadyOK, PlaceOK
<1> QED
  BY <1>5, <1>6, <1>7, <1>8, <1>9, <1>10, <1>11, <1>12 DEF ProcInv

\* The plan under the lock: what it does not miss is complete.
LEMMA OwnPlan ==
  ASSUME LocalsOK, SharedOK, FilesInv, NEW p \in Procs, ProcInv(p), Plan(p)
  PROVE  LocalOK(p)' /\ ProcInv(p)' /\ LockFrame(p)
<1>1. /\ pc[p] = "plan"
      /\ song'[p] = song[p] /\ need'[p] = need[p] /\ path'[p] = path[p] /\ loaded'[p] = loaded[p] /\ startup'[p] = startup[p] /\ todo'[p] = todo[p]
      /\ built'[p] = built[p] /\ memory'[p] = memory[p] /\ result'[p] = result[p]
      /\ pc'[p] = "maintain" /\ \E sample \in Samples : misses'[p] = PlanMisses(sample)
  BY DEF Plan, At, Goto, End, LocalsOK, diskVars, lockVars, planVars, boundVars
<1>2. buildLock' = buildLock /\ songLock' = songLock
  BY DEF Plan, lockVars
<1>3. kind' = kind /\ corruptions' = corruptions /\ (corruptions = 0 => disk' = disk)
  BY StepFramed, CalmDisk DEF Careful, ProcInv
<1>4. LocalOK(p) /\ (pc[p] \in SongWork => ServingFile(song[p]) \in Files /\ Serving(song[p]) \in Contents)
  BY LocalTypes, ServingFacts DEF ProcInv, PlaceOK
<1>5. LocalOK(p)'
  BY <1>1, <1>4 DEF LocalOK, Steps, PlanMisses
<1>6. LockFrame(p)
  BY <1>1, <1>2, CacheAssumption DEF LockFrame, ProcInv, LocksOK, PlaceOK, SharedOK, SongWork, SongSteps, BuildSteps
<1>7. LocksOK(p)'
  BY <1>1, <1>2, <1>3, CacheAssumption DEF ProcInv, LocksOK, PlaceOK, SharedOK, SongWork, SongSteps, BuildSteps, PrebuildSteps
<1>8. PlaceOK(p)'
  BY <1>1, <1>3, <1>4 DEF ProcInv, PlaceOK, SongWork, PrebuildSteps, SharedOK, FilesInv, Unreadable
<1>9. WorkOK(p)'
  BY <1>1, <1>3, <1>4, ContentFacts DEF ProcInv, WorkOK, PlaceOK, SongWork, Serving, ServingFile
<1>10. PlanOK(p)'
  <2>1. corruptions = 0 => \A c \in Charts \ misses'[p] : Complete(Serving(SongOf[c]))
    BY <1>1, HitsComplete
  <2> QED
    BY <1>1, <1>3, <2>1 DEF ProcInv, PlanOK, Held, Complete, ProbeFails, Serving, ServingFile
<1>11. ServedOK(p)'
  BY <1>1, <1>4, ContentFacts DEF ProcInv, ServedOK, PlaceOK
<1>12. ReadyOK(p)'
  BY <1>1 DEF ProcInv, ReadyOK, PlaceOK
<1> QED
  BY <1>5, <1>6, <1>7, <1>8, <1>9, <1>10, <1>11, <1>12 DEF ProcInv

\* The directory is kept: refused, done, or the misses are to be built.
LEMMA OwnMaintain ==
  ASSUME LocalsOK, SharedOK, FilesInv, NEW p \in Procs, ProcInv(p), Maintain(p)
  PROVE  LocalOK(p)' /\ ProcInv(p)' /\ LockFrame(p)
<1>1. /\ pc[p] = "maintain"
      /\ song'[p] = song[p] /\ need'[p] = need[p] /\ path'[p] = path[p] /\ loaded'[p] = loaded[p] /\ startup'[p] = startup[p] /\ misses'[p] = misses[p]
      /\ built'[p] = built[p] /\ memory'[p] = memory[p]
      /\ \/ /\ pc'[p] = "idle" /\ todo'[p] = todo[p] /\ buildLock' = None
            /\ result'[p] = "refused" \/ (result'[p] = "ready" /\ misses[p] = {})
         \/ pc'[p] = "build" /\ todo'[p] = {SongOf[c] : c \in misses[p]} /\ result'[p] = result[p] /\ buildLock' = buildLock
  BY DEF Maintain, At, Goto, End, LocalsOK, diskVars, lockVars, planVars, boundVars
<1>2. songLock' = songLock
  BY DEF Maintain, lockVars
<1>3. kind' = kind /\ corruptions' = corruptions /\ (corruptions = 0 => disk' = disk)
  BY StepFramed, CalmDisk DEF Careful, ProcInv
<1>4. LocalOK(p) /\ (pc[p] \in SongWork => ServingFile(song[p]) \in Files /\ Serving(song[p]) \in Contents)
  BY LocalTypes, ServingFacts DEF ProcInv, PlaceOK
<1>5. LocalOK(p)'
  BY <1>1, <1>4, ContentFacts, CacheAssumption DEF LocalOK, Steps, Ends, SongWork
<1>6. LockFrame(p)
  BY <1>1, <1>2, CacheAssumption DEF LockFrame, ProcInv, LocksOK, PlaceOK, SharedOK, PrebuildSteps, BuildSteps
<1>7. LocksOK(p)'
  BY <1>1, <1>2, <1>3, CacheAssumption DEF ProcInv, LocksOK, PlaceOK, SharedOK, SongWork, SongSteps, BuildSteps, PrebuildSteps
<1>8. PlaceOK(p)'
  BY <1>1, <1>3, <1>4 DEF ProcInv, PlaceOK, SongWork, PrebuildSteps, SharedOK, FilesInv, Unreadable
<1>9. WorkOK(p)'
  BY <1>1, <1>3, <1>4, ContentFacts DEF ProcInv, WorkOK, PlaceOK, SongWork, Serving, ServingFile
<1>10. PlanOK(p)'
  BY <1>1, <1>3, PlanKept DEF ProcInv
<1>11. ServedOK(p)'
  BY <1>1, <1>4, ContentFacts DEF ProcInv, ServedOK, PlaceOK
<1>12. ReadyOK(p)'
  <2>1. ASSUME corruptions = 0, startup[p], misses[p] = {}, NEW c \in Charts PROVE Held(p, SongOf[c])'
    BY <1>1, <1>3, <2>1, CalmHeld, CacheAssumption DEF ProcInv, PlanOK
  <2> QED
    BY <1>1, <1>3, <2>1 DEF ProcInv, ReadyOK, PlaceOK
<1> QED
  BY <1>5, <1>6, <1>7, <1>8, <1>9, <1>10, <1>11, <1>12 DEF ProcInv

\* The end of the build: "ready" when every missed chart's song was built.
LEMMA OwnRecordBuilds ==
  ASSUME LocalsOK, SharedOK, FilesInv, NEW p \in Procs, ProcInv(p), RecordBuilds(p)
  PROVE  LocalOK(p)' /\ ProcInv(p)' /\ LockFrame(p)
<1>1. /\ pc[p] = "build"
      /\ song'[p] = song[p] /\ need'[p] = need[p] /\ path'[p] = path[p] /\ loaded'[p] = loaded[p] /\ startup'[p] = startup[p] /\ misses'[p] = misses[p]
      /\ todo'[p] = todo[p] /\ built'[p] = built[p] /\ memory'[p] = memory[p]
      /\ pc'[p] = "idle"
      /\ \/ result'[p] = "failed"
         \/ result'[p] = "ready" /\ \A c \in misses[p] : built[p][SongOf[c]] # None
  BY DEF RecordBuilds, At, Goto, End, LocalsOK, diskVars, lockVars, planVars, boundVars
<1>2. buildLock' = None /\ songLock' = songLock
  BY DEF RecordBuilds, lockVars
<1>3. kind' = kind /\ corruptions' = corruptions /\ (corruptions = 0 => disk' = disk)
  BY StepFramed, CalmDisk DEF Careful, ProcInv
<1>4. LocalOK(p) /\ (pc[p] \in SongWork => ServingFile(song[p]) \in Files /\ Serving(song[p]) \in Contents)
  BY LocalTypes, ServingFacts DEF ProcInv, PlaceOK
<1>5. LocalOK(p)'
  BY <1>1, <1>4, ContentFacts, CacheAssumption DEF LocalOK, Steps, Ends, SongWork
<1>6. LockFrame(p)
  BY <1>1, <1>2, CacheAssumption DEF LockFrame, ProcInv, LocksOK, PlaceOK, SharedOK, PrebuildSteps, BuildSteps
<1>7. LocksOK(p)'
  BY <1>1, <1>2, <1>3, CacheAssumption DEF ProcInv, LocksOK, PlaceOK, SharedOK, SongWork, SongSteps, BuildSteps, PrebuildSteps
<1>8. PlaceOK(p)'
  BY <1>1, <1>3, <1>4 DEF ProcInv, PlaceOK, SongWork, PrebuildSteps, SharedOK, FilesInv, Unreadable
<1>9. WorkOK(p)'
  BY <1>1, <1>3, <1>4, ContentFacts DEF ProcInv, WorkOK, PlaceOK, SongWork, Serving, ServingFile
<1>10. PlanOK(p)'
  BY <1>1 DEF PlanOK
<1>11. ServedOK(p)'
  BY <1>1, <1>4, ContentFacts DEF ProcInv, ServedOK, PlaceOK
<1>12. ReadyOK(p)'
  <2>1. startup[p] /\ corruptions = 0 => \A c \in Charts : SongOf[c] \in Songs
    BY CacheAssumption
  <2>2. ASSUME startup[p], corruptions = 0, result'[p] = "ready", NEW c \in Charts PROVE Held(p, SongOf[c])
    BY <1>1, <2>1, <2>2 DEF ProcInv, PlanOK, Held
  <2>3. ASSUME corruptions = 0, NEW s \in Songs, Held(p, s) PROVE Held(p, s)'
    BY <1>1, <1>3, <2>3, CalmHeld DEF Held
  <2> QED
    BY <1>1, <1>3, <2>1, <2>2, <2>3, CacheAssumption DEF ReadyOK
<1> QED
  BY <1>5, <1>6, <1>7, <1>8, <1>9, <1>10, <1>11, <1>12 DEF ProcInv

\* The next song: a timeline that is there, on disk or in memory, counts as built.
LEMMA OwnBuildNext ==
  ASSUME LocalsOK, SharedOK, FilesInv, NEW p \in Procs, ProcInv(p), NEW t \in todo[p], BuildNext(p, t)
  PROVE  LocalOK(p)' /\ ProcInv(p)' /\ LockFrame(p)
<1>0. t \in Songs /\ BuildNext(p, t)
  BY DEF LocalsOK
<1>1. /\ pc[p] = "build"
      /\ path'[p] = path[p] /\ loaded'[p] = loaded[p] /\ startup'[p] = startup[p] /\ misses'[p] = misses[p] /\ memory'[p] = memory[p] /\ result'[p] = result[p]
      /\ song'[p] = t /\ need'[p] = Keys /\ todo'[p] = todo[p] \ {t}
      /\ \/ /\ kind = "timeline" /\ pc'[p] = "build" /\ (memory[p][t] # {} \/ Serving(t).there)
            /\ built'[p] = [built[p] EXCEPT ![t] = ServingFile(t)]
         \/ kind = "fg" /\ pc'[p] = "ensure" /\ built'[p] = built[p]
         \/ kind = "timeline" /\ pc'[p] = "open" /\ built'[p] = built[p]
  <2>1. CASE kind = "timeline" /\ (memory[p][t] # {} \/ Serving(t).there)
    BY <1>0, <2>1 DEF BuildNext, At, Goto, LocalsOK
  <2>2. CASE ~(kind = "timeline" /\ (memory[p][t] # {} \/ Serving(t).there))
    <3>1. /\ pc[p] = "build" /\ path' = path /\ loaded' = loaded /\ startup' = startup /\ misses' = misses
          /\ memory' = memory /\ result' = result /\ built' = built
          /\ pc' = [pc EXCEPT ![p] = IF kind = "fg" THEN "ensure" ELSE "open"]
          /\ song' = [song EXCEPT ![p] = t] /\ need' = [need EXCEPT ![p] = Keys]
          /\ todo' = [todo EXCEPT ![p] = @ \ {t}]
      BY <1>0, <2>2 DEF BuildNext, At, Goto
    <3>2. kind \in {"fg", "timeline"}
      BY DEF SharedOK
    <3> QED
      BY <3>1, <3>2 DEF LocalsOK
  <2> QED
    BY <2>1, <2>2
<1>2. buildLock' = buildLock /\ songLock' = songLock
  BY DEF BuildNext, lockVars
<1>3. kind' = kind /\ corruptions' = corruptions /\ (corruptions = 0 => disk' = disk)
  BY <1>0, StepFramed, CalmDisk DEF Careful, ProcInv
<1>4. LocalOK(p) /\ (pc[p] \in SongWork => ServingFile(song[p]) \in Files /\ Serving(song[p]) \in Contents)
  BY LocalTypes, ServingFacts DEF ProcInv, PlaceOK
<1>a. ServingFile(t) \in Files /\ Serving(t) \in Contents /\ Serving(t) = disk[ServingFile(t)]
  BY <1>0, ServingFacts
<1>5. LocalOK(p)'
  BY <1>0, <1>1, <1>4, <1>a DEF LocalOK, Steps, Files
<1>6. LockFrame(p)
  BY <1>1, <1>2, CacheAssumption DEF LockFrame, ProcInv, LocksOK, PlaceOK, SharedOK, SongWork, SongSteps, BuildSteps
<1>7. LocksOK(p)'
  BY <1>0, <1>1, <1>2, <1>3, CacheAssumption DEF ProcInv, LocksOK, PlaceOK, SharedOK, SongSteps, BuildSteps
<1>8. PlaceOK(p)'
  BY <1>0, <1>1, <1>3, <1>4 DEF ProcInv, PlaceOK, SongWork, PrebuildSteps
<1>9. WorkOK(p)'
  BY <1>1 DEF WorkOK
<1>10. PlanOK(p)'
  <2>1. ASSUME corruptions = 0, kind = "timeline", memory[p][t] # {} \/ Serving(t).there PROVE Held(p, t)
    BY <1>0, <1>a, <2>1 DEF FilesInv, Held, Complete, ProbeFails
  <2>2. corruptions = 0 => \A s \in Songs : Held(p, s) => Held(p, s)'
    BY <1>1, <1>3, CalmHeld DEF Held
  <2>3. \A s \in Songs : built'[p][s] = built[p][s] \/ (corruptions = 0 => Held(p, s)')
    BY <1>0, <1>1, <1>4, <2>1, <2>2 DEF LocalOK
  <2> QED
    BY <1>1, <1>3, <2>3, PlanKept DEF ProcInv
<1>11. ServedOK(p)'
  BY <1>1, <1>4, ContentFacts DEF ProcInv, ServedOK, PlaceOK
<1>12. ReadyOK(p)'
  BY <1>1 DEF ProcInv, ReadyOK, PlaceOK
<1> QED
  BY <1>5, <1>6, <1>7, <1>8, <1>9, <1>10, <1>11, <1>12 DEF ProcInv

\* The bundle on disk is probed for the keys needed.
LEMMA OwnProbe ==
  ASSUME LocalsOK, SharedOK, FilesInv, NEW p \in Procs, ProcInv(p), Probe(p)
  PROVE  LocalOK(p)' /\ ProcInv(p)' /\ LockFrame(p)
<1>1. /\ pc[p] = "ensure"
      /\ song'[p] = song[p] /\ need'[p] = need[p] /\ startup'[p] = startup[p] /\ misses'[p] = misses[p] /\ todo'[p] = todo[p] /\ memory'[p] = memory[p]
      /\ result'[p] = result[p]
      /\ path'[p] = ServingFile(song[p]) /\ loaded'[p] = Serving(song[p])
      /\ \/ ProbeFails(Serving(song[p])) /\ pc'[p] = "discard" /\ built'[p] = built[p]
         \/ /\ ~ProbeFails(Serving(song[p])) /\ Serving(song[p]).there /\ need[p] \subseteq Serving(song[p]).keys
            /\ \/ startup[p] /\ pc'[p] = "build" /\ built'[p] = [built[p] EXCEPT ![song[p]] = ServingFile(song[p])]
               \/ ~startup[p] /\ pc'[p] = "load" /\ built'[p] = built[p]
         \/ pc'[p] = "waitSong" /\ built'[p] = built[p]
  BY DEF Probe, Ensured, At, Goto, End, LocalsOK, diskVars, lockVars, planVars, boundVars
<1>2. buildLock' = buildLock /\ songLock' = songLock
  BY DEF Probe, Ensured, lockVars
<1>3. kind' = kind /\ corruptions' = corruptions /\ (corruptions = 0 => disk' = disk)
  BY StepFramed, CalmDisk DEF Careful, ProcInv
<1>4. LocalOK(p) /\ (pc[p] \in SongWork => ServingFile(song[p]) \in Files /\ Serving(song[p]) \in Contents)
  BY LocalTypes, ServingFacts DEF ProcInv, PlaceOK
<1>5. LocalOK(p)'
  BY <1>1, <1>4, ContentFacts, CacheAssumption DEF LocalOK, Steps, Ends, SongWork
<1>6. LockFrame(p)
  BY <1>1, <1>2, CacheAssumption DEF LockFrame, ProcInv, LocksOK, PlaceOK, SharedOK, SongWork, SongSteps, BuildSteps
<1>7. LocksOK(p)'
  BY <1>1, <1>2, <1>3, CacheAssumption DEF ProcInv, LocksOK, PlaceOK, SharedOK, SongWork, SongSteps, BuildSteps, PrebuildSteps
<1>8. PlaceOK(p)'
  BY <1>1, <1>3, <1>4, ServingFacts DEF ProcInv, PlaceOK, SongWork, PrebuildSteps, FilesInv, ProbeFails
<1>9. WorkOK(p)'
  BY <1>1 DEF WorkOK
<1>10. PlanOK(p)'
  <2>1. song[p] \in Songs /\ kind = "fg" /\ (startup[p] => need[p] = Keys)
    BY <1>1 DEF ProcInv, PlaceOK, SongWork
  <2>2. corruptions = 0 => \A s \in Songs : Complete(Serving(s)) => Held(p, s)'
    BY <1>3, CalmHeld
  <2>3. startup[p] => \A s \in Songs : built'[p][s] = built[p][s] \/ (corruptions = 0 => Held(p, s)')
    BY <1>1, <1>4, <2>1, <2>2 DEF LocalOK, Complete
  <2> QED
    BY <1>1, <1>3, <2>3, PlanKept DEF ProcInv
<1>11. ServedOK(p)'
  BY <1>1, <1>4, ContentFacts DEF ProcInv, ServedOK, PlaceOK
<1>12. ReadyOK(p)'
  BY <1>1 DEF ProcInv, ReadyOK, PlaceOK
<1> QED
  BY <1>5, <1>6, <1>7, <1>8, <1>9, <1>10, <1>11, <1>12 DEF ProcInv

\* What could not be read is deleted, whatever is there by now.
LEMMA OwnDiscard ==
  ASSUME LocalsOK, SharedOK, FilesInv, NEW p \in Procs, ProcInv(p), Discard(p)
  PROVE  LocalOK(p)' /\ ProcInv(p)' /\ LockFrame(p)
<1>1. /\ pc[p] = "discard"
      /\ song'[p] = song[p] /\ need'[p] = need[p] /\ path'[p] = path[p] /\ loaded'[p] = loaded[p] /\ startup'[p] = startup[p] /\ misses'[p] = misses[p]
      /\ todo'[p] = todo[p] /\ built'[p] = built[p] /\ memory'[p] = memory[p] /\ result'[p] = result[p]
      /\ pc'[p] = IF kind = "fg" THEN "waitSong" ELSE "write"
  BY DEF Discard, At, Goto, End, LocalsOK, diskVars, lockVars, planVars, boundVars
<1>2. buildLock' = buildLock /\ songLock' = songLock
  BY DEF Discard, lockVars
<1>3. kind' = kind /\ corruptions' = corruptions /\ (corruptions = 0 => disk' = disk)
  BY StepFramed, CalmDisk DEF Careful, ProcInv
<1>4. LocalOK(p) /\ (pc[p] \in SongWork => ServingFile(song[p]) \in Files /\ Serving(song[p]) \in Contents)
  BY LocalTypes, ServingFacts DEF ProcInv, PlaceOK
<1>5. LocalOK(p)'
  BY <1>1, <1>4, ContentFacts, CacheAssumption DEF LocalOK, Steps, Ends, SongWork
<1>6. LockFrame(p)
  BY <1>1, <1>2, CacheAssumption DEF LockFrame, ProcInv, LocksOK, PlaceOK, SharedOK, SongWork, SongSteps, BuildSteps
<1>7. LocksOK(p)'
  BY <1>1, <1>2, <1>3, CacheAssumption DEF ProcInv, LocksOK, PlaceOK, SharedOK, SongWork, SongSteps, BuildSteps, PrebuildSteps
<1>8. PlaceOK(p)'
  BY <1>1, <1>3, <1>4 DEF ProcInv, PlaceOK, SongWork, PrebuildSteps, SharedOK, FilesInv, Unreadable
<1>9. WorkOK(p)'
  BY <1>1, <1>3, <1>4, ContentFacts DEF ProcInv, WorkOK, PlaceOK, SongWork, Serving, ServingFile
<1>10. PlanOK(p)'
  BY <1>1, <1>3 DEF ProcInv, PlaceOK, PlanOK
<1>11. ServedOK(p)'
  BY <1>1, <1>4, ContentFacts DEF ProcInv, ServedOK, PlaceOK
<1>12. ReadyOK(p)'
  BY <1>1 DEF ProcInv, ReadyOK, PlaceOK
<1> QED
  BY <1>5, <1>6, <1>7, <1>8, <1>9, <1>10, <1>11, <1>12 DEF ProcInv

\* The song's lock is taken when it is free.
LEMMA OwnTakeSongLock ==
  ASSUME LocalsOK, SharedOK, FilesInv, NEW p \in Procs, ProcInv(p), TakeSongLock(p)
  PROVE  LocalOK(p)' /\ ProcInv(p)' /\ LockFrame(p)
<1>1. /\ pc[p] = "waitSong"
      /\ song'[p] = song[p] /\ need'[p] = need[p] /\ path'[p] = path[p] /\ loaded'[p] = loaded[p] /\ startup'[p] = startup[p] /\ misses'[p] = misses[p]
      /\ todo'[p] = todo[p] /\ built'[p] = built[p] /\ memory'[p] = memory[p] /\ result'[p] = result[p]
      /\ pc'[p] = "merge"
  BY DEF TakeSongLock, At, Goto, End, LocalsOK, diskVars, lockVars, planVars, boundVars
<1>2. songLock[song[p]] = None /\ songLock' = [songLock EXCEPT ![song[p]] = p] /\ buildLock' = buildLock
  BY DEF TakeSongLock, lockVars
<1>3. kind' = kind /\ corruptions' = corruptions /\ (corruptions = 0 => disk' = disk)
  BY StepFramed, CalmDisk DEF Careful, ProcInv
<1>4. LocalOK(p) /\ (pc[p] \in SongWork => ServingFile(song[p]) \in Files /\ Serving(song[p]) \in Contents)
  BY LocalTypes, ServingFacts DEF ProcInv, PlaceOK
<1>5. LocalOK(p)'
  BY <1>1, <1>4, ContentFacts, CacheAssumption DEF LocalOK, Steps, Ends, SongWork
<1>6. LockFrame(p)
  BY <1>1, <1>2, CacheAssumption DEF LockFrame, ProcInv, LocksOK, PlaceOK, SharedOK, SongWork, SongSteps, BuildSteps
<1>7. LocksOK(p)'
  BY <1>1, <1>2, <1>3, CacheAssumption DEF ProcInv, LocksOK, PlaceOK, SharedOK, SongWork, SongSteps, BuildSteps, PrebuildSteps
<1>8. PlaceOK(p)'
  BY <1>1, <1>3, <1>4 DEF ProcInv, PlaceOK, SongWork, PrebuildSteps, SharedOK, FilesInv, Unreadable
<1>9. WorkOK(p)'
  BY <1>1, <1>3, <1>4, ContentFacts DEF ProcInv, WorkOK, PlaceOK, SongWork, Serving, ServingFile
<1>10. PlanOK(p)'
  BY <1>1, <1>3, PlanKept DEF ProcInv
<1>11. ServedOK(p)'
  BY <1>1, <1>4, ContentFacts DEF ProcInv, ServedOK, PlaceOK
<1>12. ReadyOK(p)'
  BY <1>1 DEF ProcInv, ReadyOK, PlaceOK
<1> QED
  BY <1>5, <1>6, <1>7, <1>8, <1>9, <1>10, <1>11, <1>12 DEF ProcInv

\* The base of the merge is what serves the song while its lock is held.
LEMMA OwnMerge ==
  ASSUME LocalsOK, SharedOK, FilesInv, NEW p \in Procs, ProcInv(p), Merge(p)
  PROVE  LocalOK(p)' /\ ProcInv(p)' /\ LockFrame(p)
<1>1. /\ pc[p] = "merge"
      /\ song'[p] = song[p] /\ need'[p] = need[p] /\ path'[p] = path[p] /\ startup'[p] = startup[p] /\ misses'[p] = misses[p] /\ todo'[p] = todo[p]
      /\ built'[p] = built[p] /\ memory'[p] = memory[p] /\ result'[p] = result[p]
      /\ loaded'[p] = IF Unreadable(Serving(song[p])) THEN Absent ELSE Serving(song[p])
      /\ pc'[p] = IF need[p] \subseteq loaded'[p].keys THEN "unlock" ELSE "write"
  BY DEF Merge, At, Goto, End, LocalsOK, diskVars, lockVars, planVars, boundVars
<1>2. buildLock' = buildLock /\ songLock' = songLock
  BY DEF Merge, lockVars
<1>3. kind' = kind /\ corruptions' = corruptions /\ (corruptions = 0 => disk' = disk)
  BY StepFramed, CalmDisk DEF Careful, ProcInv
<1>4. LocalOK(p) /\ (pc[p] \in SongWork => ServingFile(song[p]) \in Files /\ Serving(song[p]) \in Contents)
  BY LocalTypes, ServingFacts DEF ProcInv, PlaceOK
<1>5. LocalOK(p)'
  BY <1>1, <1>4, ContentFacts, CacheAssumption DEF LocalOK, Steps, Ends, SongWork
<1>6. LockFrame(p)
  BY <1>1, <1>2, CacheAssumption DEF LockFrame, ProcInv, LocksOK, PlaceOK, SharedOK, SongWork, SongSteps, BuildSteps
<1>7. LocksOK(p)'
  BY <1>1, <1>2, <1>3, CacheAssumption DEF ProcInv, LocksOK, PlaceOK, SharedOK, SongWork, SongSteps, BuildSteps, PrebuildSteps
<1>8. PlaceOK(p)'
  BY <1>1, <1>3, <1>4 DEF ProcInv, PlaceOK, SongWork, PrebuildSteps, SharedOK, FilesInv, Unreadable
<1>9. WorkOK(p)'
  <2>1. song[p] \in Songs
    BY <1>1 DEF ProcInv, PlaceOK, SongWork
  <2>2. corruptions = 0 => loaded'[p] = Serving(song[p])
    BY <1>1, <2>1, ServingFacts DEF FilesInv, Unreadable
  <2>3. corruptions = 0 => Serving(song[p])' = Serving(song[p])
    BY <1>1, <1>3 DEF Serving, ServingFile
  <2> QED
    BY <1>1, <1>3, <2>2, <2>3 DEF WorkOK
<1>10. PlanOK(p)'
  BY <1>1, <1>3, PlanKept DEF ProcInv
<1>11. ServedOK(p)'
  BY <1>1, <1>4, ContentFacts DEF ProcInv, ServedOK, PlaceOK
<1>12. ReadyOK(p)'
  BY <1>1 DEF ProcInv, ReadyOK, PlaceOK
<1> QED
  BY <1>5, <1>6, <1>7, <1>8, <1>9, <1>10, <1>11, <1>12 DEF ProcInv

\* The timeline payload is read: served when it is whole.
LEMMA OwnOpen ==
  ASSUME LocalsOK, SharedOK, FilesInv, NEW p \in Procs, ProcInv(p), Open(p)
  PROVE  LocalOK(p)' /\ ProcInv(p)' /\ LockFrame(p)
<1>1. /\ pc[p] = "open"
      /\ song'[p] = song[p] /\ need'[p] = need[p] /\ startup'[p] = startup[p] /\ misses'[p] = misses[p] /\ todo'[p] = todo[p]
      /\ path'[p] = ServingFile(song[p]) /\ loaded'[p] = Serving(song[p])
      /\ \/ /\ ~Serving(song[p]).there /\ pc'[p] = "write"
            /\ memory'[p] = memory[p] /\ built'[p] = built[p] /\ result'[p] = result[p]
         \/ /\ Serving(song[p]).there /\ ~Serving(song[p]).readable /\ pc'[p] = "discard"
            /\ memory'[p] = memory[p] /\ built'[p] = built[p] /\ result'[p] = result[p]
         \/ /\ Serving(song[p]).there /\ Serving(song[p]).readable
            /\ memory'[p] = [memory[p] EXCEPT ![song[p]] = Serving(song[p]).keys]
            /\ \/ /\ startup[p] /\ pc'[p] = "build" /\ result'[p] = result[p]
                  /\ built'[p] = [built[p] EXCEPT ![song[p]] = ServingFile(song[p])]
               \/ ~startup[p] /\ pc'[p] = "idle" /\ result'[p] = "served" /\ built'[p] = built[p]
  BY DEF Open, Ensured, At, Goto, End, LocalsOK, diskVars, lockVars, planVars, boundVars
<1>2. buildLock' = buildLock /\ songLock' = songLock
  BY DEF Open, Ensured, lockVars
<1>3. kind' = kind /\ corruptions' = corruptions /\ (corruptions = 0 => disk' = disk)
  BY StepFramed, CalmDisk DEF Careful, ProcInv
<1>4. LocalOK(p) /\ (pc[p] \in SongWork => ServingFile(song[p]) \in Files /\ Serving(song[p]) \in Contents)
  BY LocalTypes, ServingFacts DEF ProcInv, PlaceOK
<1>a. song[p] \in Songs /\ kind = "timeline" /\ need[p] = Keys
  BY <1>1 DEF ProcInv, PlaceOK, SongWork
<1>b. /\ ServingFile(song[p]) \in Files /\ Serving(song[p]) \in Contents
      /\ Serving(song[p]).there => Serving(song[p]).readable \/ corruptions # 0
      /\ Serving(song[p]).there /\ Serving(song[p]).readable => Serving(song[p]).keys = Keys
  BY <1>a, ServingFacts DEF FilesInv
<1>5. LocalOK(p)'
  <2>1. memory'[p] \in [Songs -> SUBSET Keys]
    BY <1>1, <1>4, <1>a, <1>b DEF LocalOK
  <2>2. built'[p] \in [Songs -> Files \cup {None}]
    BY <1>1, <1>4, <1>a, <1>b DEF LocalOK
  <2>3. pc'[p] \in Steps /\ result'[p] \in Ends
    BY <1>1, <1>4 DEF LocalOK, Steps, Ends
  <2>4. song'[p] \in Songs /\ path'[p] \in Files /\ loaded'[p] \in Contents
    BY <1>1, <1>a, <1>b
  <2> QED
    BY <1>1, <1>4, <2>1, <2>2, <2>3, <2>4 DEF LocalOK
<1>6. LockFrame(p)
  BY <1>1, <1>2, CacheAssumption DEF LockFrame, ProcInv, LocksOK, PlaceOK, SharedOK, SongWork, SongSteps, BuildSteps
<1>7. LocksOK(p)'
  BY <1>1, <1>2, <1>3, CacheAssumption DEF ProcInv, LocksOK, PlaceOK, SharedOK, SongWork, SongSteps, BuildSteps, PrebuildSteps
<1>8. PlaceOK(p)'
  BY <1>1, <1>3, <1>a, <1>b DEF ProcInv, PlaceOK, SongWork, PrebuildSteps
<1>9. WorkOK(p)'
  BY <1>3, <1>a DEF WorkOK
<1>10. PlanOK(p)'
  <2>1. \A s \in Songs : Keys \subseteq memory[p][s] => Keys \subseteq memory'[p][s]
    BY <1>1, <1>4, <1>a, <1>b DEF LocalOK
  <2>2. \A s \in Songs : built'[p][s] = built[p][s] \/ Keys \subseteq memory'[p][s]
    BY <1>1, <1>4, <1>a, <1>b DEF LocalOK
  <2>3. \A s \in Songs : built'[p][s] = built[p][s] \/ (corruptions = 0 => Held(p, s)')
    BY <1>3, <1>a, <2>2 DEF Held
  <2> QED
    BY <1>1, <1>3, <2>1, <2>3, PlanKept DEF ProcInv
<1>11. ServedOK(p)'
  BY <1>1, <1>a, <1>b DEF ProcInv, ServedOK, PlaceOK
<1>12. ReadyOK(p)'
  BY <1>1 DEF ProcInv, ReadyOK, PlaceOK
<1> QED
  BY <1>5, <1>6, <1>7, <1>8, <1>9, <1>10, <1>11, <1>12 DEF ProcInv

\* The temporary file is written.
LEMMA OwnWriteTemp ==
  ASSUME LocalsOK, SharedOK, FilesInv, NEW p \in Procs, ProcInv(p), WriteTemp(p)
  PROVE  LocalOK(p)' /\ ProcInv(p)' /\ LockFrame(p)
<1>1. /\ pc[p] = "write"
      /\ song'[p] = song[p] /\ need'[p] = need[p] /\ path'[p] = path[p] /\ loaded'[p] = loaded[p] /\ startup'[p] = startup[p] /\ misses'[p] = misses[p]
      /\ todo'[p] = todo[p] /\ built'[p] = built[p] /\ memory'[p] = memory[p] /\ result'[p] = result[p]
      /\ pc'[p] = "rename"
  BY DEF WriteTemp, At, Goto, End, LocalsOK, diskVars, lockVars, planVars, boundVars
<1>2. buildLock' = buildLock /\ songLock' = songLock
  BY DEF WriteTemp, lockVars
<1>3. kind' = kind /\ corruptions' = corruptions /\ (corruptions = 0 => disk' = disk)
  BY StepFramed, CalmDisk DEF Careful, ProcInv
<1>4. LocalOK(p) /\ (pc[p] \in SongWork => ServingFile(song[p]) \in Files /\ Serving(song[p]) \in Contents)
  BY LocalTypes, ServingFacts DEF ProcInv, PlaceOK
<1>5. LocalOK(p)'
  BY <1>1, <1>4, ContentFacts, CacheAssumption DEF LocalOK, Steps, Ends, SongWork
<1>6. LockFrame(p)
  BY <1>1, <1>2, CacheAssumption DEF LockFrame, ProcInv, LocksOK, PlaceOK, SharedOK, SongWork, SongSteps, BuildSteps
<1>7. LocksOK(p)'
  BY <1>1, <1>2, <1>3, CacheAssumption DEF ProcInv, LocksOK, PlaceOK, SharedOK, SongWork, SongSteps, BuildSteps, PrebuildSteps
<1>8. PlaceOK(p)'
  BY <1>1, <1>3, <1>4 DEF ProcInv, PlaceOK, SongWork, PrebuildSteps, SharedOK, FilesInv, Unreadable
<1>9. WorkOK(p)'
  BY <1>1, <1>3, <1>4, ContentFacts DEF ProcInv, WorkOK, PlaceOK, SongWork, Serving, ServingFile
<1>10. PlanOK(p)'
  BY <1>1, <1>3, PlanKept DEF ProcInv
<1>11. ServedOK(p)'
  BY <1>1, <1>4, ContentFacts DEF ProcInv, ServedOK, PlaceOK
<1>12. ReadyOK(p)'
  BY <1>1 DEF ProcInv, ReadyOK, PlaceOK
<1> QED
  BY <1>5, <1>6, <1>7, <1>8, <1>9, <1>10, <1>11, <1>12 DEF ProcInv

\* A build that raises writes nothing and releases its song's lock.
LEMMA OwnBuildFails ==
  ASSUME LocalsOK, SharedOK, FilesInv, NEW p \in Procs, ProcInv(p), BuildFails(p)
  PROVE  LocalOK(p)' /\ ProcInv(p)' /\ LockFrame(p)
<1>1. /\ pc[p] = "write"
      /\ song'[p] = song[p] /\ need'[p] = need[p] /\ path'[p] = path[p] /\ loaded'[p] = loaded[p] /\ startup'[p] = startup[p] /\ misses'[p] = misses[p]
      /\ todo'[p] = todo[p] /\ built'[p] = built[p] /\ memory'[p] = memory[p]
      /\ \/ startup[p] /\ pc'[p] = "build" /\ result'[p] = result[p]
         \/ ~startup[p] /\ pc'[p] = "idle" /\ result'[p] = "failed"
  BY DEF BuildFails, GivesUp, At, Goto, End, LocalsOK, diskVars, lockVars, planVars, boundVars
<1>2. /\ buildLock' = buildLock
      /\ songLock' = IF kind = "fg" THEN [songLock EXCEPT ![song[p]] = None] ELSE songLock
  BY DEF BuildFails
<1>3. kind' = kind /\ corruptions' = corruptions /\ (corruptions = 0 => disk' = disk)
  BY StepFramed, CalmDisk DEF Careful, ProcInv
<1>4. LocalOK(p) /\ (pc[p] \in SongWork => ServingFile(song[p]) \in Files /\ Serving(song[p]) \in Contents)
  BY LocalTypes, ServingFacts DEF ProcInv, PlaceOK
<1>5. LocalOK(p)'
  BY <1>1, <1>4, ContentFacts, CacheAssumption DEF LocalOK, Steps, Ends, SongWork
<1>6. LockFrame(p)
  BY <1>1, <1>2, CacheAssumption DEF LockFrame, ProcInv, LocksOK, PlaceOK, SharedOK, SongWork, SongSteps, BuildSteps
<1>7. LocksOK(p)'
  BY <1>1, <1>2, <1>3, CacheAssumption DEF ProcInv, LocksOK, PlaceOK, SharedOK, SongWork, SongSteps, BuildSteps, PrebuildSteps
<1>8. PlaceOK(p)'
  BY <1>1, <1>3, <1>4 DEF ProcInv, PlaceOK, SongWork, PrebuildSteps, SharedOK, FilesInv, Unreadable
<1>9. WorkOK(p)'
  BY <1>1 DEF WorkOK
<1>10. PlanOK(p)'
  BY <1>1, <1>3, PlanKept DEF ProcInv
<1>11. ServedOK(p)'
  BY <1>1, <1>4, ContentFacts DEF ProcInv, ServedOK, PlaceOK
<1>12. ReadyOK(p)'
  BY <1>1 DEF ProcInv, ReadyOK, PlaceOK
<1> QED
  BY <1>5, <1>6, <1>7, <1>8, <1>9, <1>10, <1>11, <1>12 DEF ProcInv

\* The payload is published, or the write or the rename failed.
LEMMA OwnRename ==
  ASSUME LocalsOK, SharedOK, FilesInv, NEW p \in Procs, ProcInv(p), Rename(p)
  PROVE  LocalOK(p)' /\ ProcInv(p)' /\ LockFrame(p)
<1>0. /\ song[p] \in Songs /\ (startup[p] \/ kind = "timeline" => need[p] = Keys) /\ pc[p] = "rename"
      /\ kind \in {"fg", "timeline"} /\ Payload(p) \in SUBSET Keys /\ need[p] \subseteq Payload(p)
      /\ kind = "timeline" => Payload(p) = Keys
  BY LocalTypes DEF Rename, At, ProcInv, PlaceOK, SongWork, SharedOK, LocalOK, Payload, Contents
<1>1. /\ pc[p] = "rename"
      /\ song'[p] = song[p] /\ need'[p] = need[p] /\ path'[p] = path[p] /\ startup'[p] = startup[p] /\ misses'[p] = misses[p] /\ todo'[p] = todo[p]
      /\ loaded'[p] = IF kind = "fg" THEN loaded[p] ELSE Bundle(Keys)
      /\ \/ /\ kind = "fg" /\ pc'[p] = "unlock" /\ result'[p] = result[p] /\ built'[p] = built[p]
            /\ memory'[p] = [memory[p] EXCEPT ![song[p]] = {}] /\ songLock' = songLock
            /\ disk' = [disk EXCEPT ![<<song[p], "current">>] = Bundle(Payload(p))]
         \/ /\ kind = "fg" /\ memory'[p] = memory[p] /\ built'[p] = built[p] /\ disk' = disk
            /\ songLock' = [songLock EXCEPT ![song[p]] = None]
            /\ \/ startup[p] /\ pc'[p] = "build" /\ result'[p] = result[p]
               \/ ~startup[p] /\ pc'[p] = "idle" /\ result'[p] = "failed"
         \/ /\ kind = "timeline" /\ memory'[p] = [memory[p] EXCEPT ![song[p]] = Keys] /\ songLock' = songLock
            /\ disk' = [disk EXCEPT ![<<song[p], "current">>] = Bundle(Keys)] \/ disk' = disk
            /\ \/ /\ startup[p] /\ pc'[p] = "build" /\ result'[p] = result[p]
                  /\ built'[p] = [built[p] EXCEPT ![song[p]] = <<song[p], "current">>]
               \/ ~startup[p] /\ pc'[p] = "idle" /\ result'[p] = "served" /\ built'[p] = built[p]
  <2>1. CASE kind = "fg"
    <3>1. /\ UNCHANGED <<song, need, path, startup, misses, todo, built, loaded>>
          /\ \/ /\ disk' = [disk EXCEPT ![<<song[p], "current">>] = Bundle(Payload(p))] /\ songLock' = songLock
                /\ memory' = [memory EXCEPT ![p][song[p]] = {}]
                /\ pc' = [pc EXCEPT ![p] = "unlock"] /\ result' = result
             \/ disk' = disk /\ songLock' = [songLock EXCEPT ![song[p]] = None] /\ memory' = memory /\ GivesUp(p)
      BY <2>1 DEF Rename, Goto
    <3>2. GivesUp(p) => \/ startup[p] /\ pc' = [pc EXCEPT ![p] = "build"] /\ result' = result
                        \/ ~startup[p] /\ pc' = [pc EXCEPT ![p] = "idle"] /\ result' = [result EXCEPT ![p] = "failed"]
      BY DEF GivesUp, Goto, End
    <3> QED
      BY <1>0, <2>1, <3>1, <3>2 DEF LocalsOK
  <2>2. CASE kind = "timeline"
    <3>1. /\ UNCHANGED <<song, need, path, startup, misses, todo, songLock>>
          /\ disk' = [disk EXCEPT ![<<song[p], "current">>] = Bundle(Keys)] \/ disk' = disk
          /\ memory' = [memory EXCEPT ![p][song[p]] = Keys] /\ loaded' = [loaded EXCEPT ![p] = Bundle(Keys)]
      BY <1>0, <2>2 DEF Rename
    <3>2. \/ /\ startup[p] /\ pc' = [pc EXCEPT ![p] = "build"] /\ result' = result
             /\ built' = [built EXCEPT ![p][song[p]] = <<song[p], "current">>]
          \/ /\ ~startup[p] /\ pc' = [pc EXCEPT ![p] = "idle"] /\ result' = [result EXCEPT ![p] = "served"]
             /\ built' = built
      BY <2>2 DEF Rename, Goto, End
    <3> QED
      BY <1>0, <2>2, <3>1, <3>2 DEF LocalsOK
  <2> QED
    BY <1>0, <2>1, <2>2
<1>2. buildLock' = buildLock
  BY DEF Rename, lockVars
<1>3. kind' = kind /\ corruptions' = corruptions
  BY StepFramed DEF Careful, ProcInv
<1>4. LocalOK(p) /\ (pc[p] \in SongWork => ServingFile(song[p]) \in Files /\ Serving(song[p]) \in Contents)
  BY LocalTypes, ServingFacts DEF ProcInv, PlaceOK
<1>5. LocalOK(p)'
  <2>1. memory'[p] \in [Songs -> SUBSET Keys]
    BY <1>0, <1>1, <1>4 DEF LocalOK
  <2>2. built'[p] \in [Songs -> Files \cup {None}]
    <3>1. <<song[p], "current">> \in Files
      BY <1>0 DEF Files, Versions
    <3> QED
      BY <1>0, <1>1, <1>4, <3>1 DEF LocalOK
  <2>3. pc'[p] \in Steps /\ result'[p] \in Ends
    BY <1>1, <1>4 DEF LocalOK, Steps, Ends
  <2>4. loaded'[p] \in Contents
    BY <1>0, <1>1, <1>4, ContentFacts DEF LocalOK
  <2> QED
    BY <1>1, <1>4, <2>1, <2>2, <2>3, <2>4 DEF LocalOK
<1>6. LockFrame(p)
  BY <1>1, <1>2, CacheAssumption DEF LockFrame, ProcInv, LocksOK, PlaceOK, SharedOK, SongWork, SongSteps, BuildSteps
<1>7. LocksOK(p)'
  BY <1>1, <1>2, <1>3, CacheAssumption DEF ProcInv, LocksOK, PlaceOK, SharedOK, SongWork, SongSteps, BuildSteps, PrebuildSteps
<1>8. PlaceOK(p)'
  BY <1>1, <1>3, <1>4 DEF ProcInv, PlaceOK, SongWork, PrebuildSteps, SharedOK, FilesInv, Unreadable
<1>9. WorkOK(p)'
  <2>1. CASE kind = "fg" /\ disk' = [disk EXCEPT ![<<song[p], "current">>] = Bundle(Payload(p))]
    <3>1. disk'[<<song[p], "current">>] = Bundle(Payload(p))
      BY <1>0, <2>1 DEF SharedOK, Files, Versions
    <3>2. Serving(song[p])' = Bundle(Payload(p))
      BY <1>1, <3>1, ContentFacts DEF Serving, ServingFile
    <3>3. pc'[p] \notin {"write", "rename"} /\ need'[p] \subseteq Payload(p)
      BY <1>0, <1>1
    <3> QED
      BY <3>2, <3>3, ContentFacts DEF WorkOK
  <2>2. CASE kind = "timeline" \/ pc'[p] \notin {"write", "rename", "unlock"}
    BY <1>3, <2>2 DEF WorkOK
  <2> QED
    BY <1>1, <2>1, <2>2
<1>10. PlanOK(p)'
  <2>1. ASSUME corruptions = 0, NEW s \in Songs, Complete(Serving(s)) PROVE Complete(Serving(s))'
    BY <2>1, RenameGrows DEF Complete, ProbeFails
  <2>2. \A s \in Songs : kind = "timeline" /\ Keys \subseteq memory[p][s] => Keys \subseteq memory'[p][s]
    BY <1>0, <1>1, <1>4 DEF LocalOK
  <2>3. ASSUME corruptions = 0, NEW s \in Songs, Held(p, s) PROVE Held(p, s)'
    BY <1>3, <2>1, <2>2, <2>3 DEF Held
  <2>4. ASSUME NEW s \in Songs, built'[p][s] # built[p][s] PROVE Held(p, s)'
    BY <1>0, <1>1, <1>3, <1>4, <2>4 DEF LocalOK, Held
  <2> QED
    BY <1>0, <1>1, <1>3, <2>1, <2>3, <2>4, CacheAssumption DEF ProcInv, PlanOK
<1>11. ServedOK(p)'
  BY <1>0, <1>1, ContentFacts DEF ProcInv, ServedOK, PlaceOK
<1>12. ReadyOK(p)'
  BY <1>1 DEF ProcInv, ReadyOK, PlaceOK
<1> QED
  BY <1>5, <1>6, <1>7, <1>8, <1>9, <1>10, <1>11, <1>12 DEF ProcInv

\* The song's lock is released: the keys needed are on disk.
LEMMA OwnUnlock ==
  ASSUME LocalsOK, SharedOK, FilesInv, NEW p \in Procs, ProcInv(p), Unlock(p)
  PROVE  LocalOK(p)' /\ ProcInv(p)' /\ LockFrame(p)
<1>1. /\ pc[p] = "unlock"
      /\ song'[p] = song[p] /\ need'[p] = need[p] /\ path'[p] = path[p] /\ loaded'[p] = loaded[p] /\ startup'[p] = startup[p] /\ misses'[p] = misses[p]
      /\ todo'[p] = todo[p] /\ memory'[p] = memory[p] /\ result'[p] = result[p]
      /\ \/ startup[p] /\ pc'[p] = "build" /\ built'[p] = [built[p] EXCEPT ![song[p]] = ServingFile(song[p])]
         \/ ~startup[p] /\ pc'[p] = "load" /\ built'[p] = built[p]
  BY DEF Unlock, Ensured, At, Goto, End, LocalsOK, diskVars, lockVars, planVars, boundVars
<1>2. songLock' = [songLock EXCEPT ![song[p]] = None] /\ buildLock' = buildLock
  BY DEF Unlock, Ensured, lockVars
<1>3. kind' = kind /\ corruptions' = corruptions /\ (corruptions = 0 => disk' = disk)
  BY StepFramed, CalmDisk DEF Careful, ProcInv
<1>4. LocalOK(p) /\ (pc[p] \in SongWork => ServingFile(song[p]) \in Files /\ Serving(song[p]) \in Contents)
  BY LocalTypes, ServingFacts DEF ProcInv, PlaceOK
<1>5. LocalOK(p)'
  BY <1>1, <1>4, ContentFacts, CacheAssumption DEF LocalOK, Steps, Ends, SongWork
<1>6. LockFrame(p)
  BY <1>1, <1>2, CacheAssumption DEF LockFrame, ProcInv, LocksOK, PlaceOK, SharedOK, SongWork, SongSteps, BuildSteps
<1>7. LocksOK(p)'
  BY <1>1, <1>2, <1>3, CacheAssumption DEF ProcInv, LocksOK, PlaceOK, SharedOK, SongWork, SongSteps, BuildSteps, PrebuildSteps
<1>8. PlaceOK(p)'
  BY <1>1, <1>3, <1>4 DEF ProcInv, PlaceOK, SongWork, PrebuildSteps, SharedOK, FilesInv, Unreadable
<1>9. WorkOK(p)'
  BY <1>1, <1>3, <1>4, ContentFacts DEF ProcInv, WorkOK, PlaceOK, SongWork, Serving, ServingFile
<1>10. PlanOK(p)'
  <2>1. song[p] \in Songs /\ kind = "fg" /\ (startup[p] => need[p] = Keys)
    BY <1>1 DEF ProcInv, PlaceOK, SongWork
  <2>2. corruptions = 0 => \A s \in Songs : Complete(Serving(s)) => Held(p, s)'
    BY <1>3, CalmHeld
  <2>3. startup[p] /\ corruptions = 0 => Complete(Serving(song[p]))
    BY <1>1, <2>1, ServingFacts, CacheAssumption DEF ProcInv, WorkOK, FilesInv, Complete, ProbeFails
  <2>4. startup[p] => \A s \in Songs : built'[p][s] = built[p][s] \/ (corruptions = 0 => Held(p, s)')
    BY <1>1, <1>4, <2>1, <2>2, <2>3 DEF LocalOK
  <2> QED
    BY <1>1, <1>3, <2>4, PlanKept DEF ProcInv
<1>11. ServedOK(p)'
  BY <1>1, <1>4, ContentFacts DEF ProcInv, ServedOK, PlaceOK
<1>12. ReadyOK(p)'
  BY <1>1 DEF ProcInv, ReadyOK, PlaceOK
<1> QED
  BY <1>5, <1>6, <1>7, <1>8, <1>9, <1>10, <1>11, <1>12 DEF ProcInv

\* A reader loads its bundle, or fails.
LEMMA OwnLoad ==
  ASSUME LocalsOK, SharedOK, FilesInv, NEW p \in Procs, ProcInv(p), Load(p)
  PROVE  LocalOK(p)' /\ ProcInv(p)' /\ LockFrame(p)
<1>1. /\ pc[p] = "load"
      /\ song'[p] = song[p] /\ need'[p] = need[p] /\ path'[p] = path[p] /\ startup'[p] = startup[p] /\ misses'[p] = misses[p] /\ todo'[p] = todo[p]
      /\ built'[p] = built[p]
      /\ loaded'[p] = Serving(song[p]) /\ pc'[p] = "idle"
      /\ \/ /\ Serving(song[p]).readable /\ need[p] \subseteq Serving(song[p]).keys /\ result'[p] = "served"
            /\ memory'[p] = [memory[p] EXCEPT ![song[p]] = Serving(song[p]).keys]
         \/ result'[p] = "failed" /\ memory'[p] = memory[p]
  BY DEF Load, At, Goto, End, LocalsOK, diskVars, lockVars, planVars, boundVars
<1>2. buildLock' = buildLock /\ songLock' = songLock
  BY DEF Load, lockVars
<1>3. kind' = kind /\ corruptions' = corruptions /\ (corruptions = 0 => disk' = disk)
  BY StepFramed, CalmDisk DEF Careful, ProcInv
<1>4. LocalOK(p) /\ (pc[p] \in SongWork => ServingFile(song[p]) \in Files /\ Serving(song[p]) \in Contents)
  BY LocalTypes, ServingFacts DEF ProcInv, PlaceOK
<1>5. LocalOK(p)'
  <2>1. song[p] \in Songs /\ Serving(song[p]) \in Contents
    BY <1>1, <1>4 DEF ProcInv, PlaceOK, SongWork
  <2>2. memory'[p] \in [Songs -> SUBSET Keys]
    BY <1>1, <1>4, <2>1 DEF LocalOK, Contents
  <2> QED
    BY <1>1, <1>4, <2>1, <2>2 DEF LocalOK, Steps, Ends
<1>6. LockFrame(p)
  BY <1>1, <1>2, CacheAssumption DEF LockFrame, ProcInv, LocksOK, PlaceOK, SharedOK, SongWork, SongSteps, BuildSteps
<1>7. LocksOK(p)'
  BY <1>1, <1>2, <1>3, CacheAssumption DEF ProcInv, LocksOK, PlaceOK, SharedOK, SongWork, SongSteps, BuildSteps, PrebuildSteps
<1>8. PlaceOK(p)'
  BY <1>1, <1>3, <1>4 DEF ProcInv, PlaceOK, SongWork, PrebuildSteps, SharedOK, FilesInv, Unreadable
<1>9. WorkOK(p)'
  BY <1>1 DEF WorkOK
<1>10. PlanOK(p)'
  BY <1>1 DEF PlanOK
<1>11. ServedOK(p)'
  BY <1>1, <1>4, ContentFacts DEF ProcInv, ServedOK, PlaceOK
<1>12. ReadyOK(p)'
  BY <1>1 DEF ProcInv, ReadyOK, PlaceOK
<1> QED
  BY <1>5, <1>6, <1>7, <1>8, <1>9, <1>10, <1>11, <1>12 DEF ProcInv

\* A process dies: its locks are released, its memory is gone.
LEMMA OwnCrash ==
  ASSUME LocalsOK, SharedOK, FilesInv, NEW p \in Procs, ProcInv(p), Crash(p)
  PROVE  LocalOK(p)' /\ ProcInv(p)' /\ LockFrame(p)
<1>1. /\ song'[p] = song[p] /\ need'[p] = need[p] /\ path'[p] = path[p] /\ loaded'[p] = loaded[p] /\ startup'[p] = startup[p] /\ misses'[p] = misses[p]
      /\ todo'[p] = todo[p] /\ built'[p] = built[p]
      /\ pc'[p] = "idle" /\ result'[p] = "crashed" /\ memory'[p] = [s \in Songs |-> {}]
  BY DEF Crash, At, Goto, End, LocalsOK, diskVars, lockVars, planVars, boundVars
<1>2. /\ buildLock' = IF buildLock = p THEN None ELSE buildLock
      /\ songLock' = [s \in Songs |-> IF songLock[s] = p THEN None ELSE songLock[s]]
  BY DEF Crash
<1>3. kind' = kind /\ corruptions' = corruptions /\ (corruptions = 0 => disk' = disk)
  BY StepFramed, CalmDisk DEF Careful, ProcInv
<1>4. LocalOK(p) /\ (pc[p] \in SongWork => ServingFile(song[p]) \in Files /\ Serving(song[p]) \in Contents)
  BY LocalTypes, ServingFacts DEF ProcInv, PlaceOK
<1>5. LocalOK(p)'
  BY <1>1, <1>4, ContentFacts, CacheAssumption DEF LocalOK, Steps, Ends, SongWork
<1>6. LockFrame(p)
  BY <1>2, CacheAssumption DEF LockFrame, SharedOK
<1>7. LocksOK(p)'
  BY <1>1, <1>2, CacheAssumption DEF LocksOK, BuildSteps, SongSteps, SharedOK
<1>8. PlaceOK(p)'
  BY <1>1, <1>3, <1>4 DEF ProcInv, PlaceOK, SongWork, PrebuildSteps, SharedOK, FilesInv, Unreadable
<1>9. WorkOK(p)'
  BY <1>1, <1>3, <1>4, ContentFacts DEF ProcInv, WorkOK, PlaceOK, SongWork, Serving, ServingFile
<1>10. PlanOK(p)'
  BY <1>1 DEF PlanOK
<1>11. ServedOK(p)'
  BY <1>1, <1>4, ContentFacts DEF ProcInv, ServedOK, PlaceOK
<1>12. ReadyOK(p)'
  BY <1>1 DEF ProcInv, ReadyOK, PlaceOK
<1> QED
  BY <1>5, <1>6, <1>7, <1>8, <1>9, <1>10, <1>11, <1>12 DEF ProcInv

\* A startup prebuild begins with nothing built.
LEMMA OwnBeginStartup ==
  ASSUME LocalsOK, SharedOK, FilesInv, NEW p \in Procs, ProcInv(p), NEW authorize \in BOOLEAN, BeginStartup(p, authorize)
  PROVE  LocalOK(p)' /\ ProcInv(p)' /\ LockFrame(p)
<1>1. /\ pc[p] = "idle"
      /\ song'[p] = song[p] /\ need'[p] = need[p] /\ path'[p] = path[p] /\ loaded'[p] = loaded[p] /\ misses'[p] = misses[p] /\ todo'[p] = todo[p]
      /\ memory'[p] = memory[p]
      /\ startup'[p] = TRUE /\ result'[p] = "none" /\ built'[p] = [s \in Songs |-> None]
      /\ pc'[p] \in {"waitBuild", "probePlan"}
  BY DEF BeginStartup, At, Goto, End, LocalsOK, diskVars, lockVars, planVars, boundVars
<1>2. buildLock' = buildLock /\ songLock' = songLock
  BY DEF BeginStartup, lockVars
<1>3. kind' = kind /\ corruptions' = corruptions /\ (corruptions = 0 => disk' = disk)
  BY StepFramed, CalmDisk DEF Careful, ProcInv
<1>4. LocalOK(p) /\ (pc[p] \in SongWork => ServingFile(song[p]) \in Files /\ Serving(song[p]) \in Contents)
  BY LocalTypes, ServingFacts DEF ProcInv, PlaceOK
<1>5. LocalOK(p)'
  BY <1>1, <1>4, ContentFacts, CacheAssumption DEF LocalOK, Steps, Ends, SongWork
<1>6. LockFrame(p)
  BY <1>1, <1>2, CacheAssumption DEF LockFrame, ProcInv, LocksOK, PlaceOK, SharedOK, SongWork, SongSteps, BuildSteps
<1>7. LocksOK(p)'
  BY <1>1, <1>2, <1>3, CacheAssumption DEF ProcInv, LocksOK, PlaceOK, SharedOK, SongWork, SongSteps, BuildSteps, PrebuildSteps
<1>8. PlaceOK(p)'
  BY <1>1, <1>3, <1>4 DEF ProcInv, PlaceOK, SongWork, PrebuildSteps, SharedOK, FilesInv, Unreadable
<1>9. WorkOK(p)'
  BY <1>1, <1>3, <1>4, ContentFacts DEF ProcInv, WorkOK, PlaceOK, SongWork, Serving, ServingFile
<1>10. PlanOK(p)'
  BY <1>1, CacheAssumption DEF PlanOK
<1>11. ServedOK(p)'
  BY <1>1, <1>4, ContentFacts DEF ProcInv, ServedOK, PlaceOK
<1>12. ReadyOK(p)'
  BY <1>1 DEF ProcInv, ReadyOK, PlaceOK
<1> QED
  BY <1>5, <1>6, <1>7, <1>8, <1>9, <1>10, <1>11, <1>12 DEF ProcInv

\* A song is asked for: memory serves what it holds.
LEMMA OwnBeginServe ==
  ASSUME LocalsOK, SharedOK, FilesInv, NEW p \in Procs, ProcInv(p), NEW t \in Songs, NEW keys \in SUBSET Keys, BeginServe(p, t, keys)
  PROVE  LocalOK(p)' /\ ProcInv(p)' /\ LockFrame(p)
<1>0. kind \in {"fg", "timeline"}
  BY DEF SharedOK
<1>1. /\ pc[p] = "idle"
      /\ path'[p] = path[p] /\ misses'[p] = misses[p] /\ todo'[p] = todo[p] /\ built'[p] = built[p] /\ memory'[p] = memory[p]
      /\ startup'[p] = FALSE /\ song'[p] = t /\ need'[p] = keys /\ (kind = "timeline" => keys = Keys)
      /\ \/ /\ pc'[p] = "idle" /\ result'[p] = "served" /\ keys \subseteq memory[p][t]
            /\ loaded'[p] = Bundle(memory[p][t])
         \/ kind = "fg" /\ pc'[p] = "ensure" /\ result'[p] = "none" /\ loaded'[p] = loaded[p]
         \/ kind = "timeline" /\ pc'[p] = "open" /\ result'[p] = "none" /\ loaded'[p] = loaded[p]
  <2>1. CASE keys \subseteq memory[p][t]
    BY <1>0, <2>1 DEF BeginServe, At, Goto, End, LocalsOK
  <2>2. CASE ~(keys \subseteq memory[p][t])
    BY <1>0, <2>2 DEF BeginServe, At, Goto, End, LocalsOK
  <2> QED
    BY <2>1, <2>2
<1>2. buildLock' = buildLock /\ songLock' = songLock
  BY DEF BeginServe, lockVars
<1>3. kind' = kind /\ corruptions' = corruptions /\ (corruptions = 0 => disk' = disk)
  BY StepFramed, CalmDisk DEF Careful, ProcInv
<1>4. LocalOK(p) /\ (pc[p] \in SongWork => ServingFile(song[p]) \in Files /\ Serving(song[p]) \in Contents)
  BY LocalTypes, ServingFacts DEF ProcInv, PlaceOK
<1>5. LocalOK(p)'
  <2>1. memory[p][t] \in SUBSET Keys
    BY <1>4 DEF LocalOK
  <2>2. loaded'[p] \in Contents
    BY <1>1, <1>4, <2>1, ContentFacts DEF LocalOK
  <2>3. pc'[p] \in Steps /\ result'[p] \in Ends
    BY <1>1 DEF Steps, Ends
  <2> QED
    BY <1>1, <1>4, <2>2, <2>3 DEF LocalOK
<1>6. LockFrame(p)
  BY <1>1, <1>2, CacheAssumption DEF LockFrame, ProcInv, LocksOK, PlaceOK, SharedOK, SongWork, SongSteps, BuildSteps
<1>7. LocksOK(p)'
  BY <1>1, <1>2, <1>3, CacheAssumption DEF ProcInv, LocksOK, SongSteps, BuildSteps
<1>8. PlaceOK(p)'
  BY <1>1, <1>3 DEF PlaceOK, SongWork, PrebuildSteps
<1>9. WorkOK(p)'
  BY <1>1, <1>3, <1>4, ContentFacts DEF ProcInv, WorkOK, PlaceOK, SongWork, Serving, ServingFile
<1>10. PlanOK(p)'
  BY <1>1 DEF PlanOK
<1>11. ServedOK(p)'
  BY <1>1, ContentFacts DEF ProcInv, ServedOK, PlaceOK
<1>12. ReadyOK(p)'
  BY <1>1 DEF ProcInv, ReadyOK, PlaceOK
<1> QED
  BY <1>5, <1>6, <1>7, <1>8, <1>9, <1>10, <1>11, <1>12 DEF ProcInv

-----------------------------------------------------------------------------
\* The manifest's entries name files.
Entry == [file : Files, size : SUBSET Keys]
Sound(entries) == \A c \in Charts : entries[c] = None \/ entries[c] \in Entry

\* The entry of a file is sound.
LEMMA EntrySound == ASSUME SharedOK, NEW f \in Files PROVE EntryOf(f) \in Entry
  BY DEF SharedOK, Contents, EntryOf, Entry

\* Dropping the entries whose file is gone leaves the others as they were.
LEMMA KeptSound == ASSUME NEW entries, Sound(entries) PROVE Sound(Kept(entries))
  BY DEF Sound, Kept

\* Only a plan and the end of a build write the manifest.
LEMMA ManifestWriters ==
  ASSUME NEW p \in Procs, Careful(p) \/ Rename(p)
  PROVE  manifest' = manifest \/ Plan(p) \/ RecordBuilds(p)
<1>1. CASE ProbePlan(p) \/ TakeBuildLock(p) \/ Maintain(p) \/ Probe(p) \/ Discard(p) \/ TakeSongLock(p) \/ Merge(p)
  BY <1>1 DEF ProbePlan, TakeBuildLock, Maintain, Probe, Discard, TakeSongLock, Merge, diskVars
<1>2. CASE Open(p) \/ BuildFails(p) \/ WriteTemp(p) \/ Unlock(p) \/ Load(p) \/ Crash(p) \/ Rename(p)
  BY <1>2 DEF Open, BuildFails, WriteTemp, Unlock, Load, Crash, Rename, diskVars
<1>3. CASE \/ (\E s \in Songs : BuildNext(p, s)) \/ (\E authorize \in BOOLEAN : BeginStartup(p, authorize))
           \/ (\E s \in Songs, keys \in SUBSET Keys : BeginServe(p, s, keys))
  BY <1>3 DEF BuildNext, BeginStartup, BeginServe, diskVars
<1> QED
  BY <1>1, <1>2, <1>3 DEF Careful

\* Whatever is recorded, by a plan or by a build, names a file.
LEMMA ManifestSound ==
  ASSUME CacheAssumption, LocalsOK, SharedOK, FilesInv, NEW p \in Procs, Careful(p) \/ Rename(p)
  PROVE  Sound(manifest')
<1>1. Sound(manifest)
  BY DEF Sound, SharedOK, Entry
<1>2. CASE manifest' = manifest
  BY <1>1, <1>2
<1>3. CASE Plan(p)
  <2>1. ASSUME NEW c \in Charts PROVE PlanEntries[c] = None \/ PlanEntries[c] \in Entry
    <3>1. SongOf[c] \in Songs
      BY DEF CacheAssumption
    <3>2. EntryOf(ServingFile(SongOf[c])) \in Entry
      BY <3>1, ServingFacts, EntrySound
    <3> QED
      BY <1>1, <3>2 DEF PlanEntries, Sound
  <2>2. Sound(Kept(PlanEntries))
    BY <2>1, KeptSound DEF Sound
  <2> QED
    BY <1>1, <1>3, <2>2 DEF Plan
<1>4. CASE RecordBuilds(p)
  <2> DEFINE done == {c \in misses[p] : built[p][SongOf[c]] # None}
             complete == {c \in done : Complete(disk[built[p][SongOf[c]]])}
             entries == [c \in Charts |-> IF c \in complete THEN EntryOf(built[p][SongOf[c]]) ELSE manifest[c]]
  <2>1. ASSUME NEW c \in Charts PROVE entries[c] = None \/ entries[c] \in Entry
    <3>1. CASE c \in complete
      <4>1. built[p][SongOf[c]] # None /\ SongOf[c] \in Songs /\ built[p] \in [Songs -> Files \cup {None}]
        BY <3>1 DEF CacheAssumption, LocalsOK
      <4>2. EntryOf(built[p][SongOf[c]]) \in Entry
        BY <4>1, EntrySound
      <4> QED
        BY <3>1, <4>2
    <3>2. CASE c \notin complete
      <4>1. entries[c] = manifest[c]
        BY <3>2
      <4> HIDE DEF entries, complete
      <4> QED
        BY <1>1, <4>1 DEF Sound
    <3> QED
      BY <3>1, <3>2
  <2>2. manifest' = manifest \/ manifest' = Kept(entries)
    BY <1>4 DEF RecordBuilds
  <2> HIDE DEF entries
  <2>3. Sound(Kept(entries))
    BY <2>1, KeptSound DEF Sound
  <2> QED
    BY <1>1, <2>2, <2>3
<1> QED
  BY <1>2, <1>3, <1>4, ManifestWriters

\* A timeline's memory tier holds whole payloads.
LEMMA MemoryWhole ==
  ASSUME LocalsOK, SharedOK, FilesInv, NEW p \in Procs, PlaceOK(p), Careful(p) \/ Rename(p), kind = "timeline",
         NEW s \in Songs
  PROVE  memory'[p][s] \in {{}, Keys}
<1>1. memory[p] \in [Songs -> SUBSET Keys] /\ \A t \in Songs : memory[p][t] \in {{}, Keys}
  BY DEF LocalsOK, FilesInv
<1>2. CASE memory' = memory
  BY <1>1, <1>2
<1>7. ASSUME memory' = [memory EXCEPT ![p][song[p]] = Keys] PROVE memory'[p][s] \in {{}, Keys}
  <2>1. memory'[p] = [memory[p] EXCEPT ![song[p]] = Keys]
    BY <1>7 DEF LocalsOK
  <2> QED
    BY <1>1, <2>1
<1>3. CASE Open(p)
  <2>1. song[p] \in Songs
    BY <1>3 DEF Open, At, PlaceOK, SongWork
  <2>2. Serving(song[p]).there /\ Serving(song[p]).readable => Serving(song[p]).keys = Keys
    BY <2>1, ServingFacts DEF FilesInv
  <2>3. memory' = memory \/ memory' = [memory EXCEPT ![p][song[p]] = Keys]
    BY <1>3, <2>2 DEF Open
  <2> QED
    BY <1>1, <1>2, <1>7, <2>3
<1>4. CASE Rename(p)
  <2>1. memory' = [memory EXCEPT ![p][song[p]] = Keys]
    BY <1>4 DEF Rename
  <2> QED
    BY <1>7, <2>1
<1>5. CASE Load(p)
  BY <1>5 DEF Load, At, PlaceOK
<1>6. CASE Crash(p)
  BY <1>6 DEF Crash, LocalsOK
<1> QED
  <2>1. CASE ProbePlan(p) \/ TakeBuildLock(p) \/ Maintain(p) \/ Probe(p) \/ Discard(p) \/ TakeSongLock(p) \/ Merge(p)
    BY <1>2, <2>1 DEF ProbePlan, TakeBuildLock, Maintain, Probe, Discard, TakeSongLock, Merge, diskVars
  <2>2. CASE Plan(p) \/ RecordBuilds(p) \/ BuildFails(p) \/ WriteTemp(p) \/ Unlock(p)
    BY <1>2, <2>2 DEF Plan, RecordBuilds, BuildFails, WriteTemp, Unlock
  <2>3. CASE \/ (\E t \in Songs : BuildNext(p, t)) \/ (\E authorize \in BOOLEAN : BeginStartup(p, authorize))
             \/ (\E t \in Songs, keys \in SUBSET Keys : BeginServe(p, t, keys))
    BY <1>2, <2>3 DEF BuildNext, BeginStartup, BeginServe
  <2> QED
    BY <1>3, <1>4, <1>5, <1>6, <2>1, <2>2, <2>3 DEF Careful

\* What a build returns is a file of its song.
LEMMA BuiltOfSong ==
  ASSUME LocalsOK, SharedOK, FilesInv, NEW p \in Procs, ProcInv(p), Careful(p) \/ Rename(p), NEW s \in Songs,
         built'[p][s] # None
  PROVE  built'[p][s] \in {s} \X Versions
<1>1. built[p] \in [Songs -> Files \cup {None}] /\ (built[p][s] # None => built[p][s] \in {s} \X Versions)
  BY DEF LocalsOK, FilesInv
<1>2. CASE built' = built
  BY <1>1, <1>2
<1>3. ASSUME NEW t \in Songs, NEW f \in {t} \X Versions, built' = [built EXCEPT ![p][t] = f]
      PROVE  built'[p][s] \in {s} \X Versions
  <2>1. built'[p] = [built[p] EXCEPT ![t] = f]
    BY <1>3 DEF LocalsOK
  <2> QED
    BY <1>1, <1>3, <2>1
<1>4. \A t \in Songs : ServingFile(t) \in {t} \X Versions /\ <<t, "current">> \in {t} \X Versions
  BY DEF ServingFile, Versions
<1>5. CASE Probe(p) \/ Open(p) \/ Unlock(p)
  <2>1. song[p] \in Songs
    BY <1>5 DEF Probe, Open, Unlock, At, ProcInv, PlaceOK, SongWork
  <2>2. built' = built \/ built' = [built EXCEPT ![p][song[p]] = ServingFile(song[p])]
    BY <1>5 DEF Probe, Open, Unlock, Ensured
  <2> QED
    BY <1>2, <1>3, <1>4, <2>1, <2>2
<1>6. CASE Rename(p)
  <2>1. song[p] \in Songs
    BY <1>6 DEF Rename, At, ProcInv, PlaceOK, SongWork
  <2>2. built' = built \/ built' = [built EXCEPT ![p][song[p]] = <<song[p], "current">>]
    BY <1>6 DEF Rename
  <2> QED
    BY <1>2, <1>3, <1>4, <2>1, <2>2
<1>7. ASSUME NEW t \in Songs, BuildNext(p, t) PROVE built'[p][s] \in {s} \X Versions
  <2>1. built' = built \/ built' = [built EXCEPT ![p][t] = ServingFile(t)]
    BY <1>7 DEF BuildNext
  <2> QED
    BY <1>2, <1>3, <1>4, <2>1
<1>8. CASE \E authorize \in BOOLEAN : BeginStartup(p, authorize)
  BY <1>8 DEF BeginStartup, LocalsOK
<1> QED
  <2>1. CASE ProbePlan(p) \/ TakeBuildLock(p) \/ Plan(p) \/ Maintain(p) \/ RecordBuilds(p) \/ Discard(p) \/ TakeSongLock(p)
    BY <1>2, <2>1 DEF ProbePlan, TakeBuildLock, Plan, Maintain, RecordBuilds, Discard, TakeSongLock, planVars
  <2>2. CASE Merge(p) \/ BuildFails(p) \/ WriteTemp(p) \/ Load(p) \/ Crash(p)
    BY <1>2, <2>2 DEF Merge, BuildFails, WriteTemp, Load, Crash, planVars
  <2>3. CASE \E t \in Songs, keys \in SUBSET Keys : BeginServe(p, t, keys)
    BY <1>2, <2>3 DEF BeginServe
  <2> QED
    BY <1>5, <1>6, <1>7, <1>8, <2>1, <2>2, <2>3 DEF Careful

-----------------------------------------------------------------------------
\* What every content of a directory satisfies, and what none of an undamaged one does.
Whole(content) ==
    /\ ~content.there => content.keys = {}
    /\ corruptions = 0 => (content.there => content.readable /\ content.head)
    /\ kind = "timeline" /\ content.there /\ content.readable => content.keys = Keys

\* A rename publishes a whole file, or nothing.
LEMMA RenamePublishes ==
  ASSUME LocalsOK, SharedOK, FilesInv, NEW p \in Procs, ProcInv(p), Rename(p)
  PROVE  /\ disk' \in [Files -> Contents]
         /\ \A f \in Files : disk'[f] = disk[f] \/ (disk'[f].there /\ disk'[f].readable /\ disk'[f].head /\ (kind = "timeline" => disk'[f].keys = Keys))
<1>1. song[p] \in Songs /\ Payload(p) \in SUBSET Keys /\ (kind = "timeline" => Payload(p) = Keys)
  BY LocalTypes DEF Rename, At, ProcInv, PlaceOK, SongWork, LocalOK, Payload, Contents
<1>2. <<song[p], "current">> \in Files
  BY <1>1 DEF Files, Versions
<1>3. disk' = disk \/ disk' = [disk EXCEPT ![<<song[p], "current">>] = Bundle(Payload(p))]
  BY DEF Rename
<1> QED
  BY <1>1, <1>2, <1>3, ContentFacts DEF SharedOK

\* Every file stays whole over every step of a process.
LEMMA DiskStep ==
  ASSUME LocalsOK, SharedOK, FilesInv, NEW p \in Procs, ProcInv(p), Careful(p) \/ Rename(p)
  PROVE  /\ disk' \in [Files -> Contents]
         /\ \A f \in Files : Whole(disk'[f])
<1>1. \A f \in Files : Whole(disk[f])
  BY DEF Whole, FilesInv
<1>2. CASE Careful(p)
  <2>1. Deletes
    BY <1>2, CarefulDeletes DEF ProcInv
  <2>2. Whole(Absent)
    BY ContentFacts DEF Whole
  <2> QED
    BY <1>1, <2>1, <2>2 DEF Deletes
<1>3. CASE Rename(p)
  BY <1>1, <1>3, RenamePublishes DEF Whole
<1> QED
  BY <1>2, <1>3

\* What a step leaves of what the songs are served by: undamaged, no less than before, and what
\* others are writing is as they found it.
Grows(p) ==
    corruptions = 0 => \A s \in Songs :
        /\ Serving(s).there => (Serving(s)').there
        /\ ~ProbeFails(Serving(s)) => ~ProbeFails(Serving(s))'
        /\ Serving(s).keys \subseteq (Serving(s)').keys
        /\ kind = "fg" /\ songLock[s] # p => Serving(s)' = Serving(s)

\* No step of a process takes from a song what it had.
LEMMA StepGrows ==
  ASSUME LocalsOK, SharedOK, FilesInv, NEW p \in Procs, ProcInv(p), Careful(p) \/ Rename(p)
  PROVE  Grows(p)
<1>1. CASE Careful(p)
  <2>1. corruptions = 0 => disk' = disk
    BY <1>1, CalmDisk DEF ProcInv
  <2>2. corruptions = 0 => \A s \in Songs : Serving(s)' = Serving(s)
    BY <2>1 DEF Serving, ServingFile
  <2>3. kind' = kind
    BY StepFramed
  <2> QED
    BY <2>2, <2>3 DEF Grows, ProbeFails
<1>2. CASE Rename(p)
  <2>1. kind = "fg" => songLock[song[p]] = p
    BY <1>2 DEF Rename, At, ProcInv, PlaceOK, LocksOK, SongWork, SongSteps
  <2> QED
    BY <1>2, <2>1, RenameGrows DEF Grows
<1> QED
  BY <1>1, <1>2

\* What is complete stays so.
LEMMA StaysComplete ==
  ASSUME NEW p \in Procs, Grows(p), corruptions = 0, NEW s \in Songs, Complete(Serving(s))
  PROVE  Complete(Serving(s))'
  BY DEF Grows, Complete

\* Whatever is recorded, a complete file serves its chart.
LEMMA RecordedComplete ==
  ASSUME CacheAssumption, LocalsOK, SharedOK, FilesInv, NEW p \in Procs, ProcInv(p), Careful(p) \/ Rename(p),
         corruptions = 0, NEW c \in Charts, manifest'[c] # None
  PROVE  Complete(Serving(SongOf[c]))'
<1>1. SongOf[c] \in Songs /\ Grows(p)
  BY StepGrows DEF CacheAssumption
<1>2. SUFFICES Complete(Serving(SongOf[c]))
  BY <1>1, StaysComplete
<1>3. CASE manifest[c] # None
  BY <1>3 DEF FilesInv
<1>4. CASE Plan(p) /\ manifest[c] = None
  <2>1. manifest'[c] = PlanEntries[c]
    BY <1>4 DEF Plan, Kept
  <2>2. c \in NewlyComplete
    BY <1>4, <2>1 DEF PlanEntries
  <2> QED
    BY <2>2 DEF NewlyComplete
<1>5. CASE RecordBuilds(p) /\ manifest[c] = None
  <2> DEFINE done == {d \in misses[p] : built[p][SongOf[d]] # None}
             complete == {d \in done : Complete(disk[built[p][SongOf[d]]])}
             entries == [d \in Charts |-> IF d \in complete THEN EntryOf(built[p][SongOf[d]]) ELSE manifest[d]]
  <2>1. manifest' = manifest \/ manifest' = Kept(entries)
    BY <1>5 DEF RecordBuilds
  <2>2. c \in complete
    <3>1. manifest' = Kept(entries)
      BY <1>5, <2>1
    <3> HIDE DEF entries
    <3>2. entries[c] # None
      BY <3>1 DEF Kept
    <3> HIDE DEF complete
    <3> QED
      BY <1>5, <3>2 DEF entries
  <2>3. built[p][SongOf[c]] # None /\ Complete(disk[built[p][SongOf[c]]])
    BY <2>2
  <2>4. startup[p] /\ pc[p] # "idle"
    BY <1>5 DEF RecordBuilds, At, ProcInv, PlaceOK, PrebuildSteps
  <2>5. Held(p, SongOf[c])
    BY <1>1, <2>3, <2>4 DEF ProcInv, PlanOK
  <2>6. ASSUME kind = "timeline" PROVE Complete(Serving(SongOf[c]))
    <3>1. built[p][SongOf[c]] \in {SongOf[c]} \X Versions /\ disk[built[p][SongOf[c]]].there
      BY <1>1, <2>3 DEF FilesInv, Complete
    <3>2. Serving(SongOf[c]).there
      BY <3>1 DEF Serving, ServingFile, Versions
    <3>3. Serving(SongOf[c]).readable /\ Serving(SongOf[c]).keys = Keys
      BY <1>1, <2>6, <3>2, ServingFacts DEF FilesInv
    <3> QED
      BY <2>6, <3>2, <3>3 DEF Complete, ProbeFails
  <2> QED
    BY <2>5, <2>6 DEF Held
<1> QED
  BY <1>3, <1>4, <1>5, ManifestWriters

\* Files and shared state keep their invariants over every step of a process.
LEMMA SharedKept ==
  ASSUME CacheAssumption, LocalsOK, SharedOK, FilesInv, NEW p \in Procs, ProcInv(p), Careful(p) \/ Rename(p), LockFrame(p)
  PROVE  SharedOK' /\ FilesInv'
<1>1. kind' = kind /\ corruptions' = corruptions
  BY StepFramed
<1>2. disk' \in [Files -> Contents] /\ \A f \in Files : Whole(disk'[f])
  BY DiskStep
<1>3. Sound(manifest')
  BY ManifestSound
<1>4. stale' \in BOOLEAN /\ marker' \in BOOLEAN /\ temps' \subseteq Procs
  <2>1. CASE Maintain(p)
    BY <2>1 DEF Maintain, SharedOK
  <2>2. CASE WriteTemp(p) \/ Rename(p)
    BY <2>2 DEF WriteTemp, Rename, SharedOK
  <2>3. CASE ProbePlan(p) \/ TakeBuildLock(p) \/ Plan(p) \/ RecordBuilds(p) \/ Probe(p) \/ Discard(p) \/ TakeSongLock(p)
    BY <2>3 DEF ProbePlan, TakeBuildLock, Plan, RecordBuilds, Probe, Discard, TakeSongLock, diskVars, SharedOK
  <2>4. CASE Merge(p) \/ Open(p) \/ BuildFails(p) \/ Unlock(p) \/ Load(p) \/ Crash(p)
    BY <2>4 DEF Merge, Open, BuildFails, Unlock, Load, Crash, diskVars, SharedOK
  <2>5. CASE \/ (\E s \in Songs : BuildNext(p, s)) \/ (\E authorize \in BOOLEAN : BeginStartup(p, authorize))
             \/ (\E s \in Songs, keys \in SUBSET Keys : BeginServe(p, s, keys))
    BY <2>5 DEF BuildNext, BeginStartup, BeginServe, diskVars, SharedOK
  <2> QED
    BY <2>1, <2>2, <2>3, <2>4, <2>5 DEF Careful
<1>5. buildLock' \in Procs \cup {None} /\ songLock' \in [Songs -> Procs \cup {None}]
  BY DEF LockFrame, SharedOK
<1>6. SharedOK'
  BY <1>1, <1>2, <1>3, <1>4, <1>5 DEF SharedOK, Sound, Entry
<1>7. kind = "timeline" => \A q \in Procs, s \in Songs : memory'[q][s] \in {{}, Keys}
  <2>1. ASSUME NEW q \in Procs \ {p} PROVE memory'[q] = memory[q]
    BY StepFramed, StepAlone DEF Local
  <2> QED
    BY <2>1, MemoryWhole DEF FilesInv, ProcInv
<1>8. \A q \in Procs, s \in Songs : built'[q][s] # None => built'[q][s] \in {s} \X Versions
  <2>1. ASSUME NEW q \in Procs \ {p} PROVE built'[q] = built[q]
    BY StepFramed, StepAlone DEF Local
  <2> QED
    BY <2>1, BuiltOfSong DEF FilesInv
<1>9. corruptions = 0 => \A c \in Charts : manifest'[c] # None => Complete(Serving(SongOf[c]))'
  BY RecordedComplete
<1>10. FilesInv'
  <2>1. \A f \in Files : Whole(disk'[f])
    BY <1>2
  <2>2. /\ \A f \in Files : ~(disk'[f].there) => disk'[f].keys = {}
        /\ corruptions' = 0 => \A f \in Files : disk'[f].there => disk'[f].readable /\ disk'[f].head
        /\ kind' = "timeline" => \A f \in Files : disk'[f].there /\ disk'[f].readable => disk'[f].keys = Keys
    BY <1>1, <2>1 DEF Whole
  <2> QED
    BY <1>1, <1>7, <1>8, <1>9, <2>2 DEF FilesInv
<1> QED
  BY <1>6, <1>10

\* A process that stands still keeps its invariant while another takes a step.
LEMMA OthersKept ==
  ASSUME CacheAssumption, LocalsOK, SharedOK, NEW p \in Procs, NEW q \in Procs \ {p}, ProcInv(q), Local(q)' = Local(q),
         kind' = kind, corruptions' = corruptions, LockFrame(p), Grows(p)
  PROVE  ProcInv(q)'
<1>1. /\ pc'[q] = pc[q] /\ song'[q] = song[q] /\ need'[q] = need[q] /\ path'[q] = path[q] /\ loaded'[q] = loaded[q]
      /\ startup'[q] = startup[q] /\ misses'[q] = misses[q] /\ built'[q] = built[q] /\ memory'[q] = memory[q]
      /\ result'[q] = result[q]
  BY DEF Local
<1>2. LocksOK(q)'
  BY <1>1 DEF LockFrame, ProcInv, LocksOK, CacheAssumption
<1>3. PlaceOK(q)'
  BY <1>1 DEF ProcInv, PlaceOK
<1>4. \A s \in Songs : corruptions = 0 /\ Complete(Serving(s)) => Complete(Serving(s))'
  BY StaysComplete
<1>5. \A s \in Songs : corruptions = 0 /\ Held(q, s) => Held(q, s)'
  BY <1>1, <1>4 DEF Held
<1>6. WorkOK(q)'
  <2>1. ASSUME corruptions = 0, kind = "fg", pc[q] \in {"write", "rename", "unlock"}
        PROVE  song[q] \in Songs /\ Serving(song[q])' = Serving(song[q])
    <3>1. song[q] \in Songs /\ songLock[song[q]] = q
      BY <2>1 DEF ProcInv, PlaceOK, LocksOK, SongWork, SongSteps
    <3>2. \A s \in Songs : s = song[q] => Serving(s)' = Serving(s)
      BY <2>1, <3>1 DEF Grows
    <3> QED
      BY <1>1, <3>1, <3>2
  <2> QED
    BY <1>1, <2>1 DEF ProcInv, WorkOK
<1>7. PlanOK(q)'
  BY <1>1, <1>4, <1>5, CacheAssumption DEF ProcInv, PlanOK
<1>8. ServedOK(q)'
  BY <1>1 DEF ProcInv, ServedOK
<1>9. ReadyOK(q)'
  BY <1>1, <1>5, CacheAssumption DEF ProcInv, ReadyOK
<1> QED
  BY <1>2, <1>3, <1>6, <1>7, <1>8, <1>9 DEF ProcInv

-----------------------------------------------------------------------------
\* Every step of a process keeps the invariant.
LEMMA ProcessStep ==
  ASSUME CacheAssumption, IInv, NEW p \in Procs, Careful(p) \/ Rename(p)
  PROVE  IInv'
<1>1. LocalsOK /\ SharedOK /\ FilesInv /\ ProcInv(p)
  BY DEF IInv
<1>2. LocalOK(p)' /\ ProcInv(p)' /\ LockFrame(p)
  <2>1. CASE ProbePlan(p) \/ TakeBuildLock(p) \/ Plan(p) \/ Maintain(p) \/ RecordBuilds(p) \/ Probe(p) \/ Discard(p)
    BY <1>1, <2>1, OwnProbePlan, OwnTakeBuildLock, OwnPlan, OwnMaintain, OwnRecordBuilds, OwnProbe, OwnDiscard
  <2>2. CASE \/ TakeSongLock(p) \/ Merge(p) \/ Open(p) \/ BuildFails(p) \/ WriteTemp(p) \/ Rename(p) \/ Unlock(p)
             \/ Load(p) \/ Crash(p)
    BY <1>1, <2>2, OwnTakeSongLock, OwnMerge, OwnOpen, OwnBuildFails, OwnWriteTemp, OwnRename, OwnUnlock, OwnLoad, OwnCrash
  <2>3. CASE \E s \in Songs : BuildNext(p, s)
    <3>1. PICK s \in Songs : BuildNext(p, s)
      BY <2>3
    <3>2. s \in todo[p]
      BY <3>1 DEF BuildNext
    <3> QED
      BY <1>1, <3>1, <3>2, OwnBuildNext
  <2>4. CASE \/ (\E authorize \in BOOLEAN : BeginStartup(p, authorize))
             \/ (\E s \in Songs, keys \in SUBSET Keys : BeginServe(p, s, keys))
    BY <1>1, <2>4, OwnBeginStartup, OwnBeginServe
  <2> QED
    BY <2>1, <2>2, <2>3, <2>4 DEF Careful
<1>3. Framed(p) /\ kind' = kind /\ corruptions' = corruptions
  BY <1>1, StepFramed
<1>4. LocalsOK'
  BY <1>1, <1>2, <1>3, FramedType
<1>5. SharedOK' /\ FilesInv'
  BY <1>1, <1>2, SharedKept
<1>6. ASSUME NEW q \in Procs PROVE ProcInv(q)'
  <2>1. CASE q = p
    BY <1>2, <2>1
  <2>2. CASE q # p
    <3>1. Grows(p)
      BY <1>1, StepGrows
    <3>2. Local(q)' = Local(q)
      BY <1>1, <1>3, <2>2, StepAlone
    <3>3. ProcInv(q)
      BY DEF IInv
    <3> QED
      BY <1>1, <1>2, <1>3, <2>2, <3>1, <3>2, <3>3, OthersKept
  <2> QED
    BY <2>1, <2>2
<1> QED
  BY <1>4, <1>5, <1>6 DEF IInv

\* A damaged file leaves only what is promised all the same.
LEMMA CorruptStep == ASSUME IInv, NEW f \in Files, Corrupt(f) PROVE IInv'
<1>1. /\ corruptions' # 0 /\ corruptions' \in Nat
      /\ UNCHANGED <<kind, manifest, stale, marker, temps, buildLock, songLock>>
      /\ UNCHANGED <<pc, song, need, path, loaded, startup, misses, todo, built, memory, result>>
  BY DEF Corrupt, IInv, SharedOK, lockVars, planVars
<1>2. PICK content \in Damaged(disk[f]) : disk' = [disk EXCEPT ![f] = content]
  BY DEF Corrupt
<1>3. disk \in [Files -> Contents] /\ disk[f] \in Contents /\ disk[f].there
  BY DEF IInv, SharedOK, Corrupt
<1>4. /\ disk' \in [Files -> Contents]
      /\ \A g \in Files : disk'[g] = disk[g] \/ (disk'[g].there /\ ~disk'[g].readable)
  <2>1. content \in Contents /\ content.there /\ ~content.readable
    BY <1>3 DEF Damaged, Contents
  <2> QED
    BY <1>2, <1>3, <2>1
<1>5. LocalsOK'
  BY <1>1 DEF IInv, LocalsOK
<1>6. SharedOK'
  BY <1>1, <1>4 DEF IInv, SharedOK
<1>7. FilesInv'
  BY <1>1, <1>4 DEF IInv, FilesInv
<1>8. ASSUME NEW p \in Procs PROVE ProcInv(p)'
  <2>1. ProcInv(p)
    BY DEF IInv
  <2>2. LocksOK(p)'
    BY <1>1, <2>1 DEF ProcInv, LocksOK
  <2>3. PlaceOK(p)'
    BY <1>1, <2>1 DEF ProcInv, PlaceOK
  <2>4. WorkOK(p)' /\ PlanOK(p)' /\ ReadyOK(p)'
    BY <1>1 DEF WorkOK, PlanOK, ReadyOK
  <2>5. ServedOK(p)'
    BY <1>1, <2>1 DEF ProcInv, ServedOK
  <2> QED
    BY <2>2, <2>3, <2>4, <2>5 DEF ProcInv
<1> QED
  BY <1>5, <1>6, <1>7, <1>8 DEF IInv

\* A step is a process's own, damages a file or changes nothing.
LEMMA NextCases ==
  ASSUME Next
  PROVE  \/ \E p \in Procs : Careful(p) \/ Rename(p)
         \/ \E f \in Files : Corrupt(f)
         \/ UNCHANGED vars
<1>1. ASSUME NEW p \in Procs, Step(p) \/ Crash(p) PROVE Careful(p) \/ Rename(p)
  BY <1>1 DEF Step, Careful
<1>2. ASSUME NEW p \in Procs, NEW authorize \in BOOLEAN, BeginStartup(p, authorize) PROVE Careful(p)
  BY <1>2 DEF Careful
<1>3. ASSUME NEW p \in Procs, NEW s \in Songs, NEW keys \in SUBSET Keys, BeginServe(p, s, keys) PROVE Careful(p)
  BY <1>3 DEF Careful
<1> QED
  BY <1>1, <1>2, <1>3 DEF Next

\* Nothing the invariant speaks of changes when nothing does.
LEMMA StutterStep == ASSUME IInv, UNCHANGED vars PROVE IInv'
<1>1. /\ UNCHANGED <<kind, disk, manifest, stale, marker, temps, buildLock, songLock, corruptions>>
      /\ UNCHANGED <<pc, song, need, path, loaded, startup, misses, todo, built, memory, result>>
  BY DEF vars, diskVars, lockVars, planVars, boundVars
<1>2. LocalsOK' /\ SharedOK' /\ FilesInv'
  BY <1>1 DEF IInv, LocalsOK, SharedOK, FilesInv, Complete, ProbeFails, Serving, ServingFile
<1>3. ASSUME NEW p \in Procs PROVE ProcInv(p)'
  <2>1. ProcInv(p)
    BY DEF IInv
  <2>2. LocksOK(p)' /\ PlaceOK(p)' /\ ServedOK(p)'
    BY <1>1, <2>1 DEF ProcInv, LocksOK, PlaceOK, ServedOK
  <2>3. WorkOK(p)'
    BY <1>1, <2>1 DEF ProcInv, WorkOK, Serving, ServingFile
  <2>4. ASSUME NEW s \in Songs, Complete(Serving(s)) PROVE Complete(Serving(s))'
    BY <1>1, <2>4, CalmHeld
  <2>5. ASSUME NEW s \in Songs, Held(p, s) PROVE Held(p, s)'
    BY <1>1, <2>4, <2>5 DEF Held
  <2>6. PlanOK(p)' /\ ReadyOK(p)'
    BY <1>1, <2>1, <2>4, <2>5, CacheAssumption DEF ProcInv, PlanOK, ReadyOK
  <2> QED
    BY <2>2, <2>3, <2>6 DEF ProcInv
<1> QED
  BY <1>2, <1>3 DEF IInv

\* A new version's directory holds whole bundles of the predecessor, and nobody works.
LEMMA InitInv == CacheAssumption /\ Init => IInv
<1> SUFFICES ASSUME CacheAssumption, Init PROVE IInv
  OBVIOUS
<1>1. LocalsOK
  BY ContentFacts DEF Init, InitFrom, LocalsOK, Steps, Ends
<1>2. SharedOK
  <2>1. disk \in [Files -> {Absent, Bundle(Keys)}] /\ \A f \in Files : disk[f] \in Contents
    BY ContentFacts DEF Init, InitFrom
  <2>2. disk \in [Files -> Contents]
    BY <2>1
  <2>3. songLock \in [Songs -> Procs \cup {None}]
    BY DEF Init, InitFrom
  <2>4. \A c \in Charts : manifest[c] = None
    BY DEF Init, InitFrom
  <2> QED
    BY <2>2, <2>3, <2>4 DEF Init, InitFrom, SharedOK
<1>3. FilesInv
  <2>1. \A f \in Files : disk[f] \in {Absent, Bundle(Keys)}
    BY DEF Init, InitFrom
  <2>2. \A p \in Procs, s \in Songs : memory[p][s] = {}
    BY DEF Init, InitFrom
  <2>3. \A c \in Charts : manifest[c] = None
    BY DEF Init, InitFrom
  <2>4. \A p \in Procs, s \in Songs : built[p][s] = None
    BY DEF Init, InitFrom
  <2> QED
    BY <2>1, <2>2, <2>3, <2>4, ContentFacts DEF FilesInv
<1>4. ASSUME NEW p \in Procs PROVE ProcInv(p)
  <2>1. pc[p] = "idle" /\ result[p] = "none" /\ buildLock = None /\ \A s \in Songs : songLock[s] = None
    BY DEF Init, InitFrom
  <2>2. LocksOK(p)
    BY <2>1, CacheAssumption DEF LocksOK, BuildSteps, SongSteps, CacheAssumption
  <2> QED
    BY <2>1, <2>2 DEF ProcInv, PlaceOK, WorkOK, PlanOK, ServedOK, ReadyOK, PrebuildSteps, SongWork
<1> QED
  BY <1>1, <1>2, <1>3, <1>4 DEF IInv

\* The invariant, for any number of processes, charts, songs, stat keys, crashes and damaged files.
THEOREM InvariantHolds == Spec => []IInv
<1>1. Init => IInv
  BY InitInv, CacheAssumption
<1>2. IInv /\ [Next]_vars => IInv'
  BY NextCases, ProcessStep, CorruptStep, StutterStep, CacheAssumption
<1> QED
  BY <1>1, <1>2, PTL DEF Spec

\* TypeOK, with each of the two locks held by exactly the process whose step needs it
\* (core/file_lock.py, fg_prebuild.py, fg_cache.py).
THEOREM LocksAreHeldByTheirOwner == Spec => []TypeOK
<1>1. IInv => TypeOK
  BY DEF IInv, LocalsOK, SharedOK, ProcInv, LocksOK, TypeOK
<1> QED
  BY <1>1, InvariantHolds, PTL

\* ServedInFull: whoever was served holds every stat key it asked for, read or built, whoever published,
\* crashed or damaged a file meanwhile (scoring_bundle_covering, load_response_frontier_scoring_bundle).
THEOREM EveryoneIsServedInFull == Spec => []ServedInFull
<1>1. IInv => ServedInFull
  BY DEF IInv, ProcInv, ServedOK, ServedInFull
<1> QED
  BY <1>1, InvariantHolds, PTL

\* ReadyIsComplete: a prebuild that said "ready" left a complete file for every chart, and that stays so
\* (fg_prebuild.py, timeline_prebuild.py, manifest_plan).
THEOREM ReadyMeansComplete == Spec => []ReadyIsComplete
<1>1. IInv => ReadyIsComplete
  BY DEF IInv, ProcInv, ReadyOK, Held, ReadyIsComplete
<1> QED
  BY <1>1, InvariantHolds, PTL

\* BundlesOnlyGrow: no publication, from whatever base, loses a stat key of a song (ensure_fg_bundle).
THEOREM NoKeyIsLost == Spec => BundlesOnlyGrow
<1> DEFINE Grown == \A s \in Songs : corruptions' = 0 =>
          /\ Serving(s).keys \subseteq disk'[<<s, "current">>].keys \cup
                (IF disk'[<<s, "current">>].there THEN {} ELSE disk'[<<s, "predecessor">>].keys)
<1>1. IInv /\ [Next]_vars => [Grown]_vars
  <2> SUFFICES ASSUME IInv, Next, NEW s \in Songs, corruptions' = 0, ~UNCHANGED vars
               PROVE  Serving(s).keys \subseteq disk'[<<s, "current">>].keys \cup
                        (IF disk'[<<s, "current">>].there THEN {} ELSE disk'[<<s, "predecessor">>].keys)
    OBVIOUS
  <2>1. ~\E f \in Files : Corrupt(f)
    BY DEF Corrupt, IInv, SharedOK
  <2>2. PICK p \in Procs : Careful(p) \/ Rename(p)
    BY <2>1, NextCases
  <2>3. Grows(p) /\ corruptions = 0
    BY <2>2, StepGrows, StepFramed DEF IInv
  <2>4. Serving(s).keys \subseteq (Serving(s)').keys
    BY <2>3 DEF Grows
  <2>5. Serving(s)' = disk'[<<s, "current">>] \/ (~disk'[<<s, "current">>].there /\ Serving(s)' = disk'[<<s, "predecessor">>])
    BY DEF Serving, ServingFile
  <2> QED
    BY <2>4, <2>5
<1> QED
  BY <1>1, InvariantHolds, PTL DEF Spec, BundlesOnlyGrow
=============================================================================
