--------------------------- MODULE FrontierCache ---------------------------
(***************************************************************************)
(* A frontier cache directory and the processes that read and fill it      *)
(* (frontier/cache.py, fg_cache*.py, timeline_cache.py, fg_prebuild.py,    *)
(* timeline_prebuild.py, startup_prebuild.py, core/file_lock.py).          *)
(*                                                                         *)
(* `kind` says which of the two caches it is.  The Force Great cache keeps *)
(* one bundle per song, which grows by the stat keys asked for; the        *)
(* timeline cache one payload per song, always whole.  A process either    *)
(* runs the startup prebuild of all charts or serves one song.             *)
(*                                                                         *)
(* A file is a version (the current one, or the ratified predecessor that  *)
(* serves in its place) of a song; its content is Absent, or the stat keys *)
(* it holds and whether it can be read: all of it, and its head, which is  *)
(* what the Force Great probe reads of it.  Its size is told by its keys.  *)
(***************************************************************************)
EXTENDS Naturals, FiniteSets

CONSTANTS
    Procs, Charts, Songs,
    SongOf,        \* chart -> the song its cache key names (charts may share one)
    Keys,          \* the FT/FF stat keys
    None,
    DriftSample,   \* _DRIFT_SAMPLE_SIZE: the hits whose file a plan derives anew
    MaxOps,        \* operations of all processes together
    MaxFaults      \* processes that die and files damaged from outside (a write the system lost)

ASSUME CacheAssumption ==
    /\ SongOf \in [Charts -> Songs] /\ Keys # {}
    /\ None \notin Procs /\ DriftSample \in Nat
    /\ MaxOps \in Nat /\ MaxFaults \in Nat

Versions == {"current", "predecessor"}
Files == Songs \X Versions
Absent == [there |-> FALSE, keys |-> {}, readable |-> FALSE, head |-> FALSE]
Bundle(keys) == [there |-> TRUE, keys |-> keys, readable |-> TRUE, head |-> TRUE]

VARIABLES
    kind,        \* "fg" or "timeline"
    disk,        \* file -> content
    manifest,    \* chart -> [file, size] or None
    stale,       \* whether bundles of versions outside the lineage are there
    marker,      \* .purged_version is there
    temps,       \* processes whose temporary file is there
    buildLock,   \* holder of .build.lock
    songLock,    \* song -> holder of its bundle lock
    pc, song, need, \* where a process is, the song it ensures and the keys it needs of it
    path,        \* the file it probed or opened last
    loaded,      \* the content it read last
    startup,     \* whether it runs the startup prebuild
    rotate,      \* authorize_destructive_rotation
    misses,      \* the charts its plan misses
    todo,        \* the songs it has still to build
    built,       \* song -> the file its build returned
    memory,      \* process -> song -> the keys of its memory tier's entry
    result,      \* how its operation ended
    ops, crashes, corruptions

diskVars == <<disk, manifest, stale, marker, temps>>
lockVars == <<buildLock, songLock>>
planVars == <<startup, rotate, misses, todo, built>>
boundVars == <<ops, crashes, corruptions>>
vars == <<kind, diskVars, lockVars, pc, song, need, path, loaded, planVars, memory, result, boundVars>>

InitFrom(contents) ==
    /\ kind \in {"fg", "timeline"}
    /\ disk \in [Files -> contents]
    /\ \A s \in Songs : disk[<<s, "current">>] = Absent
    /\ manifest = [c \in Charts |-> None]
    /\ stale \in BOOLEAN /\ marker = FALSE
    /\ temps = {} /\ buildLock = None /\ songLock = [s \in Songs |-> None]
    /\ pc = [p \in Procs |-> "idle"]
    /\ song = [p \in Procs |-> None] /\ need = [p \in Procs |-> {}]
    /\ path = [p \in Procs |-> None]
    /\ loaded = [p \in Procs |-> Absent]
    /\ startup = [p \in Procs |-> FALSE] /\ rotate = [p \in Procs |-> FALSE]
    /\ misses = [p \in Procs |-> {}] /\ todo = [p \in Procs |-> {}]
    /\ built = [p \in Procs |-> [s \in Songs |-> None]]
    /\ memory = [p \in Procs |-> [s \in Songs |-> {}]]
    /\ result = [p \in Procs |-> "none"]
    /\ ops = 0 /\ crashes = 0 /\ corruptions = 0

\* A new version's directory: what serves so far are bundles of the predecessor.
Init == InitFrom({Absent, Bundle(Keys)})

-----------------------------------------------------------------------------
\* The files.

\* serving_path: the current version's file, else a ratified predecessor's that exists, else where
\* the current version's is written.
ServingFile(s) ==
    IF ~disk[<<s, "current">>].there /\ disk[<<s, "predecessor">>].there
    THEN <<s, "predecessor">> ELSE <<s, "current">>

Serving(s) == disk[ServingFile(s)]
Unreadable(content) == content.there /\ ~content.readable

\* The Force Great probe opens a bundle and reads its version and its stat keys only, so damage to its
\* tables escapes it; the timeline's reads every array.
ProbeFails(content) == content.there /\ ~(IF kind = "fg" THEN content.head ELSE content.readable)

\* is_complete over every key.
Complete(content) == content.there /\ ~ProbeFails(content) /\ Keys \subseteq content.keys

\* What is left of the charts' files after is_complete probed those of `probed`: the Force Great probe
\* deletes a file it fails to read, the timeline's leaves it.
AfterProbes(probed) ==
    [f \in Files |-> IF kind = "fg" /\ ProbeFails(disk[f]) /\ \E c \in probed : f = ServingFile(SongOf[c])
                     THEN Absent ELSE disk[f]]

\* manifest_plan: a recorded chart hits on its file's size alone, another one when its serving file is
\* complete, which is then recorded.  When the song of a hit in the sample is served by another file
\* than the recorded one the key derivation drifted and every chart misses.
Recorded(c) ==
    /\ manifest[c] # None
    /\ disk[manifest[c].file].there
    /\ disk[manifest[c].file].keys = manifest[c].size
\* Mutant: a file that is there counts as complete (the timeline's cache_info asks no more than that).
NewlyCompleteIfThere == {c \in Charts : ~Recorded(c) /\ Serving(SongOf[c]).there}
NewlyComplete == {c \in Charts : ~Recorded(c) /\ Complete(Serving(SongOf[c]))}
Hits == {c \in Charts : Recorded(c)} \cup NewlyComplete
EntryOf(f) == [file |-> f, size |-> disk[f].keys]
PlanEntries == [c \in Charts |-> IF c \in NewlyComplete THEN EntryOf(ServingFile(SongOf[c])) ELSE manifest[c]]
\* The hits sampled: evenly over the order the charts are given in, which may be any.
Samples == {sample \in SUBSET Hits : /\ Cardinality(sample) <= DriftSample
                                     /\ sample = Hits \/ Cardinality(sample) = DriftSample}
Drifted(sample) == \E c \in sample : PlanEntries[c].file # ServingFile(SongOf[c])
PlanMisses(sample) == IF Drifted(sample) THEN Charts ELSE Charts \ Hits

\* _save_manifest keeps the entries whose file is there.
Kept(entries) == [c \in Charts |-> IF entries[c] # None /\ disk[entries[c].file].there THEN entries[c] ELSE None]

-----------------------------------------------------------------------------
Goto(p, s) == pc' = [pc EXCEPT ![p] = s]
At(p, s) == pc[p] = s

End(p, outcome) ==
    /\ Goto(p, "idle")
    /\ result' = [result EXCEPT ![p] = outcome]

\* A song that could not be built: the prebuild counts it as failed and goes on, a request fails.
GivesUp(p) == IF startup[p] THEN Goto(p, "build") /\ UNCHANGED result ELSE End(p, "failed")

\* The startup prebuild begins.
BeginStartup(p, authorize) ==
    /\ At(p, "idle") /\ ops < MaxOps /\ ops' = ops + 1
    /\ startup' = [startup EXCEPT ![p] = TRUE] /\ rotate' = [rotate EXCEPT ![p] = authorize]
    /\ result' = [result EXCEPT ![p] = "none"]
    /\ built' = [built EXCEPT ![p] = [s \in Songs |-> None]]
    /\ Goto(p, IF authorize \/ \A c \in Charts : manifest[c] = None THEN "waitBuild" ELSE "probePlan")
    /\ UNCHANGED <<kind, diskVars, lockVars, song, need, path, loaded, misses, todo, memory, crashes, corruptions>>

\* A solve or a trace asks for a song (scoring_bundle_covering, build_or_load_timeline_frontier_payload):
\* the memory tier serves what it holds.
BeginServe(p, s, keys) ==
    /\ At(p, "idle") /\ ops < MaxOps /\ ops' = ops + 1
    /\ keys # {} /\ (kind = "timeline" => keys = Keys)
    /\ startup' = [startup EXCEPT ![p] = FALSE]
    /\ song' = [song EXCEPT ![p] = s] /\ need' = [need EXCEPT ![p] = keys]
    /\ IF keys \subseteq memory[p][s]
       THEN End(p, "served") /\ loaded' = [loaded EXCEPT ![p] = Bundle(memory[p][s])]
       ELSE /\ Goto(p, IF kind = "fg" THEN "ensure" ELSE "open")
            /\ result' = [result EXCEPT ![p] = "none"] /\ UNCHANGED loaded
    /\ UNCHANGED <<kind, diskVars, lockVars, path, rotate, misses, todo, built, memory, crashes, corruptions>>

\* Charts the manifest records are readers: they are probed without the lock and without writing it.
ProbePlan(p) ==
    /\ At(p, "probePlan")
    /\ \E sample \in Samples :
          IF PlanMisses(sample) = {} /\ NewlyComplete = {}
          THEN End(p, "ready") ELSE Goto(p, "waitBuild") /\ UNCHANGED result
    /\ disk' = AfterProbes({c \in Charts : ~Recorded(c)})
    /\ UNCHANGED <<kind, manifest, stale, marker, temps, lockVars, song, need, path, loaded, planVars, memory, boundVars>>

TakeBuildLock(p) ==
    /\ At(p, "waitBuild") /\ buildLock = None
    /\ buildLock' = p
    /\ Goto(p, "plan")
    /\ UNCHANGED <<kind, diskVars, songLock, song, need, path, loaded, planVars, memory, result, boundVars>>

Plan(p) ==
    /\ At(p, "plan") /\ Goto(p, "maintain")
    /\ \E sample \in Samples : misses' = [misses EXCEPT ![p] = PlanMisses(sample)]
    /\ manifest' = IF NewlyComplete # {} THEN Kept(PlanEntries) ELSE manifest
    /\ disk' = AfterProbes({c \in Charts : ~Recorded(c)})
    /\ UNCHANGED <<kind, stale, marker, temps, lockVars, song, need, path, loaded, startup, rotate, todo, built, memory,
                   result, boundVars>>

\* The directory is kept: temporary files go, and under an authorized rotation the bundles outside the
\* lineage; unauthorized, those stop the prebuild.
Maintain(p) ==
    LET keeps == kind = "timeline" \/ misses[p] # {} \/ rotate[p]
        purges == kind = "fg" /\ keeps /\ ~marker
        refused == purges /\ stale /\ ~rotate[p]
    IN
    /\ At(p, "maintain")
    /\ temps' = IF keeps THEN {} ELSE temps
    /\ stale' = IF purges /\ ~refused THEN FALSE ELSE stale
    /\ marker' = (marker \/ (purges /\ ~refused))
    /\ IF refused \/ misses[p] = {}
       THEN /\ End(p, IF refused THEN "refused" ELSE "ready")
            /\ buildLock' = None /\ UNCHANGED todo
       ELSE /\ Goto(p, "build")
            /\ todo' = [todo EXCEPT ![p] = {SongOf[c] : c \in misses[p]}]
            /\ UNCHANGED <<buildLock, result>>
    /\ UNCHANGED <<kind, disk, manifest, songLock, song, need, path, loaded, startup, rotate, misses, built, memory,
                   boundVars>>

\* The missing songs are built, one representative chart for each (the pool's workers, one song at a
\* time here).  A timeline file that is there counts as cached.
BuildNext(p, s) ==
    /\ At(p, "build") /\ s \in todo[p]
    /\ todo' = [todo EXCEPT ![p] = @ \ {s}]
    /\ song' = [song EXCEPT ![p] = s] /\ need' = [need EXCEPT ![p] = Keys]
    /\ IF kind = "timeline" /\ (memory[p][s] # {} \/ Serving(s).there)
       THEN built' = [built EXCEPT ![p][s] = ServingFile(s)] /\ UNCHANGED pc
       ELSE Goto(p, IF kind = "fg" THEN "ensure" ELSE "open") /\ UNCHANGED built
    /\ UNCHANGED <<kind, diskVars, lockVars, path, loaded, startup, rotate, misses, memory, result, boundVars>>

\* record_manifest: the complete files of the build; then the lock is released.
RecordBuilds(p) ==
    LET done == {c \in misses[p] : built[p][SongOf[c]] # None}
        complete == {c \in done : Complete(disk[built[p][SongOf[c]]])}
    IN
    /\ At(p, "build") /\ todo[p] = {}
    /\ manifest' = IF complete = {} THEN manifest
                   ELSE Kept([c \in Charts |-> IF c \in complete THEN EntryOf(built[p][SongOf[c]]) ELSE manifest[c]])
    /\ disk' = [f \in Files |-> IF kind = "fg" /\ ProbeFails(disk[f]) /\ \E c \in done : f = built[p][SongOf[c]]
                                THEN Absent ELSE disk[f]]
    /\ buildLock' = None
    /\ End(p, IF done = misses[p] THEN "ready" ELSE "failed")
    /\ UNCHANGED <<kind, stale, marker, temps, songLock, song, need, path, loaded, planVars, memory, boundVars>>

-----------------------------------------------------------------------------
\* A song's file is ensured.

\* The end of an ensured song: the prebuild goes on, a reader loads its bundle.
Ensured(p) ==
    IF startup[p]
    THEN Goto(p, "build") /\ built' = [built EXCEPT ![p][song[p]] = ServingFile(song[p])]
    ELSE Goto(p, "load") /\ UNCHANGED built

\* _payload_file_is_complete, over the keys needed: the head of the file is read ...
Probe(p) ==
    LET content == Serving(song[p]) IN
    /\ At(p, "ensure")
    /\ path' = [path EXCEPT ![p] = ServingFile(song[p])]
    /\ loaded' = [loaded EXCEPT ![p] = content]
    /\ IF ProbeFails(content) THEN Goto(p, "discard") /\ UNCHANGED built
       ELSE IF content.there /\ need[p] \subseteq content.keys THEN Ensured(p)
       ELSE Goto(p, "waitSong") /\ UNCHANGED built
    /\ UNCHANGED <<kind, diskVars, lockVars, song, need, startup, rotate, misses, todo, memory, result, boundVars>>

\* ... and deleted when it could not be, whatever is there by now.
Discard(p) ==
    /\ At(p, "discard")
    /\ disk' = [disk EXCEPT ![path[p]] = Absent]
    /\ Goto(p, IF kind = "fg" THEN "waitSong" ELSE "write")
    /\ UNCHANGED <<kind, manifest, stale, marker, temps, lockVars, song, need, path, loaded, planVars, memory, result,
                   boundVars>>

\* One owner holds the read-merge-publish transaction of a bundle.
TakeSongLock(p) ==
    /\ At(p, "waitSong") /\ songLock[song[p]] = None
    /\ songLock' = [songLock EXCEPT ![song[p]] = p]
    /\ Goto(p, "merge")
    /\ UNCHANGED <<kind, diskVars, buildLock, song, need, path, loaded, planVars, memory, result, boundVars>>

\* Mutant: the base is the bundle read before the lock was taken.
MergeProbed(p) ==
    /\ At(p, "merge")
    /\ Goto(p, IF need[p] \subseteq loaded[p].keys THEN "unlock" ELSE "write")
    /\ UNCHANGED <<kind, diskVars, lockVars, song, need, path, loaded, planVars, memory, result, boundVars>>

\* The bundle on disk is the base of the merge (an unreadable one is deleted); the keys it lacks are built.
Merge(p) ==
    LET content == Serving(song[p])
        base == IF Unreadable(content) THEN Absent ELSE content
    IN
    /\ At(p, "merge")
    /\ disk' = IF Unreadable(content) THEN [disk EXCEPT ![ServingFile(song[p])] = Absent] ELSE disk
    /\ loaded' = [loaded EXCEPT ![p] = base]
    /\ Goto(p, IF need[p] \subseteq base.keys THEN "unlock" ELSE "write")
    /\ UNCHANGED <<kind, manifest, stale, marker, temps, lockVars, song, need, path, planVars, memory, result, boundVars>>

\* The timeline payload is read without a lock: from disk, or it is built.
Open(p) ==
    LET content == Serving(song[p]) IN
    /\ At(p, "open")
    /\ path' = [path EXCEPT ![p] = ServingFile(song[p])]
    /\ loaded' = [loaded EXCEPT ![p] = content]
    /\ IF ~content.there THEN Goto(p, "write") /\ UNCHANGED <<memory, result, built>>
       ELSE IF ~content.readable THEN Goto(p, "discard") /\ UNCHANGED <<memory, result, built>>
       ELSE /\ memory' = [memory EXCEPT ![p][song[p]] = content.keys]
            /\ IF startup[p] THEN Ensured(p) /\ UNCHANGED result ELSE End(p, "served") /\ UNCHANGED built
    /\ UNCHANGED <<kind, diskVars, lockVars, song, need, startup, rotate, misses, todo, boundVars>>

\* The build of a payload raises: nothing is written, the song's lock is released.
BuildFails(p) ==
    /\ At(p, "write") /\ GivesUp(p)
    /\ songLock' = IF kind = "fg" THEN [songLock EXCEPT ![song[p]] = None] ELSE songLock
    /\ UNCHANGED <<kind, diskVars, buildLock, song, need, path, loaded, planVars, memory, boundVars>>

\* write_atomically: a temporary sibling, then the rename.
WriteTemp(p) ==
    /\ At(p, "write") /\ Goto(p, "rename")
    /\ temps' = temps \cup {p}
    /\ UNCHANGED <<kind, disk, manifest, stale, marker, lockVars, song, need, path, loaded, planVars, memory, result, boundVars>>

Payload(p) == IF kind = "fg" THEN loaded[p].keys \cup need[p] ELSE Keys

\* The rename publishes, unless the write or the rename fails, as it does when the temporary file is gone;
\* either way none is left.  A bundle's failed write fails the operation (the locks are released); a
\* timeline payload is served from memory all the same.
Rename(p) ==
    /\ At(p, "rename")
    /\ temps' = temps \ {p}
    /\ \E published \in BOOLEAN :
          /\ published => p \in temps
          /\ disk' = IF published THEN [disk EXCEPT ![<<song[p], "current">>] = Bundle(Payload(p))] ELSE disk
          /\ IF kind = "fg"
             THEN /\ songLock' = IF published THEN songLock ELSE [songLock EXCEPT ![song[p]] = None]
                  /\ memory' = IF published THEN [memory EXCEPT ![p][song[p]] = {}] ELSE memory
                  /\ UNCHANGED <<built, loaded>>
                  /\ IF published THEN Goto(p, "unlock") /\ UNCHANGED result ELSE GivesUp(p)
             ELSE /\ memory' = [memory EXCEPT ![p][song[p]] = Keys]
                  /\ loaded' = [loaded EXCEPT ![p] = Bundle(Keys)]
                  /\ UNCHANGED songLock
                  /\ IF startup[p]
                     THEN /\ Goto(p, "build") /\ UNCHANGED result
                          /\ built' = [built EXCEPT ![p][song[p]] = <<song[p], "current">>]
                     ELSE End(p, "served") /\ UNCHANGED built
    /\ UNCHANGED <<kind, manifest, stale, marker, buildLock, song, need, path, startup, rotate, misses, todo, boundVars>>

Unlock(p) ==
    /\ At(p, "unlock")
    /\ songLock' = [songLock EXCEPT ![song[p]] = None]
    /\ Ensured(p)
    /\ UNCHANGED <<kind, diskVars, buildLock, song, need, path, loaded, startup, rotate, misses, todo, memory, result, boundVars>>

\* Mutant: the loaded bundle is not asked for the keys.
LoadUnchecked(p) ==
    LET content == Serving(song[p]) IN
    /\ At(p, "load")
    /\ loaded' = [loaded EXCEPT ![p] = content]
    /\ End(p, "served") /\ memory' = [memory EXCEPT ![p][song[p]] = content.keys]
    /\ UNCHANGED <<kind, diskVars, lockVars, song, need, path, planVars, boundVars>>

\* load_response_frontier_scoring_bundle: the whole file, or a loud failure.
Load(p) ==
    LET content == Serving(song[p]) IN
    /\ At(p, "load")
    /\ loaded' = [loaded EXCEPT ![p] = content]
    /\ IF content.there /\ content.readable /\ need[p] \subseteq content.keys
       THEN End(p, "served") /\ memory' = [memory EXCEPT ![p][song[p]] = content.keys]
       ELSE End(p, "failed") /\ UNCHANGED memory
    /\ UNCHANGED <<kind, diskVars, lockVars, song, need, path, planVars, boundVars>>

-----------------------------------------------------------------------------
\* A process dies: the system releases its locks, its temporary file stays.
Crash(p) ==
    /\ ~At(p, "idle") /\ crashes + corruptions < MaxFaults /\ crashes' = crashes + 1
    /\ buildLock' = IF buildLock = p THEN None ELSE buildLock
    /\ songLock' = [s \in Songs |-> IF songLock[s] = p THEN None ELSE songLock[s]]
    /\ memory' = [memory EXCEPT ![p] = [s \in Songs |-> {}]]
    /\ End(p, "crashed")
    /\ UNCHANGED <<kind, diskVars, song, need, path, loaded, planVars, ops, corruptions>>

\* A file is damaged, in what a Force Great probe reads or past it, or cut short (then its size changes
\* too, and what tells where its members are is gone).
Damaged(content) ==
    LET broken == [content EXCEPT !.readable = FALSE, !.head = FALSE] IN
    {broken, [broken EXCEPT !.keys = {}], [broken EXCEPT !.head = (kind = "fg")]}
Corrupt(f) ==
    /\ disk[f].there /\ disk[f].readable /\ crashes + corruptions < MaxFaults /\ corruptions' = corruptions + 1
    /\ \E content \in Damaged(disk[f]) : disk' = [disk EXCEPT ![f] = content]
    /\ UNCHANGED <<kind, manifest, stale, marker, temps, lockVars, pc, song, need, path, loaded, planVars, memory, result,
                   ops, crashes>>

Step(p) ==
    \/ ProbePlan(p) \/ TakeBuildLock(p) \/ Plan(p) \/ Maintain(p) \/ RecordBuilds(p)
    \/ \E s \in Songs : BuildNext(p, s)
    \/ Probe(p) \/ Discard(p) \/ TakeSongLock(p) \/ Merge(p) \/ Open(p)
    \/ BuildFails(p) \/ WriteTemp(p) \/ Rename(p) \/ Unlock(p) \/ Load(p)

Next ==
    \/ \E p \in Procs : Step(p) \/ Crash(p)
    \/ \E p \in Procs, authorize \in BOOLEAN : BeginStartup(p, authorize)
    \/ \E p \in Procs, s \in Songs, keys \in SUBSET Keys : BeginServe(p, s, keys)
    \/ \E f \in Files : Corrupt(f)
    \/ (\A p \in Procs : At(p, "idle")) /\ UNCHANGED vars

Spec == Init /\ [][Next]_vars

-----------------------------------------------------------------------------
\* The steps a process takes with the build lock, and with the lock of its song.
BuildSteps == {"plan", "maintain", "build", "ensure", "discard", "waitSong", "merge", "write", "rename", "unlock", "open"}
SongSteps == {"merge", "write", "rename", "unlock"}

\* The directory and its readers keep their types, and each lock is held by exactly the process whose step
\* needs it: a failed or killed builder leaves none behind.
Contents == [there : BOOLEAN, keys : SUBSET Keys, readable : BOOLEAN, head : BOOLEAN]
TypeOK ==
    /\ kind \in {"fg", "timeline"}
    /\ disk \in [Files -> Contents]
    /\ \A c \in Charts : manifest[c] = None \/ manifest[c] \in [file : Files, size : SUBSET Keys]
    /\ stale \in BOOLEAN /\ marker \in BOOLEAN /\ temps \subseteq Procs
    /\ buildLock \in Procs \cup {None}
    /\ songLock \in [Songs -> Procs \cup {None}]
    /\ loaded \in [Procs -> Contents]
    /\ \A p \in Procs : misses[p] \subseteq Charts /\ todo[p] \subseteq Songs
    /\ memory \in [Procs -> [Songs -> SUBSET Keys]]
    /\ \A p \in Procs : buildLock = p <=> startup[p] /\ pc[p] \in BuildSteps
    /\ \A p \in Procs, s \in Songs : songLock[s] = p <=> kind = "fg" /\ song[p] = s /\ pc[p] \in SongSteps

\* A bundle only grows: whatever two processes publish, from whatever base, no stat key a song's
\* serving file held is lost (damaged files aside).
BundlesOnlyGrow ==
    [][\A s \in Songs : corruptions' = 0 =>
          /\ Serving(s).keys \subseteq disk'[<<s, "current">>].keys \cup
                (IF disk'[<<s, "current">>].there THEN {} ELSE disk'[<<s, "predecessor">>].keys)]_vars

\* Who was served holds the keys it asked for, from a file that could be read or its own build.
ServedInFull == \A p \in Procs : result[p] = "served" =>
                    loaded[p].readable /\ need[p] \subseteq loaded[p].keys

\* A prebuild that ends "ready" has verified or built every chart: a complete file serves it (or, for a
\* timeline whose file could not be written, the process's own memory), and as long as no file is
\* damaged that stays so, whoever crashes or builds besides.
ReadyIsComplete ==
    corruptions = 0 =>
        \A p \in Procs : startup[p] /\ result[p] = "ready" =>
            \A c \in Charts : Complete(Serving(SongOf[c])) \/ (kind = "timeline" /\ Keys \subseteq memory[p][SongOf[c]])

=============================================================================
