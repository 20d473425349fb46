------------------------- MODULE BuildService_proofs -------------------------
(***************************************************************************)
(* What holds of the rootfs, its snapshots and the builds for any number   *)
(* of files, writes, workers, snapshots, edits and crashes.                *)
(***************************************************************************)
EXTENDS BuildService, TLAPS

-----------------------------------------------------------------------------
\* The shape of the state.  In every whole tree, live, archived or unpacked,
\* the read-only files are as shipped and only they are in the overlay.
Content == 0..MaxWrites
Base == {b \in [Files -> Content] : \A f \in ReadOnly : b[f] = 1}
Over == {o \in [Files -> Content] : \A f \in Writable : o[f] = 0}
WholeTree == [state : {"whole"}, base : Base, over : Over]
Tree == {Absent, Torn, Mixed} \cup WholeTree

RollingAt == {"unpacked", "saving", "saved", "restoring"}
BuildingAt == {"package", "manifest", "verify", "done", "report"}
Job == [at : {"idle"}] \cup [at : {"taring"}, tree : Tree, name : Names]
       \cup [at : RollingAt, tree : Tree] \cup [at : BuildingAt, ok : BOOLEAN]

Jobs == job \in [Builders -> Job]
Dist ==
  /\ source \in 1..MaxEdits /\ packaged \in 0..source /\ recorded \in 0..source
  /\ lock \in Workers \cup {None}
Fs ==
  /\ rootfs \in Tree /\ writes \in Content /\ latest \in [Files -> Content]
  /\ manifest.base \in Base
Trees == Fs /\ tarball \in [Names -> Tree]

-----------------------------------------------------------------------------
\* A worker that moves keeps the rest of what it is doing.
LEMMA RollingMoves ==
  ASSUME Jobs, NEW w \in Builders, NEW at \in RollingAt, job[w].at \in RollingAt, Goes(w, at)
  PROVE  /\ Jobs' /\ job' = [job EXCEPT ![w] = [at |-> at, tree |-> job[w].tree]]
         /\ job[w].tree \in Tree
<1>1. job[w] \in Job /\ job[w] \in [at : RollingAt, tree : Tree]
  BY DEF Jobs, Job, RollingAt, BuildingAt
<1>2. [job[w] EXCEPT !.at = at] = [at |-> at, tree |-> job[w].tree]
  BY <1>1
<1>3. job' = [job EXCEPT ![w] = [at |-> at, tree |-> job[w].tree]]
  BY <1>2 DEF Goes
<1>4. [at |-> at, tree |-> job[w].tree] \in Job
  BY <1>1 DEF Job
<1> QED  BY <1>1, <1>3, <1>4 DEF Jobs

LEMMA BuildingMoves ==
  ASSUME Jobs, NEW w \in Builders, NEW at \in BuildingAt, job[w].at \in BuildingAt, Goes(w, at)
  PROVE  Jobs' /\ job' = [job EXCEPT ![w] = [at |-> at, ok |-> job[w].ok]]
<1>1. job[w] \in Job /\ job[w] \in [at : BuildingAt, ok : BOOLEAN]
  BY DEF Jobs, Job, RollingAt, BuildingAt
<1>2. [job[w] EXCEPT !.at = at] = [at |-> at, ok |-> job[w].ok]
  BY <1>1
<1>3. job' = [job EXCEPT ![w] = [at |-> at, ok |-> job[w].ok]]
  BY <1>2 DEF Goes
<1>4. [at |-> at, ok |-> job[w].ok] \in Job
  BY <1>1 DEF Job
<1> QED  BY <1>1, <1>3, <1>4 DEF Jobs

LEMMA JobEnds ==
  ASSUME Jobs, NEW w \in Builders, Ends(w)
  PROVE  Jobs'
BY DEF Jobs, Ends, Idle, Job

\* Of the steps of the builders and of the roller, which changes what.
BuildMoves(w) == BuildStep(w) \/ (w = Script /\ (ScriptBegins \/ ScriptVerifies))
                 \/ (w \in Workers /\ RebuildBegins(w))
RollMoves(w) ==
  \/ \E s \in Names : SnapshotOpens(w, s) \/ RollbackUnpacks(w, s)
  \/ SnapshotCloses(w)
  \/ RollbackSaves(w) \/ RollbackSaved(w) \/ RollbackRemoves(w) \/ RollbackRestores(w)

LEMMA WhoMoves ==
  ASSUME BuildNext
  PROVE  \/ Elsewhere \/ Crash \/ ScriptCleans
         \/ \E w \in Rollers : RollMoves(w)
         \/ \E w \in Builders : BuildMoves(w)
BY DEF BuildNext, BuildMoves, RollMoves, Builders

LEMMA BuildKeepsJobs ==
  ASSUME Jobs, NEW w \in Builders, BuildMoves(w)
  PROVE  /\ Jobs' /\ UNCHANGED <<fsVars, backup, tarball, before>>
         /\ \A v \in Builders : v # w => job'[v] = job[v]
         /\ job[w].at \notin RollingAt /\ job'[w].at \notin RollingAt
         /\ job'[w].at = "manifest" => packaged' = source /\ source' = source
<1> USE DEF BuildingAt, RollingAt
<1>1. CASE RebuildBegins(w) \/ (w = Script /\ ScriptBegins)
  <2>1. /\ job[w] = Idle /\ job' = [job EXCEPT ![w] = [at |-> "package", ok |-> TRUE]]
        /\ UNCHANGED <<fsVars, backup, tarball, before>>
    BY <1>1 DEF RebuildBegins, ScriptBegins
  <2>2. [at |-> "package", ok |-> TRUE] \in Job  BY DEF Job
  <2>3. Jobs' /\ job'[w].at = "package"  BY <2>1, <2>2 DEF Jobs
  <2>4. job[w].at = "idle"  BY <2>1 DEF Idle
  <2>5. \A v \in Builders : v # w => job'[v] = job[v]  BY <2>1 DEF Jobs
  <2>6. UNCHANGED <<fsVars, backup, tarball, before>>  BY <2>1
  <2> QED  BY <2>3, <2>4, <2>5, <2>6
<1>2. CASE BuildPackage(w)
  <2>1. /\ job[w].at = "package" /\ Goes(w, "manifest") /\ UNCHANGED <<fsVars, backup, tarball, before>>
        /\ packaged' = source /\ source' = source
    BY <1>2 DEF BuildPackage, PackageSource
  <2> QED  BY <2>1, BuildingMoves DEF Jobs
<1>3. CASE BuildManifest(w)
  <2>1. /\ job[w].at = "manifest" /\ (Goes(w, "verify") \/ Goes(w, "done"))
        /\ UNCHANGED <<fsVars, backup, tarball, before>>
    BY <1>3 DEF BuildManifest
  <2> QED  BY <2>1, BuildingMoves DEF Jobs
<1>4. CASE BuildRaises(w)
  <2>1. /\ job[w].at \in {"package", "manifest"}
        /\ \/ job' = [job EXCEPT ![w] = Idle]
           \/ job' = [job EXCEPT ![w] = [at |-> "done", ok |-> FALSE]]
        /\ UNCHANGED <<fsVars, backup, tarball, before>>
    BY <1>4 DEF BuildRaises
  <2>2. Idle \in Job /\ [at |-> "done", ok |-> FALSE] \in Job  BY DEF Job, Idle
  <2>3. Jobs' /\ job'[w] \in {Idle, [at |-> "done", ok |-> FALSE]}  BY <2>1, <2>2 DEF Jobs
  <2>4. job'[w].at \in {"idle", "done"}  BY <2>3 DEF Idle
  <2>5. \A v \in Builders : v # w => job'[v] = job[v]  BY <2>1 DEF Jobs
  <2> QED  BY <2>1, <2>3, <2>4, <2>5
<1>5. CASE BuildReleases(w)
  <2>1. job[w].at = "done" /\ Goes(w, "report") /\ UNCHANGED <<fsVars, backup, tarball, before>>
    BY <1>5 DEF BuildReleases
  <2> QED  BY <2>1, BuildingMoves DEF Jobs
<1>6. CASE BuildReports(w) \/ (w = Script /\ ScriptVerifies)
  <2>1. /\ job[w].at \in {"report", "verify"} /\ Ends(w)
        /\ UNCHANGED <<fsVars, backup, tarball, before>>
    BY <1>6 DEF BuildReports, ScriptVerifies
  <2> QED  BY <2>1, JobEnds DEF Jobs, Ends, Idle
<1> QED  BY <1>1, <1>2, <1>3, <1>4, <1>5, <1>6 DEF BuildMoves, BuildStep

LEMMA RollKeepsJobs ==
  ASSUME Jobs, Trees, NEW w \in Builders, RollMoves(w)
  PROVE  /\ Jobs' /\ UNCHANGED <<lock, distVars>>
         /\ \A v \in Builders : v # w => job'[v] = job[v]
         /\ job'[w].at \notin BuildingAt
<1> USE DEF BuildingAt, RollingAt
<1>1. CASE \E s \in Names : SnapshotOpens(w, s)
  <2>1. PICK s \in Names : SnapshotOpens(w, s)  BY <1>1
  <2>2. [at |-> "taring", tree |-> rootfs, name |-> s] \in Job  BY DEF Job, Trees, Fs
  <2> QED  BY <2>1, <2>2 DEF SnapshotOpens, Jobs, distVars
<1>2. CASE SnapshotCloses(w)
  BY <1>2, JobEnds DEF SnapshotCloses, Ends, Idle, Jobs
<1>3. CASE \E s \in Names : RollbackUnpacks(w, s)
  <2>1. PICK s \in Names : RollbackUnpacks(w, s)  BY <1>3
  <2>2. [at |-> "unpacked", tree |-> tarball[s]] \in Job  BY DEF Job, Trees, Fs
  <2> QED  BY <2>1, <2>2 DEF RollbackUnpacks, Jobs, distVars
<1>4. CASE RollbackSaves(w) \/ RollbackSaved(w) \/ RollbackRemoves(w) \/ RollbackRestores(w)
  <2>1. /\ job[w].at \in RollingAt /\ UNCHANGED <<lock, distVars>>
        /\ Ends(w) \/ Goes(w, "saving") \/ Goes(w, "saved") \/ Goes(w, "restoring")
    BY <1>4 DEF RollbackSaves, RollbackSaved, RollbackRemoves, RollbackRestores
  <2>2. CASE Ends(w)  BY <2>1, <2>2, JobEnds DEF Ends, Idle, Jobs
  <2>3. CASE Goes(w, "saving") \/ Goes(w, "saved") \/ Goes(w, "restoring")
    BY <2>1, <2>3, RollingMoves DEF Jobs
  <2> QED  BY <2>1, <2>2, <2>3
<1> QED  BY <1>1, <1>2, <1>3, <1>4 DEF RollMoves

-----------------------------------------------------------------------------
\* The trees.  A write to a read-only file goes to the overlay, any other
\* past it, so that the two never hold the same file.
LEMMA WholeTrees ==
  /\ \A t \in Tree : IsWhole(t) => t \in WholeTree
  /\ \A t \in WholeTree : IsWhole(t) /\ t \in Tree
  /\ ~ IsWhole(Absent) /\ ~ IsWhole(Torn) /\ ~ IsWhole(Mixed)
BY DEF Tree, WholeTree, IsWhole, Absent, Torn, Mixed

LEMMA Contents == {0, 1} \subseteq Content
BY FilesAssumption DEF Content

LEMMA WriteKeepsTrees ==
  ASSUME Fs, ReadsBack, NEW f \in Files, WriteFile(f)
  PROVE  Fs' /\ ReadsBack'
<1>1. /\ rootfs \in WholeTree /\ writes + 1 \in Content \ {0} /\ writes' = writes + 1
      /\ latest' = [latest EXCEPT ![f] = writes + 1] /\ manifest' = manifest
  BY WholeTrees, FilesAssumption DEF WriteFile, Fs, Content
<1>2. PICK b \in Base, o \in Over : rootfs = [state |-> "whole", base |-> b, over |-> o]
  BY <1>1 DEF WholeTree
<1>3. \A g \in Files : latest[g] = IF o[g] # 0 THEN o[g] ELSE b[g]
  BY <1>1, <1>2, WholeTrees DEF ReadsBack, ReadFile
<1>4. PICK b2 \in Base, o2 \in Over :
        /\ rootfs' = [state |-> "whole", base |-> b2, over |-> o2]
        /\ \/ f \in ReadOnly /\ b2 = b /\ o2 = [o EXCEPT ![f] = writes + 1]
           \/ f \in Writable /\ o2 = o /\ b2 = [b EXCEPT ![f] = writes + 1]
  <2>1. CASE f \in ReadOnly
    <3>1. rootfs' = [rootfs EXCEPT !.over[f] = writes + 1]
      BY <2>1 DEF WriteFile, ToOverlay
    <3>2. rootfs' = [state |-> "whole", base |-> b, over |-> [o EXCEPT ![f] = writes + 1]]
      BY <1>2, <3>1
    <3>3. [o EXCEPT ![f] = writes + 1] \in Over
      BY <1>1, <2>1, FilesAssumption DEF Over, Files
    <3> QED  BY <2>1, <3>2, <3>3
  <2>2. CASE f \notin ReadOnly
    <3>1. rootfs' = [rootfs EXCEPT !.base[f] = writes + 1]
      BY <2>2 DEF WriteFile, ToOverlay
    <3>2. rootfs' = [state |-> "whole", base |-> [b EXCEPT ![f] = writes + 1], over |-> o]
      BY <1>2, <3>1
    <3>3. [b EXCEPT ![f] = writes + 1] \in Base
      BY <1>1, <2>2 DEF Base, Files
    <3> QED  BY <2>2, <3>2, <3>3 DEF Files
  <2> QED  BY <2>1, <2>2
<1>5. Fs'
  <2>1. rootfs' \in WholeTree  BY <1>4 DEF WholeTree
  <2> QED  BY <1>1, <2>1, WholeTrees DEF Fs
<1>6. \A g \in Files : latest'[g] = IF o2[g] # 0 THEN o2[g] ELSE b2[g]
  <2> SUFFICES ASSUME NEW g \in Files PROVE latest'[g] = IF o2[g] # 0 THEN o2[g] ELSE b2[g]
    OBVIOUS
  <2>1. latest'[g] = IF g = f THEN writes + 1 ELSE latest[g]
    BY <1>1 DEF Fs
  <2>2. CASE f \in ReadOnly
    BY <1>1, <1>3, <1>4, <2>1, <2>2, FilesAssumption DEF Over
  <2>3. CASE f \in Writable
    BY <1>1, <1>3, <1>4, <2>1, <2>3, FilesAssumption DEF Over, Base
  <2> QED  BY <2>2, <2>3 DEF Files
<1> QED  BY <1>4, <1>5, <1>6 DEF ReadsBack, ReadFile

LEMMA StartKeepsTrees ==
  ASSUME Fs, ReadsBack, StorageStart
  PROVE  Fs' /\ ReadsBack'
<1>1. rootfs \in WholeTree /\ latest' = TmpCleared(latest) /\ UNCHANGED <<writes, manifest>>
  BY WholeTrees DEF StorageStart, Fs
<1>2. PICK b \in Base, o \in Over : rootfs = [state |-> "whole", base |-> b, over |-> o]
  BY <1>1 DEF WholeTree
<1>3. rootfs' = [state |-> "whole", base |-> TmpCleared(b), over |-> o]
  BY <1>2 DEF StorageStart
<1>4. TmpCleared(b) \in Base /\ TmpCleared(latest) \in [Files -> Content]
  BY FilesAssumption, Contents DEF TmpCleared, Base, Fs, Files
<1>5. Fs'
  <2>1. rootfs' \in WholeTree  BY <1>3, <1>4 DEF WholeTree
  <2> QED  BY <1>1, <1>4, <2>1, WholeTrees DEF Fs
<1>6. \A g \in Files : latest[g] = IF o[g] # 0 THEN o[g] ELSE b[g]
  BY <1>1, <1>2, WholeTrees DEF ReadsBack, ReadFile
<1>7. \A g \in Files : latest'[g] = IF o[g] # 0 THEN o[g] ELSE TmpCleared(b)[g]
  BY <1>1, <1>6, FilesAssumption DEF TmpCleared, Over
<1> QED  BY <1>3, <1>5, <1>7 DEF ReadsBack, ReadFile

LEMMA ManifestKeepsTrees ==
  ASSUME Fs, ReadsBack, GenerateManifest
  PROVE  Fs' /\ ReadsBack'
<1>1. rootfs.base \in Base  BY WholeTrees DEF GenerateManifest, Fs, WholeTree
<1>2. manifest'.base = rootfs.base  BY DEF GenerateManifest
<1> QED  BY <1>1, <1>2 DEF GenerateManifest, Fs, ReadsBack

LEMMA RollKeepsTrees ==
  ASSUME Jobs, Trees, ReadsBack, NEW w \in Builders, RollMoves(w)
  PROVE  Trees' /\ ReadsBack'
<1>1. CASE \E s \in Names : SnapshotOpens(w, s) \/ RollbackUnpacks(w, s)
  BY <1>1 DEF SnapshotOpens, RollbackUnpacks, Trees, Fs, Tree, ReadsBack, fsVars
<1>2. CASE SnapshotCloses(w)
  <2>1. job[w] \in Job /\ job[w].at = "taring"  BY <1>2 DEF SnapshotCloses, Jobs
  <2>2. job[w].name \in Names  BY <2>1 DEF Job, RollingAt, BuildingAt
  <2>3. tarball' \in [Names -> Tree]
    BY <1>2, <2>2 DEF SnapshotCloses, Trees, Fs, Tree
  <2> QED  BY <1>2, <2>3 DEF SnapshotCloses, Trees, Fs, ReadsBack, fsVars
<1>3. CASE RollbackSaves(w) \/ RollbackSaved(w)
  BY <1>3 DEF RollbackSaves, RollbackSaved, Trees, Fs, ReadsBack, fsVars
<1>4. CASE RollbackRemoves(w)
  BY <1>4, WholeTrees DEF RollbackRemoves, Trees, Fs, Tree, ReadsBack
<1>5. CASE RollbackRestores(w)
  <2>1. job[w].tree \in Tree
    <3>1. job[w] \in Job /\ job[w].at = "restoring"  BY <1>5 DEF RollbackRestores, Jobs
    <3> QED  BY <3>1 DEF Job, RollingAt, BuildingAt
  <2>2. UNCHANGED <<writes, manifest, tarball>>
    BY <1>5 DEF RollbackRestores
  <2>3. CASE rootfs' = Torn /\ latest' = latest
    BY <2>2, <2>3, WholeTrees DEF Trees, Fs, Tree, ReadsBack
  <2>4. CASE /\ rootfs' = job[w].tree
             /\ latest' = IF IsWhole(rootfs') THEN [f \in Files |-> ReadFile(rootfs', f)] ELSE latest
    <3>1. CASE IsWhole(rootfs')
      <4>1. rootfs' \in WholeTree  BY <2>1, <2>4, <3>1, WholeTrees
      <4>2. \A f \in Files : ReadFile(rootfs', f) \in Content
        BY <4>1 DEF WholeTree, Base, Over, ReadFile
      <4>3. latest' = [f \in Files |-> ReadFile(rootfs', f)]  BY <2>4, <3>1
      <4>4. latest' \in [Files -> Content]  BY <4>2, <4>3
      <4>5. Trees'  BY <2>1, <2>2, <2>4, <4>4 DEF Trees, Fs
      <4> QED  BY <4>3, <4>5 DEF ReadsBack
    <3>2. CASE ~ IsWhole(rootfs')
      BY <2>1, <2>2, <2>4, <3>2 DEF Trees, Fs, ReadsBack
    <3> QED  BY <3>1, <3>2
  <2> QED  BY <1>5, <2>3, <2>4 DEF RollbackRestores
<1> QED  BY <1>1, <1>2, <1>3, <1>4, <1>5 DEF RollMoves

LEMMA CrashKeeps ==
  ASSUME Jobs, Trees, ReadsBack, Crash
  PROVE  Jobs' /\ Trees' /\ ReadsBack'
<1>1. Jobs'
  <2>1. job' = [v \in Builders |-> IF v = Script THEN job[v] ELSE Idle]  BY DEF Crash
  <2>2. Idle \in Job  BY DEF Job, Idle
  <2> QED  BY <2>1, <2>2 DEF Jobs
<1>2. Fs' /\ ReadsBack'
  <2>1. CASE StorageStart  BY <2>1, StartKeepsTrees DEF Trees
  <2>2. CASE ~ StorageStart
    <3>1. ~ IsWhole(rootfs) /\ rootfs' \in {Absent, Torn, rootfs} /\ UNCHANGED <<writes, latest, manifest>>
      BY <2>2 DEF Crash
    <3>2. ~ IsWhole(rootfs') /\ rootfs' \in Tree  BY <3>1, WholeTrees DEF Trees, Fs, Tree
    <3> QED  BY <3>1, <3>2 DEF Trees, Fs, ReadsBack
  <2> QED  BY <2>1, <2>2
<1> QED  BY <1>1, <1>2 DEF Crash, Trees

LEMMA ElsewhereKeeps ==
  ASSUME Jobs, Trees, ReadsBack, Elsewhere
  PROVE  Jobs' /\ Trees' /\ ReadsBack'
<1>1. UNCHANGED <<job, tarball>>  BY DEF Elsewhere
<1>2. Fs' /\ ReadsBack'
  <2>1. CASE \E f \in Files : WriteFile(f)  BY <2>1, WriteKeepsTrees DEF Trees
  <2>2. CASE GenerateManifest  BY <2>2, ManifestKeepsTrees DEF Trees
  <2>3. CASE UNCHANGED fsVars  BY <2>3 DEF fsVars, Trees, Fs, ReadsBack
  <2> QED  BY <2>1, <2>2, <2>3 DEF Elsewhere
<1> QED  BY <1>1, <1>2 DEF Jobs, Trees

TreesInv == Jobs /\ Trees /\ ReadsBack

LEMMA TreesInit == BuildInit => TreesInv
<1> SUFFICES ASSUME BuildInit PROVE TreesInv
  OBVIOUS
<1>1. Shipped \in Base /\ NoFiles \in Over
  BY FilesAssumption, Contents DEF Shipped, NoFiles, Base, Over, Files
<1>2. rootfs = [state |-> "whole", base |-> Shipped, over |-> NoFiles] /\ latest = Shipped
  BY DEF BuildInit, FsInit, Whole
<1>3. rootfs \in WholeTree  BY <1>1, <1>2 DEF WholeTree
<1>4. Fs  BY <1>1, <1>2, <1>3, WholeTrees, Contents DEF Fs, Base, BuildInit, FsInit
<1>5. ReadsBack
  <2>1. \A f \in Files : NoFiles[f] = 0  BY DEF NoFiles
  <2> QED  BY <1>2, <2>1 DEF ReadsBack, ReadFile
<1>6. Trees  BY <1>4 DEF BuildInit, Trees, Tree
<1>7. Jobs  BY DEF BuildInit, Jobs, Job, Idle
<1> QED  BY <1>5, <1>6, <1>7 DEF TreesInv

LEMMA TreesStep == TreesInv /\ [BuildNext]_buildVars => TreesInv'
<1> SUFFICES ASSUME Jobs, Trees, ReadsBack, [BuildNext]_buildVars PROVE Jobs' /\ Trees' /\ ReadsBack'
  BY DEF TreesInv
<1>1. CASE UNCHANGED buildVars
  BY <1>1 DEF buildVars, fsVars, Jobs, Trees, Fs, ReadsBack
<1>2. CASE ScriptCleans
  <2>1. tarball' = [s \in Names |-> Absent] /\ UNCHANGED <<fsVars, job>>
    BY <1>2 DEF ScriptCleans
  <2> QED  BY <2>1 DEF fsVars, Jobs, Trees, Fs, Tree, ReadsBack
<1>3. CASE \E w \in Rollers : RollMoves(w)
  BY <1>3, RollKeepsJobs, RollKeepsTrees, BuildAssumption DEF Builders
<1>4. CASE \E w \in Builders : BuildMoves(w)
  BY <1>4, BuildKeepsJobs DEF fsVars, Trees, Fs, ReadsBack
<1> QED  BY <1>1, <1>2, <1>3, <1>4, CrashKeeps, ElsewhereKeeps, WhoMoves

\* What is read of a file is what was last written to it, or what the last
\* rollback brought back: storage_service.py:150-172.
THEOREM ReadsBackAlways == BuildSpec => []ReadsBack
<1>1. TreesInv => ReadsBack  BY DEF TreesInv
<1> QED  BY TreesInit, TreesStep, <1>1, PTL DEF BuildSpec

\* Files of the read-only partitions never drift from the manifest, however
\* often and whenever that is made: storage_service.py:128-142,
\* manifest.py:145-190.
THEOREM OnlyWritableDriftsAlways == BuildSpec => []OnlyWritableDrifts
<1>1. TreesInv => OnlyWritableDrifts
  <2> SUFFICES ASSUME TreesInv, IsWhole(rootfs), NEW f \in ManifestDiffs \cap Files
               PROVE  f \in Writable
    BY DEF OnlyWritableDrifts
  <2>1. rootfs.base[f] # manifest.base[f]  BY FilesAssumption DEF ManifestDiffs
  <2>2. rootfs.base \in Base /\ manifest.base \in Base
    BY WholeTrees DEF TreesInv, Trees, Fs, WholeTree
  <2> QED  BY <2>1, <2>2 DEF Base, Files
<1> QED  BY TreesInit, TreesStep, <1>1, PTL DEF BuildSpec

-----------------------------------------------------------------------------
\* The builds.  A manifest is written only by a builder that has packaged the
\* sources, as they are now, since the sources stand still meanwhile; whoever
\* fails, crashes or cleans can only take packages away.
Current == packaged \in {0, source}
DistInv ==
  /\ Dist
  /\ recorded = source => Current
  /\ \A w \in Builders : job[w].at = "manifest" => Current

LEMMA CutOffKeeps ==
  ASSUME Dist, NEW w, CutOff(w)
  PROVE  /\ packaged' \in {0, packaged} /\ recorded' \in {0, recorded} /\ source' = source
         /\ Current => Current'
         /\ recorded' = source => recorded = source
BY DEF Dist, CutOff, Current

LEMMA DistInit == BuildInit => DistInv
BY BuildAssumption DEF BuildInit, DistInv, Dist, Current, Idle

LEMMA DistStep == TreesInv /\ DistInv /\ [BuildNext]_buildVars => DistInv'
<1> SUFFICES ASSUME Jobs, Trees, DistInv, [BuildNext]_buildVars PROVE DistInv'
  BY DEF TreesInv
<1>1. CASE UNCHANGED buildVars
  BY <1>1 DEF buildVars, distVars, DistInv, Dist, Current
<1>2. CASE ScriptCleans
  BY <1>2 DEF ScriptCleans, DistInv, Dist, Current
<1>3. CASE \E w \in Rollers : RollMoves(w)
  <2>1. PICK w \in Rollers : RollMoves(w)  BY <1>3
  <2>2. UNCHANGED <<lock, distVars>> /\ \A v \in Builders : job'[v].at = "manifest" => job[v].at = "manifest"
    BY <2>1, RollKeepsJobs, BuildAssumption DEF Builders, BuildingAt
  <2> QED  BY <2>2 DEF distVars, DistInv, Dist, Current
<1>4. CASE \E w \in Builders : BuildMoves(w)
  <2>1. PICK w \in Builders : BuildMoves(w)  BY <1>4
  <2>2. /\ job'[w].at = "manifest" => packaged' = source /\ source' = source
        /\ \A v \in Builders : v # w => job'[v] = job[v]
    BY <2>1, BuildKeepsJobs
  <2>3. Dist' /\ (Current => Current') /\ (recorded' = source' => Current')
    <3>1. CASE BuildPackage(w)
      BY <3>1 DEF BuildPackage, PackageSource, DistInv, Dist, Current
    <3>2. CASE BuildManifest(w)
      BY <3>2 DEF BuildManifest, WriteManifest, DistInv, Dist, Current
    <3>3. CASE BuildRaises(w)
      BY <3>3, CutOffKeeps DEF BuildRaises, DistInv, Dist
    <3>4. CASE BuildReleases(w)
      BY <3>4 DEF BuildReleases, distVars, DistInv, Dist, Current
    <3>5. CASE RebuildBegins(w) /\ w \in Workers
      BY <3>5 DEF RebuildBegins, TakesLock, distVars, DistInv, Dist, Current
    <3>6. CASE BuildReports(w) \/ ScriptBegins \/ ScriptVerifies
      BY <3>6 DEF BuildReports, ScriptBegins, ScriptVerifies, distVars, DistInv, Dist, Current
    <3> QED  BY <2>1, <3>1, <3>2, <3>3, <3>4, <3>5, <3>6 DEF BuildMoves, BuildStep
  <2> QED  BY <2>2, <2>3 DEF DistInv, Current
<1>5. CASE Elsewhere
  <2>1. CASE UNCHANGED distVars
    BY <1>5, <2>1 DEF Elsewhere, distVars, DistInv, Dist, Current
  <2>2. CASE /\ ~ Building /\ source < MaxEdits /\ source' = source + 1
             /\ UNCHANGED <<job, lock, packaged, recorded>>
    BY <2>2, BuildAssumption DEF Building, DistInv, Dist
  <2> QED  BY <1>5, <2>1, <2>2 DEF Elsewhere
<1>6. CASE Crash
  <2>1. lock' = None  BY <1>6 DEF Crash
  <2>2. \A v \in Builders : job'[v].at = "manifest" => job[v].at = "manifest"
    BY <1>6 DEF Crash, Idle
  <2>3. CASE UNCHANGED distVars
    BY <2>1, <2>2, <2>3 DEF distVars, DistInv, Dist, Current
  <2>4. CASE CutOff(lock)
    BY <2>1, <2>2, <2>4, CutOffKeeps DEF DistInv, Dist
  <2> QED  BY <1>6, <2>3, <2>4 DEF Crash
<1> QED  BY <1>1, <1>2, <1>3, <1>4, <1>5, <1>6, WhoMoves

\* A manifest that agrees with the sources stands beside no older packages,
\* for any number of builders: build_service.py:95-139, 270-373.
THEOREM VerifiedIsPackagedAlways == BuildSpec => []VerifiedIsPackaged
<1>1. DistInv => VerifiedIsPackaged
  BY DEF DistInv, Current, VerifiedIsPackaged, VerifyIntegrity
<1> QED  BY TreesInit, TreesStep, DistInit, DistStep, <1>1, PTL DEF BuildSpec

-----------------------------------------------------------------------------
\* The lock is that of the worker that is building, from the first step to the
\* release: so one worker builds at a time, and what it releases is its own.
LockOwned ==
  \A w \in Workers : lock = w <=> job[w].at \in {"package", "manifest", "done"}

LEMMA LockStep == Jobs /\ LockOwned /\ [BuildNext]_buildVars => LockOwned'
<1> SUFFICES ASSUME Jobs, LockOwned, [BuildNext]_buildVars, NEW v \in Workers
             PROVE  lock' = v <=> job'[v].at \in {"package", "manifest", "done"}
  BY DEF LockOwned
<1> DEFINE Holds == {"package", "manifest", "done"}
<1>1. v \in Builders /\ v # Script /\ v # None /\ (lock = v <=> job[v].at \in Holds)
  BY BuildAssumption DEF Builders, LockOwned
<1>2. ASSUME lock' = lock, job'[v].at \in Holds <=> job[v].at \in Holds
      PROVE  lock' = v <=> job'[v].at \in Holds
  BY <1>1, <1>2
<1>3. CASE UNCHANGED buildVars \/ Elsewhere \/ ScriptCleans
  BY <1>2, <1>3 DEF buildVars, Elsewhere, ScriptCleans
<1>4. CASE Crash
  <2>1. lock' = None /\ job'[v] = Idle
    BY <1>1, <1>4 DEF Crash
  <2> QED  BY <1>1, <2>1 DEF Idle
<1>5. ASSUME NEW w \in Rollers, RollMoves(w) PROVE lock' = v <=> job'[v].at \in Holds
  <2>1. w \in Builders /\ lock' = lock
    BY <1>5, BuildAssumption DEF Builders, RollMoves, SnapshotOpens, SnapshotCloses, RollbackUnpacks,
       RollbackSaves, RollbackSaved, RollbackRemoves, RollbackRestores
  <2>2. w # v => job'[v] = job[v]
    BY <1>1, <1>5, <2>1 DEF RollMoves, SnapshotOpens, SnapshotCloses, RollbackUnpacks, RollbackSaves,
           RollbackSaved, RollbackRemoves, RollbackRestores, Goes, Ends, Jobs
  <2>3. job[w].at \in {"idle", "taring", "unpacked", "saving", "saved", "restoring"}
    BY <1>5 DEF RollMoves, SnapshotOpens, SnapshotCloses, RollbackUnpacks, RollbackSaves, RollbackSaved,
           RollbackRemoves, RollbackRestores, Idle
  <2>4. job'[w].at \notin Holds
    <3>1. CASE \E s \in Names : SnapshotOpens(w, s) \/ RollbackUnpacks(w, s)
      BY <2>1, <3>1 DEF SnapshotOpens, RollbackUnpacks, Jobs
    <3>2. CASE Ends(w)
      BY <2>1, <3>2 DEF Ends, Idle, Jobs
    <3>3. ASSUME NEW at \in {"saving", "saved", "restoring"}, job[w].at \in RollingAt, Goes(w, at)
          PROVE  job'[w].at \notin Holds
      <4>1. job' = [job EXCEPT ![w] = [at |-> at, tree |-> job[w].tree]]
        BY <2>1, <3>3, RollingMoves DEF RollingAt
      <4> QED  BY <2>1, <3>3, <4>1 DEF Jobs
    <3> QED  BY <1>5, <3>1, <3>2, <3>3 DEF RollMoves, SnapshotCloses, RollbackSaves, RollbackSaved,
                RollbackRemoves, RollbackRestores, RollingAt
  <2> QED  BY <1>2, <2>1, <2>2, <2>3, <2>4
<1>6. ASSUME NEW w \in Builders, BuildMoves(w) PROVE lock' = v <=> job'[v].at \in Holds
  <2>1. w # v => job'[v] = job[v]
    BY <1>1, <1>6, BuildKeepsJobs
  <2>2. CASE RebuildBegins(w) /\ w \in Workers
    <3>1. lock = None /\ lock' = w /\ job'[w].at = "package"
      BY <1>6, <2>2 DEF RebuildBegins, TakesLock, Jobs
    <3> QED  BY <1>1, <2>1, <3>1
  <2>3. CASE w = Script /\ (ScriptBegins \/ ScriptVerifies)
    BY <1>1, <2>1, <2>3 DEF ScriptBegins, ScriptVerifies
  <2>4. CASE BuildPackage(w)
    <3>1. job[w].at = "package" /\ Goes(w, "manifest") /\ lock' = lock
      BY <2>4 DEF BuildPackage
    <3>2. job'[w].at = "manifest"
      BY <1>6, <3>1, BuildingMoves DEF BuildingAt, Jobs
    <3> QED  BY <1>2, <2>1, <3>1, <3>2
  <2>5. CASE BuildManifest(w)
    <3>1. /\ job[w].at = "manifest" /\ lock' = lock
          /\ Goes(w, IF w = Script THEN "verify" ELSE "done")
      BY <2>5 DEF BuildManifest
    <3>2. w = v => job'[w].at = "done"
      BY <1>1, <1>6, <3>1, BuildingMoves DEF BuildingAt, Jobs
    <3> QED  BY <1>2, <2>1, <3>1, <3>2
  <2>6. CASE BuildRaises(w)
    <3>1. /\ job[w].at \in {"package", "manifest"} /\ lock' = lock
          /\ w = v => job'[w].at = "done"
      BY <1>1, <1>6, <2>6 DEF BuildRaises, Jobs
    <3> QED  BY <1>2, <2>1, <3>1
  <2>7. CASE BuildReleases(w)
    <3>1. job[w].at = "done" /\ Goes(w, "report") /\ lock' = IF lock = w THEN None ELSE lock
      BY <2>7 DEF BuildReleases
    <3>2. job'[w].at = "report"
      BY <1>6, <3>1, BuildingMoves DEF BuildingAt, Jobs
    <3> QED  BY <1>1, <2>1, <3>1, <3>2
  <2>8. CASE BuildReports(w)
    <3>1. job[w].at = "report" /\ lock' = lock /\ job'[w] = Idle
      BY <1>6, <2>8 DEF BuildReports, Ends, Jobs
    <3> QED  BY <1>2, <2>1, <3>1 DEF Idle
  <2> QED  BY <1>6, <2>2, <2>3, <2>4, <2>5, <2>6, <2>7, <2>8 DEF BuildMoves, BuildStep
<1> QED  BY <1>3, <1>4, <1>5, <1>6, WhoMoves

\* At most one worker of the running system builds at a time, however they begin,
\* fail and crash, and a worker releases no lock but its own:
\* build_service.py:270-285, 364-365.
THEOREM LockOwnedAlways == BuildSpec => []LockOwned
<1>1. BuildInit => LockOwned
  BY BuildAssumption DEF BuildInit, LockOwned, Idle, Builders
<1>2. TreesInv => Jobs
  BY DEF TreesInv
<1> QED  BY TreesInit, TreesStep, LockStep, <1>1, <1>2, PTL DEF BuildSpec

-----------------------------------------------------------------------------
\* The safety net, where one thread only rolls back: at each of its places
\* the tree that it found is the live one, the backup or both, and in any
\* other it is the backup unless a tree is live.
SafeInv(r) ==
  /\ \A w \in Workers : job[w].at \in RollingAt => w = r
  /\ job[r].at \in {"unpacked", "saving", "saved"} => before = rootfs
  /\ job[r].at \in {"saved", "restoring"} => before = backup
  /\ job[r].at = "restoring" => ~ IsWhole(rootfs)
  /\ ~ IsWhole(rootfs) /\ IsWhole(before) => before = backup

LEMMA RollKeepsSafe ==
  ASSUME NEW r \in Workers, Jobs, SafeInv(r), RollMoves(r)
  PROVE  SafeInv(r)'
<1> USE DEF RollingAt
<1>0. r \in Builders  BY DEF Builders
<1>1. \A w \in Workers : w # r => job'[w].at \notin RollingAt
  <2>1. \A w \in Builders : w # r => job'[w] = job[w]
    BY <1>0 DEF RollMoves, SnapshotOpens, SnapshotCloses, RollbackUnpacks, RollbackSaves, RollbackSaved,
           RollbackRemoves, RollbackRestores, Goes, Ends, Jobs
  <2> QED  BY <2>1 DEF SafeInv, Builders
<1>2. CASE \E s \in Names : SnapshotOpens(r, s)
  <2>1. job'[r].at = "taring" /\ UNCHANGED <<rootfs, backup, before>>
    BY <1>0, <1>2 DEF SnapshotOpens, Jobs, fsVars
  <2> QED  BY <1>1, <2>1 DEF SafeInv, IsWhole
<1>3. CASE SnapshotCloses(r)
  <2>1. job'[r].at = "idle" /\ UNCHANGED <<rootfs, backup, before>>
    BY <1>0, <1>3 DEF SnapshotCloses, Ends, Idle, Jobs, fsVars
  <2> QED  BY <1>1, <2>1 DEF SafeInv, IsWhole
<1>4. CASE \E s \in Names : RollbackUnpacks(r, s)
  <2>1. job'[r].at = "unpacked" /\ before' = rootfs /\ UNCHANGED <<rootfs, backup>>
    BY <1>0, <1>4 DEF RollbackUnpacks, Jobs, fsVars
  <2> QED  BY <1>1, <2>1 DEF SafeInv, IsWhole
<1>5. CASE RollbackSaves(r)
  <2>1. before = rootfs /\ UNCHANGED <<rootfs, before>>
    BY <1>5 DEF RollbackSaves, SafeInv, fsVars
  <2>2. job'[r].at \in {"idle", "saving"}
    <3>1. CASE Ends(r)  BY <1>0, <3>1 DEF Ends, Idle, Jobs
    <3>2. CASE Goes(r, "saving")
      BY <1>0, <1>5, <3>2, RollingMoves DEF RollbackSaves, Jobs
    <3> QED  BY <1>5, <3>1, <3>2 DEF RollbackSaves
  <2> QED  BY <1>1, <2>1, <2>2 DEF SafeInv, IsWhole
<1>6. CASE RollbackSaved(r)
  <2>1. before = rootfs /\ UNCHANGED <<rootfs, before>>
    BY <1>6 DEF RollbackSaved, SafeInv, fsVars
  <2>2. job'[r].at = "idle" \/ (job'[r].at = "saved" /\ backup' = rootfs)
    <3>1. CASE Ends(r)  BY <1>0, <3>1 DEF Ends, Idle, Jobs
    <3>2. CASE Goes(r, "saved") /\ backup' = rootfs
      BY <1>0, <1>6, <3>2, RollingMoves DEF RollbackSaved, Jobs
    <3> QED  BY <1>6, <3>1, <3>2 DEF RollbackSaved
  <2> QED  BY <1>1, <2>1, <2>2 DEF SafeInv, IsWhole
<1>7. CASE RollbackRemoves(r)
  <2>1. before = backup /\ rootfs' = Absent /\ UNCHANGED <<backup, before>>
    BY <1>7 DEF RollbackRemoves, SafeInv
  <2>2. job'[r].at = "restoring"
    BY <1>0, <1>7, RollingMoves DEF RollbackRemoves, Jobs
  <2> QED  BY <1>1, <2>1, <2>2, WholeTrees DEF SafeInv
<1>8. CASE RollbackRestores(r)
  <2>1. before = backup /\ UNCHANGED <<backup, before>> /\ job'[r].at = "idle"
    BY <1>0, <1>8 DEF RollbackRestores, SafeInv, Ends, Idle, Jobs
  <2> QED  BY <1>1, <2>1 DEF SafeInv
<1> QED  BY <1>2, <1>3, <1>4, <1>5, <1>6, <1>7, <1>8 DEF RollMoves

LEMMA SafeStep ==
  ASSUME NEW r \in Workers, Rollers = {r}, Jobs, SafeInv(r), [BuildNext]_buildVars
  PROVE  SafeInv(r)'
<1>1. CASE UNCHANGED <<fsVars, job, backup, before>>
  BY <1>1 DEF fsVars, SafeInv, IsWhole
<1>2. CASE RollMoves(r)
  BY <1>2, RollKeepsSafe
<1>3. CASE \E w \in Builders : BuildMoves(w)
  <2>1. PICK w \in Builders : BuildMoves(w)  BY <1>3
  <2>2. /\ UNCHANGED <<rootfs, backup, before>>
        /\ \A v \in Builders : v # w => job'[v] = job[v]
        /\ job[w].at \notin RollingAt /\ job'[w].at \notin RollingAt
    BY <2>1, BuildKeepsJobs DEF fsVars
  <2>3. \A v \in Workers : job'[v].at \in RollingAt => job'[v] = job[v]
    BY <2>2 DEF Builders
  <2> QED  BY <2>2, <2>3 DEF SafeInv, IsWhole, RollingAt
<1>4. CASE Elsewhere /\ ~ UNCHANGED fsVars
  <2>1. UNCHANGED <<job, backup, before>> /\ ~ RollingBack /\ IsWhole(rootfs')
    <3>1. ASSUME NEW f \in Files, WriteFile(f) PROVE IsWhole(rootfs')
      BY <3>1 DEF WriteFile, IsWhole
    <3>2. ASSUME GenerateManifest PROVE IsWhole(rootfs')
      BY <3>2 DEF GenerateManifest, IsWhole
    <3> QED  BY <1>4, <3>1, <3>2 DEF Elsewhere
  <2> QED  BY <2>1 DEF SafeInv, RollingBack, RollingAt
<1>5. CASE Crash
  <2>1. \A w \in Workers : job'[w].at = "idle"
    BY <1>5, BuildAssumption DEF Crash, Idle, Builders
  <2>2. UNCHANGED <<backup, before>>
    BY <1>5 DEF Crash
  <2>3. ~ IsWhole(rootfs') => ~ IsWhole(rootfs)
    <3>1. CASE StorageStart  BY <3>1 DEF StorageStart, IsWhole
    <3>2. CASE ~ StorageStart  BY <1>5, <3>2 DEF Crash
    <3> QED  BY <3>1, <3>2
  <2> QED  BY <2>1, <2>2, <2>3 DEF SafeInv, RollingAt
<1>6. CASE Elsewhere /\ UNCHANGED fsVars
  BY <1>1, <1>6 DEF Elsewhere
<1>7. CASE ScriptCleans \/ UNCHANGED buildVars
  BY <1>1, <1>7 DEF ScriptCleans, buildVars
<1> QED  BY <1>2, <1>3, <1>4, <1>5, <1>6, <1>7, WhoMoves

\* Where one thread only rolls back, the tree that it replaces is on disk, live
\* or as backup, until there is another, whatever fails and however often
\* the system crashes: build_service.py:239-253.
THEOREM SafetyNetAlone ==
  ASSUME NEW r \in Workers, Rollers = {r}
  PROVE  BuildSpec => []SafetyNet
<1>1. BuildInit => SafeInv(r)
  BY WholeTrees DEF BuildInit, SafeInv, Idle, RollingAt, Builders
<1>2. Jobs /\ SafeInv(r) /\ [BuildNext]_buildVars => SafeInv(r)'
  BY SafeStep
<1>3. SafeInv(r) => SafetyNet
  BY DEF SafeInv, SafetyNet, RollingBack, RollingAt
<1>4. TreesInv => Jobs  BY DEF TreesInv
<1> QED  BY TreesInit, TreesStep, <1>1, <1>2, <1>3, <1>4, PTL DEF BuildSpec

-----------------------------------------------------------------------------
\* What nothing else depends on: the manifest's own entry and the crashes.
CountsOK == manifest \in [base : Base, own : Nat] /\ manifests \in Nat /\ crashes \in 0..MaxCrashes

LEMMA CountsStep == TreesInv /\ CountsOK /\ [BuildNext]_buildVars => CountsOK'
<1> SUFFICES ASSUME TreesInv, CountsOK, [BuildNext]_buildVars PROVE CountsOK'
  OBVIOUS
<1>1. ASSUME UNCHANGED <<manifest, manifests, crashes>> PROVE CountsOK'
  BY <1>1 DEF CountsOK
<1>2. CASE UNCHANGED buildVars \/ ScriptCleans
  BY <1>1, <1>2 DEF ScriptCleans, buildVars, fsVars
<1>3. CASE \E w \in Rollers : RollMoves(w)
  BY <1>1, <1>3 DEF RollMoves, SnapshotOpens, SnapshotCloses, RollbackUnpacks, RollbackSaves, RollbackSaved,
                    RollbackRemoves, RollbackRestores, fsVars
<1>4. CASE \E w \in Builders : BuildMoves(w)
  BY <1>1, <1>4 DEF BuildMoves, BuildStep, BuildPackage, BuildManifest, BuildRaises, BuildReleases,
                    BuildReports, RebuildBegins, ScriptBegins, ScriptVerifies, fsVars
<1>5. CASE Crash
  <2>1. UNCHANGED <<manifest, manifests>> /\ crashes < MaxCrashes /\ crashes' = crashes + 1
    BY <1>5 DEF Crash, StorageStart
  <2> QED  BY <2>1, BuildAssumption DEF CountsOK
<1>6. CASE Elsewhere
  <2>1. CASE GenerateManifest
    <3>1. rootfs.base \in Base
      BY <2>1, WholeTrees DEF GenerateManifest, TreesInv, Trees, Fs, WholeTree
    <3>2. manifest' = [base |-> rootfs.base, own |-> manifests] /\ manifests' = manifests + 1
      BY <2>1 DEF GenerateManifest
    <3>3. crashes' = crashes
      BY <1>6 DEF Elsewhere
    <3> QED  BY <3>1, <3>2, <3>3 DEF CountsOK
  <2>2. CASE ~ GenerateManifest
    BY <1>1, <1>6, <2>2 DEF Elsewhere, WriteFile, fsVars
  <2> QED  BY <2>1, <2>2
<1> QED  BY <1>2, <1>3, <1>4, <1>5, <1>6, WhoMoves

\* Whatever is written, archived, rolled back and built: trees, jobs, versions and
\* counters keep their types, and every content is one that was written.
THEOREM BuildTypeCorrect == BuildSpec => []BuildTypeOK
<1>1. TreesInv /\ DistInv /\ CountsOK => BuildTypeOK
  <2> SUFFICES ASSUME TreesInv, DistInv, CountsOK PROVE BuildTypeOK
    OBVIOUS
  <2>1. FsTypeOK
    <3>1. rootfs.state \in {"absent", "torn", "mixed", "whole"}
      BY DEF TreesInv, Trees, Fs, Tree, WholeTree, Absent, Torn, Mixed
    <3>2. manifest \in [base : [Files -> 0..MaxWrites], own : Nat]
      BY DEF CountsOK, Base, Content
    <3> QED  BY <3>1, <3>2 DEF TreesInv, Trees, Fs, CountsOK, FsTypeOK, Content
  <2>2. \A w \in Builders : job[w].at \in {"idle", "taring"} \cup RollingAt \cup BuildingAt
    BY DEF TreesInv, Jobs, Job, RollingAt, BuildingAt
  <2> QED  BY <2>1, <2>2 DEF BuildTypeOK, DistInv, Dist, CountsOK, RollingAt, BuildingAt
<1>2. BuildInit => CountsOK
  <2>1. Shipped \in Base
    BY FilesAssumption, Contents DEF Shipped, Base, Files
  <2> QED  BY <2>1, BuildAssumption DEF BuildInit, FsInit, CountsOK
<1> QED  BY TreesInit, TreesStep, DistInit, DistStep, CountsStep, <1>1, <1>2, PTL DEF BuildSpec
=============================================================================
