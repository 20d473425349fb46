---------------------------- MODULE BuildService ----------------------------
(***************************************************************************)
(* services/build_service.py and build.py: snapshots and rollback of the   *)
(* live rootfs, and the build of dist/ from the sources, which the running *)
(* system does under a lock and the script, a process of its own, without. *)
(*                                                                         *)
(* Trees are copied and removed file by file, so that a crash or an        *)
(* exception leaves a torn tree behind; the process then starts again.     *)
(***************************************************************************)
EXTENDS Rootfs

CONSTANTS
  Workers,     \* threads of the running system that call the build service
  Rollers,     \* those of them that call snapshot() and rollback()
  Script,      \* the process that runs build.py
  None,        \* no worker
  Names,       \* names of snapshots: the second they are made in, and a label
  MaxEdits,    \* bound on the edits of the sources
  MaxCrashes   \* bound on the crashes

ASSUME BuildAssumption ==
  /\ Rollers \subseteq Workers
  /\ None \notin Workers \cup {Script} /\ Script \notin Workers
  /\ MaxEdits \in Nat \ {0} /\ MaxCrashes \in Nat

Builders == Workers \cup {Script}
Idle == [at |-> "idle"]

VARIABLES
  backup,    \* rootfs.pre_rollback
  tarball,   \* dist/snapshots: a tree, or cut short, by its name
  job,       \* what each worker is doing
  lock,      \* the build service's lock
  source,    \* the version of the source files
  packaged,  \* the version copied to dist/rootfs/usr/lib/aura, 0 if there is
             \* none or not all of it
  recorded,  \* the version that dist/manifest.json has the checksums of, 0 if
             \* there is none or it cannot be read
  before,    \* history: the tree that was live when the last rollback began
  crashes    \* how often the system has crashed

buildVars == <<fsVars, backup, tarball, job, lock, source, packaged, recorded,
               before, crashes>>
distVars == <<source, packaged, recorded>>

BuildTypeOK ==
  /\ FsTypeOK /\ lock \in Workers \cup {None}
  /\ \A w \in Builders :
       job[w].at \in {"idle", "taring", "unpacked", "saving", "saved", "restoring",
                     "package", "manifest", "verify", "done", "report"}
  /\ source \in 1..MaxEdits /\ packaged \in 0..source /\ recorded \in 0..source
  /\ crashes \in 0..MaxCrashes

BuildInit ==
  /\ FsInit
  /\ backup = Absent /\ tarball = [s \in Names |-> Absent]
  /\ job = [w \in Builders |-> Idle] /\ lock = None
  /\ source = 1 /\ packaged = 0 /\ recorded = 0
  /\ before = Absent /\ crashes = 0

Goes(w, at) == job' = [job EXCEPT ![w].at = at]
Ends(w) == job' = [job EXCEPT ![w] = Idle]

RollingBack == \E w \in Workers : job[w].at \in {"unpacked", "saving", "saved", "restoring"}
Building == \E w \in Builders : job[w].at \in {"package", "manifest", "verify"}

-----------------------------------------------------------------------------
\* The rest of the system writes files and the sources are edited. Nobody writes
\* to the rootfs while it is rolled back, and nobody edits the sources while
\* they are packaged: neither is kept out by the code.
Elsewhere ==
  \/ /\ ~ RollingBack
     /\ \/ \E f \in Files : WriteFile(f)
        \/ GenerateManifest
     /\ UNCHANGED <<backup, tarball, job, lock, distVars, before, crashes>>
  \/ /\ ~ Building /\ source < MaxEdits /\ source' = source + 1
     /\ UNCHANGED <<fsVars, backup, tarball, job, lock, packaged, recorded,
                    before, crashes>>

\* snapshot(): the archive is opened for writing, over one of the same second
\* and label.
SnapshotOpens(w, s) ==
  /\ job[w] = Idle
  /\ tarball' = [tarball EXCEPT ![s] = Torn]
  /\ job' = [job EXCEPT ![w] = [at |-> "taring", tree |-> rootfs, name |-> s]]
  /\ UNCHANGED <<fsVars, backup, lock, distVars, before, crashes>>

\* The tree is added, or an exception leaves the archive cut short. A tree
\* that changed meanwhile is archived as no tree that ever was; an archive
\* that somebody has removed is gone.
SnapshotCloses(w) ==
  /\ job[w].at = "taring"
  /\ \/ /\ rootfs # Absent
        /\ tarball' = [tarball EXCEPT ![job[w].name] =
             IF @ = Absent THEN Absent
             ELSE IF IsWhole(rootfs) /\ rootfs = job[w].tree THEN rootfs ELSE Mixed]
     \/ UNCHANGED tarball
  /\ Ends(w)
  /\ UNCHANGED <<fsVars, backup, lock, distVars, before, crashes>>

\* list_snapshots(), which lists those cut short as well.
Snapshots == {s \in Names : tarball[s] # Absent}

\* rollback(): the archive is unpacked beside the rootfs; one that is cut
\* short raises, before anything is touched.
RollbackUnpacks(w, s) ==
  /\ job[w] = Idle /\ s \in Snapshots /\ tarball[s] # Torn
  /\ job' = [job EXCEPT ![w] = [at |-> "unpacked", tree |-> tarball[s]]]
  /\ before' = rootfs
  /\ UNCHANGED <<fsVars, backup, tarball, lock, distVars, crashes>>

\* A fault: the old backup is not removed and the rootfs is not copied.
NoSafetyNet(w) ==
  /\ job[w].at = "unpacked" /\ Goes(w, "saved")
  /\ UNCHANGED <<fsVars, backup, tarball, lock, distVars, before, crashes>>

\* The last backup is removed and the copy of the rootfs begun. There is no
\* rootfs to copy after a crash at the wrong moment: the call then raises,
\* with the backup gone.
RollbackSaves(w) ==
  /\ job[w].at = "unpacked"
  /\ backup' = IF rootfs = Absent THEN Absent ELSE Torn
  /\ IF rootfs = Absent THEN Ends(w) ELSE Goes(w, "saving")
  /\ UNCHANGED <<fsVars, tarball, lock, distVars, before, crashes>>

RollbackSaved(w) ==
  /\ job[w].at = "saving"
  /\ \/ backup' = rootfs /\ Goes(w, "saved")
     \/ UNCHANGED backup /\ Ends(w)
  /\ UNCHANGED <<fsVars, tarball, lock, distVars, before, crashes>>

\* The rootfs is removed, and the unpacked tree copied in its place.
RollbackRemoves(w) ==
  /\ job[w].at = "saved"
  /\ rootfs' = Absent /\ Goes(w, "restoring")
  /\ UNCHANGED <<writes, latest, manifest, manifests, backup, tarball,
                 lock, distVars, before, crashes>>

RollbackRestores(w) ==
  /\ job[w].at = "restoring"
  /\ \/ /\ rootfs' = job[w].tree
        /\ latest' = IF IsWhole(rootfs') THEN [f \in Files |-> ReadFile(rootfs', f)] ELSE latest
     \/ rootfs' = Torn /\ UNCHANGED latest
  /\ Ends(w)
  /\ UNCHANGED <<writes, manifest, manifests, backup, tarball, lock,
                 distVars, before, crashes>>

-----------------------------------------------------------------------------
\* _do_rebuild(): refused while the lock is held, as a failure that changes
\* nothing.
TakesLock(w) == lock = None /\ lock' = w

\* rebuild_rootfs(), in the caller's thread or in one of its own.
RebuildBegins(w) ==
  /\ job[w] = Idle /\ TakesLock(w)
  /\ job' = [job EXCEPT ![w] = [at |-> "package", ok |-> TRUE]]
  /\ UNCHANGED <<fsVars, backup, tarball, distVars, before, crashes>>

\* build.py main()
ScriptBegins ==
  /\ job[Script] = Idle
  /\ job' = [job EXCEPT ![Script] = [at |-> "package", ok |-> TRUE]]
  /\ UNCHANGED <<fsVars, backup, tarball, lock, distVars, before, crashes>>

\* clean(), for --clean, before anything else: all of dist/ is removed, the
\* snapshots with it.
ScriptCleans ==
  /\ job[Script].at = "package" /\ (packaged # 0 \/ recorded # 0 \/ Snapshots # {})
  /\ tarball' = [s \in Names |-> Absent] /\ packaged' = 0 /\ recorded' = 0
  /\ UNCHANGED <<fsVars, backup, job, lock, source, before, crashes>>

\* package_source() and write_manifest(), or their likes in _do_rebuild():
\* every package is removed and copied again; the checksums are those of the
\* sources, not of the copies.
PackageSource == packaged' = source
WriteManifest == recorded' = source

\* A fault: a package that is in dist/ already is left as it is.
PackagesOnce(w) ==
  /\ job[w].at = "package" /\ Goes(w, "manifest")
  /\ packaged' = IF packaged = 0 THEN source ELSE packaged
  /\ UNCHANGED <<fsVars, backup, tarball, lock, source, recorded, before, crashes>>

\* Steps 1 to 3: the layout is made, the sources are packaged, and the scripts
\* that launch them are written anew.
BuildPackage(w) ==
  /\ job[w].at = "package" /\ Goes(w, "manifest")
  /\ PackageSource
  /\ UNCHANGED <<fsVars, backup, tarball, lock, source, recorded, before, crashes>>

\* Step 4.
BuildManifest(w) ==
  /\ job[w].at = "manifest"
  /\ Goes(w, IF w = Script THEN "verify" ELSE "done")
  /\ WriteManifest
  /\ UNCHANGED <<fsVars, backup, tarball, lock, source, packaged, before, crashes>>

\* verify_integrity(): there is a manifest, and no file that it lists has
\* changed since.
VerifyIntegrity == recorded # 0 /\ recorded = source

\* A build that ends in a step leaves what that has done so far: packages
\* removed and not copied, a manifest opened and not written.
CutOff(w) ==
  /\ packaged' \in {packaged} \cup (IF job[w].at = "package" THEN {0} ELSE {})
  /\ recorded' \in {recorded} \cup (IF job[w].at = "manifest" THEN {0} ELSE {})
  /\ UNCHANGED source

\* An exception in any of the steps.
BuildRaises(w) ==
  /\ job[w].at \in {"package", "manifest"} /\ CutOff(w)
  /\ job' = [job EXCEPT ![w] = IF w = Script THEN Idle ELSE [at |-> "done", ok |-> FALSE]]
  /\ UNCHANGED <<fsVars, backup, tarball, lock, before, crashes>>

\* verify_build(), at the end of build.py, and the script is over. The sources
\* are listed by their own names and were copied below rootfs/usr/lib/aura;
\* looked for in dist/ by those names they are all missing, so that the exit
\* status tells of a failure whatever was built.
ScriptVerifies ==
  /\ job[Script].at = "verify" /\ Ends(Script)
  /\ UNCHANGED <<fsVars, backup, tarball, lock, distVars, before, crashes>>

\* A fault: the lock is released only where the build succeeded.
ReleasesOnSuccess(w) ==
  /\ job[w].at = "done" /\ Goes(w, "report")
  /\ lock' = IF job[w].ok /\ lock = w THEN None ELSE lock
  /\ UNCHANGED <<fsVars, backup, tarball, distVars, before, crashes>>

\* finally: release
BuildReleases(w) ==
  /\ job[w].at = "done" /\ Goes(w, "report")
  /\ lock' = IF lock = w THEN None ELSE lock
  /\ UNCHANGED <<fsVars, backup, tarball, distVars, before, crashes>>

\* The result is kept, and BUILD_COMPLETE published, after the release.
BuildReports(w) ==
  /\ job[w].at = "report" /\ Ends(w)
  /\ UNCHANGED <<fsVars, backup, tarball, lock, distVars, before, crashes>>

\* The process dies; started again, it clears tmp/ of a rootfs that is whole.
\* The script is another process.
Crash ==
  /\ crashes < MaxCrashes /\ crashes' = crashes + 1
  /\ job' = [w \in Builders |-> IF w = Script THEN job[w] ELSE Idle]
  /\ \/ StorageStart
     \/ /\ ~ IsWhole(rootfs)
        /\ rootfs' \in IF \E w \in Workers : job[w].at = "restoring" THEN {Absent, Torn}
                                                                   ELSE {rootfs}
        /\ UNCHANGED <<writes, latest, manifest, manifests>>
  /\ lock' = None
  /\ IF lock = None THEN UNCHANGED distVars ELSE CutOff(lock)
  /\ UNCHANGED <<backup, tarball, before>>

BuildStep(w) ==
  \/ BuildPackage(w) \/ BuildManifest(w) \/ BuildRaises(w)
  \/ BuildReleases(w) \/ BuildReports(w)

BuildNext ==
  \/ Elsewhere \/ Crash
  \/ \E w \in Rollers :
       \/ \E s \in Names : SnapshotOpens(w, s) \/ RollbackUnpacks(w, s)
       \/ SnapshotCloses(w)
       \/ RollbackSaves(w) \/ RollbackSaved(w) \/ RollbackRemoves(w) \/ RollbackRestores(w)
  \/ \E w \in Workers : RebuildBegins(w)
  \/ ScriptBegins \/ ScriptCleans \/ ScriptVerifies
  \/ \E w \in Builders : BuildStep(w)

\* A worker that has begun to build goes on.
BuildSpec ==
  BuildInit /\ [][BuildNext]_buildVars /\ \A w \in Workers : WF_buildVars(BuildStep(w))

-----------------------------------------------------------------------------
\* What is read of a file is what was last written to it, whichever of the
\* two places it went to, or what the last rollback brought back:
\* storage_service.py:150-172.
ReadsBack == IsWhole(rootfs) => \A f \in Files : ReadFile(rootfs, f) = latest[f]

\* Files of the read-only partitions never drift from the manifest, whatever
\* is written at runtime and however often the tree is rolled back; only
\* verify's other findings are real: storage_service.py:128-142 with
\* manifest.py:145-190.
OnlyWritableDrifts ==
  IsWhole(rootfs) => ManifestDiffs \cap Files \subseteq Writable

\* The tree that a rollback replaces is whole on disk, live or as backup,
\* until the rollback is over and, if it does not end well, as long as the
\* rootfs is not whole again: build_service.py:239-253, "Back up current
\* rootfs as a safety net".
SafetyNet ==
  (RollingBack \/ ~ IsWhole(rootfs)) /\ IsWhole(before) => before \in {rootfs, backup}

\* When verify_integrity() finds the sources as the manifest has them and
\* nobody is building, the code in dist/ is that code or not all there, and
\* never an older version, although the script and the service build at the
\* same time, and fail or crash anywhere: build_service.py:95-139, 270-373.
VerifiedIsPackaged == VerifyIntegrity /\ ~ Building => packaged \in {0, source}

\* Every build that takes the lock gives it back, and a worker that is
\* building comes to an end: build_service.py:364-365.
BuildsEnd == \A w \in Workers : lock = w ~> lock # w
=============================================================================
