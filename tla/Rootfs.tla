------------------------------- MODULE Rootfs -------------------------------
(***************************************************************************)
(* services/storage_service.py and tools/manifest.py: the files of the     *)
(* rootfs, its read-only partitions with the overlay over them, and the    *)
(* manifest of checksums by which drift is detected.                       *)
(*                                                                         *)
(* An image is the whole tree: the files proper and the files below        *)
(* overlay/. A file's content is a number, 0 where there is none.          *)
(***************************************************************************)
EXTENDS Naturals, FiniteSets, Sequences

CONSTANTS
  ReadOnly,      \* files of the partitions boot, system, etc and bin
  Writable,      \* files of the partitions that are writable; the manifest
                 \* is followed apart
  Tmp,           \* those of them in tmp/
  MaxWrites,     \* bound on the number of writes
  MaxManifests   \* bound on how often the manifest is made

Files == ReadOnly \cup Writable

ASSUME FilesAssumption ==
  /\ IsFiniteSet(Files) /\ "system/manifest.json" \notin Files
  /\ ReadOnly \cap Writable = {} /\ Tmp \subseteq Writable
  /\ MaxWrites \in Nat \ {0} /\ MaxManifests \in Nat

\* The trees that can be found on disk: none, one cut short, one that
\* was copied from a tree in motion, or a whole one.
Absent == [state |-> "absent"]
Torn == [state |-> "torn"]
Mixed == [state |-> "mixed"]
Whole(base, over) == [state |-> "whole", base |-> base, over |-> over]
IsWhole(image) == image.state = "whole"

VARIABLES
  rootfs,    \* the live tree
  writes,    \* the number of writes so far: the content of the next one
  latest,    \* history: what was last written to each file
  manifest,  \* what system/manifest.json records: the hashed files, and
             \* which manifest was on disk while they were hashed
  manifests  \* how often the manifest was written: its content on disk

fsVars == <<rootfs, writes, latest, manifest, manifests>>

NoFiles == [f \in Files |-> 0]
Shipped == [f \in Files |-> IF f \in Tmp THEN 0 ELSE 1]

FsTypeOK ==
  /\ rootfs.state \in {"absent", "torn", "mixed", "whole"}
  /\ writes \in 0..MaxWrites /\ latest \in [Files -> 0..MaxWrites]
  /\ manifest \in [base : [Files -> 0..MaxWrites], own : Nat]
  /\ manifests \in Nat

FsInit ==
  /\ rootfs = Whole(Shipped, NoFiles)
  /\ writes = 1 /\ latest = Shipped
  /\ manifest = [base |-> Shipped, own |-> 0] /\ manifests = 0

\* _clear_tmp()
TmpCleared(files) == [f \in Files |-> IF f \in Tmp THEN 0 ELSE files[f]]

\* StorageService.start(), when the system starts on a rootfs: the partitions
\* that are missing are made, tmp/ is cleared and layout.json, which belongs to
\* no partition and is not followed here, written.
StorageStart ==
  /\ IsWhole(rootfs)
  /\ rootfs' = [rootfs EXCEPT !.base = TmpCleared(@)]
  /\ latest' = TmpCleared(latest)
  /\ UNCHANGED <<writes, manifest, manifests>>

\* A fault: the partition's flag is not looked up.
EverythingInPlace(f) == FALSE

\* ensure_writable(): files of a read-only partition go to the overlay.
ToOverlay(f) == f \in ReadOnly

\* write_file() without force_overlay. It does not ask whether the service
\* is running.
WriteFile(f) ==
  /\ IsWhole(rootfs) /\ writes < MaxWrites
  /\ writes' = writes + 1
  /\ latest' = [latest EXCEPT ![f] = writes + 1]
  /\ rootfs' = IF ToOverlay(f) THEN [rootfs EXCEPT !.over[f] = writes + 1]
                               ELSE [rootfs EXCEPT !.base[f] = writes + 1]
  /\ UNCHANGED <<manifest, manifests>>

\* A fault: the overlay is read only where the file proper does not exist.
BaseFirst(image, f) == IF image.base[f] # 0 THEN image.base[f] ELSE image.over[f]

\* read_file(): the overlay first.
ReadFile(image, f) == IF image.over[f] # 0 THEN image.over[f] ELSE image.base[f]

\* build_manifest() and write_manifest() to system/manifest.json: every file
\* outside tmp/, overlay/ and mnt/ is hashed, an earlier manifest too, and
\* then the manifest is written over it.
GenerateManifest ==
  /\ IsWhole(rootfs) /\ manifests < MaxManifests
  /\ manifest' = [base |-> rootfs.base, own |-> manifests]
  /\ manifests' = manifests + 1
  /\ UNCHANGED <<rootfs, writes, latest>>

\* verify_manifest(): what is missing, changed or new.
ManifestDiffs ==
  {f \in Files \ Tmp : rootfs.base[f] # manifest.base[f]}
  \cup (IF manifest.own # manifests THEN {"system/manifest.json"} ELSE {})
=============================================================================
