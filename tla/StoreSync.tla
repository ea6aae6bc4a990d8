------------------------------ MODULE StoreSync -----------------------------
(***************************************************************************)
(* The companion app's hands in the credential store: the synchronisation  *)
(* of MetadataSyncCoordinator.kt between the driver's live store, the file *)
(* and a snapshot of it in SQLite, and the edits of FidoStoreManager.kt.   *)
(* Both read one side, decide, and overwrite the other in separate root    *)
(* shell commands, while the driver keeps serving commands and writing the *)
(* same file.  One sync runs at a time; nothing orders it and an edit.     *)
(* The snapshot stands for both copies of the database; a write of the app *)
(* truncates the file first, and an empty file is all that Torn stands for *)
(* here.  What restarts the app restarts the driver.                       *)
(***************************************************************************)
EXTENDS Store, FiniteSets

\* A store has finitely many credentials: the app counts them.
ASSUME SyncAssumption == IsFiniteSet(Creds)

VARIABLES
  snapshot,      \* the blob in the SQLite mirror, Missing if none
  sync,          \* [at, k, read, blob]: where syncNow is, the driver's
                 \* credential count and the file as it has read them, the
                 \* blob it means to write; history calm: nothing else has
                 \* changed the store since, and no write of it has failed
  edit,          \* [at, blob, creds]: the same for an edit deleting creds
  raced          \* history: the driver or the other of the two changed the
                 \* store between a read and the write that follows from it

appVars == <<snapshot, sync, edit>>
syncVars == <<vars, appVars, raced>>

NoSync ==
  [at |-> "idle", k |-> 0, read |-> Missing, blob |-> Missing, calm |-> TRUE]

\* A sync that has ended, well or with an error.
Ended(at) == [NoSync EXCEPT !.at = at]
NoEdit == [at |-> "idle", blob |-> Missing, creds |-> {}]

V2(content) == [kind |-> "v2", data |-> content]
Count(f) == IF Readable(f) THEN Cardinality(f.data.creds) ELSE 0
KernelCount == Cardinality(store.creds)      \* credential_count

Holding(at) == at \in {"write", "fill", "restore"}
Quiet == sync.at \in {"idle", "done"} /\ edit.at = "idle"

\* The type invariant.
SyncTypeOK ==
  /\ TypeOK
  /\ snapshot \in File
  /\ sync \in [at : {"idle", "count", "blob", "drain", "write", "fill",
                     "restore", "done"},
               k : 0..Cardinality(Creds), read : File, blob : File,
               calm : BOOLEAN]
  /\ edit \in [at : {"idle", "write", "fill", "restore"}, blob : File,
               creds : SUBSET Creds]
  /\ raced \in BOOLEAN

SyncInit ==
  /\ Init
  /\ snapshot = Missing /\ sync = NoSync /\ edit = NoEdit
  /\ raced = FALSE

-----------------------------------------------------------------------------
(* A write of the app, in two steps: a shell redirection.                  *)

Truncate == file' = Torn /\ UNCHANGED flash
Fill(f) == file' = f /\ UNCHANGED flash

-----------------------------------------------------------------------------
(* syncNow.                                                                *)

\* ensureEmptyFileIfMissing, then the count the driver shows: of the live
\* store, loaded or not.
SyncStart ==
  /\ sync.at \in {"idle", "done"}
  /\ file' = IF file = Missing THEN Torn ELSE file
  /\ sync' = [NoSync EXCEPT !.at = "count"]
  /\ UNCHANGED <<driverVars, flash, faultVars, historyVars, snapshot, edit,
                 raced>>

SyncReadCount ==
  /\ sync.at = "count"
  /\ sync' = [sync EXCEPT !.at = "blob", !.k = KernelCount]
  /\ UNCHANGED <<vars, snapshot, edit, raced>>

\* Mutant: the driver is only drained into an empty file.
ShouldDrainEmpty(k, p) == k > 0 /\ p = 0

ShouldDrain(k, p) == k > p

ShouldRestore(k, p) == k = 0 \/ (p > 0 /\ k < p)

\* restoreKernelFromBlob, its first step to come.
Restoring(f, blob) ==
  [sync EXCEPT !.at = "write", !.read = f, !.blob = blob]

\* Mutant: the snapshot is preferred to the file.
AfterReadSnapshot(f) ==
  LET blob == IF Readable(snapshot) THEN snapshot ELSE f
  IN /\ sync' = IF Readable(blob) /\ ShouldRestore(sync.k, Count(blob))
                THEN Restoring(f, blob) ELSE Ended("done")
     /\ snapshot' = blob

\* The two main branches, for file content f: with a blob in the file the
\* snapshot follows it, and the driver is restored from it if it has less;
\* without one an empty driver is restored from the snapshot, and a driver
\* that has credentials ends the sync with an error.
AfterRead(f) ==
  \/ /\ Readable(f)
     /\ snapshot' = f
     /\ sync' = IF ShouldRestore(sync.k, Count(f)) THEN Restoring(f, f)
                ELSE Ended("done")
  \/ /\ ~Readable(f)
     /\ UNCHANGED snapshot
     /\ sync' = IF ~Readable(snapshot) THEN Ended("done")
                ELSE IF sync.k > 0 THEN Ended("idle")
                ELSE Restoring(f, snapshot)

\* readPersistedBlob.
SyncReadBlob ==
  /\ sync.at = "blob"
  /\ \/ /\ ShouldDrain(sync.k, Count(file))
        /\ sync' = [sync EXCEPT !.at = "drain", !.read = file]
        /\ UNCHANGED snapshot
     \/ ~ShouldDrain(sync.k, Count(file)) /\ AfterRead(file)
  /\ UNCHANGED <<vars, edit, raced>>

Recoverable == store_loaded /\ KernelCount = sync.k

\* readStoreBlob: the live store is written to the file if it still has as
\* many credentials; else the sync goes on with the file as it was.
SyncReadStoreBlob ==
  /\ sync.at = "drain"
  /\ \/ /\ Recoverable
        /\ sync' = [sync EXCEPT !.at = "write", !.blob = V2(store)]
        /\ UNCHANGED snapshot
     \/ ~Recoverable /\ AfterRead(sync.read)
  /\ UNCHANGED <<vars, edit, raced>>

Draining == ShouldDrain(sync.k, Count(sync.read))

\* writeBlobToPersistence.
SyncWrite ==
  /\ sync.at = "write" /\ Truncate
  /\ sync' = [sync EXCEPT !.at = "fill"]
  /\ raced' = (raced \/ Holding(edit.at))
  /\ UNCHANGED <<driverVars, faultVars, historyVars, snapshot, edit>>

\* The write is refused: a restore fails, a drain goes on with the file as it
\* was, to an end that counts as a success.
SyncWriteFails ==
  /\ sync.at = "write" /\ Fault("open")
  /\ sync' = IF Draining /\ (Readable(sync.read) \/ ~Readable(snapshot))
             THEN [Ended("done") EXCEPT !.calm = FALSE] ELSE Ended("idle")
  /\ snapshot' = IF Draining /\ Readable(sync.read) THEN sync.read
                 ELSE snapshot
  /\ UNCHANGED <<driverVars, diskVars, historyVars, edit, raced>>

\* After a drain the driver has nothing to restore.
SyncFill ==
  /\ sync.at = "fill" /\ Fill(sync.blob)
  /\ saved' = saved \cup sync.blob.data.creds
  /\ sync' = IF Draining THEN Ended("done")
             ELSE [NoSync EXCEPT !.at = "restore", !.calm = sync.calm]
  /\ snapshot' = IF Draining THEN sync.blob ELSE snapshot
  /\ raced' = (raced \/ Holding(edit.at))
  /\ UNCHANGED <<driverVars, faultVars, wiped, signed, uploaded, edit>>

\* restore_metadata; the wait for the generation only decides what is shown.
SyncRestore ==
  /\ sync.at = "restore"
  /\ RestoreMetadata
  /\ sync' = Ended("done")
  /\ raced' = (raced \/ Holding(edit.at))
  /\ UNCHANGED <<snapshot, edit>>

\* ... which fails when the file has become unreadable meanwhile.
SyncRestoreFails ==
  /\ sync.at = "restore" /\ ~Readable(file)
  /\ sync' = Ended("idle")
  /\ UNCHANGED <<vars, snapshot, edit, raced>>

-----------------------------------------------------------------------------
(* FidoStoreManager: delete credential c.  A rename or an import differs in *)
(* what it changes, not in how.                                             *)

\* Something besides the sync changes the store.
Disturbed ==
  sync' = IF sync.at \in {"idle", "done"} THEN NoSync
          ELSE [sync EXCEPT !.calm = FALSE]

\* read: the file, or the live store when the file cannot be read.
EditRead(c) ==
  /\ edit.at = "idle"
  /\ Readable(file) \/ store_loaded
  /\ LET old == IF Readable(file) THEN file ELSE V2(store)
     IN /\ c \in old.data.creds
        /\ edit' = [at |-> "write", creds |-> {c},
                    blob |-> [old EXCEPT !.data.creds = @ \ {c}]]
  /\ UNCHANGED <<vars, snapshot, sync, raced>>

\* commit, its write of the file ...
EditWrite ==
  /\ edit.at = "write" /\ Truncate
  /\ edit' = [edit EXCEPT !.at = "fill"]
  /\ raced' = (raced \/ Holding(sync.at))
  /\ Disturbed
  /\ UNCHANGED <<driverVars, faultVars, historyVars, snapshot>>

EditFill ==
  /\ edit.at = "fill" /\ Fill(edit.blob)
  /\ saved' = saved \ edit.creds /\ wiped' = wiped \cup edit.creds
  /\ edit' = [NoEdit EXCEPT !.at = "restore"]
  /\ raced' = (raced \/ Holding(sync.at))
  /\ Disturbed
  /\ UNCHANGED <<driverVars, faultVars, signed, uploaded, snapshot>>

\* ... and its restore_metadata.
EditRestore ==
  /\ edit.at = "restore"
  /\ RestoreMetadata
  /\ edit' = NoEdit
  /\ raced' = (raced \/ Holding(sync.at))
  /\ Disturbed
  /\ UNCHANGED snapshot

EditRestoreFails ==
  /\ edit.at = "restore" /\ ~Readable(file)
  /\ edit' = NoEdit
  /\ UNCHANGED <<vars, snapshot, sync, raced>>

\* The file cannot be written: the edit goes through store_blob, and the
\* file keeps what it had.
EditViaBlob ==
  /\ edit.at = "write" /\ "open" \in FaultKinds
  /\ StoreBlobWrite(edit.blob.data)
  /\ edit' = NoEdit
  /\ raced' = (raced \/ Holding(sync.at))
  /\ Disturbed
  /\ UNCHANGED snapshot

-----------------------------------------------------------------------------
\* A command served by the driver.
Command ==
  \/ LoadFound \/ LoadFails
  \/ \E c \in Creds : MakeCredential(c) \/ Assert(c)
  \/ AssertFails \/ Reset

Driver ==
  /\ Command
  /\ raced' = (raced \/ Holding(sync.at) \/ Holding(edit.at))
  /\ Disturbed
  /\ UNCHANGED <<snapshot, edit>>

\* A reboot ends the app; a write it was in the middle of stays unfinished.
Restart ==
  /\ Reboot
  /\ sync' = NoSync /\ edit' = NoEdit
  /\ raced' = (raced \/ Holding(sync.at) \/ Holding(edit.at))
  /\ UNCHANGED snapshot

SyncNext ==
  \/ Driver \/ Restart
  \/ SyncStart \/ SyncReadCount \/ SyncReadBlob \/ SyncReadStoreBlob
  \/ SyncWrite \/ SyncWriteFails \/ SyncFill \/ SyncRestore
  \/ SyncRestoreFails
  \/ \E c \in Creds : EditRead(c)
  \/ EditWrite \/ EditFill \/ EditRestore \/ EditRestoreFails \/ EditViaBlob

SyncSpec == SyncInit /\ [][SyncNext]_syncVars

-----------------------------------------------------------------------------
(* Properties                                                              *)

\* Syncs and edits, in any order with commands and reboots, lose no saved
\* credential, bring none back that was deleted or reset, and never turn the
\* signature counter back, unless a command, a reboot or the other of the two
\* falls between a read of the store and the write that follows from it.
SyncHarmless ==
  mishaps = {} /\ ~raced /\ Quiet =>
    /\ saved \subseteq Present /\ wiped \cap Present = {}
    /\ \A c \in Present : signed[c] <= PresentCount

\* When a sync ends well, and nothing else has touched the store since it
\* started, the list the app shows (the file) and the number it shows (the
\* driver's count) agree, whatever writes of the driver and of the app have
\* failed and whatever edits went around the file before.
SyncAgrees ==
  [][sync'.at = "done" /\ sync.at # "done" /\ sync.calm /\ sync'.calm
       => Count(file') = KernelCount']_syncVars
=============================================================================
