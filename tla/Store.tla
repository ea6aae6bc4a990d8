------------------------------- MODULE Store --------------------------------
(***************************************************************************)
(* The driver's credential store (core.c): the live copy in abk_fido_dev,  *)
(* the file /metadata/abk_fido_store.bin behind it, the lazy load on the   *)
(* first command after boot, the write-through after every change with its *)
(* deferred retry, restore_metadata / reload_store, the store_blob upload, *)
(* the control commands, and reboots and power losses between any two of   *)
(* these.  Every action is one critical section of abk_fido_dev.lock.      *)
(*                                                                         *)
(* A store's content is the set of its credentials, the global signature   *)
(* counter and whether it carries legacy client-PIN state; keys, names and *)
(* the AAGUID are not told apart.  store_generation, last_error and the    *)
(* trace only report and are left out.                                     *)
(***************************************************************************)
EXTENDS Naturals

CONSTANTS
  Creds,        \* credentials that can be registered
  Blobs,        \* contents the companion can upload through store_blob
  OldFiles,     \* files earlier driver versions may have left behind
  FaultKinds,   \* the I/O faults of the environment: a subset of FaultNames
  ABK_CONTROL,  \* CONFIG_ABK_CONTROL: the control commands are built in
  MaxCount,     \* bound: the signature counter
  MaxFaults     \* bound: faults in one behaviour

\* read: open, allocation or read fails although the file is good (-EACCES,
\* -ENOMEM); open: allocation or open fails before the file is touched;
\* write: the file is open and truncated, and the write fails or is short;
\* power: power is lost before the page cache is written back.
FaultNames == {"read", "open", "write", "power"}

\* upload: the store is replaced through store_blob; unloaded: a control
\* command writes a store that has not been loaded over the file.
MishapNames == FaultNames \cup {"upload", "unloaded"}

Content == [creds : SUBSET Creds, count : 0..MaxCount, pin : BOOLEAN]
Empty == [creds |-> {}, count |-> 0, pin |-> FALSE]
File == [kind : {"missing", "torn", "v1", "v2"}, data : Content]
Missing == [kind |-> "missing", data |-> Empty]
Torn == [kind |-> "torn", data |-> Empty]

ASSUME StoreAssumption ==
  /\ FaultKinds \subseteq FaultNames
  /\ Blobs \subseteq Content
  /\ OldFiles \subseteq File
  /\ \A f \in OldFiles : f.kind \notin {"v1", "v2"} => f.data = Empty
  /\ ABK_CONTROL \in BOOLEAN
  /\ MaxCount \in Nat /\ MaxFaults \in Nat

VARIABLES
  store,         \* abk_fido_dev.store
  store_loaded, store_dirty,
  file,          \* the store file as the page cache shows it
  flash,         \* what of it has reached the device
  faults,        \* faults so far
  mishaps,       \* history: kinds of faults, and other things that happened
                 \* and that a promise has to except
  saved,         \* history: credentials once written or found in the file,
                 \* and not wiped by an approved reset
  wiped,         \* history: credentials an approved reset has wiped
  signed,        \* history: the last counter each credential's host has seen
  uploaded       \* history: the live store is a store_blob upload

driverVars == <<store, store_loaded, store_dirty>>
diskVars == <<file, flash>>
historyVars == <<saved, wiped, signed, uploaded>>
faultVars == <<faults, mishaps>>
vars == <<driverVars, diskVars, faultVars, historyVars>>

Readable(f) == f.kind \in {"v1", "v2"}

\* The credentials that are there now, or that the next load will find.
Present == IF store_loaded THEN store.creds ELSE file.data.creds
PresentCount == IF store_loaded THEN store.count ELSE file.data.count

FlagsOK ==
  store_loaded \in BOOLEAN /\ store_dirty \in BOOLEAN /\ uploaded \in BOOLEAN

DataOK ==
  /\ store \in Content
  /\ file \in File /\ flash \in File
  /\ faults \in 0..MaxFaults /\ mishaps \subseteq MishapNames
  /\ saved \in SUBSET Creds /\ wiped \in SUBSET Creds
  /\ signed \in [Creds -> 0..MaxCount]

\* The type invariant.
TypeOK == FlagsOK /\ DataOK

Init ==
  /\ store = Empty /\ store_loaded = FALSE /\ store_dirty = FALSE
  /\ file \in OldFiles \cup {Missing} /\ flash = file
  /\ faults = 0 /\ mishaps = {}
  /\ saved = file.data.creds /\ wiped = {}
  /\ signed = [c \in Creds |-> file.data.count]
  /\ uploaded = FALSE

-----------------------------------------------------------------------------
(* Helpers                                                                  *)

Fault(kind) ==
  /\ kind \in FaultKinds /\ faults < MaxFaults
  /\ faults' = faults + 1 /\ mishaps' = mishaps \cup {kind}

\* abk_fido_finalize_restored_store_locked on the adopted content.
Adopt(content) ==
  /\ store' = [content EXCEPT !.pin = FALSE]
  /\ store_dirty' = content.pin

\* abk_fido_write_store_to_path_locked of content, with its early errors.
WriteDone(content) ==
  /\ file' = [kind |-> "v2", data |-> content]
  /\ UNCHANGED faults

\* Mutant: the file is truncated before everything that can fail early.
WriteNotOpenedTruncates == Fault("open") /\ file' = Torn

WriteNotOpened == Fault("open") /\ UNCHANGED file

WriteCutShort == Fault("write") /\ file' = Torn

NoteUnloaded ==
  mishaps' = mishaps \cup (IF store_loaded THEN {} ELSE {"unloaded"})

\* Mutant: a failed write clears the dirty flag like a successful one.
PersistForgets(content) ==
  /\ store_dirty' = FALSE
  /\ UNCHANGED flash
  /\ \/ WriteDone(content) /\ NoteUnloaded /\ saved' = saved \cup content.creds
     \/ (WriteNotOpened \/ WriteCutShort) /\ UNCHANGED saved

\* abk_fido_maybe_persist_locked of a dirty store: a failure keeps the flag,
\* is reported nowhere but in last_error, and the caller succeeds.
Persist(content) ==
  /\ UNCHANGED flash
  /\ \/ /\ WriteDone(content) /\ NoteUnloaded
        /\ store_dirty' = FALSE
        /\ saved' = saved \cup content.creds
     \/ /\ WriteNotOpened \/ WriteCutShort
        /\ store_dirty' = TRUE
        /\ UNCHANGED saved

-----------------------------------------------------------------------------
(* Load                                                                     *)

\* abk_fido_load_store_locked, called by every command that needs the store
\* and by a read of store_blob.
LoadFound ==
  /\ ~store_loaded /\ Readable(file)
  /\ store_loaded' = TRUE
  /\ Adopt(file.data)
  /\ UNCHANGED <<diskVars, faultVars, historyVars>>

\* Whatever the reason of the failure, a new store is initialised, and it is
\* dirty: the next persist writes it over the file.
LoadFails ==
  /\ ~store_loaded
  /\ IF Readable(file) THEN Fault("read") ELSE UNCHANGED faultVars
  /\ store_loaded' = TRUE
  /\ store' = Empty /\ store_dirty' = TRUE
  /\ UNCHANGED <<diskVars, historyVars>>

-----------------------------------------------------------------------------
(* Commands, once the gate has let them through                             *)

\* The end of abk_fido_make_credential_resp.  The authenticator data carries
\* the counter as it is.
MakeCredential(c) ==
  /\ store_loaded /\ c \notin store.creds
  /\ store' = [store EXCEPT !.creds = @ \cup {c}]
  /\ Persist(store')
  /\ wiped' = wiped \ {c}
  /\ signed' = [signed EXCEPT ![c] = store.count]
  /\ UNCHANGED <<store_loaded, uploaded>>

\* Mutant: an assertion does not save the counter it has shown.
AssertUnsaved(c) ==
  /\ store_loaded /\ c \in store.creds /\ store.count < MaxCount
  /\ store' = [store EXCEPT !.count = @ + 1]
  /\ signed' = [signed EXCEPT ![c] = store.count + 1]
  /\ UNCHANGED <<store_loaded, store_dirty, diskVars, faultVars, saved, wiped,
                 uploaded>>

\* abk_fido_encode_assertion_locked.
Assert(c) ==
  /\ store_loaded /\ c \in store.creds /\ store.count < MaxCount
  /\ store' = [store EXCEPT !.count = @ + 1]
  /\ Persist(store')
  /\ signed' = [signed EXCEPT ![c] = store.count + 1]
  /\ UNCHANGED <<store_loaded, wiped, uploaded>>

\* The same when signing or encoding fails after the counter has moved.
AssertFails ==
  /\ store_loaded /\ store.creds # {} /\ store.count < MaxCount
  /\ store' = [store EXCEPT !.count = @ + 1]
  /\ UNCHANGED <<store_loaded, store_dirty, diskVars, faultVars, historyVars>>

\* Mutant: the reset is only written when the store had been loaded.
ResetLoadedOnly ==
  /\ store' = Empty
  /\ wiped' = wiped \cup saved \cup store.creds
  /\ saved' = {}
  /\ signed' = [c \in Creds |-> 0]
  /\ store_dirty' = ~store_loaded
  /\ IF store_loaded THEN WriteDone(Empty) ELSE UNCHANGED <<file, faults>>
  /\ UNCHANGED <<store_loaded, uploaded, flash, mishaps>>

\* authenticatorReset in abk_fido_cbor_dispatch: it neither loads the store
\* nor marks it loaded.
Reset ==
  /\ store' = Empty
  /\ wiped' = wiped \cup saved \cup store.creds
  /\ saved' = {}
  /\ signed' = [c \in Creds |-> 0]
  /\ UNCHANGED <<store_loaded, uploaded, flash>>
  /\ \/ WriteDone(Empty) /\ store_dirty' = FALSE /\ UNCHANGED mishaps
     \/ (WriteNotOpened \/ WriteCutShort) /\ store_dirty' = TRUE

-----------------------------------------------------------------------------
(* sysfs and control commands                                               *)

\* abk_fido_restore_persisted_store_locked, behind restore_metadata,
\* reload_store and the control commands; a failure changes nothing.
RestoreMetadata ==
  /\ Readable(file)
  /\ Adopt(file.data)
  /\ store_loaded' = TRUE /\ uploaded' = FALSE
  /\ UNCHANGED <<diskVars, faultVars, saved, wiped, signed>>

\* abk_fido_store_blob_write when the last chunk arrives and validates.
StoreBlobWrite(blob) ==
  /\ Adopt(blob)
  /\ store_loaded' = TRUE /\ uploaded' = TRUE
  /\ saved' = saved \cap blob.creds
  /\ mishaps' = mishaps \cup {"upload"}
  /\ UNCHANGED <<diskVars, faults, wiped, signed>>

\* Control command "persist".
ControlPersist ==
  /\ ABK_CONTROL /\ store_dirty
  /\ Persist(store)
  /\ UNCHANGED <<store, store_loaded, wiped, signed, uploaded>>

\* Control command "pin_reset": writes the live store, loaded or not.
ControlPinReset ==
  /\ ABK_CONTROL
  /\ store' = [store EXCEPT !.pin = FALSE]
  /\ Persist(store')
  /\ UNCHANGED <<store_loaded, wiped, signed, uploaded>>

-----------------------------------------------------------------------------
(* The environment                                                          *)

\* The page cache is written back.
Writeback ==
  /\ file # flash /\ flash' = file
  /\ UNCHANGED <<driverVars, file, faultVars, historyVars>>

Boot ==
  /\ store' = Empty /\ store_loaded' = FALSE /\ store_dirty' = FALSE
  /\ uploaded' = FALSE
  /\ UNCHANGED <<saved, wiped, signed>>

\* An orderly reboot writes everything back first.
Reboot ==
  /\ flash' = file
  /\ Boot
  /\ UNCHANGED <<file, faultVars>>

\* The driver never syncs the file: a power loss can leave the old content,
\* the new one or a truncated file.
PowerLoss ==
  /\ file # flash
  /\ Fault("power")
  /\ file' \in {flash, file, Torn} /\ flash' = file'
  /\ Boot

Next ==
  \/ LoadFound \/ LoadFails
  \/ \E c \in Creds : MakeCredential(c) \/ Assert(c)
  \/ AssertFails \/ Reset
  \/ RestoreMetadata
  \/ \E blob \in Blobs : StoreBlobWrite(blob)
  \/ ControlPersist \/ ControlPinReset
  \/ Writeback \/ Reboot \/ PowerLoss

Spec == Init /\ [][Next]_vars

-----------------------------------------------------------------------------
(* Properties                                                               *)

\* Under every fault: a live store that is not dirty (and was not uploaded
\* through store_blob, which never marks it dirty) has its credentials in a
\* readable file.  What the deferred retry still owes is exactly the dirty
\* stores.
CleanMeansSaved ==
  store_loaded /\ ~store_dirty /\ ~uploaded
    => Readable(file) /\ file.data.creds = store.creds

\* A credential that has once been written to the file, or found in it, stays
\* available until an approved authenticatorReset, in the live store or in the
\* file the next load reads: whatever reboots, restores and uploads happen and
\* however many writes fail before the file is opened.
SavedSurvives ==
  mishaps \subseteq {"open", "upload"} => saved \subseteq Present

\* Such a credential is at least never lost for good: it is in the live store
\* or in the file.
SavedSomewhere == saved \subseteq store.creds \cup file.data.creds

\* A credential wiped by an approved authenticatorReset does not come back, as
\* long as nothing has gone wrong: whatever was or was not loaded when the
\* reset came, and whatever reboots, restores and registrations follow it.
ResetIsFinal == mishaps = {} => wiped \cap Present = {}

\* As long as nothing has gone wrong the signature counter is never behind what
\* a relying party has seen, so the next assertion of a credential shows a
\* higher one, across reboots, restores and failed signatures.
CounterNotBehind ==
  mishaps = {} => \A c \in Present : signed[c] <= PresentCount

-----------------------------------------------------------------------------
(* What the store promises                                                  *)

Durable == INSTANCE DurableStore WITH
  creds <- Present, seen <- signed, hurt <- mishaps # {}

\* Loads, deferred writes, retries, restores, reboots and the write-back of the
\* page cache cannot be told from nothing happening at all; the commands do
\* what DurableStore says, until something goes wrong.
DurableSpec == Durable!Spec

=============================================================================
