----------------------------- MODULE StoreProofs ----------------------------
(***************************************************************************)
(* Proofs about the credential store, for every set of credentials, files  *)
(* and faults, and about the app's syncs and edits of it, for every finite *)
(* set of credentials.                                                     *)
(***************************************************************************)
EXTENDS StoreSync, FiniteSetTheorems, TLAPS

(* Type correctness.                                                        *)

\* The constant contents and files are contents and files, and the fields a
\* handler assigns keep a content a content.
LEMMA ContentTypes ==
  /\ Empty \in Content /\ Torn \in File /\ Missing \in File
  /\ \A d \in Content : [kind |-> "v2", data |-> d] \in File
  /\ \A f \in File : f.data \in Content
  /\ \A d \in Content : [d EXCEPT !.pin = FALSE] \in Content
  /\ \A d \in Content : d.creds \in SUBSET Creds /\ d.count \in 0..MaxCount
  /\ \A d \in Content : d.pin \in BOOLEAN
  /\ \A d \in Content, c \in Creds :
       [d EXCEPT !.creds = @ \cup {c}] \in Content
  /\ \A d \in Content :
       d.count < MaxCount => [d EXCEPT !.count = @ + 1] \in Content
<1>1. Empty \in Content
  BY StoreAssumption DEF Empty, Content
<1>2. Torn \in File /\ Missing \in File
  BY <1>1 DEF Torn, Missing, File
<1>3. \A d \in Content : [kind |-> "v2", data |-> d] \in File
  BY DEF File
<1>4. \A f \in File : f.data \in Content
  BY DEF File
<1>5. \A d \in Content : [d EXCEPT !.pin = FALSE] \in Content
  BY DEF Content
<1>6. \A d \in Content : d.creds \in SUBSET Creds /\ d.count \in 0..MaxCount
  BY DEF Content
<1>7. \A d \in Content : d.pin \in BOOLEAN
  BY DEF Content
<1>8. \A d \in Content, c \in Creds :
        [d EXCEPT !.creds = @ \cup {c}] \in Content
  BY DEF Content
<1>9. \A d \in Content :
        d.count < MaxCount => [d EXCEPT !.count = @ + 1] \in Content
  BY StoreAssumption DEF Content
<1>10. QED
  BY <1>1, <1>2, <1>3, <1>4, <1>5, <1>6, <1>7, <1>8, <1>9

LEMMA InitTypes == Init => TypeOK
<1> USE StoreAssumption
<1>1. Init => FlagsOK
  BY DEF Init, FlagsOK
<1>2. Init => DataOK
  BY ContentTypes DEF Init, DataOK
<1>3. QED
  BY <1>1, <1>2 DEF TypeOK

LEMMA TypeStep == TypeOK /\ [Next]_vars => TypeOK'
<1> USE StoreAssumption
<1> SUFFICES ASSUME FlagsOK, DataOK, [Next]_vars PROVE TypeOK'
  BY DEF TypeOK
<1> USE DEF driverVars, diskVars, faultVars, historyVars, MishapNames,
    FaultNames
<1>1. CASE LoadFound
  <2> file.data.pin \in BOOLEAN
    BY ContentTypes DEF DataOK
  <2>1. FlagsOK'
    BY <1>1, Zenon DEF FlagsOK, LoadFound, Adopt
  <2>2. DataOK'
    BY <1>1, ContentTypes DEF DataOK, LoadFound, Adopt, Readable
  <2>3. QED
    BY <2>1, <2>2 DEF TypeOK
<1>2. CASE LoadFails
  <2>1. FlagsOK'
    BY <1>2 DEF FlagsOK, LoadFails, Fault, Readable
  <2>2. DataOK'
    BY <1>2, ContentTypes DEF DataOK, LoadFails, Fault, Readable
  <2>3. QED
    BY <2>1, <2>2 DEF TypeOK
<1>3. ASSUME NEW c \in Creds, MakeCredential(c) PROVE TypeOK'
  <2>1. FlagsOK'
    BY <1>3 DEF FlagsOK, MakeCredential, Persist, WriteDone, NoteUnloaded,
       WriteNotOpened, WriteCutShort, Fault
  <2>2. DataOK'
    BY <1>3, ContentTypes DEF DataOK, MakeCredential, Persist, WriteDone,
       NoteUnloaded, WriteNotOpened, WriteCutShort, Fault
  <2>3. QED
    BY <2>1, <2>2 DEF TypeOK
<1>4. ASSUME NEW c \in Creds, Assert(c) PROVE TypeOK'
  <2>1. FlagsOK'
    BY <1>4 DEF FlagsOK, Assert, Persist, WriteDone, NoteUnloaded,
       WriteNotOpened, WriteCutShort, Fault
  <2>2. DataOK'
    BY <1>4, ContentTypes DEF DataOK, Assert, Persist, WriteDone,
       NoteUnloaded, WriteNotOpened, WriteCutShort, Fault
  <2>3. QED
    BY <2>1, <2>2 DEF TypeOK
<1>5. CASE AssertFails
  <2>1. FlagsOK'
    BY <1>5 DEF FlagsOK, AssertFails
  <2>2. DataOK'
    BY <1>5, ContentTypes DEF DataOK, AssertFails
  <2>3. QED
    BY <2>1, <2>2 DEF TypeOK
<1>6. CASE Reset
  <2>1. FlagsOK'
    BY <1>6 DEF FlagsOK, Reset, WriteDone, WriteNotOpened, WriteCutShort,
       Fault
  <2>2. DataOK'
    BY <1>6, ContentTypes DEF DataOK, Reset, WriteDone, WriteNotOpened,
       WriteCutShort, Fault
  <2>3. QED
    BY <2>1, <2>2 DEF TypeOK
<1>7. CASE RestoreMetadata
  <2> file.data.pin \in BOOLEAN
    BY ContentTypes DEF DataOK
  <2>1. FlagsOK'
    BY <1>7, Zenon DEF FlagsOK, RestoreMetadata, Adopt
  <2>2. DataOK'
    BY <1>7, ContentTypes DEF DataOK, RestoreMetadata, Adopt, Readable
  <2>3. QED
    BY <2>1, <2>2 DEF TypeOK
<1>8. ASSUME NEW blob \in Blobs, StoreBlobWrite(blob) PROVE TypeOK'
  <2> blob.pin \in BOOLEAN
    BY ContentTypes DEF DataOK
  <2>1. FlagsOK'
    BY <1>8, Zenon DEF FlagsOK, StoreBlobWrite, Adopt
  <2>2. DataOK'
    BY <1>8, ContentTypes DEF DataOK, StoreBlobWrite, Adopt
  <2>3. QED
    BY <2>1, <2>2 DEF TypeOK
<1>9. CASE ControlPersist
  <2>1. FlagsOK'
    BY <1>9 DEF FlagsOK, ControlPersist, Persist, WriteDone, NoteUnloaded,
       WriteNotOpened, WriteCutShort, Fault
  <2>2. DataOK'
    BY <1>9, ContentTypes DEF DataOK, ControlPersist, Persist, WriteDone,
       NoteUnloaded, WriteNotOpened, WriteCutShort, Fault
  <2>3. QED
    BY <2>1, <2>2 DEF TypeOK
<1>10. CASE ControlPinReset
  <2>1. FlagsOK'
    BY <1>10 DEF FlagsOK, ControlPinReset, Persist, WriteDone, NoteUnloaded,
       WriteNotOpened, WriteCutShort, Fault
  <2>2. DataOK'
    BY <1>10, ContentTypes DEF DataOK, ControlPinReset, Persist, WriteDone,
       NoteUnloaded, WriteNotOpened, WriteCutShort, Fault
  <2>3. QED
    BY <2>1, <2>2 DEF TypeOK
<1>11. CASE Writeback
  <2>1. FlagsOK'
    BY <1>11 DEF FlagsOK, Writeback
  <2>2. DataOK'
    BY <1>11, ContentTypes DEF DataOK, Writeback
  <2>3. QED
    BY <2>1, <2>2 DEF TypeOK
<1>12. CASE Reboot
  <2>1. FlagsOK'
    BY <1>12 DEF FlagsOK, Reboot, Boot
  <2>2. DataOK'
    BY <1>12, ContentTypes DEF DataOK, Reboot, Boot
  <2>3. QED
    BY <2>1, <2>2 DEF TypeOK
<1>13. CASE PowerLoss
  <2>1. FlagsOK'
    BY <1>13 DEF FlagsOK, PowerLoss, Boot, Fault
  <2>2. DataOK'
    BY <1>13, ContentTypes DEF DataOK, PowerLoss, Boot, Fault
  <2>3. QED
    BY <2>1, <2>2 DEF TypeOK
<1>14. CASE UNCHANGED vars
  BY <1>14 DEF vars, TypeOK, FlagsOK, DataOK
<1>15. QED
  BY <1>1, <1>2, <1>3, <1>4, <1>5, <1>6, <1>7, <1>8, <1>9, <1>10, <1>11,
     <1>12, <1>13, <1>14 DEF Next

\* The live store, the file, the device and the history keep their types.
THEOREM TypeCorrect == Spec => []TypeOK
BY InitTypes, TypeStep, PTL DEF Spec

-----------------------------------------------------------------------------
(* What the dirty flag promises.                                            *)

\* Whatever faults happen and whatever commands are used, a loaded store that
\* is not dirty and was not uploaded has its credentials in a readable file.
THEOREM CleanStoreIsSaved == Spec => []CleanMeansSaved
<1> USE StoreAssumption DEF Content, File, Empty, Torn, Missing
<1>1. Init => CleanMeansSaved
  BY DEF Init, CleanMeansSaved
<1>2. TypeOK /\ CleanMeansSaved /\ [Next]_vars => CleanMeansSaved'
  <2> SUFFICES ASSUME TypeOK, CleanMeansSaved, [Next]_vars
               PROVE CleanMeansSaved'
    OBVIOUS
  <2> USE DEF TypeOK, FlagsOK, DataOK, CleanMeansSaved, Readable, driverVars,
      diskVars,
              faultVars, historyVars
  <2>1. CASE LoadFound
    BY <2>1 DEF LoadFound, Adopt, Readable
  <2>2. CASE LoadFails
    BY <2>2 DEF LoadFails, Fault, Readable
  <2>3. ASSUME NEW c \in Creds, MakeCredential(c) PROVE CleanMeansSaved'
    BY <2>3 DEF MakeCredential, Persist, WriteDone, NoteUnloaded,
       WriteNotOpened, WriteCutShort, Fault
  <2>4. ASSUME NEW c \in Creds, Assert(c) PROVE CleanMeansSaved'
    BY <2>4 DEF Assert, Persist, WriteDone, NoteUnloaded, WriteNotOpened,
       WriteCutShort, Fault
  <2>5. CASE AssertFails
    BY <2>5 DEF AssertFails
  <2>6. CASE Reset
    BY <2>6 DEF Reset, WriteDone, WriteNotOpened, WriteCutShort, Fault
  <2>7. CASE RestoreMetadata
    BY <2>7 DEF RestoreMetadata, Adopt, Readable
  <2>8. ASSUME NEW blob \in Blobs, StoreBlobWrite(blob) PROVE CleanMeansSaved'
    BY <2>8 DEF StoreBlobWrite, Adopt
  <2>9. CASE ControlPersist
    BY <2>9 DEF ControlPersist, Persist, WriteDone, NoteUnloaded,
       WriteNotOpened, WriteCutShort, Fault
  <2>10. CASE ControlPinReset
    BY <2>10 DEF ControlPinReset, Persist, WriteDone, NoteUnloaded,
       WriteNotOpened, WriteCutShort, Fault
  <2>11. CASE Writeback
    BY <2>11 DEF Writeback
  <2>12. CASE Reboot
    BY <2>12 DEF Reboot, Boot
  <2>13. CASE PowerLoss
    BY <2>13 DEF PowerLoss, Boot, Fault
  <2>14. CASE UNCHANGED vars
    BY <2>14 DEF vars
  <2>15. QED
    BY <2>1, <2>2, <2>3, <2>4, <2>5, <2>6, <2>7, <2>8, <2>9, <2>10, <2>11,
       <2>12, <2>13, <2>14 DEF Next
<1>3. QED
  BY <1>1, <1>2, TypeCorrect, PTL DEF Spec

-----------------------------------------------------------------------------
(* What survives, as long as writes only fail before the file is touched.   *)

\* The file holds what has been saved, and a file with credentials can be
\* read.
FileInv ==
  mishaps \subseteq {"open", "upload"} =>
    /\ saved \subseteq file.data.creds
    /\ file.data.creds # {} => Readable(file)

SavedInv == SavedSurvives /\ FileInv

LEMMA InitSaved == Init => SavedInv
BY StoreAssumption
   DEF Content, File, Missing, Empty, Init, SavedInv, SavedSurvives, FileInv,
       Present, Readable

LEMMA SavedStep == TypeOK /\ SavedInv /\ [Next]_vars => SavedInv'
<1> USE StoreAssumption DEF Content, File, Empty, Torn, Missing
<1> SUFFICES ASSUME TypeOK, SavedInv, [Next]_vars PROVE SavedInv'
  OBVIOUS
<1> USE DEF TypeOK, FlagsOK, DataOK, SavedInv, SavedSurvives, FileInv,
    Present, Readable,
            driverVars, diskVars, faultVars, historyVars
<1>1. CASE LoadFound
  BY <1>1 DEF LoadFound, Adopt, Readable
<1>2. CASE LoadFails
  BY <1>2 DEF LoadFails, Fault, Readable
<1>3. ASSUME NEW c \in Creds, MakeCredential(c) PROVE SavedInv'
  BY <1>3 DEF MakeCredential, Persist, WriteDone, NoteUnloaded,
     WriteNotOpened, WriteCutShort, Fault
<1>4. ASSUME NEW c \in Creds, Assert(c) PROVE SavedInv'
  BY <1>4 DEF Assert, Persist, WriteDone, NoteUnloaded, WriteNotOpened,
     WriteCutShort, Fault
<1>5. CASE AssertFails
  BY <1>5 DEF AssertFails
<1>6. CASE Reset
  BY <1>6 DEF Reset, WriteDone, WriteNotOpened, WriteCutShort, Fault
<1>7. CASE RestoreMetadata
  BY <1>7 DEF RestoreMetadata, Adopt, Readable
<1>8. ASSUME NEW blob \in Blobs, StoreBlobWrite(blob) PROVE SavedInv'
  BY <1>8 DEF StoreBlobWrite, Adopt
<1>9. CASE ControlPersist
  BY <1>9 DEF ControlPersist, Persist, WriteDone, NoteUnloaded,
     WriteNotOpened, WriteCutShort, Fault
<1>10. CASE ControlPinReset
  BY <1>10 DEF ControlPinReset, Persist, WriteDone, NoteUnloaded,
     WriteNotOpened, WriteCutShort, Fault
<1>11. CASE Writeback
  BY <1>11 DEF Writeback
<1>12. CASE Reboot
  BY <1>12 DEF Reboot, Boot
<1>13. CASE PowerLoss
  BY <1>13 DEF PowerLoss, Boot, Fault
<1>14. CASE UNCHANGED vars
  BY <1>14 DEF vars
<1>15. QED
  BY <1>1, <1>2, <1>3, <1>4, <1>5, <1>6, <1>7, <1>8, <1>9, <1>10, <1>11,
     <1>12, <1>13, <1>14 DEF Next

\* A saved credential stays available until an approved reset.
THEOREM SavedCredentialSurvives == Spec => []SavedSurvives
<1>1. SavedInv => SavedSurvives
  BY DEF SavedInv
<1>2. QED
  BY <1>1, InitSaved, SavedStep, TypeCorrect, PTL DEF Spec

-----------------------------------------------------------------------------
(* What holds as long as nothing has gone wrong.                            *)

\* The file agrees with a loaded store on the credentials, is readable or
\* empty, is not behind what relying parties have seen, and holds nothing
\* that was wiped; the live counter may be ahead of it by failed signatures.
SoundFile ==
  /\ Readable(file) \/ file.data = Empty
  /\ \A c \in file.data.creds : signed[c] <= file.data.count
  /\ wiped \cap file.data.creds = {}

SoundLive ==
  store_loaded =>
    store.creds = file.data.creds /\ file.data.count <= store.count

SoundInv == mishaps = {} => SoundFile /\ SoundLive

LEMMA InitSound == Init => SoundInv
<1> USE StoreAssumption DEF Content, File, Empty, Torn, Missing
<1> SUFFICES ASSUME Init PROVE SoundFile /\ SoundLive
  BY DEF SoundInv
<1>0. file \in OldFiles \/ file = Missing
  BY DEF Init
<1>1. file \in File /\ (Readable(file) \/ file.data = Empty)
  <2>1. CASE file = Missing
    BY <2>1, ContentTypes DEF Missing
  <2>2. CASE file \in OldFiles
    BY <2>2 DEF Readable
  <2>3. QED
    BY <1>0, <2>1, <2>2
<1>2. \A c \in file.data.creds : signed[c] <= file.data.count
  <2>1. file.data.creds \subseteq Creds /\ file.data.count \in Nat
    BY <1>1
  <2>2. \A c \in Creds : signed[c] = file.data.count
    BY Zenon DEF Init
  <2>3. \A n \in Nat : n <= n
    OBVIOUS
  <2>4. QED
    BY <2>1, <2>2, <2>3, Zenon
<1>3. QED
  BY <1>1, <1>2 DEF Init, SoundFile, SoundLive

LEMMA SoundStep == TypeOK /\ SoundInv /\ [Next]_vars => SoundInv'
<1> USE StoreAssumption DEF Content, File, Empty, Torn, Missing
<1> SUFFICES ASSUME TypeOK, SoundInv, [Next]_vars PROVE SoundInv'
  OBVIOUS
<1> USE DEF TypeOK, FlagsOK, DataOK, SoundInv, SoundFile, SoundLive,
    Readable,
            driverVars, diskVars, faultVars, historyVars
<1>1. CASE LoadFound
  BY <1>1 DEF LoadFound, Adopt
<1>2. CASE LoadFails
  BY <1>2 DEF LoadFails, Fault
<1>3. ASSUME NEW c \in Creds, MakeCredential(c) PROVE SoundInv'
  BY <1>3 DEF MakeCredential, Persist, WriteDone, NoteUnloaded,
     WriteNotOpened, WriteCutShort, Fault
<1>4. ASSUME NEW c \in Creds, Assert(c) PROVE SoundInv'
  BY <1>4 DEF Assert, Persist, WriteDone, NoteUnloaded, WriteNotOpened,
     WriteCutShort, Fault
<1>5. CASE AssertFails
  BY <1>5 DEF AssertFails
<1>6. CASE Reset
  BY <1>6 DEF Reset, WriteDone, WriteNotOpened, WriteCutShort, Fault
<1>7. CASE RestoreMetadata
  BY <1>7 DEF RestoreMetadata, Adopt
<1>8. ASSUME NEW blob \in Blobs, StoreBlobWrite(blob) PROVE SoundInv'
  BY <1>8 DEF StoreBlobWrite, Adopt
<1>9. CASE ControlPersist
  BY <1>9 DEF ControlPersist, Persist, WriteDone, NoteUnloaded,
     WriteNotOpened, WriteCutShort, Fault
<1>10. CASE ControlPinReset
  BY <1>10 DEF ControlPinReset, Persist, WriteDone, NoteUnloaded,
     WriteNotOpened, WriteCutShort, Fault
<1>11. CASE Writeback
  BY <1>11 DEF Writeback
<1>12. CASE Reboot
  BY <1>12 DEF Reboot, Boot
<1>13. CASE PowerLoss
  BY <1>13 DEF PowerLoss, Boot, Fault
<1>14. CASE UNCHANGED vars
  BY <1>14 DEF vars
<1>15. QED
  BY <1>1, <1>2, <1>3, <1>4, <1>5, <1>6, <1>7, <1>8, <1>9, <1>10, <1>11,
     <1>12, <1>13, <1>14 DEF Next

\* The strengthening the next three theorems rest on.
LEMMA SoundInvariant == Spec => []SoundInv
BY InitSound, SoundStep, TypeCorrect, PTL DEF Spec

\* A credential that an approved reset has wiped does not come back.
THEOREM WipedStaysWiped == Spec => []ResetIsFinal
<1>1. SoundInv => ResetIsFinal
  BY DEF SoundInv, SoundFile, SoundLive, ResetIsFinal, Present
<1>2. QED
  BY <1>1, SoundInvariant, PTL

\* The signature counter is not behind what a relying party has seen.
THEOREM CounterKeepsUp == Spec => []CounterNotBehind
<1>1. TypeOK /\ SoundInv => CounterNotBehind
  BY StoreAssumption
     DEF TypeOK, DataOK, File, Content, SoundInv, SoundFile, SoundLive,
         CounterNotBehind, Present, PresentCount
<1>2. QED
  BY <1>1, SoundInvariant, TypeCorrect, PTL

-----------------------------------------------------------------------------
(* The store implements DurableStore.                                       *)

\* Every step of the store is a step of DurableStore or changes nothing that
\* DurableStore knows of: memory, file, page cache, load, retry, restore and
\* reboot are invisible.
THEOREM StoreIsDurable == Spec => DurableSpec
<1> USE StoreAssumption DEF Content, File, Empty, Torn, Missing
<1>1. Init => Durable!Init
  BY DEF Init, Durable!Init, Present
<1>2. TypeOK /\ SoundInv /\ [Next]_vars => [Durable!Next]_(Durable!vars)
  <2> DEFINE Goal == [Durable!Next]_(Durable!vars)
  <2> SUFFICES ASSUME TypeOK, SoundInv, [Next]_vars, mishaps' = {} PROVE Goal
    BY DEF Durable!Next, Durable!Hurt
  <2> mishaps = {}
    BY DEF Next, vars, faultVars, LoadFound, LoadFails, MakeCredential, Assert,
           AssertFails, Reset, RestoreMetadata, StoreBlobWrite, ControlPersist,
           ControlPinReset, Writeback, Reboot, PowerLoss, Fault, Persist,
           WriteDone, NoteUnloaded, WriteNotOpened, WriteCutShort
  <2> USE DEF TypeOK, FlagsOK, DataOK, SoundInv, SoundFile, SoundLive,
      Readable,
              Present, driverVars, diskVars, faultVars, historyVars,
              Durable!Next, Durable!vars
  <2>1. CASE LoadFound
    BY <2>1 DEF LoadFound, Adopt
  <2>2. CASE LoadFails
    BY <2>2 DEF LoadFails, Fault
  <2>3. ASSUME NEW c \in Creds, MakeCredential(c) PROVE Goal
    BY <2>3 DEF Durable!Register, MakeCredential, Persist, WriteDone,
       NoteUnloaded, WriteNotOpened, WriteCutShort, Fault
  <2>4. ASSUME NEW c \in Creds, Assert(c) PROVE Goal
    <3>1. /\ store_loaded /\ store_loaded' = store_loaded
          /\ c \in store.creds /\ store'.creds = store.creds
          /\ signed' = [signed EXCEPT ![c] = store.count + 1]
      BY <2>4 DEF Assert
    <3>2. signed[c] <= store.count
      BY <3>1
    <3>3. signed'[c] > signed[c] /\ signed' = [signed EXCEPT ![c] = signed'[c]]
      BY <3>1, <3>2
    <3>4. Durable!Assert(c)
      BY <3>1, <3>3 DEF Durable!Assert
    <3>5. QED
      BY <3>4
  <2>5. CASE AssertFails
    BY <2>5 DEF AssertFails
  <2>6. CASE Reset
    BY <2>6 DEF Durable!Wipe, Reset, WriteDone, WriteNotOpened, WriteCutShort,
       Fault
  <2>7. CASE RestoreMetadata
    BY <2>7 DEF RestoreMetadata, Adopt
  <2>8. ASSUME NEW blob \in Blobs, StoreBlobWrite(blob) PROVE Goal
    BY <2>8 DEF StoreBlobWrite, Adopt
  <2>9. CASE ControlPersist
    BY <2>9 DEF ControlPersist, Persist, WriteDone, NoteUnloaded,
       WriteNotOpened, WriteCutShort, Fault
  <2>10. CASE ControlPinReset
    BY <2>10 DEF ControlPinReset, Persist, WriteDone, NoteUnloaded,
       WriteNotOpened, WriteCutShort, Fault
  <2>11. CASE Writeback
    BY <2>11 DEF Writeback
  <2>12. CASE Reboot
    BY <2>12 DEF Reboot, Boot
  <2>13. CASE PowerLoss
    BY <2>13 DEF PowerLoss, Boot, Fault
  <2>14. CASE UNCHANGED vars
    BY <2>14 DEF vars
  <2>15. QED
    BY <2>1, <2>2, <2>3, <2>4, <2>5, <2>6, <2>7, <2>8, <2>9, <2>10, <2>11,
       <2>12, <2>13, <2>14 DEF Next
<1>3. QED
  BY <1>1, <1>2, TypeCorrect, SoundInvariant, PTL
     DEF Spec, DurableSpec, Durable!Spec

-----------------------------------------------------------------------------
(* The app's syncs and edits: type correctness.                            *)

SyncPlaces ==
  {"idle", "count", "blob", "drain", "write", "fill", "restore", "done"}
SyncRecord ==
  [at : SyncPlaces, k : 0..Cardinality(Creds), read : File, blob : File,
   calm : BOOLEAN]
EditRecord ==
  [at : {"idle", "write", "fill", "restore"}, blob : File,
   creds : SUBSET Creds]
AppTypeOK ==
  /\ snapshot \in File /\ sync \in SyncRecord /\ edit \in EditRecord
  /\ raced \in BOOLEAN

\* The app's own steps, by what they do to the driver and to the file.
ReadSteps ==
  \/ SyncReadCount \/ SyncReadBlob \/ SyncReadStoreBlob \/ SyncRestoreFails
  \/ EditRestoreFails \/ \E c \in Creds : EditRead(c)
FileSteps == SyncStart \/ SyncWrite \/ SyncFill \/ EditWrite \/ EditFill
RestoreSteps == SyncRestore \/ EditRestore

LEMMA SyncSteps ==
  [SyncNext]_syncVars =>
    \/ Driver \/ Restart \/ ReadSteps \/ FileSteps \/ RestoreSteps
    \/ SyncWriteFails \/ EditViaBlob \/ UNCHANGED syncVars
BY DEF SyncNext, ReadSteps, FileSteps, RestoreSteps

\* The number of credentials of a store, and of a file.
LEMMA Counts ==
  /\ \A d \in Content : Cardinality(d.creds) \in 0..Cardinality(Creds)
  /\ \A f \in File : Count(f) \in 0..Cardinality(Creds)
<1>1. Cardinality(Creds) \in Nat
  BY SyncAssumption, FS_CardinalityType
<1>2. ASSUME NEW S \in SUBSET Creds
      PROVE  Cardinality(S) \in 0..Cardinality(Creds)
  <2>1. IsFiniteSet(S) /\ Cardinality(S) <= Cardinality(Creds)
    BY <1>2, SyncAssumption, FS_Subset
  <2>2. Cardinality(S) \in Nat
    BY <2>1, FS_CardinalityType
  <2>3. QED
    BY <1>1, <2>1, <2>2
<1>3. QED
  BY <1>1, <1>2, ContentTypes DEF Count

LEMMA AppRecords ==
  /\ NoSync \in SyncRecord /\ NoEdit \in EditRecord
  /\ \A r \in SyncRecord, at \in SyncPlaces :
       [r EXCEPT !.at = at] \in SyncRecord
  /\ \A r \in SyncRecord, b \in BOOLEAN : [r EXCEPT !.calm = b] \in SyncRecord
  /\ \A r \in SyncRecord, at \in SyncPlaces, n \in 0..Cardinality(Creds) :
       [r EXCEPT !.at = at, !.k = n] \in SyncRecord
  /\ \A r \in SyncRecord, at \in SyncPlaces, f \in File :
       /\ [r EXCEPT !.at = at, !.read = f] \in SyncRecord
       /\ [r EXCEPT !.at = at, !.blob = f] \in SyncRecord
  /\ \A r \in SyncRecord, at \in SyncPlaces, f \in File, g \in File :
       [r EXCEPT !.at = at, !.read = f, !.blob = g] \in SyncRecord
  /\ \A r \in EditRecord, at \in {"idle", "write", "fill", "restore"} :
       [r EXCEPT !.at = at] \in EditRecord
<1>1. 0 \in 0..Cardinality(Creds) /\ Missing \in File
  BY SyncAssumption, FS_CardinalityType, ContentTypes
<1>2. NoSync \in SyncRecord /\ NoEdit \in EditRecord
  BY <1>1 DEF NoSync, NoEdit, SyncRecord, EditRecord, SyncPlaces
<1>3. /\ \A r \in SyncRecord, at \in SyncPlaces :
           [r EXCEPT !.at = at] \in SyncRecord
      /\ \A r \in SyncRecord, b \in BOOLEAN :
           [r EXCEPT !.calm = b] \in SyncRecord
      /\ \A r \in EditRecord, at \in {"idle", "write", "fill", "restore"} :
           [r EXCEPT !.at = at] \in EditRecord
  BY DEF SyncRecord, EditRecord
<1>4. ASSUME NEW r \in SyncRecord, NEW at \in SyncPlaces,
             NEW n \in 0..Cardinality(Creds)
      PROVE  [r EXCEPT !.at = at, !.k = n] \in SyncRecord
  BY <1>4 DEF SyncRecord
<1>5. ASSUME NEW r \in SyncRecord, NEW at \in SyncPlaces, NEW f \in File
      PROVE  /\ [r EXCEPT !.at = at, !.read = f] \in SyncRecord
             /\ [r EXCEPT !.at = at, !.blob = f] \in SyncRecord
  BY <1>5 DEF SyncRecord
<1>6. ASSUME NEW r \in SyncRecord, NEW at \in SyncPlaces, NEW f \in File,
             NEW g \in File
      PROVE  [r EXCEPT !.at = at, !.read = f, !.blob = g] \in SyncRecord
  BY <1>6 DEF SyncRecord
<1>7. QED
  BY <1>2, <1>3, <1>4, <1>5, <1>6

\* The parts of the type invariant.
LEMMA SyncTypeParts == SyncTypeOK <=> TypeOK /\ AppTypeOK
BY DEF SyncTypeOK, AppTypeOK, SyncRecord, SyncPlaces, EditRecord

\* What the app's steps do to driver and disk is typed, too.
LEMMA StoreTypes ==
  ASSUME TypeOK, AppTypeOK, [SyncNext]_syncVars
  PROVE  TypeOK'
<1> USE DEF TypeOK
<1>1. CASE Driver
  BY <1>1, TypeStep DEF Driver, Command, Next
<1>2. CASE Restart
  BY <1>2, TypeStep DEF Restart, Next
<1>3. CASE ReadSteps \/ UNCHANGED syncVars
  <2>1. UNCHANGED vars
    BY <1>3 DEF ReadSteps, SyncReadCount, SyncReadBlob, SyncReadStoreBlob,
       SyncRestoreFails, EditRestoreFails, EditRead, syncVars
  <2>2. QED
    BY <2>1, TypeStep
<1>4. CASE FileSteps
  <2>1. UNCHANGED <<driverVars, faultVars, flash, signed, uploaded>>
    BY <1>4 DEF FileSteps, SyncStart, SyncWrite, SyncFill, EditWrite,
       EditFill, Truncate, Fill, historyVars
  <2>2. sync.blob \in File /\ edit.blob \in File /\ edit.creds \subseteq Creds
    BY DEF AppTypeOK, SyncRecord, EditRecord
  <2>3. sync.blob.data.creds \subseteq Creds
    BY <2>2 DEF File, Content
  <2>4. file' \in File
    BY <1>4, <2>2, ContentTypes
       DEF FileSteps, SyncStart, SyncWrite, SyncFill, EditWrite, EditFill,
           Truncate, Fill, DataOK
  <2>5. saved' \subseteq Creds /\ wiped' \subseteq Creds
    BY <1>4, <2>2, <2>3
       DEF FileSteps, SyncStart, SyncWrite, SyncFill, EditWrite, EditFill,
           historyVars, DataOK
  <2>6. QED
    BY <2>1, <2>4, <2>5 DEF FlagsOK, DataOK, driverVars, faultVars
<1>5. CASE RestoreSteps
  BY <1>5, TypeStep DEF RestoreSteps, SyncRestore, EditRestore, Next
<1>6. CASE SyncWriteFails
  BY <1>6, StoreAssumption
     DEF SyncWriteFails, Fault, FlagsOK, DataOK, driverVars, diskVars,
         historyVars, MishapNames, FaultNames
<1>7. CASE EditViaBlob
  <2>1. edit.blob.data \in Content /\ StoreBlobWrite(edit.blob.data)
    BY <1>7, ContentTypes DEF EditViaBlob, AppTypeOK, EditRecord
  <2>2. PICK d : d = edit.blob.data
    OBVIOUS
  <2>3. d.pin \in BOOLEAN /\ [d EXCEPT !.pin = FALSE] \in Content
    BY <2>1, <2>2, ContentTypes
  <2>4. FlagsOK'
    BY <2>1, <2>2, <2>3, Zenon DEF FlagsOK, StoreBlobWrite, Adopt
  <2>5. DataOK'
    BY <2>1, <2>2, <2>3
       DEF DataOK, StoreBlobWrite, Adopt, diskVars, MishapNames
  <2>6. QED
    BY <2>4, <2>5
<1>8. QED
  BY <1>1, <1>2, <1>3, <1>4, <1>5, <1>6, <1>7, SyncSteps

LEMMA SyncRecordSteps ==
  ASSUME TypeOK, AppTypeOK, [SyncNext]_syncVars
  PROVE  sync' \in SyncRecord
<1> USE AppRecords DEF AppTypeOK
<1>1. \A at \in SyncPlaces : Ended(at) \in SyncRecord
  BY DEF Ended
<1>2. /\ "done" \in SyncPlaces /\ "idle" \in SyncPlaces
      /\ "count" \in SyncPlaces /\ "blob" \in SyncPlaces /\ "drain" \in SyncPlaces
      /\ "write" \in SyncPlaces /\ "fill" \in SyncPlaces
      /\ "restore" \in SyncPlaces
  BY DEF SyncPlaces
<1>3. /\ file \in File /\ store \in Content /\ sync.read \in File
      /\ sync.calm \in BOOLEAN
  BY DEF TypeOK, DataOK, SyncRecord
<1>4. ASSUME NEW f \in File, NEW b \in File
      PROVE  Restoring(f, b) \in SyncRecord
  BY <1>2, <1>3, <1>4 DEF Restoring
<1>5. ASSUME NEW f \in File, AfterRead(f) PROVE sync' \in SyncRecord
  BY <1>1, <1>2, <1>4, <1>5 DEF AfterRead
<1>6. CASE Driver \/ Restart \/ UNCHANGED syncVars
  BY <1>6 DEF Driver, Restart, Disturbed, syncVars, appVars
<1>7. CASE SyncReadCount
  BY <1>2, <1>3, <1>7, Counts DEF SyncReadCount, KernelCount
<1>8. CASE SyncReadBlob
  <2>1. CASE AfterRead(file)
    BY <1>3, <1>5, <2>1
  <2>2. CASE sync' = [sync EXCEPT !.at = "drain", !.read = file]
    BY <1>2, <1>3, <2>2
  <2>3. QED
    BY <1>8, <2>1, <2>2 DEF SyncReadBlob
<1>9. CASE SyncReadStoreBlob
  <2>1. CASE AfterRead(sync.read)
    BY <1>3, <1>5, <2>1
  <2>2. CASE sync' = [sync EXCEPT !.at = "write", !.blob = V2(store)]
    <3>1. V2(store) \in File
      BY <1>3, ContentTypes DEF V2
    <3>2. QED
      BY <1>2, <2>2, <3>1
  <2>3. QED
    BY <1>9, <2>1, <2>2 DEF SyncReadStoreBlob
<1>10. CASE \/ SyncRestoreFails \/ EditRestoreFails
            \/ \E c \in Creds : EditRead(c)
  BY <1>1, <1>2, <1>10 DEF SyncRestoreFails, EditRestoreFails, EditRead
<1>11. CASE SyncStart \/ SyncWrite \/ EditWrite \/ EditFill
  BY <1>2, <1>11 DEF SyncStart, SyncWrite, EditWrite, EditFill, Disturbed
<1>12. CASE SyncFill
  BY <1>1, <1>2, <1>3, <1>12 DEF SyncFill, NoSync, SyncRecord
<1>13. CASE RestoreSteps
  BY <1>1, <1>2, <1>13 DEF RestoreSteps, SyncRestore, EditRestore, Disturbed
<1>14. CASE SyncWriteFails
  BY <1>1, <1>2, <1>14 DEF SyncWriteFails
<1>15. CASE EditViaBlob
  BY <1>15 DEF EditViaBlob, Disturbed
<1>16. QED
  BY <1>6, <1>7, <1>8, <1>9, <1>10, <1>11, <1>12, <1>13, <1>14, <1>15,
     SyncSteps DEF ReadSteps, FileSteps

LEMMA EditRecordSteps ==
  ASSUME TypeOK, AppTypeOK, [SyncNext]_syncVars
  PROVE  edit' \in EditRecord
<1> USE AppRecords DEF AppTypeOK
<1>1. CASE edit' = edit \/ edit' = NoEdit
  BY <1>1
<1>2. CASE EditWrite
  BY <1>2 DEF EditWrite
<1>3. CASE EditFill
  BY <1>3 DEF EditFill
<1>4. ASSUME NEW c \in Creds, EditRead(c) PROVE edit' \in EditRecord
  <2>1. PICK old : /\ old = (IF Readable(file) THEN file ELSE V2(store))
                   /\ edit' = [at |-> "write", creds |-> {c},
                               blob |-> [old EXCEPT !.data.creds = @ \ {c}]]
    BY <1>4 DEF EditRead
  <2>2. old \in File
    BY <2>1, ContentTypes DEF TypeOK, DataOK, V2
  <2>3. [old EXCEPT !.data.creds = @ \ {c}] \in File
    BY <2>2 DEF File, Content
  <2>4. QED
    BY <2>1, <2>3 DEF EditRecord
<1>5. edit' = edit \/ edit' = NoEdit \/ EditWrite \/ EditFill
        \/ \E c \in Creds : EditRead(c)
  BY SyncSteps
     DEF Driver, Restart, ReadSteps, FileSteps, RestoreSteps, SyncWriteFails,
         EditViaBlob, syncVars, appVars, SyncReadCount, SyncReadBlob,
         SyncReadStoreBlob, SyncRestoreFails, EditRestoreFails, SyncStart,
         SyncWrite, SyncFill, SyncRestore, EditRestore
<1>6. QED
  BY <1>1, <1>2, <1>3, <1>4, <1>5

LEMMA SyncTypeStep == SyncTypeOK /\ [SyncNext]_syncVars => SyncTypeOK'
<1> SUFFICES ASSUME SyncTypeOK, [SyncNext]_syncVars PROVE SyncTypeOK'
  OBVIOUS
<1>1. TypeOK /\ AppTypeOK
  BY SyncTypeParts
<1>2. /\ snapshot \in File /\ file \in File /\ sync.read \in File
      /\ sync.blob \in File /\ raced \in BOOLEAN
  BY <1>1 DEF TypeOK, DataOK, AppTypeOK, SyncRecord
<1>3. snapshot' \in File
  BY <1>2, SyncSteps
     DEF Driver, Restart, ReadSteps, FileSteps, RestoreSteps, SyncWriteFails,
         EditViaBlob, syncVars, appVars, SyncReadCount, SyncReadBlob,
         SyncReadStoreBlob, SyncRestoreFails, EditRestoreFails, SyncStart,
         SyncWrite, SyncFill, SyncRestore, EditRestore, EditRead, EditWrite,
         EditFill, AfterRead
<1>4. raced' \in BOOLEAN
  BY <1>2, SyncSteps
     DEF Driver, Restart, ReadSteps, FileSteps, RestoreSteps, SyncWriteFails,
         EditViaBlob, syncVars, appVars, SyncReadCount, SyncReadBlob,
         SyncReadStoreBlob, SyncRestoreFails, EditRestoreFails, SyncStart,
         SyncWrite, SyncFill, SyncRestore, EditRestore, EditRead, EditWrite,
         EditFill, Holding
<1>5. TypeOK' /\ sync' \in SyncRecord /\ edit' \in EditRecord
  BY <1>1, StoreTypes, SyncRecordSteps, EditRecordSteps
<1>6. SyncTypeOK' <=> TypeOK' /\ AppTypeOK'
  BY SyncTypeParts, PTL
<1>7. QED
  BY <1>3, <1>4, <1>5, <1>6 DEF AppTypeOK

LEMMA SyncInitTypes == SyncInit => SyncTypeOK
BY InitTypes, SyncTypeParts, AppRecords, ContentTypes
   DEF SyncInit, AppTypeOK

\* Driver, disk and app keep their types through every sync and edit.
THEOREM SyncTypeCorrect == SyncSpec => []SyncTypeOK
BY SyncInitTypes, SyncTypeStep, PTL DEF SyncSpec

-----------------------------------------------------------------------------
(* Syncs and edits that nothing races with.                                *)

\* Both mean to write: one of them will race with the other.
Both == Holding(sync.at) /\ Holding(edit.at)
Writing == sync.at = "fill" \/ edit.at = "fill"

\* The content d has everything in kept and nothing in gone, and is not behind
\* what relying parties have seen.
Sound(d, kept, gone) ==
  /\ kept \subseteq d.creds /\ gone \cap d.creds = {}
  /\ \A c \in d.creds : signed[c] <= d.count

\* Unless both are about to write, the file is sound but while it is being
\* written, a loaded store agrees with it but while an edit has still to be
\* restored, and what is about to be written is sound.  A snapshot, and what
\* a sync that drains has read, was once in the file.
DiskInv ==
  /\ Writing \/ (SoundFile /\ saved \subseteq file.data.creds)
  /\ Writing \/ edit.at = "restore" \/ SoundLive
  /\ Readable(snapshot) \/ (sync.at = "drain" /\ Readable(sync.read)) =>
       Readable(file) \/ Writing
SyncHandInv ==
  sync.at \in {"write", "fill"} =>
    /\ Readable(sync.blob) /\ Sound(sync.blob.data, saved, wiped)
    /\ store_loaded => /\ store.creds = sync.blob.data.creds
                       /\ sync.blob.data.count <= store.count
EditHandInv ==
  edit.at \in {"write", "fill"} =>
    /\ Readable(edit.blob)
    /\ Sound(edit.blob.data, saved \ edit.creds, wiped \cup edit.creds)
CoreInv == DiskInv /\ SyncHandInv /\ EditHandInv

HarmlessInv ==
  mishaps = {} /\ ~raced =>
    /\ sync.at = "restore" \/ edit.at = "restore" => Readable(file)
    /\ Both \/ CoreInv

\* A drain is asked for only when the driver has more than the file.
DrainInv == sync.at = "drain" => Draining

LEMMA SyncFields ==
  ASSUME sync \in SyncRecord
  PROVE  /\ \A f, b : /\ Restoring(f, b).at = "write"
                      /\ Restoring(f, b).read = f /\ Restoring(f, b).blob = b
                      /\ Restoring(f, b).k = sync.k
                      /\ Restoring(f, b).calm = sync.calm
         /\ \A at : Ended(at).at = at /\ Ended(at).calm = TRUE
         /\ NoSync.at = "idle" /\ NoSync.calm = TRUE
BY DEF SyncRecord, Restoring, Ended, NoSync

LEMMA Disturbing ==
  ASSUME sync \in SyncRecord, Disturbed
  PROVE  \/ sync' = NoSync
         \/ /\ sync'.at = sync.at /\ sync'.k = sync.k /\ ~sync'.calm
            /\ sync'.read = sync.read /\ sync'.blob = sync.blob
<1>1. CASE sync' = NoSync
  BY <1>1
<1>2. CASE sync' = [sync EXCEPT !.calm = FALSE]
  BY <1>2 DEF SyncRecord
<1>3. QED
  BY <1>1, <1>2 DEF Disturbed

\* Where a sync goes once it has read the file.
LEMMA Reading ==
  ASSUME sync \in SyncRecord, NEW f, AfterRead(f)
  PROVE  \/ sync'.at \in {"done", "idle"} /\ sync'.calm
         \/ /\ sync'.at = "write" /\ sync'.k = sync.k /\ sync'.calm = sync.calm
            /\ sync'.read = f
            /\ \/ /\ Readable(f) /\ ShouldRestore(sync.k, Count(f))
                  /\ sync'.blob = f
               \/ /\ ~Readable(f) /\ Readable(snapshot) /\ ~(sync.k > 0)
                  /\ sync'.blob = snapshot
<1>1. ASSUME NEW g, sync' = Restoring(f, g)
      PROVE  /\ sync'.at = "write" /\ sync'.k = sync.k
             /\ sync'.calm = sync.calm /\ sync'.read = f /\ sync'.blob = g
  <2>1. /\ Restoring(f, g).at = "write" /\ Restoring(f, g).k = sync.k
        /\ Restoring(f, g).calm = sync.calm
        /\ Restoring(f, g).read = f /\ Restoring(f, g).blob = g
    BY SyncFields
  <2>2. QED
    BY <1>1, <2>1
<1>2. CASE sync' = Ended("done")
  BY <1>2, SyncFields
<1>3. CASE sync' = Ended("idle")
  BY <1>3, SyncFields
<1>4. \/ sync' = Ended("done") \/ sync' = Ended("idle")
      \/ /\ sync' = Restoring(f, f) /\ Readable(f)
         /\ ShouldRestore(sync.k, Count(f))
      \/ /\ sync' = Restoring(f, snapshot) /\ ~Readable(f)
         /\ Readable(snapshot) /\ ~(sync.k > 0)
  BY Zenon DEF AfterRead
<1>5. QED
  BY <1>1, <1>2, <1>3, <1>4

LEMMA DrainStep ==
  ASSUME sync \in SyncRecord, DrainInv, [SyncNext]_syncVars PROVE DrainInv'
<1> USE DEF DrainInv, Draining
<1>1. ASSUME NEW f, AfterRead(f) PROVE sync'.at # "drain"
  BY <1>1, Reading
<1>2. CASE SyncReadBlob
  <2>1. CASE AfterRead(file)
    BY <1>1, <2>1
  <2>2. CASE /\ ShouldDrain(sync.k, Count(file))
             /\ sync' = [sync EXCEPT !.at = "drain", !.read = file]
    <3>1. sync'.k = sync.k /\ sync'.read = file
      BY <2>2 DEF SyncRecord
    <3>2. Count(sync'.read) = Count(file)
      BY <3>1
    <3>3. QED
      BY <2>2, <3>1, <3>2 DEF ShouldDrain
  <2>3. QED
    BY <1>2, <2>1, <2>2 DEF SyncReadBlob
<1>3. CASE SyncReadStoreBlob
  <2>1. CASE sync' = [sync EXCEPT !.at = "write", !.blob = V2(store)]
    BY <2>1 DEF SyncRecord
  <2>2. QED
    BY <1>1, <1>3, <2>1 DEF SyncReadStoreBlob
<1>4. CASE sync' = sync
  <2>1. Count(sync.read)' = Count(sync.read)
    BY <1>4 DEF Count, Readable
  <2>2. QED
    BY <1>4, <2>1 DEF ShouldDrain
<1>5. CASE Disturbed
  <2>1. CASE sync'.at = sync.at /\ sync'.k = sync.k /\ sync'.read = sync.read
    BY <2>1 DEF Count, Readable, ShouldDrain
  <2>2. QED
    BY <1>5, <2>1, Disturbing, SyncFields
<1>6. CASE SyncReadCount \/ SyncStart \/ SyncWrite \/ SyncFill \/ Restart
        \/ SyncRestore \/ SyncRestoreFails \/ SyncWriteFails
  <2>1. sync'.at # "drain"
    BY <1>6, SyncFields
       DEF SyncReadCount, SyncStart, SyncWrite, SyncFill, Restart,
           SyncRestore, SyncRestoreFails, SyncWriteFails, SyncRecord, NoSync,
           Ended
  <2>2. QED
    BY <2>1
<1>7. QED
  BY <1>2, <1>3, <1>4, <1>5, <1>6, SyncSteps
     DEF Driver, ReadSteps, FileSteps, RestoreSteps, EditViaBlob, syncVars,
         appVars, EditRestoreFails, EditRestore, EditRead, EditWrite, EditFill

\* What has gone wrong is not forgotten.
LEMMA NothingForgotten ==
  ASSUME [SyncNext]_syncVars, mishaps' = {}, ~raced'
  PROVE  mishaps = {} /\ ~raced
<1>1. ~raced
  BY SyncSteps
     DEF Driver, Restart, ReadSteps, FileSteps, RestoreSteps, SyncWriteFails,
         EditViaBlob, syncVars, SyncReadCount, SyncReadBlob,
         SyncReadStoreBlob, SyncRestoreFails, EditRestoreFails, SyncStart,
         SyncWrite, SyncFill, SyncRestore, EditRestore, EditRead, EditWrite,
         EditFill
<1>2. CASE Driver
  BY <1>2 DEF Driver, Command, LoadFound, LoadFails, MakeCredential, Assert,
     AssertFails, Reset, Persist, WriteDone, NoteUnloaded, WriteNotOpened,
     WriteCutShort, Fault, faultVars
<1>3. CASE EditViaBlob \/ SyncWriteFails
  BY <1>3 DEF EditViaBlob, StoreBlobWrite, SyncWriteFails, Fault
<1>4. QED
  BY <1>1, <1>2, <1>3, SyncSteps
     DEF Restart, Reboot, ReadSteps, FileSteps, RestoreSteps, syncVars, vars,
         faultVars, SyncReadCount, SyncReadBlob, SyncReadStoreBlob,
         SyncRestoreFails, EditRestoreFails, SyncStart, SyncWrite, SyncFill,
         SyncRestore, EditRestore, EditRead, EditWrite, EditFill,
         RestoreMetadata

\* A command does not make the file unreadable unless a write fails.
LEMMA FileStaysReadable ==
  ASSUME Command \/ Reboot, mishaps' = {}, Readable(file)
  PROVE  Readable(file')
BY DEF Command, LoadFound, LoadFails, MakeCredential, Assert, AssertFails,
   Reset, Persist, WriteDone, WriteNotOpened, WriteCutShort, Fault, Reboot,
   diskVars, Readable

\* What a step preserves, stated for a step that leaves nothing wrong.
StepTo ==
  /\ SyncTypeOK /\ DrainInv /\ HarmlessInv /\ [SyncNext]_syncVars
  /\ mishaps' = {} /\ ~raced'
Goal ==
  /\ sync.at = "restore" \/ edit.at = "restore" => Readable(file)
  /\ Both \/ CoreInv

\* The driver's commands and a reboot.
LEMMA DriverHarmless ==
  ASSUME StepTo, Driver \/ Restart PROVE Goal'
<1>1. ~Holding(sync.at) /\ ~Holding(edit.at)
  BY DEF StepTo, Driver, Restart
<1>2. CoreInv /\ ~Both /\ ~Writing /\ edit.at # "restore"
  BY <1>1, NothingForgotten DEF StepTo, HarmlessInv, Both, Writing, Holding
<1>3. TypeOK /\ SoundInv /\ SavedInv
  BY <1>2, SyncTypeParts
     DEF StepTo, CoreInv, DiskInv, SoundInv, SavedInv, SavedSurvives, FileInv,
         SoundFile, SoundLive, Present, Empty
<1>4. [Next]_vars /\ (Command \/ Reboot)
  BY DEF Driver, Restart, Command, Next
<1>5. SoundFile' /\ SoundLive' /\ saved' \subseteq file'.data.creds
  BY <1>3, <1>4, SoundStep, SavedStep DEF StepTo, SoundInv, SavedInv, FileInv
<1>6. /\ ~Holding(sync'.at) /\ ~Holding(edit'.at) /\ snapshot' = snapshot
      /\ sync'.at = "drain" => sync.at = "drain" /\ sync'.read = sync.read
  BY <1>1, SyncTypeParts, Disturbing, SyncFields
     DEF StepTo, AppTypeOK, Driver, Restart, NoEdit, Holding
<1>7. Readable(snapshot) \/ (sync.at = "drain" /\ Readable(sync.read)) =>
        Readable(file')
  BY <1>2, <1>4, FileStaysReadable DEF StepTo, CoreInv, DiskInv
<1>8. QED
  BY <1>5, <1>6, <1>7
     DEF Goal, CoreInv, DiskInv, SyncHandInv, EditHandInv, Writing, Holding

\* The app's reads, and what they mean to write.
LEMMA CountReadHarmless ==
  ASSUME StepTo, SyncReadCount \/ SyncRestoreFails \/ EditRestoreFails
  PROVE  Goal'
<1>1. sync \in SyncRecord /\ mishaps = {} /\ ~raced
  BY SyncTypeParts, NothingForgotten DEF StepTo, AppTypeOK
<1>2. ~SyncRestoreFails /\ ~EditRestoreFails
  BY <1>1 DEF StepTo, HarmlessInv, SyncRestoreFails, EditRestoreFails
<1>3. /\ sync.at = "count" /\ sync'.at = "blob" /\ UNCHANGED vars
      /\ snapshot' = snapshot /\ edit' = edit
  BY <1>1, <1>2 DEF SyncReadCount, SyncRecord
<1>4. CoreInv /\ (edit.at = "restore" => Readable(file))
  BY <1>1, <1>3 DEF StepTo, HarmlessInv, Both, Holding
<1>5. QED
  BY <1>3, <1>4
     DEF Goal, CoreInv, DiskInv, SyncHandInv, EditHandInv, Writing, Sound,
         SoundFile, SoundLive, Readable, vars, driverVars, diskVars,
         historyVars

LEMMA EditReadHarmless ==
  ASSUME StepTo, NEW c \in Creds, EditRead(c) PROVE Goal'
<1>1. /\ sync \in SyncRecord /\ file \in File /\ store \in Content
      /\ mishaps = {} /\ ~raced
  BY SyncTypeParts, NothingForgotten DEF StepTo, AppTypeOK, TypeOK, DataOK
<1>2. /\ UNCHANGED vars /\ sync' = sync /\ snapshot' = snapshot
      /\ edit.at = "idle"
  BY DEF EditRead
<1>3. PICK old : /\ old = (IF Readable(file) THEN file ELSE V2(store))
                 /\ Readable(file) \/ store_loaded
                 /\ c \in old.data.creds
                 /\ edit' = [at |-> "write", creds |-> {c},
                             blob |-> [old EXCEPT !.data.creds = @ \ {c}]]
  BY DEF EditRead
<1>4. edit'.at = "write" /\ edit'.creds = {c}
  BY <1>3
<1>5. CASE Holding(sync.at)
  <2>1. Both'
    BY <1>2, <1>4, <1>5 DEF Both, Holding
  <2>2. sync.at = "restore" => Readable(file)
    BY <1>1 DEF StepTo, HarmlessInv
  <2>3. QED
    BY <1>2, <1>4, <2>1, <2>2 DEF Goal, Readable, vars, diskVars
<1>6. CASE ~Holding(sync.at)
  <2>1. CoreInv /\ ~Writing
    BY <1>1, <1>2, <1>6 DEF StepTo, HarmlessInv, Both, Holding, Writing
  <2>2. SoundFile /\ SoundLive /\ saved \subseteq file.data.creds
    BY <1>2, <2>1 DEF CoreInv, DiskInv
  <2>3. Readable(file) /\ old = file
    BY <1>1, <1>3, <2>2 DEF SoundFile, SoundLive, V2, Empty
  <2>4. PICK b : b = [file EXCEPT !.data.creds = @ \ {c}]
    OBVIOUS
  <2>5. /\ b.kind = file.kind /\ b.data.creds = file.data.creds \ {c}
        /\ b.data.count = file.data.count
    BY <1>1, <2>4 DEF File, Content
  <2>6. edit'.blob = b
    BY <1>3, <2>3, <2>4
  <2>7. Readable(b) /\ Sound(b.data, saved \ {c}, wiped \cup {c})
    BY <2>2, <2>3, <2>5 DEF SoundFile, Sound, Readable
  <2>8. EditHandInv'
    BY <1>2, <1>4, <2>6, <2>7
       DEF EditHandInv, Sound, Readable, vars, historyVars
  <2>9. DiskInv' /\ SyncHandInv'
    BY <1>2, <1>4, <1>6, <2>1
       DEF CoreInv, DiskInv, SyncHandInv, Holding, Writing, Sound, SoundFile,
           SoundLive, Readable, vars, driverVars, diskVars, historyVars
  <2>10. QED
    BY <1>2, <1>4, <1>6, <2>8, <2>9 DEF Goal, CoreInv, Holding
<1>7. QED
  BY <1>5, <1>6

\* Reading the file: a restore writes back what is in it.
LEMMA BlobReadHarmless ==
  ASSUME StepTo, SyncReadBlob PROVE Goal'
<1>1. /\ sync \in SyncRecord /\ edit \in EditRecord /\ file \in File
      /\ mishaps = {} /\ ~raced
  BY SyncTypeParts, NothingForgotten DEF StepTo, AppTypeOK, TypeOK, DataOK
<1>2. UNCHANGED vars /\ edit' = edit /\ sync.at = "blob"
  BY DEF SyncReadBlob
<1>3. CoreInv /\ (edit.at = "restore" => Readable(file))
  BY <1>1, <1>2 DEF StepTo, HarmlessInv, Both, Holding
<1>4. EditHandInv'
  BY <1>2, <1>3
     DEF CoreInv, EditHandInv, Sound, Readable, vars, historyVars
<1>5. snapshot' = snapshot \/ (snapshot' = file /\ Readable(file))
  BY Zenon DEF SyncReadBlob, AfterRead
<1>6. /\ sync'.at \in {"drain", "done", "idle", "write"}
      /\ sync'.at = "drain" => sync'.read = file
      /\ sync'.at = "write" /\ ~Writing =>
           sync'.blob = file /\ Readable(file)
  <2>1. CASE AfterRead(file)
    <3>1. Readable(snapshot) => Readable(file) \/ Writing
      BY <1>3 DEF CoreInv, DiskInv
    <3>2. QED
      BY <1>1, <2>1, <3>1, Reading
  <2>2. CASE sync' = [sync EXCEPT !.at = "drain", !.read = file]
    BY <1>1, <2>2 DEF SyncRecord
  <2>3. QED
    BY <2>1, <2>2 DEF SyncReadBlob
<1>7. DiskInv'
  BY <1>2, <1>3, <1>5, <1>6
     DEF CoreInv, DiskInv, Writing, SoundFile, SoundLive, Readable, vars,
         driverVars, diskVars, historyVars
<1>8. ASSUME sync'.at = "write", ~Holding(edit.at) PROVE SyncHandInv'
  <2>1. ~Writing /\ edit.at # "restore"
    BY <1>2, <1>8 DEF Writing, Holding
  <2>2. SoundFile /\ SoundLive /\ saved \subseteq file.data.creds
    BY <1>3, <2>1 DEF CoreInv, DiskInv
  <2>3. QED
    BY <1>2, <1>6, <1>8, <2>1, <2>2
       DEF SyncHandInv, Sound, SoundFile, SoundLive, Readable, vars,
           driverVars, historyVars
<1>9. CASE sync'.at # "write"
  BY <1>2, <1>3, <1>4, <1>6, <1>7, <1>9
     DEF Goal, CoreInv, SyncHandInv, Readable, vars, diskVars
<1>10. CASE sync'.at = "write"
  BY <1>2, <1>3, <1>4, <1>7, <1>8, <1>10
     DEF Goal, CoreInv, Both, Holding, Readable, vars, diskVars
<1>11. QED
  BY <1>9, <1>10

\* A drain that finds the driver changed has nothing to restore.
LEMMA StoreReading ==
  ASSUME SyncTypeOK, DrainInv, SyncReadStoreBlob
  PROVE  \/ ~Recoverable /\ sync'.at \in {"done", "idle"}
         \/ /\ Recoverable /\ sync'.at = "write" /\ sync'.blob = V2(store)
            /\ sync'.k = sync.k
<1>1. sync \in SyncRecord /\ sync.at = "drain"
  BY SyncTypeParts DEF AppTypeOK, SyncReadStoreBlob
<1>2. CASE ~Recoverable /\ AfterRead(sync.read)
  <2>1. /\ Count(sync.read) \in 0..Cardinality(Creds)
        /\ sync.k \in 0..Cardinality(Creds)
    BY <1>1, Counts DEF SyncRecord
  <2>2. sync.k > Count(sync.read)
    BY <1>1 DEF DrainInv, Draining, ShouldDrain
  <2>3. ~ShouldRestore(sync.k, Count(sync.read)) /\ sync.k > 0
    BY <2>1, <2>2, SyncAssumption, FS_CardinalityType DEF ShouldRestore
  <2>4. QED
    BY <1>1, <1>2, <2>3, Reading
<1>3. CASE Recoverable /\ sync' = [sync EXCEPT !.at = "write",
                                               !.blob = V2(store)]
  BY <1>1, <1>3 DEF SyncRecord
<1>4. QED
  BY <1>2, <1>3 DEF SyncReadStoreBlob

\* Reading the live store: a drain writes it out.
LEMMA StoreReadHarmless ==
  ASSUME StepTo, SyncReadStoreBlob PROVE Goal'
<1>1. /\ sync \in SyncRecord /\ edit \in EditRecord /\ file \in File
      /\ store \in Content /\ mishaps = {} /\ ~raced
  BY SyncTypeParts, NothingForgotten DEF StepTo, AppTypeOK, TypeOK, DataOK
<1>2. UNCHANGED vars /\ edit' = edit /\ sync.at = "drain"
  BY DEF SyncReadStoreBlob
<1>3. CoreInv /\ (edit.at = "restore" => Readable(file))
  BY <1>1, <1>2 DEF StepTo, HarmlessInv, Both, Holding
<1>4. EditHandInv'
  BY <1>2, <1>3
     DEF CoreInv, EditHandInv, Sound, Readable, vars, historyVars
<1>5. snapshot' = snapshot \/ (snapshot' = sync.read /\ Readable(sync.read))
  BY Zenon DEF SyncReadStoreBlob, AfterRead
<1>6. /\ sync'.at \in {"done", "idle", "write"}
      /\ sync'.at = "write" => store_loaded /\ sync'.blob = V2(store)
  BY StoreReading DEF StepTo, Recoverable
<1>7. DiskInv'
  BY <1>2, <1>3, <1>5, <1>6
     DEF CoreInv, DiskInv, Writing, SoundFile, SoundLive, Readable, vars,
         driverVars, diskVars, historyVars
<1>8. ASSUME sync'.at = "write", ~Holding(edit.at) PROVE SyncHandInv'
  <2>1. ~Writing /\ edit.at # "restore"
    BY <1>2, <1>8 DEF Writing, Holding
  <2>2. /\ SoundFile /\ saved \subseteq file.data.creds
        /\ store.creds = file.data.creds /\ file.data.count <= store.count
    BY <1>3, <1>6, <1>8, <2>1 DEF CoreInv, DiskInv, SoundLive
  <2>3. signed \in [Creds -> 0..MaxCount] /\ MaxCount \in Nat
    BY SyncTypeParts, StoreAssumption DEF StepTo, TypeOK, DataOK
  <2>4. /\ file.data.creds \subseteq Creds /\ file.data.count \in 0..MaxCount
        /\ store.count \in 0..MaxCount
    BY <1>1, ContentTypes
  <2>5. ASSUME NEW c \in store.creds PROVE signed[c] <= store.count
    <3>1. c \in Creds /\ signed[c] <= file.data.count
      BY <2>2, <2>4, <2>5 DEF SoundFile
    <3>2. signed[c] \in 0..MaxCount
      BY <2>3, <3>1
    <3>3. QED
      BY <2>2, <2>3, <2>4, <3>1, <3>2
  <2>6. Sound(store, saved, wiped)
    BY <2>2, <2>5 DEF Sound, SoundFile
  <2>7. PICK b : b = V2(store)
    OBVIOUS
  <2>8. Readable(b) /\ b.data = store
    BY <2>7 DEF V2, Readable
  <2>9. store.count <= store.count
    BY <2>3, <2>4
  <2>10. QED
    BY <1>2, <1>6, <1>8, <2>6, <2>7, <2>8, <2>9
       DEF SyncHandInv, Sound, Readable, vars, driverVars, historyVars
<1>9. CASE sync'.at # "write"
  BY <1>2, <1>3, <1>4, <1>6, <1>7, <1>9
     DEF Goal, CoreInv, SyncHandInv, Readable, vars, diskVars
<1>10. CASE sync'.at = "write"
  BY <1>2, <1>3, <1>4, <1>7, <1>8, <1>10
     DEF Goal, CoreInv, Both, Holding, Readable, vars, diskVars
<1>11. QED
  BY <1>9, <1>10

\* The app's writes.
LEMMA StartHarmless ==
  ASSUME StepTo, SyncStart PROVE Goal'
<1>1. /\ sync \in SyncRecord /\ file \in File /\ mishaps = {} /\ ~raced
  BY SyncTypeParts, NothingForgotten DEF StepTo, AppTypeOK, TypeOK, DataOK
<1>2. /\ UNCHANGED <<driverVars, historyVars, snapshot, edit>>
      /\ sync.at \in {"idle", "done"} /\ sync'.at = "count"
  BY DEF SyncStart, NoSync
<1>3. CoreInv /\ (edit.at = "restore" => Readable(file))
  BY <1>1, <1>2 DEF StepTo, HarmlessInv, Both, Holding
<1>4. /\ Readable(file') <=> Readable(file)
      /\ file'.data = file.data \/ (file = Missing /\ file' = Torn)
  BY DEF SyncStart, Readable, Missing, Torn
<1>5. file'.data = file.data
  BY <1>4 DEF Missing, Torn
<1>6. QED
  BY <1>2, <1>3, <1>4, <1>5
     DEF Goal, CoreInv, DiskInv, SyncHandInv, EditHandInv, Writing, Sound,
         SoundFile, SoundLive, Readable, driverVars, historyVars

LEMMA SyncWritesHarmless ==
  ASSUME StepTo, SyncWrite \/ SyncFill PROVE Goal'
<1>1. /\ sync \in SyncRecord /\ edit \in EditRecord
      /\ mishaps = {} /\ ~raced
  BY SyncTypeParts, NothingForgotten DEF StepTo, AppTypeOK
<1>2. ~Holding(edit.at) /\ edit' = edit /\ sync.at \in {"write", "fill"}
  BY DEF StepTo, SyncWrite, SyncFill
<1>3. CoreInv
  BY <1>1, <1>2 DEF StepTo, HarmlessInv, Both
<1>4. /\ Readable(sync.blob) /\ Sound(sync.blob.data, saved, wiped)
      /\ store_loaded => /\ store.creds = sync.blob.data.creds
                         /\ sync.blob.data.count <= store.count
  BY <1>2, <1>3 DEF CoreInv, SyncHandInv
<1>5. CASE SyncWrite
  <2>1. /\ sync'.at = "fill" /\ sync'.blob = sync.blob
        /\ UNCHANGED <<driverVars, historyVars>>
    BY <1>1, <1>5 DEF SyncWrite, SyncRecord
  <2>2. QED
    BY <1>2, <1>4, <2>1
       DEF Goal, CoreInv, DiskInv, SyncHandInv, EditHandInv, Writing, Holding,
           Sound, Readable, driverVars, historyVars
<1>6. CASE SyncFill
  <2>1. /\ sync'.at \in {"done", "restore"} /\ file' = sync.blob
        /\ saved' = saved \cup sync.blob.data.creds
        /\ UNCHANGED <<driverVars, wiped, signed>>
    <3>1. sync'.at \in {"done", "restore"}
      <4>1. CASE sync' = Ended("done")
        BY <4>1, SyncFields, <1>1
      <4>2. CASE sync' = [NoSync EXCEPT !.at = "restore", !.calm = sync.calm]
        BY <4>2 DEF NoSync
      <4>3. QED
        BY <1>6, <4>1, <4>2 DEF SyncFill
    <3>2. QED
      BY <1>6, <3>1 DEF SyncFill, Fill
  <2>2. /\ Readable(file') /\ SoundFile' /\ SoundLive'
        /\ saved' \subseteq file'.data.creds
    BY <1>4, <2>1 DEF Sound, SoundFile, SoundLive, Readable, driverVars
  <2>3. QED
    BY <1>2, <2>1, <2>2
       DEF Goal, CoreInv, DiskInv, SyncHandInv, EditHandInv, Writing, Holding
<1>7. QED
  BY <1>5, <1>6

LEMMA EditWritesHarmless ==
  ASSUME StepTo, EditWrite \/ EditFill PROVE Goal'
<1>1. /\ sync \in SyncRecord /\ edit \in EditRecord
      /\ mishaps = {} /\ ~raced
  BY SyncTypeParts, NothingForgotten DEF StepTo, AppTypeOK
<1>2. ~Holding(sync.at) /\ edit.at \in {"write", "fill"}
  BY DEF StepTo, EditWrite, EditFill
<1>3. ~Holding(sync'.at)
  BY <1>1, <1>2, Disturbing, SyncFields DEF EditWrite, EditFill, Holding
<1>4. CoreInv
  BY <1>1, <1>2 DEF StepTo, HarmlessInv, Both
<1>5. /\ Readable(edit.blob)
      /\ Sound(edit.blob.data, saved \ edit.creds, wiped \cup edit.creds)
  BY <1>2, <1>4 DEF CoreInv, EditHandInv
<1>6. CASE EditWrite
  <2>1. /\ edit'.at = "fill" /\ edit'.blob = edit.blob
        /\ edit'.creds = edit.creds /\ UNCHANGED historyVars
    BY <1>1, <1>6 DEF EditWrite, EditRecord
  <2>2. QED
    BY <1>3, <1>5, <2>1
       DEF Goal, CoreInv, DiskInv, SyncHandInv, EditHandInv, Writing, Holding,
           Sound, Readable, historyVars
<1>7. CASE EditFill
  <2>1. /\ edit'.at = "restore" /\ file' = edit.blob
        /\ saved' = saved \ edit.creds /\ wiped' = wiped \cup edit.creds
        /\ signed' = signed
    BY <1>7 DEF EditFill, Fill, NoEdit
  <2>2. /\ Readable(file') /\ SoundFile' /\ saved' \subseteq file'.data.creds
    BY <1>5, <2>1 DEF Sound, SoundFile, Readable
  <2>3. QED
    BY <1>3, <2>1, <2>2
       DEF Goal, CoreInv, DiskInv, SyncHandInv, EditHandInv, Writing, Holding
<1>8. QED
  BY <1>6, <1>7

\* The app's restores.
LEMMA RestoreHarmless ==
  ASSUME StepTo, RestoreSteps PROVE Goal'
<1>1. /\ sync \in SyncRecord /\ edit \in EditRecord /\ file \in File
      /\ MaxCount \in Nat /\ mishaps = {} /\ ~raced
  BY SyncTypeParts, NothingForgotten, StoreAssumption
     DEF StepTo, AppTypeOK, TypeOK, DataOK
<1>2. /\ ~Both /\ ~Writing /\ RestoreMetadata /\ snapshot' = snapshot
  BY DEF StepTo, RestoreSteps, SyncRestore, EditRestore, Both, Writing,
     Holding
<1>3. /\ ~Holding(sync'.at) /\ ~Holding(edit'.at)
      /\ sync'.at = "drain" => sync.at = "drain" /\ sync'.read = sync.read
  <2>1. CASE SyncRestore
    <3>1. ~Holding(edit.at) /\ edit' = edit /\ sync' = Ended("done")
      BY <2>1 DEF StepTo, SyncRestore
    <3>2. sync'.at = "done"
      BY <1>1, <3>1, SyncFields
    <3>3. QED
      BY <3>1, <3>2 DEF Holding
  <2>2. CASE EditRestore
    BY <1>1, <2>2, Disturbing, SyncFields
       DEF StepTo, EditRestore, Holding, NoEdit
  <2>3. QED
    BY <2>1, <2>2 DEF RestoreSteps
<1>4. SoundFile /\ saved \subseteq file.data.creds
        /\ (Readable(snapshot)
              \/ (sync.at = "drain" /\ Readable(sync.read)) => Readable(file))
  BY <1>1, <1>2 DEF StepTo, HarmlessInv, CoreInv, DiskInv
<1>5. /\ UNCHANGED <<file, saved, wiped, signed>>
      /\ store'.creds = file.data.creds /\ store'.count = file.data.count
  BY <1>1, <1>2 DEF RestoreMetadata, Adopt, diskVars, File, Content
<1>6. SoundFile' /\ SoundLive' /\ saved' \subseteq file'.data.creds
  BY <1>1, <1>4, <1>5, ContentTypes DEF SoundFile, SoundLive, Readable
<1>7. QED
  BY <1>2, <1>3, <1>4, <1>5, <1>6
     DEF Goal, CoreInv, DiskInv, SyncHandInv, EditHandInv, Writing, Holding,
         Readable

LEMMA HarmlessStep ==
  SyncTypeOK /\ DrainInv /\ HarmlessInv /\ [SyncNext]_syncVars => HarmlessInv'
<1> SUFFICES ASSUME StepTo PROVE Goal'
  BY DEF StepTo, Goal, HarmlessInv
<1>1. ~SyncWriteFails /\ ~EditViaBlob
  BY DEF StepTo, SyncWriteFails, EditViaBlob, StoreBlobWrite, Fault
<1>2. CASE UNCHANGED syncVars
  <2>1. Goal
    BY <1>2, NothingForgotten DEF StepTo, HarmlessInv, Goal
  <2>2. QED
    BY <1>2, <2>1
       DEF syncVars, appVars, vars, driverVars, diskVars, historyVars, Goal,
           CoreInv, DiskInv, SyncHandInv, EditHandInv, Both, Writing, Holding,
           Sound, SoundFile, SoundLive, Readable
<1>3. [SyncNext]_syncVars
  BY DEF StepTo
<1>4. QED
  BY <1>1, <1>2, <1>3, SyncSteps, DriverHarmless, CountReadHarmless,
     EditReadHarmless, BlobReadHarmless, StoreReadHarmless, StartHarmless,
     SyncWritesHarmless, EditWritesHarmless, RestoreHarmless
     DEF ReadSteps, FileSteps

LEMMA SyncInitHarmless == SyncInit => DrainInv /\ HarmlessInv
<1> SUFFICES ASSUME SyncInit PROVE DrainInv /\ HarmlessInv
  OBVIOUS
<1>1. sync.at = "idle" /\ edit.at = "idle" /\ ~Readable(snapshot)
  BY DEF SyncInit, NoSync, NoEdit, Missing, Readable
<1>2. mishaps = {} /\ SoundFile /\ SoundLive /\ saved \subseteq file.data.creds
  BY InitSound, InitSaved DEF SyncInit, Init, SoundInv, SavedInv, FileInv
<1>3. QED
  BY <1>1, <1>2
     DEF DrainInv, HarmlessInv, CoreInv, DiskInv, SyncHandInv, EditHandInv,
         Writing

LEMMA HarmlessInvariant == SyncSpec => []SyncTypeOK /\ []HarmlessInv
<1>1. SyncTypeOK /\ DrainInv /\ [SyncNext]_syncVars => DrainInv'
  BY DrainStep, SyncTypeParts DEF AppTypeOK
<1>2. QED
  BY <1>1, SyncInitTypes, SyncTypeStep, SyncInitHarmless, HarmlessStep, PTL
     DEF SyncSpec

\* Syncs and edits, in any order with commands and reboots, lose no saved
\* credential, bring none back and never turn the counter back, unless the
\* store changes between a read and the write that follows from it.
THEOREM SyncsAreHarmless == SyncSpec => []SyncHarmless
<1>1. SyncTypeOK /\ HarmlessInv => SyncHarmless
  <2> SUFFICES ASSUME SyncTypeOK, HarmlessInv, mishaps = {}, ~raced, Quiet
               PROVE  /\ saved \subseteq Present /\ wiped \cap Present = {}
                      /\ \A c \in Present : signed[c] <= PresentCount
    BY DEF SyncHarmless
  <2>1. SoundFile /\ SoundLive /\ saved \subseteq file.data.creds
    BY DEF HarmlessInv, Quiet, Both, Holding, CoreInv, DiskInv, Writing
  <2>2. TypeOK /\ SoundInv
    BY <2>1, SyncTypeParts DEF SoundInv
  <2>3. CounterNotBehind
    BY <2>2, StoreAssumption
       DEF TypeOK, DataOK, File, Content, SoundInv, SoundFile, SoundLive,
           CounterNotBehind, Present, PresentCount
  <2>4. QED
    BY <2>1, <2>3 DEF SoundFile, SoundLive, CounterNotBehind, Present
<1>2. QED
  BY <1>1, HarmlessInvariant, PTL

-----------------------------------------------------------------------------
(* A sync that ends well.                                                  *)

\* A store that has not been loaded is empty.
LiveInv == ~store_loaded => store.creds = {}

\* As long as nothing else changes the store the count that a sync has read is
\* right, and what it drains is the live store.
CalmInv ==
  sync.calm =>
    /\ sync.at \in {"blob", "drain", "write", "fill"} => sync.k = KernelCount
    /\ sync.at \in {"write", "fill"} /\ Draining =>
         Readable(sync.blob) /\ sync.blob.data.creds = store.creds

LEMMA LiveStep ==
  ASSUME LiveInv, [SyncNext]_syncVars PROVE LiveInv'
<1>1. CASE Driver
  BY <1>1 DEF LiveInv, Driver, Command, LoadFound, LoadFails, MakeCredential,
     Assert, AssertFails, Reset, Persist, Empty
<1>2. CASE Restart
  BY <1>2 DEF LiveInv, Restart, Reboot, Boot, Empty
<1>3. CASE RestoreSteps \/ EditViaBlob
  BY <1>3 DEF LiveInv, RestoreSteps, SyncRestore, EditRestore,
     RestoreMetadata, EditViaBlob, StoreBlobWrite
<1>4. CASE UNCHANGED driverVars
  BY <1>4 DEF LiveInv, driverVars
<1>5. QED
  BY <1>1, <1>2, <1>3, <1>4, SyncSteps
     DEF ReadSteps, FileSteps, SyncWriteFails, syncVars, vars, SyncReadCount,
         SyncReadBlob, SyncReadStoreBlob, SyncRestoreFails, EditRestoreFails,
         EditRead, SyncStart, SyncWrite, SyncFill, EditWrite, EditFill

LEMMA CalmStep ==
  ASSUME SyncTypeOK, DrainInv, CalmInv, [SyncNext]_syncVars PROVE CalmInv'
<1>1. sync \in SyncRecord
  BY SyncTypeParts DEF AppTypeOK
<1>2. CASE Disturbed
  BY <1>1, <1>2, Disturbing, SyncFields DEF CalmInv
<1>3. CASE sync' = sync /\ store' = store
  BY <1>3 DEF CalmInv, KernelCount, Draining, ShouldDrain, Count, Readable
<1>4. CASE SyncReadCount
  <2>1. sync'.at = "blob" /\ sync'.k = KernelCount
    BY <1>1, <1>4, Counts, SyncTypeParts
       DEF SyncReadCount, SyncRecord, TypeOK, DataOK, KernelCount
  <2>2. KernelCount' = KernelCount
    BY <1>4 DEF SyncReadCount, vars, driverVars, KernelCount
  <2>3. QED
    BY <2>1, <2>2 DEF CalmInv
<1>5. CASE SyncReadBlob
  <2>1. KernelCount' = KernelCount /\ sync.at = "blob"
    BY <1>5 DEF SyncReadBlob, vars, driverVars, KernelCount
  <2>2. CASE ~ShouldDrain(sync.k, Count(file)) /\ AfterRead(file)
    <3>1. CASE sync'.at = "write" /\ sync'.k = sync.k /\ sync'.read = file
                 /\ sync'.calm = sync.calm
      <4>1. Count(sync'.read) = Count(file)
        BY <3>1
      <4>2. ~ShouldDrain(sync'.k, Count(sync'.read))
        BY <2>2, <3>1, <4>1
      <4>3. Draining' <=> ShouldDrain(sync'.k, Count(sync'.read))
        BY DEF Draining, ShouldDrain, Count, Readable
      <4>4. QED
        BY <2>1, <3>1, <4>2, <4>3 DEF CalmInv
    <3>2. CASE sync'.at \in {"done", "idle"}
      BY <3>2 DEF CalmInv
    <3>3. QED
      BY <1>1, <2>2, <3>1, <3>2, Reading
  <2>3. CASE sync' = [sync EXCEPT !.at = "drain", !.read = file]
    <3>1. sync'.at = "drain" /\ sync'.k = sync.k /\ sync'.calm = sync.calm
      BY <1>1, <2>3 DEF SyncRecord
    <3>2. QED
      BY <2>1, <3>1 DEF CalmInv
  <2>4. QED
    BY <1>5, <2>2, <2>3 DEF SyncReadBlob
<1>6. CASE SyncReadStoreBlob
  <2>1. store' = store /\ KernelCount' = KernelCount
    BY <1>6 DEF SyncReadStoreBlob, vars, driverVars, KernelCount
  <2>2. CASE sync'.at \in {"done", "idle"}
    BY <2>2 DEF CalmInv
  <2>3. CASE Recoverable /\ sync'.blob = V2(store) /\ sync'.k = sync.k
    <3>1. PICK b : b = V2(store)
      OBVIOUS
    <3>2. Readable(b) /\ b.data.creds = store.creds
      BY <3>1 DEF V2, Readable
    <3>3. Readable(sync'.blob) /\ sync'.blob.data.creds = store'.creds
      BY <2>1, <2>3, <3>1, <3>2
    <3>4. sync'.k = KernelCount'
      BY <2>1, <2>3 DEF Recoverable
    <3>5. QED
      BY <3>3, <3>4 DEF CalmInv, Readable
  <2>4. QED
    BY <1>6, <2>2, <2>3, StoreReading
<1>7. CASE SyncWrite
  <2>1. /\ sync'.at = "fill" /\ sync'.k = sync.k /\ sync'.calm = sync.calm
        /\ sync'.read = sync.read /\ sync'.blob = sync.blob
        /\ store' = store /\ sync.at = "write"
    BY <1>1, <1>7 DEF SyncWrite, SyncRecord, driverVars
  <2>2. Draining' <=> Draining
    BY <2>1 DEF Draining, ShouldDrain, Count, Readable
  <2>3. QED
    BY <2>1, <2>2 DEF CalmInv, KernelCount, Readable
<1>8. CASE SyncStart \/ SyncFill \/ Restart \/ SyncRestore \/ SyncRestoreFails
        \/ SyncWriteFails
  <2>1. sync'.at \notin {"blob", "drain", "write", "fill"}
    BY <1>1, <1>8, SyncFields
       DEF SyncStart, SyncFill, Restart, SyncRestore, SyncRestoreFails,
           SyncWriteFails, NoSync, Ended
  <2>2. QED
    BY <2>1 DEF CalmInv
<1>9. QED
  BY <1>2, <1>3, <1>4, <1>5, <1>6, <1>7, <1>8, SyncSteps
     DEF Driver, ReadSteps, FileSteps, RestoreSteps, EditViaBlob, syncVars,
         appVars, vars, driverVars, EditRestoreFails, EditRead, EditWrite,
         EditFill, EditRestore

\* Where a sync that has read the file ends well.
LEMMA EndsAgreeing ==
  ASSUME SyncTypeOK, SyncReadBlob, sync'.at = "done"
  PROVE  Count(file) = sync.k
<1>1. sync \in SyncRecord /\ file \in File
  BY SyncTypeParts DEF AppTypeOK, TypeOK, DataOK
<1>2. AfterRead(file) /\ ~ShouldDrain(sync.k, Count(file))
  <2>1. sync' # [sync EXCEPT !.at = "drain", !.read = file]
    BY <1>1 DEF SyncRecord
  <2>2. QED
    BY <2>1 DEF SyncReadBlob
<1>3. Readable(file) => ~ShouldRestore(sync.k, Count(file))
  <2>1. ASSUME Readable(file), ShouldRestore(sync.k, Count(file))
        PROVE  FALSE
    <3>1. sync' = Restoring(file, file)
      BY <1>2, <2>1, Zenon DEF AfterRead
    <3>2. Restoring(file, file).at = "write"
      BY <1>1, SyncFields
    <3>3. QED
      BY <3>1, <3>2
  <2>2. QED
    BY <2>1
<1>4. ~Readable(file) => Count(file) = 0
  BY DEF Count
<1>5. /\ Count(file) \in 0..Cardinality(Creds) /\ Cardinality(Creds) \in Nat
      /\ sync.k \in 0..Cardinality(Creds)
  BY <1>1, Counts, SyncAssumption, FS_CardinalityType DEF SyncRecord
<1>6. QED
  BY <1>2, <1>3, <1>4, <1>5 DEF ShouldDrain, ShouldRestore

\* When a sync ends well, and nothing else has touched the store since it
\* started, file and driver hold equally many credentials, whatever writes have
\* failed and whatever edits went around the file before.
THEOREM SyncsAgree == SyncSpec => SyncAgrees
<1>1. SyncTypeOK /\ DrainInv /\ LiveInv /\ CalmInv /\ [SyncNext]_syncVars =>
        [sync'.at = "done" /\ sync.at # "done" /\ sync.calm /\ sync'.calm
           => Count(file') = KernelCount']_syncVars
  <2> SUFFICES ASSUME SyncTypeOK, DrainInv, LiveInv, CalmInv, SyncNext,
                      sync'.at = "done", sync.at # "done", sync.calm,
                      sync'.calm
               PROVE  Count(file') = KernelCount'
    BY DEF syncVars
  <2>1. sync \in SyncRecord /\ file \in File /\ store \in Content
    BY SyncTypeParts DEF AppTypeOK, TypeOK, DataOK
  <2>2. CASE SyncReadBlob
    <3>1. file' = file /\ store' = store /\ sync.at = "blob"
      BY <2>2 DEF SyncReadBlob, vars, diskVars, driverVars
    <3>2. QED
      BY <2>2, <3>1, EndsAgreeing DEF CalmInv, KernelCount, Count, Readable
  <2>3. CASE SyncReadStoreBlob
    <3>1. sync.at = "drain" /\ sync.k = KernelCount /\ ~Recoverable
      BY <2>3, StoreReading DEF SyncReadStoreBlob, CalmInv
    <3>2. KernelCount = 0
      BY <3>1, FS_EmptySet DEF Recoverable, LiveInv, KernelCount
    <3>3. Count(sync.read) \in 0..Cardinality(Creds)
      BY <2>1, Counts DEF SyncRecord
    <3>4. sync.k > Count(sync.read)
      BY <3>1 DEF DrainInv, Draining, ShouldDrain
    <3>5. QED
      BY <3>1, <3>2, <3>3, <3>4, SyncAssumption, FS_CardinalityType
  <2>4. CASE SyncFill
    <3>1. Draining
      BY <2>4 DEF SyncFill, NoSync
    <3>2. /\ sync.at = "fill" /\ file' = sync.blob /\ store' = store
      BY <2>4 DEF SyncFill, Fill, driverVars
    <3>3. Readable(file') /\ file'.data.creds = store'.creds
      BY <3>1, <3>2 DEF CalmInv, Readable
    <3>4. QED
      BY <3>3 DEF Count, KernelCount
  <2>5. CASE SyncRestore
    <3>1. /\ Readable(file) /\ file' = file
          /\ store' = [file.data EXCEPT !.pin = FALSE]
      BY <2>5 DEF SyncRestore, RestoreMetadata, Adopt, diskVars
    <3>2. store'.creds = file.data.creds
      BY <2>1, <3>1 DEF File, Content
    <3>3. QED
      BY <3>1, <3>2 DEF Count, KernelCount, Readable
  <2>6. CASE SyncWriteFails
    BY <2>1, <2>6, SyncFields DEF SyncWriteFails, Ended, NoSync
  <2>7. CASE Disturbed \/ sync' = sync
    BY <2>1, <2>7, Disturbing, SyncFields
  <2>8. CASE SyncReadCount \/ SyncStart \/ SyncWrite \/ Restart
          \/ SyncRestoreFails
    <3>1. CASE SyncReadCount \/ SyncWrite
      BY <2>1, <3>1 DEF SyncReadCount, SyncWrite, SyncRecord
    <3>2. CASE SyncStart \/ Restart \/ SyncRestoreFails
      BY <3>2 DEF SyncStart, Restart, SyncRestoreFails, Ended, NoSync
    <3>3. QED
      BY <2>8, <3>1, <3>2
  <2>9. QED
    BY <2>2, <2>3, <2>4, <2>5, <2>6, <2>7, <2>8
       DEF SyncNext, Driver, EditRead, EditWrite, EditFill, EditRestore,
           EditRestoreFails, EditViaBlob
<1>2. SyncInit => DrainInv /\ LiveInv /\ CalmInv
  BY DEF SyncInit, Init, NoSync, Empty, DrainInv, LiveInv, CalmInv
<1>3. SyncTypeOK /\ DrainInv /\ LiveInv /\ CalmInv /\ [SyncNext]_syncVars =>
        DrainInv' /\ LiveInv' /\ CalmInv'
  BY DrainStep, LiveStep, CalmStep, SyncTypeParts DEF AppTypeOK
<1>4. QED
  BY <1>1, <1>2, <1>3, SyncInitTypes, SyncTypeStep, PTL
     DEF SyncSpec, SyncAgrees

=============================================================================
