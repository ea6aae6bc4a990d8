---------------------------- MODULE MCStoreSync -----------------------------
(* Two credentials; the file an earlier boot left is missing or has one.    *)
EXTENDS StoreSync

LOCAL T == INSTANCE TLC

MCOldFiles ==
  {[kind |-> "v2", data |-> [creds |-> {c}, count |-> 0, pin |-> FALSE]]
     : c \in Creds}

MCSymmetry == T!Permutations(Creds)

\* No step reads flash when no power is lost; the history only matters to
\* SyncHarmless, which promises nothing once there was a mishap or a race.
MCView ==
  IF raced \/ mishaps # {} THEN <<driverVars, file, faults, appVars, raced>>
  ELSE <<driverVars, file, historyVars, appVars>>
=============================================================================
