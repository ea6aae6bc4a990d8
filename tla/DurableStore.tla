---------------------------- MODULE DurableStore ----------------------------
(***************************************************************************)
(* What a relying party and the user may expect of the driver's credential *)
(* store: a set of credentials that registrations enlarge, that only an    *)
(* approved reset empties, and whose signature counters only grow.  There  *)
(* is no memory, no file and no reboot here.  Once something has gone      *)
(* wrong that the store does not promise to survive (hurt), nothing is     *)
(* promised.                                                               *)
(***************************************************************************)
EXTENDS Naturals

CONSTANT Creds   \* credentials that can be registered

VARIABLES
  creds,         \* the registered credentials
  seen,          \* the last counter the relying party of each has seen
  hurt

vars == <<creds, seen, hurt>>

Init == creds \subseteq Creds /\ seen \in [Creds -> Nat] /\ hurt = FALSE

\* A registration shows the counter where it is.
Register(c) ==
  /\ c \notin creds /\ creds' = creds \cup {c}
  /\ seen' = [seen EXCEPT ![c] = seen'[c]]
  /\ UNCHANGED hurt

\* An assertion shows a counter its relying party has not seen yet.
Assert(c) ==
  /\ c \in creds
  /\ seen'[c] > seen[c] /\ seen' = [seen EXCEPT ![c] = seen'[c]]
  /\ UNCHANGED <<creds, hurt>>

Wipe ==
  /\ creds' = {} /\ seen' = [c \in Creds |-> 0]
  /\ UNCHANGED hurt

Hurt == hurt'

Next ==
  \/ \E c \in Creds : Register(c) \/ Assert(c)
  \/ Wipe \/ Hurt

Spec == Init /\ [][Next]_vars

=============================================================================
