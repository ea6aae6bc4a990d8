------------------------------- MODULE MCStore ------------------------------
(* The store with two credentials; the file an earlier boot left may be     *)
(* missing, a current one, or a v1 file that still carries PIN state.       *)
EXTENDS Store

CONSTANTS c1, c2

MCOldFiles ==
  {[kind |-> "v2", data |-> [creds |-> {c1}, count |-> 1, pin |-> FALSE]],
   [kind |-> "v1", data |-> [creds |-> {c1}, count |-> 0, pin |-> TRUE]],
   [kind |-> "v1", data |-> [creds |-> {c1, c2}, count |-> 1, pin |-> FALSE]]}

MCBlobs == {[creds |-> {c2}, count |-> 1, pin |-> FALSE],
            [creds |-> {c1}, count |-> 0, pin |-> TRUE]}
NoBlobs == {}
=============================================================================
