--------------------------- MODULE MCAuthenticator --------------------------
(* Small stores for the CTAP commands: the store found at the first load    *)
(* and, where the companion edits it meanwhile, the stores it puts in.      *)
EXTENDS Authenticator, TLC

CONSTANTS rp1, rp2, usb, lan

C(i, rp) == [id |-> i, rp |-> rp]

EmptyStore == [s \in Slots |-> Free]
With(s, c) == [EmptyStore EXCEPT ![s] = c]

MCTwo == {[EmptyStore EXCEPT ![1] = C(1, rp1), ![2] = C(2, rp1)]}
MCRestores == {With(2, C(2, rp1)), With(1, C(1, rp1))}
NoStores == {}
Swap == Permutations({usb, lan})

\* The last request and response of an idle transport only matter while its
\* walk goes on, and so does the walk.
Matters(t) == walker = t \/ pc[t] # "idle"
MCView ==
  <<store, lock, contVars, pc, slots, served, walker,
    [t \in Transports |->
       IF Matters(t) THEN <<cmd[t], req[t], resp[t]>> ELSE <<>>],
    IF walker = None THEN <<>> ELSE walk>>
=============================================================================
