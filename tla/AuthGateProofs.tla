--------------------------- MODULE AuthGateProofs ---------------------------
(***************************************************************************)
(* Proofs about the local-approval gate, for every set of transports, every *)
(* length of the windows and of the wait, and any number of prompts.       *)
(***************************************************************************)
EXTENDS AuthGate, TLAPS

-----------------------------------------------------------------------------
(* Type correctness.                                                        *)

\* Every step of the gate keeps the types.
LEMMA TypeStep == TypeOK /\ [Next]_vars => TypeOK'
<1> SUFFICES ASSUME TypeOK, [Next]_vars PROVE TypeOK'
  OBVIOUS
<1> USE DEF Phases, Results, Granted, Verdicts, gateVars, pacerVars,
            workerVars, historyVars, Step, Answered
<1>1. ASSUME NEW t \in Transports, Receive(t) PROVE TypeOK'
  <2>1. FlagsOK'
    BY <1>1 DEF TypeOK, FlagsOK, Receive
  <2>2. DataOK'
    BY <1>1 DEF TypeOK, DataOK, Receive
  <2>3. QED
    BY <2>1, <2>2 DEF TypeOK
<1>2. ASSUME NEW t \in Transports, Ungated(t) PROVE TypeOK'
  <2>1. FlagsOK'
    BY <1>2 DEF TypeOK, FlagsOK, Ungated
  <2>2. DataOK'
    BY <1>2 DEF TypeOK, DataOK, Ungated
  <2>3. QED
    BY <2>1, <2>2 DEF TypeOK
<1>3. ASSUME NEW t \in Transports, AuthCooldown(t) PROVE TypeOK'
  <2>1. FlagsOK'
    BY <1>3 DEF TypeOK, FlagsOK, AuthCooldown
  <2>2. DataOK'
    BY <1>3 DEF TypeOK, DataOK, AuthCooldown
  <2>3. QED
    BY <2>1, <2>2 DEF TypeOK
<1>4. ASSUME NEW t \in Transports, AuthCacheHit(t) PROVE TypeOK'
  <2>1. FlagsOK'
    BY <1>4 DEF TypeOK, FlagsOK, AuthCacheHit
  <2>2. DataOK'
    BY <1>4 DEF TypeOK, DataOK, AuthCacheHit
  <2>3. QED
    BY <2>1, <2>2 DEF TypeOK
<1>5. ASSUME NEW t \in Transports, AuthPrompt(t) PROVE TypeOK'
  <2>1. FlagsOK'
    BY <1>5 DEF TypeOK, FlagsOK, AuthPrompt, ArmKeepalive
  <2>2. DataOK'
    BY <1>5, TicksAssumption DEF TypeOK, DataOK, AuthPrompt, ArmKeepalive
  <2>3. QED
    BY <2>1, <2>2 DEF TypeOK
<1>6. ASSUME NEW t \in Transports, Wake(t) PROVE TypeOK'
  <2>1. FlagsOK'
    BY <1>6 DEF TypeOK, FlagsOK, Wake
  <2>2. DataOK'
    BY <1>6 DEF TypeOK, DataOK, Wake
  <2>3. QED
    BY <2>1, <2>2 DEF TypeOK
<1>7. ASSUME NEW t \in Transports, Expire(t) PROVE TypeOK'
  <2>1. FlagsOK'
    BY <1>7 DEF TypeOK, FlagsOK, Expire
  <2>2. DataOK'
    BY <1>7 DEF TypeOK, DataOK, Expire
  <2>3. QED
    BY <2>1, <2>2 DEF TypeOK
<1>8. ASSUME NEW t \in Transports, ResumeTimeout(t) PROVE TypeOK'
  <2>1. FlagsOK'
    BY <1>8 DEF TypeOK, FlagsOK, ResumeTimeout, ClearPending, StartCooldown
  <2>2. DataOK'
    BY <1>8, TicksAssumption DEF TypeOK, DataOK, ResumeTimeout,
       ClearPending, StartCooldown
  <2>3. QED
    BY <2>1, <2>2 DEF TypeOK
<1>9. ASSUME NEW t \in Transports, ResumeDenied(t) PROVE TypeOK'
  <2>1. FlagsOK'
    BY <1>9 DEF TypeOK, FlagsOK, ResumeDenied, ClearPending, StartCooldown
  <2>2. DataOK'
    BY <1>9, TicksAssumption DEF TypeOK, DataOK, ResumeDenied, ClearPending,
       StartCooldown
  <2>3. QED
    BY <2>1, <2>2 DEF TypeOK
<1>10. ASSUME NEW t \in Transports, ResumeAllowed(t) PROVE TypeOK'
  <2>1. FlagsOK'
    BY <1>10 DEF TypeOK, FlagsOK, ResumeAllowed, ClearPending
  <2>2. DataOK'
    BY <1>10, TicksAssumption DEF TypeOK, DataOK, ResumeAllowed, ClearPending
  <2>3. QED
    BY <2>1, <2>2 DEF TypeOK
<1>11. ASSUME NEW t \in Transports, ClearUsb(t) PROVE TypeOK'
  <2>1. FlagsOK'
    BY <1>11 DEF TypeOK, FlagsOK, ClearUsb
  <2>2. DataOK'
    BY <1>11 DEF TypeOK, DataOK, ClearUsb
  <2>3. QED
    BY <2>1, <2>2 DEF TypeOK
<1>12. ASSUME NEW t \in Transports, CancelKeepalive(t) PROVE TypeOK'
  <2>1. FlagsOK'
    BY <1>12 DEF TypeOK, FlagsOK, CancelKeepalive
  <2>2. DataOK'
    BY <1>12 DEF TypeOK, DataOK, CancelKeepalive
  <2>3. QED
    BY <2>1, <2>2 DEF TypeOK
<1>13. ASSUME NEW t \in Transports, Respond(t) PROVE TypeOK'
  <2>1. FlagsOK'
    BY <1>13 DEF TypeOK, FlagsOK, Respond
  <2>2. DataOK'
    BY <1>13 DEF TypeOK, DataOK, Respond
  <2>3. QED
    BY <2>1, <2>2 DEF TypeOK
<1>14. ASSUME NEW v \in Verdicts, NEW id \in 1..MaxRequests,
              NEW check_id \in BOOLEAN, Decide(v, id, check_id)
       PROVE TypeOK'
  <2>1. FlagsOK'
    BY <1>14 DEF TypeOK, FlagsOK, Decide
  <2>2. DataOK'
    BY <1>14, TicksAssumption DEF TypeOK, DataOK, Decide, AnswerTo
  <2>3. QED
    BY <2>1, <2>2 DEF TypeOK
<1>15. CASE KeepaliveRun
  <2>1. FlagsOK'
    BY <1>15 DEF TypeOK, FlagsOK, KeepaliveRun
  <2>2. DataOK'
    BY <1>15 DEF TypeOK, DataOK, KeepaliveRun
  <2>3. QED
    BY <2>1, <2>2 DEF TypeOK
<1>16. CASE KeepaliveSend
  <2>1. FlagsOK'
    BY <1>16 DEF TypeOK, FlagsOK, KeepaliveSend, ArmKeepalive
  <2>2. DataOK'
    BY <1>16 DEF TypeOK, DataOK, KeepaliveSend, ArmKeepalive
  <2>3. QED
    BY <2>1, <2>2 DEF TypeOK
<1>17. CASE Tick
  <2>1. FlagsOK'
    BY <1>17 DEF TypeOK, FlagsOK, Tick, Less
  <2>2. DataOK'
    BY <1>17, TicksAssumption DEF TypeOK, DataOK, Tick, Less
  <2>3. QED
    BY <2>1, <2>2 DEF TypeOK
<1>18. CASE UNCHANGED vars
  BY <1>18 DEF vars, TypeOK, FlagsOK, DataOK
<1>19. QED
  BY <1>1, <1>2, <1>3, <1>4, <1>5, <1>6, <1>7, <1>8, <1>9, <1>10, <1>11,
     <1>12, <1>13, <1>14, <1>15, <1>16, <1>17, <1>18
     DEF Next, WorkerStep

\* The state of the gate, the pacer and the workers keeps its types; in
\* particular neither window is ever longer than its constant.
THEOREM TypeCorrect == Spec => []TypeOK
<1>1. Init => TypeOK
  <2>1. Init => FlagsOK
    BY DEF Init, FlagsOK
  <2>2. Init => DataOK
    BY TicksAssumption DEF Init, DataOK, Phases, Results, Granted, Verdicts
  <2>3. QED
    BY <2>1, <2>2 DEF TypeOK
<1>2. QED
  BY <1>1, TypeStep, PTL DEF Spec

-----------------------------------------------------------------------------
(* A refusal closes everything an earlier approval opened.                  *)

\* What could let a request through rests on the last accepted answer: a
\* decision slot that says allow, and an open grant window.
AnswerInv ==
  /\ auth_allowed => last_answer = "allow"
  /\ cache_left > 0 => last_answer = "allow"

LEMMA AnswerInvariant == Spec => []AnswerInv
<1>1. Init => AnswerInv
  BY DEF Init, AnswerInv
<1>2. TypeOK /\ AnswerInv /\ [Next]_vars => AnswerInv'
  <2> SUFFICES ASSUME TypeOK, AnswerInv, [Next]_vars PROVE AnswerInv'
    OBVIOUS
  <2> USE DEF TypeOK, DataOK, AnswerInv, Verdicts, gateVars, pacerVars,
              workerVars, historyVars, Step, Answered
  <2>1. ASSUME NEW t \in Transports, Receive(t) PROVE AnswerInv'
    BY <2>1 DEF Receive
  <2>2. ASSUME NEW t \in Transports, Ungated(t) PROVE AnswerInv'
    BY <2>2 DEF Ungated
  <2>3. ASSUME NEW t \in Transports, AuthCooldown(t) PROVE AnswerInv'
    BY <2>3 DEF AuthCooldown
  <2>4. ASSUME NEW t \in Transports, AuthCacheHit(t) PROVE AnswerInv'
    BY <2>4 DEF AuthCacheHit
  <2>5. ASSUME NEW t \in Transports, AuthPrompt(t) PROVE AnswerInv'
    BY <2>5 DEF AuthPrompt, ArmKeepalive
  <2>6. ASSUME NEW t \in Transports, Wake(t) PROVE AnswerInv'
    BY <2>6 DEF Wake
  <2>7. ASSUME NEW t \in Transports, Expire(t) PROVE AnswerInv'
    BY <2>7 DEF Expire
  <2>8. ASSUME NEW t \in Transports, ResumeTimeout(t) PROVE AnswerInv'
    BY <2>8 DEF ResumeTimeout, ClearPending, StartCooldown
  <2>9. ASSUME NEW t \in Transports, ResumeDenied(t) PROVE AnswerInv'
    BY <2>9 DEF ResumeDenied, ClearPending, StartCooldown
  <2>10. ASSUME NEW t \in Transports, ResumeAllowed(t) PROVE AnswerInv'
    BY <2>10 DEF ResumeAllowed, ClearPending
  <2>11. ASSUME NEW t \in Transports, ClearUsb(t) PROVE AnswerInv'
    BY <2>11 DEF ClearUsb
  <2>12. ASSUME NEW t \in Transports, CancelKeepalive(t) PROVE AnswerInv'
    BY <2>12 DEF CancelKeepalive
  <2>13. ASSUME NEW t \in Transports, Respond(t) PROVE AnswerInv'
    BY <2>13 DEF Respond
  <2>14. ASSUME NEW v \in Verdicts, NEW id \in 1..MaxRequests,
                NEW check_id \in BOOLEAN, Decide(v, id, check_id)
         PROVE AnswerInv'
    <3>1. auth_allowed' => last_answer' = "allow"
      BY <2>14, Zenon DEF Decide
    <3>2. cache_left' > 0 => last_answer' = "allow"
      BY <2>14 DEF Decide
    <3>3. QED
      BY <3>1, <3>2
  <2>15. CASE KeepaliveRun
    BY <2>15 DEF KeepaliveRun
  <2>16. CASE KeepaliveSend
    BY <2>16 DEF KeepaliveSend, ArmKeepalive
  <2>17. CASE Tick
    BY <2>17 DEF Tick, Less
  <2>18. CASE UNCHANGED vars
    BY <2>18 DEF vars
  <2>19. QED
    BY <2>1, <2>2, <2>3, <2>4, <2>5, <2>6, <2>7, <2>8, <2>9, <2>10, <2>11,
       <2>12, <2>13, <2>14, <2>15, <2>16, <2>17, <2>18
       DEF Next, WorkerStep
<1>3. QED
  BY <1>1, <1>2, TypeCorrect, PTL DEF Spec

\* The gate lets no request of any transport through after a refusal has been
\* accepted until the user approves a later prompt (RefusalIsFinal).
THEOREM RefusalFinal == Spec => RefusalIsFinal
<1> DEFINE LetThrough(t) == result[t] \notin Granted /\ result'[t] \in Granted
<1>1. TypeOK /\ AnswerInv /\ [Next]_vars
        => [\A t \in Transports : LetThrough(t) => last_answer = "allow"]_vars
  <2> SUFFICES ASSUME TypeOK, AnswerInv, [Next]_vars,
                      NEW u \in Transports, LetThrough(u)
               PROVE last_answer = "allow"
    OBVIOUS
  <2> USE DEF TypeOK, DataOK, AnswerInv, Results, Granted, Verdicts, gateVars,
              pacerVars, workerVars, historyVars, Step, Answered
  <2>1. ASSUME NEW t \in Transports, Receive(t) PROVE last_answer = "allow"
    BY <2>1 DEF Receive
  <2>2. ASSUME NEW t \in Transports, Ungated(t) PROVE last_answer = "allow"
    BY <2>2 DEF Ungated
  <2>3. ASSUME NEW t \in Transports, AuthCooldown(t)
        PROVE  last_answer = "allow"
    BY <2>3 DEF AuthCooldown
  <2>4. ASSUME NEW t \in Transports, AuthCacheHit(t)
        PROVE  last_answer = "allow"
    BY <2>4 DEF AuthCacheHit
  <2>5. ASSUME NEW t \in Transports, AuthPrompt(t) PROVE last_answer = "allow"
    BY <2>5 DEF AuthPrompt, ArmKeepalive
  <2>6. ASSUME NEW t \in Transports, Wake(t) PROVE last_answer = "allow"
    BY <2>6 DEF Wake
  <2>7. ASSUME NEW t \in Transports, Expire(t) PROVE last_answer = "allow"
    BY <2>7 DEF Expire
  <2>8. ASSUME NEW t \in Transports, ResumeTimeout(t)
        PROVE  last_answer = "allow"
    BY <2>8 DEF ResumeTimeout, ClearPending, StartCooldown
  <2>9. ASSUME NEW t \in Transports, ResumeDenied(t)
        PROVE  last_answer = "allow"
    BY <2>9 DEF ResumeDenied, ClearPending, StartCooldown
  <2>10. ASSUME NEW t \in Transports, ResumeAllowed(t)
        PROVE  last_answer = "allow"
    BY <2>10 DEF ResumeAllowed, ClearPending
  <2>11. ASSUME NEW t \in Transports, ClearUsb(t) PROVE last_answer = "allow"
    BY <2>11 DEF ClearUsb
  <2>12. ASSUME NEW t \in Transports, CancelKeepalive(t)
        PROVE  last_answer = "allow"
    BY <2>12 DEF CancelKeepalive
  <2>13. ASSUME NEW t \in Transports, Respond(t) PROVE last_answer = "allow"
    BY <2>13 DEF Respond
  <2>14. ASSUME NEW v \in Verdicts, NEW id \in 1..MaxRequests,
                NEW check_id \in BOOLEAN, Decide(v, id, check_id)
         PROVE last_answer = "allow"
    BY <2>14 DEF Decide
  <2>15. CASE KeepaliveRun
    BY <2>15 DEF KeepaliveRun
  <2>16. CASE KeepaliveSend
    BY <2>16 DEF KeepaliveSend, ArmKeepalive
  <2>17. CASE Tick
    BY <2>17 DEF Tick, Less
  <2>18. CASE UNCHANGED vars
    BY <2>18 DEF vars
  <2>19. QED
    BY <2>1, <2>2, <2>3, <2>4, <2>5, <2>6, <2>7, <2>8, <2>9, <2>10, <2>11,
       <2>12, <2>13, <2>14, <2>15, <2>16, <2>17, <2>18
       DEF Next, WorkerStep
<1>2. QED
  BY <1>1, TypeCorrect, AnswerInvariant, PTL DEF Spec, RefusalIsFinal

-----------------------------------------------------------------------------
(* The two windows.                                                         *)

\* The grant window and the cooldown are never open together.
THEOREM WindowsNeverOverlap == Spec => []WindowsExclusive
<1>1. Init => WindowsExclusive
  BY DEF Init, WindowsExclusive
<1>2. TypeOK /\ WindowsExclusive /\ [Next]_vars => WindowsExclusive'
  <2> SUFFICES ASSUME TypeOK, WindowsExclusive, [Next]_vars
               PROVE WindowsExclusive'
    OBVIOUS
  <2> USE DEF TypeOK, DataOK, WindowsExclusive, gateVars, pacerVars,
              workerVars, historyVars, Step, Answered
  <2>1. ASSUME NEW t \in Transports, Receive(t) PROVE WindowsExclusive'
    BY <2>1 DEF Receive
  <2>2. ASSUME NEW t \in Transports, Ungated(t) PROVE WindowsExclusive'
    BY <2>2 DEF Ungated
  <2>3. ASSUME NEW t \in Transports, AuthCooldown(t) PROVE WindowsExclusive'
    BY <2>3 DEF AuthCooldown
  <2>4. ASSUME NEW t \in Transports, AuthCacheHit(t) PROVE WindowsExclusive'
    BY <2>4 DEF AuthCacheHit
  <2>5. ASSUME NEW t \in Transports, AuthPrompt(t) PROVE WindowsExclusive'
    BY <2>5 DEF AuthPrompt, ArmKeepalive
  <2>6. ASSUME NEW t \in Transports, Wake(t) PROVE WindowsExclusive'
    BY <2>6 DEF Wake
  <2>7. ASSUME NEW t \in Transports, Expire(t) PROVE WindowsExclusive'
    BY <2>7 DEF Expire
  <2>8. ASSUME NEW t \in Transports, ResumeTimeout(t) PROVE WindowsExclusive'
    BY <2>8 DEF ResumeTimeout, ClearPending, StartCooldown
  <2>9. ASSUME NEW t \in Transports, ResumeDenied(t) PROVE WindowsExclusive'
    BY <2>9 DEF ResumeDenied, ClearPending, StartCooldown
  <2>10. ASSUME NEW t \in Transports, ResumeAllowed(t) PROVE WindowsExclusive'
    BY <2>10 DEF ResumeAllowed, ClearPending
  <2>11. ASSUME NEW t \in Transports, ClearUsb(t) PROVE WindowsExclusive'
    BY <2>11 DEF ClearUsb
  <2>12. ASSUME NEW t \in Transports, CancelKeepalive(t)
        PROVE  WindowsExclusive'
    BY <2>12 DEF CancelKeepalive
  <2>13. ASSUME NEW t \in Transports, Respond(t) PROVE WindowsExclusive'
    BY <2>13 DEF Respond
  <2>14. ASSUME NEW v \in Verdicts, NEW id \in 1..MaxRequests,
                NEW check_id \in BOOLEAN, Decide(v, id, check_id)
         PROVE WindowsExclusive'
    BY <2>14 DEF Decide
  <2>15. CASE KeepaliveRun
    BY <2>15 DEF KeepaliveRun
  <2>16. CASE KeepaliveSend
    BY <2>16 DEF KeepaliveSend, ArmKeepalive
  <2>17. CASE Tick
    BY <2>17 DEF Tick, Less
  <2>18. CASE UNCHANGED vars
    BY <2>18 DEF vars
  <2>19. QED
    BY <2>1, <2>2, <2>3, <2>4, <2>5, <2>6, <2>7, <2>8, <2>9, <2>10, <2>11,
       <2>12, <2>13, <2>14, <2>15, <2>16, <2>17, <2>18
       DEF Next, WorkerStep
<1>3. QED
  BY <1>1, <1>2, TypeCorrect, PTL DEF Spec

-----------------------------------------------------------------------------
(* The keepalive pacer.                                                     *)

\* auth_usb names a transport whose handler has not returned and been cleared
\* yet, and a running pacer holds back the response of the transport it
\* sampled.
PacerInv ==
  /\ auth_usb # None =>
       pc[auth_usb] \in {"dispatched", "waiting", "woken", "expired", "returned"}
  /\ keepalive_usb # None => pc[keepalive_usb] # "idle"

\* No keepalive frame is sent on a transport whose transaction is over, with
\* any number of transports sharing the one pacer.
THEOREM KeepaliveStopsInTime == Spec => []KeepaliveWithinTransaction
<1>1. Init => PacerInv
  BY DEF Init, PacerInv
<1>2. TypeOK /\ PacerInv /\ [Next]_vars => PacerInv'
  <2> SUFFICES ASSUME TypeOK, PacerInv, [Next]_vars PROVE PacerInv'
    OBVIOUS
  <2> USE NoneAssumption
      DEF TypeOK, DataOK, PacerInv, Phases, gateVars, pacerVars, workerVars,
          historyVars, Step, Answered
  <2>1. ASSUME NEW t \in Transports, Receive(t) PROVE PacerInv'
    BY <2>1 DEF Receive
  <2>2. ASSUME NEW t \in Transports, Ungated(t) PROVE PacerInv'
    BY <2>2 DEF Ungated
  <2>3. ASSUME NEW t \in Transports, AuthCooldown(t) PROVE PacerInv'
    BY <2>3 DEF AuthCooldown
  <2>4. ASSUME NEW t \in Transports, AuthCacheHit(t) PROVE PacerInv'
    BY <2>4 DEF AuthCacheHit
  <2>5. ASSUME NEW t \in Transports, AuthPrompt(t) PROVE PacerInv'
    BY <2>5 DEF AuthPrompt, ArmKeepalive
  <2>6. ASSUME NEW t \in Transports, Wake(t) PROVE PacerInv'
    BY <2>6 DEF Wake
  <2>7. ASSUME NEW t \in Transports, Expire(t) PROVE PacerInv'
    BY <2>7 DEF Expire
  <2>8. ASSUME NEW t \in Transports, ResumeTimeout(t) PROVE PacerInv'
    BY <2>8 DEF ResumeTimeout, ClearPending, StartCooldown
  <2>9. ASSUME NEW t \in Transports, ResumeDenied(t) PROVE PacerInv'
    BY <2>9 DEF ResumeDenied, ClearPending, StartCooldown
  <2>10. ASSUME NEW t \in Transports, ResumeAllowed(t) PROVE PacerInv'
    BY <2>10 DEF ResumeAllowed, ClearPending
  <2>11. ASSUME NEW t \in Transports, ClearUsb(t) PROVE PacerInv'
    BY <2>11 DEF ClearUsb
  <2>12. ASSUME NEW t \in Transports, CancelKeepalive(t) PROVE PacerInv'
    BY <2>12 DEF CancelKeepalive
  <2>13. ASSUME NEW t \in Transports, Respond(t) PROVE PacerInv'
    BY <2>13 DEF Respond
  <2>14. ASSUME NEW v \in Verdicts, NEW id \in 1..MaxRequests,
                NEW check_id \in BOOLEAN, Decide(v, id, check_id)
         PROVE PacerInv'
    BY <2>14 DEF Decide
  <2>15. CASE KeepaliveRun
    BY <2>15 DEF KeepaliveRun
  <2>16. CASE KeepaliveSend
    BY <2>16 DEF KeepaliveSend, ArmKeepalive
  <2>17. CASE Tick
    BY <2>17 DEF Tick, Less
  <2>18. CASE UNCHANGED vars
    BY <2>18 DEF vars
  <2>19. QED
    BY <2>1, <2>2, <2>3, <2>4, <2>5, <2>6, <2>7, <2>8, <2>9, <2>10, <2>11,
       <2>12, <2>13, <2>14, <2>15, <2>16, <2>17, <2>18
       DEF Next, WorkerStep
<1>3. PacerInv => KeepaliveWithinTransaction
  BY DEF PacerInv, KeepaliveWithinTransaction
<1>4. QED
  BY <1>1, <1>2, <1>3, TypeCorrect, PTL DEF Spec

-----------------------------------------------------------------------------
(* A gate that one transport uses.                                          *)

OneTransport == \A t, u \in Transports : t = u

\* With one transport the decision slot belongs to its request from the
\* prompt to the end of the wait: it is pending, both windows are closed, the
\* slot says what the user answered during the wait (after its end an answer
\* can only be late), and the pacer works for it.
SoloInv ==
  \A t \in Transports :
    /\ pc[t] \in {"waiting", "woken", "expired"} =>
         /\ request_id[t] = auth_request_id
         /\ cache_left = 0 /\ deny_left = 0
         /\ result[t] = "none"
    /\ auth_pending <=> pc[t] \in {"waiting", "woken", "expired"}
    /\ pc[t] = "dispatched" => result[t] = "none" /\ answer[t] = "none"
    /\ pc[t] = "waiting" => (auth_decided <=> answer[t] # "none")
    /\ pc[t] = "woken" => answer[t] # "none"
    /\ pc[t] \in {"waiting", "woken"} => answer[t] # "late"
    /\ pc[t] \in {"waiting", "woken"} => (auth_allowed <=> answer[t] = "allow")
    /\ pc[t] = "expired" => answer[t] \in {"none", "late"}
    /\ pc[t] \in {"dispatched", "waiting", "woken", "expired", "returned"} =>
         auth_usb = t
    /\ pc[t] = "waiting" /\ ~auth_decided =>
         keepalive_armed \/ keepalive_usb = t
    /\ keepalive_usb \in {t, None}

SoloPart == SoloInv /\ AnswerDecidesOutcome

LEMMA SoloInvariant ==
  ASSUME OneTransport PROVE Spec => []SoloPart
<1>1. Init => SoloPart
  BY DEF Init, SoloPart, SoloInv, AnswerDecidesOutcome
<1>2. TypeOK /\ SoloPart /\ [Next]_vars => SoloPart'
  <2> SUFFICES ASSUME TypeOK, SoloPart, [Next]_vars PROVE SoloPart'
    OBVIOUS
  <2> USE OneTransport, NoneAssumption
      DEF OneTransport, TypeOK, DataOK, SoloPart, SoloInv,
          AnswerDecidesOutcome, Verdicts, gateVars, pacerVars,
          workerVars, historyVars, Step, Answered
  <2>1. ASSUME NEW t \in Transports, Receive(t) PROVE SoloPart'
    BY <2>1 DEF Receive
  <2>2. ASSUME NEW t \in Transports, Ungated(t) PROVE SoloPart'
    BY <2>2 DEF Ungated
  <2>3. ASSUME NEW t \in Transports, AuthCooldown(t) PROVE SoloPart'
    BY <2>3 DEF AuthCooldown
  <2>4. ASSUME NEW t \in Transports, AuthCacheHit(t) PROVE SoloPart'
    BY <2>4 DEF AuthCacheHit
  <2>5. ASSUME NEW t \in Transports, AuthPrompt(t) PROVE SoloPart'
    BY <2>5 DEF AuthPrompt, ArmKeepalive
  <2>6. ASSUME NEW t \in Transports, Wake(t) PROVE SoloPart'
    BY <2>6 DEF Wake
  <2>7. ASSUME NEW t \in Transports, Expire(t) PROVE SoloPart'
    BY <2>7 DEF Expire
  <2>8. ASSUME NEW t \in Transports, ResumeTimeout(t) PROVE SoloPart'
    BY <2>8 DEF ResumeTimeout, ClearPending, StartCooldown
  <2>9. ASSUME NEW t \in Transports, ResumeDenied(t) PROVE SoloPart'
    BY <2>9 DEF ResumeDenied, ClearPending, StartCooldown
  <2>10. ASSUME NEW t \in Transports, ResumeAllowed(t) PROVE SoloPart'
    BY <2>10 DEF ResumeAllowed, ClearPending
  <2>11. ASSUME NEW t \in Transports, ClearUsb(t) PROVE SoloPart'
    BY <2>11 DEF ClearUsb
  <2>12. ASSUME NEW t \in Transports, CancelKeepalive(t) PROVE SoloPart'
    BY <2>12 DEF CancelKeepalive
  <2>13. ASSUME NEW t \in Transports, Respond(t) PROVE SoloPart'
    BY <2>13 DEF Respond
  <2>14. ASSUME NEW v \in Verdicts, NEW id \in 1..MaxRequests,
                NEW check_id \in BOOLEAN, Decide(v, id, check_id)
         PROVE SoloPart'
    <3>1. auth_pending /\ auth_decided' /\ (auth_allowed' <=> v = "allow")
      BY <2>14, Zenon DEF Decide
    <3>2. \A t \in Transports :
            /\ pc[t] \in {"waiting", "woken"} => answer'[t] = v
            /\ pc[t] = "expired" => answer'[t] = "late"
            /\ pc[t] \notin {"waiting", "woken", "expired"}
                 => answer'[t] = answer[t]
      BY <2>14 DEF Decide, AnswerTo
    <3>3. /\ UNCHANGED <<auth_pending, auth_request_id, deny_left, pc, result,
                         request_id, auth_usb, keepalive_armed, keepalive_usb>>
          /\ cache_left' \in {0, cache_left}
      BY <2>14 DEF Decide
    <3>4. SoloInv'
      BY <3>1, <3>2, <3>3
    <3>5. AnswerDecidesOutcome'
      BY <3>1, <3>2, <3>3
    <3>6. QED
      BY <3>4, <3>5
  <2>15. CASE KeepaliveRun
    BY <2>15 DEF KeepaliveRun
  <2>16. CASE KeepaliveSend
    BY <2>16 DEF KeepaliveSend, ArmKeepalive
  <2>17. CASE Tick
    BY <2>17 DEF Tick, Less
  <2>18. CASE UNCHANGED vars
    BY <2>18 DEF vars
  <2>19. QED
    BY <2>1, <2>2, <2>3, <2>4, <2>5, <2>6, <2>7, <2>8, <2>9, <2>10, <2>11,
       <2>12, <2>13, <2>14, <2>15, <2>16, <2>17, <2>18
       DEF Next, WorkerStep
<1>3. QED
  BY <1>1, <1>2, TypeCorrect, PTL DEF Spec

\* With one transport a request is granted, denied or timed out exactly as
\* the user answered (or did not answer) its own prompt.
THEOREM SoloAnswerDecides ==
  ASSUME OneTransport PROVE Spec => []AnswerDecidesOutcome
BY SoloInvariant, PTL DEF SoloPart

\* With one transport the pacer covers every undecided wait.
THEOREM SoloKeepalive ==
  ASSUME OneTransport PROVE Spec => []KeepaliveCoversWait
<1>1. SoloPart => KeepaliveCoversWait
  BY DEF SoloPart, SoloInv, KeepaliveCoversWait
<1>2. QED
  BY <1>1, SoloInvariant, PTL

\* With one transport nothing is let through while the cooldown of a refused
\* or unanswered prompt runs.
THEOREM SoloCooldown ==
  ASSUME OneTransport PROVE Spec => CooldownBlocks
<1> DEFINE LetThrough(t) == result[t] \notin Granted /\ result'[t] \in Granted
<1>1. TypeOK /\ SoloPart /\ [Next]_vars
        => [\A t \in Transports : LetThrough(t) => deny_left = 0]_vars
  <2> SUFFICES ASSUME TypeOK, SoloPart, [Next]_vars,
                      NEW u \in Transports, LetThrough(u)
               PROVE deny_left = 0
    OBVIOUS
  <2> USE DEF TypeOK, DataOK, SoloPart, SoloInv, Results, Granted, Verdicts,
              gateVars, pacerVars, workerVars, historyVars, Step, Answered
  <2>1. ASSUME NEW t \in Transports, Receive(t) PROVE deny_left = 0
    BY <2>1 DEF Receive
  <2>2. ASSUME NEW t \in Transports, Ungated(t) PROVE deny_left = 0
    BY <2>2 DEF Ungated
  <2>3. ASSUME NEW t \in Transports, AuthCooldown(t) PROVE deny_left = 0
    BY <2>3 DEF AuthCooldown
  <2>4. ASSUME NEW t \in Transports, AuthCacheHit(t) PROVE deny_left = 0
    BY <2>4 DEF AuthCacheHit
  <2>5. ASSUME NEW t \in Transports, AuthPrompt(t) PROVE deny_left = 0
    BY <2>5 DEF AuthPrompt, ArmKeepalive
  <2>6. ASSUME NEW t \in Transports, Wake(t) PROVE deny_left = 0
    BY <2>6 DEF Wake
  <2>7. ASSUME NEW t \in Transports, Expire(t) PROVE deny_left = 0
    BY <2>7 DEF Expire
  <2>8. ASSUME NEW t \in Transports, ResumeTimeout(t) PROVE deny_left = 0
    BY <2>8 DEF ResumeTimeout, ClearPending, StartCooldown
  <2>9. ASSUME NEW t \in Transports, ResumeDenied(t) PROVE deny_left = 0
    BY <2>9 DEF ResumeDenied, ClearPending, StartCooldown
  <2>10. ASSUME NEW t \in Transports, ResumeAllowed(t) PROVE deny_left = 0
    BY <2>10 DEF ResumeAllowed, ClearPending
  <2>11. ASSUME NEW t \in Transports, ClearUsb(t) PROVE deny_left = 0
    BY <2>11 DEF ClearUsb
  <2>12. ASSUME NEW t \in Transports, CancelKeepalive(t) PROVE deny_left = 0
    BY <2>12 DEF CancelKeepalive
  <2>13. ASSUME NEW t \in Transports, Respond(t) PROVE deny_left = 0
    BY <2>13 DEF Respond
  <2>14. ASSUME NEW v \in Verdicts, NEW id \in 1..MaxRequests,
                NEW check_id \in BOOLEAN, Decide(v, id, check_id)
         PROVE deny_left = 0
    BY <2>14 DEF Decide
  <2>15. CASE KeepaliveRun
    BY <2>15 DEF KeepaliveRun
  <2>16. CASE KeepaliveSend
    BY <2>16 DEF KeepaliveSend, ArmKeepalive
  <2>17. CASE Tick
    BY <2>17 DEF Tick, Less
  <2>18. CASE UNCHANGED vars
    BY <2>18 DEF vars
  <2>19. QED
    BY <2>1, <2>2, <2>3, <2>4, <2>5, <2>6, <2>7, <2>8, <2>9, <2>10, <2>11,
       <2>12, <2>13, <2>14, <2>15, <2>16, <2>17, <2>18
       DEF Next, WorkerStep
<1>2. QED
  BY <1>1, TypeCorrect, SoloInvariant, PTL DEF Spec, CooldownBlocks

=============================================================================
