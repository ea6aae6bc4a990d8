-------------------------- MODULE CompanionProofs ---------------------------
(***************************************************************************)
(* Proofs about the companion app and the gate together, for every set of  *)
(* transports, all windows and any number of prompts.                      *)
(***************************************************************************)
EXTENDS CompanionPrompt, AuthGateProofs

-----------------------------------------------------------------------------
(* The companion is one of the users of the gate that AuthGate allows.      *)

\* A request that waits for a decision has an id.
IdInv == auth_pending => auth_request_id > 0

\* A step of the companion and the gate is a step of the gate, or does not
\* concern it.
LEMMA CompanionStep ==
  TypeOK /\ IdInv /\ [CompanionNext]_<<vars, companionVars>> => [Next]_vars
<1> SUFFICES ASSUME TypeOK, IdInv, [CompanionNext]_<<vars, companionVars>>
             PROVE  [Next]_vars
  OBVIOUS
<1>1. CASE Companion /\ UNCHANGED vars
  BY <1>1
<1>2. CASE Gate
  BY <1>2 DEF Gate, Next
<1>3. CASE DecisionTaken
  <2> DEFINE v == IF verdict.ok THEN "allow" ELSE "deny"
  <2>1. Decide(v, polled.id, TRUE)
    BY <1>3 DEF DecisionTaken
  <2>2. v \in Verdicts
    BY DEF Verdicts
  <2>3. polled.id \in 1..MaxRequests
    BY <2>1, TicksAssumption DEF Decide, IdInv, TypeOK, DataOK
  <2>4. QED
    BY <2>1, <2>2, <2>3 DEF Next
<1>4. CASE DecisionRefused
  BY <1>4 DEF DecisionRefused
<1>5. CASE UNCHANGED <<vars, companionVars>>
  BY <1>5
<1>6. QED
  BY <1>1, <1>2, <1>3, <1>4, <1>5 DEF CompanionNext

\* Only a new prompt changes the request id, and it takes a higher one.
LEMMA IdStep ==
  TypeOK /\ IdInv /\ [Next]_vars =>
    IdInv' /\ auth_request_id <= auth_request_id'
<1> SUFFICES ASSUME TypeOK, IdInv, [Next]_vars
             PROVE  IdInv' /\ auth_request_id <= auth_request_id'
  OBVIOUS
<1> auth_request_id \in Nat
  BY TicksAssumption DEF TypeOK, DataOK
<1> USE DEF IdInv, gateVars
<1>1. ASSUME NEW t \in Transports, Receive(t) \/ WorkerStep(t)
      PROVE  IdInv' /\ auth_request_id <= auth_request_id'
  <2>1. CASE AuthPrompt(t)
    BY <2>1 DEF AuthPrompt
  <2>2. CASE ResumeTimeout(t) \/ ResumeDenied(t) \/ ResumeAllowed(t)
    BY <2>2 DEF ResumeTimeout, ResumeDenied, ResumeAllowed, ClearPending
  <2>3. CASE UNCHANGED gateVars
    BY <2>3
  <2>4. QED
    BY <1>1, <2>1, <2>2, <2>3 DEF Receive, WorkerStep, Ungated, AuthCooldown,
       AuthCacheHit, Wake, Expire, ClearUsb, CancelKeepalive, Respond
<1>2. ASSUME NEW v \in Verdicts, NEW id \in 1..MaxRequests,
             NEW check_id \in BOOLEAN, Decide(v, id, check_id)
      PROVE  IdInv' /\ auth_request_id <= auth_request_id'
  BY <1>2 DEF Decide
<1>3. CASE KeepaliveRun \/ KeepaliveSend \/ Tick \/ UNCHANGED vars
  BY <1>3 DEF KeepaliveRun, KeepaliveSend, Tick, vars
<1>4. QED
  BY <1>1, <1>2, <1>3 DEF Next

\* Under the companion too the gate keeps its types, and every pending request
\* has an id.
LEMMA CompanionGate == CompanionSpec => [](TypeOK /\ IdInv)
<1>1. Init => TypeOK /\ IdInv
  <2>1. Init => FlagsOK /\ IdInv
    BY DEF Init, FlagsOK, IdInv
  <2>2. Init => DataOK
    BY TicksAssumption DEF Init, DataOK, Phases, Results, Granted, Verdicts
  <2>3. QED
    BY <2>1, <2>2 DEF TypeOK
<1>2. TypeOK /\ IdInv /\ [CompanionNext]_<<vars, companionVars>>
        => (TypeOK /\ IdInv)'
  BY CompanionStep, TypeStep, IdStep
<1>3. QED
  BY <1>1, <1>2, PTL DEF CompanionSpec

\* The gate with the companion in its place implements the gate whose
\* decisions may come from anybody at any time (abk_fido_auth_decide_locked),
\* so that whatever holds of AuthGate holds of the two together.
THEOREM CompanionUsesGate == CompanionSpec => Spec
<1>1. TypeOK /\ IdInv /\ [CompanionNext]_<<vars, companionVars>>
        => [Next]_vars
  BY CompanionStep
<1>2. QED
  BY <1>1, CompanionGate, PTL DEF CompanionSpec, Spec

\* The guarantees of a gate that one transport uses, with the companion in its
\* place: a request gets what the user answered to its own prompt,
THEOREM CompanionAnswerDecides ==
  ASSUME OneTransport
  PROVE  CompanionSpec => []AnswerDecidesOutcome
BY SoloAnswerDecides, CompanionUsesGate

\* the pacer works during the whole wait,
THEOREM CompanionKeepalive ==
  ASSUME OneTransport
  PROVE  CompanionSpec => []KeepaliveCoversWait
BY SoloKeepalive, CompanionUsesGate

\* and nothing passes during a cooldown.
THEOREM CompanionCooldown ==
  ASSUME OneTransport
  PROVE  CompanionSpec => CooldownBlocks
BY SoloCooldown, CompanionUsesGate

-----------------------------------------------------------------------------
(* Type correctness of the companion.                                       *)

\* The records of the companion: its constants,
LEMMA CompanionConstants ==
  NoRequest \in Request /\ NoPrompt \in Prompts /\ Refusal \in Answer
BY TicksAssumption
   DEF Ids, NoRequest, Request, NoPrompt, Prompts, Refusal, Answer

\* a request with one field set,
LEMMA RequestFields ==
  /\ \A p \in Request, i \in Ids :
       /\ [p EXCEPT !.id = i] \in Request /\ [p EXCEPT !.ctx = i] \in Request
       /\ [p EXCEPT !.id = i].id = i
       /\ [p EXCEPT !.ctx = i].id = p.id /\ [p EXCEPT !.ctx = i].ctx = i
  /\ \A p \in Request :
       /\ p.id \in Ids /\ p.ctx \in Ids
       /\ [id |-> p.id, ctx |-> p.ctx, open |-> FALSE] \in Prompts
BY DEF Request, Prompts

\* (whose fields are numbers)
LEMMA RequestNumbers == \A p \in Request : p.id \in Nat /\ p.ctx \in Nat
BY TicksAssumption DEF Request, Ids

\* a prompt that opens,
LEMMA PromptOpens ==
  \A p \in Prompts :
    /\ [p EXCEPT !.open = TRUE] \in Prompts
    /\ [p EXCEPT !.open = TRUE].ctx = p.ctx
BY DEF Prompts

\* and the answer to one.
LEMMA PromptAnswered ==
  /\ \A p \in Prompts, b \in BOOLEAN :
       [ok |-> b, shown |-> p.ctx] \in Answer
  /\ \A a \in Answer : a.shown \in Ids /\ a.ok \in BOOLEAN
BY DEF Prompts, Answer

\* The types of the service and the bridge, and those of the prompts.
ServiceOK ==
  /\ service \in {"poll", "read_id", "read_context", "check", "launch",
                  "await", "decide", "deny", "finish"}
  /\ polled \in Request /\ verdict \in Answer
  /\ lastPromptRequestId \in Ids /\ expectedRequestId \in Ids
  /\ isAuthenticating \in BOOLEAN /\ dying \in BOOLEAN /\ reused \in BOOLEAN
QueueOK == authResultQueue \in Seq(Answer) /\ Len(authResultQueue) <= 1
ApprovedOK == approved \in [id : Ids, ctx : Ids, reused : BOOLEAN]
PromptOK == prompt \in Prompts

\* What the bridge does to its queue keeps its type.
LEMMA FinishOK ==
  ASSUME QueueOK, NEW a \in Answer, Finish(a)
  PROVE  QueueOK'
BY DEF QueueOK, Finish

\* The companion's own state keeps its types: above all, the answer queue
\* never holds more than one answer (BiometricAuthBridge).
THEOREM CompanionTypeCorrect == CompanionSpec => []CompanionTypeOK
<1> DEFINE Parts == ServiceOK /\ QueueOK /\ ApprovedOK /\ PromptOK
<1>0. CompanionTypeOK <=> Parts
  BY DEF CompanionTypeOK, ServiceOK, QueueOK, ApprovedOK, PromptOK
<1> 0 \in Ids
  BY TicksAssumption DEF Ids
<1>1. CompanionInit => Parts
  <2> SUFFICES ASSUME CompanionInit PROVE Parts
    OBVIOUS
  <2>1. ServiceOK /\ PromptOK
    BY CompanionConstants DEF CompanionInit, ServiceOK, PromptOK
  <2>2. QueueOK
    BY DEF CompanionInit, QueueOK
  <2>3. ApprovedOK
    BY DEF CompanionInit, ApprovedOK
  <2>4. QED
    BY <2>1, <2>2, <2>3
<1>2. TypeOK /\ Parts /\ [CompanionNext]_<<vars, companionVars>> => Parts'
  <2> SUFFICES ASSUME TypeOK, ServiceOK, QueueOK, ApprovedOK, PromptOK,
                      [CompanionNext]_<<vars, companionVars>>
               PROVE  ServiceOK' /\ QueueOK' /\ ApprovedOK' /\ PromptOK'
    OBVIOUS
  <2> USE DEF bridgeVars, serviceVars, Goto, Decided
  <2>0. auth_request_id \in Ids
    BY DEF TypeOK, DataOK, Ids
  <2>1. ServiceOK'
    <3> USE CompanionConstants DEF ServiceOK
    <3>1. CASE PollPending \/ ReadFails \/ SwitchedOff \/ SkipPrompt
      BY <3>1 DEF PollPending, ReadFails, SwitchedOff, SkipPrompt
    <3>2. CASE ReadFields
      <4>1. polled' \in Request
        BY <2>0, <3>2, RequestFields DEF ReadFields
      <4>2. QED
        BY <3>2, <4>1 DEF ReadFields
    <3>3. CASE BeginPrompt
      BY <3>3, RequestFields DEF BeginPrompt, Begin
    <3>4. CASE Launch \/ LaunchFails \/ LaunchOver \/ AwaitTimeout
      BY <3>4 DEF Launch, LaunchFails, LaunchOver, AwaitTimeout, Finish
    <3>5. CASE Await
      <4>1. verdict' \in Answer
        BY <3>5 DEF Await, QueueOK
      <4>2. QED
        BY <3>5, <4>1 DEF Await
    <3>6. CASE OnCreate \/ OnDestroy \/ AppKilled
      BY <3>6 DEF OnCreate, OnDestroy, AppKilled, Finish
    <3>7. ASSUME NEW ok \in BOOLEAN, UserAnswers(ok) PROVE ServiceOK'
      BY <3>7 DEF UserAnswers, Finish
    <3>8. CASE DecisionTaken \/ DecisionRefused \/ UNCHANGED companionVars
      BY <3>8 DEF DecisionTaken, DecisionRefused, companionVars
    <3>9. QED
      BY <3>1, <3>2, <3>3, <3>4, <3>5, <3>6, <3>7, <3>8
         DEF CompanionNext, Companion
  <2>2. QueueOK'
    <3>1. CASE UNCHANGED authResultQueue
      BY <3>1 DEF QueueOK
    <3>2. CASE LaunchOver \/ OnDestroy
      BY <3>2, FinishOK, CompanionConstants DEF LaunchOver, OnDestroy
    <3>3. ASSUME NEW ok \in BOOLEAN, UserAnswers(ok) PROVE QueueOK'
      <4>1. [ok |-> ok, shown |-> prompt.ctx] \in Answer
        BY PromptAnswered DEF PromptOK
      <4>2. QED
        BY <3>3, <4>1, FinishOK DEF UserAnswers
    <3>4. CASE authResultQueue' = <<>>
      BY <3>4 DEF QueueOK
    <3>5. QED
      BY <3>1, <3>2, <3>3, <3>4
         DEF CompanionNext, Companion, companionVars, PollPending, ReadFields,
             ReadFails, SwitchedOff, SkipPrompt, BeginPrompt, Begin, Launch,
             LaunchFails, Await, AwaitTimeout, OnCreate, AppKilled, DecisionTaken,
             DecisionRefused
  <2>3. ApprovedOK'
    <3>1. CASE DecisionTaken
      BY <3>1, RequestFields, PromptAnswered
         DEF DecisionTaken, ApprovedOK, ServiceOK
    <3>2. CASE UNCHANGED approved
      BY <3>2 DEF ApprovedOK
    <3>3. QED
      BY <3>1, <3>2
         DEF CompanionNext, Companion, companionVars, PollPending, ReadFields,
             ReadFails, SwitchedOff, SkipPrompt, BeginPrompt, Launch,
             LaunchFails, LaunchOver, Await, AwaitTimeout, OnCreate, OnDestroy,
             AppKilled, UserAnswers, DecisionRefused
  <2>4. PromptOK'
    <3>1. CASE Launch
      BY <3>1, RequestFields DEF Launch, PromptOK, ServiceOK
    <3>2. CASE OnCreate
      BY <3>2, PromptOpens, CompanionConstants DEF OnCreate, PromptOK
    <3>3. CASE prompt' = NoPrompt
      BY <3>3, CompanionConstants DEF PromptOK
    <3>4. CASE UNCHANGED prompt
      BY <3>4 DEF PromptOK
    <3>5. QED
      BY <3>1, <3>2, <3>3, <3>4
         DEF CompanionNext, Companion, companionVars, PollPending, ReadFields,
             ReadFails, SwitchedOff, SkipPrompt, BeginPrompt, LaunchFails,
             LaunchOver, Await, AwaitTimeout, OnDestroy, AppKilled, UserAnswers,
             DecisionTaken, DecisionRefused
  <2>5. QED
    BY <2>1, <2>2, <2>3, <2>4
<1>3. QED
  BY <1>0, <1>1, <1>2, CompanionGate, PTL DEF CompanionSpec

-----------------------------------------------------------------------------
(* What the user saw is what is granted.                                    *)

\* What the service read is no newer than the gate, and its context no older
\* than its id.
ReadInv ==
  /\ service # "poll" /\ service # "read_id" => polled.id <= auth_request_id
  /\ service \in {"check", "launch", "await", "decide"} =>
       polled.id <= polled.ctx /\ polled.ctx <= auth_request_id

\* Unless an older prompt was reused, the only prompt there can be is the one
\* of the request the service has in hand, and so every approval on its way
\* to the gate was given to that request.
ShowsPolled(a) == a.ok => a.shown = polled.ctx
AnswerShown ==
  /\ service = "deny" => ~verdict.ok
  /\ ~reused =>
    /\ service = "launch" => prompt = NoPrompt
    /\ service = "await" /\ prompt # NoPrompt => prompt.ctx = polled.ctx
    /\ service \in {"launch", "await"} =>
         \A i \in DOMAIN authResultQueue : ShowsPolled(authResultQueue[i])
    /\ service = "decide" => ShowsPolled(verdict)

ShownInv == ReadInv /\ AnswerShown /\ ApprovedAsShown

LEMMA ReadStep ==
  TypeOK /\ IdInv /\ ReadInv /\ CompanionTypeOK
    /\ [CompanionNext]_<<vars, companionVars>> => ReadInv'
<1> SUFFICES ASSUME TypeOK, IdInv, ReadInv, CompanionTypeOK,
                    [CompanionNext]_<<vars, companionVars>>
             PROVE  ReadInv'
  OBVIOUS
<1> auth_request_id \in Nat /\ auth_request_id' \in Nat
    /\ auth_request_id <= auth_request_id'
  BY CompanionStep, IdStep, TypeStep, TicksAssumption DEF TypeOK, DataOK
<1> polled.id \in Nat /\ polled.ctx \in Nat
  BY RequestNumbers DEF CompanionTypeOK
<1> USE DEF ReadInv, bridgeVars, serviceVars, Goto
<1>1. CASE ReadFields /\ UNCHANGED vars
  <2> UNCHANGED auth_request_id
    BY <1>1 DEF vars, gateVars
  <2> auth_request_id \in Ids
    BY DEF TypeOK, DataOK, Ids
  <2> polled \in Request
    BY DEF CompanionTypeOK
  <2>1. CASE service = "read_id"
    <3>1. service' = "read_context" /\ polled'.id = auth_request_id
      <4>1. service' = "read_context"
        BY <1>1, <2>1 DEF ReadFields
      <4>2. polled' = [polled EXCEPT !.id = auth_request_id]
        BY <1>1, <2>1 DEF ReadFields
      <4>3. QED
        BY <4>1, <4>2, RequestFields
    <3>2. QED
      BY <3>1
  <2>2. CASE service = "read_context"
    <3>1. /\ service' = "check"
          /\ polled'.id = polled.id /\ polled'.ctx = auth_request_id
      <4>1. service' = "check"
        BY <1>1, <2>2 DEF ReadFields
      <4>2. polled' = [polled EXCEPT !.ctx = auth_request_id]
        BY <1>1, <2>2 DEF ReadFields
      <4>3. QED
        BY <4>1, <4>2, RequestFields
    <3>2. QED
      BY <2>2, <3>1
  <2>3. QED
    BY <1>1, <2>1, <2>2 DEF ReadFields
<1>2. CASE service' = "poll" \/ service' = "read_id"
  BY <1>2
<1>3. CASE UNCHANGED <<service, polled>>
  BY <1>3
<1>4. CASE /\ service \in {"check", "launch", "await"}
           /\ service' \in {"launch", "await", "decide"}
           /\ UNCHANGED polled
  BY <1>4
<1>5. CASE /\ service \in {"launch", "deny", "finish"}
           /\ service' \in {"deny", "finish", "poll"}
           /\ UNCHANGED polled
  BY <1>5
<1>6. QED
  BY <1>1, <1>2, <1>3, <1>4, <1>5
     DEF CompanionNext, Companion, companionVars, PollPending, ReadFails,
         SwitchedOff, SkipPrompt, BeginPrompt, Launch, LaunchFails, LaunchOver,
         Await, AwaitTimeout, Decided, OnCreate, OnDestroy, AppKilled, UserAnswers,
         DecisionTaken, DecisionRefused

\* An answer that is put into the queue, when it may be.
LEMMA FinishShown ==
  ASSUME QueueOK, NEW a \in Answer, Finish(a),
         ShowsPolled(a) \/ authResultQueue # <<>>, UNCHANGED polled,
         \A i \in DOMAIN authResultQueue : ShowsPolled(authResultQueue[i])
  PROVE  \A i \in DOMAIN authResultQueue' : ShowsPolled(authResultQueue[i])'
BY DEF QueueOK, Finish, ShowsPolled

LEMMA ShownStep ==
  CompanionTypeOK /\ AnswerShown
    /\ [CompanionNext]_<<vars, companionVars>> => AnswerShown'
<1> SUFFICES ASSUME CompanionTypeOK, AnswerShown,
                    [CompanionNext]_<<vars, companionVars>>
             PROVE  AnswerShown'
  OBVIOUS
<1> QueueOK /\ prompt \in Prompts /\ polled \in Request
  BY DEF CompanionTypeOK, QueueOK
<1> USE DEF bridgeVars, serviceVars, Goto
<1>1. CASE service' \in {"poll", "read_id", "read_context", "check", "finish"}
  BY <1>1 DEF AnswerShown
<1>2. CASE SwitchedOff \/ AwaitTimeout \/ LaunchFails
  BY <1>2 DEF SwitchedOff, AwaitTimeout, LaunchFails, AnswerShown,
     ShowsPolled, Refusal
<1>3. CASE BeginPrompt
  <2>1. service' = "launch" /\ authResultQueue' = <<>> /\ UNCHANGED prompt
    BY <1>3 DEF BeginPrompt, Begin
  <2>2. ~reused' => prompt = NoPrompt
    BY <1>3, Zenon DEF BeginPrompt
  <2>3. QED
    BY <2>1, <2>2 DEF AnswerShown
<1>4. CASE Launch
  <2>1. /\ service = "launch" /\ service' = "await"
        /\ UNCHANGED <<reused, polled, authResultQueue>>
    BY <1>4 DEF Launch
  <2>2. ~reused => prompt'.ctx = polled.ctx
    BY <1>4 DEF Launch, AnswerShown
  <2>3. QED
    BY <2>1, <2>2 DEF AnswerShown, ShowsPolled
<1>5. CASE Await
  <2>1. /\ service = "await" /\ service' = "decide"
        /\ UNCHANGED <<reused, polled>>
        /\ verdict' = authResultQueue[1] /\ 1 \in DOMAIN authResultQueue
    BY <1>5 DEF Await, QueueOK
  <2>2. QED
    BY <2>1 DEF AnswerShown, ShowsPolled
<1>6. CASE OnCreate
  <2>1. /\ UNCHANGED <<service, reused, polled, authResultQueue, verdict>>
        /\ prompt # NoPrompt
        /\ prompt' = NoPrompt \/ prompt'.ctx = prompt.ctx
    BY <1>6, PromptOpens DEF OnCreate
  <2>2. QED
    BY <2>1 DEF AnswerShown, ShowsPolled
<1>7. CASE OnDestroy
  <2>1. UNCHANGED <<service, reused, polled, verdict, prompt>>
    BY <1>7 DEF OnDestroy
  <2>2. ~reused /\ service \in {"launch", "await"} =>
          \A i \in DOMAIN authResultQueue' : ShowsPolled(authResultQueue[i])'
    BY <1>7, <2>1, FinishShown, CompanionConstants
       DEF OnDestroy, AnswerShown, ShowsPolled, Refusal
  <2>3. QED
    BY <2>1, <2>2 DEF AnswerShown, ShowsPolled
<1>8. ASSUME NEW ok \in BOOLEAN, UserAnswers(ok) PROVE AnswerShown'
  <2> DEFINE a == [ok |-> ok, shown |-> prompt.ctx]
  <2>1. UNCHANGED <<service, reused, polled, verdict>> /\ prompt' = NoPrompt
    BY <1>8 DEF UserAnswers
  <2>2. prompt # NoPrompt
    BY <1>8 DEF UserAnswers, NoPrompt
  <2>3. a \in Answer /\ a.shown = prompt.ctx
    BY PromptAnswered
  <2>4. ASSUME ~reused, service \in {"launch", "await"}
        PROVE  \A i \in DOMAIN authResultQueue' :
                 ShowsPolled(authResultQueue[i])'
    <3>1. ShowsPolled(a)
      BY <2>2, <2>3, <2>4 DEF AnswerShown, ShowsPolled
    <3>2. Finish(a)
      BY <1>8 DEF UserAnswers
    <3>3. \A i \in DOMAIN authResultQueue : ShowsPolled(authResultQueue[i])
      BY <2>4 DEF AnswerShown
    <3>4. QED
      BY <2>1, <2>3, <3>1, <3>2, <3>3, FinishShown
  <2>5. QED
    BY <2>1, <2>4 DEF AnswerShown, ShowsPolled
<1>9. CASE UNCHANGED companionVars
  BY <1>9 DEF companionVars, AnswerShown, ShowsPolled
<1>10. QED
  BY <1>1, <1>2, <1>3, <1>4, <1>5, <1>6, <1>7, <1>8, <1>9
     DEF CompanionNext, Companion, PollPending, ReadFields, ReadFails,
         SkipPrompt, LaunchOver, Decided, AppKilled, DecisionTaken,
         DecisionRefused

\* A request is approved only by a user who was shown that request: the driver
\* accepts the answer only if its id is still the current one
\* (abk_fido_auth_decide_locked), the context cannot have been read before the
\* id, and so was the one the prompt showed.
THEOREM ApprovalWasShown == CompanionSpec => []ApprovedAsShown
<1>1. Init /\ CompanionInit => ShownInv
  BY DEF CompanionInit, ShownInv, ReadInv, AnswerShown, ApprovedAsShown
<1>2. TypeOK /\ IdInv /\ CompanionTypeOK /\ ShownInv
        /\ [CompanionNext]_<<vars, companionVars>> => ShownInv'
  <2> SUFFICES ASSUME TypeOK, IdInv, CompanionTypeOK, ShownInv,
                      [CompanionNext]_<<vars, companionVars>>
               PROVE  ShownInv'
    OBVIOUS
  <2>1. ReadInv' /\ AnswerShown'
    BY ReadStep, ShownStep DEF ShownInv
  <2>2. CASE DecisionTaken /\ verdict.ok
    <3>1. polled.id = auth_request_id /\ service = "decide"
      BY <2>1, <2>2
         DEF DecisionTaken, Decide, Decided, Goto, ShownInv, AnswerShown
    <3>2. polled.ctx = polled.id
      <4> polled.id \in Nat /\ polled.ctx \in Nat
        BY RequestNumbers DEF CompanionTypeOK
      <4> QED
        BY <3>1 DEF ShownInv, ReadInv
    <3>3. reused \/ verdict.shown = polled.id
      BY <2>2, <3>1, <3>2 DEF ShownInv, AnswerShown, ShowsPolled
    <3>4. approved' = [id |-> polled.id, ctx |-> verdict.shown,
                       reused |-> reused]
      BY <2>2 DEF DecisionTaken
    <3>5. ApprovedAsShown'
      BY <3>3, <3>4 DEF ApprovedAsShown
    <3>6. QED
      BY <2>1, <3>5 DEF ShownInv
  <2>3. CASE UNCHANGED approved
    BY <2>1, <2>3 DEF ShownInv, ApprovedAsShown
  <2>4. QED
    BY <2>2, <2>3
       DEF CompanionNext, Companion, companionVars, PollPending, ReadFields,
           ReadFails, SwitchedOff, SkipPrompt, BeginPrompt, Launch,
           LaunchFails, LaunchOver, Await, AwaitTimeout, OnCreate, OnDestroy,
           AppKilled, UserAnswers, DecisionTaken, DecisionRefused
<1>3. QED
  BY <1>1, <1>2, CompanionGate, CompanionTypeCorrect, PTL
     DEF CompanionSpec, ShownInv
=============================================================================
