--------------------------- MODULE CompanionPrompt --------------------------
(***************************************************************************)
(* The companion app's half of the approval gate: the service loop that    *)
(* polls the driver's sysfs files (FidoSyncService, FidoKernelBridge), the *)
(* prompt activity (FidoAuthPromptActivity) and the queue of one answer    *)
(* between them (BiometricAuthBridge), composed with AuthGate.             *)
(*                                                                         *)
(* Every sysfs file is read or written by a root shell of its own, so the  *)
(* gate moves on between any two of them.  Of auth_context only matters    *)
(* whose request it describes: it is modelled by that request's id.  The   *)
(* companion's delays, its 25 s included, are arbitrary.                   *)
(***************************************************************************)
EXTENDS AuthGate, Sequences

VARIABLES
  service,             \* where the service loop is
  polled,              \* the PendingAuthRequest it has read: id and context
  lastPromptRequestId, \* 0: none
  expectedRequestId,   \* 0: none
  isAuthenticating,
  authResultQueue,     \* at most one answer, with what its prompt showed
  prompt,              \* the activity started or on the screen, or NoPrompt
  dying,               \* an instance that sent no result awaits onDestroy
  verdict,             \* the answer the service is about to write
  reused,              \* history: an older prompt was there when this began
  approved             \* history: the last request an "allow" was accepted
                       \* for, and the request its prompt showed

bridgeVars == <<expectedRequestId, isAuthenticating, authResultQueue>>
serviceVars == <<service, polled, lastPromptRequestId, verdict>>
companionVars == <<bridgeVars, serviceVars, prompt, dying, reused, approved>>

Ids == 0..MaxRequests
Request == [id : Ids, ctx : Ids]
NoRequest == [id |-> 0, ctx |-> 0]
Prompts == [id : Ids, ctx : Ids, open : BOOLEAN]
NoPrompt == [id |-> 0, ctx |-> 0, open |-> FALSE]
Answer == [ok : BOOLEAN, shown : Ids]
Refusal == [ok |-> FALSE, shown |-> 0]

\* The type invariant of the companion.
CompanionTypeOK ==
  /\ service \in {"poll", "read_id", "read_context", "check", "launch",
                  "await", "decide", "deny", "finish"}
  /\ polled \in Request /\ approved \in [id : Ids, ctx : Ids, reused : BOOLEAN]
  /\ lastPromptRequestId \in Ids /\ expectedRequestId \in Ids
  /\ isAuthenticating \in BOOLEAN /\ dying \in BOOLEAN /\ reused \in BOOLEAN
  /\ authResultQueue \in Seq(Answer) /\ Len(authResultQueue) <= 1
  /\ prompt \in Prompts /\ verdict \in Answer

CompanionInit ==
  /\ service = "poll" /\ polled = NoRequest /\ verdict = Refusal
  /\ lastPromptRequestId = 0 /\ expectedRequestId = 0
  /\ isAuthenticating = FALSE /\ authResultQueue = <<>>
  /\ prompt = NoPrompt /\ dying = FALSE
  /\ reused = FALSE
  /\ approved = [id |-> 0, ctx |-> 0, reused |-> FALSE]

-----------------------------------------------------------------------------
(* BiometricAuthBridge                                                      *)

\* offer: an answer is dropped when one is waiting already.
Finish(answerOf) ==
  /\ authResultQueue' = IF authResultQueue = <<>> THEN <<answerOf>>
                                                  ELSE authResultQueue
  /\ isAuthenticating' = FALSE

Begin(id) ==
  /\ authResultQueue' = <<>> /\ expectedRequestId' = id
  /\ isAuthenticating' = TRUE

-----------------------------------------------------------------------------
(* The service loop: maybeHandlePendingAuth                                 *)

Goto(from, to) == service = from /\ service' = to

\* readPendingAuthRequest reads auth_pending, and gives up unless it is 1.
PollPending ==
  /\ auth_pending
  /\ Goto("poll", "read_id")
  /\ UNCHANGED <<bridgeVars, polled, lastPromptRequestId, verdict, prompt,
                 dying, reused, approved>>

\* Mutant: the context is read before the id.
ReadFieldsContextFirst ==
  /\ \/ /\ Goto("read_id", "read_context")
        /\ polled' = [polled EXCEPT !.ctx = auth_request_id]
     \/ /\ Goto("read_context", "check")
        /\ polled' = [polled EXCEPT !.id = auth_request_id]
  /\ UNCHANGED <<bridgeVars, lastPromptRequestId, verdict, prompt, dying,
                 reused, approved>>

\* Then auth_request_id, and then auth_context.
ReadFields ==
  /\ \/ /\ Goto("read_id", "read_context")
        /\ polled' = [polled EXCEPT !.id = auth_request_id]
     \/ /\ Goto("read_context", "check")
        /\ polled' = [polled EXCEPT !.ctx = auth_request_id]
  /\ UNCHANGED <<bridgeVars, lastPromptRequestId, verdict, prompt, dying,
                 reused, approved>>

ReadFails ==
  /\ service \in {"read_id", "read_context"} /\ service' = "poll"
  /\ UNCHANGED <<bridgeVars, polled, lastPromptRequestId, verdict, prompt,
                 dying, reused, approved>>

\* The master switch is off.
SwitchedOff ==
  /\ Goto("check", "decide")
  /\ verdict' = Refusal
  /\ UNCHANGED <<bridgeVars, polled, lastPromptRequestId, prompt, dying,
                 reused, approved>>

Prompted == polled.id = lastPromptRequestId \/ isAuthenticating

SkipPrompt ==
  /\ Prompted
  /\ Goto("check", "poll")
  /\ UNCHANGED <<bridgeVars, polled, lastPromptRequestId, verdict, prompt,
                 dying, reused, approved>>

BeginPrompt ==
  /\ ~Prompted
  /\ Goto("check", "launch")
  /\ lastPromptRequestId' = polled.id
  /\ Begin(polled.id)
  /\ reused' = (prompt # NoPrompt)
  /\ UNCHANGED <<polled, verdict, prompt, dying, approved>>

\* am start of a singleInstance activity: one that is there already is brought
\* to the front as it is, with the request it was created for.
Launch ==
  /\ Goto("launch", "await")
  /\ prompt' = IF prompt = NoPrompt
               THEN [id |-> polled.id, ctx |-> polled.ctx, open |-> FALSE]
               ELSE prompt
  /\ UNCHANGED <<bridgeVars, polled, lastPromptRequestId, verdict, dying,
                 reused, approved>>

\* A failed launch: the request is denied first, then the prompt is over.
LaunchFails ==
  /\ Goto("launch", "deny")
  /\ verdict' = Refusal
  /\ UNCHANGED <<bridgeVars, polled, lastPromptRequestId, prompt, dying,
                 reused, approved>>

LaunchOver ==
  /\ Goto("finish", "poll")
  /\ Finish(Refusal)
  /\ UNCHANGED <<expectedRequestId, polled, lastPromptRequestId, verdict, prompt,
                 dying, reused, approved>>

Await ==
  /\ authResultQueue # <<>>
  /\ Goto("await", "decide")
  /\ verdict' = Head(authResultQueue)
  /\ authResultQueue' = <<>> /\ isAuthenticating' = FALSE
  /\ UNCHANGED <<expectedRequestId, polled, lastPromptRequestId, prompt, dying,
                 reused, approved>>

\* AUTH_PROMPT_TIMEOUT_MS is over.
AwaitTimeout ==
  /\ authResultQueue = <<>>
  /\ Goto("await", "decide")
  /\ verdict' = Refusal
  /\ isAuthenticating' = FALSE
  /\ UNCHANGED <<authResultQueue, expectedRequestId, polled,
                 lastPromptRequestId, prompt, dying, reused, approved>>

-----------------------------------------------------------------------------
(* The prompt: FidoAuthPromptActivity                                       *)

\* onCreate: a prompt whose request is no longer the expected one finishes
\* early, without a result.
OnCreate ==
  /\ prompt # NoPrompt /\ ~prompt.open
  /\ IF prompt.id = expectedRequestId
     THEN prompt' = [prompt EXCEPT !.open = TRUE] /\ UNCHANGED dying
     ELSE prompt' = NoPrompt /\ dying' = TRUE
  /\ UNCHANGED <<bridgeVars, serviceVars, reused, approved>>

\* Success, an error, or the end of an instance before either.
UserAnswers(ok) ==
  /\ prompt.open
  /\ Finish([ok |-> ok, shown |-> prompt.ctx])
  /\ prompt' = NoPrompt
  /\ UNCHANGED <<expectedRequestId, serviceVars, dying, reused, approved>>

\* onDestroy of an instance that finished early.
OnDestroy ==
  /\ dying /\ dying' = FALSE
  /\ Finish(Refusal)
  /\ UNCHANGED <<expectedRequestId, serviceVars, prompt, reused, approved>>

\* Android kills the app and starts the service again; it may also create
\* the activity again, which finishes early.
AppKilled ==
  /\ service' = "poll" /\ polled' = NoRequest /\ verdict' = Refusal
  /\ lastPromptRequestId' = 0 /\ expectedRequestId' = 0
  /\ isAuthenticating' = FALSE /\ authResultQueue' = <<>>
  /\ prompt' = NoPrompt /\ dying' \in {FALSE, prompt # NoPrompt}
  /\ reused' = FALSE
  /\ UNCHANGED approved

-----------------------------------------------------------------------------
(* The composition                                                          *)

Decided == Goto("decide", "poll") \/ Goto("deny", "finish")

\* auth_decision takes the verdict ...
DecisionTaken ==
  /\ Decided
  /\ Decide(IF verdict.ok THEN "allow" ELSE "deny", polled.id, TRUE)
  /\ approved' = IF verdict.ok THEN [id |-> polled.id, ctx |-> verdict.shown,
                                     reused |-> reused]
                               ELSE approved
  /\ UNCHANGED <<bridgeVars, polled, lastPromptRequestId, verdict, prompt,
                 dying, reused>>

\* ... or refuses it: nothing is pending, or another request is.
DecisionRefused ==
  /\ Decided
  /\ ~auth_pending \/ polled.id # auth_request_id
  /\ UNCHANGED <<vars, bridgeVars, polled, lastPromptRequestId, verdict,
                 prompt, dying, reused, approved>>

Companion ==
  \/ PollPending \/ ReadFields \/ ReadFails
  \/ SwitchedOff \/ SkipPrompt \/ BeginPrompt \/ Launch \/ LaunchFails
  \/ LaunchOver
  \/ Await \/ AwaitTimeout
  \/ OnCreate \/ OnDestroy \/ AppKilled
  \/ \E ok \in BOOLEAN : UserAnswers(ok)

Gate ==
  \/ \E t \in Transports : Receive(t) \/ WorkerStep(t)
  \/ KeepaliveRun \/ KeepaliveSend \/ Tick

CompanionNext ==
  \/ Companion /\ UNCHANGED vars
  \/ Gate /\ UNCHANGED companionVars
  \/ DecisionTaken \/ DecisionRefused

CompanionSpec ==
  Init /\ CompanionInit /\ [][CompanionNext]_<<vars, companionVars>>

-----------------------------------------------------------------------------
(* Properties                                                               *)

\* A request is approved only by a user who was shown that request, although
\* its id and its context are read apart, answers carry no id and the app may
\* be killed at any point, provided no older prompt was on the screen when
\* the service began this one: the id is read first, so if the request has
\* changed by the time the context is read, the driver refuses the answer.
ApprovedAsShown == approved.ctx = approved.id \/ approved.reused

=============================================================================
