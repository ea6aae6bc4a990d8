------------------------------ MODULE AuthGate ------------------------------
(***************************************************************************)
(* The local-approval gate of the driver (core.c): every CTAP command that *)
(* touches a credential calls abk_fido_auth_begin_locked, which answers    *)
(* from the cooldown or the grant window, or publishes ONE pending request *)
(* in abk_fido_dev, drops the driver's mutex and sleeps for up to 30 s     *)
(* until the companion app decides it through sysfs.                       *)
(*                                                                         *)
(* The callers are the receive workers of the transports: the USB gadget   *)
(* and /dev/abk_fido_ctap each have a work item of their own, and both run *)
(* on the system workqueue, so two CBOR transactions can be inside the     *)
(* gate at once.  An action is one critical section of abk_fido_dev.lock   *)
(* (or one lock-free step between two of them).                            *)
(*                                                                         *)
(* Time is counted in ticks of an unnamed length.  A jiffies deadline is   *)
(* modelled by the ticks left until it, 0 standing both for "not valid"    *)
(* and for "expired", which the code never tells apart.                    *)
(***************************************************************************)
EXTENDS Naturals

CONSTANTS
  Transports,    \* the receive workers (struct abk_fido_usb)
  None,          \* the NULL of auth_usb
  CacheTicks,    \* ABK_FIDO_AUTH_CACHE_MS
  DenyTicks,     \* ABK_FIDO_AUTH_DENY_MS
  WaitTicks,     \* the 30000 ms of the wait
  MaxRequests    \* bound: prompts raised in one behaviour

ASSUME NoneAssumption == None \notin Transports
ASSUME TicksAssumption ==
  /\ CacheTicks \in Nat \ {0}
  /\ DenyTicks \in Nat \ {0}
  /\ WaitTicks \in Nat \ {0}
  /\ MaxRequests \in Nat

VARIABLES
  auth_pending, auth_decided, auth_allowed,
  auth_request_id,
  cache_left,      \* auth_cache_valid and auth_cache_expires
  deny_left,       \* auth_deny_valid and auth_deny_expires
  auth_usb,        \* where the keepalive pacer sends
  keepalive_armed, \* auth_keepalive_work is queued
  keepalive_usb,   \* the usb its running instance sampled, or None
  pc,              \* where each worker is in its CBOR transaction
  wait_left,       \* what is left of each worker's 30 s
  request_id,      \* the local request_id of each worker
  result,          \* how the gate answered the worker's transaction
  answer,          \* history: the user's answer to the worker's own prompt,
                   \* "late" when accepted after the wait for it had ended
  last_answer      \* history: the last answer the driver accepted

gateVars == <<auth_pending, auth_decided, auth_allowed, auth_request_id,
              cache_left, deny_left>>
pacerVars == <<auth_usb, keepalive_armed, keepalive_usb>>
workerVars == <<pc, wait_left, request_id, result>>
historyVars == <<answer, last_answer>>
vars == <<gateVars, pacerVars, workerVars, historyVars>>

Verdicts == {"allow", "deny"}
Granted == {"cached", "granted"}
Results == Granted \cup {"none", "ungated", "cooldown", "denied", "timeout"}
Phases == {"idle",        \* no CBOR message in dispatch
           "dispatched",  \* auth_usb and auth_cid are set, handler runs
           "waiting",     \* asleep in wait_event_interruptible_timeout
           "woken",       \* the wait saw auth_decided; the lock is not held
           "expired",     \* the wait returned 0; the lock is not held
           "returned",    \* abk_fido_cbor_dispatch has returned
           "cleared",     \* auth_usb is reset
           "cancelling"}  \* inside cancel_delayed_work_sync

FlagsOK ==
  /\ auth_pending \in BOOLEAN /\ auth_decided \in BOOLEAN
  /\ auth_allowed \in BOOLEAN /\ keepalive_armed \in BOOLEAN

DataOK ==
  /\ auth_request_id \in 0..MaxRequests
  /\ cache_left \in 0..CacheTicks /\ deny_left \in 0..DenyTicks
  /\ auth_usb \in Transports \cup {None}
  /\ keepalive_usb \in Transports \cup {None}
  /\ pc \in [Transports -> Phases]
  /\ wait_left \in [Transports -> 0..WaitTicks]
  /\ request_id \in [Transports -> 0..MaxRequests]
  /\ result \in [Transports -> Results]
  /\ answer \in [Transports -> Verdicts \cup {"none", "late"}]
  /\ last_answer \in Verdicts \cup {"none"}

\* The type invariant; no window is ever longer than its constant.
TypeOK == FlagsOK /\ DataOK

Init ==
  /\ auth_pending = FALSE /\ auth_decided = FALSE /\ auth_allowed = FALSE
  /\ auth_request_id = 0 /\ cache_left = 0 /\ deny_left = 0
  /\ auth_usb = None /\ keepalive_armed = FALSE /\ keepalive_usb = None
  /\ pc = [t \in Transports |-> "idle"]
  /\ wait_left = [t \in Transports |-> 0]
  /\ request_id = [t \in Transports |-> 0]
  /\ result = [t \in Transports |-> "none"]
  /\ answer = [t \in Transports |-> "none"]
  /\ last_answer = "none"

-----------------------------------------------------------------------------
(* Helpers                                                                  *)

Step(t, from, to) == pc[t] = from /\ pc' = [pc EXCEPT ![t] = to]

Answered(t, r) == result' = [result EXCEPT ![t] = r]

\* Mutant: the cooldown leaves an open grant window alone.
StartCooldownKeepsGrant == cache_left' = cache_left /\ deny_left' = DenyTicks

\* abk_fido_auth_start_cooldown_locked
StartCooldown == cache_left' = 0 /\ deny_left' = DenyTicks

\* mod_delayed_work on a work item another thread is inside
\* cancel_delayed_work_sync for does not queue it.
ArmKeepalive ==
  keepalive_armed' = (\A t \in Transports : pc[t] # "cancelling")

\* Both outcomes of the wait end the pending request, whoever's it is.
ClearPending == auth_pending' = FALSE /\ auth_decided' = FALSE

-----------------------------------------------------------------------------
(* A CBOR transaction up to the wait                                        *)

\* abk_fido_dispatch_msg, case CBOR, up to the call of the handler.
Receive(t) ==
  /\ Step(t, "idle", "dispatched")
  /\ auth_usb' = t
  /\ Answered(t, "none")
  /\ answer' = [answer EXCEPT ![t] = "none"]
  /\ UNCHANGED <<gateVars, keepalive_armed, keepalive_usb, wait_left,
                 request_id, last_answer>>

\* A command that never reaches the gate: getInfo, a malformed request, a
\* silent probe without a match.
Ungated(t) ==
  /\ Step(t, "dispatched", "returned")
  /\ Answered(t, "ungated")
  /\ UNCHANGED <<gateVars, pacerVars, wait_left, request_id, historyVars>>

AuthCooldown(t) ==
  /\ deny_left > 0
  /\ Step(t, "dispatched", "returned")
  /\ Answered(t, "cooldown")
  /\ UNCHANGED <<gateVars, pacerVars, wait_left, request_id, historyVars>>

AuthCacheHit(t) ==
  /\ deny_left = 0 /\ cache_left > 0
  /\ Step(t, "dispatched", "returned")
  /\ Answered(t, "cached")
  /\ UNCHANGED <<gateVars, pacerVars, wait_left, request_id, historyVars>>

\* Mutant: the cooldown is not looked at before a prompt is raised.
AuthPromptNoCooldown(t) ==
  /\ cache_left = 0
  /\ auth_request_id < MaxRequests
  /\ Step(t, "dispatched", "waiting")
  /\ auth_request_id' = auth_request_id + 1
  /\ request_id' = [request_id EXCEPT ![t] = auth_request_id + 1]
  /\ auth_pending' = TRUE /\ auth_decided' = FALSE /\ auth_allowed' = FALSE
  /\ wait_left' = [wait_left EXCEPT ![t] = WaitTicks]
  /\ ArmKeepalive
  /\ UNCHANGED <<cache_left, deny_left, auth_usb, keepalive_usb, result,
                 historyVars>>

AuthPrompt(t) ==
  /\ deny_left = 0 /\ cache_left = 0
  /\ auth_request_id < MaxRequests
  /\ Step(t, "dispatched", "waiting")
  /\ auth_request_id' = auth_request_id + 1
  /\ request_id' = [request_id EXCEPT ![t] = auth_request_id + 1]
  /\ auth_pending' = TRUE /\ auth_decided' = FALSE /\ auth_allowed' = FALSE
  /\ wait_left' = [wait_left EXCEPT ![t] = WaitTicks]
  /\ ArmKeepalive
  /\ UNCHANGED <<cache_left, deny_left, auth_usb, keepalive_usb, result,
                 historyVars>>

-----------------------------------------------------------------------------
(* The wait and what follows it                                             *)

\* wait_event_interruptible_timeout reads auth_decided without the lock and
\* returns 0 only if the condition is false when the time is up.
Wake(t) ==
  /\ auth_decided
  /\ Step(t, "waiting", "woken")
  /\ UNCHANGED <<gateVars, pacerVars, wait_left, request_id, result,
                 historyVars>>

\* Mutant: the wait has no timeout.
ExpireNever(t) ==
  /\ FALSE
  /\ Step(t, "waiting", "expired")
  /\ UNCHANGED <<gateVars, pacerVars, wait_left, request_id, result,
                 historyVars>>

Expire(t) ==
  /\ ~auth_decided /\ wait_left[t] = 0
  /\ Step(t, "waiting", "expired")
  /\ UNCHANGED <<gateVars, pacerVars, wait_left, request_id, result,
                 historyVars>>

ResumeTimeout(t) ==
  /\ Step(t, "expired", "returned")
  /\ ClearPending /\ StartCooldown
  /\ Answered(t, "timeout")
  /\ UNCHANGED <<auth_allowed, auth_request_id, pacerVars,
                 wait_left, request_id, historyVars>>

ResumeDenied(t) ==
  /\ ~auth_allowed
  /\ Step(t, "woken", "returned")
  /\ ClearPending /\ StartCooldown
  /\ Answered(t, "denied")
  /\ UNCHANGED <<auth_allowed, auth_request_id, pacerVars,
                 wait_left, request_id, historyVars>>

ResumeAllowed(t) ==
  /\ auth_allowed
  /\ Step(t, "woken", "returned")
  /\ ClearPending
  /\ deny_left' = 0 /\ cache_left' = CacheTicks
  /\ Answered(t, "granted")
  /\ UNCHANGED <<auth_allowed, auth_request_id, pacerVars,
                 wait_left, request_id, historyVars>>

-----------------------------------------------------------------------------
(* The end of the transaction (abk_fido_dispatch_msg after the handler)     *)

ClearUsb(t) ==
  /\ Step(t, "returned", "cleared")
  /\ auth_usb' = None
  /\ UNCHANGED <<gateVars, keepalive_armed, keepalive_usb, wait_left,
                 request_id, result, historyVars>>

CancelKeepalive(t) ==
  /\ Step(t, "cleared", "cancelling")
  /\ keepalive_armed' = FALSE
  /\ UNCHANGED <<gateVars, auth_usb, keepalive_usb, wait_left, request_id,
                 result, historyVars>>

\* Mutant: cancel_delayed_work, which does not wait for a running instance.
RespondAsync(t) ==
  /\ Step(t, "cancelling", "idle")
  /\ UNCHANGED <<gateVars, pacerVars, wait_left, request_id, result,
                 historyVars>>

\* The cancellation waits for a running instance; the response goes out.
Respond(t) ==
  /\ keepalive_usb = None
  /\ Step(t, "cancelling", "idle")
  /\ UNCHANGED <<gateVars, pacerVars, wait_left, request_id, result,
                 historyVars>>

-----------------------------------------------------------------------------
(* The companion's decision, the keepalive pacer and the clock              *)

\* History: what a worker's prompt has been answered once a decision for
\* request id is accepted.  auth_pending is still set between the end of a
\* wait and the worker's next step, so an answer may be accepted, and too late.
AnswerTo(t, verdict, id) ==
  IF pc[t] \notin {"waiting", "woken", "expired"} \/ request_id[t] # id
  THEN answer[t]
  ELSE IF pc[t] = "expired" THEN "late" ELSE verdict

\* Mutant: the id of a decision is ignored.
DecideAnyId(verdict, id, check_id) ==
  /\ auth_pending
  /\ auth_allowed' = (verdict = "allow")
  /\ auth_decided' = TRUE
  /\ cache_left' = IF verdict = "deny" THEN 0 ELSE cache_left
  /\ last_answer' = verdict
  /\ answer' = [t \in Transports |->
                  AnswerTo(t, verdict, IF check_id THEN id ELSE auth_request_id)]
  /\ UNCHANGED <<auth_pending, auth_request_id, deny_left, pacerVars,
                 workerVars>>

\* Mutant: an approval already taken is not overruled by a refusal.
DecideFirstAllow(verdict, id, check_id) ==
  /\ auth_pending
  /\ check_id => id = auth_request_id
  /\ auth_allowed' = (verdict = "allow" \/ (auth_decided /\ auth_allowed))
  /\ auth_decided' = TRUE
  /\ cache_left' = IF verdict = "deny" THEN 0 ELSE cache_left
  /\ last_answer' = verdict
  /\ answer' = [t \in Transports |->
                  AnswerTo(t, verdict, IF check_id THEN id ELSE auth_request_id)]
  /\ UNCHANGED <<auth_pending, auth_request_id, deny_left, pacerVars,
                 workerVars>>

\* abk_fido_auth_decide_locked when it succeeds; its refusals (-ENOENT,
\* -ESTALE) change nothing.  The companion names the id it was asked about;
\* "allow" and "deny" without an id, and the auth_allow and auth_deny control
\* commands, do not.
Decide(verdict, id, check_id) ==
  /\ auth_pending
  /\ check_id => id = auth_request_id
  /\ auth_allowed' = (verdict = "allow")
  /\ auth_decided' = TRUE
  /\ cache_left' = IF verdict = "deny" THEN 0 ELSE cache_left
  /\ last_answer' = verdict
  /\ answer' = [t \in Transports |->
                  AnswerTo(t, verdict, IF check_id THEN id ELSE auth_request_id)]
  /\ UNCHANGED <<auth_pending, auth_request_id, deny_left,
                 pacerVars, workerVars>>

\* abk_fido_auth_keepalive_worker, its locked half: sample, or stop pacing.
KeepaliveRun ==
  /\ keepalive_armed /\ keepalive_usb = None
  /\ keepalive_armed' = FALSE
  /\ keepalive_usb' = IF auth_pending /\ ~auth_decided THEN auth_usb
                                                       ELSE None
  /\ UNCHANGED <<gateVars, auth_usb, workerVars, historyVars>>

\* Mutant: the pacer sends one frame and does not re-arm.
KeepaliveSendOnce ==
  /\ keepalive_usb # None
  /\ keepalive_usb' = None
  /\ keepalive_armed' = keepalive_armed
  /\ UNCHANGED <<gateVars, auth_usb, workerVars, historyVars>>

\* Its other half: send the frame on the sampled transport and re-arm.
KeepaliveSend ==
  /\ keepalive_usb # None
  /\ keepalive_usb' = None
  /\ ArmKeepalive
  /\ UNCHANGED <<gateVars, auth_usb, workerVars, historyVars>>

Less(n) == IF n > 0 THEN n - 1 ELSE 0

Tick ==
  /\ cache_left' = Less(cache_left)
  /\ deny_left' = Less(deny_left)
  /\ wait_left' = [t \in Transports |-> Less(wait_left[t])]
  /\ UNCHANGED <<auth_pending, auth_decided, auth_allowed, auth_request_id,
                 pacerVars, pc, request_id, result,
                 historyVars>>

-----------------------------------------------------------------------------

\* What a worker does by itself once a message has arrived.
WorkerStep(t) ==
  \/ Ungated(t) \/ AuthCooldown(t) \/ AuthCacheHit(t) \/ AuthPrompt(t)
  \/ Wake(t) \/ Expire(t)
  \/ ResumeTimeout(t) \/ ResumeDenied(t) \/ ResumeAllowed(t)
  \/ ClearUsb(t) \/ CancelKeepalive(t) \/ Respond(t)

Next ==
  \/ \E t \in Transports : Receive(t) \/ WorkerStep(t)
  \/ \E v \in Verdicts, id \in 1..MaxRequests, check_id \in BOOLEAN :
       Decide(v, id, check_id)
  \/ KeepaliveRun
  \/ KeepaliveSend
  \/ Tick

\* The scheduler runs ready workers and the pacer, and time passes; no host
\* need send anything and no user need answer.
Fairness ==
  /\ \A t \in Transports : WF_vars(WorkerStep(t))
  /\ WF_vars(KeepaliveRun) /\ WF_vars(KeepaliveSend)
  /\ WF_vars(Tick)

Spec == Init /\ [][Next]_vars
FairSpec == Spec /\ Fairness

-----------------------------------------------------------------------------
(* Properties that hold for any number of transports                        *)

\* Once the user's refusal of a prompt has been accepted, no request of any
\* transport is let through, from the grant window or otherwise, until the
\* user has approved a later prompt.
RefusalIsFinal ==
  [][\A t \in Transports :
       result[t] \notin Granted /\ result'[t] \in Granted
         => last_answer = "allow"]_vars

\* The grant window and the cooldown are never open together, so
\* auth_cooldown never reports both and a cooldown cannot be skipped.
WindowsExclusive == cache_left = 0 \/ deny_left = 0

\* The pacer never puts a keepalive frame on a transport whose transaction is
\* over: the host would read it as belonging to its next command.
KeepaliveWithinTransaction ==
  keepalive_usb # None => pc[keepalive_usb] # "idle"

\* Whatever the companion does, a request that waits for a decision is
\* answered in the end.
EveryRequestAnswered ==
  \A t \in Transports : pc[t] = "waiting" ~> pc[t] = "idle"

-----------------------------------------------------------------------------
(* Properties of a gate that one transport uses                             *)

\* A request gets what the user answered to its own prompt: granted when
\* approved, denied when refused, a timeout only when nobody answered during
\* the wait.  An answer that the driver accepts after the wait has ended and
\* before the worker has the lock again counts as given to whoever wrote it,
\* and yet the request times out; it is never granted.
AnswerDecidesOutcome ==
  \A t \in Transports :
    /\ result[t] = "granted" => answer[t] = "allow"
    /\ result[t] = "denied" => answer[t] = "deny"
    /\ result[t] = "timeout" => answer[t] \in {"none", "late"}

\* While the cooldown of a refused or unanswered prompt runs, no request is
\* let through.
CooldownBlocks ==
  [][\A t \in Transports :
       result[t] \notin Granted /\ result'[t] \in Granted
         => deny_left = 0]_vars

\* While a request waits undecided, the pacer is at work for its transport,
\* so the host never meets a silence longer than the pace.
KeepaliveCoversWait ==
  \A t \in Transports :
    pc[t] = "waiting" /\ ~auth_decided
      => auth_usb = t /\ (keepalive_armed \/ keepalive_usb = t)

\* A prompt the user answered while its worker still waited does not end as
\* an unanswered one, which would refuse the request and arm the cooldown.
OnlyUnansweredTimesOut ==
  \A t \in Transports :
    result[t] = "timeout" => answer[t] \in {"none", "late"}

=============================================================================
