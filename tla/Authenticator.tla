---------------------------- MODULE Authenticator ---------------------------
(***************************************************************************)
(* The CTAP2 commands of the driver (core.c, abk_fido_cbor_dispatch and    *)
(* its handlers) as the receive workers of the transports run them: a      *)
(* handler checks its request and looks credentials up under               *)
(* abk_fido_dev.lock, goes through the approval gate, which drops the lock *)
(* while the user decides, and finishes under the lock with what it looked *)
(* up before.  The store is an array of slots; the continuation of         *)
(* getAssertion for authenticatorGetNextAssertion is one per device.       *)
(*                                                                         *)
(* The gate is AuthGate's: here it lets a request through at once (grant   *)
(* window), after a wait, or not at all.  Saving is Store's.  A request is *)
(* its relying party and the credential ids of its allow or exclude list;  *)
(* abk_fido_rp_matches_request is equality of relying parties.             *)
(***************************************************************************)
EXTENDS Naturals, Sequences, FiniteSets

CONSTANTS
  Transports,   \* the receive workers
  RPs,          \* relying parties
  MaxCreds,     \* ABK_FIDO_MAX_CREDS: slots of the store
  MaxIds,       \* bound: credential ids ever drawn
  Lists,        \* the allow and exclude lists requests carry
  Restores,     \* stores restore_metadata, reload_store or store_blob bring
  FirstStores,  \* stores the first load may find
  Free, None    \* an unused slot; nobody

Slots == 1..MaxCreds
Ids == 1..MaxIds
Cred == [id : Ids, rp : RPs]
StoreType == [Slots -> Cred \cup {Free}]

ASSUME AuthenticatorAssumption ==
  /\ MaxCreds \in Nat \ {0} /\ MaxIds \in Nat
  /\ Lists \subseteq SUBSET Ids
  /\ Restores \subseteq StoreType /\ FirstStores \subseteq StoreType
  /\ Free \notin Cred /\ None \notin Transports

VARIABLES
  store,         \* abk_fido_dev.store.creds
  lock,          \* abk_fido_dev.lock, when held across two actions
  assert_valid, assert_slots, assert_next,
  assert_req,    \* assert_rp_id and assert_client_data_hash: the hash tells
                 \* requests apart, so it stands for the request itself
  assert_fresh,  \* jiffies is before assert_expires
  pc,            \* where each worker is
  cmd, req,      \* its command and parsed request (for getNextAssertion the
                 \* local copies rp_id and client_data_hash)
  slots,         \* its local slots[] (getAssertion), slot (getNextAssertion)
  served,        \* its local served
  resp,          \* its last response
  walk,          \* history: credentials answered since the last getAssertion
  walker         \* history: whose getAssertion that is, None once another
                 \* transport or the companion has come in between

contVars == <<assert_valid, assert_slots, assert_next, assert_req,
              assert_fresh>>
localVars == <<cmd, req, slots, served>>
request == <<cmd, req>>
vars == <<store, lock, contVars, pc, localVars, resp, walk, walker>>

Commands == {"makeCredential", "getAssertion", "getNextAssertion", "reset",
             "selection", "getInfo", "other"}
Request == [rp : RPs, list : Lists]
Phases == {"idle", "entered", "gate"}
Kinds == {"none", "error", "made", "assertion", "next", "reset", "selected",
          "info"}
Response == [kind : Kinds, cred : Cred \cup {Free}]
\* The requests a command's parser can hand over.
Parsed(c) ==
  IF c \in {"makeCredential", "getAssertion"} THEN Request ELSE {None}
Reply(kind, cred) == [kind |-> kind, cred |-> cred]

\* The type invariant, with the bounds the arrays rely on: a live continuation
\* always has a next slot to read.
TypeOK ==
  /\ store \in StoreType
  /\ lock \in Transports \cup {None}
  /\ assert_valid \in BOOLEAN /\ assert_fresh \in BOOLEAN
  /\ assert_slots \in Seq(Slots) /\ Len(assert_slots) <= MaxCreds
  /\ assert_next \in Nat /\ (assert_valid => assert_next < Len(assert_slots))
  /\ assert_req \in Request \cup {None}
  /\ pc \in [Transports -> Phases]
  /\ cmd \in [Transports -> Commands]
  /\ req \in [Transports -> Request \cup {None}]
  /\ slots \in [Transports -> Seq(Slots)]
  /\ served \in [Transports -> Nat]
  /\ resp \in [Transports -> Response]
  /\ walk \in Seq(Cred \cup {Free}) /\ walker \in Transports \cup {None}

InUse(s) == store[s] # Free
UsedIds == {store[s].id : s \in {u \in Slots : InUse(u)}}

Init ==
  /\ store \in FirstStores
  /\ lock = None
  /\ assert_valid = FALSE /\ assert_slots = <<>> /\ assert_next = 0
  /\ assert_req = None /\ assert_fresh = FALSE
  /\ pc = [t \in Transports |-> "idle"]
  /\ cmd = [t \in Transports |-> "getInfo"]
  /\ req = [t \in Transports |-> None]
  /\ slots = [t \in Transports |-> <<>>]
  /\ served = [t \in Transports |-> 0]
  /\ resp = [t \in Transports |-> Reply("none", Free)]
  /\ walk = <<>> /\ walker = None

-----------------------------------------------------------------------------
(* Helpers                                                                  *)

CanLock(t) == lock \in {None, t}

\* abk_fido_clear_assert_state_locked
ClearAssertState ==
  /\ assert_valid' = FALSE /\ assert_slots' = <<>> /\ assert_next' = 0
  /\ UNCHANGED <<assert_req, assert_fresh>>

\* abk_fido_collect_rp_credentials_locked and the two match functions: the
\* slots of a store that could answer r, in slot order.  An empty list allows
\* any.
Matches(creds, r, s) ==
  /\ creds[s] # Free /\ creds[s].rp = r.rp
  /\ r.list = {} \/ creds[s].id \in r.list

CollectSlots(creds, r) ==
  LET upto[n \in 0..MaxCreds] ==
        IF n = 0 THEN <<>>
        ELSE IF Matches(creds, r, n) THEN Append(upto[n - 1], n)
        ELSE upto[n - 1]
  IN  upto[MaxCreds]

\* The handler is through its checks and calls the gate, which returns with
\* the lock still held (grant window) or drops it to wait.
EnterGate(t) ==
  /\ pc' = [pc EXCEPT ![t] = "gate"]
  /\ lock' \in {t, None}

\* The handler returns: its locals are gone.
Done(t, reply) ==
  /\ slots' = [slots EXCEPT ![t] = <<>>] /\ served' = [served EXCEPT ![t] = 0]
  /\ pc' = [pc EXCEPT ![t] = "idle"]
  /\ resp' = [resp EXCEPT ![t] = reply]
  /\ lock' = None

InGate(t, c) == pc[t] = "gate" /\ cmd[t] = c /\ CanLock(t)

\* abk_fido_encode_assertion_locked signs with whatever is in the slot.
Signed(t, kind, s) == Done(t, Reply(kind, store[s]))

-----------------------------------------------------------------------------
(* The start of a command                                                   *)

\* Mutant: only reset ends a continuation.
DispatchKeeps(t, c, r) ==
  /\ pc[t] = "idle" /\ CanLock(t)
  /\ pc' = [pc EXCEPT ![t] = "entered"]
  /\ cmd' = [cmd EXCEPT ![t] = c] /\ req' = [req EXCEPT ![t] = r]
  /\ resp' = [resp EXCEPT ![t] = Reply("none", Free)]
  /\ UNCHANGED <<contVars, store, lock, slots, served, walk>>

\* abk_fido_cbor_dispatch: any command other than the two assertion commands
\* ends the continuation, in a critical section of its own.
Dispatch(t, c, r) ==
  /\ pc[t] = "idle" /\ CanLock(t)
  /\ pc' = [pc EXCEPT ![t] = "entered"]
  /\ cmd' = [cmd EXCEPT ![t] = c] /\ req' = [req EXCEPT ![t] = r]
  /\ resp' = [resp EXCEPT ![t] = Reply("none", Free)]
  /\ IF c \in {"getAssertion", "getNextAssertion"}
     THEN UNCHANGED contVars ELSE ClearAssertState
  /\ UNCHANGED <<store, lock, slots, served, walk>>

\* A malformed request, a makeCredential with pinUvAuthParam or with up
\* cleared, a store that does not load, clientPIN and unknown commands.
Reject(t) ==
  /\ pc[t] = "entered" /\ CanLock(t)
  /\ cmd[t] \in {"makeCredential", "getAssertion", "getInfo", "other"}
  /\ Done(t, Reply("error", Free))
  /\ UNCHANGED <<store, contVars, request, walk>>

\* A getAssertion with pinUvAuthParam, or with a store that does not load.
RejectAssertion(t) ==
  /\ pc[t] = "entered" /\ cmd[t] = "getAssertion" /\ CanLock(t)
  /\ ClearAssertState
  /\ Done(t, Reply("error", Free))
  /\ UNCHANGED <<store, request, walk>>

GetInfo(t) ==
  /\ pc[t] = "entered" /\ cmd[t] = "getInfo" /\ CanLock(t)
  /\ Done(t, Reply("info", Free))
  /\ UNCHANGED <<store, contVars, request, walk>>

\* makeCredential (also its selection form), reset and selection look nothing
\* up before the gate.
AskPlain(t) ==
  /\ pc[t] = "entered" /\ CanLock(t)
  /\ cmd[t] \in {"makeCredential", "reset", "selection"}
  /\ EnterGate(t)
  /\ UNCHANGED <<store, contVars, localVars, resp, walk>>

\* abk_fido_get_assertion_resp up to the gate.
GetAssertionNone(t) ==
  /\ pc[t] = "entered" /\ cmd[t] = "getAssertion" /\ CanLock(t)
  /\ CollectSlots(store, req[t]) = <<>>
  /\ ClearAssertState
  /\ Done(t, Reply("error", Free))
  /\ UNCHANGED <<store, request, walk>>

AskGetAssertion(t) ==
  /\ pc[t] = "entered" /\ cmd[t] = "getAssertion" /\ CanLock(t)
  /\ CollectSlots(store, req[t]) # <<>>
  /\ ClearAssertState
  /\ slots' = [slots EXCEPT ![t] = CollectSlots(store, req[t])]
  /\ EnterGate(t)
  /\ UNCHANGED <<store, cmd, req, served, resp, walk>>

\* abk_fido_get_next_assertion_resp up to the gate.
HasNext == assert_valid /\ assert_next < Len(assert_slots) /\ assert_fresh
NextSlot == assert_slots[assert_next + 1]

GetNextNone(t) ==
  /\ pc[t] = "entered" /\ cmd[t] = "getNextAssertion" /\ CanLock(t)
  /\ ~(HasNext /\ InUse(NextSlot))
  /\ ClearAssertState
  /\ Done(t, Reply("error", Free))
  /\ UNCHANGED <<store, request, walk>>

AskGetNext(t) ==
  /\ pc[t] = "entered" /\ cmd[t] = "getNextAssertion" /\ CanLock(t)
  /\ HasNext /\ InUse(NextSlot)
  /\ slots' = [slots EXCEPT ![t] = <<NextSlot>>]
  /\ served' = [served EXCEPT ![t] = assert_next + 1]
  /\ req' = [req EXCEPT ![t] = assert_req]
  /\ EnterGate(t)
  /\ UNCHANGED <<store, contVars, cmd, resp, walk>>

-----------------------------------------------------------------------------
(* After the gate                                                           *)

\* The gate refused, or hmac-secret, key generation, signing or encoding
\* failed; a half-made credential has been reverted.
Fail(t) ==
  /\ pc[t] = "gate" /\ CanLock(t)
  /\ Done(t, Reply("error", Free))
  /\ UNCHANGED <<store, contVars, request, walk>>

FreeSlots == {s \in Slots : ~InUse(s)}
FirstFree == CHOOSE s \in FreeSlots : \A u \in FreeSlots : s <= u

\* Mutant: the number of credentials is taken for the index of a free slot.
MakeCredentialAtCount(t, id) ==
  /\ InGate(t, "makeCredential")
  /\ req[t].list \cap UsedIds = {}
  /\ FreeSlots # {} /\ id \notin UsedIds
  /\ LET new == [id |-> id, rp |-> req[t].rp]
         slot == Cardinality({s \in Slots : InUse(s)}) + 1
     IN  /\ store' = [store EXCEPT ![slot] = new]
         /\ Done(t, Reply("made", new))
  /\ UNCHANGED <<contVars, request, walk>>

\* Mutant: the exclude list is not looked up after the wait.
MakeCredentialNoRecheck(t, id) ==
  /\ InGate(t, "makeCredential")
  /\ FreeSlots # {} /\ id \notin UsedIds
  /\ LET new == [id |-> id, rp |-> req[t].rp]
     IN  /\ store' = [store EXCEPT ![FirstFree] = new]
         /\ Done(t, Reply("made", new))
  /\ UNCHANGED <<contVars, request, walk>>

\* The rest of abk_fido_make_credential_resp: the exclude list and a free slot
\* are looked up after the wait.  The new id is random, hence unused.
MakeCredential(t, id) ==
  /\ InGate(t, "makeCredential")
  /\ req[t].list \cap UsedIds = {}
  /\ FreeSlots # {} /\ id \notin UsedIds
  /\ LET new == [id |-> id, rp |-> req[t].rp]
     IN  /\ store' = [store EXCEPT ![FirstFree] = new]
         /\ Done(t, Reply("made", new))
  /\ UNCHANGED <<contVars, request, walk>>

\* -EEXIST and -ENOSPC.
MakeCredentialRefused(t) ==
  /\ InGate(t, "makeCredential")
  /\ req[t].list \cap UsedIds # {} \/ FreeSlots = {}
  /\ Done(t, Reply("error", Free))
  /\ UNCHANGED <<store, contVars, request, walk>>

\* The rest of abk_fido_get_assertion_resp: the first of the slots collected
\* before the wait is signed, the others become the continuation.
GetAssertion(t) ==
  /\ InGate(t, "getAssertion")
  /\ Signed(t, "assertion", slots[t][1])
  /\ walk' = <<store[slots[t][1]]>>
  /\ IF Len(slots[t]) > 1
     THEN /\ assert_valid' = TRUE /\ assert_fresh' = TRUE
          /\ assert_slots' = slots[t] /\ assert_next' = 1
          /\ assert_req' = req[t]
     ELSE UNCHANGED contVars
  /\ UNCHANGED <<store, request>>

StillNext(t) == assert_valid /\ assert_next + 1 = served[t]

\* The rest of abk_fido_get_next_assertion_resp.
GetNext(t) ==
  /\ InGate(t, "getNextAssertion") /\ StillNext(t)
  /\ Signed(t, "next", slots[t][1])
  /\ walk' = Append(walk, store[slots[t][1]])
  /\ IF assert_next + 1 >= Len(assert_slots)
     THEN ClearAssertState
     ELSE /\ assert_next' = assert_next + 1 /\ assert_fresh' = TRUE
          /\ UNCHANGED <<assert_valid, assert_slots, assert_req>>
  /\ UNCHANGED <<store, request>>

GetNextGone(t) ==
  /\ InGate(t, "getNextAssertion") /\ ~StillNext(t)
  /\ Done(t, Reply("error", Free))
  /\ UNCHANGED <<store, contVars, request, walk>>

Reset(t) ==
  /\ InGate(t, "reset")
  /\ store' = [s \in Slots |-> Free]
  /\ Done(t, Reply("reset", Free))
  /\ UNCHANGED <<contVars, request, walk>>

Selection(t) ==
  /\ InGate(t, "selection")
  /\ Done(t, Reply("selected", Free))
  /\ UNCHANGED <<store, contVars, request, walk>>

-----------------------------------------------------------------------------
(* The rest of the system                                                   *)

\* A companion edit: another store replaces the live one under the lock.
Restore(new) ==
  /\ lock = None
  /\ store' = new /\ new # store
  /\ walker' = None
  /\ UNCHANGED <<lock, contVars, pc, localVars, resp, walk>>

\* The 30 s window of the continuation closes.
WindowCloses ==
  /\ assert_fresh /\ assert_fresh' = FALSE
  /\ UNCHANGED <<store, lock, assert_valid, assert_slots, assert_next,
                 assert_req, pc, localVars, resp, walk, walker>>

Handler(t) ==
  \/ Reject(t) \/ RejectAssertion(t) \/ GetInfo(t) \/ AskPlain(t)
  \/ GetAssertionNone(t) \/ AskGetAssertion(t)
  \/ GetNextNone(t) \/ AskGetNext(t)
  \/ Fail(t)
  \/ \E id \in Ids : MakeCredential(t, id)
  \/ MakeCredentialRefused(t)
  \/ GetAssertion(t) \/ GetNext(t) \/ GetNextGone(t)
  \/ Reset(t) \/ Selection(t)

\* A getAssertion starts a walk when it has collected its slots.
Walks(t) ==
  LET starts == cmd[t] = "getAssertion" /\ pc[t] = "entered" /\ pc'[t] = "gate"
  IN  walker' = IF starts \/ walker = t THEN t ELSE None

Next ==
  \/ \E t \in Transports :
       /\ \/ \E c \in Commands : \E r \in Parsed(c) : Dispatch(t, c, r)
          \/ Handler(t)
       /\ Walks(t)
  \/ \E new \in Restores : Restore(new)
  \/ WindowCloses

Spec == Init /\ [][Next]_vars

-----------------------------------------------------------------------------
(* Properties                                                               *)

Answered(t) == resp[t].kind \in {"assertion", "next"}
Answers(r) ==
  LET found == CollectSlots(store, r)
  IN  [i \in DOMAIN found |-> store[found[i]]]

\* getAssertion followed by getNextAssertion hands out the credentials that
\* match the request one by one, in slot order, each once, and the
\* continuation ends exactly when all have been handed out
\* (abk_fido_get_assertion_resp, abk_fido_get_next_assertion_resp), whatever
\* was refused, retried or timed out on the way: unless another transport has
\* sent a command or the companion has changed the store since the request.
WalkFaithful ==
  \A t \in Transports : walker = t /\ Answered(t) =>
    /\ walk = SubSeq(Answers(req[t]), 1, Len(walk))
    /\ assert_valid = (Len(walk) < Len(Answers(req[t])))

\* An assertion is signed with a credential that exists, belongs to the
\* relying party whose hash is in the signed data and is one the request
\* allows (abk_fido_collect_rp_credentials_locked before the wait,
\* abk_fido_encode_assertion_locked after it).
AssertionMatchesRequest ==
  [][\A t \in Transports : Answered(t)' /\ ~Answered(t) =>
       LET cred == resp'[t].cred
       IN  /\ cred # Free /\ cred.rp = req[t].rp
           /\ req[t].list = {} \/ cred.id \in req[t].list]_vars

\* A stored credential disappears only by an approved reset or a companion
\* edit of the store: no registration, racing another transport's
\* registrations, resets and edits, overwrites one, even when the store is
\* full (abk_fido_alloc_credential_locked, called after the wait).
CredentialsKept ==
  [][\A s \in Slots : InUse(s) /\ store'[s] # store[s] =>
       \/ \E t \in Transports : InGate(t, "reset") /\ resp'[t].kind = "reset"
       \/ resp' = resp /\ store' \in Restores]_vars

\* No registration creates a credential while the store holds one its exclude
\* list names, also when that one came in during the wait
\* (abk_fido_make_credential_resp looks the list up after the wait).
ExclusionHolds ==
  [][\A t \in Transports : resp'[t].kind = "made" /\ resp[t].kind # "made" =>
       req[t].list \cap UsedIds = {}]_vars

=============================================================================
