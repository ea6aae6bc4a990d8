# A TLA+ model of the ABK FIDO key

This directory models the program that turns a phone into a security key: the
`abk_fido_key` kernel driver (`src/files/drivers/abk_fido_key/core.c`) with its
approval gate, credential store, CTAP2 commands, CTAPHID framing and USB IN path;
the parts of the companion app that approve requests, edit the store and relay
packets over the LAN; and the desktop agent with its Windows driver. TLC checks
the models on small instances; TLAPS proves their safety properties, part by
part, for every value of the constants.

    tlc -workers 2 -config GateShared.cfg MCAuthGate
    tlapm AuthGateProofs.tla

## 1. The system and its parts

The phone acts as a security key. A host (a PC over USB, or a desktop agent over
the LAN through the companion app and `/dev/abk_fido_ctap`) sends CTAPHID
frames; the driver answers CTAP2 commands from a credential store that it keeps
in memory and in `/metadata/abk_fido_store.bin`; before it uses a key it waits
for the companion app, which shows a biometric prompt and writes the decision to
sysfs.

| part | state | operations | talks to |
|---|---|---|---|
| approval gate (`core.c` 2225-2384) | one pending request (`auth_pending`, `auth_decided`, `auth_allowed`, `auth_request_id`), grant window, cooldown | `abk_fido_auth_begin_locked`, `abk_fido_auth_decide_locked` | called by every command that needs a key, with the lock held, dropped while it waits; decided by the companion through sysfs |
| keepalive pacer (2242-2262) | `auth_keepalive_work`, `auth_usb`, `auth_cid` | runs every 500 ms while a request waits | sends frames through the transport that was dispatched last; cancelled at the end of each CBOR transaction |
| credential store (1660-2203, 3171-3393) | `store`, `store_loaded`, `store_dirty`, the file | load, persist with deferred retry, restore, upload, the changes commands make | the file system; sysfs `restore_metadata`, `reload_store`, `store_blob`, the control node |
| CTAP2 commands (2574-3806) | the slots, the getNextAssertion continuation (`assert_*`) | makeCredential, getAssertion, getNextAssertion, reset, selection, getInfo | gate, store |
| USB IN path (644-686, 3848-3905, 4143-4184, 4379-4487) | `tx_packets`, `tx_pending`, `in_req`, `online` | send, kick, completion, dequeue, disable, set_alt | receive worker, pacer, completion interrupt, controller |
| CTAPHID framing (3809-3845, 4029-4141, 4186-4202) | four channels, `next_cid`, `rx_packets` | reassembly, INIT, PING, WINK, CANCEL | both transports |
| gadget lifecycle (4489-4700) | bound function, misc device | bind, unbind, configfs attach | composite framework |
| codecs and crypto wrappers | none | CBOR, P-256, HMAC, ECDH | commands |
| companion approval loop (`FidoSyncService`, `FidoKernelBridge`, `BiometricAuthBridge`, `FidoAuthPromptActivity`) | the prompt being shown, a one-place answer queue | poll every 750 ms, prompt, 25 s timeout, write decision | gate, through sysfs |
| companion store sync and editing (`MetadataSyncCoordinator`, `FidoStoreManager`, `FidoStoreBlob`, `KeyArchive`) | SQLite snapshot, mirror files | read-modify-write of the store file, drain, restore | store file, sysfs |
| LAN relay (`LanFidoServer`, `LanClientRegistry`, `CtapHidEndpoint`) | active client, registry | hello, relay under the transport lock | `/dev/abk_fido_ctap` |
| desktop agent (`agent/`) | HID hub, subscription, pending packets | subscribe, reconnect | virtual HID device, LAN relay |
| Windows virtual HID driver (`windows/vhid`) | pending reads, report queues | read, write, cleanup | agent |
| control tool `abkvhidctl`, credential provider, settings UI, build scripts | none, or preferences | | |

What is hard in it. The receive workers of the two transports are separate work
items and run at once, while the gate, the continuation, the channel table and
the pacer exist once. The driver's mutex is dropped in the middle of every
gated command, for up to 30 s. The store is written in place, without sync, with
failures deferred, and the phone can reboot at any point. The IN path is driven
from process and interrupt context with a pop and a test of `tx_pending` in two
critical sections, and the controller may disable it between any two steps. The
app reaches the driver only through separate root shell commands, one per file,
so that everything it reads may be out of date when it writes. The driver's
userspace node has one queue of replies for all who read it. In the agent one
goroutine reads the device for all sessions, and sessions, agent and device end
independently of each other.

What makes each part correct:

* gate: nothing is let through that the user did not approve; a refusal or a
  cooldown cannot be got round; a request gets the answer to its own prompt;
  every request is answered; keepalives cover the wait and stop with it;
* store: a saved credential is not lost, a wiped one does not come back, the
  signature counter never goes back, a store thought clean is on disk;
* commands: an assertion is signed with a credential that matches its request;
  the walk over several credentials is complete and in order; registration
  overwrites nothing and respects the exclude list;
* framing: what is dispatched is one whole message of one host, and no message is
  left without an answer;
* IN path: one owner of the request buffer, no frame lost silently, frames in
  order, the endpoint never wedged;
* companion: the user approves the request that was shown; syncs and edits lose
  and revive no credential;
* LAN relay: each computer gets the answers to its own requests, blocked computers
  stay out, and the endpoint never stays locked;
* agent and Windows driver: every report goes once and in order to the phone, every
  reply back to the host, nobody waits for ever, no freed handle is used.

## 2. Modules

| module | models | extends | runs / proofs |
|---|---|---|---|
| `AuthGate` | gate, pacer and the CBOR transaction around them | | `MCAuthGate`, `AuthGateProofs` |
| `CompanionPrompt` | the app's approval loop and prompt | `AuthGate` | `MCCompanionPrompt`, `CompanionProofs` |
| `DurableStore` | what the store promises | | property of `MCStore`, `StoreProofs` |
| `Store` | credential store, file and faults | instance of `DurableStore` | `MCStore`, `StoreProofs` |
| `StoreSync` | the app's sync and edits | `Store` | `MCStoreSync`, `StoreProofs` |
| `Authenticator` | CTAP2 commands over the slots, two transports | | `MCAuthenticator`, `AuthenticatorProofs` |
| `HidFraming` | receive queues, reassembly, channel table and ids | | `MCHidFraming`, `HidFramingProofs` |
| `UsbIn` | IN queue, kicks, completion, unplug and enumeration | | `MCUsbIn`, `UsbInProofs` |
| `WinVhid` | the Windows virtual HID driver | | with `DesktopAgent` |
| `DesktopAgent` | the hub and relay of the agent | `WinVhid` | `MCDesktopAgent`, `DesktopAgentProofs` |
| `LanRelay` | the phone's LAN server, registry and endpoint | | `MCLanRelay`, `LanRelayProofs` |

**AuthGate.** One action per critical section of `abk_fido_dev.lock`, or per
lock-free step between two of them. A worker goes `idle`, `dispatched`
(`auth_usb` set), then either straight to `returned` (no gate, cooldown, grant
window) or through `waiting` and `woken` or `expired`; then `cleared`
(`auth_usb = NULL`), `cancelling` (inside `cancel_delayed_work_sync`) and `idle`
when the response is out. `Wake` and `Expire` are the unlocked read of
`auth_decided`; what the worker finds once it has the lock again may differ.
Deadlines are ticks left. `answer` and `last_answer` are history variables:
`answer` is what was accepted for a worker's own prompt, and `late` if it was
accepted between the end of the wait and the worker's next critical section, while
`auth_pending` is still set. The `-ERESTARTSYS` branch is left out: kernel workers take no signals.

**CompanionPrompt.** The service loop of `FidoSyncService` goes from `poll` through
the separate sysfs reads of `FidoKernelBridge` (`PollPending`, `ReadFields`), the test
against `lastPromptRequestId`, `Begin` of the bridge and the start of the activity
to the wait for the one-place `authResultQueue`, its timeout, and the write of the
decision (`DecisionTaken`, `DecisionRefused`), which is the gate's
`abk_fido_auth_decide_locked`. A launch that fails denies the request first and ends the
prompt then (`LaunchFails`, `LaunchOver`). `OnCreate`, `UserAnswers`, `OnDestroy` are the
activity's; `AppKilled` forgets everything but the activity. Of `auth_context` only
counts whose request it describes. The gate moves between any two steps.

**Store.** The content is a set of credentials, the counter and whether PIN
state is present; the file is missing, v1, v2 or torn, with a page-cache copy and
a flash copy. `Persist` is `abk_fido_maybe_persist_locked` with its outcomes:
written, failed before the file was opened, cut short after `O_TRUNC`. `FaultKinds`
says which faults may happen in a run, `MaxFaults` how many. The model keeps that
`Reset` does not set `store_loaded`, that a failed load leaves a dirty empty
store, that v1 PIN state is dropped and makes the store dirty, and that
`store_blob` leaves it clean. `saved`, `wiped`, `signed` are history, and so is `mishaps`: the
kinds of fault that have happened, an upload, a control command before the first load.

**DurableStore.** A set of credentials and the counter each relying party has seen;
no memory, file or reboot. `Store` implements it with `creds` the credentials that a
reader would find now (`Present`: the live store if it is loaded, else the file),
`seen` the history `signed`, and `hurt` that something in `mishaps` has happened,
after which `DurableStore` promises nothing.

**StoreSync.** `sync` and `edit` are program counters with what `syncNow` and an edit
of `FidoStoreManager` have read. The app truncates the file and fills it in two
steps (`SyncWrite`/`SyncFill`, `EditWrite`/`EditFill`): it writes by shell
redirection. `ShouldDrain`, `ShouldDrainEmpty`, `ShouldRestore` are the decisions of
`syncNow`, over counts, as in the code. Commands, reboots and failed writes are those
of `Store`. The history variable `raced` says that something fell between a read
and the write that followed from it.

**Authenticator.** A handler is `Dispatch` (which ends the continuation, in a
critical section of its own), a part up to the gate, and a part after it. The
gate either keeps the lock (grant window) or drops it, so that other handlers
and companion edits come in between; which of the two, and whether it refuses, is
`AuthGate`'s business and a free choice here. The local `slots[]`, `slot` and
`served` of a handler are variables, because they are read before the wait and
used after it. A credential is its id and relying party; a request its relying
party and its list.

**HidFraming.** A payload is a sequence of chunks, one per frame. `Write`,
`WriteLost` and `WriteBusy` are a frame that is queued, a frame of a gadget that a
full queue drops in silence, and a write to the userspace node that fails with
`-EBUSY`. The worker's actions are the branches of `abk_fido_process_packet`, each
one critical section; `DispatchInit` is the second critical section of an INIT.
`NextCid` is
`abk_fido_next_cid_locked` in an id space of `CidSpace` values, with both reserved
values and the skip over them; a host that has no id yet has `NoCid`, which is none
of them. Only INIT's channel ids are used by hosts for commands, so that the two transports
never use the same one; INIT itself goes to the broadcast id, as in the code.

**UsbIn.** A kick is five steps: look at `online` and `in_req`, pop, take
`tx_pending`, copy the frame into the buffer, queue the request. The buffer is a
variable of its own, so that a kick that claimed before an unplug can write over a
frame in flight before `usb_ep_queue` refuses it; `spoilt` names the frames that
shared the buffer so. The kickers are the sender, the completion interrupt, `set_alt`
and one client of `abk_fido_misc_write`. The pacer and the receive worker are one sender, because the pacer sends only
while the worker waits and is cancelled synchronously before the reply. The
controller completes, refuses or gives back a transfer; `Disable` and `SetAlt`
happen between any two steps, and the buffer of a new request may hold what the old one
held, because it is not initialised. `Disable` is one step: the kick of the completion
that `usb_ep_disable` raises meets a disabled endpoint and gives up one of the frames that
are drained next. A kick that goes on after `in_req` was freed is the
step `KickOops`; what memory it then touches is not modelled.

**WinVhid.** Each action is a critical section of `context->Lock`: `AbkEvtIoRead`,
`AbkEvtVhfWriteReport` with `AbkDeliverHostReport`, the two halves of a write
(`ChooseShape`, then `SubmitAccepted` or `SubmitRefused`, also by VHF itself), `AbkEvtVhfGetInputReport`, and
the plug-and-play callbacks from `AbkEvtDeviceAdd` to `AbkEvtDeviceCleanup`. `Hosts`
are the HID stacks to meet: whether their reports lead with the report id, whether
VHF insists, whether they poll.

**DesktopAgent.** `reader` is the goroutine of `hub.run`, `relay` the main goroutine
(dial, subscribe, copy replies), `SendPacket` the third. `moving` is what `subscribe`
has taken from `h.pending` and not yet pushed (it drops the rest when the reader has
failed and closed `done`), `packets` the channel of the current
session. The hub's mutex is held over a write to the driver (`muFree`). Sessions, the
process and the device end at any point (`SessionEnds`, `Exit`, `DeviceGone`).

**LanRelay.** A thread per connection goes from `hello` to `idle`, reads a request, makes
itself the active client (`Activate`), takes the transport lock and writes the request
(`Write`; `NotWritten` if it was superseded or the endpoint refuses the packet twice), and
is then in an exchange that ends with an answer, an abandonment or a timeout. A computer is what the registry knows it
by: the id it reports, or its address if its agent is too old to send a hello, in which
case its first report is its first request. The
phone's own provider is one more user of the endpoint. The kernel answers what is in
`rx` in order, with keepalives, answers or, to an INIT, errors; `Matches` is the test
of channel, command and nonce. A message is one packet; an error to a CBOR
request is treated like any answer and is not told apart.

A definition under a comment that begins with "Mutant" is a wrong variant of the
definition after it, used to see that the properties notice the bug.

## 3. Runs

| run | module, configuration | shows |
|---|---|---|
| `companion` | `MCCompanionPrompt`, `Companion.cfg` | a request is approved only by a user who was shown it, unless an older prompt was still on the screen (`ApprovedAsShown`); with one transport the outcome is the answer to the request's own prompt, unless it came after the wait (`AnswerDecidesOutcome`, deviation 20), nothing passes during a cooldown (`CooldownBlocks`) and the pacer works during the whole wait (`KeepaliveCoversWait`) |
| `gate_shared` | `MCAuthGate`, `GateShared.cfg` | what remains true with two transports: `RefusalIsFinal`, `WindowsExclusive`, `KeepaliveWithinTransaction`, and the liveness property `EveryRequestAnswered` |
| `gate_lost_approval` | `MCAuthGate`, `GateLostApproval.cfg` | refutes `OnlyUnansweredTimesOut` (deviation 1) |
| `store` | `MCStore`, `Store.cfg` | under read, open, write and power faults, uploads and control commands the dirty flag never lies (`CleanMeansSaved`); writes that fail before the file is touched lose nothing (`SavedSurvives`); until something goes wrong a reset is final (`ResetIsFinal`), the counter is monotone (`CounterNotBehind`) and the store implements `DurableStore` (`DurableSpec`) |
| `store_unreadable` | `MCStore`, `StoreUnreadable.cfg` | refutes `SavedSomewhere` (deviation 3) |
| `store_sync` | `MCStoreSync`, `StoreSync.cfg` | syncs and edits that nothing races with are harmless (`SyncHarmless`), and after a successful sync that nothing disturbed file and driver hold equally many credentials (`SyncAgrees`) |
| `ctap_shared` | `MCAuthenticator`, `CtapShared.cfg` | getAssertion and getNextAssertion hand out exactly the matching credentials, in slot order, when no other transport interferes (`WalkFaithful`); with two transports and companion edits `CredentialsKept` and `ExclusionHolds` |
| `ctap_stale_slot` | `MCAuthenticator`, `CtapStaleSlot.cfg` | refutes `AssertionMatchesRequest` (deviation 7) |
| `usb_in` | `MCUsbIn`, `UsbIn.cfg` | across failures, unplugs and a new enumeration `tx_pending` has an owner (`InRequestOwned`), no frame is lost silently or doubled (`FramesConserved`), a dead session's queue reaches no new host (`DeadSessionDrained`), all but frames that a late kick shared the buffer with (deviation 10); without contention of kicks frames stay in order and none is forgotten (`OrderlyKicks`) |
| `hid_framing` | `MCHidFraming`, `HidFraming.cfg` | with take-overs, abandoned and over-long messages and a lost frame, what is dispatched is one whole message of that transport (`DispatchedWhole`), every message received is dispatched or answered with an error (`NoSilence`), ids are never 0 or broadcast, and unique until they wrap (`IdsUsable`); the buffer bound is in `TypeOK` |
| `desktop` | `MCDesktopAgent`, `Desktop.cfg` | no lost wakeup (`NoMissedReport`), no use or leak of a VHF handle (`HandleLives`), replies once, in order and in shape (`RepliesReachHost`), reports in exactly one place and in order (`PacketsConserved`, `InOrder`); `subscribe` ends and the reader is freed, but for one hang (`HandOver`, `ReaderFree`, deviation 17) |
| `lan_relay` | `MCLanRelay`, `LanRelay.cfg` | no computer gets another's answer (`AnswersStayHome`), answers match their requests unless an exchange was abandoned (`AnswersMatch`), nobody takes an answer that is waited for (`AnswerNotStolen`), blocked computers stay so when the registry is full (`BlockedStaysOut`), the lock is given back (`LockReleased`) |

Where a property has a condition, the condition names a history variable
(`reused`, `mishaps`, `raced`, `contended`, `refused`, `wrapped`, `overtaken`, `tainted`) that
records the very event after which the code no longer keeps the promise; section 5
says what happens then.

The type invariants of `UsbIn`, `HidFraming` and `DesktopAgent` with `WinVhid` are
checked by their runs as well as proved, because they hold the bounds of buffers and
queues. Those of `AuthGate`, `Store`, `StoreSync`, `CompanionPrompt`, `Authenticator` and
`LanRelay` are proved only.

Bounds and why they are enough:

* gate: two transports are all the driver has. Windows of two ticks let one
  transport act while the other's window is half gone; three prompts let one
  follow a refusal and a grant. `MaxRequests` only stops new prompts. `companion` has
  one transport, so that every surprise comes from the app; three prompts let an old
  prompt, its late answer and a new request meet.
* store: two credentials tell "this one" from "the others"; the first file is
  missing, current, or a v1 file with or without PIN state; a counter up to 2
  admits a counted and a later assertion; two faults let a retry fail as well.
* sync: two credentials, an edit and a sync at a time (the app has no more), two
  failed writes and a counter up to 1. Credentials are symmetric; the view leaves out
  `flash`, which no step reads when no power is lost, and the history once
  `SyncHarmless` promises nothing any more.
* commands: three slots and three ids make walks of up to three credentials, with gaps
  after a reset, races on the last free slot and a registration that meets a full
  store; one relying party suffices, since a credential of another one is like one
  the list does not name. Restored stores are those of `MCRestores`. The transports
  are symmetric, the view leaves out what idle transports last asked and got, and there is no liveness property. Time is the single step
  `WindowCloses`.
* framing: two channels, which two reserved ids fill; messages of one to four
  frames with a maximum of three; a queue of two; an id space of 8 with `next_cid`
  first far from its limit and then close to it; five messages allow both hosts an
  INIT and a command, or one host three commands; one silently lost frame. What two
  lost frames can do (the tail of one message and the head of the next leave one
  message that the sequence numbers of CTAPHID cannot tell) needs no larger run:
  `DispatchedWhole` leaves out a payload of two messages that have both lost a frame,
  which one lost frame never makes, and the proof covers any number of them.
* IN path: replies of two frames with a queue of two, so that it is full with
  one reply queued; two messages, of the sender or of the misc device, make a keepalive
  and a reply, or a reply and a frame that meets it; three enumerations, so that a kick
  of the first can meet a transfer of the second and its frame can be looked for in the
  third.
* desktop: two kinds of HID stack; rings of two slots, so that there is an order in them and the third report
  overruns; three reports and room for two pending ones, so that a channel can be full; two sessions and two starts of
  the agent, so that each can meet what its predecessor left; one device in the run that is kept,
  which is enough for its removal and its cleanup to meet every step of the agent. With
  `MaxDevices = 2`, a device added anew, the same properties hold too (1.2 million states),
  and the theorems are for any number.
* LAN: two computers and a registry of one record, so that it is full at once; two
  connections, so that one supersedes the other; three requests make an INIT, an
  abandoned request and the one that meets its answer; one decision of the user and
  one keepalive.

Deadlock is not checked in `usb_in`, `hid_framing`, `desktop` and `lan_relay`: hosts may
stop sending, and messages are bounded.

Fairness, and why the code justifies it:

* `AuthGate`, `FairSpec`: weak fairness of each worker's own steps, of the pacer and
  of the clock, because the system workqueue runs ready work items and jiffies
  advance. None of hosts, the companion or the user: the 30 s timeout has to do.
* `DesktopAgent`: weak fairness of the goroutines' steps, because Go schedules runnable
  goroutines, and of the driver's completions; for `SendPacket` this includes that
  `conn.Write` returns, with an error if need be: a peer that keeps the connection open
  and never reads would block it. None of the host, the network otherwise, the phone or
  the user.
* `LanRelay`: weak fairness of a thread in an exchange. It runs, and its read returns
  with a packet or at the timeout of the root shell command that does it; the write of a
  packet to the computer, which is done under the lock and has no timeout of its own
  (`LanFidoServer.kt` 311, 325, 334), is assumed to return or to fail. None of the
  kernel, the computers or the network otherwise.

## 4. Proofs

Each proof module holds for all values of its model's constants: any transports,
queues, slots, messages, windows, faults, computers and devices. Assumptions about
constants are the named `ASSUME`s of the models, and `OneTransport` or
`Restores = {}` where said; the credentials of `StoreSync` are finitely many, because the
app counts them. Every theorem `Spec => []Inv` goes the same way: an
inductive invariant made of named parts, one lemma for what each action (or each part)
does to it, and a last step of temporal logic.

**AuthGateProofs**

* `TypeCorrect`: the type invariant.
* `RefusalFinal`: rests on `AnswerInvariant`. An open grant window,
  and `auth_allowed`, each imply that the last accepted answer was an approval; a
  refusal ends both in one critical section.
* `WindowsNeverOverlap`: a window opens only in a step that closes the other.
* `KeepaliveStopsInTime`: rests on `PacerInv`. `auth_usb` names only
  transports whose handler has not been cleared yet, so a running instance of the
  pacer samples no idle one; the synchronous cancellation then holds the response
  back until the instance is through.
* `SoloAnswerDecides`, `SoloKeepalive`, `SoloCooldown` assume one transport
  (`OneTransport`) and rest on `SoloInv`, which ties the shared slot to the one
  worker: the slot is pending exactly while it waits, with its own request id, a
  decision is the answer to it, and the pacer is armed or running for it. Once its wait
  is over, only a late answer can change what it was answered. With two transports
  `SoloInv` is false, which is deviation 1.

**CompanionProofs**

* `CompanionUsesGate` is the refinement `CompanionSpec => Spec`: every step of the
  app is a decision the gate allows anybody to make, or leaves the gate alone. So
  `CompanionAnswerDecides`, `CompanionKeepalive` and `CompanionCooldown` carry the
  three solo theorems over to gate and app together.
* `ApprovalWasShown` rests on `ShownInv`. `ReadInv` orders what the service has read:
  the id, then the context, which is of that request or a later one. `AnswerShown`
  says that the refusal after a failed launch is one, and that, unless an older prompt was
  reused, the only prompt on the screen is of the request in hand, and that every approval in the queue or in hand was given to it.

**StoreProofs**

* `TypeCorrect`, and `CleanStoreIsSaved`, which is inductive as it stands given
  the types: each action that changes the credentials either persists them or
  leaves the store dirty.
* `SavedCredentialSurvives`. It needs `FileInv`: as long as only writes have failed
  before the file was opened, or stores have been uploaded, what has been saved is in the file and a
  file with credentials can be read.
* `WipedStaysWiped`, `CounterKeepsUp` and `StoreIsDurable` (`Spec => DurableSpec`, the
  refinement) rest on `SoundInv`: as long as nothing has gone wrong, a loaded store has
  the credentials of the file and a counter not behind the file's, and the file can be
  read or is empty, holds nothing wiped, and has a counter not behind what any relying
  party of its credentials has seen. The invariant is
  needed because a reboot, a load or a restore switches `Present` from the live store
  to the file or back: only their agreement makes that a stutter of `DurableStore`.

* `SyncsAreHarmless` rests on `HarmlessInv`. As long as nothing has raced, at most one of
  sync and edit is about to write, or both are and the next step of either is a race
  (`Both`). In the first case the file is sound but while it is truncated, the live store
  agrees with it but between an edit's write and its restore, and what is about to be
  written is sound (`DiskInv`, `SyncHandInv`, `EditHandInv`). Two facts carry it: a drain is
  only begun with more credentials than the file has, so it never turns into a restore of a
  file read earlier (`DrainInv`); and a readable snapshot was once in the file, so it is never
  restored while a file can be read or is being written.
* `SyncsAgree` rests on `CalmInv`: until the sync is disturbed its count is the driver's, and
  what it drains is the live store.

**AuthenticatorProofs**

* `CollectFinds`: the search of `slots[]` returns exactly the matching slots, each once
  and in slot order. `CollectSlots` is a recursive function over the slots, and this is
  proved by induction over them for a store of any size.
* `CredentialsAreKept` and `ExclusionAlwaysHolds` need no more than `FullType`, because
  a registration looks for a free slot, and at the exclude list, in the critical section
  that uses the result.
* `WalkIsFaithful` rests on `WalkInv`: as long as nobody comes in between, the local
  slots before the wait, the continuation and the store after it are the same
  `CollectSlots`, and the walk so far has shown its first `assert_next` members.
* `SoloAssertionMatches`: with one transport and no companion edit `FreshInv` keeps the
  slots that were looked up matching until they are used, so that
  `AssertionMatchesRequest`, which `ctap_stale_slot` refutes, holds. What breaks it are the
  other transport and the companion, and nothing else.

**UsbInProofs**

* `TypeCorrect` with `FullType`: a kick holds a frame exactly between its pop and its end.
* `RequestIsOwned` rests on `OwnInv`: whoever set `tx_pending` is in one of the steps
  `Owned` names, and in the first session there is one of them only (`FirstSession`).
* `FramesAreConserved` and `DeadSessionStaysDrained` rest on `FrameInv`: for frames that
  have not been `spoilt`, queue, hands, buffer, host and the frames dropped are disjoint
  (`OnceInv`), hold what was pushed
  and nothing else (`SentInv`), and what is still to be pushed is new (`FreshInv`).
  `BufferInv` says when the buffer is in use.
* `KicksAreOrderly` rests on `OrderInv`, the places in the order in which a frame goes
  through them, and `SenderInv`, that somebody is about to send what is queued.

**HidFramingProofs**

* `IdsAreUsable` rests on `IdInv`; `TypeCorrect`, with the bound on the buffers, on the
  table part of what follows.
* `DispatchIsWhole` and `NobodyIsIgnored` speak of what the worker of a transport has
  seen, while losses happen where its host writes. The bridge is the `Stream` of a
  transport, its receive queue followed by what its host has still to write: `FramesInv`
  (whose frames, in which order), `LinkInv` (frames of a message follow each other unless
  one was lost), `WriteInv`, `OwnCidInv`. The other half is the table: `TableInv` (a
  channel holds the chunks of one message in order, or `Joined` ones), `HeldInv` (all
  of them sent by its host before what is still in the stream), `NextInv` (the next
  frame of a stream finds its predecessor in the channel, if anything), and `OutcomeInv`
  and `HeardInv` for what became of the messages.
* `Joined` is where two messages that have both lost frames become one payload, the
  exception that `DispatchedWhole` makes and that the run, which loses one frame, never
  meets.

**LanRelayProofs**

* `TypeCorrect` and `BlockedStay`: the registry lists a computer once, and a blocked one as
  blocked, whatever is removed to make room (`RegistryInv`).
* `AnswersAreHome`, `AnswersAreMatched`, `AnswersAreKept` are one invariant. `LockInv`: the
  transport lock is held by the one thread in an exchange. `SentInv`: a request is sent
  and answered once. `PendingInv`: besides the request in exchange, the kernel's queues
  hold only CANCELs, INITs and requests of channels that were abandoned. `RequestInv` and
  `ChannelInv`: nonces tell requests apart, and a channel has one owner (`Claims`: who
  was told of it, who has sent on it, whose INIT it is named by).

**DesktopAgentProofs**

* `NoReportIsMissed` and `HandleIsAlive`: `HandInv` and `PnpInv`, which gives the state
  of the VHF handle and its flag for each plug-and-play state.
* `RepliesArrive`: `ReplyInv` says that what a polling host will collect follows what it
  has; `ShapeInv` that whoever holds a report of the device it has open knows the shape
  of its reports, so that no reply is written in the wrong one.
* `PacketsAreConserved` and `PacketsInOrder`: the ten places a report can be in are a
  function (`Places`), `Conserved` says that they part the reports sent, and
  `Falling(Line, 8)` that the places are in the order in which a report goes through
  them. Each action is one of three moves between places (`Moved`, `Gathered`,
  `Arrived`), for which conservation and order are proved once. `RelayInv` and `OffInv`
  tell which places are empty: while a session is subscribed nothing is pending, and a
  process that does not run holds nothing.

Model-checked only is liveness (`EveryRequestAnswered`, `HandOver`, `ReaderFree`,
`LockReleased`), which is outside the prover's reach.

Refuted properties have no theorem, of course, but for `AssertionMatchesRequest` under the
hypotheses of `SoloAssertionMatches`.

## 5. Where the code does not do what it says

Each has a counterexample in the models; those with a run are listed under
findings in `PROJECT.json`, the others are reached by the same modules with the
constants given here.

1. Two transports: the second prompt resets `auth_decided` (2300). If the user's approval
   of the first request was accepted before and its worker has not run since, the
   approval is erased: that worker waits on, times out and arms the cooldown
   (`gate_lost_approval`). When both wait, the first worker to wake clears the decision
   for both (2347), to the same effect.
2. Two transports: the end of one transaction sets `auth_usb` to NULL and stops
   the other one's keepalives (`KeepaliveCoversWait` with the constants of
   `GateShared.cfg`).
3. A transient error at the first load installs an empty dirty store, which the
   next write puts over the good file (`store_unreadable`).
4. A write that fails after `O_TRUNC`, then a reboot: the store is gone
   (`SavedSomewhere` with `FaultKinds = {"write"}`).
5. The control command `pin_reset` before the first load persists the zeroed live
   store, with no approval (`SavedSomewhere` with `ABK_CONTROL = TRUE` and no
   faults).
6. A reset whose write fails reports success and is undone by a reboot
   (why `ResetIsFinal` is conditional).
7. getAssertion signs the slot it found before the wait with whatever is in it
   after the wait: an emptied one, all-zero key and credential id included, when the
   other transport's reset was approved meanwhile (`ctap_stale_slot`), or another
   credential when the slot has been filled anew.
8. getNextAssertion recognises its continuation after the wait by its position
   only: one that another transport has replaced, at the same position, passes.
9. A kick that finds a transfer pending puts its frame behind the later frames of
   the same reply (4168); if the transfer completes between a kick's pop and its
   push back, the frame stays in the queue of an idle endpoint until something else is
   sent (4162). `OrderlyKicks` is conditional on no contention.
10. A kick that passed the test of `online` goes on after `abk_fido_disable` freed
    `in_req` (4403). If the next enumeration has come meanwhile it writes into the new
    buffer, and with it over the frame of a transfer in progress, before `usb_ep_queue`
    refuses the request (4174-4177): a frame of the new session never reaches its host,
    and one of the old session may instead.
11. A frame in a kick's hand, or the reply of a worker that waited for the user
    across an unplug, goes out in the next enumeration, although
    `abk_fido_disable` drains the queue to prevent it (4399).
12. A first frame that announces more than `ABK_FIDO_MAX_MSG` is refused without
    resetting its channel; if the channel held the start of an earlier message,
    the continuations of the refused one complete it. `DispatchedWhole` leaves
    this case out and says so.
13. `abk_fido_next_cid_locked` (3837-3845): after it has skipped the reserved values the
    id it returns is also the next one, so two INITs in a row get the same id. Two
    hosts on one id can mix their messages, and one can be left without an answer.
14. Prompt: an older prompt that is still on the screen is reused for the next request
    (the activity is `singleInstance` and has no `onNewIntent`), so what the user sees and
    approves is the older request; and an instance that finished without a result
    denies the next request in its `onDestroy`.
15. Sync without any fault: a credential registered between the sync's read of the file
    and its write is overwritten in the file and then dropped from the live store by
    `restore_metadata`, versus "The kernel is authoritative for a credential it just
    minted" (`MetadataSyncCoordinator.kt` 391-392). Edits do not take `syncLock`: a sync that reads the
    file while an edit has truncated it drains the old live store and brings the
    deleted credential back. A reboot in the middle of a write of the app leaves a truncated
    file.
16. Sync with failures: only counts are compared; a drain that cannot be written still
    ends as success; a reset, or an edit through `store_blob`, that did not reach the
    file is undone by the next sync.
17. Agent: `subscribe` hangs for ever when the pending packets and those of the reader
    together exceed the channel (`hid_hub.go` 46), and the reader with it; the reader can
    overtake packets that `subscribe` is still moving (94); packets in the channel of a
    session that ends are lost; when the device goes away the reader stops for good
    while `main` keeps dialling (76).
18. Windows driver: header and struct comment disagree on whether reports lead with the
    report id (`abkfidovhid.h` 74-76, 108-111); `GET_INPUT_REPORT` serves replies that were already
    delivered through the pipe (`abkfidovhid.c` 609-615).
19. LAN: the answer to an abandoned exchange is taken by the next request with the same
    command on the same channel, until a new INIT; an INIT error carries no nonce, so a stale one ends
    another computer's INIT (`LanFidoServer.kt` 306). Blocking a computer does not end its
    running session (`LanClientsActivity.kt` 22); a request already read is served
    after the relay was stopped; a computer that finds the registry full is never
    listed, so the user cannot authorize it.
20. Gate: an answer that comes between the end of a request's 30 s and the worker's next
    critical section is accepted (2373, before 2335), and its writer told so; the request
    times out and arms the cooldown all the same. `AnswerDecidesOutcome` and
    `OnlyUnansweredTimesOut` make this exception (`late`).

Also, the repository's README says that `U2F_V2` is advertised in `getInfo`; the
code does not advertise it. No model depends on it.

## 6. Not modelled

* Byte codecs, cryptography and the hmac-secret self-test: sequential, covered by
  test vectors.
* Tracing, statistics and status attributes; user interface, settings and build
  scripts; the credential provider and `abkvhidctl`, which have no state of their own
  (the control tool's one effect, the report mode, is `SetReportMode`).
* Gadget bind, unbind and configfs attach: one-time setup. That unbind waits for a
  worker that sleeps in the gate is a limitation the repository documents.
* CANCEL's flag, which nothing reads, and the contents of WINK and PING.
* Discovery, pairing and frame encryption of LAN relay and agent: no state shared with
  what is modelled. The Linux UHID backend: the same hub over another device.
* The read side of the userspace node pops `tx_packets` directly and shares none of the
  kick logic of `UsbIn`; in `LanRelay` it is the queue `tx`.
* More than one client of `abk_fido_misc_write`, and the content of what it writes: a
  further client is one more kicker of the same kind.
* `auth_request_id` and `sign_count` are not taken to their 32-bit limits.

## 7. What could follow

1. `HidFraming` composed with `UsbIn`, so that a long PING meets the queue it has to
   leave by.
2. Unbind against a sleeping worker, once the code does something about it.
3. The Linux UHID backend under `DesktopAgent`.
