-------------------------------- MODULE UsbIn -------------------------------
(***************************************************************************)
(* The IN direction of the USB gadget (core.c): messages are cut into      *)
(* frames and pushed on tx_packets; abk_fido_tx_kick pops one frame and    *)
(* copies it into the buffer of the only IN request, in_req, for the       *)
(* controller; its completion kicks again.  The receive worker (with the   *)
(* keepalive pacer, which only sends while the worker waits in the gate),  *)
(* a client of the misc device and the completion interrupt kick           *)
(* concurrently, each kick in several critical sections of two spinlocks   *)
(* with unlocked accesses to in_req between them; the controller's         *)
(* callbacks disable and set_alt end and start sessions at any time.       *)
(***************************************************************************)
EXTENDS Naturals, Sequences

CONSTANTS
  ReplyLens,     \* lengths of replies in frames
  QueueDepth,    \* ABK_FIDO_QUEUE_DEPTH
  EpFaults,      \* usb_ep_queue may fail on an enabled endpoint
  MaxMsgs,       \* bound: messages sent, keepalives included
  MaxSessions,   \* bound: enumerations; the last one is not ended
  None           \* no frame

Frame == [msg : 1..MaxMsgs, idx : Nat, session : 1..MaxSessions]

ASSUME UsbInAssumption ==
  /\ ReplyLens \subseteq Nat \ {0} /\ QueueDepth \in Nat \ {0}
  /\ EpFaults \in BOOLEAN
  /\ MaxMsgs \in Nat /\ MaxSessions \in Nat \ {0}
  /\ None \notin Frame

Kickers == {"sender",   \* the receive worker or the pacer
            "misc",     \* a client writing to the misc device
            "irq",      \* abk_fido_tx_complete
            "setalt"}   \* the end of abk_fido_set_alt

VARIABLES
  tx_packets,
  tx_pending,
  online,        \* usb->online, with in_req allocated
  in_flight,     \* the controller owns in_req
  buffer,        \* the frame in in_req->buf, while the controller or a kick
                 \* that has filled it uses it; None: some other memory
  pc, hand,      \* per kicker: its step, the frame it has popped
  todo,          \* frames the sender has still to push
  busy,          \* the receive worker is in a CBOR transaction
  command_session, \* history: the session that transaction's command came in
  session,       \* sessions so far
  msgs,          \* messages so far
  host,          \* history: frames the host has got in this session
  sent, lost,    \* history: frames handed to the queue; frames given up
  drained,       \* history: frames a dead session had queued or in flight
  spoilt,        \* history: frames that shared the buffer with another use
                 \* of it, or were in it when it was freed
  contended,     \* history: two kicks held frames or in_req at once, or one
                 \* put its frame back behind others or after the completion
  refused        \* history: usb_ep_queue has refused a frame

kickVars == <<pc, hand>>
sendVars == <<todo, busy, command_session, msgs>>
requestVars == <<tx_pending, online, in_flight, buffer>>
pastVars == <<drained, spoilt, contended, refused>>
vars == <<tx_packets, requestVars, kickVars, sendVars, session, host, sent,
          lost, pastVars>>

\* The steps in which a kick holds a frame or uses in_req.
Holding == {"popped", "requeue", "claimed", "filled", "oops"}
Steps == Holding \cup {"idle", "push", "kick", "looked", "completed"}

\* The type invariant; the queue never outgrows its ring.
TypeOK ==
  /\ tx_packets \in Seq(Frame) /\ Len(tx_packets) <= QueueDepth
  /\ tx_pending \in BOOLEAN /\ online \in BOOLEAN /\ busy \in BOOLEAN
  /\ in_flight \in BOOLEAN /\ buffer \in Frame \cup {None}
  /\ pc \in [Kickers -> Steps] /\ hand \in [Kickers -> Frame \cup {None}]
  /\ todo \in Seq(Frame)
  /\ session \in 1..MaxSessions /\ command_session \in 1..MaxSessions
  /\ msgs \in 0..MaxMsgs
  /\ host \in Seq(Frame) /\ sent \subseteq Frame /\ lost \subseteq Frame
  /\ drained \subseteq Frame /\ spoilt \subseteq Frame
  /\ contended \in BOOLEAN /\ refused \in BOOLEAN

Init ==
  /\ tx_packets = <<>> /\ tx_pending = FALSE
  /\ online = TRUE /\ in_flight = FALSE /\ buffer = None
  /\ pc = [k \in Kickers |-> "idle"] /\ hand = [k \in Kickers |-> None]
  /\ todo = <<>> /\ busy = FALSE
  /\ session = 1 /\ command_session = 1 /\ msgs = 0
  /\ host = <<>> /\ sent = {} /\ lost = {} /\ drained = {}
  /\ spoilt = {} /\ contended = FALSE /\ refused = FALSE

Goto(k, step) == pc' = [pc EXCEPT ![k] = step]
Drop(frames) == lost' = lost \cup (frames \ {None})

\* The kicks other than k that have filled the buffer and not yet queued it.
OtherFills(k) == {j \in Kickers \ {k} : pc[j] = "filled"}
Fills == {j \in Kickers : pc[j] = "filled"}
\* The buffer keeps its frame as long as somebody may still send it.
KeepIf(used) == buffer' = IF used THEN buffer ELSE None

-----------------------------------------------------------------------------
(* abk_fido_queue_push, ignored result included                             *)

\* Mutant: the depth is not checked.
PushUnbounded(f) == tx_packets' = Append(tx_packets, f) /\ UNCHANGED lost

Push(f) ==
  IF Len(tx_packets) < QueueDepth
  THEN tx_packets' = Append(tx_packets, f) /\ UNCHANGED lost
  ELSE UNCHANGED tx_packets /\ Drop({f})

-----------------------------------------------------------------------------
(* The sender                                                               *)

\* A packet is taken from the receive queue, which outlives a session; it may
\* start a command.  abk_fido_process_packet takes a transfer the host no
\* longer polls for back from the controller; the completion follows.
Receive ==
  /\ ~busy /\ pc["sender"] = "idle"
  /\ busy' \in BOOLEAN /\ command_session' = session
  /\ IF tx_pending /\ in_flight /\ pc["irq"] = "idle"
     THEN /\ in_flight' = FALSE /\ Drop({buffer}) /\ KeepIf(Fills # {})
          /\ Goto("irq", "completed")
     ELSE UNCHANGED <<in_flight, buffer, pc, lost>>
  /\ UNCHANGED <<tx_packets, tx_pending, online, hand, todo, msgs, session,
                 host, sent, pastVars>>

\* abk_fido_send_hid_message: the frames of one message.
Start(len) ==
  /\ busy /\ pc["sender"] = "idle" /\ msgs < MaxMsgs
  /\ msgs' = msgs + 1
  /\ todo' = [i \in 1..len |-> [msg |-> msgs + 1, idx |-> i,
                                session |-> command_session]]
  /\ Goto("sender", "push")
  /\ UNCHANGED <<tx_packets, requestVars, hand, command_session, session, host,
                 sent, lost, pastVars>>

\* The pacer sends on while the worker waits; the reply ends the transaction.
Keepalive == Start(1) /\ UNCHANGED busy
SendReply(len) == Start(len) /\ busy' = FALSE

PushNext ==
  /\ pc["sender"] = "push" /\ todo # <<>>
  /\ Push(Head(todo))
  /\ sent' = sent \cup {Head(todo)}
  /\ todo' = Tail(todo)
  /\ Goto("sender", IF Len(todo) = 1 THEN "kick" ELSE "push")
  /\ UNCHANGED <<requestVars, hand, busy, command_session, msgs, session, host,
                 pastVars>>

-----------------------------------------------------------------------------
(* A client of the misc device                                              *)

\* abk_fido_misc_write up to its kick; on a full queue (-EBUSY) it does
\* nothing.
MiscWrite ==
  /\ pc["misc"] = "idle" /\ msgs < MaxMsgs /\ Len(tx_packets) < QueueDepth
  /\ LET f == [msg |-> msgs + 1, idx |-> 1, session |-> session]
     IN  tx_packets' = Append(tx_packets, f) /\ sent' = sent \cup {f}
  /\ msgs' = msgs + 1
  /\ Goto("misc", "kick")
  /\ UNCHANGED <<requestVars, hand, todo, busy, command_session, session, host,
                 lost, pastVars>>

-----------------------------------------------------------------------------
(* abk_fido_tx_kick                                                         *)

\* online and in_req are looked at under no lock.
KickLook(k) ==
  /\ pc[k] = "kick"
  /\ Goto(k, IF online THEN "looked" ELSE "idle")
  /\ UNCHANGED <<tx_packets, requestVars, hand, sendVars, session, host, sent,
                 lost, pastVars>>

KickNothing(k) ==
  /\ pc[k] = "looked" /\ tx_packets = <<>>
  /\ Goto(k, "idle")
  /\ UNCHANGED <<tx_packets, requestVars, hand, sendVars, session, host, sent,
                 lost, pastVars>>

KickPop(k) ==
  /\ pc[k] = "looked" /\ tx_packets # <<>>
  /\ hand' = [hand EXCEPT ![k] = Head(tx_packets)]
  /\ tx_packets' = Tail(tx_packets)
  /\ Goto(k, "popped")
  /\ contended' = (contended \/ \E j \in Kickers : pc[j] \in Holding)
  /\ UNCHANGED <<requestVars, sendVars, session, host, sent, lost, drained,
                 spoilt, refused>>

\* Mutant: tx_pending is tested but not taken in the same critical section.
KickClaimLate(k) ==
  /\ pc[k] = "popped"
  /\ Goto(k, IF tx_pending THEN "requeue" ELSE "claimed")
  /\ tx_pending' = tx_pending
  /\ UNCHANGED <<tx_packets, online, in_flight, buffer, hand, sendVars,
                 session, host, sent, lost, pastVars>>

KickClaim(k) ==
  /\ pc[k] = "popped"
  /\ Goto(k, IF tx_pending THEN "requeue" ELSE "claimed")
  /\ tx_pending' = TRUE
  /\ UNCHANGED <<tx_packets, online, in_flight, buffer, hand, sendVars,
                 session, host, sent, lost, pastVars>>

\* Mutant: the popped frame is not put back.
KickRequeueForgets(k) ==
  /\ pc[k] = "requeue"
  /\ hand' = [hand EXCEPT ![k] = None]
  /\ Goto(k, "idle")
  /\ UNCHANGED <<tx_packets, lost, requestVars, sendVars, session, host, sent,
                 pastVars>>

\* The frame goes back to the end of the queue.
KickRequeue(k) ==
  /\ pc[k] = "requeue"
  /\ Push(hand[k])
  /\ hand' = [hand EXCEPT ![k] = None]
  /\ Goto(k, "idle")
  /\ contended' = (contended \/ tx_packets # <<>> \/ ~tx_pending)
  /\ UNCHANGED <<requestVars, sendVars, session, host, sent, drained, spoilt,
                 refused>>

\* The frame is copied into the buffer, whoever uses it: a kick that has
\* claimed before an unplug may find a transfer of the next session in it.
KickFill(k) ==
  /\ pc[k] = "claimed" /\ online
  /\ buffer' = hand[k]
  /\ hand' = [hand EXCEPT ![k] = None]
  /\ Goto(k, "filled")
  /\ IF in_flight \/ OtherFills(k) # {}
     THEN /\ spoilt' = spoilt \cup ({buffer, hand[k]} \ {None})
          /\ contended' = TRUE
     ELSE UNCHANGED <<spoilt, contended>>
  /\ UNCHANGED <<tx_packets, tx_pending, online, in_flight, sendVars, session,
                 host, sent, lost, drained, refused>>

\* usb_ep_queue: the controller sends what is in the buffer by now.
KickQueue(k) ==
  /\ pc[k] = "filled" /\ online /\ ~in_flight
  /\ in_flight' = TRUE
  /\ Goto(k, "idle")
  /\ UNCHANGED <<tx_packets, tx_pending, online, buffer, hand, sendVars,
                 session, host, sent, lost, pastVars>>

\* usb_ep_queue refuses: the frame is lost, unless a transfer in progress
\* sends it, and nobody kicks for the rest.
KickQueueFails(k) ==
  /\ pc[k] = "filled" /\ online /\ (EpFaults \/ in_flight)
  /\ Drop(IF in_flight THEN {} ELSE {buffer})
  /\ KeepIf(in_flight \/ OtherFills(k) # {})
  /\ tx_pending' = FALSE /\ refused' = TRUE
  /\ Goto(k, "idle")
  /\ UNCHANGED <<tx_packets, online, in_flight, hand, sendVars, session, host,
                 sent, drained, spoilt, contended>>

\* in_req has been freed since the kick looked at it: a wild access.
KickOops(k) ==
  /\ pc[k] \in {"claimed", "filled"} /\ ~online
  /\ KeepIf(OtherFills(k) # {})
  /\ Goto(k, "oops")
  /\ UNCHANGED <<tx_packets, tx_pending, online, in_flight, hand, sendVars,
                 session, host, sent, lost, pastVars>>

-----------------------------------------------------------------------------
(* The controller and the host                                              *)

\* The host polls the endpoint and gets what is in the buffer.
Deliver ==
  /\ in_flight /\ pc["irq"] = "idle"
  /\ host' = IF buffer = None THEN host ELSE Append(host, buffer)
  /\ in_flight' = FALSE /\ KeepIf(Fills # {})
  /\ Goto("irq", "completed")
  /\ UNCHANGED <<tx_packets, tx_pending, online, hand, sendVars, session, sent,
                 lost, pastVars>>

\* Mutant: the completion does not send what is queued.
TxCompleteNoKick ==
  /\ pc["irq"] = "completed"
  /\ tx_pending' = FALSE
  /\ Goto("irq", "idle")
  /\ UNCHANGED <<tx_packets, online, in_flight, buffer, hand, sendVars,
                 session, host, sent, lost, pastVars>>

\* abk_fido_tx_complete up to its kick.
TxComplete ==
  /\ pc["irq"] = "completed"
  /\ tx_pending' = FALSE
  /\ Goto("irq", "kick")
  /\ UNCHANGED <<tx_packets, online, in_flight, buffer, hand, sendVars,
                 session, host, sent, lost, pastVars>>

Queued == {tx_packets[i] : i \in DOMAIN tx_packets}

Sending == (IF in_flight THEN {buffer} ELSE {}) \ {None}

\* Mutant: the queue is not drained.
DisableKeepsQueue ==
  /\ online /\ pc["setalt"] = "idle" /\ session < MaxSessions
  /\ online' = FALSE /\ tx_pending' = FALSE
  /\ in_flight' = FALSE /\ KeepIf(Fills # {})
  /\ drained' = drained \cup Queued \cup Sending
  /\ Drop(Sending)
  /\ spoilt' = spoilt \cup (IF Fills # {} THEN {buffer} \ {None} ELSE {})
  /\ UNCHANGED <<tx_packets, kickVars, sendVars, session, host, sent,
                 contended, refused>>

\* abk_fido_disable: the transfer is given back, the queue is drained, the
\* request is freed.  A kick that has popped a frame is not waited for.
Disable ==
  /\ online /\ pc["setalt"] = "idle" /\ session < MaxSessions
  /\ online' = FALSE /\ tx_pending' = FALSE
  /\ in_flight' = FALSE /\ KeepIf(Fills # {})
  /\ tx_packets' = <<>>
  /\ drained' = drained \cup Queued \cup Sending
  /\ Drop(Queued \cup Sending)
  /\ spoilt' = spoilt \cup (IF Fills # {} THEN {buffer} \ {None} ELSE {})
  /\ UNCHANGED <<kickVars, sendVars, session, host, sent, contended, refused>>

\* abk_fido_set_alt of the next enumeration, up to its kick.  The memory of
\* the new request is not initialised: it may be the old buffer's.
SetAlt ==
  /\ ~online /\ session < MaxSessions
  /\ online' = TRUE /\ session' = session + 1
  /\ buffer' \in {buffer, None}
  /\ host' = <<>>
  /\ Goto("setalt", "kick")
  /\ UNCHANGED <<tx_packets, tx_pending, in_flight, hand, sendVars, sent,
                 lost, pastVars>>

Kick(k) ==
  \/ KickLook(k) \/ KickNothing(k) \/ KickPop(k) \/ KickClaim(k)
  \/ KickRequeue(k) \/ KickFill(k) \/ KickQueue(k) \/ KickQueueFails(k)
  \/ KickOops(k)

Next ==
  \/ Receive \/ Keepalive \/ PushNext \/ MiscWrite
  \/ \E len \in ReplyLens : SendReply(len)
  \/ \E k \in Kickers : Kick(k)
  \/ Deliver \/ TxComplete \/ Disable \/ SetAlt

Spec == Init /\ [][Next]_vars

-----------------------------------------------------------------------------
(* Properties                                                               *)

\* tx_pending says who has the one IN request.  Until the first unplug a kick
\* that writes its buffer (abk_fido_tx_kick after the claim) never meets
\* another such kick or a transfer in progress.  And always, across failed
\* transfers, dequeues, unplugs and new enumerations, a set tx_pending has
\* somebody to clear it: nothing silences the endpoint for good.
InRequestOwned ==
  /\ \A k \in Kickers :
       session = 1 /\ online /\ pc[k] \in {"claimed", "filled"} =>
         /\ ~in_flight
         /\ \A j \in Kickers \ {k} : pc[j] \notin {"claimed", "filled"}
  /\ tx_pending =>
       \/ in_flight
       \/ pc["irq"] = "completed"
       \/ \E k \in Kickers : pc[k] \in {"claimed", "filled", "oops"}

\* Every frame pushed in the current session or for one of its commands is in
\* exactly one place: queued, in the hand of a kick, in the request's buffer,
\* with the host, or given up for a reason the code knows (full queue, refused
\* or dequeued transfer).  Excepted are frames that shared the buffer, which
\* the kick of a dead session writes and queues without a look at who uses it
\* (abk_fido_tx_kick): before the first unplug there are none.
Holders(f) ==
  {<<"queue", i>> : i \in {j \in DOMAIN tx_packets : tx_packets[j] = f}}
    \cup {<<"hand", k>> : k \in {j \in Kickers : hand[j] = f}}
    \cup {<<"host", i>> : i \in {j \in DOMAIN host : host[j] = f}}
    \cup (IF buffer = f THEN {<<"buffer", 0>>} ELSE {})
    \cup (IF f \in lost THEN {<<"lost", 0>>} ELSE {})
FramesConserved ==
  /\ \A f \in sent \ spoilt :
       f.session = session => \E h \in Holders(f) : Holders(f) = {h}
  /\ session = 1 /\ online => spoilt = {}

\* The frames of one message reach the host in their order, and no frame is
\* left queued with nobody to send it, as long as no two kicks contend for the
\* queue (abk_fido_tx_kick pops before it looks at tx_pending) or the request
\* and, for the second, the controller refuses none.
InOrder ==
  \A i, j \in DOMAIN host :
    i < j /\ host[i].msg = host[j].msg => host[i].idx < host[j].idx
Forgotten ==
  /\ online /\ tx_packets # <<>> /\ ~tx_pending
  /\ \A k \in Kickers : pc[k] = "idle"
OrderlyKicks == ~contended => InOrder /\ (Forgotten => refused)

\* What a dead session had queued or in flight never reaches the next host
\* (abk_fido_disable: such responses "would poison the next enumeration");
\* only a frame in the hand of a kick, one a late kick shared the buffer with,
\* and the reply of a command that is still running, can.
DeadSessionDrained ==
  \A i \in DOMAIN host : host[i] \in drained => host[i] \in spoilt

=============================================================================
