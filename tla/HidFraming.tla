----------------------------- MODULE HidFraming -----------------------------
(***************************************************************************)
(* CTAPHID reassembly (core.c): hosts cut messages into numbered frames,   *)
(* frames wait in a receive queue per transport, and each transport's      *)
(* worker (abk_fido_rx_worker) puts messages together again in ONE table   *)
(* of channels that all transports share.  A channel is taken by the first *)
(* frame of a message or by INIT, and given back when its message is       *)
(* complete or out of sequence; when all are taken, the first one is taken *)
(* over.                                                                   *)
(*                                                                         *)
(* A payload is a sequence of chunks, one per frame; lengths are counted   *)
(* in frames.  PING, WINK and CANCEL are framed like CBOR and not told     *)
(* apart from it.  Replies leave through UsbIn or a read of the userspace  *)
(* node; here a reply only settles the outcome of a message.               *)
(***************************************************************************)
EXTENDS Naturals, Sequences

CONSTANTS
  Usb,          \* the gadgets: a frame the queue refuses is lost in silence
  User,         \* the userspace nodes: such a write fails with -EBUSY
  MaxChannels,  \* ABK_FIDO_MAX_CHANNELS
  MaxLen,       \* ABK_FIDO_MAX_MSG, in frames
  QueueDepth,   \* ABK_FIDO_QUEUE_DEPTH
  CidSpace,     \* 2^32: channel ids are a C u32
  FirstCids,    \* what next_cid may have reached
  Lens,         \* lengths of the messages hosts send
  MaxMsgs,      \* bound: messages sent
  MaxLost       \* bound: frames lost

Transports == Usb \cup User
Channels == 1..MaxChannels
Broadcast == CidSpace - 1   \* ABK_FIDO_CID_BROADCAST
Cids == 0..Broadcast
NoCid == CidSpace           \* no id yet; no C u32 has this value

ASSUME HidFramingAssumption ==
  /\ Usb \cap User = {}
  /\ MaxChannels \in Nat \ {0} /\ MaxLen \in Nat \ {0}
  /\ CidSpace \in Nat /\ CidSpace > 2 /\ FirstCids \subseteq Cids \ {0}
  /\ QueueDepth \in Nat \ {0} /\ Lens \subseteq Nat \ {0}
  /\ MaxMsgs \in Nat /\ MaxLost \in Nat

Msgs == 1..MaxMsgs
Cmds == {"INIT", "CBOR"}
\* One frame's part of a message, with the length of the whole.
Chunk == [msg : Msgs, idx : Nat \ {0}, len : Lens \cup {1}]
Frame == [chunk : Chunk, cid : Cids, cmd : Cmds]
\* struct abk_fido_channel
Channel == [in_use : BOOLEAN, cid : Cids, cmd : Cmds \cup {"none"},
            next_seq : Nat, expected_len : 0..MaxLen, msg : Seq(Chunk)]
Outcomes == {"none", "dispatched", "error", "refused", "lost"}

VARIABLES
  channels,    \* abk_fido_dev.channels
  next_cid,
  rx_packets,
  pc,          \* per worker: its next frame, or the second half of an INIT
  host_cid,    \* the channel id each transport's host has been given
  writing,     \* frames each host has still to write of its message
  lost,        \* frames lost so far
  source,      \* history: the transport each message so far was sent on
  outcome,     \* history: what became of each message
  dispatched,  \* history: the last payload each worker dispatched
  wrapped      \* history: next_cid has gone through zero

driverVars == <<channels, next_cid, wrapped, pc>>
hostVars == <<host_cid, writing, source>>
vars == <<driverVars, rx_packets, hostVars, lost, outcome, dispatched>>

\* An unused channel, and one that INIT has only reserved: all zero but cid.
Reserved(cid) ==
  [in_use |-> TRUE, cid |-> cid, cmd |-> "none", next_seq |-> 0,
   expected_len |-> 0, msg |-> <<>>]
Unused == [Reserved(0) EXCEPT !.in_use = FALSE]

\* The type invariant; the reassembly buffer of a channel holds what has been
\* received, never more than announced, and that is at most MaxLen.
TypeOK ==
  /\ channels \in [Channels -> Channel]
  /\ \A i \in Channels : Len(channels[i].msg) <= channels[i].expected_len
  /\ next_cid \in Cids /\ wrapped \in BOOLEAN
  /\ rx_packets \in [Transports -> Seq(Frame)]
  /\ \A t \in Transports : Len(rx_packets[t]) <= QueueDepth
  /\ pc \in [Transports -> {"frame", "init"}]
  /\ host_cid \in [Transports -> Cids \cup {NoCid}]
  /\ writing \in [Transports -> Seq(Frame)]
  /\ lost \in 0..MaxLost
  /\ source \in Seq(Transports) /\ Len(source) <= MaxMsgs
  /\ outcome \in [Msgs -> Outcomes]
  /\ dispatched \in [Transports -> Seq(Chunk)]

Init ==
  /\ channels = [i \in Channels |-> Unused]
  /\ next_cid \in FirstCids /\ wrapped = FALSE
  /\ rx_packets = [t \in Transports |-> <<>>]
  /\ pc = [t \in Transports |-> "frame"]
  /\ host_cid = [t \in Transports |-> NoCid]
  /\ writing = [t \in Transports |-> <<>>]
  /\ source = <<>> /\ lost = 0
  /\ outcome = [m \in Msgs |-> "none"]
  /\ dispatched = [t \in Transports |-> <<>>]

-----------------------------------------------------------------------------
(* Hosts                                                                    *)

Frames(m, cid, cmd, len) ==
  [i \in 1..len |-> [chunk |-> [msg |-> m, idx |-> i, len |-> len],
                     cid |-> cid, cmd |-> cmd]]

\* A host asks for a channel, or sends a command on the one it was given; it
\* may give up waiting for the answer to an earlier one, not half-way through
\* writing.
Send(t, cmd, len) ==
  /\ writing[t] = <<>> /\ Len(source) < MaxMsgs
  /\ cmd = "INIT" => len = 1
  /\ cmd = "CBOR" => host_cid[t] # NoCid
  /\ source' = Append(source, t)
  /\ writing' = [writing EXCEPT ![t] =
       Frames(Len(source) + 1, IF cmd = "INIT" THEN Broadcast ELSE host_cid[t],
              cmd, len)]
  /\ UNCHANGED <<driverVars, rx_packets, host_cid, lost, outcome, dispatched>>

Settle(m, result) ==
  outcome' = [outcome EXCEPT ![m] = IF @ = "none" THEN result ELSE @]

\* The frame is queued (abk_fido_out_complete, abk_fido_user_write).
Write(t) ==
  /\ writing[t] # <<>> /\ Len(rx_packets[t]) < QueueDepth
  /\ rx_packets' = [rx_packets EXCEPT ![t] = Append(@, Head(writing[t]))]
  /\ writing' = [writing EXCEPT ![t] = Tail(@)]
  /\ UNCHANGED <<driverVars, host_cid, source, lost, outcome, dispatched>>

\* abk_fido_out_complete ignores a full queue.
WriteLost(t) ==
  /\ t \in Usb /\ lost < MaxLost
  /\ writing[t] # <<>> /\ Len(rx_packets[t]) = QueueDepth
  /\ lost' = lost + 1
  /\ writing' = [writing EXCEPT ![t] = Tail(@)]
  /\ Settle(Head(writing[t]).chunk.msg, "lost")
  /\ UNCHANGED <<driverVars, rx_packets, host_cid, source, dispatched>>

\* abk_fido_user_write fails, and its caller gives the message up.
WriteBusy(t) ==
  /\ t \in User
  /\ writing[t] # <<>> /\ Len(rx_packets[t]) = QueueDepth
  /\ writing' = [writing EXCEPT ![t] = <<>>]
  /\ Settle(Head(writing[t]).chunk.msg, "refused")
  /\ UNCHANGED <<driverVars, rx_packets, host_cid, source, lost,
                 dispatched>>

-----------------------------------------------------------------------------
(* The channel table                                                        *)

First(S) == CHOOSE i \in S : \A j \in S : i <= j

\* abk_fido_find_channel_locked
Found(cid) == {i \in Channels : channels[i].in_use /\ channels[i].cid = cid}
UnusedChannels == {i \in Channels : ~channels[i].in_use}

\* abk_fido_alloc_channel_locked: the first channel when none is unused.
AllocChannel == IF UnusedChannels = {} THEN 1 ELSE First(UnusedChannels)

SetChannel(i, ch) == channels' = [channels EXCEPT ![i] = ch]

-----------------------------------------------------------------------------
(* The receive workers: abk_fido_process_packet                             *)

Frame1(t) == Head(rx_packets[t])
TakeFrame(t) ==
  /\ pc[t] = "frame" /\ rx_packets[t] # <<>>
  /\ rx_packets' = [rx_packets EXCEPT ![t] = Tail(@)]

Error(t) ==
  /\ Settle(Frame1(t).chunk.msg, "error")
  /\ UNCHANGED <<pc, dispatched>>

\* A complete message: its channel is given back and it is dispatched, unless
\* there is no memory for a copy.  A reserved channel has no command yet.
Complete(t, i, ch) ==
  /\ SetChannel(i, Unused)
  /\ \/ Error(t)
     \/ /\ ch.cmd # "none"
        /\ Settle(Frame1(t).chunk.msg, "dispatched")
        /\ dispatched' = [dispatched EXCEPT ![t] = ch.msg]
        /\ pc' = [pc EXCEPT ![t] = IF ch.cmd = "INIT" THEN "init" ELSE "frame"]

Reassemble(t, i, ch) ==
  IF Len(ch.msg) = ch.expected_len
  THEN Complete(t, i, ch)
  ELSE SetChannel(i, ch) /\ UNCHANGED <<pc, outcome, dispatched>>

IsFirst(t) == Frame1(t).chunk.idx = 1

\* Mutant: the announced length is not checked.
TooLongAccepts(t) ==
  /\ TakeFrame(t) /\ IsFirst(t) /\ Frame1(t).chunk.len > MaxLen
  /\ LET f == Frame1(t)
         i == IF Found(f.cid) # {} THEN First(Found(f.cid)) ELSE AllocChannel
     IN  Reassemble(t, i, [Reserved(f.cid) EXCEPT
                             !.cmd = f.cmd, !.expected_len = f.chunk.len,
                             !.msg = <<f.chunk>>])
  /\ UNCHANGED <<next_cid, wrapped, hostVars, lost>>

TooLong(t) ==
  /\ TakeFrame(t) /\ IsFirst(t) /\ Frame1(t).chunk.len > MaxLen
  /\ Error(t)
  /\ UNCHANGED <<channels, next_cid, wrapped, hostVars, lost>>

\* Mutant: what the channel had received of an earlier message stays.
FirstFrameKeeps(t) ==
  /\ TakeFrame(t) /\ IsFirst(t) /\ Frame1(t).chunk.len <= MaxLen
  /\ LET f == Frame1(t)
         i == IF Found(f.cid) # {} THEN First(Found(f.cid)) ELSE AllocChannel
         old == IF Len(channels[i].msg) < f.chunk.len
                THEN channels[i].msg ELSE <<>>
     IN  Reassemble(t, i, [Reserved(f.cid) EXCEPT
                             !.cmd = f.cmd, !.expected_len = f.chunk.len,
                             !.msg = Append(old, f.chunk)])
  /\ UNCHANGED <<next_cid, wrapped, hostVars, lost>>

\* The first frame of a message starts its channel, known or not, afresh.
FirstFrame(t) ==
  /\ TakeFrame(t) /\ IsFirst(t) /\ Frame1(t).chunk.len <= MaxLen
  /\ LET f == Frame1(t)
         i == IF Found(f.cid) # {} THEN First(Found(f.cid)) ELSE AllocChannel
     IN  Reassemble(t, i, [Reserved(f.cid) EXCEPT
                             !.cmd = f.cmd, !.expected_len = f.chunk.len,
                             !.msg = <<f.chunk>>])
  /\ UNCHANGED <<next_cid, wrapped, hostVars, lost>>

\* Mutant: a frame for a channel that has been taken over is ignored.
UnknownChannelIgnored(t) ==
  /\ TakeFrame(t) /\ ~IsFirst(t) /\ Found(Frame1(t).cid) = {}
  /\ UNCHANGED <<driverVars, hostVars, lost, outcome, dispatched>>

UnknownChannel(t) ==
  /\ TakeFrame(t) /\ ~IsFirst(t) /\ Found(Frame1(t).cid) = {}
  /\ Error(t)
  /\ UNCHANGED <<channels, next_cid, wrapped, hostVars, lost>>

Continues(t, i) == Frame1(t).chunk.idx = channels[i].next_seq + 2

OutOfSequence(t) ==
  /\ TakeFrame(t) /\ ~IsFirst(t)
  /\ \E i \in Found(Frame1(t).cid) :
       /\ i = First(Found(Frame1(t).cid)) /\ ~Continues(t, i)
       /\ SetChannel(i, Unused)
  /\ Error(t)
  /\ UNCHANGED <<next_cid, wrapped, hostVars, lost>>

Continuation(t) ==
  /\ TakeFrame(t) /\ ~IsFirst(t)
  /\ \E i \in Found(Frame1(t).cid) :
       /\ i = First(Found(Frame1(t).cid)) /\ Continues(t, i)
       /\ LET ch == channels[i]
              room == Len(ch.msg) < ch.expected_len
          IN  Reassemble(t, i, [ch EXCEPT
                !.next_seq = @ + 1,
                !.msg = IF room THEN Append(@, Frame1(t).chunk) ELSE @])
  /\ UNCHANGED <<next_cid, wrapped, hostVars, lost>>

\* Mutant: the broadcast id is not skipped.
NextCidSkipsZero(n) ==
  LET second == (n + 2) % CidSpace
  IN  IF n = 0 THEN [cid |-> second, next |-> second]
      ELSE [cid |-> n, next |-> (n + 1) % CidSpace]

\* abk_fido_next_cid_locked: the id given out and what next_cid becomes, which
\* after a skip are the same.
NextCid(n) ==
  LET second == (n + 2) % CidSpace
  IN  IF n \in {0, Broadcast} THEN [cid |-> second, next |-> second]
      ELSE [cid |-> n, next |-> n + 1]

\* abk_fido_dispatch_msg, case INIT: a new id, and a channel reserved for it.
DispatchInit(t) ==
  /\ pc[t] = "init"
  /\ pc' = [pc EXCEPT ![t] = "frame"]
  /\ LET new == NextCid(next_cid)
     IN  /\ next_cid' = new.next
         /\ wrapped' = (wrapped \/ new.next <= next_cid)
         /\ channels' = IF UnusedChannels = {} THEN channels
                        ELSE [channels EXCEPT ![AllocChannel] =
                                Reserved(new.cid)]
         /\ host_cid' = [host_cid EXCEPT ![t] = new.cid]
  /\ UNCHANGED <<rx_packets, writing, source, lost, outcome, dispatched>>

Worker(t) ==
  \/ TooLong(t) \/ FirstFrame(t) \/ UnknownChannel(t) \/ OutOfSequence(t)
  \/ Continuation(t) \/ DispatchInit(t)

Host(t) ==
  \/ \E cmd \in Cmds, len \in Lens \cup {1} : Send(t, cmd, len)
  \/ Write(t) \/ WriteLost(t) \/ WriteBusy(t)

Next == \E t \in Transports : Host(t) \/ Worker(t)

Spec == Init /\ [][Next]_vars

-----------------------------------------------------------------------------
(* Properties                                                               *)

\* What a worker dispatches is one whole message, from its first chunk to its
\* last, sent on its own transport: with transports sharing the table,
\* channels taken over in the middle of a message, hosts that give up and a
\* frame lost to a full queue (abk_fido_process_packet).  Not so for the
\* frames of a message that announced too much: they are still taken for
\* continuations of what the channel held before; nor for two messages that
\* have both lost frames and may be joined; nor once the ids repeat.
DispatchedWhole ==
  \A t \in Transports :
    LET payload == dispatched[t]
        Whole(m) == /\ source[m] = t
                    /\ \A i \in DOMAIN payload :
                         /\ payload[i].msg = m /\ payload[i].idx = i
                         /\ payload[i].len = Len(payload)
    IN  \/ wrapped \/ payload = <<>> \/ \E m \in DOMAIN source : Whole(m)
        \/ \E i \in DOMAIN payload : payload[i].len > MaxLen
        \/ \E i, j \in DOMAIN payload :
             /\ payload[i].msg # payload[j].msg
             /\ outcome[payload[i].msg] = "lost"
             /\ outcome[payload[j].msg] = "lost"

\* No host is ever given one of the two reserved ids, zero and broadcast, also
\* when next_cid goes through them, and the hosts of two transports share an id
\* only once it has (abk_fido_next_cid_locked).
IdsUsable ==
  /\ \A t \in Transports : host_cid[t] \notin {0, Broadcast}
  /\ \A t, u \in Transports :
       t # u /\ host_cid[t] = host_cid[u] /\ host_cid[t] # NoCid => wrapped

\* A message whose frames have all reached its worker has been dispatched or
\* answered with an error, also one whose channel was taken over half-way:
\* no host is left waiting for the answer to what it has sent, as long as the
\* ids do not repeat.
NoSilence ==
  \A m \in DOMAIN source :
    \/ wrapped \/ outcome[m] # "none"
    \/ \E i \in DOMAIN writing[source[m]] :
         writing[source[m]][i].chunk.msg = m
    \/ \E i \in DOMAIN rx_packets[source[m]] :
         rx_packets[source[m]][i].chunk.msg = m

=============================================================================
