---------------------------- MODULE DesktopAgent ----------------------------
(***************************************************************************)
(* The desktop agent on top of the virtual HID driver: agent/hid_hub.go    *)
(* and the relay of agent/main.go.  One goroutine reads the driver, the    *)
(* main goroutine dials the phone, subscribes to the hub and copies        *)
(* replies to the driver, a third one copies packets to the phone.  The    *)
(* hub's mutex is held over a write to the driver.  The network and the    *)
(* phone are external: a session is an ordered pair of streams that may    *)
(* break at any time, and the phone answers some of the packets it gets.   *)
(***************************************************************************)
EXTENDS WinVhid

CONSTANTS
  MaxPending,    \* maxPendingPackets
  MaxSessions,   \* bound: sessions with the phone
  MaxAgents      \* bound: times the agent is started

ASSUME AgentAssumption ==
  MaxPending \in Nat \ {0} /\ MaxSessions \in Nat /\ MaxAgents \in Nat

VARIABLES
  agent,         \* the process runs
  handle,        \* the device, by its number, that its handle names
  reader,        \* hub.run: [at, packet, to]
  relay,         \* where the main goroutine is
  active,        \* h.active: the session subscribed, 0 for nil
  pending,       \* h.pending
  moving,        \* subscribe's local copy of h.pending, still to be pushed
  packets,       \* subscription.packets of the current session
  toPhone, fromPhone,  \* the session's streams
  session,       \* sessions so far
  agents,        \* times the agent was started
  phoneGot,      \* history: packets the phone got in this session
  atPhone,       \* history: packets the phone ever got
  lost,          \* history: packets the agent gave up
  overtaken      \* history: in this session the reader pushed a packet while
                 \* subscribe still had older ones

hubVars == <<active, pending, moving, packets>>
netVars == <<toPhone, fromPhone, phoneGot, atPhone>>
countVars == <<session, agents, handle>>
vars == <<vhidVars, agent, reader, relay, hubVars, netVars, countVars, lost,
          overtaken>>

Idle == [at |-> "read", packet |-> None, to |-> 0]
Elems(s) == {s[i] : i \in DOMAIN s}
muFree == write = NoWrite
handleOk == dev # "absent" /\ handle = devices

\* The type invariant; hub.pending and the channel keep their capacity.
TypeOK ==
  /\ VhidTypeOK
  /\ agent \in BOOLEAN /\ agents \in 0..MaxAgents /\ handle \in 0..MaxDevices
  /\ reader \in [at : {"read", "got", "push", "stopped"},
                 packet : Frames \cup {None}, to : 0..MaxSessions]
  /\ relay \in {"down", "hello", "moving", "open", "failed"}
  /\ active \in 0..MaxSessions /\ session \in 0..MaxSessions
  /\ pending \in Seq(Frames) /\ Len(pending) <= MaxPending
  /\ moving \in Seq(Frames) /\ Len(moving) <= MaxPending
  /\ packets \in Seq(Frames) /\ Len(packets) <= MaxPending
  /\ toPhone \in Seq(Frames) /\ fromPhone \in Seq(Frames)
  /\ phoneGot \in Seq(Frames) /\ atPhone \subseteq Frames
  /\ lost \subseteq Frames
  /\ overtaken \in BOOLEAN

Init ==
  /\ VhidInit
  /\ agent = FALSE /\ agents = 0 /\ handle = 0
  /\ reader = Idle /\ relay = "down"
  /\ active = 0 /\ pending = <<>> /\ moving = <<>> /\ packets = <<>>
  /\ toPhone = <<>> /\ fromPhone = <<>> /\ phoneGot = <<>> /\ atPhone = {}
  /\ session = 0 /\ lost = {} /\ overtaken = FALSE

-----------------------------------------------------------------------------
(* The process.                                                            *)

\* NewHID opens the driver: main starts the reader and begins to dial.
Start ==
  /\ ~agent /\ agents < MaxAgents /\ dev # "absent"
  /\ agent' = TRUE /\ agents' = agents + 1 /\ handle' = devices
  /\ reader' = Idle
  /\ UNCHANGED <<vhidVars, relay, hubVars, netVars, session, lost, overtaken>>

\* The process ends between two calls: its handle closes, which cancels a
\* read in ReadQueue; everything it held is gone.  The driver's ring stays.
Exit ==
  /\ agent /\ write = NoWrite
  /\ agent' = FALSE /\ relay' = "down" /\ reader' = Idle
  /\ read' = NoRead
  /\ active' = 0 /\ pending' = <<>> /\ moving' = <<>> /\ packets' = <<>>
  /\ toPhone' = <<>> /\ fromPhone' = <<>> /\ phoneGot' = <<>>
  /\ lost' = lost \cup Elems(pending) \cup Elems(moving) \cup Elems(packets)
               \cup Elems(toPhone) \cup ({reader.packet, read.frame} \ {None})
  /\ overtaken' = FALSE
  /\ UNCHANGED <<build, pnpVars, contextVars, write, hostVars, replyVars,
                 atPhone, countVars>>

-----------------------------------------------------------------------------
(* hub.run.                                                                *)

\* The reader calls Read.
CallRead ==
  /\ agent /\ handleOk /\ reader.at = "read" /\ AbkEvtIoRead
  /\ UNCHANGED <<agent, reader, relay, hubVars, netVars, countVars,
                 lost, overtaken>>

\* Read returns a packet.
ReadReturns ==
  /\ agent /\ reader.at = "read" /\ read.at = "done"
  /\ reader' = [at |-> "got", packet |-> read.frame, to |-> 0]
  /\ read' = NoRead
  /\ UNCHANGED <<build, pnpVars, contextVars, write, hostVars, replyVars,
                 agent, relay, hubVars, netVars, countVars, lost,
                 overtaken>>

\* Read fails, the device being gone: the reader stops for good, and ends
\* the session that is subscribed.
ReadFails ==
  /\ agent /\ reader.at = "read" /\ read = NoRead /\ ~handleOk /\ muFree
  /\ reader' = [Idle EXCEPT !.at = "stopped"]
  /\ active' = 0
  /\ relay' = IF active # 0 /\ relay = "open" THEN "failed" ELSE relay
  /\ UNCHANGED <<vhidVars, agent, pending, moving, packets, netVars, countVars,
                 lost, overtaken>>

\* Mutant: the list of packets kept for later has no limit.
RouteUnbounded ==
  /\ reader.at = "got" /\ muFree
  /\ \/ /\ active = 0 /\ reader' = Idle
        /\ pending' = Append(pending, reader.packet)
     \/ /\ active # 0 /\ reader' = [reader EXCEPT !.at = "push", !.to = active]
        /\ UNCHANGED pending
  /\ UNCHANGED <<vhidVars, agent, relay, active, moving, packets, netVars,
                 countVars, lost, overtaken>>

\* Under the mutex: keep the packet for later, unless too many are kept
\* already, or remember the session to push it to.
Route ==
  /\ reader.at = "got" /\ muFree
  /\ \/ /\ active = 0 /\ reader' = Idle
        /\ \/ /\ Len(pending) < MaxPending
              /\ pending' = Append(pending, reader.packet)
              /\ UNCHANGED lost
           \/ /\ Len(pending) = MaxPending
              /\ lost' = lost \cup {reader.packet}
              /\ UNCHANGED pending
     \/ /\ active # 0 /\ reader' = [reader EXCEPT !.at = "push", !.to = active]
        /\ UNCHANGED <<pending, lost>>
  /\ UNCHANGED <<vhidVars, agent, relay, active, moving, packets, netVars,
                 countVars, overtaken>>

\* The push into the channel of a session that is still subscribed.
Push ==
  /\ reader.at = "push" /\ reader.to = session /\ relay \in {"moving", "open"}
  /\ Len(packets) < MaxPending
  /\ packets' = Append(packets, reader.packet) /\ reader' = Idle
  /\ overtaken' = (overtaken \/ moving # <<>>)
  /\ UNCHANGED <<vhidVars, agent, relay, active, pending, moving, netVars,
                 countVars, lost>>

\* Mutant: done is not closed when a session ends, only by the next one.
PushTooLateNoDone ==
  /\ reader.at = "push" /\ reader.to < session
  /\ reader' = Idle /\ lost' = lost \cup {reader.packet}
  /\ UNCHANGED <<vhidVars, agent, relay, hubVars, netVars, countVars,
                 overtaken>>

\* The session the packet was meant for is over: done is closed, and the
\* packet is dropped or left in a channel nobody drains.
PushTooLate ==
  /\ reader.at = "push"
  /\ ~(reader.to = session /\ relay \in {"moving", "open"})
  /\ reader' = Idle /\ lost' = lost \cup {reader.packet}
  /\ UNCHANGED <<vhidVars, agent, relay, hubVars, netVars, countVars,
                 overtaken>>

-----------------------------------------------------------------------------
(* The relay.                                                              *)

\* A connection on which the phone accepts the hello.  (A failed dial or a
\* refused hello leaves the agent as it was, to try again.)
Connect ==
  /\ agent /\ relay = "down" /\ session < MaxSessions
  /\ relay' = "hello" /\ session' = session + 1
  /\ UNCHANGED <<vhidVars, agent, reader, hubVars, netVars, agents, handle,
                 lost, overtaken>>

\* Mutant: h.pending is not cleared when it is handed over.
SubscribeKeepsPending ==
  /\ relay = "hello" /\ muFree
  /\ active' = session /\ moving' = pending /\ packets' = <<>>
  /\ relay' = "moving"
  /\ UNCHANGED <<vhidVars, agent, reader, pending, netVars, countVars,
                 lost, overtaken>>

\* subscribe, under the mutex.
Subscribe ==
  /\ relay = "hello" /\ muFree
  /\ active' = session /\ moving' = pending /\ pending' = <<>>
  /\ packets' = <<>> /\ relay' = "moving"
  /\ UNCHANGED <<vhidVars, agent, reader, netVars, countVars, lost,
                 overtaken>>

\* Mutant: subscribe pushes the newest packet first.
MovePendingLast ==
  /\ relay = "moving" /\ moving # <<>> /\ Len(packets) < MaxPending
  /\ packets' = Append(packets, moving[Len(moving)])
  /\ moving' = SubSeq(moving, 1, Len(moving) - 1)
  /\ UNCHANGED <<vhidVars, agent, reader, relay, active, pending, netVars,
                 countVars, lost, overtaken>>

\* Mutant: the channel is smaller than the list.
MovePendingSmall ==
  /\ relay = "moving" /\ moving # <<>> /\ Len(packets) < MaxPending - 1
  /\ packets' = Append(packets, Head(moving)) /\ moving' = Tail(moving)
  /\ UNCHANGED <<vhidVars, agent, reader, relay, active, pending, netVars,
                 countVars, lost, overtaken>>

\* subscribe, after the mutex: the older packets go into the channel.
MovePending ==
  /\ relay = "moving" /\ moving # <<>> /\ Len(packets) < MaxPending
  /\ packets' = Append(packets, Head(moving)) /\ moving' = Tail(moving)
  /\ UNCHANGED <<vhidVars, agent, reader, relay, active, pending, netVars,
                 countVars, lost, overtaken>>

\* subscribe returns: only now does the goroutine start that drains the
\* channel.  The reader may have failed meanwhile and closed done: then
\* subscribe need not have moved all, and drops the rest.
Subscribed ==
  /\ relay = "moving" /\ (moving = <<>> \/ active # session)
  /\ relay' = IF reader.at = "stopped" /\ active = 0 THEN "failed" ELSE "open"
  /\ moving' = <<>> /\ lost' = lost \cup Elems(moving)
  /\ UNCHANGED <<vhidVars, agent, reader, active, pending, packets, netVars,
                 countVars, overtaken>>

\* The writer goroutine sends a packet to the phone.
SendPacket ==
  /\ relay = "open" /\ packets # <<>>
  /\ toPhone' = Append(toPhone, Head(packets)) /\ packets' = Tail(packets)
  /\ UNCHANGED <<vhidVars, agent, reader, relay, active, pending, moving,
                 fromPhone, phoneGot, atPhone, countVars, lost, overtaken>>

\* The phone takes a packet and answers it or not.
PhoneTakes ==
  /\ toPhone # <<>> /\ toPhone' = Tail(toPhone)
  /\ phoneGot' = Append(phoneGot, Head(toPhone))
  /\ atPhone' = atPhone \cup {Head(toPhone)}
  /\ fromPhone' \in {fromPhone, Append(fromPhone, Head(toPhone))}
  /\ UNCHANGED <<vhidVars, agent, reader, relay, hubVars, countVars,
                 lost, overtaken>>

\* The relay reads a reply and calls hub.write, which holds the mutex until
\* the driver has answered.
WriteReply ==
  /\ relay = "open" /\ active = session /\ handleOk /\ fromPhone # <<>>
  /\ ChooseShape(Head(fromPhone)) /\ fromPhone' = Tail(fromPhone)
  /\ UNCHANGED <<agent, reader, relay, hubVars, toPhone, phoneGot, atPhone,
                 countVars, lost, overtaken>>

\* hub.write fails at once: the subscription is over, or the device is gone.
WriteReplyFails ==
  /\ relay = "open" /\ fromPhone # <<>> /\ muFree
  /\ active # session \/ ~handleOk
  /\ relay' = "failed"
  /\ UNCHANGED <<vhidVars, agent, reader, hubVars, netVars, countVars,
                 lost, overtaken>>

\* The write returns.
Submit ==
  /\ \/ SubmitAccepted /\ UNCHANGED relay
     \/ SubmitRefused /\ relay' = "failed"
  /\ UNCHANGED <<agent, reader, hubVars, netVars, countVars, lost,
                 overtaken>>

\* The connection breaks, or an error ended the relay: unsubscribe.  What
\* is in the channel and in the streams is lost.
SessionEnds ==
  /\ relay \in {"hello", "open", "failed"} /\ muFree
  /\ relay' = "down" /\ active' = 0
  /\ packets' = <<>>
  /\ toPhone' = <<>> /\ fromPhone' = <<>> /\ phoneGot' = <<>>
  /\ lost' = lost \cup Elems(packets) \cup Elems(toPhone)
  /\ overtaken' = FALSE
  /\ UNCHANGED <<vhidVars, agent, reader, pending, moving, atPhone, countVars>>

-----------------------------------------------------------------------------
AgentRest == UNCHANGED <<agent, reader, relay, hubVars, netVars, countVars,
                         lost, overtaken>>

Next ==
  \/ VhidNext /\ AgentRest
  \/ SetReportMode(~(agent /\ handleOk)) /\ AgentRest
  \/ Start \/ Exit
  \/ CallRead \/ ReadReturns \/ ReadFails \/ Route \/ Push \/ PushTooLate
  \/ Connect \/ Subscribe \/ MovePending \/ Subscribed \/ SendPacket
  \/ PhoneTakes \/ WriteReply \/ WriteReplyFails \/ Submit \/ SessionEnds

\* The goroutines of the agent are scheduled, and the driver's handlers
\* finish; the host, the network, the phone and the user owe nothing.
Fairness ==
  /\ WF_vars(CallRead) /\ WF_vars(ReadReturns) /\ WF_vars(ReadFails)
  /\ WF_vars(Route) /\ WF_vars(Push) /\ WF_vars(PushTooLate)
  /\ WF_vars(Subscribe) /\ WF_vars(MovePending) /\ WF_vars(Subscribed)
  /\ WF_vars(SendPacket) /\ WF_vars(WriteReply) /\ WF_vars(Submit)

Spec == Init /\ [][Next]_vars /\ Fairness

-----------------------------------------------------------------------------
(* Properties.                                                             *)

\* A read never waits in ReadQueue while a report waits in the ring: neither
\* side is left waiting for the other (AbkEvtIoRead, AbkDeliverHostReport).
NoMissedReport == read.at = "queued" => Ring = <<>>

\* The VHF handle is usable whenever VhfStarted says so, at every point where
\* a write of the agent may look, and is never left behind by a device that
\* is gone (the barrier of AbkEvtDeviceSelfManagedIoCleanup).
HandleLives ==
  /\ VhfStarted => vhf = "started"
  /\ dev = "absent" => vhf = "none"

\* What the host gets are the replies VHF accepted, each once and in order,
\* whether it reads or polls; and with the automatic mode none arrives out of
\* place, because a reply always follows a report whose shape was noted.
RepliesReachHost ==
  /\ ~misplaced
  /\ \A i, j \in DOMAIN hostGot : i < j =>
       \E k, l \in DOMAIN submitted :
         k < l /\ submitted[k] = hostGot[i] /\ submitted[l] = hostGot[j]

\* Every report of the host is in exactly one place on its way to the phone:
\* nothing is duplicated, and nothing is lost except where the ring or the
\* hub's list is full or a session, the agent or the device ends.
PacketsConserved ==
  LET places == << Elems(Ring), {read.frame} \ {None},
                   {reader.packet} \ {None}, Elems(pending), Elems(moving),
                   Elems(packets), Elems(toPhone), atPhone, lost, overrun >>
  IN /\ \A f \in 1..fromHost : \E i \in DOMAIN places : f \in places[i]
     /\ \A i, j \in DOMAIN places : i < j => places[i] \cap places[j] = {}

\* Within a session the phone gets the reports in the order the host sent
\* them, through ring, hub and channel, unless the reader overtook packets
\* that subscribe was still moving.
InOrder ==
  overtaken \/ \A i, j \in DOMAIN phoneGot : i < j => phoneGot[i] < phoneGot[j]

\* subscribe hangs: the channel is full and nobody drains it.
Wedged == relay = "moving" /\ moving # <<>> /\ Len(packets) = MaxPending

\* Every subscribe comes to its end, and the relay starts to drain the
\* channel, unless packets of the reader have filled the channel first.
HandOver == relay = "moving" ~> (relay # "moving" \/ (Wedged /\ overtaken))

\* A packet the reader holds is passed on or dropped, as long as the relay
\* is not hung: no ended session keeps the only reader of the device.
ReaderFree == reader.at = "push" ~> (reader.at # "push" \/ Wedged)
=============================================================================
