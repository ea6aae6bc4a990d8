------------------------------- MODULE WinVhid ------------------------------
(***************************************************************************)
(* The Windows virtual HID driver, windows/vhid/abkfidovhid.c.  Reports of *)
(* the host come in through VHF, the virtual HID framework, and wait for   *)
(* the agent in a ring; what the agent writes is submitted to VHF and kept *)
(* for a host that polls.  Plug and play starts and removes the device     *)
(* while the agent holds it open.  Each action is one critical section of  *)
(* context->Lock; VHF, the I/O queues and the host are external.           *)
(***************************************************************************)
EXTENDS Naturals, Sequences

CONSTANTS
  Hosts,         \* the HID stacks to meet: see HostKind
  RingSlots,     \* ABK_RING_SLOTS
  ReplySlots,    \* ABK_REPLY_SLOTS
  MaxFrames,     \* bound: reports the host sends
  MaxDevices,    \* bound: times the device is added
  None

\* A HID stack: out and in say whether its output and input reports lead
\* with the report id, strict whether VHF refuses the other shape, and polls
\* whether the host fetches replies with GET_INPUT_REPORT.
HostKind == [out : BOOLEAN, in : BOOLEAN, strict : BOOLEAN, polls : BOOLEAN]

Frames == 1..MaxFrames
Modes == {"auto", "plain", "leading_id"}

ASSUME VhidAssumption ==
  /\ Hosts \subseteq HostKind
  /\ RingSlots \in Nat \ {0} /\ ReplySlots \in Nat \ {0}
  /\ MaxFrames \in Nat /\ MaxDevices \in Nat
  /\ None \notin Frames

VARIABLES
  build,         \* the HID stack of this computer
  dev,           \* plug and play's view of the device
  vhf,           \* what VhfHandle names
  VhfStarted,
  Ring,          \* Ring, Head, Tail, Count: the backlog, oldest first
  ReportIdSeen, ReportIdLeads, ReportMode,
  Replies,       \* Replies, ReplyHead, ReplyTail, ReplyCount
  read,          \* the agent's read: none, in ReadQueue, or completed
  write,         \* a write between its two critical sections
  fromHost,      \* history: reports the host has sent so far
  overrun,       \* history: reports lost in the ring, full or destroyed
  submitted,     \* history: replies VHF has accepted, in order
  hostGot,       \* history: replies the host has got, in order
  misplaced,     \* history: an automatic reply arrived one byte out of place
  devices        \* history: times the device was added

contextVars == <<VhfStarted, Ring, ReportIdSeen, ReportIdLeads, ReportMode,
                 Replies>>
pnpVars == <<dev, vhf, devices>>
hostVars == <<fromHost, overrun, hostGot>>
replyVars == <<submitted, misplaced>>
vhidVars == <<build, pnpVars, contextVars, read, write, hostVars, replyVars>>

NoRead == [at |-> "none", frame |-> None]
NoWrite == [reply |-> None, leads |-> FALSE, auto |-> FALSE]

\* A freshly zeroed device context.
ContextReset ==
  /\ VhfStarted' = FALSE /\ Ring' = <<>> /\ Replies' = <<>>
  /\ ReportIdSeen' = FALSE /\ ReportIdLeads' = FALSE
  /\ ReportMode' = "auto"

VhidInit ==
  /\ build \in Hosts
  /\ dev = "absent" /\ vhf = "none" /\ devices = 0
  /\ VhfStarted = FALSE /\ Ring = <<>> /\ Replies = <<>>
  /\ ReportIdSeen = FALSE /\ ReportIdLeads = FALSE /\ ReportMode = "auto"
  /\ read = NoRead /\ write = NoWrite
  /\ fromHost = 0 /\ overrun = {} /\ hostGot = <<>>
  /\ submitted = <<>> /\ misplaced = FALSE

VhidTypeOK ==
  /\ build \in Hosts
  /\ dev \in {"absent", "added", "starting", "up", "failed", "stopping",
             "deleted"}
  /\ vhf \in {"none", "created", "started"} /\ devices \in 0..MaxDevices
  /\ VhfStarted \in BOOLEAN
  /\ Ring \in Seq(Frames) /\ Len(Ring) <= RingSlots
  /\ Replies \in Seq(Frames) /\ Len(Replies) <= ReplySlots
  /\ ReportIdSeen \in BOOLEAN /\ ReportIdLeads \in BOOLEAN
  /\ ReportMode \in Modes
  /\ read \in [at : {"none", "queued", "done"}, frame : Frames \cup {None}]
  /\ write \in [reply : Frames \cup {None}, leads : BOOLEAN, auto : BOOLEAN]
  /\ fromHost \in 0..MaxFrames /\ overrun \subseteq Frames
  /\ submitted \in Seq(Frames) /\ hostGot \in Seq(Frames)
  /\ misplaced \in BOOLEAN

-----------------------------------------------------------------------------
(* Plug and play.                                                          *)

AbkEvtDeviceAdd ==
  /\ dev = "absent" /\ devices < MaxDevices
  /\ dev' = "added" /\ vhf' = "created" /\ devices' = devices + 1
  /\ ContextReset
  /\ UNCHANGED <<build, read, write, hostVars, replyVars>>

\* Creating the symbolic link or VhfStart fails: the device is destroyed
\* without its self-managed I/O ever having started.
StartFails ==
  /\ dev = "added" /\ dev' = "failed"
  /\ UNCHANGED <<build, vhf, devices, contextVars, read, write, hostVars,
                 replyVars>>

\* VhfStart returns: the host may send reports from here on.
VhfStart ==
  /\ dev = "added" /\ dev' = "starting" /\ vhf' = "started"
  /\ UNCHANGED <<build, devices, contextVars, read, write, hostVars,
                 replyVars>>

SelfManagedIoInit ==
  /\ dev = "starting" /\ dev' = "up" /\ VhfStarted' = TRUE
  /\ UNCHANGED <<build, vhf, devices, Ring, ReportIdSeen, ReportIdLeads,
                 ReportMode, Replies, read, write, hostVars, replyVars>>

\* Mutant: the handle goes first and the flag with the device.
SelfManagedIoCleanupLate ==
  /\ dev = "up" /\ dev' = "stopping" /\ vhf' = "none"
  /\ UNCHANGED <<build, devices, contextVars, read, write, hostVars,
                 replyVars>>

SelfManagedIoCleanup ==
  /\ dev = "up" /\ dev' = "stopping" /\ VhfStarted' = FALSE
  /\ UNCHANGED <<build, vhf, devices, Ring, ReportIdSeen, ReportIdLeads,
                 ReportMode, Replies, read, write, hostVars, replyVars>>

VhfDelete ==
  /\ dev = "stopping" /\ dev' = "deleted" /\ vhf' = "none"
  /\ UNCHANGED <<build, devices, contextVars, read, write, hostVars,
                 replyVars>>

\* The framework destroys the device once no handler runs: the waiting read
\* is cancelled and the backlog is lost.
DeviceGone ==
  /\ write = NoWrite
  /\ dev' = "absent"
  /\ read' = IF read.at = "queued" THEN NoRead ELSE read
  /\ overrun' = overrun \cup {Ring[i] : i \in DOMAIN Ring}
  /\ ContextReset
  /\ UNCHANGED <<build, devices, write, fromHost, hostGot, replyVars>>

DeviceRemoved == dev = "deleted" /\ DeviceGone /\ UNCHANGED vhf

AbkEvtDeviceCleanup == dev = "failed" /\ DeviceGone /\ vhf' = "none"

-----------------------------------------------------------------------------
(* Host to agent.                                                          *)

\* Mutant: a read is parked without a look at the backlog.
AbkEvtIoReadParks ==
  /\ dev # "absent" /\ read = NoRead
  /\ read' = [at |-> "queued", frame |-> None]
  /\ UNCHANGED <<build, pnpVars, contextVars, write, hostVars, replyVars>>

\* A read takes the oldest report of the backlog or waits in ReadQueue.
AbkEvtIoRead ==
  /\ dev # "absent" /\ read = NoRead
  /\ \/ /\ Ring # <<>>
        /\ read' = [at |-> "done", frame |-> Head(Ring)]
        /\ Ring' = Tail(Ring)
     \/ /\ Ring = <<>>
        /\ read' = [at |-> "queued", frame |-> None]
        /\ UNCHANGED Ring
  /\ UNCHANGED <<build, pnpVars, VhfStarted, ReportIdSeen, ReportIdLeads,
                 ReportMode, Replies, write, hostVars, replyVars>>

\* The report goes straight to a waiting read, or into the ring, from which
\* the oldest one is dropped when it is full.
AbkDeliverHostReport(f) ==
  \/ /\ Ring = <<>> /\ read.at = "queued"
     /\ read' = [at |-> "done", frame |-> f]
     /\ UNCHANGED <<Ring, overrun>>
  \/ /\ ~(Ring = <<>> /\ read.at = "queued")
     /\ LET full == Len(Ring) = RingSlots
        IN /\ Ring' = Append(IF full THEN Tail(Ring) ELSE Ring, f)
           /\ overrun' = overrun \cup (IF full THEN {Head(Ring)} ELSE {})
     /\ UNCHANGED read

\* Mutant: the shape of the report is not remembered.
AbkEvtVhfWriteReportForgets ==
  /\ vhf = "started" /\ fromHost < MaxFrames
  /\ fromHost' = fromHost + 1
  /\ AbkDeliverHostReport(fromHost + 1)
  /\ UNCHANGED <<build, pnpVars, VhfStarted, ReportIdSeen, ReportIdLeads,
                 ReportMode, Replies, write, hostGot, replyVars>>

\* The host sends a report: its shape is noted and it is delivered, two
\* critical sections of which no other step can tell the middle.
AbkEvtVhfWriteReport ==
  /\ vhf = "started" /\ fromHost < MaxFrames
  /\ fromHost' = fromHost + 1
  /\ ReportIdLeads' = build.out /\ ReportIdSeen' = TRUE
  /\ AbkDeliverHostReport(fromHost + 1)
  /\ UNCHANGED <<build, pnpVars, VhfStarted, ReportMode, Replies, write,
                 hostGot, replyVars>>

-----------------------------------------------------------------------------
(* Agent to host.                                                          *)

\* AbkEvtIoWrite, first critical section: the shape of the reply.
ChooseShape(r) ==
  /\ dev # "absent" /\ write = NoWrite
  /\ write' = [reply |-> r, auto |-> ReportMode = "auto",
               leads |-> CASE ReportMode = "plain" -> FALSE
                           [] ReportMode = "leading_id" -> TRUE
                           [] OTHER -> ReportIdSeen => ReportIdLeads]
  /\ UNCHANGED <<build, pnpVars, contextVars, read, hostVars, replyVars>>

\* Second critical section, VHF up: a shape VHF refuses is retried in the
\* other one; the reply is kept for a polling host, the oldest one dropped.
SubmitAccepted ==
  /\ write # NoWrite /\ VhfStarted
  /\ LET leads == IF build.strict THEN build.in ELSE write.leads
     IN misplaced' = (misplaced \/ (write.auto /\ build.in = build.out
                                    /\ leads # build.in))
  /\ submitted' = Append(submitted, write.reply)
  /\ hostGot' = IF build.polls THEN hostGot ELSE Append(hostGot, write.reply)
  /\ Replies' = Append(IF Len(Replies) = ReplySlots THEN Tail(Replies)
                       ELSE Replies, write.reply)
  /\ write' = NoWrite
  /\ UNCHANGED <<build, pnpVars, VhfStarted, Ring, ReportIdSeen,
                 ReportIdLeads, ReportMode, read, fromHost, overrun>>

\* Second critical section: VHF is not up (STATUS_DEVICE_NOT_READY), or fails
\* the reply whatever its shape.
SubmitRefused ==
  /\ write # NoWrite
  /\ write' = NoWrite
  /\ UNCHANGED <<build, pnpVars, contextVars, read, hostVars, replyVars>>

\* A polling host collects the oldest reply (it comes back later when there
\* is none).
AbkEvtVhfGetInputReport ==
  /\ vhf = "started" /\ build.polls /\ Replies # <<>>
  /\ hostGot' = Append(hostGot, Head(Replies))
  /\ Replies' = Tail(Replies)
  /\ UNCHANGED <<build, pnpVars, VhfStarted, Ring, ReportIdSeen,
                 ReportIdLeads, ReportMode, read, write, fromHost, overrun,
                 replyVars>>

\* ABK_IOCTL_SET_REPORT_MODE, from the control tool: the device admits one
\* client at a time.
SetReportMode(free) ==
  /\ dev # "absent" /\ free
  /\ \E m \in Modes : m # ReportMode /\ ReportMode' = m
  /\ UNCHANGED <<build, pnpVars, VhfStarted, Ring, ReportIdSeen,
                 ReportIdLeads, Replies, read, write, hostVars, replyVars>>

\* Everything that happens without the agent.
VhidNext ==
  \/ AbkEvtDeviceAdd \/ StartFails \/ VhfStart \/ SelfManagedIoInit
  \/ SelfManagedIoCleanup \/ VhfDelete \/ DeviceRemoved
  \/ AbkEvtDeviceCleanup
  \/ AbkEvtVhfWriteReport \/ AbkEvtVhfGetInputReport
=============================================================================
