---------------------------- MODULE UsbInProofs -----------------------------
(***************************************************************************)
(* Proofs about the USB IN path, for every queue depth, all lengths of     *)
(* replies and any number of messages and enumerations.                    *)
(***************************************************************************)
EXTENDS UsbIn, TLAPS

-----------------------------------------------------------------------------
(* Sequences of frames.                                                     *)

Elems(s) == {s[i] : i \in DOMAIN s}
Injective(s) == \A i, j \in DOMAIN s : s[i] = s[j] => i = j
\* No element is there twice, those of A excepted.
OnceBut(A, s) == \A i, j \in DOMAIN s : s[i] = s[j] /\ s[i] \notin A => i = j

\* Two frames of one message are in the order in which they were cut.
Before(f, g) == f.msg = g.msg => f.idx < g.idx
Sorted(s) == \A i, j \in DOMAIN s : i < j => Before(s[i], s[j])

\* What a push at the end of a sequence does,
LEMMA AppendElems ==
  ASSUME NEW S, NEW s \in Seq(S), NEW x \in S
  PROVE  /\ Append(s, x) \in Seq(S) /\ Len(Append(s, x)) = Len(s) + 1
         /\ Elems(Append(s, x)) = Elems(s) \cup {x}
         /\ Injective(s) /\ x \notin Elems(s) => Injective(Append(s, x))
         /\ \A A : OnceBut(A, s) /\ (x \in A \/ x \notin Elems(s))
              => OnceBut(A, Append(s, x))
         /\ Sorted(s) /\ (\A y \in Elems(s) : Before(y, x))
              => Sorted(Append(s, x))
<1> DEFINE t == Append(s, x)
<1>1. /\ t \in Seq(S) /\ Len(t) = Len(s) + 1
      /\ \A i \in 1..Len(s) : t[i] = s[i]
      /\ t[Len(s) + 1] = x
  OBVIOUS
<1>2. Len(s) \in Nat /\ DOMAIN s = 1..Len(s) /\ DOMAIN t = 1..(Len(s) + 1)
  BY <1>1
<1>3. \A i \in DOMAIN t : i \in DOMAIN s \/ i = Len(s) + 1
  BY <1>2
<1> HIDE DEF t
<1>4. Elems(t) = Elems(s) \cup {x}
  BY <1>1, <1>2, <1>3 DEF Elems
<1>5. Injective(s) /\ x \notin Elems(s) => Injective(t)
  BY <1>1, <1>2, <1>3 DEF Injective, Elems
<1>6. Sorted(s) /\ (\A y \in Elems(s) : Before(y, x)) => Sorted(t)
  <2> SUFFICES ASSUME Sorted(s), \A y \in Elems(s) : Before(y, x),
                      NEW i \in DOMAIN t, NEW j \in DOMAIN t, i < j
               PROVE  Before(t[i], t[j])
    BY DEF Sorted
  <2>1. i \in DOMAIN s /\ t[i] = s[i]
    BY <1>1, <1>2
  <2>2. CASE j \in DOMAIN s
    BY <1>1, <1>2, <2>1, <2>2 DEF Sorted
  <2>3. CASE j = Len(s) + 1
    BY <1>1, <2>1, <2>3 DEF Elems
  <2>4. QED
    BY <1>3, <2>2, <2>3
<1>7. ASSUME NEW A, OnceBut(A, s), x \in A \/ x \notin Elems(s)
      PROVE  OnceBut(A, t)
  BY <1>1, <1>2, <1>3, <1>7 DEF OnceBut, Elems
<1>8. QED
  BY <1>1, <1>4, <1>5, <1>6, <1>7 DEF t

\* and taking the first one.
LEMMA TailElems ==
  ASSUME NEW S, NEW s \in Seq(S), s # <<>>
  PROVE  /\ Head(s) \in S /\ Tail(s) \in Seq(S)
         /\ Len(s) \in Nat /\ Len(s) > 0 /\ Len(Tail(s)) = Len(s) - 1
         /\ Elems(s) = {Head(s)} \cup Elems(Tail(s))
         /\ Injective(s) => Injective(Tail(s)) /\ Head(s) \notin Elems(Tail(s))
         /\ Sorted(s) =>
              /\ Sorted(Tail(s))
              /\ \A y \in Elems(Tail(s)) : Before(Head(s), y)
<1> DEFINE t == Tail(s)
<1>1. /\ Head(s) \in S /\ t \in Seq(S) /\ Len(t) = Len(s) - 1
      /\ \A i \in 1..Len(t) : t[i] = s[i + 1]
      /\ Head(s) = s[1]
  OBVIOUS
<1>2. /\ Len(s) \in Nat /\ Len(s) > 0
      /\ DOMAIN s = 1..Len(s) /\ DOMAIN t = 1..(Len(s) - 1)
  BY <1>1
<1>3. \A i \in DOMAIN s : i = 1 \/ (i - 1 \in DOMAIN t /\ s[i] = t[i - 1])
  BY <1>1, <1>2
<1>4. \A i \in DOMAIN t : i + 1 \in DOMAIN s /\ t[i] = s[i + 1] /\ i \in Nat
  BY <1>1, <1>2
<1>5. 1 \in DOMAIN s
  BY <1>2
<1> HIDE DEF t
<1>6. Elems(s) = {Head(s)} \cup Elems(t)
  <2>1. ASSUME NEW i \in DOMAIN s PROVE s[i] \in {Head(s)} \cup Elems(t)
    BY <1>1, <1>3 DEF Elems
  <2>2. ASSUME NEW i \in DOMAIN t PROVE t[i] \in Elems(s)
    BY <1>4 DEF Elems
  <2>3. Head(s) \in Elems(s)
    BY <1>1, <1>5 DEF Elems
  <2>4. QED
    BY <2>1, <2>2, <2>3 DEF Elems
<1>7. Injective(s) => Injective(t) /\ Head(s) \notin Elems(t)
  BY <1>1, <1>4, <1>5, <1>2 DEF Injective, Elems
<1>8. Sorted(s) => Sorted(t) /\ \A y \in Elems(t) : Before(Head(s), y)
  <2> SUFFICES ASSUME Sorted(s)
               PROVE  Sorted(t) /\ \A y \in Elems(t) : Before(s[1], y)
    BY <1>1
  <2>1. \A i, j \in DOMAIN t : i < j => Before(t[i], t[j])
    <3> SUFFICES ASSUME NEW i \in DOMAIN t, NEW j \in DOMAIN t, i < j
                 PROVE  Before(t[i], t[j])
      OBVIOUS
    <3>1. i + 1 < j + 1
      BY <1>4
    <3>2. QED
      BY <1>4, <3>1 DEF Sorted
  <2>2. \A i \in DOMAIN t : Before(s[1], t[i])
    <3> SUFFICES ASSUME NEW i \in DOMAIN t PROVE Before(s[1], t[i])
      OBVIOUS
    <3>1. 1 < i + 1
      BY <1>2
    <3>2. QED
      BY <1>4, <1>5, <3>1 DEF Sorted
  <2>3. QED
    BY <2>1, <2>2 DEF Sorted, Elems
<1>9. QED
  BY <1>1, <1>2, <1>6, <1>7, <1>8 DEF t

\* The empty sequence.
LEMMA NoElems ==
  /\ \A S : <<>> \in Seq(S)
  /\ Len(<<>>) = 0 /\ Elems(<<>>) = {} /\ Injective(<<>>) /\ Sorted(<<>>)
  /\ \A A : OnceBut(A, <<>>)
BY DEF Elems, Injective, OnceBut, Sorted

-----------------------------------------------------------------------------
(* Type correctness.                                                        *)

QueueOK == tx_packets \in Seq(Frame) /\ Len(tx_packets) <= QueueDepth
FlagsOK ==
  /\ tx_pending \in BOOLEAN /\ online \in BOOLEAN /\ busy \in BOOLEAN
  /\ contended \in BOOLEAN /\ refused \in BOOLEAN
\* A disable waits for the end of set_alt's kick.
StepOK == pc \in [Kickers -> Steps] /\ (~online => pc["setalt"] = "idle")
HandOK ==
  /\ in_flight \in BOOLEAN /\ buffer \in Frame \cup {None}
  /\ hand \in [Kickers -> Frame \cup {None}]
  \* A kick holds a frame from its pop to the copy into the buffer.
  /\ \A k \in Kickers :
       /\ hand[k] # None => pc[k] \in {"popped", "requeue", "claimed", "oops"}
       /\ pc[k] \in {"popped", "requeue", "claimed"} => hand[k] # None
SendOK ==
  /\ todo \in Seq(Frame)
  /\ session \in 1..MaxSessions /\ command_session \in 1..MaxSessions
  /\ msgs \in 0..MaxMsgs
PastOK ==
  /\ host \in Seq(Frame) /\ sent \subseteq Frame /\ lost \subseteq Frame
  /\ drained \subseteq Frame /\ spoilt \subseteq Frame

\* The type invariant, and who holds frames.
FullType == QueueOK /\ FlagsOK /\ StepOK /\ HandOK /\ SendOK /\ PastOK

\* abk_fido_queue_push never overfills the ring.
LEMMA PushOK ==
  ASSUME QueueOK, lost \subseteq Frame, NEW f \in Frame, Push(f)
  PROVE  QueueOK' /\ lost' \subseteq Frame
<1>1. CASE Len(tx_packets) < QueueDepth
  <2>1. tx_packets' = Append(tx_packets, f) /\ lost' = lost
    BY <1>1 DEF Push
  <2>2. Len(tx_packets) \in Nat
    BY DEF QueueOK
  <2>3. QED
    BY <1>1, <2>1, <2>2, AppendElems, UsbInAssumption DEF QueueOK
<1>2. CASE ~(Len(tx_packets) < QueueDepth)
  BY <1>2 DEF Push, QueueOK, Drop
<1>3. QED
  BY <1>1, <1>2

LEMMA NoneIsNoFrame == None \notin Frame
BY UsbInAssumption

\* Every message is cut into frames.
LEMMA StartFrames ==
  ASSUME SendOK, NEW len \in Nat \ {0}, Start(len)
  PROVE  /\ SendOK' /\ todo' # <<>>
         /\ Injective(todo)' /\ Sorted(todo)'
         /\ \A f \in Elems(todo)' :
              /\ f \in Frame
              /\ f.msg = msgs + 1 /\ f.session = command_session
<1> DEFINE F(i) == [msg |-> msgs + 1, idx |-> i, session |-> command_session]
<1>1. /\ msgs < MaxMsgs /\ msgs' = msgs + 1
      /\ todo' = [i \in 1..len |-> F(i)]
      /\ UNCHANGED <<session, command_session>>
  BY DEF Start
<1>2. \A i \in 1..len : F(i) \in Frame /\ F(i).msg = msgs + 1
                          /\ F(i).idx = i /\ F(i).session = command_session
  BY <1>1, UsbInAssumption DEF SendOK, Frame
<1>3. DOMAIN todo' = 1..len /\ \A i \in 1..len : todo'[i] = F(i)
  BY <1>1
<1> HIDE DEF F
<1>4. todo' \in Seq(Frame) /\ todo' # <<>>
  BY <1>1, <1>2
<1>5. Injective(todo)' /\ Sorted(todo)'
  BY <1>2, <1>3 DEF Injective, Sorted, Before
<1>6. QED
  BY <1>1, <1>2, <1>3, <1>4, <1>5, UsbInAssumption DEF SendOK, Elems

\* So is what a client of the misc device writes.
LEMMA MiscFrame ==
  ASSUME SendOK, msgs < MaxMsgs
  PROVE  LET f == [msg |-> msgs + 1, idx |-> 1, session |-> session]
         IN  f \in Frame /\ f.msg = msgs + 1 /\ f.session = session
BY UsbInAssumption DEF SendOK, Frame

LEMMA TypeStep == FullType /\ [Next]_vars => FullType'
<1> SUFFICES ASSUME FullType, [Next]_vars PROVE FullType'
  OBVIOUS
<1> USE NoneIsNoFrame
    DEF FullType, requestVars, kickVars, sendVars, pastVars, Goto, Drop,
        KeepIf, Kickers, Holding, Steps
<1>1. CASE Receive
  BY <1>1 DEF Receive, QueueOK, FlagsOK, StepOK, HandOK, SendOK, PastOK
<1>2. ASSUME NEW len \in Nat \ {0}, Start(len), busy' \in BOOLEAN
      PROVE  FullType'
  <2>1. SendOK'
    BY <1>2, StartFrames
  <2>2. QED
    BY <1>2, <2>1 DEF Start, QueueOK, FlagsOK, StepOK, HandOK, PastOK
<1>3. CASE PushNext
  <2>1. Head(todo) \in Frame /\ todo' \in Seq(Frame)
    BY <1>3, TailElems DEF PushNext, SendOK
  <2>2. QueueOK' /\ PastOK'
    BY <1>3, <2>1, PushOK DEF PushNext, PastOK
  <2>3. QED
    BY <1>3, <2>1, <2>2 DEF PushNext, FlagsOK, StepOK, HandOK, SendOK
<1>4. ASSUME NEW k \in Kickers, KickLook(k) \/ KickNothing(k) PROVE FullType'
  <2>1. QueueOK' /\ FlagsOK' /\ SendOK' /\ PastOK'
    BY <1>4 DEF KickLook, KickNothing, QueueOK, FlagsOK, SendOK, PastOK
  <2>2. CASE KickLook(k)
    BY <2>1, <2>2 DEF KickLook, StepOK, HandOK
  <2>3. CASE KickNothing(k)
    BY <2>1, <2>3 DEF KickNothing, StepOK, HandOK
  <2>4. QED
    BY <1>4, <2>2, <2>3
<1>5. ASSUME NEW k \in Kickers, KickPop(k) PROVE FullType'
  <2>1. Head(tx_packets) \in Frame /\ QueueOK'
    BY <1>5, TailElems, UsbInAssumption DEF KickPop, QueueOK
  <2>2. QED
    BY <1>5, <2>1 DEF KickPop, FlagsOK, StepOK, HandOK, SendOK, PastOK
<1>6. ASSUME NEW k \in Kickers, KickClaim(k) PROVE FullType'
  BY <1>6 DEF KickClaim, QueueOK, FlagsOK, StepOK, HandOK, SendOK, PastOK
<1>7. ASSUME NEW k \in Kickers, KickRequeue(k) PROVE FullType'
  <2>1. hand[k] \in Frame
    BY <1>7 DEF KickRequeue, HandOK
  <2>2. QueueOK' /\ PastOK'
    BY <1>7, <2>1, PushOK DEF KickRequeue, PastOK
  <2>3. QED
    BY <1>7, <2>2 DEF KickRequeue, FlagsOK, StepOK, HandOK, SendOK
<1>8. ASSUME NEW k \in Kickers, KickFill(k) PROVE FullType'
  <2>1. QueueOK' /\ SendOK' /\ StepOK'
    BY <1>8 DEF KickFill, QueueOK, SendOK, StepOK
  <2>2. FlagsOK'
    BY <1>8 DEF KickFill, FlagsOK
  <2>3. HandOK'
    BY <1>8 DEF KickFill, HandOK, StepOK
  <2>4. PastOK'
    BY <1>8 DEF KickFill, PastOK, HandOK
  <2>5. QED
    BY <2>1, <2>2, <2>3, <2>4
<1>9. ASSUME NEW k \in Kickers, KickQueue(k) \/ KickQueueFails(k)
      PROVE  FullType'
  <2>1. CASE KickQueue(k)
    BY <2>1 DEF KickQueue, QueueOK, FlagsOK, StepOK, HandOK, SendOK, PastOK
  <2>2. CASE KickQueueFails(k)
    BY <2>2 DEF KickQueueFails, QueueOK, FlagsOK, StepOK, HandOK, SendOK,
       PastOK
  <2>3. QED
    BY <1>9, <2>1, <2>2
<1>10. ASSUME NEW k \in Kickers, KickOops(k) PROVE FullType'
  BY <1>10 DEF KickOops, QueueOK, FlagsOK, StepOK, HandOK, SendOK, PastOK
<1>11. CASE Deliver
  <2>1. host' \in Seq(Frame)
    <3>1. CASE buffer = None
      BY <1>11, <3>1 DEF Deliver, PastOK
    <3>2. CASE buffer # None
      BY <1>11, <3>2, AppendElems DEF Deliver, PastOK, HandOK
    <3>3. QED
      BY <3>1, <3>2
  <2>2. QED
    BY <1>11, <2>1 DEF Deliver, QueueOK, FlagsOK, StepOK, HandOK, SendOK,
       PastOK
<1>12. CASE TxComplete
  BY <1>12 DEF TxComplete, QueueOK, FlagsOK, StepOK, HandOK, SendOK, PastOK
<1>13. CASE Disable
  <2>1. Queued \subseteq Frame /\ Sending \subseteq Frame
    BY DEF Queued, QueueOK, Sending, HandOK
  <2>2. QueueOK'
    BY <1>13, NoElems, UsbInAssumption DEF Disable, QueueOK
  <2>3. PastOK'
    BY <1>13, <2>1 DEF Disable, PastOK, HandOK
  <2>4. QED
    BY <1>13, <2>2, <2>3 DEF Disable, FlagsOK, StepOK, HandOK, SendOK
<1>14. CASE SetAlt
  <2>1. SendOK'
    BY <1>14, UsbInAssumption DEF SetAlt, SendOK
  <2>2. PastOK'
    BY <1>14, NoElems DEF SetAlt, PastOK
  <2>3. QED
    BY <1>14, <2>1, <2>2 DEF SetAlt, QueueOK, FlagsOK, StepOK, HandOK
<1>15. CASE UNCHANGED vars
  BY <1>15 DEF vars, QueueOK, FlagsOK, StepOK, HandOK, SendOK, PastOK
<1>16. CASE Keepalive
  <2>1. Start(1) /\ busy' \in BOOLEAN
    BY <1>16 DEF Keepalive, FlagsOK
  <2>2. QED
    BY <1>2, <2>1
<1>17. ASSUME NEW len \in ReplyLens, SendReply(len) PROVE FullType'
  <2>1. Start(len) /\ busy' \in BOOLEAN /\ len \in Nat \ {0}
    BY <1>17, UsbInAssumption DEF SendReply
  <2>2. QED
    BY <1>2, <2>1
<1>18. CASE MiscWrite
  <2> DEFINE f == [msg |-> msgs + 1, idx |-> 1, session |-> session]
  <2>1. f \in Frame
    BY <1>18, MiscFrame DEF MiscWrite
  <2>2. tx_packets' = Append(tx_packets, f) /\ sent' = sent \cup {f}
    BY <1>18 DEF MiscWrite
  <2> HIDE DEF f
  <2>3. QueueOK'
    <3>1. Len(tx_packets) \in Nat /\ Len(tx_packets) < QueueDepth
      BY <1>18 DEF MiscWrite, QueueOK
    <3>2. QED
      BY <2>1, <2>2, <3>1, AppendElems, UsbInAssumption DEF QueueOK
  <2>4. PastOK'
    BY <1>18, <2>1, <2>2 DEF MiscWrite, PastOK
  <2>5. SendOK'
    BY <1>18, UsbInAssumption DEF MiscWrite, SendOK
  <2>6. QED
    BY <1>18, <2>3, <2>4, <2>5 DEF MiscWrite, FlagsOK, StepOK, HandOK
<1>19. QED
  BY <1>1, <1>3, <1>4, <1>5, <1>6, <1>7, <1>8, <1>9, <1>10, <1>11, <1>12,
     <1>13, <1>14, <1>15, <1>16, <1>17, <1>18 DEF Next, Kick

LEMMA FullTypeCorrect == Spec => []FullType
<1>1. Init => FullType
  <2> SUFFICES ASSUME Init PROVE FullType
    OBVIOUS
  <2>1. QueueOK /\ SendOK /\ PastOK
    BY NoElems, UsbInAssumption DEF Init, QueueOK, SendOK, PastOK
  <2>2. FlagsOK /\ StepOK /\ HandOK
    BY DEF Init, FlagsOK, StepOK, HandOK, Steps, Holding
  <2>3. QED
    BY <2>1, <2>2 DEF FullType
<1>2. QED
  BY <1>1, TypeStep, PTL DEF Spec

\* The state of the IN path keeps its types; the queue never outgrows its ring
\* (abk_fido_queue_push).
THEOREM TypeCorrect == Spec => []TypeOK
<1>1. FullType => TypeOK
  BY DEF FullType, TypeOK, QueueOK, FlagsOK, StepOK, HandOK, SendOK, PastOK
<1>2. QED
  BY <1>1, FullTypeCorrect, PTL

-----------------------------------------------------------------------------
(* Who has the IN request.                                                  *)

\* Somebody will clear tx_pending.
Owned ==
  \/ in_flight
  \/ pc["irq"] = "completed"
  \/ \E k \in Kickers : pc[k] \in {"claimed", "filled", "oops"}

\* While the first session lasts the request has one owner: the controller,
\* the completion or the kick that has claimed it.
FirstSession ==
  session = 1 /\ online =>
    /\ in_flight => tx_pending /\ pc["irq"] # "completed"
    /\ pc["irq"] = "completed" => tx_pending
    /\ \A k \in Kickers : pc[k] \in {"claimed", "filled"} =>
         /\ tx_pending /\ ~in_flight /\ pc["irq"] # "completed"
         /\ \A j \in Kickers \ {k} : pc[j] \notin {"claimed", "filled"}
    /\ spoilt = {}

OwnInv == (tx_pending => Owned) /\ FirstSession

LEMMA OwnStep == FullType /\ OwnInv /\ [Next]_vars => OwnInv'
<1> SUFFICES ASSUME FullType, OwnInv, [Next]_vars PROVE OwnInv'
  OBVIOUS
<1> USE NoneIsNoFrame
    DEF FullType, HandOK, StepOK, FlagsOK, requestVars, kickVars, sendVars,
        pastVars, Goto, Kickers, Holding, Steps, OwnInv, Owned, FirstSession
<1>1. CASE Receive
  BY <1>1 DEF Receive
<1>2. ASSUME NEW len, Start(len) PROVE OwnInv'
  BY <1>2 DEF Start
<1>3. CASE PushNext
  BY <1>3 DEF PushNext
<1>4. ASSUME NEW k \in Kickers, KickLook(k) \/ KickNothing(k) PROVE OwnInv'
  <2>1. CASE KickLook(k)
    BY <2>1 DEF KickLook
  <2>2. CASE KickNothing(k)
    BY <2>2 DEF KickNothing
  <2>3. QED
    BY <1>4, <2>1, <2>2
<1>5. ASSUME NEW k \in Kickers, KickPop(k) PROVE OwnInv'
  BY <1>5 DEF KickPop
<1>6. ASSUME NEW k \in Kickers, KickClaim(k) PROVE OwnInv'
  BY <1>6 DEF KickClaim
<1>7. ASSUME NEW k \in Kickers, KickRequeue(k) PROVE OwnInv'
  BY <1>7 DEF KickRequeue
<1>8. ASSUME NEW k \in Kickers, KickFill(k) \/ KickQueue(k) PROVE OwnInv'
  <2>1. CASE KickFill(k)
    BY <2>1 DEF KickFill, OtherFills
  <2>2. CASE KickQueue(k)
    BY <2>2 DEF KickQueue
  <2>3. QED
    BY <1>8, <2>1, <2>2
<1>9. ASSUME NEW k \in Kickers, KickQueueFails(k) PROVE OwnInv'
  BY <1>9 DEF KickQueueFails
<1>10. ASSUME NEW k \in Kickers, KickOops(k) PROVE OwnInv'
  BY <1>10 DEF KickOops
<1>11. CASE Deliver
  BY <1>11 DEF Deliver
<1>12. CASE TxComplete
  BY <1>12 DEF TxComplete
<1>13. CASE Disable
  BY <1>13 DEF Disable
<1>14. CASE SetAlt
  BY <1>14 DEF SetAlt, SendOK
<1>15. CASE UNCHANGED vars
  BY <1>15 DEF vars
<1>16. CASE MiscWrite
  BY <1>16 DEF MiscWrite
<1>17. QED
  BY <1>1, <1>2, <1>3, <1>4, <1>5, <1>6, <1>7, <1>8, <1>9, <1>10, <1>11,
     <1>12, <1>13, <1>14, <1>15, <1>16 DEF Next, Kick, Keepalive, SendReply

LEMMA OwnInvCorrect == Spec => []OwnInv
<1>1. Init => OwnInv
  BY DEF Init, OwnInv, FirstSession, Kickers
<1>2. QED
  BY <1>1, OwnStep, FullTypeCorrect, PTL DEF Spec

\* The one IN request has one user until the first unplug, and tx_pending is
\* never left set with nobody to clear it, whatever fails, is dequeued,
\* unplugged and enumerated again.
THEOREM RequestIsOwned == Spec => []InRequestOwned
<1>1. OwnInv => InRequestOwned
  BY DEF OwnInv, Owned, FirstSession, InRequestOwned
<1>2. QED
  BY <1>1, OwnInvCorrect, PTL

-----------------------------------------------------------------------------
(* Who uses the buffer of the request.                                      *)

\* A buffer that a kick has filled and that somebody else uses, or that has
\* been freed, holds a spoilt frame; one that nobody uses holds none.
BufferInv ==
  /\ in_flight => online
  /\ buffer # None => in_flight \/ Fills # {}
  /\ \A k \in Fills : in_flight \/ ~online \/ OtherFills(k) # {}
                       => buffer \in spoilt \cup {None}

LEMMA BufferStep == FullType /\ BufferInv /\ [Next]_vars => BufferInv'
<1> SUFFICES ASSUME FullType, BufferInv, [Next]_vars PROVE BufferInv'
  OBVIOUS
<1> USE NoneIsNoFrame
    DEF FullType, HandOK, StepOK, FlagsOK, requestVars, kickVars, sendVars,
        pastVars, Goto, KeepIf, Kickers, Holding, Steps, BufferInv, Fills,
        OtherFills
<1>1. CASE Receive
  BY <1>1 DEF Receive
<1>2. ASSUME NEW len, Start(len) PROVE BufferInv'
  BY <1>2 DEF Start
<1>3. CASE PushNext \/ MiscWrite
  <2>1. CASE PushNext
    BY <2>1 DEF PushNext
  <2>2. CASE MiscWrite
    BY <2>2 DEF MiscWrite
  <2>3. QED
    BY <1>3, <2>1, <2>2
<1>4. ASSUME NEW k \in Kickers, KickLook(k) \/ KickNothing(k)
      PROVE  BufferInv'
  <2>1. CASE KickLook(k)
    BY <2>1 DEF KickLook
  <2>2. CASE KickNothing(k)
    BY <2>2 DEF KickNothing
  <2>3. QED
    BY <1>4, <2>1, <2>2
<1>5. ASSUME NEW k \in Kickers, KickPop(k) PROVE BufferInv'
  BY <1>5 DEF KickPop
<1>6. ASSUME NEW k \in Kickers, KickClaim(k) PROVE BufferInv'
  BY <1>6 DEF KickClaim
<1>7. ASSUME NEW k \in Kickers, KickRequeue(k) PROVE BufferInv'
  BY <1>7 DEF KickRequeue
<1>8. ASSUME NEW k \in Kickers, KickFill(k) PROVE BufferInv'
  BY <1>8 DEF KickFill
<1>9. ASSUME NEW k \in Kickers, KickQueue(k) PROVE BufferInv'
  BY <1>9 DEF KickQueue
<1>10. ASSUME NEW k \in Kickers, KickQueueFails(k) PROVE BufferInv'
  BY <1>10 DEF KickQueueFails
<1>11. ASSUME NEW k \in Kickers, KickOops(k) PROVE BufferInv'
  BY <1>11 DEF KickOops
<1>12. CASE Deliver
  BY <1>12 DEF Deliver
<1>13. CASE TxComplete
  BY <1>13 DEF TxComplete
<1>14. CASE Disable
  BY <1>14 DEF Disable
<1>15. CASE SetAlt
  BY <1>15 DEF SetAlt
<1>16. CASE UNCHANGED vars
  BY <1>16 DEF vars
<1>17. QED
  BY <1>1, <1>2, <1>3, <1>4, <1>5, <1>6, <1>7, <1>8, <1>9, <1>10, <1>11,
     <1>12, <1>13, <1>14, <1>15, <1>16 DEF Next, Kick, Keepalive, SendReply

LEMMA BufferInvCorrect == Spec => []BufferInv
<1>1. Init => BufferInv
  BY DEF Init, BufferInv, Fills, Kickers
<1>2. QED
  BY <1>1, BufferStep, FullTypeCorrect, PTL DEF Spec

-----------------------------------------------------------------------------
(* Where the frames are.                                                    *)

Held == {hand[k] : k \in Kickers} \ {None}
Flying == {buffer} \ {None}
Placed == Elems(tx_packets) \cup Held \cup Flying \cup Elems(host) \cup lost

\* No frame that is not spoilt is in two places, or in one place twice.
HandsDiffer ==
  \A j, k \in Kickers : hand[j] = hand[k] /\ hand[j] # None => j = k
OnceInv ==
  /\ Injective(tx_packets) /\ OnceBut(spoilt, host) /\ HandsDiffer
  /\ Elems(tx_packets) \cap (Held \cup Flying \cup Elems(host) \cup lost
                                \cup spoilt) = {}
  /\ Held \cap (Flying \cup Elems(host) \cup lost \cup spoilt) = {}
  /\ Flying \cap (Elems(host) \cup lost) \subseteq spoilt
  /\ Elems(host) \cap lost \subseteq spoilt
  /\ drained \subseteq lost

\* Only frames that were pushed are anywhere; those of the current session are
\* somewhere, unless they are spoilt.
SentInv ==
  /\ Placed \cup spoilt \subseteq sent
  /\ \A f \in sent : f.session = session => f \in Placed \cup spoilt

\* The frames still to be pushed are new, and none is of a later session.
FreshInv ==
  /\ Injective(todo) /\ Elems(todo) \cap sent = {}
  /\ \A f \in sent \cup Elems(todo) : f.msg <= msgs /\ f.session <= session
  /\ command_session <= session

FrameInv == OnceInv /\ SentInv /\ FreshInv

\* FrameInv says what FramesConserved and DeadSessionDrained promise.
LEMMA FrameInvSuffices ==
  FullType /\ OwnInv /\ FrameInv => FramesConserved /\ DeadSessionDrained
<1> SUFFICES ASSUME FullType, OwnInv, FrameInv
             PROVE  FramesConserved /\ DeadSessionDrained
  OBVIOUS
<1>1. DeadSessionDrained
  BY DEF FrameInv, OnceInv, DeadSessionDrained, Elems
<1>2. ASSUME NEW f \in sent \ spoilt, f.session = session
      PROVE  \E h \in Holders(f) : Holders(f) = {h}
  <2> DEFINE Q == {<<"queue", i>> : i \in {j \in DOMAIN tx_packets :
                                              tx_packets[j] = f}}
             K == {<<"hand", k>> : k \in {j \in Kickers : hand[j] = f}}
             D == {<<"host", i>> : i \in {j \in DOMAIN host : host[j] = f}}
             A == IF buffer = f THEN {<<"buffer", 0>>} ELSE {}
             L == IF f \in lost THEN {<<"lost", 0>>} ELSE {}
  <2>1. Holders(f) = Q \cup K \cup D \cup A \cup L
    BY DEF Holders
  <2>2. f # None
    BY NoneIsNoFrame DEF FullType, PastOK
  <2>3. f \in Placed /\ f \notin spoilt
    BY <1>2 DEF FrameInv, SentInv
  <2>4. f \notin Elems(tx_packets) => Q = {}
    BY DEF Elems
  <2>5. f \notin Held => K = {}
    BY <2>2 DEF Held
  <2>6. f \notin Elems(host) => D = {}
    BY DEF Elems
  <2>7. f \notin Flying => A = {}
    BY <2>2 DEF Flying
  <2>8. f \notin lost => L = {}
    OBVIOUS
  <2>9. f \in Elems(tx_packets) => \E h : Q = {h}
    <3> SUFFICES ASSUME f \in Elems(tx_packets) PROVE \E h : Q = {h}
      OBVIOUS
    <3>1. PICK i \in DOMAIN tx_packets : tx_packets[i] = f
      BY DEF Elems
    <3>2. \A j \in DOMAIN tx_packets : tx_packets[j] = f => j = i
      BY <3>1 DEF FrameInv, OnceInv, Injective
    <3>3. Q = {<<"queue", i>>}
      BY <3>1, <3>2
    <3>4. QED
      BY <3>3
  <2>10. f \in Held => \E h : K = {h}
    <3> SUFFICES ASSUME f \in Held PROVE \E h : K = {h}
      OBVIOUS
    <3>1. PICK k \in Kickers : hand[k] = f
      BY DEF Held
    <3>2. \A j \in Kickers : hand[j] = f => j = k
      BY <2>2, <3>1 DEF FrameInv, OnceInv, HandsDiffer
    <3>3. K = {<<"hand", k>>}
      BY <3>1, <3>2
    <3>4. QED
      BY <3>3
  <2>11. f \in Elems(host) => \E h : D = {h}
    <3> SUFFICES ASSUME f \in Elems(host) PROVE \E h : D = {h}
      OBVIOUS
    <3>1. PICK i \in DOMAIN host : host[i] = f
      BY DEF Elems
    <3>2. \A j \in DOMAIN host : host[j] = f => j = i
      BY <1>2, <3>1 DEF FrameInv, OnceInv, OnceBut
    <3>3. D = {<<"host", i>>}
      BY <3>1, <3>2
    <3>4. QED
      BY <3>3
  <2>12. f \in Flying => A = {<<"buffer", 0>>}
    BY DEF Flying
  <2>13. f \in lost => L = {<<"lost", 0>>}
    OBVIOUS
  <2> HIDE DEF Q, K, D, A, L
  <2>14. CASE f \in Elems(tx_packets)
    BY <2>1, <2>5, <2>6, <2>7, <2>8, <2>9, <2>14 DEF FrameInv, OnceInv
  <2>15. CASE f \in Held
    BY <2>1, <2>4, <2>6, <2>7, <2>8, <2>10, <2>15 DEF FrameInv, OnceInv
  <2>16. CASE f \in Flying
    BY <2>1, <2>4, <2>5, <2>6, <2>8, <2>12, <2>16, <2>3
       DEF FrameInv, OnceInv
  <2>17. CASE f \in Elems(host)
    BY <2>1, <2>4, <2>5, <2>7, <2>8, <2>11, <2>17, <2>3
       DEF FrameInv, OnceInv
  <2>18. CASE f \in lost
    BY <2>1, <2>4, <2>5, <2>6, <2>7, <2>13, <2>18, <2>3
       DEF FrameInv, OnceInv
  <2>19. QED
    BY <2>3, <2>14, <2>15, <2>16, <2>17, <2>18 DEF Placed
<1>3. session = 1 /\ online => spoilt = {}
  BY DEF OwnInv, FirstSession
<1>4. QED
  BY <1>1, <1>2, <1>3 DEF FramesConserved

\* A push puts its frame at the end of the queue, or gives it up.
LEMMA PushPlaces ==
  ASSUME QueueOK, NEW f \in Frame, Push(f)
  PROVE  \/ /\ Elems(tx_packets)' = Elems(tx_packets) \cup {f}
            /\ lost' = lost
            /\ Injective(tx_packets) /\ f \notin Elems(tx_packets)
                 => Injective(tx_packets)'
            /\ Sorted(tx_packets)
                 /\ (\A g \in Elems(tx_packets) : Before(g, f))
                 => Sorted(tx_packets)'
         \/ /\ tx_packets' = tx_packets
            /\ lost' = lost \cup {f}
<1>1. CASE Len(tx_packets) < QueueDepth
  <2>1. tx_packets' = Append(tx_packets, f) /\ lost' = lost
    BY <1>1 DEF Push
  <2>2. tx_packets \in Seq(Frame)
    BY DEF QueueOK
  <2> DEFINE t == Append(tx_packets, f)
  <2>3. /\ Elems(t) = Elems(tx_packets) \cup {f}
        /\ Injective(tx_packets) /\ f \notin Elems(tx_packets)
             => Injective(t)
        /\ Sorted(tx_packets) /\ (\A g \in Elems(tx_packets) : Before(g, f))
             => Sorted(t)
    BY <2>2, AppendElems
  <2>4. tx_packets' = t
    BY <2>1
  <2> HIDE DEF t
  <2>5. /\ Elems(tx_packets)' = Elems(t)
        /\ Injective(tx_packets)' = Injective(t)
        /\ Sorted(tx_packets)' = Sorted(t)
    BY <2>4 DEF Elems, Injective, Sorted
  <2>6. QED
    BY <2>1, <2>3, <2>5
<1>2. CASE ~(Len(tx_packets) < QueueDepth)
  BY <1>2, NoneIsNoFrame DEF Push, Drop
<1>3. QED
  BY <1>1, <1>2

\* A kick takes a frame into its hand,
LEMMA HandTakes ==
  ASSUME HandOK, NEW k \in Kickers, NEW f \in Frame, hand[k] = None,
         hand' = [hand EXCEPT ![k] = f]
  PROVE  /\ Held' = Held \cup {f}
         /\ HandsDiffer /\ f \notin Held => HandsDiffer'
<1>1. f # None
  BY NoneIsNoFrame
<1>2. /\ hand'[k] = f
      /\ \A j \in Kickers : j # k => hand'[j] = hand[j]
  BY DEF HandOK
<1>3. QED
  BY <1>1, <1>2 DEF Held, HandsDiffer

\* and out of it.
LEMMA HandGives ==
  ASSUME HandOK, HandsDiffer, NEW k \in Kickers, hand[k] # None,
         hand' = [hand EXCEPT ![k] = None]
  PROVE  /\ hand[k] \in Frame /\ hand[k] \in Held
         /\ Held' = Held \ {hand[k]}
         /\ HandsDiffer'
<1>1. /\ hand'[k] = None
      /\ \A j \in Kickers : j # k => hand'[j] = hand[j]
      /\ hand[k] \in Frame
  BY DEF HandOK
<1>2. QED
  BY <1>1 DEF Held, HandsDiffer

\* A step that moves no frame.
LEMMA FramesStay ==
  ASSUME FrameInv,
         UNCHANGED <<tx_packets, hand, buffer, host, lost, sent, drained,
                     spoilt, todo, msgs, session, command_session>>
  PROVE  FrameInv'
BY DEF FrameInv, OnceInv, SentInv, FreshInv, Injective, OnceBut, HandsDiffer,
       Elems, Held, Flying, Placed

\* What leaves the buffer is given up; what stays in it all the same is spoilt.
LEMMA BufferFrames ==
  ASSUME FrameInv,
         UNCHANGED <<tx_packets, hand, host, sent, drained, todo, msgs,
                     session>>,
         command_session' \in {command_session, session},
         session \in Nat,
         \/ lost' = lost \cup Flying
         \/ lost' = lost /\ Flying \subseteq Flying' \cup spoilt,
         Flying' \subseteq Flying,
         lost' # lost => Flying' \subseteq spoilt,
         UNCHANGED spoilt
  PROVE  FrameInv'
<1>1. UNCHANGED <<Elems(tx_packets), Elems(host), Held, Injective(tx_packets),
                  OnceBut(spoilt, host), HandsDiffer>>
  BY DEF Elems, Injective, OnceBut, Held, HandsDiffer
<1>2. UNCHANGED <<Injective(todo), Elems(todo)>>
  BY DEF Elems, Injective
<1>3. OnceInv'
  BY <1>1 DEF FrameInv, OnceInv
<1>4. SentInv'
  BY <1>1 DEF FrameInv, SentInv, Placed
<1>5. FreshInv'
  BY <1>2 DEF FrameInv, FreshInv
<1>6. QED
  BY <1>3, <1>4, <1>5 DEF FrameInv

\* Each step that moves frames keeps every frame in one place.
LEMMA ReceiveFrames ==
  ASSUME FullType, BufferInv, FrameInv, Receive PROVE FrameInv'
<1>1. /\ UNCHANGED <<tx_packets, hand, host, sent, drained, spoilt, todo, msgs,
                     session>>
      /\ command_session' = session /\ session \in Nat
  BY UsbInAssumption DEF Receive, pastVars, FullType, SendOK
<1>2. \/ UNCHANGED <<buffer, lost>>
      \/ /\ in_flight /\ lost' = lost \cup Flying
         /\ buffer' = IF Fills # {} THEN buffer ELSE None
  BY DEF Receive, Drop, KeepIf, Flying
<1>3. CASE UNCHANGED <<buffer, lost>>
  <2>1. Flying' = Flying
    BY <1>3 DEF Flying
  <2>2. QED
    BY <1>1, <1>3, <2>1, BufferFrames
<1>4. CASE /\ in_flight /\ lost' = lost \cup Flying
           /\ buffer' = IF Fills # {} THEN buffer ELSE None
  <2>1. Flying' \subseteq Flying /\ Flying' \subseteq spoilt
    BY <1>4 DEF Flying, BufferInv
  <2>2. QED
    BY <1>1, <1>4, <2>1, BufferFrames
<1>5. QED
  BY <1>2, <1>3, <1>4

LEMMA StartFrameInv ==
  ASSUME FullType, FrameInv, NEW len \in Nat \ {0}, Start(len)
  PROVE  FrameInv'
<1>1. /\ UNCHANGED <<Elems(tx_packets), Elems(host), Held, Flying, lost>>
      /\ UNCHANGED <<Injective(tx_packets), OnceBut(spoilt, host), HandsDiffer>>
      /\ UNCHANGED <<sent, drained, spoilt, session, command_session>>
      /\ msgs' = msgs + 1
  BY DEF Start, requestVars, pastVars, Elems, Injective, OnceBut, Held, Flying,
         HandsDiffer
<1>2. OnceInv' /\ SentInv'
  BY <1>1 DEF FrameInv, OnceInv, SentInv, Placed
<1>3. FreshInv'
  <2>1. /\ Injective(todo)'
        /\ \A f \in Elems(todo)' : f.msg = msgs + 1
                                     /\ f.session = command_session
    BY StartFrames DEF FullType
  <2>2. msgs \in Nat /\ session \in Nat /\ command_session \in Nat
        /\ \A f \in sent : f.msg \in Nat
    BY UsbInAssumption DEF FullType, SendOK, PastOK, Frame
  <2>3. Elems(todo)' \cap sent = {}
    BY <2>1, <2>2 DEF FrameInv, FreshInv
  <2>4. QED
    BY <1>1, <2>1, <2>2, <2>3 DEF FrameInv, FreshInv
<1>4. QED
  BY <1>2, <1>3 DEF FrameInv

LEMMA PushNextFrames ==
  ASSUME FullType, FrameInv, PushNext PROVE FrameInv'
<1> DEFINE f == Head(todo)
<1>1. /\ f \in Frame /\ Elems(todo) = {f} \cup Elems(todo)'
      /\ Injective(todo)' /\ f \notin Elems(todo)'
  <2>1. /\ f \in Frame /\ Elems(todo) = {f} \cup Elems(Tail(todo))
        /\ Injective(Tail(todo)) /\ f \notin Elems(Tail(todo))
    BY TailElems DEF PushNext, FullType, SendOK, FrameInv, FreshInv
  <2>2. todo' = Tail(todo)
    BY DEF PushNext
  <2> HIDE DEF f
  <2>3. QED
    BY <2>1, <2>2 DEF Elems, Injective
<1>2. Push(f) /\ sent' = sent \cup {f}
  BY DEF PushNext
<1>3. \/ /\ Elems(tx_packets)' = Elems(tx_packets) \cup {f}
         /\ lost' = lost
         /\ Injective(tx_packets) /\ f \notin Elems(tx_packets)
              => Injective(tx_packets)'
      \/ tx_packets' = tx_packets /\ lost' = lost \cup {f}
  BY <1>1, <1>2, PushPlaces DEF FullType
<1>4. /\ UNCHANGED <<Elems(host), Held, Flying, OnceBut(spoilt, host), HandsDiffer>>
      /\ UNCHANGED <<msgs, session, command_session, drained, spoilt>>
  BY DEF PushNext, requestVars, pastVars, Elems, OnceBut, Held, Flying,
         HandsDiffer
<1> HIDE DEF f
<1>5. f \notin sent /\ f \in Elems(todo)
  BY <1>1 DEF FrameInv, FreshInv
<1>6. FreshInv'
  BY <1>1, <1>2, <1>4, <1>5 DEF FrameInv, FreshInv
<1>7. CASE /\ Elems(tx_packets)' = Elems(tx_packets) \cup {f}
           /\ lost' = lost
           /\ Injective(tx_packets) /\ f \notin Elems(tx_packets)
                => Injective(tx_packets)'
  BY <1>2, <1>4, <1>5, <1>6, <1>7 DEF FrameInv, OnceInv, SentInv, Placed
<1>8. CASE tx_packets' = tx_packets /\ lost' = lost \cup {f}
  <2>1. UNCHANGED <<Elems(tx_packets), Injective(tx_packets)>>
    BY <1>8 DEF Elems, Injective
  <2>2. QED
    BY <1>2, <1>4, <1>5, <1>6, <1>8, <2>1
       DEF FrameInv, OnceInv, SentInv, Placed
<1>9. QED
  BY <1>3, <1>7, <1>8

LEMMA MiscWriteFrames ==
  ASSUME FullType, FrameInv, MiscWrite PROVE FrameInv'
<1> DEFINE f == [msg |-> msgs + 1, idx |-> 1, session |-> session]
<1>1. f \in Frame /\ f.msg = msgs + 1 /\ f.session = session
  BY MiscFrame DEF MiscWrite, FullType
<1>2. /\ tx_packets' = Append(tx_packets, f) /\ sent' = sent \cup {f}
      /\ msgs' = msgs + 1
      /\ UNCHANGED <<requestVars, hand, todo, command_session, session, host,
                     lost, drained, spoilt>>
  BY DEF MiscWrite, pastVars
<1> HIDE DEF f
<1>3. f \notin sent
  <2>1. \A g \in sent : g.msg <= msgs
    BY DEF FrameInv, FreshInv
  <2>2. msgs \in Nat
    BY UsbInAssumption DEF FullType, SendOK
  <2>3. QED
    BY <1>1, <2>1, <2>2
<1>4. f \notin Elems(tx_packets)
  BY <1>3 DEF FrameInv, SentInv, Placed
<1>5. /\ Elems(tx_packets)' = Elems(tx_packets) \cup {f}
      /\ Injective(tx_packets)'
  <2> DEFINE t == Append(tx_packets, f)
  <2>1. Elems(t) = Elems(tx_packets) \cup {f} /\ Injective(t)
    BY <1>1, <1>4, AppendElems DEF FullType, QueueOK, FrameInv, OnceInv
  <2>2. tx_packets' = t
    BY <1>2
  <2> HIDE DEF t
  <2>3. QED
    BY <2>1, <2>2 DEF Elems, Injective
<1>6. UNCHANGED <<Elems(host), Held, Flying, OnceBut(spoilt, host),
                  HandsDiffer, Injective(todo), Elems(todo)>>
  BY <1>2 DEF requestVars, Elems, Injective, OnceBut, Held, Flying, HandsDiffer
<1>7. OnceInv' /\ SentInv'
  BY <1>2, <1>3, <1>5, <1>6 DEF FrameInv, OnceInv, SentInv, Placed
<1>8. FreshInv'
  <2>1. \A g \in sent \cup Elems(todo) : g.msg <= msgs /\ g.msg \in Nat
    <3>1. sent \cup Elems(todo) \subseteq Frame
      BY DEF FullType, SendOK, PastOK, Elems
    <3>2. \A g \in Frame : g.msg \in Nat
      BY UsbInAssumption DEF Frame
    <3>3. QED
      BY <3>1, <3>2 DEF FrameInv, FreshInv
  <2>2. msgs \in Nat /\ session \in Nat
    BY UsbInAssumption DEF FullType, SendOK
  <2>3. f \notin Elems(todo)
    BY <1>1, <2>1, <2>2
  <2>4. \A g \in sent \cup Elems(todo) : g.msg <= msgs + 1
    BY <2>1, <2>2
  <2>5. QED
    BY <1>1, <1>2, <1>6, <2>2, <2>3, <2>4 DEF FrameInv, FreshInv
<1>9. QED
  BY <1>7, <1>8 DEF FrameInv

LEMMA KickPopFrames ==
  ASSUME FullType, FrameInv, NEW k \in Kickers, KickPop(k) PROVE FrameInv'
<1> DEFINE f == Head(tx_packets)
<1>1. /\ f \in Frame /\ Elems(tx_packets) = {f} \cup Elems(tx_packets)'
      /\ Injective(tx_packets)' /\ f \notin Elems(tx_packets)'
  <2>1. /\ f \in Frame
        /\ Elems(tx_packets) = {f} \cup Elems(Tail(tx_packets))
        /\ Injective(Tail(tx_packets)) /\ f \notin Elems(Tail(tx_packets))
    BY TailElems DEF KickPop, FullType, QueueOK, FrameInv, OnceInv
  <2>2. tx_packets' = Tail(tx_packets)
    BY DEF KickPop
  <2> HIDE DEF f
  <2>3. QED
    BY <2>1, <2>2 DEF Elems, Injective
<1>2. hand[k] = None /\ hand' = [hand EXCEPT ![k] = f]
  BY DEF KickPop, FullType, HandOK
<1> HIDE DEF f
<1>3. f \notin Held
  BY <1>1 DEF FrameInv, OnceInv
<1>4. Held' = Held \cup {f} /\ HandsDiffer'
  BY <1>1, <1>2, <1>3, HandTakes DEF FullType, FrameInv, OnceInv
<1>5. UNCHANGED <<Elems(host), Flying, OnceBut(spoilt, host), lost, sent,
                  drained, spoilt, session>>
  BY DEF KickPop, requestVars, Elems, OnceBut, Flying
<1>6. FreshInv'
  BY DEF KickPop, sendVars, FrameInv, FreshInv, Elems, Injective
<1>7. QED
  BY <1>1, <1>4, <1>5, <1>6 DEF FrameInv, OnceInv, SentInv, Placed

\* A kick puts its frame back into the queue,
LEMMA KickRequeueFrames ==
  ASSUME FullType, FrameInv, NEW k \in Kickers, KickRequeue(k)
  PROVE  FrameInv'
<1> DEFINE f == hand[k]
<1>1. hand[k] # None /\ hand' = [hand EXCEPT ![k] = None] /\ Push(f)
  BY DEF KickRequeue, FullType, HandOK
<1>2. f \in Frame /\ f \in Held /\ Held' = Held \ {f} /\ HandsDiffer'
  BY <1>1, HandGives DEF FullType, FrameInv, OnceInv
<1> HIDE DEF f
<1>3. UNCHANGED <<Elems(host), OnceBut(spoilt, host), Flying, sent, drained,
                  spoilt, session>>
  BY DEF KickRequeue, requestVars, Elems, OnceBut, Flying
<1>4. FreshInv'
  BY DEF KickRequeue, sendVars, FrameInv, FreshInv, Elems, Injective
<1>5. \/ /\ Elems(tx_packets)' = Elems(tx_packets) \cup {f}
         /\ lost' = lost
         /\ Injective(tx_packets) /\ f \notin Elems(tx_packets)
              => Injective(tx_packets)'
      \/ tx_packets' = tx_packets /\ lost' = lost \cup {f}
  BY <1>1, <1>2, PushPlaces DEF FullType
<1>6. CASE /\ Elems(tx_packets)' = Elems(tx_packets) \cup {f}
           /\ lost' = lost
           /\ Injective(tx_packets) /\ f \notin Elems(tx_packets)
                => Injective(tx_packets)'
  BY <1>2, <1>3, <1>4, <1>6 DEF FrameInv, OnceInv, SentInv, Placed
<1>7. CASE tx_packets' = tx_packets /\ lost' = lost \cup {f}
  <2>1. UNCHANGED <<Elems(tx_packets), Injective(tx_packets)>>
    BY <1>7 DEF Elems, Injective
  <2>2. QED
    BY <1>2, <1>3, <1>4, <1>7, <2>1 DEF FrameInv, OnceInv, SentInv, Placed
<1>8. QED
  BY <1>5, <1>6, <1>7

\* or into the buffer; what was there and what comes are spoilt if somebody
\* uses it.
LEMMA KickFillFrames ==
  ASSUME FullType, BufferInv, FrameInv, NEW k \in Kickers, KickFill(k)
  PROVE  FrameInv'
<1> DEFINE f == hand[k]
<1>1. hand[k] # None /\ hand' = [hand EXCEPT ![k] = None]
  BY DEF KickFill, FullType, HandOK
<1>2. f \in Frame /\ f \in Held /\ Held' = Held \ {f} /\ HandsDiffer'
  BY <1>1, HandGives DEF FullType, FrameInv, OnceInv
<1>3. Flying' = {f}
  BY <1>1 DEF KickFill, Flying
<1>4. \/ spoilt' = spoilt \cup {f} \cup Flying
      \/ spoilt' = spoilt /\ Flying = {}
  <2>1. CASE in_flight \/ OtherFills(k) # {}
    BY <1>1, <2>1 DEF KickFill, Flying
  <2>2. CASE ~(in_flight \/ OtherFills(k) # {})
    <3>1. Fills = {}
      BY <2>2 DEF KickFill, Fills, OtherFills
    <3>2. spoilt' = spoilt
      BY <2>2 DEF KickFill
    <3>3. QED
      BY <2>2, <3>1, <3>2 DEF BufferInv, Flying
  <2>3. QED
    BY <2>1, <2>2
<1> HIDE DEF f
<1>5. UNCHANGED <<Elems(tx_packets), Injective(tx_packets), Elems(host), lost,
                  sent, drained, session>>
  BY DEF KickFill, Elems, Injective
<1>6. OnceBut(spoilt, host)'
  <2>1. host' = host /\ spoilt \subseteq spoilt'
    BY <1>4 DEF KickFill
  <2>2. QED
    BY <2>1 DEF FrameInv, OnceInv, OnceBut
<1>7. FreshInv'
  BY DEF KickFill, sendVars, FrameInv, FreshInv, Elems, Injective
<1>8. OnceInv'
  BY <1>2, <1>3, <1>4, <1>5, <1>6 DEF FrameInv, OnceInv
<1>9. SentInv'
  BY <1>2, <1>3, <1>4, <1>5 DEF FrameInv, SentInv, Placed
<1>10. QED
  BY <1>7, <1>8, <1>9 DEF FrameInv

\* A kick leaves the buffer to the controller, or gives up.
LEMMA KickLeavesFrames ==
  ASSUME FullType, BufferInv, FrameInv, NEW k \in Kickers,
         KickQueueFails(k) \/ KickOops(k)
  PROVE  FrameInv'
<1>1. /\ UNCHANGED <<tx_packets, hand, host, sent, drained, spoilt, todo, msgs,
                     session, command_session>>
      /\ session \in Nat
  BY UsbInAssumption DEF KickQueueFails, KickOops, pastVars, sendVars,
     FullType, SendOK
<1>2. CASE KickQueueFails(k) /\ in_flight
  <2>1. lost' = lost /\ Flying' = Flying
    BY <1>2 DEF KickQueueFails, Drop, KeepIf, Flying
  <2>2. QED
    BY <1>1, <2>1, BufferFrames
<1>3. CASE KickQueueFails(k) /\ ~in_flight
  <2>1. lost' = lost \cup Flying
    BY <1>3 DEF KickQueueFails, Drop, Flying
  <2>2. Flying' \subseteq Flying /\ Flying' \subseteq spoilt
    <3>1. buffer' = IF OtherFills(k) # {} THEN buffer ELSE None
      BY <1>3 DEF KickQueueFails, KeepIf
    <3>2. k \in Fills
      BY <1>3 DEF KickQueueFails, Fills
    <3>3. QED
      BY <3>1, <3>2 DEF BufferInv, Flying
  <2>3. QED
    BY <1>1, <2>1, <2>2, BufferFrames
<1>4. CASE KickOops(k)
  <2>1. lost' = lost /\ ~online
    BY <1>4 DEF KickOops
  <2>2. buffer' = IF OtherFills(k) # {} THEN buffer ELSE None
    BY <1>4 DEF KickOops, KeepIf
  <2>3. Flying' \subseteq Flying
    BY <2>2 DEF Flying
  <2>4. Flying \subseteq spoilt
    <3>1. CASE Fills = {}
      BY <2>1, <3>1 DEF BufferInv, Flying
    <3>2. CASE Fills # {}
      BY <2>1, <3>2 DEF BufferInv, Flying
    <3>3. QED
      BY <3>1, <3>2
  <2>5. QED
    BY <1>1, <2>1, <2>3, <2>4, BufferFrames
<1>5. QED
  BY <1>2, <1>3, <1>4

LEMMA DeliverFrames ==
  ASSUME FullType, BufferInv, FrameInv, Deliver PROVE FrameInv'
<1>1. /\ UNCHANGED <<tx_packets, hand, sent, drained, spoilt, todo, msgs,
                     session, command_session, lost>>
      /\ buffer' = IF Fills # {} THEN buffer ELSE None
      /\ host' = IF buffer = None THEN host ELSE Append(host, buffer)
      /\ in_flight
  BY DEF Deliver, pastVars, sendVars, KeepIf
<1>2. CASE buffer = None
  <2>1. UNCHANGED <<buffer, host>>
    BY <1>1, <1>2
  <2>2. QED
    BY <1>1, <2>1, FramesStay
<1>3. CASE buffer # None
  <2> DEFINE f == buffer
             h == Append(host, f)
  <2>1. f \in Frame /\ host \in Seq(Frame) /\ Flying = {f}
    BY <1>3 DEF FullType, HandOK, PastOK, Flying
  <2>2. f \in spoilt \/ (f \notin Elems(host) /\ Flying' = {})
    <3>1. CASE Fills = {}
      BY <1>1, <2>1, <3>1 DEF Flying, FrameInv, OnceInv
    <3>2. CASE Fills # {}
      BY <1>1, <1>3, <3>2 DEF BufferInv
    <3>3. QED
      BY <3>1, <3>2
  <2>3. Flying' \subseteq {f}
    BY <1>1 DEF Flying
  <2>4. Elems(h) = Elems(host) \cup {f} /\ OnceBut(spoilt, h)
    BY <2>1, <2>2, AppendElems DEF FrameInv, OnceInv
  <2>5. host' = h
    BY <1>1, <1>3
  <2> HIDE DEF h
  <2>6. Elems(host)' = Elems(host) \cup {f} /\ OnceBut(spoilt, host)'
    BY <1>1, <2>4, <2>5 DEF Elems, OnceBut
  <2>7. UNCHANGED <<Elems(tx_packets), Injective(tx_packets), Held, HandsDiffer,
                    Injective(todo), Elems(todo)>>
    BY <1>1 DEF Elems, Injective, Held, HandsDiffer
  <2> HIDE DEF f
  <2>8. OnceInv'
    BY <1>1, <2>1, <2>2, <2>3, <2>6, <2>7 DEF FrameInv, OnceInv
  <2>9. SentInv'
    BY <1>1, <2>1, <2>3, <2>6, <2>7 DEF FrameInv, SentInv, Placed
  <2>10. FreshInv'
    BY <1>1, <2>7 DEF FrameInv, FreshInv
  <2>11. QED
    BY <2>8, <2>9, <2>10 DEF FrameInv
<1>4. QED
  BY <1>2, <1>3

LEMMA DisableFrames ==
  ASSUME FullType, BufferInv, FrameInv, Disable PROVE FrameInv'
<1> DEFINE S == Sending
<1>1. /\ tx_packets' = <<>>
      /\ buffer' = IF Fills # {} THEN buffer ELSE None
      /\ spoilt' = spoilt \cup (IF Fills # {} THEN Flying ELSE {})
  BY DEF Disable, KeepIf, Flying
<1>2. Elems(tx_packets)' = {} /\ Injective(tx_packets)'
  BY <1>1, NoElems DEF Elems, Injective
<1>3. /\ lost' = lost \cup Elems(tx_packets) \cup S
      /\ drained' = drained \cup Elems(tx_packets) \cup S
  <2>1. None \notin Queued /\ None \notin Sending
    BY NoneIsNoFrame DEF Queued, Sending, FullType, QueueOK
  <2>2. Queued = Elems(tx_packets)
    BY DEF Queued, Elems
  <2>3. QED
    BY <2>1, <2>2 DEF Disable, Drop
<1>4. /\ S \subseteq Flying /\ Flying' \subseteq Flying
      /\ Flying' \subseteq spoilt' /\ Flying \subseteq S \cup spoilt'
  <2>1. Flying' \subseteq Flying /\ Flying' \subseteq spoilt'
    BY <1>1 DEF Flying
  <2>2. S \subseteq Flying
    BY DEF Sending, Flying
  <2>3. Fills # {} => Flying \subseteq spoilt'
    BY <1>1
  <2>4. Fills = {} => Flying \subseteq Sending
    BY DEF BufferInv, Flying, Sending
  <2>5. QED
    BY <2>1, <2>2, <2>3, <2>4
<1>5. spoilt \subseteq spoilt' /\ spoilt' \subseteq spoilt \cup Flying
  BY <1>1
<1> HIDE DEF S
<1>6. UNCHANGED <<Elems(host), Held, HandsDiffer, sent, session>>
  BY DEF Disable, kickVars, Elems, Held, HandsDiffer
<1>7. OnceBut(spoilt, host)'
  <2>1. host' = host
    BY DEF Disable
  <2>2. QED
    BY <1>5, <2>1 DEF FrameInv, OnceInv, OnceBut
<1>8. FreshInv'
  BY DEF Disable, sendVars, FrameInv, FreshInv, Elems, Injective
<1>9. OnceInv'
  BY <1>2, <1>3, <1>4, <1>5, <1>6, <1>7 DEF FrameInv, OnceInv
<1>10. SentInv'
  BY <1>2, <1>3, <1>4, <1>5, <1>6 DEF FrameInv, SentInv, Placed
<1>11. QED
  BY <1>8, <1>9, <1>10 DEF FrameInv

\* The next session starts with an empty host and owns no frame yet.
LEMMA SetAltFrames ==
  ASSUME FullType, BufferInv, FrameInv, SetAlt PROVE FrameInv'
<1>1. host' = <<>> /\ session' = session + 1
  BY DEF SetAlt
<1>2. Elems(host)' = {} /\ OnceBut(spoilt, host)'
  BY <1>1, NoElems DEF Elems, OnceBut
<1>3. UNCHANGED <<Elems(tx_packets), Injective(tx_packets), Held, HandsDiffer,
                  lost, sent, drained, spoilt>>
  BY DEF SetAlt, pastVars, Elems, Injective, Held, HandsDiffer
<1>4. Flying' \subseteq Flying
  BY DEF SetAlt, Flying
<1>5. UNCHANGED <<Injective(todo), Elems(todo), msgs, command_session>>
  BY DEF SetAlt, sendVars, Elems, Injective
<1>6. /\ session \in Nat /\ command_session \in Nat
      /\ \A f \in sent \cup Elems(todo) : f.session \in Nat
  <2>1. sent \cup Elems(todo) \subseteq Frame
    BY DEF FullType, SendOK, PastOK, Elems
  <2>2. \A f \in Frame : f.session \in Nat
    BY UsbInAssumption DEF Frame
  <2>3. QED
    BY <2>1, <2>2, UsbInAssumption DEF FullType, SendOK
<1>7. \A f \in sent' : f.session # session'
  BY <1>1, <1>3, <1>6 DEF FrameInv, FreshInv
<1>8. FreshInv'
  BY <1>1, <1>3, <1>5, <1>6 DEF FrameInv, FreshInv
<1>9. OnceInv'
  BY <1>2, <1>3, <1>4 DEF FrameInv, OnceInv
<1>10. SentInv'
  BY <1>2, <1>3, <1>4, <1>7 DEF FrameInv, SentInv, Placed
<1>11. QED
  BY <1>8, <1>9, <1>10 DEF FrameInv

LEMMA FrameStep ==
  FullType /\ BufferInv /\ FrameInv /\ [Next]_vars => FrameInv'
<1> SUFFICES ASSUME FullType, BufferInv, FrameInv, [Next]_vars PROVE FrameInv'
  OBVIOUS
<1> USE DEF requestVars, kickVars, sendVars, pastVars
<1>1. ASSUME NEW k \in Kickers, Kick(k) PROVE FrameInv'
  <2>1. CASE KickLook(k) \/ KickNothing(k)
    BY <2>1, FramesStay DEF KickLook, KickNothing
  <2>2. CASE KickClaim(k) \/ KickQueue(k)
    BY <2>2, FramesStay DEF KickClaim, KickQueue
  <2>3. QED
    BY <1>1, <2>1, <2>2, KickPopFrames, KickRequeueFrames, KickFillFrames,
       KickLeavesFrames DEF Kick
<1>2. CASE TxComplete
  BY <1>2, FramesStay DEF TxComplete
<1>3. CASE UNCHANGED vars
  BY <1>3, FramesStay DEF vars
<1>4. CASE Keepalive
  <2>1. Start(1) /\ 1 \in Nat \ {0}
    BY <1>4 DEF Keepalive
  <2>2. QED
    BY <2>1, StartFrameInv
<1>5. ASSUME NEW len \in ReplyLens, SendReply(len) PROVE FrameInv'
  <2>1. Start(len) /\ len \in Nat \ {0}
    BY <1>5, UsbInAssumption DEF SendReply
  <2>2. QED
    BY <2>1, StartFrameInv
<1>6. QED
  BY <1>1, <1>2, <1>3, <1>4, <1>5, ReceiveFrames, PushNextFrames,
     MiscWriteFrames, DeliverFrames, DisableFrames, SetAltFrames DEF Next

LEMMA FrameInvCorrect == Spec => []FrameInv
<1>1. Init => FrameInv
  BY NoElems DEF Init, FrameInv, OnceInv, SentInv, FreshInv, HandsDiffer, Held,
     Flying, Placed
<1>2. QED
  BY <1>1, FrameStep, BufferInvCorrect, FullTypeCorrect, PTL DEF Spec

\* No frame pushed in the current session or for one of its commands is
\* duplicated, or vanishes without the code having dropped it: whatever
\* interleaving of kicks, completions, refusals, dequeues, unplugs and
\* enumerations, it is in exactly one place, unless it shared the buffer of the
\* request with the late kick of a dead session; before the first unplug no
\* frame does.
THEOREM FramesAreConserved == Spec => []FramesConserved
BY FrameInvCorrect, OwnInvCorrect, FullTypeCorrect, FrameInvSuffices, PTL

\* What abk_fido_disable drained never reaches a host again, except from the
\* buffer that a late kick shares.
THEOREM DeadSessionStaysDrained == Spec => []DeadSessionDrained
BY FrameInvCorrect, OwnInvCorrect, FullTypeCorrect, FrameInvSuffices, PTL

-----------------------------------------------------------------------------
(* The order of the frames, and who sends the next one.                     *)

Below(A, B) == \A x \in A, y \in B : Before(x, y)

\* As long as kicks do not contend, the places a frame goes through hold the
\* frames of a message in the order in which they were pushed, and one kick at
\* most holds a frame or the request.
OneHand ==
  \A j, k \in Kickers : pc[j] \in Holding /\ pc[k] \in Holding => j = k
PlacesInOrder ==
  /\ OneHand /\ Sorted(host) /\ Sorted(tx_packets) /\ Sorted(todo)
  /\ Below(Elems(host), Flying \cup Held \cup Elems(tx_packets)
                          \cup Elems(todo))
  /\ Below(Flying, Held \cup Elems(tx_packets) \cup Elems(todo))
  /\ Below(Held, Elems(tx_packets) \cup Elems(todo))
  /\ Below(Elems(tx_packets), Elems(todo))
  \* What is in the buffer has not reached the host, and goes out once.
  /\ Fills # {} => ~in_flight
OrderInv == ~contended => PlacesInOrder

\* A step that only moves a kick on, or takes a frame away.
LEMMA OrderStays ==
  ASSUME OrderInv, OneHand => OneHand',
         UNCHANGED <<tx_packets, hand, host, todo, contended>>,
         Flying' \subseteq Flying,
         (Fills # {} => ~in_flight) /\ OneHand => (Fills # {} => ~in_flight)'
  PROVE  OrderInv'
<1>1. UNCHANGED <<Elems(tx_packets), Elems(host), Elems(todo), Held,
                  Sorted(tx_packets), Sorted(host), Sorted(todo)>>
  BY DEF Elems, Held, Sorted
<1>2. QED
  BY <1>1 DEF OrderInv, PlacesInOrder, Below

\* Who holds a frame after a step of kick k.
LEMMA HoldingStep ==
  ASSUME FullType, NEW k \in Kickers, NEW step \in Steps, Goto(k, step),
         pc[k] \in Holding \/ step \notin Holding
                            \/ \A j \in Kickers : pc[j] \notin Holding
  PROVE  OneHand => OneHand'
<1>1. pc'[k] = step /\ \A j \in Kickers : j # k => pc'[j] = pc[j]
  BY DEF FullType, StepOK, Goto
<1>2. QED
  BY <1>1 DEF OneHand

LEMMA ReceiveOrder ==
  ASSUME FullType, OrderInv, Receive PROVE OrderInv'
<1>1. UNCHANGED <<tx_packets, hand, host, todo, contended>>
  BY DEF Receive, pastVars
<1>2. CASE UNCHANGED <<in_flight, buffer, pc>>
  <2>1. UNCHANGED <<Flying, OneHand, Fills, in_flight>>
    BY <1>2 DEF Flying, OneHand, Fills
  <2>2. QED
    BY <1>1, <2>1, OrderStays
<1>3. CASE in_flight' = FALSE /\ KeepIf(Fills # {}) /\ Goto("irq", "completed")
  <2>1. Flying' \subseteq Flying
    BY <1>3 DEF KeepIf, Flying
  <2>2. OneHand => OneHand'
    BY <1>3, HoldingStep DEF Kickers, Steps, Holding
  <2>3. QED
    BY <1>1, <1>3, <2>1, <2>2, OrderStays
<1>4. QED
  BY <1>2, <1>3 DEF Receive

\* A new message has a higher number than every frame there is.
LEMMA NewMessage ==
  ASSUME FullType, FrameInv
  PROVE  \A f \in sent \cup Elems(todo) : f.msg # msgs + 1
<1>1. sent \cup Elems(todo) \subseteq Frame
  BY DEF FullType, SendOK, PastOK, Elems
<1>2. \A f \in Frame : f.msg \in Nat
  BY UsbInAssumption DEF Frame
<1>3. msgs \in Nat
  BY UsbInAssumption DEF FullType, SendOK
<1>4. QED
  BY <1>1, <1>2, <1>3 DEF FrameInv, FreshInv

LEMMA StartOrder ==
  ASSUME FullType, FrameInv, OrderInv, NEW len \in Nat \ {0}, Start(len)
  PROVE  OrderInv'
<1>1. UNCHANGED <<Elems(tx_packets), Elems(host), Held, Flying,
                  Sorted(tx_packets), Sorted(host), contended, in_flight>>
  BY DEF Start, requestVars, pastVars, Elems, Held, Flying, Sorted
<1>2. OneHand => OneHand'
  BY HoldingStep DEF Start, Kickers, Steps, Holding
<1>3. Fills' = Fills
  BY DEF Start, Goto, Fills, FullType, StepOK
<1>4. Sorted(todo)' /\ \A f \in Elems(todo)' : f.msg = msgs + 1
  BY StartFrames DEF FullType
<1>5. Below(Placed, Elems(todo)')
  BY <1>4, NewMessage DEF Below, Before, FrameInv, SentInv
<1>6. QED
  BY <1>1, <1>2, <1>3, <1>4, <1>5 DEF OrderInv, PlacesInOrder, Below, Placed

\* The client's frame is a message of its own.
LEMMA MiscWriteOrder ==
  ASSUME FullType, FrameInv, OrderInv, MiscWrite PROVE OrderInv'
<1> SUFFICES ASSUME ~contended' PROVE PlacesInOrder'
  BY DEF OrderInv
<1> DEFINE f == [msg |-> msgs + 1, idx |-> 1, session |-> session]
           t == Append(tx_packets, f)
<1>1. PlacesInOrder
  BY DEF OrderInv, MiscWrite, pastVars
<1>2. f \in Frame /\ f.msg = msgs + 1
  BY MiscFrame DEF MiscWrite, FullType
<1>3. /\ tx_packets' = t
      /\ UNCHANGED <<requestVars, hand, todo, host>>
  BY DEF MiscWrite
<1>4. OneHand'
  BY <1>1, HoldingStep DEF MiscWrite, Kickers, Steps, Holding, PlacesInOrder
<1>5. Fills' = Fills
  BY DEF MiscWrite, Goto, Fills, FullType, StepOK
<1> HIDE DEF f
<1>6. \A g \in Placed \cup Elems(todo) : Before(g, f) /\ Before(f, g)
  BY <1>2, NewMessage DEF Before, FrameInv, SentInv
<1>7. Elems(t) = Elems(tx_packets) \cup {f} /\ Sorted(t)
  BY <1>1, <1>2, <1>6, AppendElems DEF FullType, QueueOK, PlacesInOrder, Placed
<1> HIDE DEF t
<1>8. Elems(tx_packets)' = Elems(tx_packets) \cup {f} /\ Sorted(tx_packets)'
  BY <1>3, <1>7 DEF Elems, Sorted
<1>9. UNCHANGED <<Elems(host), Elems(todo), Held, Flying, Sorted(host),
                  Sorted(todo), in_flight>>
  BY <1>3 DEF requestVars, Elems, Held, Flying, Sorted
<1>10. QED
  BY <1>1, <1>4, <1>5, <1>6, <1>8, <1>9 DEF PlacesInOrder, Below, Placed

LEMMA PushNextOrder ==
  ASSUME FullType, OrderInv, PushNext PROVE OrderInv'
<1> SUFFICES ASSUME ~contended' PROVE PlacesInOrder'
  BY DEF OrderInv
<1> DEFINE f == Head(todo)
<1>1. PlacesInOrder
  BY DEF OrderInv, PushNext, pastVars
<1>2. /\ f \in Frame /\ Elems(todo) = {f} \cup Elems(todo)'
      /\ Sorted(todo)' /\ \A g \in Elems(todo)' : Before(f, g)
  <2>1. /\ f \in Frame /\ Elems(todo) = {f} \cup Elems(Tail(todo))
        /\ Sorted(Tail(todo)) /\ \A g \in Elems(Tail(todo)) : Before(f, g)
    BY <1>1, TailElems DEF PushNext, FullType, SendOK, PlacesInOrder
  <2>2. todo' = Tail(todo)
    BY DEF PushNext
  <2> HIDE DEF f
  <2>3. QED
    BY <2>1, <2>2 DEF Elems, Sorted
<1>3. UNCHANGED <<Elems(host), Held, Flying, Sorted(host), in_flight>>
  BY DEF PushNext, requestVars, Elems, Held, Flying, Sorted
<1>4. Push(f)
  BY DEF PushNext
<1> HIDE DEF f
<1>5. \A g \in Elems(tx_packets) : Before(g, f)
  BY <1>1, <1>2 DEF PlacesInOrder, Below
<1>6. /\ Elems(tx_packets)' \subseteq Elems(tx_packets) \cup {f}
      /\ Sorted(tx_packets)'
  <2>1. CASE tx_packets' = tx_packets
    BY <1>1, <2>1 DEF Elems, Sorted, PlacesInOrder
  <2>2. CASE tx_packets' # tx_packets
    BY <1>1, <1>2, <1>4, <1>5, <2>2, PushPlaces DEF FullType, PlacesInOrder
  <2>3. QED
    BY <2>1, <2>2
<1>7. OneHand'
  <2>1. PICK step \in {"kick", "push"} : Goto("sender", step)
    BY DEF PushNext
  <2>2. QED
    BY <1>1, <2>1, HoldingStep DEF Kickers, Steps, Holding, PlacesInOrder
<1>8. Fills' = Fills
  BY DEF PushNext, Goto, Fills, FullType, StepOK
<1>9. QED
  BY <1>1, <1>2, <1>3, <1>5, <1>6, <1>7, <1>8 DEF PlacesInOrder, Below

LEMMA KickPopOrder ==
  ASSUME FullType, OrderInv, NEW k \in Kickers, KickPop(k) PROVE OrderInv'
<1> SUFFICES ASSUME ~contended' PROVE PlacesInOrder'
  BY DEF OrderInv
<1> DEFINE f == Head(tx_packets)
<1>1. PlacesInOrder /\ \A j \in Kickers : pc[j] \notin Holding
  BY DEF OrderInv, KickPop
<1>2. /\ f \in Frame /\ Elems(tx_packets) = {f} \cup Elems(tx_packets)'
      /\ Sorted(tx_packets)' /\ \A g \in Elems(tx_packets)' : Before(f, g)
  <2>1. /\ f \in Frame
        /\ Elems(tx_packets) = {f} \cup Elems(Tail(tx_packets))
        /\ Sorted(Tail(tx_packets))
        /\ \A g \in Elems(Tail(tx_packets)) : Before(f, g)
    BY <1>1, TailElems DEF KickPop, FullType, QueueOK, PlacesInOrder
  <2>2. tx_packets' = Tail(tx_packets)
    BY DEF KickPop
  <2> HIDE DEF f
  <2>3. QED
    BY <2>1, <2>2 DEF Elems, Sorted
<1>3. UNCHANGED <<Elems(host), Elems(todo), Flying, Sorted(host),
                  Sorted(todo), in_flight>>
  BY DEF KickPop, requestVars, sendVars, Elems, Flying, Sorted
<1>4. /\ hand' = [hand EXCEPT ![k] = f]
      /\ \A j \in Kickers : hand[j] = None
  BY <1>1 DEF KickPop, FullType, HandOK, Holding
<1> HIDE DEF f
<1>5. Held = {} /\ Held' = {f}
  <2>1. Held = {}
    BY <1>4 DEF Held
  <2>2. Held' = Held \cup {f}
    BY <1>2, <1>4, HandTakes DEF FullType
  <2>3. QED
    BY <2>1, <2>2
<1>6. OneHand'
  BY <1>1, HoldingStep DEF KickPop, Steps, Holding, PlacesInOrder
<1>7. Fills' = Fills
  BY DEF KickPop, Goto, Fills, FullType, StepOK
<1>8. QED
  BY <1>1, <1>2, <1>3, <1>5, <1>6, <1>7 DEF PlacesInOrder, Below

LEMMA KickRequeueOrder ==
  ASSUME FullType, FrameInv, OrderInv, NEW k \in Kickers, KickRequeue(k)
  PROVE  OrderInv'
<1> SUFFICES ASSUME ~contended' PROVE PlacesInOrder'
  BY DEF OrderInv
<1> DEFINE f == hand[k]
<1>1. PlacesInOrder /\ tx_packets = <<>>
  BY DEF OrderInv, KickRequeue
<1>2. hand[k] # None /\ hand' = [hand EXCEPT ![k] = None] /\ Push(f)
  BY DEF KickRequeue, FullType, HandOK
<1>3. f \in Frame /\ f \in Held /\ Held' = Held \ {f}
  BY <1>2, HandGives DEF FullType, FrameInv, OnceInv
<1>4. OneHand' /\ Held = {f} /\ Fills = {} /\ Fills' = {}
  <2>1. pc[k] = "requeue" /\ Goto(k, "idle")
    BY DEF KickRequeue
  <2>2. OneHand'
    BY <1>1, <2>1, HoldingStep DEF Steps, Holding, PlacesInOrder
  <2>3. Held = {f} /\ Fills = {}
    BY <1>1, <1>2, <1>3, <2>1 DEF PlacesInOrder, OneHand, Held, FullType,
       HandOK, Fills, Holding
  <2>4. Fills' = {}
    BY <2>1, <2>3 DEF Goto, Fills, FullType, StepOK
  <2>5. QED
    BY <2>2, <2>3, <2>4
<1>5. UNCHANGED <<Elems(host), Elems(todo), Flying, Sorted(host),
                  Sorted(todo)>>
  BY DEF KickRequeue, requestVars, sendVars, Elems, Flying, Sorted
<1> HIDE DEF f
<1>6. Elems(tx_packets) = {} /\ Sorted(tx_packets)
  BY <1>1, NoElems
<1>7. Elems(tx_packets)' \subseteq {f} /\ Sorted(tx_packets)'
  <2>1. CASE tx_packets' = tx_packets
    BY <1>6, <2>1 DEF Elems, Sorted
  <2>2. CASE tx_packets' # tx_packets
    BY <1>2, <1>3, <1>6, <2>2, PushPlaces DEF FullType
  <2>3. QED
    BY <2>1, <2>2
<1>8. QED
  BY <1>1, <1>3, <1>4, <1>5, <1>7 DEF PlacesInOrder, Below

LEMMA KickFillOrder ==
  ASSUME FullType, BufferInv, FrameInv, OrderInv, NEW k \in Kickers, KickFill(k)
  PROVE  OrderInv'
<1> SUFFICES ASSUME ~contended' PROVE PlacesInOrder'
  BY DEF OrderInv
<1> DEFINE f == hand[k]
<1>1. ~in_flight /\ OtherFills(k) = {} /\ contended' = contended
  BY DEF KickFill
<1>2. PlacesInOrder
  BY <1>1 DEF OrderInv
<1>3. hand[k] # None /\ hand' = [hand EXCEPT ![k] = None]
  BY DEF KickFill, FullType, HandOK
<1>4. f \in Frame /\ f \in Held /\ Held' = Held \ {f}
  BY <1>3, HandGives DEF FullType, FrameInv, OnceInv
<1>5. OneHand' /\ Held = {f}
  <2>1. pc[k] = "claimed" /\ Goto(k, "filled")
    BY DEF KickFill
  <2>2. OneHand'
    BY <1>2, <2>1, HoldingStep DEF Steps, Holding, PlacesInOrder
  <2>3. Held = {f}
    BY <1>2, <1>3, <1>4, <2>1 DEF PlacesInOrder, OneHand, Held, FullType,
       HandOK, Holding
  <2>4. QED
    BY <2>2, <2>3
<1>6. Flying' = {f} /\ ~in_flight'
  BY <1>1, <1>3 DEF KickFill, Flying
<1>7. UNCHANGED <<Elems(host), Elems(todo), Elems(tx_packets), Sorted(host),
                  Sorted(todo), Sorted(tx_packets)>>
  BY DEF KickFill, sendVars, Elems, Sorted
<1> HIDE DEF f
<1>8. QED
  BY <1>2, <1>4, <1>5, <1>6, <1>7 DEF PlacesInOrder, Below

LEMMA KickLeavesOrder ==
  ASSUME FullType, OrderInv, NEW k \in Kickers,
         \/ KickLook(k) \/ KickNothing(k) \/ KickClaim(k) \/ KickQueue(k)
         \/ KickQueueFails(k) \/ KickOops(k)
  PROVE  OrderInv'
<1>1. UNCHANGED <<tx_packets, hand, host, todo, contended>>
  BY DEF KickLook, KickNothing, KickClaim, KickQueue, KickQueueFails, KickOops,
     sendVars, pastVars
<1>2. Flying' \subseteq Flying
  BY DEF KickLook, KickNothing, KickClaim, KickQueue, KickQueueFails, KickOops,
     requestVars, KeepIf, Flying
<1>3. PICK step \in Steps \ {"filled"} :
        /\ Goto(k, step)
        /\ pc[k] \in Holding \/ step \notin Holding
  BY DEF KickLook, KickNothing, KickClaim, KickQueue, KickQueueFails, KickOops,
     Steps, Holding
<1>4. OneHand => OneHand'
  BY <1>3, HoldingStep
<1>5. Fills' \subseteq Fills \ {k}
  BY <1>3 DEF Goto, Fills, FullType, StepOK
<1>6. CASE KickQueue(k)
  <2>1. pc[k] = "filled"
    BY <1>6 DEF KickQueue
  <2>2. OneHand => Fills \ {k} = {}
    BY <2>1 DEF OneHand, Fills, Holding
  <2>3. QED
    BY <1>1, <1>2, <1>4, <1>5, <2>2, OrderStays
<1>7. CASE ~KickQueue(k)
  <2>1. in_flight' = in_flight
    BY <1>7 DEF KickLook, KickNothing, KickClaim, KickQueueFails, KickOops,
       requestVars
  <2>2. QED
    BY <1>1, <1>2, <1>4, <1>5, <2>1, OrderStays
<1>8. QED
  BY <1>6, <1>7

LEMMA DeliverOrder ==
  ASSUME FullType, OrderInv, Deliver PROVE OrderInv'
<1> SUFFICES ASSUME ~contended' PROVE PlacesInOrder'
  BY DEF OrderInv
<1>1. PlacesInOrder
  BY DEF OrderInv, Deliver, pastVars
<1>2. Fills = {} /\ buffer' = None /\ ~in_flight'
  BY <1>1 DEF Deliver, PlacesInOrder, KeepIf
<1>3. Flying' = {}
  BY <1>2 DEF Flying
<1>4. UNCHANGED <<Elems(tx_packets), Elems(todo), Held, Sorted(tx_packets),
                  Sorted(todo)>>
  BY DEF Deliver, sendVars, Elems, Held, Sorted
<1>5. OneHand'
  BY <1>1, HoldingStep DEF Deliver, Kickers, Steps, Holding, PlacesInOrder
<1>6. CASE buffer = None
  <2>1. UNCHANGED <<Elems(host), Sorted(host)>>
    BY <1>6 DEF Deliver, Elems, Sorted
  <2>2. QED
    BY <1>1, <1>2, <1>3, <1>4, <1>5, <2>1 DEF PlacesInOrder, Below
<1>7. CASE buffer # None
  <2> DEFINE f == buffer
             h == Append(host, f)
  <2>1. f \in Frame /\ host \in Seq(Frame) /\ Flying = {f}
    BY <1>7 DEF FullType, HandOK, PastOK, Flying
  <2>2. \A g \in Elems(host) : Before(g, f)
    BY <1>1, <2>1 DEF PlacesInOrder, Below
  <2>3. Elems(h) = Elems(host) \cup {f} /\ Sorted(h)
    BY <1>1, <2>1, <2>2, AppendElems DEF PlacesInOrder
  <2>4. host' = h
    BY <1>7 DEF Deliver
  <2> HIDE DEF h
  <2>5. Elems(host)' = Elems(host) \cup {f} /\ Sorted(host)'
    BY <2>3, <2>4 DEF Elems, Sorted
  <2> HIDE DEF f
  <2>6. QED
    BY <1>1, <1>2, <1>3, <1>4, <1>5, <2>1, <2>5 DEF PlacesInOrder, Below
<1>8. QED
  BY <1>6, <1>7

\* Unplugging and enumerating only take frames away.
LEMMA SessionOrder ==
  ASSUME FullType, BufferInv, OrderInv, Disable \/ SetAlt PROVE OrderInv'
<1>1. UNCHANGED <<Elems(todo), Held, Sorted(todo), contended>>
  BY DEF Disable, SetAlt, sendVars, pastVars, kickVars, Elems, Held, Sorted
<1>2. OneHand => OneHand'
  <2>1. CASE Disable
    BY <2>1 DEF Disable, kickVars, OneHand
  <2>2. CASE SetAlt
    BY <2>2, HoldingStep DEF SetAlt, Kickers, Steps, Holding
  <2>3. QED
    BY <2>1, <2>2
<1>3. ~in_flight'
  BY DEF Disable, SetAlt, BufferInv, FullType, HandOK
<1>4. /\ Elems(tx_packets)' \subseteq Elems(tx_packets)
      /\ Elems(host)' \subseteq Elems(host)
      /\ Sorted(tx_packets) => Sorted(tx_packets)'
      /\ Sorted(host) => Sorted(host)'
  BY NoElems DEF Disable, SetAlt, Elems, Sorted
<1>5. Flying' \subseteq Flying
  BY DEF Disable, SetAlt, KeepIf, Flying
<1>6. QED
  BY <1>1, <1>2, <1>3, <1>4, <1>5 DEF OrderInv, PlacesInOrder, Below

LEMMA OrderStep ==
  FullType /\ BufferInv /\ FrameInv /\ OrderInv /\ [Next]_vars => OrderInv'
<1> SUFFICES ASSUME FullType, BufferInv, FrameInv, OrderInv, [Next]_vars
             PROVE  OrderInv'
  OBVIOUS
<1>1. ASSUME NEW k \in Kickers, Kick(k) PROVE OrderInv'
  BY <1>1, KickPopOrder, KickRequeueOrder, KickFillOrder, KickLeavesOrder
     DEF Kick
<1>2. CASE TxComplete
  <2>1. UNCHANGED <<tx_packets, hand, host, todo, contended, in_flight, Flying>>
    BY <1>2 DEF TxComplete, sendVars, pastVars, Flying
  <2>2. OneHand => OneHand'
    BY <1>2, HoldingStep DEF TxComplete, Kickers, Steps, Holding
  <2>3. Fills' = Fills
    BY <1>2 DEF TxComplete, Goto, Fills, FullType, StepOK
  <2>4. QED
    BY <2>1, <2>2, <2>3, OrderStays
<1>3. CASE UNCHANGED vars
  <2>1. UNCHANGED <<tx_packets, hand, host, todo, contended, in_flight, Flying,
                    OneHand, Fills>>
    BY <1>3 DEF vars, requestVars, kickVars, sendVars, pastVars, Flying,
       OneHand, Fills
  <2>2. QED
    BY <2>1, OrderStays
<1>4. CASE Keepalive
  <2>1. Start(1) /\ 1 \in Nat \ {0}
    BY <1>4 DEF Keepalive
  <2>2. QED
    BY <2>1, StartOrder
<1>5. ASSUME NEW len \in ReplyLens, SendReply(len) PROVE OrderInv'
  <2>1. Start(len) /\ len \in Nat \ {0}
    BY <1>5, UsbInAssumption DEF SendReply
  <2>2. QED
    BY <2>1, StartOrder
<1>6. QED
  BY <1>1, <1>2, <1>3, <1>4, <1>5, ReceiveOrder, PushNextOrder, MiscWriteOrder,
     DeliverOrder, SessionOrder DEF Next

\* What is queued has somebody to send it: the completion of the transfer that
\* tx_pending stands for, or a kick that has still to look at tx_pending.
SenderInv ==
  ~contended /\ ~refused /\ online /\ tx_packets # <<>> =>
    \/ tx_pending
    \/ \E k \in Kickers : pc[k] \in {"push", "kick", "looked", "popped"}

LEMMA SenderStep == FullType /\ SenderInv /\ [Next]_vars => SenderInv'
<1> SUFFICES ASSUME FullType, SenderInv, [Next]_vars PROVE SenderInv'
  OBVIOUS
<1> USE NoneIsNoFrame
    DEF FullType, HandOK, StepOK, FlagsOK, requestVars, kickVars, sendVars,
        pastVars, Goto, Kickers, Holding, Steps, SenderInv
<1>1. CASE Receive
  BY <1>1 DEF Receive
<1>2. ASSUME NEW len, Start(len) PROVE SenderInv'
  BY <1>2 DEF Start
<1>3. CASE PushNext
  BY <1>3 DEF PushNext
<1>4. ASSUME NEW k \in Kickers, KickLook(k) \/ KickNothing(k) PROVE SenderInv'
  <2>1. CASE KickLook(k)
    BY <2>1 DEF KickLook
  <2>2. CASE KickNothing(k)
    BY <2>2 DEF KickNothing
  <2>3. QED
    BY <1>4, <2>1, <2>2
<1>5. ASSUME NEW k \in Kickers, KickPop(k) PROVE SenderInv'
  BY <1>5 DEF KickPop
<1>6. ASSUME NEW k \in Kickers, KickClaim(k) PROVE SenderInv'
  BY <1>6 DEF KickClaim
<1>7. ASSUME NEW k \in Kickers, KickRequeue(k) PROVE SenderInv'
  BY <1>7 DEF KickRequeue
<1>8. ASSUME NEW k \in Kickers, KickFill(k) \/ KickQueue(k) PROVE SenderInv'
  <2>1. CASE KickFill(k)
    BY <2>1 DEF KickFill, OtherFills
  <2>2. CASE KickQueue(k)
    BY <2>2 DEF KickQueue
  <2>3. QED
    BY <1>8, <2>1, <2>2
<1>9. ASSUME NEW k \in Kickers, KickQueueFails(k) PROVE SenderInv'
  BY <1>9 DEF KickQueueFails
<1>10. ASSUME NEW k \in Kickers, KickOops(k) PROVE SenderInv'
  BY <1>10 DEF KickOops
<1>11. CASE Deliver
  BY <1>11 DEF Deliver
<1>12. CASE TxComplete
  BY <1>12 DEF TxComplete
<1>13. CASE Disable
  BY <1>13 DEF Disable
<1>14. CASE SetAlt
  BY <1>14 DEF SetAlt, SendOK
<1>15. CASE UNCHANGED vars
  BY <1>15 DEF vars
<1>16. CASE MiscWrite
  BY <1>16 DEF MiscWrite
<1>17. QED
  BY <1>1, <1>2, <1>3, <1>4, <1>5, <1>6, <1>7, <1>8, <1>9, <1>10, <1>11,
     <1>12, <1>13, <1>14, <1>15, <1>16 DEF Next, Kick, Keepalive, SendReply

\* As long as no two kicks contend, the host gets the frames of a message in
\* their order, and nothing stays queued with nobody to send it unless the
\* controller has refused a frame (the early return of abk_fido_tx_kick that
\* does not kick again).
THEOREM KicksAreOrderly == Spec => []OrderlyKicks
<1>1. Init => OrderInv /\ SenderInv
  BY NoElems DEF Init, OrderInv, PlacesInOrder, OneHand, Held, Flying, Below,
     SenderInv, Kickers, Holding, Fills
<1>2. Spec => [](OrderInv /\ SenderInv)
  BY <1>1, OrderStep, SenderStep, FrameInvCorrect, BufferInvCorrect,
     FullTypeCorrect, PTL DEF Spec
<1>3. FullType /\ OrderInv /\ SenderInv => OrderlyKicks
  <2> SUFFICES ASSUME FullType, OrderInv, SenderInv, ~contended
               PROVE  InOrder /\ (Forgotten => refused)
    BY DEF OrderlyKicks
  <2>1. InOrder
    <3>1. \A i \in DOMAIN host : host[i] \in Frame
      BY DEF FullType, PastOK
    <3>2. QED
      BY <3>1 DEF OrderInv, PlacesInOrder, Sorted, Before, InOrder
  <2>2. Forgotten => refused
    BY DEF SenderInv, Forgotten
  <2>3. QED
    BY <2>1, <2>2
<1>4. QED
  BY <1>2, <1>3, FullTypeCorrect, PTL
=============================================================================
