------------------------- MODULE DesktopAgentProofs -------------------------
(***************************************************************************)
(* Proofs about DesktopAgent: the driver's ring, reads and replies, and    *)
(* the way of a report through driver, hub and relay, for any HID stacks,  *)
(* sizes of the queues, devices, sessions and starts of the agent.         *)
(***************************************************************************)
EXTENDS DesktopAgent, TLAPS

-----------------------------------------------------------------------------
(* The inductive invariant.                                                *)

\* What plug and play has done to the VHF handle and its flag.
PnpInv ==
  /\ vhf = CASE dev \in {"absent", "deleted"} -> "none"
             [] dev \in {"added", "failed"} -> "created"
             [] OTHER -> "started"
  /\ VhfStarted <=> dev = "up"
  /\ dev = "absent" => Ring = <<>>

\* A completed read has a report, and so has a reader on its way to the hub;
\* a write has a reply.
HandInv ==
  /\ read.at = "done" <=> read.frame \in Frames
  /\ reader.at \in {"got", "push"} <=> reader.packet \in Frames
  /\ write # NoWrite => write.reply \in Frames
  /\ NoMissedReport

\* A process that does not run holds nothing.
OffInv ==
  /\ ~agent => /\ relay = "down" /\ reader = Idle /\ read = NoRead
               /\ pending = <<>> /\ write = NoWrite
  /\ handle <= devices

\* The hub and the relay agree on the session: while one is subscribed no
\* packet is kept for later.
RelayInv ==
  /\ relay # "down" => session # 0
  /\ write # NoWrite => relay = "open"
  /\ active # 0 => active = session /\ relay \in {"moving", "open", "failed"}
  /\ relay = "open" => active = session
  /\ relay = "moving" => active = session \/ reader.at = "stopped"
  /\ relay \in {"moving", "open"} => pending = <<>>
  /\ active # 0 => pending = <<>>
  /\ relay # "moving" => moving = <<>>
  /\ relay \in {"down", "hello"} => packets = <<>>
  /\ relay \in {"down", "hello", "moving"} =>
       toPhone = <<>> /\ fromPhone = <<>> /\ phoneGot = <<>>

\* Whoever holds a report of the device it has open knows its shape.
HoldsOne ==
  \/ read.frame # None \/ reader.packet # None \/ pending # <<>>
  \/ moving # <<>> \/ packets # <<>> \/ toPhone # <<>> \/ fromPhone # <<>>
ShapeInv ==
  /\ ReportIdSeen => ReportIdLeads = build.out
  /\ Ring # <<>> => ReportIdSeen
  /\ handleOk /\ HoldsOne => ReportIdSeen
  /\ write # NoWrite /\ write.auto => write.leads = build.out
  /\ ~misplaced

\* Reply a comes before reply b in q.
After(q, a, b) == \E k, l \in DOMAIN q : k < l /\ q[k] = a /\ q[l] = b
InOrderOf(q, s) == \A i, j \in DOMAIN s : i < j => After(q, s[i], s[j])

\* What a polling host will collect follows what it has.
ReplyInv ==
  /\ InOrderOf(submitted, hostGot)
  /\ ~build.polls => hostGot = submitted
  /\ build.polls =>
       /\ InOrderOf(submitted, Replies)
       /\ \A a \in Elems(hostGot), b \in Elems(Replies) :
            After(submitted, a, b)
       /\ Elems(hostGot) \cup Elems(Replies) \subseteq Elems(submitted)

\* Where a report can be, from the newest to the oldest as far as the phone,
\* and then for good.
Places == [k \in 1..10 |->
  CASE k = 1 -> Elems(Ring)              [] k = 2 -> {read.frame} \ {None}
    [] k = 3 -> {reader.packet} \ {None} [] k = 4 -> Elems(pending)
    [] k = 5 -> Elems(moving)            [] k = 6 -> Elems(packets)
    [] k = 7 -> Elems(toPhone)           [] k = 8 -> atPhone
    [] k = 9 -> lost                     [] k = 10 -> overrun]
Conserved(p, n) ==
  /\ \A f \in 1..n : \E i \in 1..10 : f \in p[i]
  /\ \A i, j \in 1..10 : i < j => p[i] \cap p[j] = {}
  /\ \A i \in 1..10 : p[i] \subseteq 1..n

Increasing(s) == \A i, j \in DOMAIN s : i < j => s[i] < s[j]
Distinct(s) == \A i, j \in DOMAIN s : i # j => s[i] # s[j]

\* No queue holds a report twice.
OnceInv ==
  /\ Increasing(Ring) /\ Increasing(pending) /\ Increasing(moving)
  /\ Distinct(packets) /\ Distinct(toPhone)

\* The line of reports on their way to the phone of this session.
Line == [k \in 1..10 |-> IF k = 8 THEN Elems(phoneGot) ELSE Places[k]]
Falling(p, n) ==
  \A i, j \in 1..n : i < j => \A a \in p[i], b \in p[j] : b < a

LineInv ==
  /\ Falling(Line, 4)
  /\ Elems(phoneGot) \subseteq atPhone
  /\ ~overtaken => /\ Falling(Line, 8)
                   /\ Increasing(packets) /\ Increasing(toPhone)
                   /\ Increasing(phoneGot)

-----------------------------------------------------------------------------
(* Sequences.                                                              *)

LEMMA EmptyElems == Elems(<<>>) = {}
BY DEF Elems

LEMMA AppendElems ==
  ASSUME NEW S, NEW s \in Seq(S), NEW x \in S
  PROVE  /\ Append(s, x) \in Seq(S)
         /\ Elems(Append(s, x)) = Elems(s) \cup {x}
         /\ Append(s, x) # <<>>
<1>1. /\ Append(s, x) \in Seq(S) /\ Len(Append(s, x)) = Len(s) + 1
      /\ \A i \in 1..Len(s) : Append(s, x)[i] = s[i]
      /\ Append(s, x)[Len(s) + 1] = x
  OBVIOUS
<1>2. /\ DOMAIN s = 1..Len(s) /\ DOMAIN Append(s, x) = 1..(Len(s) + 1)
      /\ Len(s) \in Nat
  BY <1>1
<1>3. Elems(Append(s, x)) \subseteq Elems(s) \cup {x}
  BY <1>1, <1>2 DEF Elems
<1>4. Elems(s) \cup {x} \subseteq Elems(Append(s, x))
  BY <1>1, <1>2 DEF Elems
<1>5. QED
  BY <1>1, <1>3, <1>4

\* Taking the head of a sequence that holds nothing twice.
LEMMA TailElems ==
  ASSUME NEW S, NEW s \in Seq(S), s # <<>>
  PROVE  /\ Head(s) \in S /\ Tail(s) \in Seq(S) /\ Head(s) \in Elems(s)
         /\ Len(Tail(s)) = Len(s) - 1
         /\ Elems(Tail(s)) \subseteq Elems(s)
         /\ Distinct(s) => /\ Elems(Tail(s)) = Elems(s) \ {Head(s)}
                           /\ Distinct(Tail(s))
<1>1. /\ Len(s) \in Nat \ {0} /\ Tail(s) \in Seq(S)
      /\ Len(Tail(s)) = Len(s) - 1
      /\ \A i \in 1..(Len(s) - 1) : Tail(s)[i] = s[i + 1]
      /\ Head(s) = s[1] /\ DOMAIN s = 1..Len(s)
      /\ DOMAIN Tail(s) = 1..(Len(s) - 1)
  OBVIOUS
<1>2. Head(s) \in Elems(s) /\ Head(s) \in S
  BY <1>1 DEF Elems
<1>3. Elems(Tail(s)) \subseteq Elems(s)
  BY <1>1 DEF Elems
<1>4. ASSUME Distinct(s)
      PROVE  Elems(Tail(s)) = Elems(s) \ {Head(s)} /\ Distinct(Tail(s))
  <2>1. Elems(s) \ {Head(s)} \subseteq Elems(Tail(s))
    <3> SUFFICES ASSUME NEW i \in DOMAIN s, s[i] # Head(s)
                 PROVE  s[i] \in Elems(Tail(s))
      BY DEF Elems
    <3>1. i - 1 \in DOMAIN Tail(s) /\ Tail(s)[i - 1] = s[i]
      BY <1>1
    <3>2. QED
      BY <3>1 DEF Elems
  <2>2. Head(s) \notin Elems(Tail(s))
    BY <1>1, <1>4 DEF Elems, Distinct
  <2>3. Distinct(Tail(s))
    BY <1>1, <1>4 DEF Distinct
  <2>4. QED
    BY <1>3, <2>1, <2>2, <2>3
<1>5. QED
  BY <1>1, <1>2, <1>3, <1>4

\* A new member at the end of a sequence that does not have it yet.
LEMMA AppendDistinct ==
  ASSUME NEW S, NEW s \in Seq(S), NEW x \in S, Distinct(s), x \notin Elems(s)
  PROVE  Distinct(Append(s, x))
BY DEF Distinct, Elems

LEMMA AppendIncreasing ==
  ASSUME NEW s \in Seq(Frames), NEW x \in Frames, Increasing(s),
         \A a \in Elems(s) : a < x
  PROVE  Increasing(Append(s, x))
<1>1. \A i \in DOMAIN s : s[i] < x
  BY DEF Elems
<1>2. QED
  BY <1>1 DEF Increasing

LEMMA TailIncreasing ==
  ASSUME NEW s \in Seq(Frames), s # <<>>, Increasing(s)
  PROVE  /\ Increasing(Tail(s)) /\ Distinct(s)
         /\ \A a \in Elems(Tail(s)) : Head(s) < a
<1>1. /\ Len(s) \in Nat \ {0} /\ Tail(s) \in Seq(Frames)
      /\ \A i \in 1..(Len(s) - 1) : Tail(s)[i] = s[i + 1]
      /\ Head(s) = s[1] /\ DOMAIN s = 1..Len(s)
      /\ DOMAIN Tail(s) = 1..(Len(s) - 1)
      /\ \A i \in DOMAIN s : s[i] \in Nat
  BY VhidAssumption DEF Frames
<1>2. QED
  BY <1>1 DEF Increasing, Distinct, Elems

LEMMA EmptySequence ==
  /\ Increasing(<<>>) /\ Distinct(<<>>) /\ Elems(<<>>) = {}
BY DEF Increasing, Distinct, Elems

-----------------------------------------------------------------------------
(* Places and lines.                                                       *)

\* Something goes from one place to another.
Moved(p, q, i, j, S) ==
  /\ i \in 1..10 /\ j \in 1..10 /\ i # j /\ S \subseteq p[i]
  /\ \A k \in 1..10 : q[k] = IF k = i THEN p[k] \ S
                             ELSE IF k = j THEN p[k] \cup S ELSE p[k]
LEMMA Move ==
  ASSUME NEW p, NEW q, NEW n \in Nat, Conserved(p, n),
         NEW i, NEW j, NEW S, Moved(p, q, i, j, S)
  PROVE  Conserved(q, n)
<1>0. /\ i \in 1..10 /\ j \in 1..10 /\ i # j /\ S \subseteq p[i]
      /\ \A k \in 1..10 : q[k] = IF k = i THEN p[k] \ S
                                 ELSE IF k = j THEN p[k] \cup S ELSE p[k]
  BY DEF Moved
<1>1. ASSUME NEW f \in 1..n PROVE \E k \in 1..10 : f \in q[k]
  BY <1>0 DEF Conserved
<1>2. ASSUME NEW k \in 1..10, NEW l \in 1..10, k < l, NEW f \in q[k],
             f \in q[l]
      PROVE  FALSE
  <2>1. \A x, y \in 1..10 : f \in p[x] /\ f \in p[y] => x = y
    BY DEF Conserved
  <2>2. QED
    BY <1>0, <1>2, <2>1
<1>3. ASSUME NEW k \in 1..10 PROVE q[k] \subseteq 1..n
  BY <1>0 DEF Conserved
<1>4. QED
  BY <1>1, <1>2, <1>3 DEF Conserved

\* Several places are emptied into one.
Gathered(p, q, I, j) ==
  /\ I \subseteq 1..10 /\ j \in (1..10) \ I
  /\ \A k \in 1..10 :
       q[k] = IF k \in I THEN {}
              ELSE IF k = j THEN p[k] \cup UNION {p[i] : i \in I}
              ELSE p[k]
LEMMA Gather ==
  ASSUME NEW p, NEW q, NEW n \in Nat, Conserved(p, n),
         NEW I, NEW j, Gathered(p, q, I, j)
  PROVE  Conserved(q, n)
<1>0. /\ I \subseteq 1..10 /\ j \in (1..10) \ I
      /\ \A k \in 1..10 :
           q[k] = IF k \in I THEN {}
                  ELSE IF k = j THEN p[k] \cup UNION {p[i] : i \in I}
                  ELSE p[k]
  BY DEF Gathered
<1>1. ASSUME NEW f \in 1..n PROVE \E k \in 1..10 : f \in q[k]
  <2>1. PICK k \in 1..10 : f \in p[k]
    BY DEF Conserved
  <2>2. k \in I => f \in q[j]
    BY <1>0, <2>1
  <2>3. k \notin I => f \in q[k]
    BY <1>0, <2>1
  <2>4. QED
    BY <1>0, <2>2, <2>3
<1>2. ASSUME NEW k \in 1..10, NEW l \in 1..10, k < l, NEW f \in q[k],
             f \in q[l]
      PROVE  FALSE
  <2>1. \A x, y \in 1..10 : f \in p[x] /\ f \in p[y] => x = y
    BY DEF Conserved
  <2>2. k \notin I /\ l \notin I
    BY <1>0, <1>2
  <2>3. PICK x \in 1..10 : f \in p[x] /\ (x = k \/ (k = j /\ x \in I))
    BY <1>0, <2>2
  <2>4. PICK y \in 1..10 : f \in p[y] /\ (y = l \/ (l = j /\ y \in I))
    BY <1>0, <1>2, <2>2
  <2>5. QED
    BY <1>0, <1>2, <2>1, <2>2, <2>3, <2>4
<1>3. ASSUME NEW k \in 1..10 PROVE q[k] \subseteq 1..n
  BY <1>0 DEF Conserved
<1>4. QED
  BY <1>1, <1>2, <1>3 DEF Conserved

\* Something new comes to one place.
Arrived(p, q, j, f) ==
  /\ j \in 1..10
  /\ \A k \in 1..10 : q[k] = IF k = j THEN p[k] \cup {f} ELSE p[k]
LEMMA Arrive ==
  ASSUME NEW p, NEW q, NEW n \in Nat, Conserved(p, n),
         NEW j, Arrived(p, q, j, n + 1)
  PROVE  Conserved(q, n + 1)
<1>0. /\ j \in 1..10
      /\ \A k \in 1..10 : q[k] = IF k = j THEN p[k] \cup {n + 1} ELSE p[k]
  BY DEF Arrived
<1>1. ASSUME NEW f \in 1..(n + 1) PROVE \E k \in 1..10 : f \in q[k]
  <2>1. CASE f = n + 1
    BY <1>0, <2>1
  <2>2. CASE f \in 1..n
    BY <1>0, <2>2 DEF Conserved
  <2>3. QED
    BY <2>1, <2>2
<1>2. ASSUME NEW k \in 1..10, NEW l \in 1..10, k < l
      PROVE  q[k] \cap q[l] = {}
  <2>1. n + 1 \notin p[k] /\ n + 1 \notin p[l] /\ p[k] \cap p[l] = {}
    BY <1>2 DEF Conserved
  <2>2. QED
    BY <1>0, <1>2, <2>1
<1>3. ASSUME NEW k \in 1..10 PROVE q[k] \subseteq 1..(n + 1)
  BY <1>0 DEF Conserved
<1>4. QED
  BY <1>1, <1>2, <1>3 DEF Conserved

\* Something goes down the line: what is oldest, past nothing.
Passes(p, n, i, j, S) ==
  j \in 1..n => /\ i < j
                /\ \A a \in S, b \in p[i] \ S : a < b
                /\ \A k \in 1..n : i < k /\ k < j => p[k] = {}

LEMMA LineMove ==
  ASSUME NEW p, NEW q, NEW n \in 1..10, Falling(p, n),
         \A k \in 1..n : p[k] \subseteq Nat,
         NEW i, NEW j, NEW S, Moved(p, q, i, j, S), Passes(p, n, i, j, S)
  PROVE  Falling(q, n)
<1>0. /\ i \in 1..10 /\ j \in 1..10 /\ i # j /\ S \subseteq p[i]
      /\ \A k \in 1..n : q[k] = IF k = i THEN p[k] \ S
                                ELSE IF k = j THEN p[k] \cup S ELSE p[k]
  <2>1. \A k \in 1..n : k \in 1..10
    OBVIOUS
  <2>2. QED
    BY <2>1 DEF Moved
<1> SUFFICES ASSUME NEW k \in 1..n, NEW l \in 1..n, k < l,
                    NEW a \in q[k], NEW b \in q[l]
             PROVE  b < a
  BY DEF Falling
<1>1. CASE a \in p[k] /\ b \in p[l]
  BY <1>1 DEF Falling
<1>2. CASE a \notin p[k]
  <2>1. q[k] = IF k = i THEN p[k] \ S ELSE IF k = j THEN p[k] \cup S ELSE p[k]
    BY <1>0
  <2>2. k = j /\ a \in S /\ k # i
    BY <1>2, <2>1
  <2>3. i \in 1..n /\ a \in p[i] /\ l # i /\ l # j /\ i < l
    BY <1>0, <2>2 DEF Passes
  <2>4. b \in p[l]
    BY <1>0, <2>3
  <2>5. QED
    BY <2>3, <2>4 DEF Falling
<1>3. CASE a \in p[k] /\ b \notin p[l]
  <2>0. q[l] = IF l = i THEN p[l] \ S ELSE IF l = j THEN p[l] \cup S ELSE p[l]
    BY <1>0
  <2>1. l = j /\ b \in S /\ b \in p[i] /\ i < j /\ i \in 1..n
    <3>1. l = j /\ b \in S
      BY <1>3, <2>0
    <3>2. QED
      BY <1>0, <3>1 DEF Passes
  <2>2. CASE k = i
    BY <1>0, <2>1, <2>2 DEF Passes
  <2>3. CASE k < i
    BY <1>3, <2>1, <2>3 DEF Falling
  <2>4. CASE k > i
    BY <1>3, <2>1, <2>4 DEF Passes
  <2>5. QED
    BY <1>0, <2>2, <2>3, <2>4
<1>4. QED
  BY <1>1, <1>2, <1>3

\* Something leaves the line.
LEMMA LineDrop ==
  ASSUME NEW p, NEW q, NEW n \in Nat, Falling(p, n),
         \A k \in 1..n : q[k] \subseteq p[k]
  PROVE  Falling(q, n)
BY DEF Falling

\* Something new comes, and nothing is newer.
Newest(p, n, j, m) ==
  \A k \in 1..n : p[k] \subseteq 1..m /\ (k < j => p[k] = {})
LEMMA LineArrive ==
  ASSUME NEW p, NEW q, NEW n \in 1..10, Falling(p, n), NEW m \in Nat,
         NEW j, Arrived(p, q, j, m + 1), Newest(p, n, j, m)
  PROVE  Falling(q, n)
<1> USE DEF Newest
<1> SUFFICES ASSUME NEW k \in 1..n, NEW l \in 1..n, k < l,
                    NEW a \in q[k], NEW b \in q[l]
             PROVE  b < a
  BY DEF Falling
<1>0. /\ q[k] = IF k = j THEN p[k] \cup {m + 1} ELSE p[k]
      /\ q[l] = IF l = j THEN p[l] \cup {m + 1} ELSE p[l]
  <2>1. k \in 1..10 /\ l \in 1..10
    OBVIOUS
  <2>2. QED
    BY <2>1 DEF Arrived
<1>1. b \in p[l]
  <2>1. CASE l = j
    <3>1. k # j /\ p[k] = {}
      BY <2>1
    <3>2. QED
      BY <1>0, <3>1
  <2>2. QED
    BY <1>0, <2>1
<1>2. CASE a \in p[k]
  BY <1>1, <1>2 DEF Falling
<1>3. CASE a = m + 1
  BY <1>1, <1>3
<1>4. QED
  BY <1>0, <1>2, <1>3

-----------------------------------------------------------------------------
(* The queues.                                                             *)

QueueInv == Conserved(Places, fromHost) /\ OnceInv /\ LineInv

LEMMA PlacesMove ==
  ASSUME fromHost \in Nat, Conserved(Places, fromHost), fromHost' = fromHost,
         NEW i, NEW j, NEW S, Moved(Places, Places', i, j, S)
  PROVE  Conserved(Places, fromHost)'
<1>1. PICK p : p = Places
  OBVIOUS
<1>2. PICK q : q = Places'
  OBVIOUS
<1>3. Conserved(p, fromHost) /\ Moved(p, q, i, j, S)
  BY <1>1, <1>2
<1>4. Conserved(q, fromHost)
  BY <1>3, Move
<1>5. QED
  BY <1>2, <1>4

LEMMA LineSmall ==
  ASSUME fromHost \in Nat, Conserved(Places, fromHost),
         Elems(phoneGot) \subseteq atPhone
  PROVE  \A k \in 1..10 : Line[k] \subseteq 1..fromHost /\ Line[k] \subseteq Nat
<1>1. PICK p : p = Places
  OBVIOUS
<1>2. p[8] = atPhone
  BY <1>1 DEF Places
<1>3. \A k \in 1..10 : p[k] \subseteq 1..fromHost
  BY <1>1 DEF Conserved
<1>4. \A k \in 1..10 : Line[k] = IF k = 8 THEN Elems(phoneGot) ELSE p[k]
  BY <1>1 DEF Line
<1>5. 1..fromHost \subseteq Nat
  OBVIOUS
<1>6. QED
  BY <1>2, <1>3, <1>4, <1>5

LEMMA LineMoves ==
  ASSUME fromHost \in Nat, Conserved(Places, fromHost),
         Elems(phoneGot) \subseteq atPhone,
         NEW n \in 1..10, Falling(Line, n),
         NEW i, NEW j, NEW S, Moved(Line, Line', i, j, S),
         Passes(Line, n, i, j, S)
  PROVE  Falling(Line, n)'
<1>1. PICK p : p = Line
  OBVIOUS
<1>2. PICK q : q = Line'
  OBVIOUS
<1>3. Falling(p, n) /\ Moved(p, q, i, j, S) /\ Passes(p, n, i, j, S)
  BY <1>1, <1>2
<1>4. \A k \in 1..n : p[k] \subseteq Nat
  BY <1>1, LineSmall
<1>5. Falling(q, n)
  BY <1>3, <1>4, LineMove
<1>6. QED
  BY <1>2, <1>5

\* The types that matter here.
QueueTypes ==
  /\ fromHost \in Nat
  /\ Ring \in Seq(Frames) /\ pending \in Seq(Frames) /\ moving \in Seq(Frames)
  /\ packets \in Seq(Frames) /\ toPhone \in Seq(Frames)
  /\ phoneGot \in Seq(Frames)
LEMMA QueueTypesHold == TypeOK => QueueTypes
BY VhidAssumption DEF TypeOK, VhidTypeOK, QueueTypes

LEMMA SendPacketQueues ==
  ASSUME TypeOK, QueueInv, SendPacket PROVE QueueInv'
<1>0. /\ QueueTypes /\ OnceInv /\ LineInv /\ Conserved(Places, fromHost)
      /\ packets # <<>>
  BY QueueTypesHold DEF SendPacket, QueueInv
<1> DEFINE h == Head(packets)
<1>1. /\ h \in Elems(packets) /\ h \in Frames
      /\ Elems(packets') = Elems(packets) \ {h} /\ Distinct(packets')
      /\ Elems(toPhone') = Elems(toPhone) \cup {h}
  BY <1>0, TailElems, AppendElems DEF SendPacket, QueueTypes, OnceInv
<1>2. Increasing(packets) => /\ Increasing(packets')
                             /\ \A b \in Elems(packets) \ {h} : h < b
  BY <1>0, <1>1, TailIncreasing DEF SendPacket, QueueTypes
<1>3. /\ Ring' = Ring /\ read' = read /\ reader' = reader
      /\ pending' = pending /\ moving' = moving /\ phoneGot' = phoneGot
      /\ atPhone' = atPhone /\ lost' = lost /\ overrun' = overrun
      /\ fromHost' = fromHost /\ overtaken' = overtaken
      /\ toPhone' = Append(toPhone, h)
  BY DEF SendPacket, vhidVars, contextVars, hostVars
<1> HIDE DEF h
<1>4. /\ Elems(Ring)' = Elems(Ring) /\ Elems(pending)' = Elems(pending)
      /\ Elems(moving)' = Elems(moving) /\ Elems(phoneGot)' = Elems(phoneGot)
  BY <1>3
<1>5. Moved(Places, Places', 6, 7, {h})
  BY <1>1, <1>3, <1>4 DEF Places, Moved
<1>6. Moved(Line, Line', 6, 7, {h})
  BY <1>1, <1>3, <1>4 DEF Places, Line, Moved
<1>7. Conserved(Places, fromHost)'
  BY <1>0, <1>3, <1>5, PlacesMove DEF QueueTypes
<1>8. OnceInv'
  <2>1. h \notin Elems(toPhone)
    BY <1>0, <1>1 DEF Conserved, Places
  <2>2. QED
    BY <1>0, <1>1, <1>3, <2>1, AppendDistinct DEF OnceInv, QueueTypes
<1>9. Falling(Line, 4)'
  <2>1. Passes(Line, 4, 6, 7, {h})
    BY DEF Passes
  <2>2. QED
    BY <1>0, <1>6, <2>1, LineMoves DEF LineInv, QueueTypes
<1>10. ASSUME ~overtaken
       PROVE  Falling(Line, 8)' /\ Increasing(packets') /\ Increasing(toPhone')
  <2>1. Falling(Line, 8) /\ Increasing(packets) /\ Increasing(toPhone)
    BY <1>0, <1>10 DEF LineInv
  <2>2. Line[6] = Elems(packets) /\ Line[7] = Elems(toPhone)
    BY DEF Line, Places
  <2>3. Passes(Line, 8, 6, 7, {h})
    BY <1>2, <2>1, <2>2 DEF Passes
  <2>4. Falling(Line, 8)'
    BY <1>0, <1>6, <2>1, <2>3, LineMoves DEF LineInv, QueueTypes
  <2>5. \A a \in Elems(toPhone) : a < h
    BY <1>1, <2>1, <2>2 DEF Falling
  <2>6. QED
    BY <1>0, <1>1, <1>2, <1>3, <2>1, <2>4, <2>5, AppendIncreasing
       DEF QueueTypes
<1>11. QED
  BY <1>0, <1>3, <1>4, <1>7, <1>8, <1>9, <1>10 DEF QueueInv, LineInv

LEMMA PhoneTakesQueues ==
  ASSUME TypeOK, QueueInv, PhoneTakes PROVE QueueInv'
<1>0. /\ QueueTypes /\ OnceInv /\ LineInv /\ Conserved(Places, fromHost)
      /\ toPhone # <<>>
  BY QueueTypesHold DEF PhoneTakes, QueueInv
<1> DEFINE h == Head(toPhone)
<1>1. /\ h \in Elems(toPhone) /\ h \in Frames
      /\ Elems(toPhone') = Elems(toPhone) \ {h} /\ Distinct(toPhone')
      /\ Elems(phoneGot') = Elems(phoneGot) \cup {h}
  BY <1>0, TailElems, AppendElems DEF PhoneTakes, QueueTypes, OnceInv
<1>2. Increasing(toPhone) => /\ Increasing(toPhone')
                             /\ \A b \in Elems(toPhone) \ {h} : h < b
  BY <1>0, <1>1, TailIncreasing DEF PhoneTakes, QueueTypes
<1>3. /\ Ring' = Ring /\ read' = read /\ reader' = reader
      /\ pending' = pending /\ moving' = moving /\ packets' = packets
      /\ lost' = lost /\ overrun' = overrun
      /\ fromHost' = fromHost /\ overtaken' = overtaken
      /\ atPhone' = atPhone \cup {h} /\ phoneGot' = Append(phoneGot, h)
  BY DEF PhoneTakes, vhidVars, contextVars, hostVars, hubVars
<1> HIDE DEF h
<1>4. /\ Elems(Ring)' = Elems(Ring) /\ Elems(pending)' = Elems(pending)
      /\ Elems(moving)' = Elems(moving) /\ Elems(packets)' = Elems(packets)
  BY <1>3
<1>5. Moved(Places, Places', 7, 8, {h})
  BY <1>1, <1>3, <1>4 DEF Places, Moved
<1>6. Moved(Line, Line', 7, 8, {h})
  BY <1>1, <1>3, <1>4 DEF Places, Line, Moved
<1>7. Conserved(Places, fromHost)'
  BY <1>0, <1>3, <1>5, PlacesMove DEF QueueTypes
<1>8. OnceInv'
  BY <1>0, <1>1, <1>3 DEF OnceInv
<1>9. Falling(Line, 4)'
  <2>1. Passes(Line, 4, 7, 8, {h})
    BY DEF Passes
  <2>2. QED
    BY <1>0, <1>6, <2>1, LineMoves DEF LineInv, QueueTypes
<1>10. ASSUME ~overtaken
       PROVE  Falling(Line, 8)' /\ Increasing(toPhone') /\ Increasing(phoneGot')
  <2>1. Falling(Line, 8) /\ Increasing(toPhone) /\ Increasing(phoneGot)
    BY <1>0, <1>10 DEF LineInv
  <2>2. Line[7] = Elems(toPhone) /\ Line[8] = Elems(phoneGot)
    BY DEF Line, Places
  <2>3. Passes(Line, 8, 7, 8, {h})
    BY <1>2, <2>1, <2>2 DEF Passes
  <2>4. Falling(Line, 8)'
    BY <1>0, <1>6, <2>1, <2>3, LineMoves DEF LineInv, QueueTypes
  <2>5. \A a \in Elems(phoneGot) : a < h
    BY <1>1, <2>1, <2>2 DEF Falling
  <2>6. QED
    BY <1>0, <1>1, <1>2, <1>3, <2>1, <2>4, <2>5, AppendIncreasing
       DEF QueueTypes
<1>11. Elems(phoneGot') \subseteq atPhone'
  BY <1>0, <1>1, <1>3 DEF LineInv
<1>12. QED
  BY <1>0, <1>3, <1>7, <1>8, <1>9, <1>10, <1>11 DEF QueueInv, LineInv

LEMMA MovePendingQueues ==
  ASSUME TypeOK, QueueInv, MovePending PROVE QueueInv'
<1>0. /\ QueueTypes /\ OnceInv /\ LineInv /\ Conserved(Places, fromHost)
      /\ moving # <<>>
  BY QueueTypesHold DEF MovePending, QueueInv
<1> DEFINE h == Head(moving)
<1>1. Increasing(moving') /\ \A b \in Elems(Tail(moving)) : h < b
  BY <1>0, TailIncreasing DEF MovePending, QueueTypes, OnceInv
<1>2. /\ h \in Elems(moving) /\ h \in Frames
      /\ Elems(moving') = Elems(moving) \ {h}
      /\ Elems(packets') = Elems(packets) \cup {h}
  BY <1>0, TailIncreasing, TailElems, AppendElems
     DEF MovePending, QueueTypes, OnceInv
<1>3. /\ Ring' = Ring /\ read' = read /\ reader' = reader
      /\ pending' = pending /\ toPhone' = toPhone /\ phoneGot' = phoneGot
      /\ atPhone' = atPhone /\ lost' = lost /\ overrun' = overrun
      /\ fromHost' = fromHost /\ overtaken' = overtaken
      /\ packets' = Append(packets, h) /\ moving' = Tail(moving)
  BY DEF MovePending, vhidVars, contextVars, hostVars, netVars
<1> HIDE DEF h
<1>4. /\ Elems(Ring)' = Elems(Ring) /\ Elems(pending)' = Elems(pending)
      /\ Elems(toPhone)' = Elems(toPhone) /\ Elems(phoneGot)' = Elems(phoneGot)
  BY <1>3
<1>5. Moved(Places, Places', 5, 6, {h})
  BY <1>2, <1>3, <1>4 DEF Places, Moved
<1>6. Moved(Line, Line', 5, 6, {h})
  BY <1>2, <1>3, <1>4 DEF Places, Line, Moved
<1>7. Conserved(Places, fromHost)'
  BY <1>0, <1>3, <1>5, PlacesMove DEF QueueTypes
<1>8. OnceInv'
  <2>1. h \notin Elems(packets)
    BY <1>0, <1>2 DEF Conserved, Places
  <2>2. QED
    BY <1>0, <1>1, <1>2, <1>3, <2>1, AppendDistinct DEF OnceInv, QueueTypes
<1>9. Falling(Line, 4)'
  <2>1. Passes(Line, 4, 5, 6, {h})
    BY DEF Passes
  <2>2. QED
    BY <1>0, <1>6, <2>1, LineMoves DEF LineInv, QueueTypes
<1>10. ASSUME ~overtaken
       PROVE  Falling(Line, 8)' /\ Increasing(packets')
  <2>1. Falling(Line, 8) /\ Increasing(packets)
    BY <1>0, <1>10 DEF LineInv
  <2>2. Line[5] = Elems(moving) /\ Line[6] = Elems(packets)
    BY DEF Line, Places
  <2>3. Passes(Line, 8, 5, 6, {h})
    BY <1>1, <1>2, <1>3, <2>1, <2>2 DEF Passes
  <2>4. Falling(Line, 8)'
    BY <1>0, <1>6, <2>1, <2>3, LineMoves DEF LineInv, QueueTypes
  <2>5. \A a \in Elems(packets) : a < h
    BY <1>2, <2>1, <2>2 DEF Falling
  <2>6. QED
    BY <1>0, <1>2, <1>3, <2>1, <2>4, <2>5, AppendIncreasing DEF QueueTypes
<1>11. QED
  BY <1>0, <1>3, <1>4, <1>7, <1>8, <1>9, <1>10 DEF QueueInv, LineInv

\* A packet that the reader gives up.
LEMMA ReaderDropsQueues ==
  ASSUME TypeOK, QueueInv, HandInv, reader.at \in {"got", "push"},
         reader' = Idle, lost' = lost \cup {reader.packet},
         Ring' = Ring, read' = read, pending' = pending, moving' = moving,
         packets' = packets, toPhone' = toPhone, phoneGot' = phoneGot,
         atPhone' = atPhone, overrun' = overrun, fromHost' = fromHost,
         overtaken' = overtaken
  PROVE  QueueInv'
<1>0. /\ QueueTypes /\ OnceInv /\ LineInv /\ Conserved(Places, fromHost)
  BY QueueTypesHold DEF QueueInv
<1> DEFINE h == reader.packet
<1>1. h \in Frames /\ h # None /\ reader'.packet = None
  BY VhidAssumption DEF HandInv, Idle
<1>4. /\ Elems(Ring)' = Elems(Ring) /\ Elems(pending)' = Elems(pending)
      /\ Elems(moving)' = Elems(moving) /\ Elems(packets)' = Elems(packets)
      /\ Elems(toPhone)' = Elems(toPhone) /\ Elems(phoneGot)' = Elems(phoneGot)
  OBVIOUS
<1>5. Moved(Places, Places', 3, 9, {h})
  BY <1>1, <1>4 DEF Places, Moved
<1>6. Moved(Line, Line', 3, 9, {h})
  BY <1>1, <1>4 DEF Places, Line, Moved
<1>7. Conserved(Places, fromHost)'
  BY <1>0, <1>5, PlacesMove DEF QueueTypes
<1>8. OnceInv'
  BY <1>0 DEF OnceInv
<1>9. ASSUME NEW n \in {4, 8}, Falling(Line, n) PROVE Falling(Line, n)'
  <2>1. Passes(Line, n, 3, 9, {h}) /\ n \in 1..10
    BY DEF Passes
  <2>2. QED
    BY <1>0, <1>6, <1>9, <2>1, LineMoves DEF LineInv, QueueTypes
<1>10. QED
  BY <1>0, <1>4, <1>7, <1>8, <1>9 DEF QueueInv, LineInv

LEMMA PushTooLateQueues ==
  ASSUME TypeOK, QueueInv, HandInv, PushTooLate PROVE QueueInv'
BY ReaderDropsQueues
   DEF PushTooLate, vhidVars, contextVars, hostVars, hubVars, netVars

\* A packet that is kept for later, or given up, or remembered with the
\* session that it is for.
LEMMA RouteQueues ==
  ASSUME TypeOK, QueueInv, HandInv, Route PROVE QueueInv'
<1>0. /\ QueueTypes /\ OnceInv /\ LineInv /\ Conserved(Places, fromHost)
      /\ reader.at = "got"
  BY QueueTypesHold DEF Route, QueueInv
<1>3. /\ Ring' = Ring /\ read' = read /\ moving' = moving
      /\ packets' = packets /\ toPhone' = toPhone /\ phoneGot' = phoneGot
      /\ atPhone' = atPhone /\ overrun' = overrun
      /\ fromHost' = fromHost /\ overtaken' = overtaken
  BY DEF Route, vhidVars, contextVars, hostVars, netVars
<1>4. /\ Elems(Ring)' = Elems(Ring) /\ Elems(moving)' = Elems(moving)
      /\ Elems(packets)' = Elems(packets) /\ Elems(toPhone)' = Elems(toPhone)
      /\ Elems(phoneGot)' = Elems(phoneGot)
  BY <1>3
<1> DEFINE h == reader.packet
<1>a. h \in Frames /\ h # None
  BY <1>0, VhidAssumption DEF HandInv
<1>b. CASE reader' = Idle /\ pending' = pending /\ lost' = lost \cup {h}
  BY <1>0, <1>3, <1>b, ReaderDropsQueues
<1>c. CASE /\ reader' = Idle /\ pending' = Append(pending, h)
           /\ lost' = lost
  <2>1. reader'.packet = None /\ Elems(pending') = Elems(pending) \cup {h}
    BY <1>0, <1>a, <1>c, AppendElems DEF Idle, QueueTypes
  <2>2. Moved(Places, Places', 3, 4, {h})
    BY <1>a, <1>c, <2>1, <1>3, <1>4 DEF Places, Moved
  <2>3. Moved(Line, Line', 3, 4, {h})
    BY <1>a, <1>c, <2>1, <1>3, <1>4 DEF Places, Line, Moved
  <2>4. Conserved(Places, fromHost)'
    BY <1>0, <1>3, <2>2, PlacesMove DEF QueueTypes
  <2>5. ASSUME NEW n \in {4, 8}, Falling(Line, n) PROVE Falling(Line, n)'
    <3>1. Line[3] = {h} \ {None}
      BY DEF Line, Places
    <3>2. Passes(Line, n, 3, 4, {h}) /\ n \in 1..10
      BY <3>1 DEF Passes
    <3>3. QED
      BY <1>0, <2>3, <2>5, <3>2, LineMoves DEF LineInv, QueueTypes
  <2>6. Increasing(pending')
    <3>1. Line[3] = {h} \ {None} /\ Line[4] = Elems(pending)
      BY DEF Line, Places
    <3>2. \A a \in Elems(pending) : a < h
      BY <1>0, <1>a, <3>1 DEF Falling, LineInv
    <3>3. QED
      BY <1>0, <1>a, <1>c, <3>2, AppendIncreasing DEF QueueTypes, OnceInv
  <2>7. QED
    BY <1>0, <1>3, <1>4, <2>4, <2>5, <2>6 DEF QueueInv, LineInv, OnceInv
<1>d. CASE reader'.packet = h /\ pending' = pending /\ lost' = lost
  <2>1. Places' = Places
    BY <1>3, <1>4, <1>d DEF Places
  <2>2. Line' = Line
    BY <1>4, <2>1 DEF Line
  <2>3. QED
    BY <1>0, <1>3, <1>4, <1>d, <2>1, <2>2 DEF QueueInv, LineInv, OnceInv
<1>e. QED
  <2>1. reader' = [reader EXCEPT !.at = "push", !.to = active] =>
          reader'.packet = h
    BY DEF TypeOK
  <2>2. QED
    BY <1>b, <1>c, <1>d, <2>1 DEF Route

LEMMA PushQueues ==
  ASSUME TypeOK, QueueInv, HandInv, RelayInv, Push PROVE QueueInv'
<1>0. /\ QueueTypes /\ OnceInv /\ LineInv /\ Conserved(Places, fromHost)
  BY QueueTypesHold DEF QueueInv
<1> DEFINE h == reader.packet
<1>1. h \in Frames /\ h # None /\ reader'.packet = None /\ pending = <<>>
  BY VhidAssumption DEF HandInv, Idle, Push, RelayInv
<1>2. Elems(packets') = Elems(packets) \cup {h} /\ Elems(pending) = {}
  BY <1>0, <1>1, AppendElems, EmptyElems DEF Push, QueueTypes
<1>3. /\ Ring' = Ring /\ read' = read /\ pending' = pending
      /\ moving' = moving /\ toPhone' = toPhone /\ phoneGot' = phoneGot
      /\ atPhone' = atPhone /\ lost' = lost /\ overrun' = overrun
      /\ fromHost' = fromHost /\ packets' = Append(packets, h)
      /\ overtaken' = (overtaken \/ moving # <<>>)
  BY DEF Push, vhidVars, contextVars, hostVars, netVars
<1>4. /\ Elems(Ring)' = Elems(Ring) /\ Elems(pending)' = Elems(pending)
      /\ Elems(moving)' = Elems(moving) /\ Elems(toPhone)' = Elems(toPhone)
      /\ Elems(phoneGot)' = Elems(phoneGot)
  BY <1>3
<1>5. Moved(Places, Places', 3, 6, {h})
  BY <1>1, <1>2, <1>3, <1>4 DEF Places, Moved
<1>6. Moved(Line, Line', 3, 6, {h})
  BY <1>1, <1>2, <1>3, <1>4 DEF Places, Line, Moved
<1>7. Conserved(Places, fromHost)'
  BY <1>0, <1>3, <1>5, PlacesMove DEF QueueTypes
<1>8. OnceInv'
  <2>1. h \notin Elems(packets)
    BY <1>0, <1>1 DEF Conserved, Places
  <2>2. QED
    BY <1>0, <1>1, <1>3, <2>1, AppendDistinct DEF OnceInv, QueueTypes
<1>9. Falling(Line, 4)'
  <2>1. Passes(Line, 4, 3, 6, {h})
    BY DEF Passes
  <2>2. QED
    BY <1>0, <1>6, <2>1, LineMoves DEF LineInv, QueueTypes
<1>10. ASSUME ~overtaken'
       PROVE  Falling(Line, 8)' /\ Increasing(packets')
  <2>1. ~overtaken /\ moving = <<>>
    BY <1>3, <1>10 DEF TypeOK
  <2>2. Falling(Line, 8) /\ Increasing(packets)
    BY <1>0, <2>1 DEF LineInv
  <2>3. /\ Line[3] = {h} \ {None} /\ Line[4] = {} /\ Line[5] = {}
        /\ Line[6] = Elems(packets)
    BY <1>2, <2>1, EmptyElems DEF Line, Places
  <2>4. Passes(Line, 8, 3, 6, {h})
    BY <2>3 DEF Passes
  <2>5. Falling(Line, 8)'
    BY <1>0, <1>6, <2>2, <2>4, LineMoves DEF LineInv, QueueTypes
  <2>6. \A a \in Elems(packets) : a < h
    <3>1. \A b \in Line[6], a \in Line[3] : b < a
      BY <2>2 DEF Falling
    <3>2. h \in Line[3]
      BY <1>1, <2>3
    <3>3. QED
      BY <2>3, <3>1, <3>2
  <2>7. QED
    BY <1>0, <1>1, <1>3, <2>2, <2>5, <2>6, AppendIncreasing DEF QueueTypes
<1>11. QED
  BY <1>0, <1>3, <1>4, <1>7, <1>8, <1>9, <1>10 DEF QueueInv, LineInv

\* A read that is done, and one that takes the oldest report of the ring.
LEMMA ReadReturnsQueues ==
  ASSUME TypeOK, QueueInv, HandInv, ReadReturns PROVE QueueInv'
<1>0. /\ QueueTypes /\ OnceInv /\ LineInv /\ Conserved(Places, fromHost)
  BY QueueTypesHold DEF QueueInv
<1> DEFINE h == read.frame
<1>1. /\ h \in Frames /\ h # None /\ read'.frame = None
      /\ reader'.packet = h
  BY VhidAssumption DEF HandInv, NoRead, ReadReturns
<1>2. reader.packet \notin Frames /\ {reader.packet} \ {None} = {}
  BY DEF HandInv, ReadReturns, TypeOK
<1>3. /\ Ring' = Ring /\ pending' = pending /\ moving' = moving
      /\ packets' = packets /\ toPhone' = toPhone /\ phoneGot' = phoneGot
      /\ atPhone' = atPhone /\ lost' = lost /\ overrun' = overrun
      /\ fromHost' = fromHost /\ overtaken' = overtaken
  BY DEF ReadReturns, contextVars, hostVars, hubVars, netVars
<1>4. /\ Elems(Ring)' = Elems(Ring) /\ Elems(pending)' = Elems(pending)
      /\ Elems(moving)' = Elems(moving) /\ Elems(packets)' = Elems(packets)
      /\ Elems(toPhone)' = Elems(toPhone) /\ Elems(phoneGot)' = Elems(phoneGot)
  BY <1>3
<1>5. Moved(Places, Places', 2, 3, {h})
  BY <1>1, <1>2, <1>3, <1>4 DEF Places, Moved
<1>6. Moved(Line, Line', 2, 3, {h})
  BY <1>1, <1>2, <1>3, <1>4 DEF Places, Line, Moved
<1>7. Conserved(Places, fromHost)'
  BY <1>0, <1>3, <1>5, PlacesMove DEF QueueTypes
<1>8. ASSUME NEW n \in {4, 8}, Falling(Line, n) PROVE Falling(Line, n)'
  <2>1. Line[2] = {h} \ {None}
    BY DEF Line, Places
  <2>2. Passes(Line, n, 2, 3, {h}) /\ n \in 1..10
    BY <2>1 DEF Passes
  <2>3. QED
    BY <1>0, <1>6, <1>8, <2>2, LineMoves DEF LineInv, QueueTypes
<1>9. QED
  BY <1>0, <1>3, <1>4, <1>7, <1>8 DEF QueueInv, LineInv, OnceInv

LEMMA CallReadQueues ==
  ASSUME TypeOK, QueueInv, HandInv, CallRead PROVE QueueInv'
<1>0. /\ QueueTypes /\ OnceInv /\ LineInv /\ Conserved(Places, fromHost)
      /\ read = NoRead
  BY QueueTypesHold DEF QueueInv, CallRead, AbkEvtIoRead
<1>3. /\ reader' = reader /\ pending' = pending /\ moving' = moving
      /\ packets' = packets /\ toPhone' = toPhone /\ phoneGot' = phoneGot
      /\ atPhone' = atPhone /\ lost' = lost /\ overrun' = overrun
      /\ fromHost' = fromHost /\ overtaken' = overtaken
  BY DEF CallRead, AbkEvtIoRead, hostVars, hubVars, netVars
<1>4. /\ Elems(pending)' = Elems(pending)
      /\ Elems(moving)' = Elems(moving) /\ Elems(packets)' = Elems(packets)
      /\ Elems(toPhone)' = Elems(toPhone) /\ Elems(phoneGot)' = Elems(phoneGot)
  BY <1>3
<1>a. CASE Ring' = Ring /\ read' = [at |-> "queued", frame |-> None]
  <2>1. Elems(Ring)' = Elems(Ring) /\ read'.frame = read.frame
    BY <1>0, <1>a DEF NoRead
  <2>2. Places' = Places
    BY <1>3, <1>4, <2>1 DEF Places
  <2>3. Line' = Line
    BY <1>4, <2>2 DEF Line
  <2>4. QED
    BY <1>0, <1>3, <1>4, <1>a, <2>2, <2>3 DEF QueueInv, LineInv, OnceInv
<1>b. CASE /\ Ring # <<>> /\ Ring' = Tail(Ring)
           /\ read' = [at |-> "done", frame |-> Head(Ring)]
  <2> DEFINE h == Head(Ring)
  <2>1. /\ Increasing(Ring') /\ \A b \in Elems(Tail(Ring)) : h < b
        /\ Distinct(Ring)
    BY <1>0, <1>b, TailIncreasing DEF QueueTypes, OnceInv
  <2>2. /\ h \in Elems(Ring) /\ h \in Frames
        /\ Elems(Ring') = Elems(Ring) \ {h}
    BY <1>0, <1>b, <2>1, TailElems DEF QueueTypes
  <2>3. h # None /\ read.frame = None /\ read'.frame = h
    BY <1>0, <1>b, <2>2, VhidAssumption DEF NoRead
  <2>4. \A b \in Elems(Ring) \ {h} : h < b
    BY <1>b, <2>1, <2>2
  <2> HIDE DEF h
  <2>5. Moved(Places, Places', 1, 2, {h})
    BY <1>3, <1>4, <2>2, <2>3 DEF Places, Moved
  <2>6. Moved(Line, Line', 1, 2, {h})
    BY <1>3, <1>4, <2>2, <2>3 DEF Places, Line, Moved
  <2>7. Conserved(Places, fromHost)'
    BY <1>0, <1>3, <2>5, PlacesMove DEF QueueTypes
  <2>8. ASSUME NEW n \in {4, 8}, Falling(Line, n) PROVE Falling(Line, n)'
    <3>1. Line[1] = Elems(Ring)
      BY DEF Line, Places
    <3>2. Passes(Line, n, 1, 2, {h}) /\ n \in 1..10
      BY <2>4, <3>1 DEF Passes
    <3>3. QED
      BY <1>0, <2>6, <2>8, <3>2, LineMoves DEF LineInv, QueueTypes
  <2>9. QED
    BY <1>0, <1>3, <1>4, <2>1, <2>7, <2>8 DEF QueueInv, LineInv, OnceInv
<1>c. QED
  BY <1>a, <1>b DEF CallRead, AbkEvtIoRead

\* The packets kept for later are handed over as they are.
LEMMA SubscribeQueues ==
  ASSUME TypeOK, QueueInv, RelayInv, Subscribe PROVE QueueInv'
<1>0. /\ QueueTypes /\ OnceInv /\ LineInv /\ Conserved(Places, fromHost)
  BY QueueTypesHold DEF QueueInv
<1>1. /\ moving = <<>> /\ packets = <<>>
      /\ pending' = <<>> /\ moving' = pending /\ packets' = packets
  BY DEF Subscribe, RelayInv
<1>2. /\ Elems(moving) = {} /\ Elems(pending') = {}
      /\ Elems(moving') = Elems(pending) /\ Elems(packets') = Elems(packets)
  BY <1>1, EmptyElems
<1>3. /\ Ring' = Ring /\ read' = read /\ reader' = reader
      /\ toPhone' = toPhone /\ phoneGot' = phoneGot
      /\ atPhone' = atPhone /\ lost' = lost /\ overrun' = overrun
      /\ fromHost' = fromHost /\ overtaken' = overtaken
  BY DEF Subscribe, vhidVars, contextVars, hostVars, netVars
<1>4. /\ Elems(Ring)' = Elems(Ring) /\ Elems(toPhone)' = Elems(toPhone)
      /\ Elems(phoneGot)' = Elems(phoneGot)
  BY <1>3
<1> DEFINE S == Elems(pending)
<1>5. Moved(Places, Places', 4, 5, S)
  BY <1>2, <1>3, <1>4 DEF Places, Moved
<1>6. Moved(Line, Line', 4, 5, S)
  BY <1>2, <1>3, <1>4 DEF Places, Line, Moved
<1>7. Conserved(Places, fromHost)'
  BY <1>0, <1>3, <1>5, PlacesMove DEF QueueTypes
<1>8. ASSUME NEW n \in {4, 8}, Falling(Line, n) PROVE Falling(Line, n)'
  <2>1. Line[4] = S
    BY DEF Line, Places
  <2>2. Passes(Line, n, 4, 5, S) /\ n \in 1..10
    BY <2>1 DEF Passes
  <2>3. QED
    BY <1>0, <1>6, <1>8, <2>2, LineMoves DEF LineInv, QueueTypes
<1>9. OnceInv'
  BY <1>0, <1>1, <1>3, EmptySequence DEF OnceInv
<1>10. QED
  BY <1>0, <1>1, <1>3, <1>4, <1>7, <1>8, <1>9 DEF QueueInv, LineInv

-----------------------------------------------------------------------------
(* What ends: a session, the process, the device.                          *)

\* With nothing left beyond the hub's list, its order is that of the line.
LEMMA LineShort ==
  ASSUME NEW p, Falling(p, 4), \A k \in 5..8 : p[k] = {}
  PROVE  Falling(p, 8)
<1> SUFFICES ASSUME NEW k \in 1..8, NEW l \in 1..8, k < l,
                    NEW a \in p[k], NEW b \in p[l]
             PROVE  b < a
  BY DEF Falling
<1>1. k \in 1..4 /\ l \in 1..4
  OBVIOUS
<1>2. QED
  BY <1>1 DEF Falling

\* What is left beyond the hub's list is lost, and with the process also the
\* rest of what it held.
LEMMA EndQueues ==
  ASSUME TypeOK, QueueInv, NEW I \in {{6, 7}, 2..7},
         Gathered(Places, Places', I, 9),
         moving' = <<>>, packets' = <<>>, toPhone' = <<>>, phoneGot' = <<>>,
         pending' \in {pending, <<>>}, Ring' = Ring, fromHost' = fromHost,
         overtaken' = FALSE
  PROVE  QueueInv'
<1>0. /\ QueueTypes /\ OnceInv /\ LineInv /\ Conserved(Places, fromHost)
  BY QueueTypesHold DEF QueueInv
<1>1. PICK p : p = Places
  OBVIOUS
<1>2. PICK q : q = Places'
  OBVIOUS
<1>3. Gathered(p, q, I, 9)
  BY <1>1, <1>2
<1>4. Conserved(q, fromHost)
  BY <1>0, <1>1, <1>3, Gather DEF QueueTypes
<1>5. Falling(Line, 8)'
  <2>1. PICK m : m = Line'
    OBVIOUS
  <2>2. PICK l : l = Line
    OBVIOUS
  <2>3. Elems(phoneGot') = {}
    BY EmptyElems
  <2>4. \A k \in 1..10 : m[k] = IF k = 8 THEN {} ELSE q[k]
    BY <1>2, <2>1, <2>3 DEF Line
  <2>5. Falling(l, 4) /\ \A k \in 1..4 : l[k] = p[k]
    BY <1>0, <1>1, <2>2 DEF LineInv, Line
  <2>6. \A k \in 1..4 : m[k] \subseteq l[k]
    BY <1>3, <2>4, <2>5 DEF Gathered
  <2>7. Falling(m, 4)
    BY <2>5, <2>6, LineDrop
  <2>8. \A k \in 5..8 : m[k] = {}
    <3>1. q[5] = {} /\ q[6] = {} /\ q[7] = {}
      BY <1>2, <1>3, EmptyElems DEF Places, Gathered
    <3>2. QED
      BY <2>4, <3>1
  <2>9. QED
    BY <2>1, <2>7, <2>8, LineShort
<1>6. Falling(Line, 4)'
  BY <1>5 DEF Falling
<1>7. OnceInv' /\ Elems(phoneGot') = {} /\ Increasing(phoneGot')
  BY <1>0, EmptySequence DEF OnceInv
<1>8. QED
  BY <1>2, <1>4, <1>5, <1>6, <1>7, EmptySequence DEF QueueInv, LineInv

LEMMA SessionEndsQueues ==
  ASSUME TypeOK, QueueInv, RelayInv, SessionEnds PROVE QueueInv'
<1>1. /\ Ring' = Ring /\ read' = read /\ reader' = reader
      /\ pending' = pending /\ moving' = moving /\ moving = <<>>
      /\ packets' = <<>> /\ toPhone' = <<>> /\ phoneGot' = <<>>
      /\ atPhone' = atPhone /\ overrun' = overrun /\ fromHost' = fromHost
      /\ overtaken' = FALSE
      /\ lost' = lost \cup Elems(packets) \cup Elems(toPhone)
  BY DEF SessionEnds, RelayInv, vhidVars, contextVars, hostVars
<1>2. /\ Elems(Ring)' = Elems(Ring) /\ Elems(pending)' = Elems(pending)
      /\ Elems(moving)' = Elems(moving)
      /\ Elems(packets') = {} /\ Elems(toPhone') = {}
  BY <1>1, EmptyElems
<1>3. Gathered(Places, Places', {6, 7}, 9)
  <2>1. PICK p : p = Places
    OBVIOUS
  <2>2. PICK q : q = Places'
    OBVIOUS
  <2>3. UNION {p[i] : i \in {6, 7}} = p[6] \cup p[7]
    OBVIOUS
  <2>4. p[6] = Elems(packets) /\ p[7] = Elems(toPhone) /\ p[9] = lost
    BY <2>1 DEF Places
  <2>5. /\ q[6] = {} /\ q[7] = {}
        /\ q[9] = lost \cup Elems(packets) \cup Elems(toPhone)
    BY <2>2, <1>1, <1>2 DEF Places
  <2>6. \A k \in {1, 2, 3, 4, 5, 8, 10} : q[k] = p[k]
    BY <2>1, <2>2, <1>1, <1>2 DEF Places
  <2>7. Gathered(p, q, {6, 7}, 9)
    BY <2>3, <2>4, <2>5, <2>6 DEF Gathered
  <2>8. QED
    BY <2>1, <2>2, <2>7
<1>4. QED
  BY <1>1, <1>3, EndQueues

LEMMA ExitQueues ==
  ASSUME TypeOK, QueueInv, Exit PROVE QueueInv'
<1>1. /\ Ring' = Ring /\ read' = NoRead /\ reader' = Idle
      /\ pending' = <<>> /\ moving' = <<>>
      /\ packets' = <<>> /\ toPhone' = <<>> /\ phoneGot' = <<>>
      /\ atPhone' = atPhone /\ overrun' = overrun /\ fromHost' = fromHost
      /\ overtaken' = FALSE
      /\ lost' = lost \cup Elems(pending) \cup Elems(moving)
                   \cup Elems(packets) \cup Elems(toPhone)
                   \cup ({reader.packet, read.frame} \ {None})
  BY DEF Exit, contextVars, hostVars
<1>2. /\ Elems(Ring)' = Elems(Ring) /\ Elems(pending') = {}
      /\ Elems(moving') = {} /\ Elems(packets') = {} /\ Elems(toPhone') = {}
      /\ read'.frame = None /\ reader'.packet = None
  BY <1>1, EmptyElems DEF NoRead, Idle
<1>3. Gathered(Places, Places', 2..7, 9)
  <2>1. PICK p : p = Places
    OBVIOUS
  <2>2. PICK q : q = Places'
    OBVIOUS
  <2>3. UNION {p[i] : i \in 2..7} =
          p[2] \cup p[3] \cup p[4] \cup p[5] \cup p[6] \cup p[7]
    <3>1. 2..7 = {2, 3, 4, 5, 6, 7}
      OBVIOUS
    <3>2. QED
      BY <3>1
  <2>4. /\ p[2] = {read.frame} \ {None} /\ p[3] = {reader.packet} \ {None}
        /\ p[4] = Elems(pending) /\ p[5] = Elems(moving)
        /\ p[6] = Elems(packets) /\ p[7] = Elems(toPhone) /\ p[9] = lost
    BY <2>1 DEF Places
  <2>5. \A k \in 2..7 : q[k] = {}
    BY <2>2, <1>2 DEF Places
  <2>6. q[9] = lost'
    BY <2>2 DEF Places
  <2>7. q[9] = p[9] \cup UNION {p[i] : i \in 2..7}
    BY <1>1, <2>3, <2>4, <2>6
  <2>8. \A k \in {1, 8, 10} : q[k] = p[k]
    BY <2>1, <2>2, <1>1, <1>2 DEF Places
  <2>9. Gathered(p, q, 2..7, 9)
    BY <2>5, <2>7, <2>8 DEF Gathered
  <2>10. QED
    BY <2>1, <2>2, <2>9
<1>4. QED
  BY <1>1, <1>3, EndQueues

\* The framework destroys the device, and the backlog with it.
LEMMA DeviceGoneQueues ==
  ASSUME TypeOK, QueueInv, HandInv, DeviceGone, AgentRest PROVE QueueInv'
<1>0. /\ QueueTypes /\ OnceInv /\ LineInv /\ Conserved(Places, fromHost)
  BY QueueTypesHold DEF QueueInv
<1>1. /\ reader' = reader /\ pending' = pending /\ moving' = moving
      /\ packets' = packets /\ toPhone' = toPhone /\ phoneGot' = phoneGot
      /\ atPhone' = atPhone /\ lost' = lost /\ overtaken' = overtaken
  BY DEF AgentRest, hubVars, netVars
<1>2. /\ Ring' = <<>> /\ fromHost' = fromHost
      /\ read' = IF read.at = "queued" THEN NoRead ELSE read
      /\ overrun' = overrun \cup Elems(Ring)
  BY DEF DeviceGone, ContextReset, Elems
<1>3. {read'.frame} \ {None} = {read.frame} \ {None}
  BY <1>2 DEF NoRead, HandInv, TypeOK, VhidTypeOK
<1>4. /\ Elems(pending)' = Elems(pending)
      /\ Elems(moving)' = Elems(moving) /\ Elems(packets)' = Elems(packets)
      /\ Elems(toPhone)' = Elems(toPhone) /\ Elems(phoneGot)' = Elems(phoneGot)
      /\ Elems(Ring') = {}
  BY <1>1, <1>2, EmptyElems
<1> DEFINE S == Elems(Ring)
<1>5. Moved(Places, Places', 1, 10, S)
  BY <1>1, <1>2, <1>3, <1>4 DEF Places, Moved
<1>6. Moved(Line, Line', 1, 10, S)
  BY <1>1, <1>2, <1>3, <1>4 DEF Places, Line, Moved
<1>7. Conserved(Places, fromHost)'
  BY <1>0, <1>2, <1>5, PlacesMove DEF QueueTypes
<1>8. ASSUME NEW n \in {4, 8}, Falling(Line, n) PROVE Falling(Line, n)'
  <2>1. Passes(Line, n, 1, 10, S) /\ n \in 1..10
    BY DEF Passes
  <2>2. QED
    BY <1>0, <1>6, <1>8, <2>1, LineMoves DEF LineInv, QueueTypes
<1>9. OnceInv'
  BY <1>0, <1>1, <1>2, EmptySequence DEF OnceInv
<1>10. QED
  BY <1>0, <1>1, <1>4, <1>7, <1>8, <1>9 DEF QueueInv, LineInv

\* subscribe returns, and drops what is left once its session is over.
LEMMA SubscribedQueues ==
  ASSUME TypeOK, QueueInv, Subscribed PROVE QueueInv'
<1>0. /\ QueueTypes /\ OnceInv /\ LineInv /\ Conserved(Places, fromHost)
  BY QueueTypesHold DEF QueueInv
<1> DEFINE S == Elems(moving)
<1>1. /\ Ring' = Ring /\ read' = read /\ reader' = reader
      /\ pending' = pending /\ moving' = <<>> /\ packets' = packets
      /\ toPhone' = toPhone /\ phoneGot' = phoneGot /\ atPhone' = atPhone
      /\ lost' = lost \cup S /\ overrun' = overrun
      /\ fromHost' = fromHost /\ overtaken' = overtaken
  BY DEF Subscribed, vhidVars, contextVars, hostVars, netVars
<1>4. /\ Elems(Ring)' = Elems(Ring) /\ Elems(pending)' = Elems(pending)
      /\ Elems(moving') = {} /\ Elems(packets)' = Elems(packets)
      /\ Elems(toPhone)' = Elems(toPhone) /\ Elems(phoneGot)' = Elems(phoneGot)
  BY <1>1, EmptyElems
<1>5. Moved(Places, Places', 5, 9, S)
  BY <1>1, <1>4 DEF Places, Moved
<1>6. Moved(Line, Line', 5, 9, S)
  BY <1>1, <1>4 DEF Places, Line, Moved
<1>7. Conserved(Places, fromHost)'
  BY <1>0, <1>1, <1>5, PlacesMove DEF QueueTypes
<1>8. OnceInv'
  BY <1>0, <1>1, EmptySequence DEF OnceInv
<1>9. ASSUME NEW n \in {4, 8}, Falling(Line, n) PROVE Falling(Line, n)'
  <2>1. Passes(Line, n, 5, 9, S) /\ n \in 1..10
    BY DEF Passes
  <2>2. QED
    BY <1>0, <1>6, <1>9, <2>1, LineMoves DEF LineInv, QueueTypes
<1>10. QED
  BY <1>0, <1>1, <1>4, <1>7, <1>8, <1>9 DEF QueueInv, LineInv

\* Steps that leave the reports where they are.
LEMMA QuietQueues ==
  ASSUME QueueInv, Ring' = Ring, read' = read,
         reader'.packet = reader.packet,
         pending' = pending, moving' = moving, packets' = packets,
         toPhone' = toPhone, phoneGot' = phoneGot, atPhone' = atPhone,
         lost' = lost, overrun' = overrun, fromHost' = fromHost,
         overtaken' = overtaken
  PROVE  QueueInv'
<1>1. /\ Elems(Ring)' = Elems(Ring) /\ Elems(pending)' = Elems(pending)
      /\ Elems(moving)' = Elems(moving) /\ Elems(packets)' = Elems(packets)
      /\ Elems(toPhone)' = Elems(toPhone) /\ Elems(phoneGot)' = Elems(phoneGot)
  OBVIOUS
<1>2. Places' = Places
  BY <1>1 DEF Places
<1>3. Line' = Line
  BY <1>1, <1>2 DEF Line
<1>4. QED
  BY <1>1, <1>2, <1>3 DEF QueueInv, LineInv, OnceInv

-----------------------------------------------------------------------------
(* A report of the host.                                                   *)

LEMMA WriteReportQueues ==
  ASSUME TypeOK, QueueInv, HandInv, AbkEvtVhfWriteReport, AgentRest
  PROVE  QueueInv'
<1>0. /\ QueueTypes /\ OnceInv /\ LineInv /\ Conserved(Places, fromHost)
  BY QueueTypesHold DEF QueueInv
<1> DEFINE f == fromHost + 1
<1>1. f \in Frames /\ f # None /\ f \notin 1..fromHost
  BY <1>0, VhidAssumption DEF Frames, AbkEvtVhfWriteReport, QueueTypes
<1>2. /\ reader' = reader /\ pending' = pending /\ moving' = moving
      /\ packets' = packets /\ toPhone' = toPhone /\ phoneGot' = phoneGot
      /\ atPhone' = atPhone /\ lost' = lost /\ overtaken' = overtaken
      /\ fromHost' = f
  BY DEF AgentRest, hubVars, netVars, AbkEvtVhfWriteReport
<1>3. /\ Elems(pending)' = Elems(pending)
      /\ Elems(moving)' = Elems(moving) /\ Elems(packets)' = Elems(packets)
      /\ Elems(toPhone)' = Elems(toPhone) /\ Elems(phoneGot)' = Elems(phoneGot)
  BY <1>2
<1>4. PICK p : p = Places
  OBVIOUS
<1>5. PICK q : q = Places'
  OBVIOUS
<1>6. PICK l : l = Line
  OBVIOUS
<1>7. PICK m : m = Line'
  OBVIOUS
<1>8. \A k \in 1..10 : l[k] \subseteq 1..fromHost /\ l[k] \subseteq Nat
  BY <1>0, <1>6, LineSmall DEF LineInv, QueueTypes
<1>9. \A a \in Elems(Ring) : a < f
  BY <1>0, <1>6, <1>8 DEF Line, Places, QueueTypes
<1>10. Conserved(p, fromHost) /\ fromHost \in Nat
  BY <1>0, <1>4 DEF QueueTypes
<1>a. CASE /\ Ring = <<>> /\ read.at = "queued"
           /\ read' = [at |-> "done", frame |-> f]
           /\ Ring' = Ring /\ overrun' = overrun
  <2>1. read'.frame = f /\ {read.frame} \ {None} = {} /\ Elems(Ring') = {}
        /\ Elems(Ring) = {}
    BY <1>a, EmptyElems DEF HandInv, TypeOK, VhidTypeOK
  <2>2. Arrived(p, q, 2, f)
    BY <1>1, <1>2, <1>3, <1>4, <1>5, <1>a, <2>1 DEF Places, Arrived
  <2>3. Arrived(l, m, 2, f)
    BY <1>1, <1>2, <1>3, <1>6, <1>7, <1>a, <2>1 DEF Places, Line, Arrived
  <2> HIDE DEF f
  <2>4. Conserved(q, f)
    BY <1>10, <2>2, Arrive DEF f
  <2>5. l[1] = {}
    BY <1>6, <2>1 DEF Line, Places
  <2>6. ASSUME NEW n \in {4, 8}, Falling(l, n) PROVE Falling(m, n)
    <3>1. n \in 1..10 /\ Newest(l, n, 2, fromHost)
      BY <1>8, <2>5 DEF Newest
    <3>2. QED
      BY <1>10, <2>3, <2>6, <3>1, LineArrive DEF f
  <2>7. QED
    BY <1>0, <1>2, <1>3, <1>5, <1>6, <1>7, <1>a, <2>4, <2>6
       DEF QueueInv, LineInv, OnceInv
<1>b. CASE /\ Len(Ring) # RingSlots /\ Ring' = Append(Ring, f)
           /\ overrun' = overrun /\ read' = read
  <2>1. Elems(Ring') = Elems(Ring) \cup {f} /\ Increasing(Ring')
    BY <1>0, <1>1, <1>9, <1>b, AppendElems, AppendIncreasing
       DEF QueueTypes, OnceInv
  <2>2. Arrived(p, q, 1, f)
    BY <1>2, <1>3, <1>4, <1>5, <1>b, <2>1 DEF Places, Arrived
  <2>3. Arrived(l, m, 1, f)
    BY <1>2, <1>3, <1>6, <1>7, <1>b, <2>1 DEF Places, Line, Arrived
  <2> HIDE DEF f
  <2>4. Conserved(q, f)
    BY <1>10, <2>2, Arrive DEF f
  <2>5. ASSUME NEW n \in {4, 8}, Falling(l, n) PROVE Falling(m, n)
    <3>1. n \in 1..10 /\ Newest(l, n, 1, fromHost)
      BY <1>8 DEF Newest
    <3>2. QED
      BY <1>10, <2>3, <2>5, <3>1, LineArrive DEF f
  <2>6. QED
    BY <1>0, <1>2, <1>3, <1>5, <1>6, <1>7, <2>1, <2>4, <2>5
       DEF QueueInv, LineInv, OnceInv
<1>c. CASE /\ Len(Ring) = RingSlots /\ Ring' = Append(Tail(Ring), f)
           /\ overrun' = overrun \cup {Head(Ring)} /\ read' = read
  <2> DEFINE h == Head(Ring)
  <2>1. Ring # <<>>
    BY <1>c, VhidAssumption
  <2>2. /\ h \in Elems(Ring) /\ Tail(Ring) \in Seq(Frames)
        /\ Elems(Tail(Ring)) = Elems(Ring) \ {h} /\ Increasing(Tail(Ring))
    BY <1>0, <2>1, TailIncreasing, TailElems DEF QueueTypes, OnceInv
  <2>3. /\ Elems(Ring') = (Elems(Ring) \ {h}) \cup {f} /\ Increasing(Ring')
    <3>1. Elems(Ring') = Elems(Tail(Ring)) \cup {f}
      <4>1. PICK t \in Seq(Frames) : t = Tail(Ring)
        BY <2>2
      <4>2. Elems(Append(t, f)) = Elems(t) \cup {f}
        BY <1>1, AppendElems
      <4>3. Ring' = Append(t, f)
        BY <1>c, <4>1
      <4>4. QED
        BY <4>1, <4>2, <4>3
    <3>2. \A a \in Elems(Tail(Ring)) : a < f
      BY <1>9, <2>2
    <3>3. Increasing(Ring')
      BY <1>1, <1>c, <2>2, <3>2, AppendIncreasing
    <3>4. QED
      BY <2>2, <3>1, <3>3
  <2>4. h # f
    BY <1>0, <1>9, <2>2 DEF QueueTypes
  <2> HIDE DEF h
  <2> DEFINE r == [k \in 1..10 |-> IF k = 1 THEN p[1] \ {h}
                                   ELSE IF k = 10 THEN p[10] \cup {h}
                                   ELSE p[k]]
             d == [k \in 1..10 |-> IF k = 1 THEN l[1] \ {h}
                                   ELSE IF k = 10 THEN l[10] \cup {h}
                                   ELSE l[k]]
  <2>5. p[1] = Elems(Ring) /\ l[1] = Elems(Ring)
    BY <1>4, <1>6 DEF Places, Line
  <2>6. Moved(p, r, 1, 10, {h}) /\ Moved(l, d, 1, 10, {h})
    BY <2>2, <2>5 DEF Moved
  <2>7. Arrived(r, q, 1, f)
    BY <1>2, <1>3, <1>4, <1>5, <1>c, <2>3 DEF Places, Arrived, h
  <2>8. Arrived(d, m, 1, f)
    BY <1>2, <1>3, <1>6, <1>7, <1>c, <2>3 DEF Places, Line, Arrived, h
  <2>9. \A k \in 1..8 : d[k] \subseteq 1..fromHost
    BY <1>8
  <2> HIDE DEF f, r, d
  <2>10. Conserved(r, fromHost)
    BY <1>10, <2>6, Move
  <2>11. Conserved(q, f)
    BY <1>10, <2>7, <2>10, Arrive DEF f
  <2>12. ASSUME NEW n \in {4, 8}, Falling(l, n) PROVE Falling(m, n)
    <3>1. n \in 1..10
      OBVIOUS
    <3>2. Passes(l, n, 1, 10, {h}) /\ \A k \in 1..n : l[k] \subseteq Nat
      BY <1>8 DEF Passes
    <3>3. Falling(d, n)
      BY <2>6, <2>12, <3>1, <3>2, LineMove
    <3>4. Newest(d, n, 1, fromHost)
      BY <2>9 DEF Newest
    <3>5. QED
      BY <1>10, <2>8, <3>1, <3>3, <3>4, LineArrive DEF f
  <2>13. QED
    BY <1>0, <1>2, <1>3, <1>5, <1>6, <1>7, <2>3, <2>11, <2>12
       DEF QueueInv, LineInv, OnceInv
<1>d. QED
  BY <1>a, <1>b, <1>c DEF AbkEvtVhfWriteReport, AbkDeliverHostReport

-----------------------------------------------------------------------------
(* Types.                                                                  *)

\* The steps that change a queue of the driver.
LEMMA VhidTypes ==
  ASSUME VhidTypeOK, HandInv, VhidNext PROVE VhidTypeOK'
<1> USE DEF VhidTypeOK
<1>1. CASE AbkEvtDeviceAdd
  <2>1. Ring' = <<>> /\ Replies' = <<>> /\ Len(<<>>) = 0
    BY <1>1 DEF AbkEvtDeviceAdd, ContextReset
  <2>2. <<>> \in Seq(Frames) /\ 0 <= RingSlots /\ 0 <= ReplySlots
    BY VhidAssumption
  <2>3. devices' \in 0..MaxDevices
    BY <1>1, VhidAssumption DEF AbkEvtDeviceAdd
  <2>4. QED
    BY <1>1, <2>1, <2>2, <2>3
       DEF AbkEvtDeviceAdd, ContextReset, Modes, hostVars, replyVars
<1>2. CASE StartFails \/ VhfStart \/ SelfManagedIoInit
           \/ SelfManagedIoCleanup \/ VhfDelete
  BY <1>2 DEF StartFails, VhfStart, SelfManagedIoInit, SelfManagedIoCleanup,
              VhfDelete, contextVars, hostVars, replyVars
<1>3. ASSUME DeviceGone, vhf' \in {vhf, "none"} PROVE VhidTypeOK'
  <2>1. Ring' = <<>> /\ Replies' = <<>> /\ Len(<<>>) = 0
    BY <1>3 DEF DeviceGone, ContextReset
  <2>2. <<>> \in Seq(Frames) /\ 0 <= RingSlots /\ 0 <= ReplySlots
    BY VhidAssumption
  <2>3. read' \in [at : {"none", "queued", "done"}, frame : Frames \cup {None}]
    BY <1>3 DEF DeviceGone, NoRead
  <2>4. overrun' \subseteq Frames
    BY <1>3 DEF DeviceGone
  <2>5. QED
    BY <1>3, <2>1, <2>2, <2>3, <2>4
       DEF DeviceGone, ContextReset, Modes, replyVars
<1>4. CASE DeviceRemoved \/ AbkEvtDeviceCleanup
  BY <1>3, <1>4 DEF DeviceRemoved, AbkEvtDeviceCleanup
<1>5. CASE AbkEvtVhfWriteReport
  <2> DEFINE f == fromHost + 1
  <2>1. f \in Frames /\ fromHost' = f /\ f \in 0..MaxFrames
    BY <1>5, VhidAssumption DEF Frames, AbkEvtVhfWriteReport
  <2>2. build.out \in BOOLEAN
    BY VhidAssumption DEF HostKind
  <2> HIDE DEF f
  <2>3. CASE read' = [at |-> "done", frame |-> f] /\ UNCHANGED <<Ring, overrun>>
    BY <1>5, <2>1, <2>2, <2>3 DEF AbkEvtVhfWriteReport, pnpVars, replyVars
  <2>4. ASSUME NEW t \in Seq(Frames), NEW O \in SUBSET Frames,
               Ring' = Append(t, f), overrun' = O, Len(t) < RingSlots,
               read' = read
        PROVE  VhidTypeOK'
    <3>1. Ring' \in Seq(Frames) /\ Len(Ring') <= RingSlots
      BY <2>1, <2>4, VhidAssumption
    <3>2. QED
      BY <1>5, <2>1, <2>2, <2>4, <3>1
         DEF AbkEvtVhfWriteReport, pnpVars, replyVars
  <2>5. CASE /\ Len(Ring) = RingSlots /\ Ring' = Append(Tail(Ring), f)
             /\ overrun' = overrun \cup {Head(Ring)} /\ read' = read
    <3>1. Ring # <<>>
      BY <2>5, VhidAssumption
    <3>2. /\ Tail(Ring) \in Seq(Frames) /\ Len(Tail(Ring)) < RingSlots
          /\ overrun \cup {Head(Ring)} \subseteq Frames
      BY <2>5, <3>1, VhidAssumption
    <3>3. QED
      BY <2>4, <2>5, <3>2
  <2>6. CASE /\ Len(Ring) # RingSlots /\ Ring' = Append(Ring, f)
             /\ overrun' = overrun /\ read' = read
    <3>1. Len(Ring) < RingSlots
      BY <2>6, VhidAssumption
    <3>2. QED
      BY <2>4, <2>6, <3>1
  <2>7. QED
    BY <1>5, <2>3, <2>5, <2>6
       DEF AbkEvtVhfWriteReport, AbkDeliverHostReport, f
<1>6. CASE AbkEvtVhfGetInputReport
  <2>1. /\ Head(Replies) \in Frames /\ Tail(Replies) \in Seq(Frames)
        /\ Len(Tail(Replies)) <= ReplySlots
    BY <1>6, VhidAssumption DEF AbkEvtVhfGetInputReport
  <2>2. hostGot' \in Seq(Frames)
    BY <1>6, <2>1 DEF AbkEvtVhfGetInputReport
  <2>3. QED
    BY <1>6, <2>1, <2>2 DEF AbkEvtVhfGetInputReport, pnpVars, replyVars
<1>7. QED
  BY <1>1, <1>2, <1>4, <1>5, <1>6 DEF VhidNext

\* The agent's calls of the driver.
LEMMA CallTypes ==
  ASSUME TypeOK, HandInv,
         \/ SetReportMode(~(agent /\ handleOk))
         \/ CallRead \/ ReadReturns \/ Exit \/ WriteReply \/ Submit
  PROVE  VhidTypeOK'
<1> USE DEF TypeOK, VhidTypeOK
<1>1. CASE SetReportMode(~(agent /\ handleOk))
  BY <1>1 DEF SetReportMode, Modes, pnpVars, hostVars, replyVars
<1>2. CASE CallRead
  <2>1. CASE /\ Ring # <<>> /\ Ring' = Tail(Ring)
             /\ read' = [at |-> "done", frame |-> Head(Ring)]
    <3>1. /\ Head(Ring) \in Frames /\ Ring' \in Seq(Frames)
          /\ Len(Ring') <= RingSlots
      BY <2>1, VhidAssumption
    <3>2. QED
      BY <1>2, <2>1, <3>1
         DEF CallRead, AbkEvtIoRead, pnpVars, hostVars, replyVars
  <2>2. CASE Ring' = Ring /\ read' = [at |-> "queued", frame |-> None]
    BY <1>2, <2>2 DEF CallRead, AbkEvtIoRead, pnpVars, hostVars, replyVars
  <2>3. QED
    BY <1>2, <2>1, <2>2 DEF CallRead, AbkEvtIoRead
<1>3. CASE ReadReturns \/ Exit
  <2>1. read' \in [at : {"none", "queued", "done"}, frame : Frames \cup {None}]
    BY <1>3 DEF ReadReturns, Exit, NoRead
  <2>2. QED
    BY <1>3, <2>1
       DEF ReadReturns, Exit, pnpVars, contextVars, hostVars, replyVars
<1>4. CASE WriteReply
  <2>1. Head(fromPhone) \in Frames
    BY <1>4 DEF WriteReply
  <2>2. write' \in [reply : Frames \cup {None}, leads : BOOLEAN,
                    auto : BOOLEAN]
    BY <1>4, <2>1 DEF WriteReply, ChooseShape
  <2>3. QED
    BY <1>4, <2>2
       DEF WriteReply, ChooseShape, pnpVars, contextVars, hostVars, replyVars
<1>5. CASE Submit
  <2>1. write.reply \in Frames /\ NoWrite \in
          [reply : Frames \cup {None}, leads : BOOLEAN, auto : BOOLEAN]
    BY <1>5 DEF Submit, SubmitAccepted, SubmitRefused, HandInv, NoWrite
  <2>2. CASE SubmitRefused
    BY <2>1, <2>2 DEF SubmitRefused, pnpVars, contextVars, hostVars, replyVars
  <2>3. CASE SubmitAccepted
    <3>1. submitted' \in Seq(Frames) /\ hostGot' \in Seq(Frames)
      BY <2>1, <2>3 DEF SubmitAccepted
    <3>2. Replies' \in Seq(Frames) /\ Len(Replies') <= ReplySlots
      <4>1. CASE Len(Replies) = ReplySlots
        <5>1. PICK t : t = Tail(Replies)
          OBVIOUS
        <5>2. t \in Seq(Frames) /\ Len(t) = ReplySlots - 1
          BY <4>1, <5>1, VhidAssumption
        <5>3. Replies' = Append(t, write.reply)
          BY <2>3, <4>1, <5>1 DEF SubmitAccepted
        <5>4. QED
          BY <2>1, <5>2, <5>3, VhidAssumption
      <4>2. CASE Len(Replies) # ReplySlots
        BY <2>1, <2>3, <4>2, VhidAssumption DEF SubmitAccepted
      <4>3. QED
        BY <4>1, <4>2
    <3>3. misplaced' \in BOOLEAN
      BY <2>3 DEF SubmitAccepted
    <3>4. QED
      BY <2>1, <2>3, <3>1, <3>2, <3>3 DEF SubmitAccepted, pnpVars
  <2>4. QED
    BY <1>5, <2>2, <2>3 DEF Submit
<1>6. QED
  BY <1>1, <1>2, <1>3, <1>4, <1>5

\* The agent's own variables.
AgentTypeOK ==
  /\ agent \in BOOLEAN /\ agents \in 0..MaxAgents /\ handle \in 0..MaxDevices
  /\ reader \in [at : {"read", "got", "push", "stopped"},
                 packet : Frames \cup {None}, to : 0..MaxSessions]
  /\ relay \in {"down", "hello", "moving", "open", "failed"}
  /\ active \in 0..MaxSessions /\ session \in 0..MaxSessions
  /\ overtaken \in BOOLEAN
NetTypeOK ==
  /\ pending \in Seq(Frames) /\ Len(pending) <= MaxPending
  /\ moving \in Seq(Frames) /\ Len(moving) <= MaxPending
  /\ packets \in Seq(Frames) /\ Len(packets) <= MaxPending
  /\ toPhone \in Seq(Frames) /\ fromPhone \in Seq(Frames)
  /\ phoneGot \in Seq(Frames) /\ atPhone \subseteq Frames
  /\ lost \subseteq Frames

LEMMA TypeParts == TypeOK <=> VhidTypeOK /\ AgentTypeOK /\ NetTypeOK
BY DEF TypeOK, AgentTypeOK, NetTypeOK

\* What a step of the agent may do.
AgentStep ==
  \/ Start \/ Exit
  \/ CallRead \/ ReadReturns \/ ReadFails \/ Route \/ Push \/ PushTooLate
  \/ Connect \/ Subscribe \/ MovePending \/ Subscribed \/ SendPacket
  \/ PhoneTakes \/ WriteReply \/ WriteReplyFails \/ Submit \/ SessionEnds

LEMMA AgentTypes ==
  ASSUME VhidTypeOK, AgentTypeOK, HandInv, AgentStep PROVE AgentTypeOK'
<1> USE DEF AgentTypeOK
<1>0. Idle \in [at : {"read", "got", "push", "stopped"},
                packet : Frames \cup {None}, to : 0..MaxSessions]
  BY AgentAssumption DEF Idle
<1>1. CASE Start \/ Exit
  <2>1. CASE Start
    <3>1. agents' \in 0..MaxAgents /\ handle' \in 0..MaxDevices
      BY <2>1, AgentAssumption DEF Start, VhidTypeOK
    <3>2. QED
      BY <1>0, <2>1, <3>1 DEF Start, hubVars
  <2>2. CASE Exit
    <3>1. 0 \in 0..MaxSessions
      BY AgentAssumption
    <3>2. QED
      BY <1>0, <2>2, <3>1 DEF Exit, countVars
  <2>3. QED
    BY <1>1, <2>1, <2>2
<1>2. CASE CallRead \/ MovePending \/ Subscribed \/ SendPacket
           \/ PhoneTakes \/ WriteReply \/ WriteReplyFails \/ Submit
  BY <1>2 DEF CallRead, MovePending, Subscribed, SendPacket, PhoneTakes,
              WriteReply, WriteReplyFails, Submit, hubVars, countVars
<1>3. CASE ReadReturns
  <2>1. reader' \in [at : {"read", "got", "push", "stopped"},
                     packet : Frames \cup {None}, to : 0..MaxSessions]
    BY <1>3, AgentAssumption DEF ReadReturns, VhidTypeOK
  <2>2. QED
    BY <1>3, <2>1 DEF ReadReturns, hubVars, countVars
<1>4. CASE ReadFails
  <2>1. reader' \in [at : {"read", "got", "push", "stopped"},
                     packet : Frames \cup {None}, to : 0..MaxSessions]
    BY <1>0, <1>4 DEF ReadFails
  <2>2. active' \in 0..MaxSessions
    BY <1>4, AgentAssumption DEF ReadFails
  <2>3. QED
    BY <1>4, <2>1, <2>2 DEF ReadFails, countVars
<1>5. CASE Route \/ Push \/ PushTooLate
  <2>1. reader' \in [at : {"read", "got", "push", "stopped"},
                     packet : Frames \cup {None}, to : 0..MaxSessions]
    BY <1>0, <1>5 DEF Route, Push, PushTooLate
  <2>2. QED
    BY <1>5, <2>1 DEF Route, Push, PushTooLate, hubVars, countVars
<1>6. CASE Connect
  <2>1. session' \in 0..MaxSessions
    BY <1>6, AgentAssumption DEF Connect
  <2>2. QED
    BY <1>6, <2>1 DEF Connect, hubVars
<1>7. CASE Subscribe \/ SessionEnds
  <2>1. 0 \in 0..MaxSessions
    BY AgentAssumption
  <2>2. CASE Subscribe
    BY <2>2 DEF Subscribe, countVars
  <2>3. CASE SessionEnds
    BY <2>1, <2>3 DEF SessionEnds, countVars
  <2>4. QED
    BY <1>7, <2>2, <2>3
<1>8. QED
  BY <1>1, <1>2, <1>3, <1>4, <1>5, <1>6, <1>7 DEF AgentStep

LEMMA NetTypes ==
  ASSUME VhidTypeOK, AgentTypeOK, NetTypeOK, HandInv, AgentStep
  PROVE  NetTypeOK'
<1> USE DEF NetTypeOK
<1>0. <<>> \in Seq(Frames) /\ Len(<<>>) = 0 /\ 0 <= MaxPending
  BY AgentAssumption
<1>s. ASSUME NEW s \in Seq(Frames) PROVE Elems(s) \subseteq Frames
  BY DEF Elems
<1>1. CASE Start \/ CallRead \/ ReadReturns \/ ReadFails \/ Connect
           \/ WriteReplyFails \/ Submit
  BY <1>1 DEF Start, CallRead, ReadReturns, ReadFails, Connect,
              WriteReplyFails, Submit, hubVars, netVars
<1>r. CASE Subscribed
  <2>1. lost' \subseteq Frames
    BY <1>r, <1>s DEF Subscribed
  <2>2. QED
    BY <1>0, <1>r, <2>1 DEF Subscribed, netVars
<1>2. CASE Exit
  <2>1. lost' \subseteq Frames
    <3>1. {reader.packet, read.frame} \ {None} \subseteq Frames
      BY DEF AgentTypeOK, VhidTypeOK
    <3>2. /\ Elems(pending) \subseteq Frames /\ Elems(moving) \subseteq Frames
          /\ Elems(packets) \subseteq Frames /\ Elems(toPhone) \subseteq Frames
      BY <1>s
    <3>3. QED
      BY <1>2, <3>1, <3>2 DEF Exit
  <2>2. QED
    BY <1>0, <1>2, <2>1 DEF Exit
<1>3. CASE Route
  <2>1. reader.packet \in Frames
    BY <1>3 DEF Route, HandInv
  <2>2. CASE pending' = pending
    BY <1>3, <2>1, <2>2 DEF Route, netVars
  <2>3. CASE /\ Len(pending) < MaxPending /\ lost' = lost
             /\ pending' = Append(pending, reader.packet)
    <3>1. pending' \in Seq(Frames) /\ Len(pending') <= MaxPending
      BY <2>1, <2>3, AgentAssumption
    <3>2. QED
      BY <1>3, <2>3, <3>1 DEF Route, netVars
  <2>4. QED
    BY <1>3, <2>2, <2>3 DEF Route
<1>4. CASE Push
  <2>1. reader.packet \in Frames
    BY <1>4 DEF Push, HandInv
  <2>2. packets' \in Seq(Frames) /\ Len(packets') <= MaxPending
    BY <1>4, <2>1, AgentAssumption DEF Push
  <2>3. QED
    BY <1>4, <2>2 DEF Push, netVars
<1>5. CASE PushTooLate
  BY <1>5 DEF PushTooLate, HandInv, hubVars, netVars
<1>6. CASE Subscribe
  BY <1>0, <1>6 DEF Subscribe, netVars
<1>7. CASE MovePending
  <2>1. /\ Head(moving) \in Frames /\ moving' \in Seq(Frames)
        /\ Len(moving') <= MaxPending
    BY <1>7, AgentAssumption DEF MovePending
  <2>2. packets' \in Seq(Frames) /\ Len(packets') <= MaxPending
    BY <1>7, <2>1, AgentAssumption DEF MovePending
  <2>3. QED
    BY <1>7, <2>1, <2>2 DEF MovePending, netVars
<1>8. CASE SendPacket
  <2>1. /\ Head(packets) \in Frames /\ packets' \in Seq(Frames)
        /\ Len(packets') <= MaxPending
    BY <1>8, AgentAssumption DEF SendPacket
  <2>2. toPhone' \in Seq(Frames)
    BY <1>8, <2>1 DEF SendPacket
  <2>3. QED
    BY <1>8, <2>1, <2>2 DEF SendPacket
<1>9. CASE PhoneTakes
  <2>1. Head(toPhone) \in Frames /\ toPhone' \in Seq(Frames)
    BY <1>9 DEF PhoneTakes
  <2>2. phoneGot' \in Seq(Frames) /\ fromPhone' \in Seq(Frames)
    <3>1. PICK h \in Frames : h = Head(toPhone)
      BY <2>1
    <3>2. /\ phoneGot' = Append(phoneGot, h)
          /\ fromPhone' \in {fromPhone, Append(fromPhone, h)}
      BY <1>9, <3>1 DEF PhoneTakes
    <3>3. Append(phoneGot, h) \in Seq(Frames) /\ Append(fromPhone, h) \in Seq(Frames)
      BY <3>1
    <3>4. QED
      BY <3>2, <3>3
  <2>3. QED
    BY <1>9, <2>1, <2>2 DEF PhoneTakes, hubVars
<1>10. CASE WriteReply
  <2>1. fromPhone' \in Seq(Frames)
    BY <1>10 DEF WriteReply
  <2>2. QED
    BY <1>10, <2>1 DEF WriteReply, hubVars
<1>11. CASE SessionEnds
  <2>1. Elems(packets) \subseteq Frames /\ Elems(toPhone) \subseteq Frames
    BY <1>s
  <2>2. QED
    BY <1>0, <1>11, <2>1 DEF SessionEnds
<1>12. QED
  BY <1>1, <1>2, <1>3, <1>4, <1>5, <1>6, <1>7, <1>8, <1>9, <1>10, <1>11,
     <1>r DEF AgentStep

\* A step is one of the driver, of the control tool or of the agent.
LEMMA StepKinds ==
  ASSUME [Next]_vars
  PROVE  \/ VhidNext /\ AgentRest
         \/ SetReportMode(~(agent /\ handleOk)) /\ AgentRest
         \/ AgentStep
         \/ UNCHANGED vars
BY DEF Next, AgentStep

\* The steps of the agent that do not call the driver.
Alone ==
  \/ Start \/ ReadFails \/ Route \/ Push \/ PushTooLate \/ Connect
  \/ Subscribe \/ MovePending \/ Subscribed \/ SendPacket \/ PhoneTakes
  \/ WriteReplyFails \/ SessionEnds
LEMMA AloneKeeps == Alone => UNCHANGED vhidVars
BY DEF Alone, Start, ReadFails, Route, Push, PushTooLate, Connect, Subscribe,
       MovePending, Subscribed, SendPacket, PhoneTakes, WriteReplyFails,
       SessionEnds

LEMMA TypeStep == ASSUME TypeOK, HandInv, [Next]_vars PROVE TypeOK'
<1>0. VhidTypeOK /\ AgentTypeOK /\ NetTypeOK
  BY TypeParts
<1>1. UNCHANGED vhidVars => VhidTypeOK'
  BY <1>0 DEF VhidTypeOK, vhidVars, pnpVars, contextVars, hostVars, replyVars
<1>2. VhidTypeOK'
  <2>1. Alone \/ CallRead \/ ReadReturns \/ Exit \/ WriteReply \/ Submit
          <=> AgentStep
    BY DEF AgentStep, Alone
  <2>2. UNCHANGED vars => UNCHANGED vhidVars
    BY DEF vars
  <2>3. QED
    BY <1>0, <1>1, <2>1, <2>2, StepKinds, AloneKeeps, VhidTypes, CallTypes
<1>3. CASE AgentRest \/ UNCHANGED vars
  <2>1. AgentTypeOK' /\ NetTypeOK'
    BY <1>0, <1>3 DEF AgentTypeOK, NetTypeOK, AgentRest, vars, hubVars,
                      netVars, countVars
  <2>2. QED
    BY <1>2, <2>1 DEF TypeOK, AgentTypeOK, NetTypeOK
<1>4. CASE AgentStep
  <2>1. AgentTypeOK' /\ NetTypeOK'
    BY <1>0, <1>4, AgentTypes, NetTypes
  <2>2. QED
    BY <1>2, <2>1 DEF TypeOK, AgentTypeOK, NetTypeOK
<1>5. QED
  BY <1>3, <1>4, StepKinds

-----------------------------------------------------------------------------
(* The device, the hands and the process.                                  *)

LEMMA PnpStep == ASSUME TypeOK, PnpInv, [Next]_vars PROVE PnpInv'
<1> USE DEF PnpInv
<1>1. CASE UNCHANGED <<dev, vhf, VhfStarted, Ring>>
  BY <1>1
<1>2. CASE VhidNext
  <2>1. CASE AbkEvtDeviceAdd \/ StartFails \/ VhfStart \/ SelfManagedIoInit
             \/ SelfManagedIoCleanup \/ VhfDelete
    BY <2>1 DEF AbkEvtDeviceAdd, ContextReset, StartFails, VhfStart,
                SelfManagedIoInit, SelfManagedIoCleanup, VhfDelete, contextVars
  <2>2. CASE DeviceRemoved \/ AbkEvtDeviceCleanup
    BY <2>2 DEF DeviceRemoved, AbkEvtDeviceCleanup, DeviceGone, ContextReset
  <2>3. CASE AbkEvtVhfWriteReport
    <3>1. dev' = dev /\ vhf' = vhf /\ VhfStarted' = VhfStarted
          /\ vhf = "started"
      BY <2>3 DEF AbkEvtVhfWriteReport, pnpVars
    <3>2. QED
      BY <3>1
  <2>4. CASE AbkEvtVhfGetInputReport
    BY <2>4, <1>1 DEF AbkEvtVhfGetInputReport, pnpVars
  <2>5. QED
    BY <1>2, <2>1, <2>2, <2>3, <2>4 DEF VhidNext
<1>3. CASE SetReportMode(~(agent /\ handleOk))
  BY <1>3, <1>1 DEF SetReportMode, pnpVars
<1>4. CASE CallRead
  <2>1. dev' = dev /\ vhf' = vhf /\ VhfStarted' = VhfStarted
        /\ dev # "absent"
    BY <1>4 DEF CallRead, AbkEvtIoRead, pnpVars
  <2>2. QED
    BY <2>1
<1>5. CASE ReadReturns \/ Exit \/ WriteReply \/ Submit
  BY <1>5, <1>1 DEF ReadReturns, Exit, WriteReply, ChooseShape, Submit,
                    SubmitAccepted, SubmitRefused, pnpVars, contextVars
<1>6. CASE Alone \/ UNCHANGED vars
  BY <1>1, <1>6, AloneKeeps DEF vars, vhidVars, pnpVars, contextVars
<1>7. QED
  BY <1>2, <1>3, <1>4, <1>5, <1>6, StepKinds DEF AgentStep, Alone

LEMMA HandStep == ASSUME TypeOK, HandInv, [Next]_vars PROVE HandInv'
<1> USE VhidAssumption DEF HandInv, NoMissedReport
<1>0. ASSUME read' = read, write' = write, reader' = reader, Ring' = Ring
      PROVE  HandInv'
  BY <1>0
<1>1. CASE VhidNext /\ AgentRest
  <2>1. write' = write /\ reader' = reader
    BY <1>1 DEF VhidNext, AgentRest, AbkEvtDeviceAdd, StartFails, VhfStart,
                SelfManagedIoInit, SelfManagedIoCleanup, VhfDelete,
                DeviceRemoved, AbkEvtDeviceCleanup, DeviceGone,
                AbkEvtVhfWriteReport, AbkEvtVhfGetInputReport
  <2>2. CASE AbkEvtDeviceAdd
    BY <2>1, <2>2 DEF AbkEvtDeviceAdd, ContextReset
  <2>3. CASE StartFails \/ VhfStart \/ SelfManagedIoInit
             \/ SelfManagedIoCleanup \/ VhfDelete \/ AbkEvtVhfGetInputReport
    BY <2>1, <2>3 DEF StartFails, VhfStart, SelfManagedIoInit,
         SelfManagedIoCleanup, VhfDelete, AbkEvtVhfGetInputReport, contextVars
  <2>4. CASE DeviceRemoved \/ AbkEvtDeviceCleanup
    <3>1. Ring' = <<>> /\ (read' = read \/ read' = NoRead)
      BY <2>4 DEF DeviceRemoved, AbkEvtDeviceCleanup, DeviceGone, ContextReset
    <3>2. QED
      BY <2>1, <3>1 DEF NoRead
  <2>5. CASE AbkEvtVhfWriteReport
    <3>1. fromHost + 1 \in Frames
      BY <2>5 DEF AbkEvtVhfWriteReport, Frames, TypeOK, VhidTypeOK
    <3>2. CASE /\ read' = [at |-> "done", frame |-> fromHost + 1]
               /\ Ring' = Ring
      BY <2>1, <3>1, <3>2
    <3>3. CASE read' = read /\ read.at # "queued"
      BY <2>1, <3>3
    <3>4. QED
      BY <2>5, <3>2, <3>3 DEF AbkEvtVhfWriteReport, AbkDeliverHostReport
  <2>6. QED
    BY <1>1, <2>2, <2>3, <2>4, <2>5 DEF VhidNext
<1>2. CASE SetReportMode(~(agent /\ handleOk)) /\ AgentRest
  BY <1>2, <1>0 DEF SetReportMode, AgentRest
<1>3. CASE CallRead
  <2>1. CASE /\ Ring # <<>>
             /\ read' = [at |-> "done", frame |-> Head(Ring)]
    <3>1. Head(Ring) \in Frames
      BY <2>1 DEF TypeOK, VhidTypeOK
    <3>2. QED
      BY <1>3, <2>1, <3>1 DEF CallRead, AbkEvtIoRead
  <2>2. CASE Ring = <<>> /\ Ring' = Ring
             /\ read' = [at |-> "queued", frame |-> None]
    BY <1>3, <2>2 DEF CallRead, AbkEvtIoRead
  <2>3. QED
    BY <1>3, <2>1, <2>2 DEF CallRead, AbkEvtIoRead
<1>4. CASE ReadReturns
  BY <1>4 DEF ReadReturns, NoRead, contextVars
<1>5. CASE Exit
  BY <1>5 DEF Exit, NoRead, Idle, contextVars
<1>6. CASE WriteReply
  <2>1. Head(fromPhone) \in Frames
    BY <1>6 DEF WriteReply, TypeOK
  <2>2. write'.reply \in Frames
    BY <1>6, <2>1 DEF WriteReply, ChooseShape
  <2>3. QED
    BY <1>6, <2>2 DEF WriteReply, ChooseShape, contextVars
<1>7. CASE Submit
  BY <1>7 DEF Submit, SubmitAccepted, SubmitRefused, contextVars
<1>8. CASE Alone
  <2>1. read' = read /\ write' = write /\ Ring' = Ring
    BY <1>8, AloneKeeps DEF vhidVars, contextVars
  <2>2. CASE reader' = reader
    BY <2>1, <2>2
  <2>3. CASE reader' = Idle \/ reader' = [Idle EXCEPT !.at = "stopped"]
    BY <2>1, <2>3 DEF Idle
  <2>4. CASE reader.at = "got"
             /\ reader' = [reader EXCEPT !.at = "push", !.to = active]
    BY <2>1, <2>4 DEF TypeOK
  <2>5. QED
    BY <1>8, <2>2, <2>3, <2>4
       DEF Alone, Start, ReadFails, Route, Push, PushTooLate, Connect,
           Subscribe, MovePending, Subscribed, SendPacket, PhoneTakes,
           WriteReplyFails, SessionEnds
<1>9. CASE UNCHANGED vars
  BY <1>9 DEF vars, vhidVars, contextVars
<1>10. QED
  BY <1>1, <1>2, <1>3, <1>4, <1>5, <1>6, <1>7, <1>8, <1>9, StepKinds
     DEF AgentStep, Alone

LEMMA OffStep == ASSUME TypeOK, OffInv, [Next]_vars PROVE OffInv'
<1> USE DEF OffInv
<1>0. devices \in Nat /\ handle \in Nat
  BY DEF TypeOK, VhidTypeOK
<1>1. CASE VhidNext /\ AgentRest
  <2>1. /\ agent' = agent /\ relay' = relay /\ reader' = reader
        /\ pending' = pending /\ handle' = handle
    BY <1>1 DEF AgentRest, hubVars, countVars
  <2>w. write' = write
    BY <1>1 DEF VhidNext, AbkEvtDeviceAdd, StartFails, VhfStart,
         SelfManagedIoInit, SelfManagedIoCleanup, VhfDelete, DeviceRemoved,
         AbkEvtDeviceCleanup, DeviceGone, AbkEvtVhfWriteReport,
         AbkEvtVhfGetInputReport
  <2>2. read = NoRead => read' = NoRead
    BY <1>1 DEF VhidNext, AbkEvtDeviceAdd, StartFails, VhfStart,
         SelfManagedIoInit, SelfManagedIoCleanup, VhfDelete, DeviceRemoved,
         AbkEvtDeviceCleanup, DeviceGone, AbkEvtVhfWriteReport,
         AbkDeliverHostReport, AbkEvtVhfGetInputReport, NoRead
  <2>3. devices' = devices \/ devices' = devices + 1
    BY <1>1 DEF VhidNext, AbkEvtDeviceAdd, StartFails, VhfStart,
         SelfManagedIoInit, SelfManagedIoCleanup, VhfDelete, DeviceRemoved,
         AbkEvtDeviceCleanup, DeviceGone, AbkEvtVhfWriteReport,
         AbkDeliverHostReport, AbkEvtVhfGetInputReport, pnpVars
  <2>4. QED
    BY <1>0, <2>1, <2>2, <2>3, <2>w
<1>2. CASE SetReportMode(~(agent /\ handleOk)) /\ AgentRest
  BY <1>2 DEF SetReportMode, AgentRest, hubVars, countVars, pnpVars
<1>3. CASE Start
  BY <1>0, <1>3 DEF Start, vhidVars, pnpVars
<1>4. CASE Exit
  BY <1>4 DEF Exit, pnpVars, countVars
<1>5. CASE CallRead \/ ReadReturns
  BY <1>5 DEF CallRead, AbkEvtIoRead, ReadReturns, hubVars, countVars, pnpVars
<1>b. CASE WriteReply \/ Submit
  <2>1. agent
    BY <1>b DEF WriteReply, Submit, SubmitAccepted, SubmitRefused
  <2>2. agent' = agent /\ handle' = handle /\ devices' = devices
    BY <1>b DEF WriteReply, ChooseShape, Submit, SubmitAccepted,
         SubmitRefused, countVars, pnpVars
  <2>3. QED
    BY <2>1, <2>2
<1>6. CASE Alone /\ ~Start
  <2>1. read' = read /\ write' = write /\ devices' = devices
    BY <1>6, AloneKeeps DEF vhidVars, pnpVars
  <2>2. agent' = agent /\ handle' = handle
    BY <1>6 DEF Alone, ReadFails, Route, Push, PushTooLate, Connect,
         Subscribe, MovePending, Subscribed, SendPacket, PhoneTakes,
         WriteReplyFails, SessionEnds, countVars
  <2>3. ~agent => relay' = relay /\ reader' = reader /\ pending' = pending
    BY <1>6 DEF Alone, ReadFails, Route, Push, PushTooLate, Connect,
         Subscribe, MovePending, Subscribed, SendPacket, PhoneTakes,
         WriteReplyFails, SessionEnds, hubVars, Idle
  <2>4. QED
    BY <2>1, <2>2, <2>3
<1>7. CASE UNCHANGED vars
  BY <1>7 DEF vars, vhidVars, pnpVars, hubVars, countVars
<1>8. QED
  BY <1>1, <1>2, <1>3, <1>4, <1>5, <1>b, <1>6, <1>7, StepKinds DEF AgentStep, Alone

-----------------------------------------------------------------------------
(* The relay.                                                              *)

LEMMA RelayStep ==
  ASSUME TypeOK, HandInv, OffInv, RelayInv, [Next]_vars PROVE RelayInv'
<1> USE DEF RelayInv
<1>1. CASE UNCHANGED <<active, session, relay, reader, pending, moving,
                       packets, toPhone, fromPhone, phoneGot, write>>
  BY <1>1
<1>2. CASE \/ VhidNext /\ AgentRest
           \/ SetReportMode(~(agent /\ handleOk)) /\ AgentRest
           \/ UNCHANGED vars
  <2>1. write' = write
    BY <1>2 DEF VhidNext, AbkEvtDeviceAdd, StartFails, VhfStart,
         SelfManagedIoInit, SelfManagedIoCleanup, VhfDelete, DeviceRemoved,
         AbkEvtDeviceCleanup, DeviceGone, AbkEvtVhfWriteReport,
         AbkEvtVhfGetInputReport, SetReportMode, vars, vhidVars
  <2>2. QED
    BY <1>1, <1>2, <2>1 DEF AgentRest, vars, hubVars, netVars, countVars, vhidVars
<1>3. CASE Start
  <2>1. ~agent /\ relay = "down"
    BY <1>3 DEF Start, OffInv
  <2>2. QED
    BY <1>3, <2>1 DEF Start, hubVars, netVars, vhidVars
<1>4. CASE Exit
  BY <1>4 DEF Exit, countVars, vhidVars
<1>5. CASE CallRead \/ ReadReturns
  BY <1>5 DEF CallRead, AbkEvtIoRead, ReadReturns, hubVars, netVars, countVars, vhidVars
<1>6. CASE ReadFails
  BY <1>6 DEF ReadFails, muFree, Idle, netVars, countVars, vhidVars
<1>7. CASE Route
  BY <1>7 DEF Route, muFree, Idle, netVars, countVars, vhidVars
<1>8. CASE Push
  BY <1>8 DEF Push, Idle, netVars, countVars, vhidVars
<1>9. CASE PushTooLate
  BY <1>9 DEF PushTooLate, Idle, hubVars, netVars, countVars, vhidVars
<1>10. CASE Connect
  BY <1>10, AgentAssumption DEF Connect, hubVars, netVars, vhidVars, TypeOK
<1>11. CASE Subscribe
  BY <1>11 DEF Subscribe, muFree, netVars, countVars, vhidVars
<1>12. CASE MovePending
  BY <1>12 DEF MovePending, netVars, countVars, vhidVars
<1>13. CASE Subscribed
  BY <1>13 DEF Subscribed, hubVars, netVars, countVars, vhidVars
<1>14. CASE SendPacket
  BY <1>14 DEF SendPacket, netVars, countVars, vhidVars
<1>15. CASE PhoneTakes
  BY <1>15 DEF PhoneTakes, hubVars, countVars, vhidVars
<1>16. CASE WriteReply
  BY <1>16 DEF WriteReply, ChooseShape, hubVars, countVars, vhidVars
<1>17. CASE WriteReplyFails
  BY <1>17 DEF WriteReplyFails, muFree, hubVars, netVars, countVars, vhidVars
<1>18. CASE Submit
  <2>1. relay' = relay \/ relay' = "failed"
    BY <1>18 DEF Submit
  <2>2. QED
    BY <1>18, <2>1 DEF Submit, SubmitAccepted, SubmitRefused, hubVars,
                       netVars, countVars
<1>19. CASE SessionEnds
  BY <1>19 DEF SessionEnds, muFree, countVars, vhidVars
<1>20. QED
  BY <1>2, <1>3, <1>4, <1>5, <1>6, <1>7, <1>8, <1>9, <1>10, <1>11, <1>12,
     <1>13, <1>14, <1>15, <1>16, <1>17, <1>18, <1>19, StepKinds DEF AgentStep

-----------------------------------------------------------------------------
(* Shapes and replies.                                                     *)

\* Only the agent's process fills its hands, from the ring.
LEMMA HoldsStep ==
  ASSUME TypeOK, HandInv, OffInv, RelayInv, AgentStep, HoldsOne'
  PROVE  /\ HoldsOne \/ (CallRead /\ Ring # <<>>)
         /\ ~Start /\ ~Exit
<1> USE DEF HoldsOne
<1>1. CASE Start
  BY <1>1 DEF Start, OffInv, RelayInv, Idle, NoRead, vhidVars, hubVars,
              netVars
<1>2. CASE Exit
  BY <1>2 DEF Exit, Idle, NoRead
<1>3. CASE CallRead
  <2>1. Ring = <<>> => read'.frame = None
    BY <1>3 DEF CallRead, AbkEvtIoRead
  <2>2. UNCHANGED <<reader, pending, moving, packets, toPhone, fromPhone>>
    BY <1>3 DEF CallRead, hubVars, netVars
  <2>3. ~Start /\ ~Exit
    <3>1. read' # NoRead /\ agent
      BY <1>3 DEF CallRead, AbkEvtIoRead, NoRead
    <3>2. QED
      BY <3>1 DEF Start, Exit
  <2>4. QED
    BY <1>3, <2>1, <2>2, <2>3
<1> SUFFICES ASSUME ~Start, ~Exit, ~CallRead PROVE HoldsOne
  BY <1>1, <1>2, <1>3
<1>4. CASE ReadReturns
  <2>1. read.frame # None
    BY <1>4, VhidAssumption DEF ReadReturns, HandInv
  <2>2. QED
    BY <2>1
<1>5. CASE ReadFails \/ PushTooLate
  BY <1>5 DEF ReadFails, PushTooLate, Idle, vhidVars, hubVars, netVars
<1>6. CASE Route \/ Push
  <2>1. reader.packet # None
    BY <1>6, VhidAssumption DEF Route, Push, HandInv
  <2>2. QED
    BY <2>1
<1>7. CASE Connect \/ Subscribed \/ WriteReplyFails
  BY <1>7 DEF Connect, Subscribed, WriteReplyFails, vhidVars, hubVars, netVars
<1>8. CASE Subscribe
  BY <1>8 DEF Subscribe, vhidVars, netVars
<1>9. CASE MovePending \/ SendPacket \/ PhoneTakes \/ WriteReply
  BY <1>9 DEF MovePending, SendPacket, PhoneTakes, WriteReply
<1>10. CASE Submit
  BY <1>10 DEF Submit, SubmitAccepted, SubmitRefused, hubVars, netVars
<1>11. CASE SessionEnds
  BY <1>11 DEF SessionEnds, vhidVars
<1>12. QED
  BY <1>4, <1>5, <1>6, <1>7, <1>8, <1>9, <1>10, <1>11 DEF AgentStep

LEMMA ShapeStep ==
  ASSUME TypeOK, PnpInv, HandInv, OffInv, RelayInv, ShapeInv, [Next]_vars
  PROVE  ShapeInv'
<1> USE DEF ShapeInv
<1>1. CASE VhidNext /\ AgentRest
  <2>1. /\ build' = build /\ write' = write /\ misplaced' = misplaced
        /\ handle' = handle
    BY <1>1 DEF VhidNext, AgentRest, AbkEvtDeviceAdd, StartFails, VhfStart,
         SelfManagedIoInit, SelfManagedIoCleanup, VhfDelete, DeviceRemoved,
         AbkEvtDeviceCleanup, DeviceGone, AbkEvtVhfWriteReport,
         AbkEvtVhfGetInputReport, replyVars, countVars
  <2>2. CASE AbkEvtDeviceAdd
    <3>1. devices' # handle
      BY <2>2 DEF AbkEvtDeviceAdd, OffInv, TypeOK, VhidTypeOK
    <3>2. QED
      BY <2>1, <2>2, <3>1 DEF AbkEvtDeviceAdd, ContextReset, handleOk
  <2>3. CASE StartFails \/ VhfStart \/ SelfManagedIoInit
             \/ SelfManagedIoCleanup \/ VhfDelete \/ AbkEvtVhfGetInputReport
    <3>1. /\ read' = read /\ ReportIdSeen' = ReportIdSeen
          /\ ReportIdLeads' = ReportIdLeads /\ Ring' = Ring
          /\ devices' = devices
      BY <2>3 DEF StartFails, VhfStart, SelfManagedIoInit,
           SelfManagedIoCleanup, VhfDelete, AbkEvtVhfGetInputReport,
           contextVars, pnpVars
    <3>2. handleOk' => handleOk
      BY <2>1, <2>3, <3>1 DEF handleOk, StartFails, VhfStart,
           SelfManagedIoInit, SelfManagedIoCleanup, VhfDelete,
           AbkEvtVhfGetInputReport, pnpVars
    <3>3. HoldsOne' = HoldsOne
      BY <1>1, <3>1 DEF HoldsOne, AgentRest, hubVars, netVars
    <3>4. QED
      BY <2>1, <3>1, <3>2, <3>3
  <2>4. CASE DeviceRemoved \/ AbkEvtDeviceCleanup
    <3>1. dev' = "absent" /\ Ring' = <<>> /\ ~ReportIdSeen'
      BY <2>4 DEF DeviceRemoved, AbkEvtDeviceCleanup, DeviceGone, ContextReset
    <3>2. QED
      BY <2>1, <3>1 DEF handleOk
  <2>5. CASE AbkEvtVhfWriteReport
    BY <2>1, <2>5 DEF AbkEvtVhfWriteReport
  <2>6. QED
    BY <1>1, <2>2, <2>3, <2>4, <2>5 DEF VhidNext
<1>2. CASE \/ SetReportMode(~(agent /\ handleOk)) /\ AgentRest
           \/ UNCHANGED vars
  <2>1. /\ build' = build /\ write' = write /\ misplaced' = misplaced
        /\ handle' = handle /\ dev' = dev /\ devices' = devices
        /\ ReportIdSeen' = ReportIdSeen /\ ReportIdLeads' = ReportIdLeads
        /\ Ring' = Ring /\ read' = read
    BY <1>2 DEF SetReportMode, AgentRest, vars, vhidVars, pnpVars,
         contextVars, replyVars, countVars
  <2>2. HoldsOne' = HoldsOne
    BY <1>2, <2>1 DEF HoldsOne, AgentRest, vars, hubVars, netVars
  <2>3. QED
    BY <2>1, <2>2 DEF handleOk
<1>3. CASE AgentStep
  <2>1. build' = build /\ dev' = dev /\ devices' = devices
        /\ ReportIdSeen' = ReportIdSeen /\ ReportIdLeads' = ReportIdLeads
    <3>1. CASE Alone
      BY <3>1, AloneKeeps DEF vhidVars, pnpVars, contextVars
    <3>2. CASE CallRead \/ ReadReturns \/ Exit \/ WriteReply \/ Submit
      BY <3>2 DEF CallRead, AbkEvtIoRead, ReadReturns, Exit, WriteReply,
           ChooseShape, Submit, SubmitAccepted, SubmitRefused, pnpVars,
           contextVars
    <3>3. QED
      BY <1>3, <3>1, <3>2 DEF AgentStep, Alone
  <2>2. Ring' # <<>> => Ring # <<>>
    <3>1. CASE Alone
      BY <3>1, AloneKeeps DEF vhidVars, contextVars
    <3>2. CASE CallRead \/ ReadReturns \/ Exit \/ WriteReply \/ Submit
      BY <3>2 DEF CallRead, AbkEvtIoRead, ReadReturns, Exit, WriteReply,
           ChooseShape, Submit, SubmitAccepted, SubmitRefused, contextVars
    <3>3. QED
      BY <1>3, <3>1, <3>2 DEF AgentStep, Alone
  <2>3. ~Start => handle' = handle
    BY <1>3 DEF AgentStep, Exit, CallRead, ReadReturns, ReadFails, Route,
         Push, PushTooLate, Connect, Subscribe, MovePending, Subscribed,
         SendPacket, PhoneTakes, WriteReply, WriteReplyFails, Submit,
         SessionEnds, countVars
  <2>4. (handleOk /\ HoldsOne)' => ReportIdSeen'
    BY <1>3, <2>1, <2>3, HoldsStep DEF handleOk
  <2>5. /\ write' # NoWrite /\ write'.auto => write'.leads = build.out
        /\ ~misplaced'
    <3>1. CASE WriteReply
      <4>1. handleOk /\ HoldsOne /\ fromPhone # <<>>
        BY <3>1 DEF WriteReply, HoldsOne
      <4>2. ReportIdSeen /\ ReportIdLeads = build.out
        BY <4>1
      <4>3. write'.auto => write'.leads = build.out
        BY <3>1, <4>2, VhidAssumption
           DEF WriteReply, ChooseShape, TypeOK, VhidTypeOK, HostKind
      <4>4. QED
        BY <3>1, <4>3 DEF WriteReply, ChooseShape, replyVars
    <3>2. CASE SubmitAccepted
      BY <3>2 DEF SubmitAccepted
    <3>3. CASE SubmitRefused
      BY <3>3 DEF SubmitRefused, replyVars
    <3>4. CASE Alone \/ CallRead \/ ReadReturns \/ Exit
      <4>1. write' = write /\ misplaced' = misplaced
        BY <3>4, AloneKeeps DEF vhidVars, replyVars, CallRead, AbkEvtIoRead,
           ReadReturns, Exit
      <4>2. QED
        BY <4>1
    <3>5. QED
      BY <1>3, <3>1, <3>2, <3>3, <3>4 DEF AgentStep, Alone, Submit
  <2>6. QED
    BY <2>1, <2>2, <2>4, <2>5
<1>4. QED
  BY <1>1, <1>2, <1>3, StepKinds

\* One more reply is accepted.
LEMMA AfterGrows ==
  ASSUME NEW q \in Seq(Frames), NEW r \in Frames, NEW p, p = Append(q, r)
  PROVE  /\ \A a, b : After(q, a, b) => After(p, a, b)
         /\ \A a \in Elems(q) : After(p, a, r)
         /\ Elems(p) = Elems(q) \cup {r}
<1>1. /\ \A i \in DOMAIN q : i \in DOMAIN p /\ p[i] = q[i]
      /\ \A i \in DOMAIN q : i < Len(q) + 1
      /\ Len(q) + 1 \in DOMAIN p /\ p[Len(q) + 1] = r
  OBVIOUS
<1>2. ASSUME NEW a, NEW b, After(q, a, b) PROVE After(p, a, b)
  BY <1>1, <1>2 DEF After
<1>3. ASSUME NEW a \in Elems(q) PROVE After(p, a, r)
  <2>1. PICK i \in DOMAIN q : q[i] = a
    BY DEF Elems
  <2>2. QED
    BY <1>1, <2>1 DEF After
<1>4. QED
  BY <1>2, <1>3, AppendElems

\* Sequences of replies that grow and shrink.
LEMMA InOrderAppend ==
  ASSUME NEW q, NEW s \in Seq(Frames), NEW r \in Frames,
         InOrderOf(q, s), \A a \in Elems(s) : After(q, a, r)
  PROVE  InOrderOf(q, Append(s, r))
<1>1. PICK t : t = Append(s, r)
  OBVIOUS
<1>2. /\ DOMAIN t = 1..(Len(s) + 1) /\ DOMAIN s = 1..Len(s)
      /\ \A i \in DOMAIN s : t[i] = s[i]
      /\ t[Len(s) + 1] = r /\ Len(s) \in Nat
  BY <1>1
<1>3. ASSUME NEW i \in DOMAIN t, NEW j \in DOMAIN t, i < j
      PROVE  After(q, t[i], t[j])
  <2>1. i \in DOMAIN s /\ t[i] = s[i]
    BY <1>2, <1>3
  <2>2. CASE j \in DOMAIN s
    <3>1. t[j] = s[j]
      BY <1>2, <2>2
    <3>2. After(q, s[i], s[j])
      BY <1>3, <2>1, <2>2 DEF InOrderOf
    <3>3. QED
      BY <2>1, <3>1, <3>2
  <2>3. CASE j \notin DOMAIN s
    <3>1. t[j] = r
      BY <1>2, <2>3
    <3>2. s[i] \in Elems(s)
      BY <2>1 DEF Elems
    <3>3. QED
      BY <2>1, <3>1, <3>2
  <2>4. QED
    BY <2>2, <2>3
<1>4. InOrderOf(q, t)
  BY <1>3 DEF InOrderOf
<1>5. QED
  BY <1>1, <1>4

LEMMA InOrderTail ==
  ASSUME NEW q, NEW s \in Seq(Frames), s # <<>>, InOrderOf(q, s)
  PROVE  /\ InOrderOf(q, Tail(s))
         /\ \A b \in Elems(Tail(s)) : After(q, Head(s), b)
<1>1. PICK t : t = Tail(s)
  OBVIOUS
<1>2. /\ DOMAIN t = 1..(Len(s) - 1) /\ DOMAIN s = 1..Len(s)
      /\ \A i \in DOMAIN t : i + 1 \in DOMAIN s /\ t[i] = s[i + 1]
      /\ Head(s) = s[1] /\ Len(s) \in Nat \ {0}
  BY <1>1
<1>3. ASSUME NEW i \in DOMAIN s, NEW j \in DOMAIN s, i < j
      PROVE  After(q, s[i], s[j])
  BY <1>3 DEF InOrderOf
<1>4. ASSUME NEW i \in DOMAIN t, NEW j \in DOMAIN t, i < j
      PROVE  After(q, t[i], t[j])
  <2>1. /\ t[i] = s[i + 1] /\ t[j] = s[j + 1] /\ i + 1 < j + 1
        /\ i + 1 \in DOMAIN s /\ j + 1 \in DOMAIN s
    BY <1>2, <1>4
  <2>2. After(q, s[i + 1], s[j + 1])
    BY <1>3, <2>1
  <2>3. QED
    BY <2>1, <2>2
<1>5. InOrderOf(q, t)
  BY <1>4 DEF InOrderOf
<1>6. ASSUME NEW b \in Elems(t) PROVE After(q, Head(s), b)
  <2>1. PICK i \in DOMAIN t : t[i] = b
    BY DEF Elems
  <2>2. 1 \in DOMAIN s /\ i + 1 \in DOMAIN s /\ 1 < i + 1 /\ b = s[i + 1]
    BY <1>2, <2>1
  <2>3. After(q, s[1], s[i + 1])
    BY <1>3, <2>2
  <2>4. QED
    BY <1>2, <2>2, <2>3
<1>7. QED
  BY <1>1, <1>5, <1>6

LEMMA AcceptedReplies ==
  ASSUME TypeOK, HandInv, ReplyInv, SubmitAccepted PROVE ReplyInv'
<1> DEFINE r == write.reply
<1>0. /\ r \in Frames /\ submitted \in Seq(Frames) /\ hostGot \in Seq(Frames)
      /\ Replies \in Seq(Frames) /\ build' = build
      /\ submitted' = Append(submitted, r)
      /\ build.polls \in BOOLEAN
  BY VhidAssumption
     DEF SubmitAccepted, HandInv, TypeOK, VhidTypeOK, HostKind
<1> HIDE DEF r
<1>p. PICK p : p = submitted'
  OBVIOUS
<1>1. /\ \A a, b : After(submitted, a, b) => After(p, a, b)
      /\ \A a \in Elems(submitted) : After(p, a, r)
      /\ Elems(p) = Elems(submitted) \cup {r}
  BY <1>0, <1>p, AfterGrows
<1>4. InOrderOf(p, hostGot)
  BY <1>1 DEF ReplyInv, InOrderOf
<1>5. CASE ~build.polls
  <2>1. hostGot = submitted /\ hostGot' = Append(hostGot, r)
    BY <1>5 DEF ReplyInv, SubmitAccepted, r
  <2>2. InOrderOf(p, hostGot')
    BY <1>0, <1>1, <1>4, <2>1, InOrderAppend
  <2>3. QED
    BY <1>0, <1>p, <1>5, <2>1, <2>2 DEF ReplyInv
<1>6. CASE build.polls
  <2>1. hostGot' = hostGot
    BY <1>6 DEF SubmitAccepted
  <2>3. /\ InOrderOf(p, Replies)
        /\ Elems(hostGot) \cup Elems(Replies) \subseteq Elems(submitted)
        /\ \A a \in Elems(hostGot), b \in Elems(Replies) : After(p, a, b)
    BY <1>1, <1>6 DEF ReplyInv, InOrderOf
  <2>4. PICK u \in Seq(Frames) :
          /\ Replies' = Append(u, r) /\ InOrderOf(p, u)
          /\ Elems(u) \subseteq Elems(Replies)
    <3>1. CASE Len(Replies) = ReplySlots
      <4>1. Replies # <<>>
        BY <3>1, VhidAssumption
      <4>2. /\ Tail(Replies) \in Seq(Frames) /\ InOrderOf(p, Tail(Replies))
            /\ Elems(Tail(Replies)) \subseteq Elems(Replies)
        BY <1>0, <2>3, <4>1, TailElems, InOrderTail
      <4>3. Replies' = Append(Tail(Replies), r)
        BY <3>1 DEF SubmitAccepted, r
      <4>4. QED
        BY <4>2, <4>3
    <3>2. CASE Len(Replies) # ReplySlots
      BY <1>0, <2>3, <3>2 DEF SubmitAccepted, r
    <3>3. QED
      BY <3>1, <3>2
  <2>5. PICK t : t = Append(u, r)
    OBVIOUS
  <2>6. InOrderOf(p, t)
    <3>1. \A a \in Elems(u) : After(p, a, r)
      BY <1>1, <2>3, <2>4
    <3>2. QED
      BY <1>0, <2>4, <2>5, <3>1, InOrderAppend
  <2>7. Elems(t) = Elems(u) \cup {r}
    BY <1>0, <2>4, <2>5, AppendElems
  <2>8. \A a \in Elems(hostGot), b \in Elems(t) : After(p, a, b)
    BY <1>1, <2>3, <2>4, <2>7
  <2>9. Elems(hostGot) \cup Elems(t) \subseteq Elems(p)
    BY <1>1, <2>3, <2>4, <2>7
  <2>10. Replies' = t
    BY <2>4, <2>5
  <2>11. QED
    BY <1>0, <1>p, <1>4, <1>6, <2>1, <2>6, <2>8, <2>9, <2>10 DEF ReplyInv
<1>7. QED
  BY <1>0, <1>5, <1>6

LEMMA ReplyStep ==
  ASSUME TypeOK, PnpInv, HandInv, ReplyInv, [Next]_vars PROVE ReplyInv'
<1>1. CASE UNCHANGED <<build, submitted, hostGot, Replies>>
  BY <1>1 DEF ReplyInv
<1>2. ASSUME UNCHANGED <<build, submitted, hostGot>>, Replies' = <<>>
      PROVE  ReplyInv'
  <2>1. InOrderOf(submitted, <<>>) /\ Elems(<<>>) = {}
    BY DEF InOrderOf, Elems
  <2>2. QED
    BY <1>2, <2>1 DEF ReplyInv
<1>3. CASE VhidNext
  <2>1. CASE AbkEvtDeviceAdd \/ DeviceRemoved \/ AbkEvtDeviceCleanup
    BY <1>2, <2>1 DEF AbkEvtDeviceAdd, DeviceRemoved, AbkEvtDeviceCleanup,
         DeviceGone, ContextReset, hostVars, replyVars
  <2>2. CASE StartFails \/ VhfStart \/ SelfManagedIoInit
             \/ SelfManagedIoCleanup \/ VhfDelete \/ AbkEvtVhfWriteReport
    BY <1>1, <2>2 DEF StartFails, VhfStart, SelfManagedIoInit,
         SelfManagedIoCleanup, VhfDelete, AbkEvtVhfWriteReport, contextVars,
         hostVars, replyVars
  <2>3. CASE AbkEvtVhfGetInputReport
    <3> DEFINE h == Head(Replies)
               t == Tail(Replies)
    <3>1. /\ Replies # <<>> /\ build.polls /\ Replies \in Seq(Frames)
          /\ hostGot \in Seq(Frames) /\ build' = build
          /\ submitted' = submitted /\ hostGot' = Append(hostGot, h)
          /\ Replies' = t
      BY <2>3 DEF AbkEvtVhfGetInputReport, replyVars, TypeOK, VhidTypeOK
    <3>2. /\ h \in Frames /\ h \in Elems(Replies)
          /\ Elems(t) \subseteq Elems(Replies)
      BY <3>1, TailElems
    <3>3. /\ InOrderOf(submitted, t)
          /\ \A b \in Elems(t) : After(submitted, h, b)
      BY <3>1, InOrderTail DEF ReplyInv
    <3> HIDE DEF h, t
    <3>4. InOrderOf(submitted, hostGot')
      BY <3>1, <3>2, InOrderAppend DEF ReplyInv
    <3>5. Elems(hostGot') = Elems(hostGot) \cup {h}
      BY <3>1, <3>2, AppendElems
    <3>6. /\ \A a \in Elems(hostGot'), b \in Elems(t) : After(submitted, a, b)
          /\ Elems(hostGot') \cup Elems(t) \subseteq Elems(submitted)
      BY <3>1, <3>2, <3>3, <3>5 DEF ReplyInv
    <3>7. QED
      BY <3>1, <3>3, <3>4, <3>6 DEF ReplyInv
  <2>4. QED
    BY <1>3, <2>1, <2>2, <2>3 DEF VhidNext
<1>4. CASE SetReportMode(~(agent /\ handleOk)) \/ UNCHANGED vars
  BY <1>1, <1>4 DEF SetReportMode, vars, vhidVars, contextVars, hostVars,
                    replyVars
<1>5. CASE Alone
  BY <1>1, <1>5, AloneKeeps DEF vhidVars, contextVars, hostVars, replyVars
<1>6. CASE CallRead \/ ReadReturns \/ Exit \/ WriteReply \/ SubmitRefused
  BY <1>1, <1>6 DEF CallRead, AbkEvtIoRead, ReadReturns, Exit, WriteReply,
       ChooseShape, SubmitRefused, contextVars, hostVars, replyVars
<1>7. CASE SubmitAccepted
  BY <1>7, AcceptedReplies
<1>8. QED
  BY <1>3, <1>4, <1>5, <1>6, <1>7, StepKinds DEF AgentStep, Alone, Submit

-----------------------------------------------------------------------------
(* The invariant.                                                          *)

LEMMA QueueStep ==
  ASSUME TypeOK, PnpInv, HandInv, OffInv, RelayInv, QueueInv, [Next]_vars
  PROVE  QueueInv'
<1>1. CASE VhidNext /\ AgentRest
  <2>1. CASE DeviceRemoved \/ AbkEvtDeviceCleanup
    BY <1>1, <2>1, DeviceGoneQueues DEF DeviceRemoved, AbkEvtDeviceCleanup
  <2>2. CASE AbkEvtVhfWriteReport
    BY <1>1, <2>2, WriteReportQueues
  <2>3. CASE AbkEvtDeviceAdd
    <3>1. Ring' = Ring
      BY <2>3 DEF AbkEvtDeviceAdd, ContextReset, PnpInv
    <3>2. QED
      BY <1>1, <2>3, <3>1, QuietQueues
         DEF AbkEvtDeviceAdd, AgentRest, hubVars, netVars, hostVars
  <2>4. CASE StartFails \/ VhfStart \/ SelfManagedIoInit
             \/ SelfManagedIoCleanup \/ VhfDelete \/ AbkEvtVhfGetInputReport
    BY <1>1, <2>4, QuietQueues
       DEF StartFails, VhfStart, SelfManagedIoInit, SelfManagedIoCleanup,
           VhfDelete, AbkEvtVhfGetInputReport, AgentRest, contextVars,
           hubVars, netVars, hostVars
  <2>5. QED
    BY <1>1, <2>1, <2>2, <2>3, <2>4 DEF VhidNext
<1>2. CASE SetReportMode(~(agent /\ handleOk)) /\ AgentRest
  BY <1>2, QuietQueues
     DEF SetReportMode, AgentRest, hubVars, netVars, hostVars
<1>3. CASE Start \/ ReadFails
  <2>1. reader'.packet = reader.packet
    BY <1>3 DEF Start, ReadFails, OffInv, HandInv, Idle, TypeOK
  <2>2. QED
    BY <1>3, <2>1, QuietQueues
       DEF Start, ReadFails, vhidVars, contextVars, hubVars, netVars, hostVars
<1>4. CASE Connect \/ WriteReplyFails
  BY <1>4, QuietQueues
     DEF Connect, WriteReplyFails, vhidVars, contextVars, hubVars,
         netVars, hostVars
<1>5. CASE WriteReply \/ Submit
  BY <1>5, QuietQueues
     DEF WriteReply, ChooseShape, Submit, SubmitAccepted, SubmitRefused,
         contextVars, hubVars, netVars, hostVars
<1>6. CASE UNCHANGED vars
  BY <1>6, QuietQueues
     DEF vars, vhidVars, contextVars, hubVars, netVars, hostVars
<1>7. QED
  BY <1>1, <1>2, <1>3, <1>4, <1>5, <1>6, StepKinds, ExitQueues,
     CallReadQueues, ReadReturnsQueues, RouteQueues, PushQueues,
     PushTooLateQueues, SubscribeQueues, SubscribedQueues, MovePendingQueues,
     SendPacketQueues, PhoneTakesQueues, SessionEndsQueues DEF AgentStep

Inv ==
  /\ TypeOK /\ PnpInv /\ HandInv /\ OffInv /\ RelayInv /\ ShapeInv /\ ReplyInv
  /\ QueueInv

LEMMA InitInv == Init => Inv
<1> SUFFICES ASSUME Init PROVE Inv
  OBVIOUS
<1> USE DEF Init, VhidInit
<1>0. <<>> \in Seq(Frames) /\ Len(<<>>) = 0
  OBVIOUS
<1>1. TypeOK
  <2>1. VhidTypeOK
    <3>1. /\ 0 \in 0..MaxDevices /\ 0 \in 0..MaxFrames
          /\ 0 <= RingSlots /\ 0 <= ReplySlots
      BY VhidAssumption
    <3>2. /\ NoRead \in [at : {"none", "queued", "done"},
                         frame : Frames \cup {None}]
          /\ NoWrite \in [reply : Frames \cup {None}, leads : BOOLEAN,
                          auto : BOOLEAN]
      BY DEF NoRead, NoWrite
    <3>3. /\ Ring \in Seq(Frames) /\ Len(Ring) <= RingSlots
          /\ Replies \in Seq(Frames) /\ Len(Replies) <= ReplySlots
          /\ submitted \in Seq(Frames) /\ hostGot \in Seq(Frames)
      BY <1>0, <3>1
    <3>4. /\ devices \in 0..MaxDevices /\ fromHost \in 0..MaxFrames
          /\ overrun \subseteq Frames
      BY <3>1
    <3>5. QED
      BY <3>2, <3>3, <3>4, Zenon DEF VhidTypeOK, Modes
  <2>2. AgentTypeOK
    <3>1. /\ 0 \in 0..MaxAgents /\ 0 \in 0..MaxDevices
          /\ 0 \in 0..MaxSessions
      BY AgentAssumption, VhidAssumption
    <3>2. Idle \in [at : {"read", "got", "push", "stopped"},
                   packet : Frames \cup {None}, to : 0..MaxSessions]
      BY <3>1 DEF Idle
    <3>3. QED
      BY <3>1, <3>2 DEF AgentTypeOK
  <2>3. NetTypeOK
    BY <1>0, AgentAssumption DEF NetTypeOK
  <2>4. QED
    BY <2>1, <2>2, <2>3, TypeParts
<1>2. PnpInv
  BY DEF PnpInv
<1>3. HandInv
  BY VhidAssumption DEF HandInv, NoMissedReport, NoRead, Idle
<1>4. OffInv /\ RelayInv
  BY DEF OffInv, RelayInv
<1>5. ShapeInv
  BY DEF ShapeInv, handleOk, NoWrite
<1>6. ReplyInv
  BY EmptyElems DEF ReplyInv, InOrderOf
<1>7. QueueInv
  <2>1. PICK p : p = Places
    OBVIOUS
  <2>2. PICK l : l = Line
    OBVIOUS
  <2>3. \A k \in 1..10 : p[k] = {} /\ l[k] = {}
    BY <2>1, <2>2, EmptyElems DEF Places, Line, NoRead, Idle
  <2>4. Conserved(p, 0) /\ Falling(l, 4) /\ Falling(l, 8)
    BY <2>3 DEF Conserved, Falling
  <2>5. OnceInv
    BY EmptySequence DEF OnceInv
  <2>6. QED
    BY <2>1, <2>2, <2>4, <2>5, EmptySequence DEF QueueInv, LineInv
<1>8. QED
  BY <1>1, <1>2, <1>3, <1>4, <1>5, <1>6, <1>7 DEF Inv

LEMMA InvStep == Inv /\ [Next]_vars => Inv'
BY TypeStep, PnpStep, HandStep, OffStep, RelayStep, ShapeStep, ReplyStep,
   QueueStep DEF Inv

LEMMA Invariance == Spec => []Inv
BY InitInv, InvStep, PTL DEF Spec

-----------------------------------------------------------------------------
(* Theorems.                                                               *)

\* The variables keep their types: the driver's rings and the agent's list
\* and channel never outgrow their sizes, however host, phone and network
\* behave.
THEOREM TypeCorrect == Spec => []TypeOK
<1>1. Inv => TypeOK
  BY DEF Inv
<1>2. QED
  BY <1>1, Invariance, PTL

\* A read of the agent never waits in ReadQueue while a report waits in the
\* ring (AbkEvtIoRead and AbkDeliverHostReport).
THEOREM NoReportIsMissed == Spec => []NoMissedReport
<1>1. Inv => NoMissedReport
  BY DEF Inv, HandInv
<1>2. QED
  BY <1>1, Invariance, PTL

\* The VHF handle can be used whenever VhfStarted says so, and no device that
\* is gone leaves one behind, whatever becomes of the device and how often it
\* is added (AbkEvtDeviceSelfManagedIoCleanup).
THEOREM HandleIsAlive == Spec => []HandleLives
<1>1. Inv => HandleLives
  BY DEF Inv, PnpInv, HandleLives
<1>2. QED
  BY <1>1, Invariance, PTL

\* The host gets the replies that VHF has accepted, each once and in order,
\* through the pipe or by polling a ring that drops the oldest; and in the
\* automatic mode never in the wrong shape, because whoever writes a reply
\* holds, or has passed on, a report of this device (AbkEvtIoWrite).
THEOREM RepliesArrive == Spec => []RepliesReachHost
<1>1. Inv => RepliesReachHost
  BY DEF Inv, ShapeInv, ReplyInv, InOrderOf, After, RepliesReachHost
<1>2. QED
  BY <1>1, Invariance, PTL

\* Every report of the host is in exactly one place, from the driver's ring
\* to the phone: across lost sessions, restarts of the agent and removals of
\* the device none is doubled, and none is lost but where the code drops it.
THEOREM PacketsAreConserved == Spec => []PacketsConserved
<1>1. Inv => PacketsConserved
  <2> SUFFICES ASSUME Inv PROVE PacketsConserved
    OBVIOUS
  <2> DEFINE places == << Elems(Ring), {read.frame} \ {None},
                          {reader.packet} \ {None}, Elems(pending),
                          Elems(moving), Elems(packets), Elems(toPhone),
                          atPhone, lost, overrun >>
  <2>1. DOMAIN places = 1..10 /\ \A i \in 1..10 : places[i] = Places[i]
    BY DEF Places
  <2>2. Conserved(Places, fromHost)
    BY DEF Inv, QueueInv
  <2> HIDE DEF places
  <2>3. /\ \A f \in 1..fromHost : \E i \in DOMAIN places : f \in places[i]
        /\ \A i, j \in DOMAIN places : i < j => places[i] \cap places[j] = {}
    BY <2>1, <2>2 DEF Conserved
  <2>4. QED
    BY <2>3 DEF PacketsConserved, places
<1>2. QED
  BY <1>1, Invariance, PTL

\* Within a session the phone gets the reports in the order in which the host
\* sent them, unless the reader has overtaken packets that subscribe was
\* still moving (hub.run and hub.subscribe).
THEOREM PacketsInOrder == Spec => []InOrder
<1>1. Inv => InOrder
  BY DEF Inv, QueueInv, LineInv, InOrder, Increasing
<1>2. QED
  BY <1>1, Invariance, PTL
=============================================================================
