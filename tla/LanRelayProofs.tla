--------------------------- MODULE LanRelayProofs ---------------------------
(***************************************************************************)
(* Proofs about the LAN relay, for any number of computers, connections    *)
(* and requests and every size of the registry.                            *)
(***************************************************************************)
EXTENDS LanRelay, TLAPS

-----------------------------------------------------------------------------
(* Sequences: the kernel's queues.                                          *)

Elems(s) == {s[i] : i \in DOMAIN s}
Distinct(s) == \A i, j \in DOMAIN s : s[i] = s[j] => i = j

\* The requests that packets are about, and those that they answer.
About(s) == {s[i].req : i \in DOMAIN s}
Answers(s) == {i \in DOMAIN s : s[i].kind # "keepalive"}
Answered(s) == {s[i].req : i \in Answers(s)}
Once(s) == \A i, j \in Answers(s) : s[i].req = s[j].req => i = j

-----------------------------------------------------------------------------
(* The invariants.                                                          *)

\* The registry lists a computer once, and the blocked ones as blocked.
RegistryInv ==
  /\ \A i, j \in DOMAIN records : records[i].id = records[j].id => i = j
  /\ \A a \in banned : \E i \in DOMAIN records :
       records[i].id = a /\ records[i].status = "blocked"

Busy == {"request", "waiting", "exchange"}
BusyUsers == {u \in Users : at[u] \in Busy}

\* Threads exist for connections that have been made, and a busy one has a
\* request of its own in hand.
ThreadInv ==
  /\ \A c \in Conns : c \in 1..conns <=> at[c] # "none"
  /\ \A c \in 1..conns : who[c] \in Computers
  /\ at[Local] \in {"idle", "exchange"}
  /\ \A u \in BusyUsers : request[u] \in Request /\ request[u].user = u

\* The lock is held by the one thread in an exchange.
LockInv == \A u \in Users : at[u] = "exchange" <=> transportLock = u

\* Every request that is in hand, in a queue or in the history.
Strays == IF stray = None THEN {} ELSE {stray.to, stray.with.req}
Known == {request[u] : u \in BusyUsers} \cup Elems(rx) \cup About(tx)
           \cup Strays

\* Requests are told apart by their ids, and only those for a channel are
\* sent on the broadcast channel.
RequestInv ==
  /\ \A q \in Known : /\ q \in Request /\ q.id <= reqs /\ q.cid <= reqs
                      /\ q.cid = Broadcast <=> q.cmd = "init"
                      /\ q.user = Local \/ q.user \in 1..conns
  /\ \A p, q \in Known : p.id = q.id => p = q

\* Who may use a channel: whose INIT it is named by, who has sent requests on
\* it, who has been told of it.
Claims == {<<q.id, Owner(q.user)>> : q \in Known} \cup
          {<<q.cid, Owner(q.user)>> : q \in {q \in Known : q.cid # Broadcast}}
            \cup {<<channel[o], o>> : o \in {o \in Owners :
                                               channel[o] # Broadcast}}
ChannelInv ==
  /\ \A o \in Owners : channel[o] <= reqs
  /\ \A x, y \in Claims : x[1] = y[1] => x = y

\* A request is sent once, and answered once.
SentInv ==
  /\ Distinct(rx) /\ Once(tx) /\ Elems(rx) \cap Answered(tx) = {}
  /\ \A u \in BusyUsers : at[u] # "exchange" =>
       request[u] \notin Elems(rx) \cup About(tx)

\* What is sent about a request: nothing tells of a cancellation, and only an
\* INIT has an error of its own.
PacketInv ==
  \A i \in DOMAIN tx : /\ tx[i].kind = "error" => tx[i].req.cmd = "init"
                       /\ tx[i].req.cmd # "cancel"

\* The thread in an exchange has sent its request, and whatever else is
\* pending is a CANCEL, an INIT, or on a channel given up earlier.
PendingInv ==
  /\ \A u \in Users : at[u] = "exchange" =>
       /\ request[u].cmd # "cancel"
       /\ request[u] \in Elems(rx) \cup Answered(tx)
  /\ \A q \in Elems(rx) \cup Answered(tx) :
       \/ q.cmd \in {"cancel", "init"} \/ q.cid \in tainted
       \/ \E u \in Users : at[u] = "exchange" /\ request[u] = q

\* The type invariant, part by part.
Record == [id : Computers, status : Statuses]
RegistryType ==
  /\ records \in Seq(Record) /\ Len(records) <= MaxRecords
  /\ autoAuthorizeNewClients \in BOOLEAN
  /\ decisions \in 0..MaxDecisions /\ banned \subseteq Computers
Places == {"none", "hello", "idle", "request", "waiting", "exchange", "closed"}
ThreadType ==
  /\ who \in [Conns -> Computers \cup {None}]
  /\ at \in [Users -> Places]
  /\ open \subseteq Conns /\ authenticated \subseteq Conns
  /\ running \in BOOLEAN /\ activeClient \in 0..MaxConns
  /\ conns \in 0..MaxConns
RequestType ==
  /\ request \in [Users -> Request \cup {None}]
  /\ transportLock \in {0} \cup Users
  /\ channel \in [Owners -> 0..MaxReqs]
  /\ reqs \in 0..MaxReqs
QueueType ==
  /\ rx \in Seq(Request) /\ tx \in Seq(Packet)
  /\ keepalives \in 0..MaxKeepalives
  /\ tainted \subseteq Ids
  /\ stray \in [to : Request, with : Packet] \cup {None}

Shape ==
  /\ RegistryType /\ ThreadType /\ RequestType /\ QueueType
  /\ RegistryInv /\ ThreadInv
QueueInv == LockInv /\ SentInv /\ PacketInv /\ PendingInv
StrayInv == AnswersStayHome /\ AnswersMatch
Inv == Shape /\ RequestInv /\ ChannelInv /\ QueueInv /\ StrayInv

-----------------------------------------------------------------------------
(* What happens to sequences.                                               *)

\* Appending to a sequence.
LEMMA AppendFacts ==
  ASSUME NEW S, NEW s \in Seq(S), NEW x \in S
  PROVE  /\ Append(s, x) \in Seq(S) /\ Elems(Append(s, x)) = Elems(s) \cup {x}
         /\ x \notin Elems(s) /\ Distinct(s) => Distinct(Append(s, x))
<1> DEFINE t == Append(s, x)
<1>1. /\ t \in Seq(S) /\ Len(t) = Len(s) + 1 /\ DOMAIN s = 1..Len(s)
      /\ DOMAIN t = 1..(Len(s) + 1) /\ Len(s) \in Nat
      /\ t[Len(s) + 1] = x /\ \A i \in 1..Len(s) : t[i] = s[i]
  OBVIOUS
<1> HIDE DEF t
<1>2. \A i \in DOMAIN t : i = Len(s) + 1 \/ i \in DOMAIN s
  BY <1>1
<1>3. DOMAIN s \subseteq DOMAIN t /\ Len(s) + 1 \in DOMAIN t
  BY <1>1
<1>4. Elems(t) = Elems(s) \cup {x}
  BY <1>1, <1>2, <1>3 DEF Elems
<1>5. x \notin Elems(s) /\ Distinct(s) => Distinct(t)
  BY <1>1, <1>2 DEF Elems, Distinct
<1>6. QED
  BY <1>1, <1>4, <1>5 DEF t

\* Taking the first element from a sequence.
LEMMA TailFacts ==
  ASSUME NEW S, NEW s \in Seq(S), s # <<>>
  PROVE  /\ Tail(s) \in Seq(S) /\ Head(s) \in S
         /\ Elems(s) = Elems(Tail(s)) \cup {Head(s)}
         /\ Distinct(s) => Distinct(Tail(s)) /\ Head(s) \notin Elems(Tail(s))
<1> DEFINE t == Tail(s)
<1>1. /\ t \in Seq(S) /\ DOMAIN s = 1..Len(s) /\ Len(s) \in Nat \ {0}
      /\ DOMAIN t = 1..(Len(s) - 1) /\ \A i \in DOMAIN t : t[i] = s[i + 1]
      /\ Head(s) = s[1] /\ 1 \in DOMAIN s
  OBVIOUS
<1> HIDE DEF t
<1>2. /\ \A i \in DOMAIN t : i + 1 \in DOMAIN s /\ i + 1 # 1 /\ i \in Nat
      /\ \A i \in DOMAIN s : i = 1 \/ (i - 1 \in DOMAIN t /\ (i - 1) + 1 = i)
  BY <1>1
<1>3. Elems(s) = Elems(t) \cup {Head(s)}
  BY <1>1, <1>2 DEF Elems
<1>4. Distinct(s) => Distinct(t)
  BY <1>1, <1>2 DEF Distinct
<1>5. Distinct(s) => Head(s) \notin Elems(t)
  BY <1>1, <1>2 DEF Distinct, Elems
<1>6. QED
  BY <1>1, <1>3, <1>4, <1>5 DEF t

\* The kernel sends a packet.
LEMMA AppendPacket ==
  ASSUME NEW s \in Seq(Packet), NEW p \in Packet
  PROVE  /\ Append(s, p) \in Seq(Packet)
         /\ About(Append(s, p)) = About(s) \cup {p.req}
         /\ Answered(Append(s, p)) =
              Answered(s) \cup (IF p.kind = "keepalive" THEN {} ELSE {p.req})
         /\ Once(s) /\ (p.kind = "keepalive" \/ p.req \notin Answered(s))
              => Once(Append(s, p))
<1> DEFINE t == Append(s, p)
<1>1. /\ t \in Seq(Packet) /\ Len(t) = Len(s) + 1 /\ DOMAIN s = 1..Len(s)
      /\ DOMAIN t = 1..(Len(s) + 1) /\ Len(s) \in Nat
      /\ t[Len(s) + 1] = p /\ \A i \in 1..Len(s) : t[i] = s[i]
  OBVIOUS
<1> HIDE DEF t
<1>2. \A i \in DOMAIN t : i = Len(s) + 1 \/ i \in DOMAIN s
  BY <1>1
<1>3. DOMAIN s \subseteq DOMAIN t /\ Len(s) + 1 \in DOMAIN t
      /\ Len(s) + 1 \notin DOMAIN s
  BY <1>1
<1>4. About(t) = About(s) \cup {p.req}
  BY <1>1, <1>2, <1>3 DEF About
<1>5. Answers(t) = Answers(s) \cup
                     (IF p.kind = "keepalive" THEN {} ELSE {Len(s) + 1})
  BY <1>1, <1>2, <1>3 DEF Answers
<1>6. Answered(t) = Answered(s) \cup
                      (IF p.kind = "keepalive" THEN {} ELSE {p.req})
  <2>1. Answers(s) \subseteq DOMAIN s
    BY DEF Answers
  <2>2. QED
    BY <1>1, <1>3, <1>5, <2>1 DEF Answered
<1>7. Once(s) /\ (p.kind = "keepalive" \/ p.req \notin Answered(s)) => Once(t)
  <2>1. Answers(s) \subseteq DOMAIN s
    BY DEF Answers
  <2>2. \A i \in Answers(s) : s[i].req \in Answered(s) /\ t[i] = s[i]
    BY <1>1, <2>1 DEF Answered
  <2>3. QED
    BY <1>1, <1>5, <2>2 DEF Once
<1>8. QED
  BY <1>1, <1>4, <1>6, <1>7 DEF t

\* A reader takes a packet.
LEMMA TakePacket ==
  ASSUME NEW s \in Seq(Packet), s # <<>>
  PROVE  /\ Tail(s) \in Seq(Packet) /\ Head(s) \in Packet
         /\ About(s) = About(Tail(s)) \cup {Head(s).req}
         /\ Answered(s) = Answered(Tail(s)) \cup
              (IF Head(s).kind = "keepalive" THEN {} ELSE {Head(s).req})
         /\ Once(s) =>
              /\ Once(Tail(s))
              /\ Head(s).kind # "keepalive" =>
                   Head(s).req \notin Answered(Tail(s))
         /\ \A i \in DOMAIN Tail(s) :
              \E j \in DOMAIN s : Tail(s)[i] = s[j]
<1> DEFINE t == Tail(s)
<1>1. /\ t \in Seq(Packet) /\ DOMAIN s = 1..Len(s) /\ Len(s) \in Nat \ {0}
      /\ DOMAIN t = 1..(Len(s) - 1) /\ \A i \in DOMAIN t : t[i] = s[i + 1]
      /\ Head(s) = s[1] /\ 1 \in DOMAIN s
  OBVIOUS
<1> HIDE DEF t
<1>2. /\ \A i \in DOMAIN t : i + 1 \in DOMAIN s /\ i + 1 # 1 /\ i \in Nat
      /\ \A i \in DOMAIN s : i = 1 \/ (i - 1 \in DOMAIN t /\ (i - 1) + 1 = i)
  BY <1>1
<1>3. About(s) = About(t) \cup {Head(s).req}
  BY <1>1, <1>2 DEF About
<1>4. /\ \A i \in Answers(t) : i + 1 \in Answers(s) /\ t[i] = s[i + 1]
      /\ \A i \in Answers(s) : i = 1 \/ (i - 1 \in Answers(t)
                                         /\ t[i - 1] = s[i])
      /\ 1 \in Answers(s) <=> Head(s).kind # "keepalive"
  BY <1>1, <1>2 DEF Answers
<1>5. Answered(s) = Answered(t) \cup
              (IF Head(s).kind = "keepalive" THEN {} ELSE {Head(s).req})
  BY <1>1, <1>4 DEF Answered
<1>6. \A i \in Answers(t) : i \in Nat
  BY <1>2 DEF Answers
<1>7. Once(s) => Once(t)
  BY <1>4, <1>6 DEF Once
<1>8. Once(s) /\ Head(s).kind # "keepalive" => Head(s).req \notin Answered(t)
  <2> SUFFICES ASSUME Once(s), Head(s).kind # "keepalive",
                      NEW i \in Answers(t), Head(s).req = t[i].req
               PROVE  FALSE
    BY DEF Answered
  <2>1. i + 1 \in Answers(s) /\ 1 \in Answers(s) /\ s[i + 1].req = s[1].req
    BY <1>1, <1>4
  <2>2. i + 1 # 1
    BY <1>2 DEF Answers
  <2>3. QED
    BY <2>1, <2>2 DEF Once
<1>9. QED
  BY <1>1, <1>2, <1>3, <1>5, <1>7, <1>8 DEF t
-----------------------------------------------------------------------------
(* The shape of the states.                                                 *)

LEMMA TypeParts ==
  TypeOK <=> RegistryType /\ ThreadType /\ RequestType /\ QueueType
BY DEF TypeOK, RegistryType, ThreadType, RequestType, QueueType, Record, Places

\* What a thread does when its connection ends, or it leaves an exchange.
LEMMA ClosesType ==
  ASSUME ThreadType, RequestType, NEW c \in Conns, Closes(c)
  PROVE  /\ at' \in [Users -> Places]
         /\ request' \in [Users -> Request \cup {None}]
         /\ open' \subseteq Conns /\ activeClient' \in 0..MaxConns
BY RelayAssumption DEF ThreadType, RequestType, Closes, Users, Conns, Places

\* The requests that a user may make.
LEMMA NewRequestType ==
  ASSUME Shape, NEW u \in Users, u = Local \/ u \in 1..conns, reqs < MaxReqs,
         NEW r \in NewRequest(u)
  PROVE  /\ r \in Request /\ r.id = reqs + 1 /\ r.user = u
         /\ Owner(u) \in Owners /\ r.cid \in {Broadcast, channel[Owner(u)]}
         /\ r.cid = Broadcast <=> r.cmd = "init"
<1>1. Owner(u) \in Owners
  BY DEF Shape, ThreadInv, Owner, Owners
<1>2. channel[Owner(u)] \in 0..MaxReqs /\ reqs \in 0..MaxReqs
      /\ reqs + 1 \in Ids /\ Broadcast \in 0..MaxReqs
  BY <1>1, RelayAssumption DEF Shape, RequestType, Ids, Broadcast
<1>3. QED
  BY <1>1, <1>2 DEF NewRequest, Request

LEMMA InitShape == Init => Shape
<1> SUFFICES ASSUME Init PROVE Shape
  OBVIOUS
<1>1. TypeOK
  BY RelayAssumption
     DEF Init, TypeOK, Conns, Users, Owners, Broadcast, Local
<1>2. RegistryInv
  BY DEF Init, RegistryInv
<1>3. ThreadInv
  BY RelayAssumption DEF Init, ThreadInv, BusyUsers, Busy, Users, Conns, Local
<1>4. QED
  BY <1>1, <1>2, <1>3, TypeParts DEF Shape

Blocked(rs, a) == \E i \in DOMAIN rs : rs[i].id = a /\ rs[i].status = "blocked"
DistinctIds(rs) == \A i, j \in DOMAIN rs : rs[i].id = rs[j].id => i = j

\* A part of a sequence.
LEMMA SubSeqFacts ==
  ASSUME NEW S, NEW s \in Seq(S), NEW l \in Nat, l < Len(s)
  PROVE  /\ SubSeq(s, 1, l) \in Seq(S) /\ Len(SubSeq(s, 1, l)) = l
         /\ \A i \in 1..l : SubSeq(s, 1, l)[i] = s[i]
         /\ SubSeq(s, l + 2, Len(s)) \in Seq(S)
         /\ Len(SubSeq(s, l + 2, Len(s))) = Len(s) - (l + 1)
         /\ \A i \in 1..(Len(s) - (l + 1)) :
              SubSeq(s, l + 2, Len(s))[i] = s[i + l + 1]
OBVIOUS

LEMMA ConcatFacts ==
  ASSUME NEW S, NEW s \in Seq(S), NEW t \in Seq(S)
  PROVE  /\ s \o t \in Seq(S) /\ Len(s \o t) = Len(s) + Len(t)
         /\ \A i \in 1..(Len(s) + Len(t)) :
              (s \o t)[i] = IF i <= Len(s) THEN s[i] ELSE t[i - Len(s)]
OBVIOUS

\* What the registry keeps of a list that it is given.
LEMMA SaveFacts ==
  ASSUME NEW rs \in Seq(Record), DistinctIds(rs)
  PROVE  /\ Save(rs) \in Seq(Record) /\ Len(Save(rs)) <= MaxRecords
         /\ DistinctIds(Save(rs))
         /\ \A i \in DOMAIN rs : i <= MaxRecords =>
              i \in DOMAIN Save(rs) /\ Save(rs)[i] = rs[i]
<1> DEFINE n == IF Len(rs) > MaxRecords THEN MaxRecords ELSE Len(rs)
           t == SubSeq(rs, 1, n)
<1>1. /\ n \in 0..Len(rs) /\ n <= MaxRecords /\ Len(rs) \in Nat
      /\ DOMAIN rs = 1..Len(rs)
      /\ \A i \in DOMAIN rs : i <= MaxRecords => i \in 1..n
  BY RelayAssumption
<1> HIDE DEF n
<1>2. /\ t \in Seq(Record) /\ Len(t) = n /\ DOMAIN t = 1..n
      /\ \A i \in 1..n : t[i] = rs[i] /\ i \in DOMAIN rs
  BY <1>1
<1> HIDE DEF t
<1>3. DistinctIds(t)
  BY <1>2 DEF DistinctIds
<1>4. Save(rs) = t
  BY DEF Save, t, n
<1>5. QED
  BY <1>1, <1>2, <1>3, <1>4

LEMMA StatusFacts ==
  ASSUME RegistryType, RegistryInv, NEW a \in Computers
  PROVE  /\ Listed(a) => \E i \in DOMAIN records :
              /\ records[i].id = a /\ StatusOf(a) = records[i].status
         /\ HelloStatus(a) \in Statuses
<1>1. \A i \in DOMAIN records : records[i] \in Record
  BY DEF RegistryType
<1>2. Listed(a) => \E i \in DOMAIN records :
              /\ records[i].id = a /\ StatusOf(a) = records[i].status
  BY DEF Listed, StatusOf
<1>3. HelloStatus(a) \in Statuses
  BY <1>1, <1>2 DEF HelloStatus, Statuses, Record
<1>4. QED
  BY <1>2, <1>3

\* The registry through each step on it.
LEMMA SetStatusRegistry ==
  ASSUME Shape, NEW a \in Computers, NEW st \in Statuses, SetStatus(a, st)
  PROVE  RegistryInv' /\ records' \in Seq(Record) /\ Len(records') <= MaxRecords
         /\ banned' \subseteq Computers
<1>1. /\ records \in Seq(Record) /\ DOMAIN records = 1..Len(records)
      /\ Len(records) \in Nat /\ Len(records) <= MaxRecords
      /\ banned \subseteq Computers
  BY DEF Shape, RegistryType
<1>2. \A i \in DOMAIN records : /\ records[i] \in Record
        /\ [records[i] EXCEPT !.status = st] \in Record
        /\ [records[i] EXCEPT !.status = st].id = records[i].id
        /\ [records[i] EXCEPT !.status = st].status = st
  <2>1. \A r \in Record : /\ [r EXCEPT !.status = st] \in Record
                          /\ [r EXCEPT !.status = st].id = r.id
                          /\ [r EXCEPT !.status = st].status = st
    BY DEF Record
  <2>2. QED
    BY <1>1, <2>1
<1>3. /\ DOMAIN records' = DOMAIN records
      /\ \A i \in DOMAIN records :
           /\ records'[i] \in Record /\ records'[i].id = records[i].id
           /\ records'[i].status = IF records[i].id = a THEN st
                                   ELSE records[i].status
      /\ records' \in [1..Len(records) -> Record]
  BY <1>1, <1>2 DEF SetStatus
<1>4. records' \in Seq(Record) /\ Len(records') = Len(records)
  BY <1>1, <1>3
<1>5. /\ banned' = IF st = "blocked" THEN banned \cup {a} ELSE banned \ {a}
      /\ Listed(a)
  BY DEF SetStatus
<1>6. RegistryInv'
  <2>1. \A i, j \in DOMAIN records' : records'[i].id = records'[j].id => i = j
    BY <1>3 DEF Shape, RegistryInv
  <2>2. \A b \in banned' : \E i \in DOMAIN records' :
          records'[i].id = b /\ records'[i].status = "blocked"
    BY <1>3, <1>5 DEF Shape, RegistryInv, Listed
  <2>3. QED
    BY <2>1, <2>2 DEF RegistryInv
<1>7. QED
  BY <1>1, <1>4, <1>5, <1>6

LEMMA RemoveRegistry ==
  ASSUME Shape, NEW a \in Computers, Remove(a)
  PROVE  RegistryInv' /\ records' \in Seq(Record) /\ Len(records') <= MaxRecords
         /\ banned' \subseteq Computers
<1>1. /\ records \in Seq(Record) /\ DOMAIN records = 1..Len(records)
      /\ Len(records) \in Nat /\ Len(records) <= MaxRecords
      /\ banned \subseteq Computers
  BY DEF Shape, RegistryType
<1>2. PICK k \in DOMAIN records :
        /\ records[k].id = a
        /\ records' = SubSeq(records, 1, k - 1) \o
                      SubSeq(records, k + 1, Len(records))
  BY DEF Remove
<1> DEFINE n == Len(records)
           t == records'
           low == SubSeq(records, 1, k - 1)
           high == SubSeq(records, k + 1, n)
<1>0. k \in 1..n /\ k - 1 \in 0..(n - 1) /\ n - k \in Nat
  BY <1>1, <1>2
<1>3. /\ low \in Seq(Record) /\ Len(low) = k - 1
      /\ high \in Seq(Record) /\ Len(high) = n - k
      /\ \A i \in 1..(k - 1) : low[i] = records[i]
      /\ \A i \in 1..(n - k) : high[i] = records[i + k]
  <2>1. PICK l \in Nat : l = k - 1
    BY <1>0
  <2>2. /\ low = SubSeq(records, 1, l) /\ high = SubSeq(records, l + 2, n)
        /\ l < n /\ n - (l + 1) = n - k
        /\ \A i \in 1..(n - k) : i + l + 1 = i + k
    <3>1. k - 1 = l /\ k + 1 = l + 2
      BY <1>0, <2>1
    <3>2. low = SubSeq(records, 1, l) /\ high = SubSeq(records, l + 2, n)
      BY <3>1
    <3> HIDE DEF low, high
    <3>3. /\ l < n /\ n - (l + 1) = n - k
          /\ \A i \in 1..(n - k) : i + l + 1 = i + k
      BY <1>0, <1>1, <2>1
    <3>4. QED
      BY <3>2, <3>3
  <2>3. /\ low \in Seq(Record) /\ Len(low) = l
        /\ high \in Seq(Record) /\ Len(high) = n - (l + 1)
        /\ \A i \in 1..l : low[i] = records[i]
        /\ \A i \in 1..(n - (l + 1)) : high[i] = records[i + l + 1]
    <3> HIDE DEF low, high
    <3>1. QED
      BY <1>1, <2>2, SubSeqFacts
  <2> HIDE DEF low, high
  <2>4. QED
    BY <2>1, <2>2, <2>3
<1> HIDE DEF low, high
<1>4. /\ t \in Seq(Record) /\ Len(t) = n - 1 /\ DOMAIN t = 1..(n - 1)
      /\ \A i \in 1..(n - 1) :
           t[i] = IF i <= k - 1 THEN low[i] ELSE high[i - (k - 1)]
  <2>1. t = low \o high
    BY <1>2 DEF low, high
  <2>2. Len(low) + Len(high) = n - 1
    BY <1>0, <1>3
  <2>3. /\ t \in Seq(Record) /\ Len(t) = n - 1
        /\ \A i \in 1..(n - 1) :
             t[i] = IF i <= Len(low) THEN low[i] ELSE high[i - Len(low)]
    <3>1. low \in Seq(Record) /\ high \in Seq(Record)
      BY <1>3
    <3>2. /\ low \o high \in Seq(Record)
          /\ Len(low \o high) = Len(low) + Len(high)
          /\ \A i \in 1..(Len(low) + Len(high)) :
               (low \o high)[i] =
                 IF i <= Len(low) THEN low[i] ELSE high[i - Len(low)]
      BY <3>1, ConcatFacts
    <3>3. QED
      BY <2>1, <2>2, <3>2
  <2>4. DOMAIN t = 1..(n - 1)
    BY <2>3
  <2>5. QED
    BY <1>3, <2>3, <2>4
<1>5. \A i \in DOMAIN t : t[i] = IF i < k THEN records[i] ELSE records[i + 1]
  <2> TAKE i \in DOMAIN t
  <2>0. i \in 1..(n - 1)
    BY <1>4
  <2>1. CASE i < k
    <3>1. i \in 1..(k - 1) /\ i <= k - 1
      BY <1>0, <2>0, <2>1
    <3>2. t[i] = low[i] /\ low[i] = records[i]
      BY <1>3, <1>4, <2>0, <3>1
    <3>3. QED
      BY <2>1, <3>2
  <2>2. CASE ~(i < k)
    <3>1. i - (k - 1) \in 1..(n - k) /\ i - (k - 1) + k = i + 1
          /\ ~(i <= k - 1)
      BY <1>1, <1>4, <2>2
    <3>2. QED
      BY <1>3, <1>4, <2>2, <3>1
  <2>3. QED
    BY <2>1, <2>2
<1> HIDE DEF t
<1>6. banned' = banned \ {a}
  BY DEF Remove
<1>7. \A i, j \in DOMAIN t : t[i].id = t[j].id => i = j
  <2>1. \A i \in DOMAIN t : i \in DOMAIN records /\ i + 1 \in DOMAIN records
    BY <1>1, <1>4
  <2>2. QED
    BY <1>1, <1>5, <2>1 DEF Shape, RegistryInv
<1>8. \A b \in banned' : \E i \in DOMAIN t :
        t[i].id = b /\ t[i].status = "blocked"
  <2> TAKE b \in banned'
  <2>1. PICK j \in DOMAIN records :
          records[j].id = b /\ records[j].status = "blocked"
    BY <1>6 DEF Shape, RegistryInv
  <2>2. j # k
    BY <1>2, <1>6, <2>1
  <2>3. CASE j < k
    <3>1. j \in DOMAIN t
      BY <1>1, <1>4, <2>3
    <3>2. QED
      BY <1>5, <2>1, <2>3, <3>1
  <2>4. CASE j > k
    <3>1. j - 1 \in DOMAIN t /\ ~(j - 1 < k) /\ (j - 1) + 1 = j
      BY <1>1, <1>4, <2>4
    <3>2. QED
      BY <1>5, <2>1, <3>1
  <2>5. QED
    BY <1>1, <2>2, <2>3, <2>4
<1>9. t \in Seq(Record) /\ Len(t) <= MaxRecords /\ banned' \subseteq Computers
  BY <1>1, <1>4, <1>6, RelayAssumption
<1>10. QED
  BY <1>7, <1>8, <1>9 DEF t, RegistryInv

LEMMA HelloRegistry ==
  ASSUME Shape, NEW c \in Conns, Hello(c)
  PROVE  RegistryInv' /\ records' \in Seq(Record) /\ Len(records') <= MaxRecords
<1>1. /\ records \in Seq(Record) /\ DOMAIN records = 1..Len(records)
      /\ Len(records) \in Nat /\ Len(records) <= MaxRecords
      /\ who[c] \in Computers /\ DistinctIds(records)
      /\ \A i \in DOMAIN records : records[i] \in Record
  <2>1. at[c] # "none" /\ RegistryType
    BY DEF Hello, Shape
  <2>2. QED
    BY <2>1 DEF Shape, RegistryType, ThreadInv, RegistryInv, DistinctIds
<1> DEFINE r == [id |-> who[c], status |-> HelloStatus(who[c])]
           rs == IF Listed(who[c]) THEN records ELSE Append(records, r)
<1>2. r \in Record /\ r.id = who[c]
  BY <1>1, StatusFacts DEF Shape, Record, RegistryType
<1> HIDE DEF r
<1>3. /\ Append(records, r) \in Seq(Record)
      /\ DOMAIN Append(records, r) = 1..(Len(records) + 1)
      /\ Append(records, r)[Len(records) + 1] = r
      /\ \A i \in DOMAIN records : Append(records, r)[i] = records[i]
  BY <1>1, <1>2
<1>4. /\ rs \in Seq(Record)
      /\ \A i \in DOMAIN records : i \in DOMAIN rs /\ rs[i] = records[i]
  BY <1>1, <1>3
<1>5. DistinctIds(rs)
  <2>1. CASE Listed(who[c])
    BY <1>1, <2>1
  <2>2. CASE ~Listed(who[c])
    <3>1. \A i \in DOMAIN rs : \/ i = Len(records) + 1 /\ rs[i].id = who[c]
                               \/ /\ i \in DOMAIN records
                                  /\ rs[i] = records[i]
                                  /\ rs[i].id # who[c]
      BY <1>1, <1>2, <1>3, <2>2 DEF Listed
    <3> HIDE DEF rs
    <3>2. QED
      BY <1>1, <3>1 DEF DistinctIds
  <2>3. QED
    BY <2>1, <2>2
<1>6. records' = Save(rs) /\ UNCHANGED banned
  BY DEF Hello, r
<1> HIDE DEF rs
<1>7. /\ records' \in Seq(Record) /\ Len(records') <= MaxRecords
      /\ DistinctIds(records')
      /\ \A i \in DOMAIN records : i \in DOMAIN records'
                                   /\ records'[i] = records[i]
  <2>1. \A i \in DOMAIN records : i <= MaxRecords
    BY <1>1, RelayAssumption
  <2>2. /\ Save(rs) \in Seq(Record) /\ Len(Save(rs)) <= MaxRecords
        /\ DistinctIds(Save(rs))
        /\ \A i \in DOMAIN rs : i <= MaxRecords =>
             i \in DOMAIN Save(rs) /\ Save(rs)[i] = rs[i]
    BY <1>4, <1>5, SaveFacts
  <2>3. QED
    BY <1>4, <1>6, <2>1, <2>2
<1>8. QED
  BY <1>6, <1>7 DEF Shape, RegistryInv, DistinctIds

\* The shape through a decision of the user.
LEMMA SetStatusShape ==
  ASSUME Shape, NEW a \in Computers, NEW st \in Statuses, SetStatus(a, st)
  PROVE  Shape'
<1> USE DEF connVars, lanVars, regVars, kernelVars
<1>1. RegistryType' /\ RegistryInv'
  <2>1. /\ RegistryInv' /\ records' \in Seq(Record)
        /\ Len(records') <= MaxRecords /\ banned' \subseteq Computers
    BY SetStatusRegistry
  <2>2. decisions' \in 0..MaxDecisions
    BY RelayAssumption DEF SetStatus, Shape, RegistryType
  <2>3. QED
    BY <2>1, <2>2 DEF SetStatus, Shape, RegistryType
<1>2. ThreadType'
  BY RelayAssumption DEF SetStatus, Shape, ThreadType, Conns, Users, Places
<1>3. RequestType'
  BY DEF SetStatus, Shape, RequestType, Users, Conns
<1>4. QueueType'
  BY DEF SetStatus, Shape, QueueType
<1>5. ThreadInv'
  BY RelayAssumption
     DEF SetStatus, Shape, ThreadInv, BusyUsers, Busy,
         Users, Conns, Local, ThreadType, RequestType
<1>6. QED
  BY <1>1, <1>2, <1>3, <1>4, <1>5 DEF Shape

\* The shape through a removal.
LEMMA RemoveShape ==
  ASSUME Shape, NEW a \in Computers, Remove(a)
  PROVE  Shape'
<1> USE DEF connVars, lanVars, regVars, kernelVars
<1>1. RegistryType' /\ RegistryInv'
  <2>1. /\ RegistryInv' /\ records' \in Seq(Record)
        /\ Len(records') <= MaxRecords /\ banned' \subseteq Computers
    BY RemoveRegistry
  <2>2. decisions' \in 0..MaxDecisions
    BY RelayAssumption DEF Remove, Shape, RegistryType
  <2>3. QED
    BY <2>1, <2>2 DEF Remove, Shape, RegistryType
<1>2. ThreadType'
  BY RelayAssumption DEF Remove, Shape, ThreadType, Conns, Users, Places
<1>3. RequestType'
  BY DEF Remove, Shape, RequestType, Users, Conns
<1>4. QueueType'
  BY DEF Remove, Shape, QueueType
<1>5. ThreadInv'
  BY RelayAssumption
     DEF Remove, Shape, ThreadInv, BusyUsers, Busy,
         Users, Conns, Local, ThreadType, RequestType
<1>6. QED
  BY <1>1, <1>2, <1>3, <1>4, <1>5 DEF Shape

\* The shape through a stop of the relay.
LEMMA StopShape ==
  ASSUME Shape, Stop
  PROVE  Shape'
<1> USE DEF connVars, lanVars, regVars, kernelVars
<1>1. RegistryType' /\ RegistryInv'
  BY RelayAssumption DEF Stop, Shape, RegistryType, RegistryInv
<1>2. ThreadType'
  <2>1. open' = {} /\ activeClient' = 0 /\ running' = FALSE
        /\ UNCHANGED <<who, at, authenticated, conns>> /\ 0 \in 0..MaxConns
    BY RelayAssumption DEF Stop
  <2>2. QED
    BY <2>1 DEF Shape, ThreadType
<1>3. RequestType'
  BY DEF Stop, Shape, RequestType, Users, Conns
<1>4. QueueType'
  BY DEF Stop, Shape, QueueType
<1>5. ThreadInv'
  BY RelayAssumption
     DEF Stop, Shape, ThreadInv, BusyUsers, Busy,
         Users, Conns, Local, ThreadType, RequestType
<1>6. QED
  BY <1>1, <1>2, <1>3, <1>4, <1>5 DEF Shape

\* The shape through a new connection.
LEMMA AcceptShape ==
  ASSUME Shape, NEW a \in Computers, Accept(a)
  PROVE  Shape'
<1> USE DEF connVars, lanVars, regVars, kernelVars
<1>1. RegistryType' /\ RegistryInv'
  BY RelayAssumption DEF Accept, Shape, RegistryType, RegistryInv
<1>2. ThreadType'
  BY RelayAssumption DEF Accept, Shape, ThreadType, Conns, Users, Places
<1>3. RequestType'
  BY DEF Accept, Shape, RequestType, Users, Conns
<1>4. QueueType'
  BY DEF Accept, Shape, QueueType
<1>5. ThreadInv'
  BY RelayAssumption
     DEF Accept, Shape, ThreadInv, BusyUsers, Busy,
         Users, Conns, Local, ThreadType, RequestType
<1>6. QED
  BY <1>1, <1>2, <1>3, <1>4, <1>5 DEF Shape

\* The shape through the hello of a computer.
LEMMA HelloShape ==
  ASSUME Shape, NEW c \in Conns, Hello(c)
  PROVE  Shape'
<1> USE DEF connVars, lanVars, regVars, kernelVars
<1>0. /\ at' \in [Users -> Places] /\ open' \subseteq Conns
      /\ activeClient' \in 0..MaxConns
      /\ request' \in [Users -> Request \cup {None}]
      /\ \/ at' = [at EXCEPT ![c] = "idle"] /\ UNCHANGED request
         \/ /\ at' = [at EXCEPT ![c] = "closed"]
            /\ request' = [request EXCEPT ![c] = None]
      /\ UNCHANGED <<running, who, authenticated, conns, kernelVars,
                     transportLock, channel, reqs, tainted, stray>>
      /\ at[c] = "hello"
  <2>1. CASE Closes(c)
    BY <2>1, ClosesType DEF Hello, Shape, Closes
  <2>2. CASE at' = [at EXCEPT ![c] = "idle"]
             /\ UNCHANGED <<open, activeClient, request>>
    BY <2>2 DEF Hello, Shape, ThreadType, RequestType, Places
  <2>3. QED
    BY <2>1, <2>2 DEF Hello
<1>1. RegistryType' /\ RegistryInv'
  BY HelloRegistry DEF Hello, Shape, RegistryType
<1>2. ThreadType'
  BY <1>0 DEF Shape, ThreadType
<1>3. RequestType'
  BY <1>0 DEF Shape, RequestType
<1>4. QueueType'
  BY <1>0 DEF Shape, QueueType
<1>5. ThreadInv'
  BY <1>0, RelayAssumption
     DEF Shape, ThreadInv, BusyUsers, Busy, Users, Conns, Local, ThreadType,
         RequestType
<1>6. QED
  BY <1>1, <1>2, <1>3, <1>4, <1>5 DEF Shape

\* The shape through the loss of a connection.
LEMMA BreakShape ==
  ASSUME Shape, NEW c \in Conns, Break(c)
  PROVE  Shape'
<1> USE DEF connVars, lanVars, regVars, kernelVars
<1>1. RegistryType' /\ RegistryInv'
  BY RelayAssumption DEF Break, Shape, RegistryType, RegistryInv
<1>2. ThreadType'
  BY RelayAssumption DEF Break, Shape, ThreadType, Conns, Users, Places
<1>3. RequestType'
  BY DEF Break, Shape, RequestType, Users, Conns
<1>4. QueueType'
  BY DEF Break, Shape, QueueType
<1>5. ThreadInv'
  BY RelayAssumption
     DEF Break, Shape, ThreadInv, BusyUsers, Busy,
         Users, Conns, Local, ThreadType, RequestType
<1>6. QED
  BY <1>1, <1>2, <1>3, <1>4, <1>5 DEF Shape

\* The shape through the end of a thread.
LEMMA EndOfStreamShape ==
  ASSUME Shape, NEW c \in Conns, EndOfStream(c)
  PROVE  Shape'
<1> USE DEF connVars, lanVars, regVars, kernelVars
<1>1. RegistryType' /\ RegistryInv'
  BY RelayAssumption DEF EndOfStream, Closes, Shape, RegistryType, RegistryInv
<1>2. ThreadType'
  BY RelayAssumption DEF EndOfStream, Closes, Shape, ThreadType, Conns, Users, Places
<1>3. RequestType'
  BY DEF EndOfStream, Closes, Shape, RequestType, Users, Conns
<1>4. QueueType'
  BY DEF EndOfStream, Closes, Shape, QueueType
<1>5. ThreadInv'
  BY RelayAssumption
     DEF EndOfStream, Closes, Shape, ThreadInv, BusyUsers, Busy,
         Users, Conns, Local, ThreadType, RequestType
<1>6. QED
  BY <1>1, <1>2, <1>3, <1>4, <1>5 DEF Shape

\* The shape through a request of a computer.
LEMMA ReadRequestShape ==
  ASSUME Shape, NEW c \in Conns, ReadRequest(c)
  PROVE  Shape'
<1> USE DEF connVars, lanVars, regVars, kernelVars
<1>0. PICK r \in NewRequest(c) : request' = [request EXCEPT ![c] = r]
  BY DEF ReadRequest
<1>01. c \in Users /\ (c = Local \/ c \in 1..conns) /\ reqs < MaxReqs
  BY RelayAssumption DEF ReadRequest, Shape, ThreadInv, Users, Conns, Local
<1>02. r \in Request /\ r.user = c /\ r.id = reqs + 1
  BY <1>01, NewRequestType
<1>03. request' \in [Users -> Request \cup {None}]
      /\ request'[c] = r /\ \A v \in Users \ {c} : request'[v] = request[v]
  BY <1>0, <1>01, <1>02 DEF Shape, RequestType
<1>04. at' \in [Users -> Places] /\ at'[c] = "request"
      /\ at[c] = "idle" /\ \A v \in Users \ {c} : at'[v] = at[v]
  BY <1>01 DEF ReadRequest, Shape, ThreadType, Places
<1>1. RegistryType' /\ RegistryInv'
  BY RelayAssumption DEF ReadRequest, Shape, RegistryType, RegistryInv
<1>2. ThreadType'
  BY <1>04 DEF ReadRequest, Shape, ThreadType
<1>3. RequestType'
  <2>1. reqs' \in 0..MaxReqs
    BY <1>01, RelayAssumption DEF ReadRequest, Shape, RequestType
  <2>2. QED
    BY <1>03, <2>1 DEF ReadRequest, Shape, RequestType
<1>4. QueueType'
  BY DEF ReadRequest, Shape, QueueType
<1>5. ThreadInv'
  <2>1. \A v \in BusyUsers' : v = c \/ v \in BusyUsers \ {c}
    BY <1>04 DEF BusyUsers
  <2>2. UNCHANGED <<conns, who>> /\ c \in Users
    BY <1>01 DEF ReadRequest
  <2>3. \A v \in BusyUsers' : request'[v] \in Request /\ request'[v].user = v
    BY <1>02, <1>03, <2>1 DEF Shape, ThreadInv, BusyUsers
  <2>4. \A c2 \in Conns : at'[c2] # "none" <=> at[c2] # "none"
    BY <1>04 DEF Users
  <2>5. at'[Local] \in {"idle", "exchange"}
    BY <1>04, RelayAssumption DEF Shape, ThreadInv, Users, Conns, Local
  <2>6. QED
    BY <2>2, <2>3, <2>4, <2>5 DEF Shape, ThreadInv
<1>6. QED
  BY <1>1, <1>2, <1>3, <1>4, <1>5 DEF Shape

\* The shape through the activation of a connection.
LEMMA ActivateShape ==
  ASSUME Shape, NEW c \in Conns, Activate(c)
  PROVE  Shape'
<1> USE DEF connVars, lanVars, regVars, kernelVars
<1>1. RegistryType' /\ RegistryInv'
  BY RelayAssumption DEF Activate, Shape, RegistryType, RegistryInv
<1>2. ThreadType'
  <2>1. at' \in [Users -> Places]
    BY DEF Activate, Shape, ThreadType, Places
  <2>2. activeClient' \in 0..MaxConns
    BY RelayAssumption DEF Activate, Shape, ThreadType, Conns
  <2>3. QED
    BY <2>1, <2>2 DEF Activate, Shape, ThreadType
<1>3. RequestType'
  BY DEF Activate, Shape, RequestType, Users, Conns
<1>4. QueueType'
  BY DEF Activate, Shape, QueueType
<1>5. ThreadInv'
  BY RelayAssumption
     DEF Activate, Shape, ThreadInv, BusyUsers, Busy,
         Users, Conns, Local, ThreadType, RequestType
<1>6. QED
  BY <1>1, <1>2, <1>3, <1>4, <1>5 DEF Shape

\* The shape through the end of a connection that may not write, or cannot.
LEMMA NotWrittenShape ==
  ASSUME Shape, NEW c \in Conns, NotWritten(c)
  PROVE  Shape'
<1> USE DEF connVars, lanVars, regVars, kernelVars
<1>1. RegistryType' /\ RegistryInv'
  BY RelayAssumption DEF NotWritten, Closes, Shape, RegistryType, RegistryInv
<1>2. ThreadType'
  BY RelayAssumption DEF NotWritten, Closes, Shape, ThreadType, Conns, Users, Places
<1>3. RequestType'
  BY DEF NotWritten, Closes, Shape, RequestType, Users, Conns
<1>4. QueueType'
  BY DEF NotWritten, Closes, Shape, QueueType
<1>5. ThreadInv'
  BY RelayAssumption
     DEF NotWritten, Closes, Shape, ThreadInv, BusyUsers, Busy,
         Users, Conns, Local, ThreadType, RequestType
<1>6. QED
  BY <1>1, <1>2, <1>3, <1>4, <1>5 DEF Shape

\* The shape through the request of a computer to the kernel.
LEMMA WriteShape ==
  ASSUME Shape, NEW c \in Conns, Write(c)
  PROVE  Shape'
<1> USE DEF connVars, lanVars, regVars, kernelVars
<1>1. RegistryType' /\ RegistryInv'
  BY RelayAssumption DEF Write, Shape, RegistryType, RegistryInv
<1>2. ThreadType'
  BY RelayAssumption DEF Write, Shape, ThreadType, Conns, Users, Places
<1>3. RequestType'
  BY DEF Write, Shape, RequestType, Users, Conns
<1>4. QueueType'
  <2>1. request[c] \in Request
    BY DEF Write, Shape, ThreadInv, BusyUsers, Busy, Users
  <2>2. rx' \in Seq(Request)
    BY <2>1, AppendFacts DEF Write, Shape, QueueType
  <2>3. QED
    BY <2>2 DEF Write, Shape, QueueType
<1>5. ThreadInv'
  BY RelayAssumption
     DEF Write, Shape, ThreadInv, BusyUsers, Busy,
         Users, Conns, Local, ThreadType, RequestType
<1>6. QED
  BY <1>1, <1>2, <1>3, <1>4, <1>5 DEF Shape

\* The shape through a request of the phone.
LEMMA LocalWriteShape ==
  ASSUME Shape, LocalWrite
  PROVE  Shape'
<1> USE DEF connVars, lanVars, regVars, kernelVars
<1>0. PICK r \in NewRequest(Local) : request' = [request EXCEPT ![Local] = r] /\ rx' = Append(rx, r)
  BY DEF LocalWrite
<1>01. Local \in Users /\ (Local = Local \/ Local \in 1..conns) /\ reqs < MaxReqs
  BY DEF LocalWrite, Shape, ThreadInv, Users, Conns, Local
<1>02. r \in Request /\ r.user = Local /\ r.id = reqs + 1
  BY <1>01, NewRequestType
<1>03. request' \in [Users -> Request \cup {None}]
      /\ request'[Local] = r /\ \A v \in Users \ {Local} : request'[v] = request[v]
  BY <1>0, <1>01, <1>02 DEF Shape, RequestType
<1>04. at' \in [Users -> Places] /\ at'[Local] = "exchange"
      /\ at[Local] = "idle" /\ \A v \in Users \ {Local} : at'[v] = at[v]
  BY <1>01 DEF LocalWrite, Shape, ThreadType, Places
<1>1. RegistryType' /\ RegistryInv'
  BY RelayAssumption DEF LocalWrite, Shape, RegistryType, RegistryInv
<1>2. ThreadType'
  BY <1>04 DEF LocalWrite, Shape, ThreadType
<1>3. RequestType'
  <2>1. reqs' \in 0..MaxReqs
    BY <1>01, RelayAssumption DEF LocalWrite, Shape, RequestType
  <2>2. QED
    BY <1>01, <1>03, <2>1 DEF LocalWrite, Shape, RequestType
<1>4. QueueType'
  <2>1. rx' \in Seq(Request)
    BY <1>0, <1>02, AppendFacts DEF Shape, QueueType
  <2>2. QED
    BY <2>1 DEF LocalWrite, Shape, QueueType
<1>5. ThreadInv'
  <2>1. \A v \in BusyUsers' : v = Local \/ v \in BusyUsers \ {Local}
    BY <1>04 DEF BusyUsers
  <2>2. UNCHANGED <<conns, who>> /\ Local \in Users
    BY <1>01 DEF LocalWrite
  <2>3. \A v \in BusyUsers' : request'[v] \in Request /\ request'[v].user = v
    BY <1>02, <1>03, <2>1 DEF Shape, ThreadInv, BusyUsers
  <2>4. \A c2 \in Conns : at'[c2] # "none" <=> at[c2] # "none"
    BY <1>04 DEF Users
  <2>5. at'[Local] \in {"idle", "exchange"}
    BY <1>04
  <2>6. QED
    BY <2>2, <2>3, <2>4, <2>5 DEF Shape, ThreadInv
<1>6. QED
  BY <1>1, <1>2, <1>3, <1>4, <1>5 DEF Shape

\* The shape through a keepalive.
LEMMA KernelKeepaliveShape ==
  ASSUME Shape, KernelKeepalive
  PROVE  Shape'
<1> USE DEF connVars, lanVars, regVars, kernelVars
<1>1. RegistryType' /\ RegistryInv'
  BY RelayAssumption DEF KernelKeepalive, Shape, RegistryType, RegistryInv
<1>2. ThreadType'
  BY RelayAssumption DEF KernelKeepalive, Shape, ThreadType, Conns, Users, Places
<1>3. RequestType'
  BY DEF KernelKeepalive, Shape, RequestType, Users, Conns
<1>4. QueueType'
  <2>1. Head(rx) \in Request
    BY TailFacts DEF KernelKeepalive, Shape, QueueType
  <2>2. [req |-> Head(rx), kind |-> "keepalive"] \in Packet
    BY <2>1 DEF Packet
  <2>3. tx' \in Seq(Packet)
    BY <2>2, AppendPacket DEF KernelKeepalive, Shape, QueueType
  <2>4. keepalives' \in 0..MaxKeepalives
    BY RelayAssumption DEF KernelKeepalive, Shape, QueueType
  <2>5. QED
    BY <2>3, <2>4 DEF KernelKeepalive, Shape, QueueType
<1>5. ThreadInv'
  BY RelayAssumption
     DEF KernelKeepalive, Shape, ThreadInv, BusyUsers, Busy,
         Users, Conns, Local, ThreadType, RequestType
<1>6. QED
  BY <1>1, <1>2, <1>3, <1>4, <1>5 DEF Shape

\* The shape through an answer of the kernel.
LEMMA KernelAnswerShape ==
  ASSUME Shape, NEW kind \in {"answer", "error"}, KernelAnswer(kind)
  PROVE  Shape'
<1> USE DEF connVars, lanVars, regVars, kernelVars
<1>1. RegistryType' /\ RegistryInv'
  BY RelayAssumption DEF KernelAnswer, Shape, RegistryType, RegistryInv
<1>2. ThreadType'
  BY RelayAssumption DEF KernelAnswer, Shape, ThreadType, Conns, Users, Places
<1>3. RequestType'
  BY DEF KernelAnswer, Shape, RequestType, Users, Conns
<1>4. QueueType'
  <2>1. Head(rx) \in Request /\ rx' \in Seq(Request)
    BY TailFacts DEF KernelAnswer, Shape, QueueType
  <2>2. [req |-> Head(rx), kind |-> kind] \in Packet
    BY <2>1 DEF Packet
  <2>3. tx' \in Seq(Packet)
    BY <2>2, AppendPacket DEF KernelAnswer, Shape, QueueType
  <2>4. keepalives' \in 0..MaxKeepalives
    BY RelayAssumption DEF KernelAnswer
  <2>5. QED
    BY <2>1, <2>3, <2>4 DEF KernelAnswer, Shape, QueueType
<1>5. ThreadInv'
  BY RelayAssumption
     DEF KernelAnswer, Shape, ThreadInv, BusyUsers, Busy,
         Users, Conns, Local, ThreadType, RequestType
<1>6. QED
  BY <1>1, <1>2, <1>3, <1>4, <1>5 DEF Shape

\* The shape through a packet that is skipped.
LEMMA SkipPacketShape ==
  ASSUME Shape, NEW u \in Users, SkipPacket(u)
  PROVE  Shape'
<1> USE DEF connVars, lanVars, regVars, kernelVars
<1>1. RegistryType' /\ RegistryInv'
  BY RelayAssumption DEF SkipPacket, Shape, RegistryType, RegistryInv
<1>2. ThreadType'
  BY RelayAssumption DEF SkipPacket, Shape, ThreadType, Conns, Users, Places
<1>3. RequestType'
  BY DEF SkipPacket, Shape, RequestType, Users, Conns
<1>4. QueueType'
  <2>1. Head(tx) \in Packet /\ tx' \in Seq(Packet)
    BY TakePacket DEF SkipPacket, Shape, QueueType
  <2>2. QED
    BY <2>1 DEF SkipPacket, Shape, QueueType
<1>5. ThreadInv'
  BY RelayAssumption
     DEF SkipPacket, Shape, ThreadInv, BusyUsers, Busy,
         Users, Conns, Local, ThreadType, RequestType
<1>6. QED
  BY <1>1, <1>2, <1>3, <1>4, <1>5 DEF Shape

\* A thread leaves the exchange: what it leaves behind.
Leaves(u) ==
  /\ at' \in [Users -> Places] /\ request' \in [Users -> Request \cup {None}]
  /\ open' \subseteq Conns /\ activeClient' \in 0..MaxConns
  /\ transportLock' = 0
  /\ at[u] = "exchange" /\ at'[u] \in {"idle", "closed"}
  /\ u = Local => at'[u] = "idle"
  /\ \A v \in Users \ {u} : at'[v] = at[v] /\ request'[v] = request[v]

LEMMA GivesUpLeaves ==
  ASSUME Shape, NEW u \in Users, at[u] = "exchange", GivesUp(u)
  PROVE  Leaves(u)
<1>1. CASE u = Local
  BY <1>1, RelayAssumption
     DEF GivesUp, Leaves, Shape, ThreadType, RequestType, Users, Conns, Local,
         Places
<1>2. CASE u # Local
  <2>1. u \in Conns /\ Closes(u) /\ transportLock' = 0
    BY <1>2 DEF GivesUp, Users
  <2>2. at'[u] = "closed" /\ \A v \in Users \ {u} : /\ at'[v] = at[v]
                                                 /\ request'[v] = request[v]
    BY <2>1 DEF Closes, Shape, ThreadType, RequestType
  <2>3. QED
    BY <1>2, <2>1, <2>2, ClosesType DEF Leaves, Shape
<1>3. QED
  BY <1>1, <1>2

LEMMA TakeAnswerLeaves ==
  ASSUME Shape, NEW u \in Users, TakeAnswer(u)
  PROVE  Leaves(u)
<1>1. CASE GivesUp(u)
  BY <1>1, GivesUpLeaves DEF TakeAnswer
<1>2. CASE /\ at' = [at EXCEPT ![u] = "idle"] /\ transportLock' = 0
           /\ request' = [request EXCEPT ![u] = None]
           /\ UNCHANGED <<open, activeClient>>
  BY <1>2 DEF TakeAnswer, Leaves, Shape, ThreadType, RequestType, Places
<1>3. QED
  BY <1>1, <1>2 DEF TakeAnswer

LEMMA LeavesThreads ==
  ASSUME Shape, NEW u \in Users, Leaves(u), UNCHANGED <<conns, who>>
  PROVE  ThreadInv'
<1>1. BusyUsers' \subseteq BusyUsers \ {u}
  BY DEF BusyUsers, Leaves, Busy
<1>2. \A c \in Conns : at'[c] # "none" <=> at[c] # "none"
  BY DEF Leaves, Users
<1>3. at'[Local] \in {"idle", "exchange"}
  BY DEF Leaves, Shape, ThreadInv, Users
<1>4. \A v \in BusyUsers' : request'[v] \in Request /\ request'[v].user = v
  BY <1>1 DEF Leaves, Shape, ThreadInv, BusyUsers
<1>5. QED
  BY <1>2, <1>3, <1>4 DEF Shape, ThreadInv

LEMMA AbandonsType ==
  ASSUME Shape, NEW u \in BusyUsers, Abandons(u)
  PROVE  tainted' \subseteq Ids
<1>1. request[u] \in Request
  BY DEF Shape, ThreadInv
<1>2. request[u].cid \in 0..MaxReqs
  BY <1>1 DEF Request
<1>3. {request[u].cid} \ {Broadcast} \subseteq Ids
  BY <1>2, RelayAssumption DEF Ids, Broadcast
<1>4. QED
  BY <1>3 DEF Abandons, Shape, QueueType

\* The shape through the failure to forward a keepalive.
LEMMA KeepaliveUndeliverableShape ==
  ASSUME Shape, NEW c \in Conns, KeepaliveUndeliverable(c)
  PROVE  Shape'
<1> USE DEF connVars, lanVars, regVars, kernelVars
<1>0. Leaves(c)
  BY GivesUpLeaves DEF KeepaliveUndeliverable, Users
<1>1. RegistryType' /\ RegistryInv'
  BY RelayAssumption DEF KeepaliveUndeliverable, Shape, RegistryType, RegistryInv
<1>2. ThreadType'
  BY <1>0 DEF KeepaliveUndeliverable, Leaves, Shape, ThreadType
<1>3. RequestType'
  BY <1>0, RelayAssumption DEF KeepaliveUndeliverable, Leaves, Shape, RequestType
<1>4. QueueType'
  <2>1. Head(tx) \in Packet /\ tx' \in Seq(Packet)
    BY TakePacket DEF KeepaliveUndeliverable, Shape, QueueType
  <2>2. tainted' \subseteq Ids
    BY AbandonsType DEF KeepaliveUndeliverable, BusyUsers, Busy, Users
  <2>3. QED
    BY <2>1, <2>2 DEF KeepaliveUndeliverable, Shape, QueueType
<1>5. ThreadInv'
  BY <1>0, LeavesThreads DEF KeepaliveUndeliverable, Users
<1>6. QED
  BY <1>1, <1>2, <1>3, <1>4, <1>5 DEF Shape

\* The shape through a timeout.
LEMMA ReadTimeoutShape ==
  ASSUME Shape, NEW u \in Users, ReadTimeout(u)
  PROVE  Shape'
<1> USE DEF connVars, lanVars, regVars, kernelVars
<1>0. Leaves(u)
  BY GivesUpLeaves DEF ReadTimeout
<1>1. RegistryType' /\ RegistryInv'
  BY RelayAssumption DEF ReadTimeout, Shape, RegistryType, RegistryInv
<1>2. ThreadType'
  BY <1>0 DEF ReadTimeout, Leaves, Shape, ThreadType
<1>3. RequestType'
  BY <1>0, RelayAssumption DEF ReadTimeout, Leaves, Shape, RequestType
<1>4. QueueType'
  <2>1. tainted' \subseteq Ids
    BY AbandonsType DEF ReadTimeout, BusyUsers, Busy
  <2>2. QED
    BY <2>1 DEF ReadTimeout, Shape, QueueType
<1>5. ThreadInv'
  BY <1>0, LeavesThreads DEF ReadTimeout
<1>6. QED
  BY <1>1, <1>2, <1>3, <1>4, <1>5 DEF Shape

\* The shape through an answer that is taken.
LEMMA TakeAnswerShape ==
  ASSUME Shape, NEW u \in Users, TakeAnswer(u)
  PROVE  Shape'
<1> USE DEF connVars, lanVars, regVars, kernelVars
<1>0. Leaves(u)
  BY TakeAnswerLeaves
<1>01. /\ Head(tx) \in Packet /\ Head(tx).req \in Request
      /\ tx' \in Seq(Packet)
  <2>1. Head(tx) \in Packet /\ tx' \in Seq(Packet)
    BY TakePacket DEF TakeAnswer, Shape, QueueType
  <2>2. QED
    BY <2>1 DEF Packet
<1>02. u \in BusyUsers /\ request[u] \in Request
  BY DEF TakeAnswer, BusyUsers, Busy, Shape, ThreadInv
<1>1. RegistryType' /\ RegistryInv'
  BY RelayAssumption DEF TakeAnswer, Shape, RegistryType, RegistryInv
<1>2. ThreadType'
  BY <1>0 DEF TakeAnswer, Leaves, Shape, ThreadType
<1>3. RequestType'
  <2>1. Head(tx).req.id \in 0..MaxReqs
    BY <1>01, RelayAssumption DEF Request, Ids
  <2>2. channel' \in [Owners -> 0..MaxReqs]
    BY <2>1 DEF TakeAnswer, Shape, RequestType
  <2>3. QED
    BY <1>0, <2>2 DEF TakeAnswer, Leaves, Shape, RequestType
<1>4. QueueType'
  <2>1. [to |-> request[u], with |-> Head(tx)]
          \in [to : Request, with : Packet]
    BY <1>01, <1>02
  <2>2. stray' \in [to : Request, with : Packet] \cup {None}
    BY <2>1 DEF TakeAnswer, Shape, QueueType
  <2>3. QED
    BY <1>01, <2>2 DEF TakeAnswer, Shape, QueueType
<1>5. ThreadInv'
  BY <1>0, LeavesThreads DEF TakeAnswer
<1>6. QED
  BY <1>1, <1>2, <1>3, <1>4, <1>5 DEF Shape

\* The shape through a step of nothing.
LEMMA StutterShape ==
  ASSUME Shape, UNCHANGED vars
  PROVE  Shape'
<1> USE DEF connVars, lanVars, regVars, kernelVars
<1>1. RegistryType' /\ RegistryInv'
  BY RelayAssumption DEF vars, Shape, RegistryType, RegistryInv
<1>2. ThreadType'
  BY RelayAssumption DEF vars, Shape, ThreadType, Conns, Users, Places
<1>3. RequestType'
  BY DEF vars, Shape, RequestType, Users, Conns
<1>4. QueueType'
  BY DEF vars, Shape, QueueType
<1>5. ThreadInv'
  BY DEF vars, Shape, ThreadInv, BusyUsers
<1>6. QED
  BY <1>1, <1>2, <1>3, <1>4, <1>5 DEF Shape

\* The next-state relation, action by action.
LEMMA ShapeStep == Shape /\ [Next]_vars => Shape'
<1> SUFFICES ASSUME Shape, [Next]_vars PROVE Shape'
  OBVIOUS
<1>1. ASSUME NEW a \in Computers, Accept(a) \/ Remove(a) PROVE Shape'
  BY <1>1, AcceptShape, RemoveShape
<1>2. ASSUME NEW a \in Computers, NEW st \in Statuses, SetStatus(a, st)
      PROVE  Shape'
  BY <1>2, SetStatusShape
<1>3. ASSUME NEW c \in Conns, Thread(c) \/ Break(c) PROVE Shape'
  BY <1>3, HelloShape, EndOfStreamShape, ReadRequestShape, ActivateShape,
     NotWrittenShape, WriteShape, BreakShape DEF Thread
<1>4. ASSUME NEW u \in Users, Exchange(u) PROVE Shape'
  BY <1>4, SkipPacketShape, TakeAnswerShape, ReadTimeoutShape,
     KeepaliveUndeliverableShape DEF Exchange, Users
<1>5. ASSUME NEW kind \in {"answer", "error"}, KernelAnswer(kind) PROVE Shape'
  BY <1>5, KernelAnswerShape
<1>6. QED
  BY <1>1, <1>2, <1>3, <1>4, <1>5, StopShape, LocalWriteShape,
     KernelKeepaliveShape, StutterShape DEF Next

-----------------------------------------------------------------------------
(* Theorems about the shape.                                                *)

\* The variables stay in their types, and the registry in its limit.
THEOREM TypeCorrect == Spec => []TypeOK
<1>1. Spec => []Shape
  BY InitShape, ShapeStep, PTL DEF Spec
<1>2. Shape => TypeOK
  BY TypeParts DEF Shape
<1>3. QED
  BY <1>1, <1>2, PTL

\* A computer that the user has blocked stays listed as blocked: joining
\* computers, a full registry and removals of others do not lose its entry
\* (LanClientRegistry.save and onHello).
THEOREM BlockedStay == Spec => []BlockedStaysOut
<1>1. Spec => []Shape
  BY InitShape, ShapeStep, PTL DEF Spec
<1>2. Shape => BlockedStaysOut
  <2> SUFFICES ASSUME Shape, NEW a \in banned
               PROVE  Listed(a) /\ StatusOf(a) = "blocked"
    BY DEF BlockedStaysOut
  <2>1. PICK i \in DOMAIN records :
          records[i].id = a /\ records[i].status = "blocked"
    BY DEF Shape, RegistryInv
  <2>2. Listed(a) /\ a \in Computers
    BY <2>1 DEF Listed, Shape, RegistryType
  <2>3. PICK j \in DOMAIN records :
          records[j].id = a /\ StatusOf(a) = records[j].status
    BY <2>2, StatusFacts DEF Shape
  <2>4. i = j
    BY <2>1, <2>3 DEF Shape, RegistryInv
  <2>5. QED
    BY <2>1, <2>2, <2>3, <2>4
<1>3. QED
  BY <1>1, <1>2, PTL

-----------------------------------------------------------------------------
(* Requests and channels.                                                   *)

\* Who has made a request that is known does not change.
LEMMA OwnerStays ==
  ASSUME RequestInv, \A c \in 1..conns : who'[c] = who[c], NEW q \in Known
  PROVE  Owner(q.user)' = Owner(q.user)
BY DEF RequestInv, Owner

\* A step that makes no request; a channel may be given to the owner of the
\* INIT that it is named by.
LEMMA NothingNew ==
  ASSUME Shape, RequestInv, ChannelInv, Known' \subseteq Known, UNCHANGED reqs,
         1..conns \subseteq 1..(conns'), \A c \in 1..conns : who'[c] = who[c],
         \/ UNCHANGED channel
         \/ \E q \in Known : channel' = [channel EXCEPT ![Owner(q.user)] = q.id]
  PROVE  RequestInv' /\ ChannelInv'
<1>1. RequestInv'
  BY DEF RequestInv
<1>2. \A q \in Known : Owner(q.user)' = Owner(q.user)
  BY OwnerStays
<1>3. \A o \in Owners : \/ channel'[o] = channel[o]
                       \/ \E q \in Known : channel'[o] = q.id
                                           /\ o = Owner(q.user)
  BY DEF Shape, RequestType
<1>4. ASSUME NEW x \in Claims' PROVE x \in Claims
  <2>1. CASE \E q \in Known' : x = <<q.id, Owner(q.user)'>>
    BY <1>2, <2>1 DEF Claims
  <2>2. CASE \E q \in Known' : q.cid # Broadcast
                               /\ x = <<q.cid, Owner(q.user)'>>
    BY <1>2, <2>2 DEF Claims
  <2>3. CASE \E o \in Owners : channel'[o] # Broadcast
                               /\ x = <<channel'[o], o>>
    BY <1>3, <2>3 DEF Claims
  <2>4. QED
    BY <1>4, <2>1, <2>2, <2>3 DEF Claims
<1>5. \A o \in Owners : channel'[o] <= reqs
  BY <1>3 DEF ChannelInv, RequestInv
<1>6. QED
  BY <1>1, <1>4, <1>5 DEF ChannelInv

\* A step that makes a request.
LEMMA OneNew ==
  ASSUME Shape, RequestInv, ChannelInv, NEW u \in Users,
         u = Local \/ u \in 1..conns, reqs < MaxReqs, NEW r \in NewRequest(u),
         Known' \subseteq Known \cup {r}, reqs' = reqs + 1,
         UNCHANGED <<who, conns, channel>>
  PROVE  RequestInv' /\ ChannelInv'
<1>1. /\ r \in Request /\ r.id = reqs + 1 /\ r.user = u
      /\ Owner(u) \in Owners /\ r.cid \in {Broadcast, channel[Owner(u)]}
      /\ r.cid = Broadcast <=> r.cmd = "init"
  BY NewRequestType
<1>2. reqs \in Nat /\ \A o \in Owners : channel[o] \in Nat /\ channel[o] <= reqs
  BY DEF Shape, RequestType, ChannelInv
<1>3. \A q \in Known : q.id \in Nat /\ q.cid \in Nat /\ q.id <= reqs
                      /\ q.cid <= reqs
  BY DEF RequestInv, Request, Ids
<1>4. r.cid \in Nat /\ r.cid <= reqs
  BY <1>1, <1>2 DEF Broadcast
<1>5. RequestInv'
  <2>1. \A q \in Known' : /\ q \in Request /\ q.id <= reqs' /\ q.cid <= reqs'
                          /\ q.cid = Broadcast <=> q.cmd = "init"
                          /\ q.user = Local \/ q.user \in 1..(conns')
    BY <1>1, <1>2, <1>3, <1>4 DEF RequestInv
  <2>2. \A p, q \in Known' : p.id = q.id => p = q
    BY <1>1, <1>2, <1>3 DEF RequestInv
  <2>3. QED
    BY <2>1, <2>2 DEF RequestInv
<1>6. \A q : Owner(q.user)' = Owner(q.user)
  BY DEF Owner
<1>7. ASSUME NEW x \in Claims' PROVE x \in Claims \cup {<<reqs + 1, Owner(u)>>}
  <2>1. CASE \E q \in Known' : x = <<q.id, Owner(q.user)'>>
    BY <1>1, <1>6, <2>1 DEF Claims
  <2>2. CASE \E q \in Known' : q.cid # Broadcast
                               /\ x = <<q.cid, Owner(q.user)'>>
    <3>1. PICK q \in Known' : q.cid # Broadcast /\ x = <<q.cid, Owner(q.user)>>
      BY <1>6, <2>2
    <3>2. CASE q \in Known
      BY <3>1, <3>2 DEF Claims
    <3>3. CASE q = r
      BY <1>1, <3>1, <3>3 DEF Claims
    <3>4. QED
      BY <3>2, <3>3
  <2>3. CASE \E o \in Owners : channel[o] # Broadcast
                               /\ x = <<channel[o], o>>
    BY <2>3 DEF Claims
  <2>4. QED
    BY <1>7, <2>1, <2>2, <2>3 DEF Claims
<1>8. \A x \in Claims : x[1] \in Nat /\ x[1] <= reqs
  BY <1>2, <1>3 DEF Claims
<1>9. \A x, y \in Claims' : x[1] = y[1] => x = y
  BY <1>2, <1>7, <1>8 DEF ChannelInv
<1>10. \A o \in Owners : channel'[o] <= reqs'
  BY <1>2
<1>11. QED
  BY <1>5, <1>9, <1>10 DEF ChannelInv

-----------------------------------------------------------------------------
(* What is sent, and what is waited for.                                    *)

\* A step that leaves the queues and the requests in hand alone.
Still ==
  /\ UNCHANGED <<rx, tx, stray, transportLock, tainted>>
  /\ \A u \in Users :
       \/ at'[u] = at[u] /\ (u \in BusyUsers => request'[u] = request[u])
       \/ at[u] \notin Busy /\ at'[u] \notin Busy
       \/ /\ at[u] = "request" /\ at'[u] = "waiting"
          /\ request'[u] = request[u]

LEMMA StillKeeps ==
  ASSUME Shape, QueueInv, Still
  PROVE  QueueInv' /\ Known' = Known
<1>1. BusyUsers' = BusyUsers /\ \A u \in BusyUsers : request'[u] = request[u]
  BY DEF Still, BusyUsers, Busy
<1>2. /\ \A u \in Users : at'[u] = "exchange" <=> at[u] = "exchange"
      /\ \A u \in Users : at[u] = "exchange" => u \in BusyUsers
  BY DEF Still, Busy, BusyUsers
<1>3. LockInv'
  BY <1>2 DEF Still, QueueInv, LockInv
<1>4. SentInv'
  BY <1>1, <1>2 DEF Still, QueueInv, SentInv, BusyUsers
<1>5. PacketInv'
  BY DEF Still, QueueInv, PacketInv
<1>6. PendingInv'
  BY <1>1, <1>2 DEF Still, QueueInv, PendingInv
<1>7. Known' = Known
  BY <1>1 DEF Known, Strays, Still
<1>8. QED
  BY <1>3, <1>4, <1>5, <1>6, <1>7 DEF QueueInv

\* A thread takes up a request, or drops the one it has not sent.
LEMMA AsksKeeps ==
  ASSUME Shape, RequestInv, QueueInv, NEW c \in Conns, ReadRequest(c),
         NEW r \in NewRequest(c), request' = [request EXCEPT ![c] = r]
  PROVE  QueueInv' /\ Known' \subseteq Known \cup {r}
<1>1. /\ c \in Users /\ at[c] = "idle" /\ at'[c] = "request"
      /\ \A u \in Users \ {c} : at'[u] = at[u] /\ request'[u] = request[u]
      /\ request'[c] = r
      /\ UNCHANGED <<rx, tx, stray, transportLock, tainted>>
  BY DEF ReadRequest, Users, Shape, ThreadType, RequestType, kernelVars
<1>2. BusyUsers' = BusyUsers \cup {c} /\ c \notin BusyUsers
  BY <1>1 DEF BusyUsers, Busy
<1>3. r.id = reqs + 1 /\ reqs \in Nat
  BY <1>1, NewRequestType, RelayAssumption
     DEF ReadRequest, Shape, ThreadInv, Users, RequestType
<1>4. r \notin Known
  BY <1>3 DEF RequestInv
<1>5. LockInv'
  BY <1>1 DEF QueueInv, LockInv
<1>6. SentInv'
  BY <1>1, <1>2, <1>4 DEF QueueInv, SentInv, Known, BusyUsers
<1>7. PacketInv'
  BY <1>1 DEF QueueInv, PacketInv
<1>8. PendingInv'
  BY <1>1 DEF QueueInv, PendingInv
<1>9. Known' \subseteq Known \cup {r}
  BY <1>1, <1>2 DEF Known, Strays, BusyUsers
<1>10. QED
  BY <1>5, <1>6, <1>7, <1>8, <1>9 DEF QueueInv

LEMMA NotWrittenKeeps ==
  ASSUME Shape, QueueInv, NEW c \in Conns, NotWritten(c)
  PROVE  QueueInv' /\ Known' \subseteq Known
<1>1. /\ c \in Users /\ at[c] = "waiting" /\ at'[c] = "closed"
      /\ \A u \in Users \ {c} : at'[u] = at[u] /\ request'[u] = request[u]
      /\ UNCHANGED <<rx, tx, stray, transportLock, tainted>>
  BY DEF NotWritten, Closes, Users, Shape, ThreadType, RequestType, kernelVars
<1>2. BusyUsers' = BusyUsers \ {c}
  BY <1>1 DEF BusyUsers, Busy
<1>3. LockInv'
  BY <1>1 DEF QueueInv, LockInv
<1>4. SentInv'
  BY <1>1, <1>2 DEF QueueInv, SentInv, BusyUsers
<1>5. PacketInv'
  BY <1>1 DEF QueueInv, PacketInv
<1>6. PendingInv'
  BY <1>1 DEF QueueInv, PendingInv
<1>7. Known' \subseteq Known
  BY <1>1, <1>2 DEF Known, Strays, BusyUsers
<1>8. QED
  BY <1>3, <1>4, <1>5, <1>6, <1>7 DEF QueueInv

\* A request r goes to the kernel, on behalf of user u; unless it is a
\* CANCEL, u waits for the answer.
Sends(u, r) ==
  /\ rx' = Append(rx, r) /\ transportLock = 0
  /\ \/ /\ r.cmd = "cancel" /\ at'[u] = "idle" /\ transportLock' = 0
     \/ /\ r.cmd # "cancel" /\ at'[u] = "exchange" /\ transportLock' = u
        /\ request'[u] = r
  /\ \A v \in Users \ {u} : at'[v] = at[v] /\ request'[v] = request[v]
  /\ UNCHANGED <<tx, stray, tainted>>

LEMMA SendsKeeps ==
  ASSUME Shape, QueueInv, NEW u \in Users, NEW r \in Request, Sends(u, r),
         r \notin Elems(rx) \cup About(tx),
         \A v \in BusyUsers \ {u} : request[v] # r
  PROVE  QueueInv' /\ Known' \subseteq Known \cup {r}
<1>1. Elems(rx') = Elems(rx) \cup {r} /\ (Distinct(rx) => Distinct(rx'))
  BY AppendFacts DEF Sends, Shape, QueueType
<1>2. BusyUsers' \subseteq BusyUsers \cup {u}
  BY DEF Sends, BusyUsers, Busy
<1>3. \A v \in Users : v # 0 /\ at[v] # "exchange"
  BY RelayAssumption DEF Sends, QueueInv, LockInv, Users, Conns, Local
<1>4. LockInv'
  BY <1>3 DEF Sends, LockInv
<1>5. Answered(tx) \subseteq About(tx)
  BY DEF Answered, About, Answers
<1>6. SentInv'
  <2>1. Distinct(rx') /\ Once(tx') /\ Elems(rx') \cap Answered(tx') = {}
    BY <1>1, <1>5 DEF Sends, QueueInv, SentInv
  <2>2. \A v \in BusyUsers' : at'[v] # "exchange" =>
          v \in BusyUsers \ {u} /\ at[v] # "exchange" /\ request'[v] = request[v]
    BY <1>2 DEF Sends, BusyUsers, Busy
  <2>3. \A v \in BusyUsers' : at'[v] # "exchange" =>
          request'[v] \notin Elems(rx') \cup About(tx')
    BY <1>1, <2>2 DEF Sends, QueueInv, SentInv
  <2>4. QED
    BY <2>1, <2>3 DEF SentInv
<1>7. PacketInv'
  BY DEF Sends, QueueInv, PacketInv
<1>8. PendingInv'
  <2>1. \A v \in Users : at'[v] = "exchange" =>
          v = u /\ request'[v] = r /\ r.cmd # "cancel"
    BY <1>3 DEF Sends
  <2>2. ASSUME NEW q \in Elems(rx') \cup Answered(tx')
        PROVE  \/ q.cmd \in {"cancel", "init"} \/ q.cid \in tainted'
               \/ \E v \in Users : at'[v] = "exchange" /\ request'[v] = q
    <3>1. CASE q = r
      BY <3>1 DEF Sends
    <3>2. CASE q \in Elems(rx) \cup Answered(tx)
      BY <1>3, <3>2 DEF QueueInv, PendingInv, Sends
    <3>3. QED
      BY <1>1, <2>2, <3>1, <3>2 DEF Sends
  <2>3. QED
    BY <1>1, <2>1, <2>2 DEF PendingInv
<1>9. Known' \subseteq Known \cup {r}
  <2>1. \A v \in BusyUsers' : request'[v] \in {r} \cup {request[w] : w \in BusyUsers}
    BY DEF Sends, BusyUsers, Busy
  <2>2. UNCHANGED Strays
    BY DEF Sends, Strays
  <2>3. QED
    BY <1>1, <2>1, <2>2 DEF Known, Sends
<1>10. QED
  BY <1>4, <1>6, <1>7, <1>8, <1>9 DEF QueueInv

\* The kernel's steps.
LEMMA KeepaliveKeeps ==
  ASSUME Shape, QueueInv, KernelKeepalive
  PROVE  QueueInv' /\ Known' \subseteq Known
<1>1. /\ Head(rx) \in Request /\ Head(rx) \in Elems(rx)
      /\ Head(rx).cmd = "cbor" /\ tx \in Seq(Packet)
  BY TailFacts DEF KernelKeepalive, Shape, QueueType
<1> DEFINE k == [req |-> Head(rx), kind |-> "keepalive"]
<1>2. k \in Packet /\ tx' = Append(tx, k) /\ k.kind = "keepalive"
      /\ k.req = Head(rx)
  BY <1>1 DEF KernelKeepalive, Packet
<1> HIDE DEF k
<1>3. /\ About(tx') = About(tx) \cup {Head(rx)} /\ Answered(tx') = Answered(tx)
      /\ Once(tx) => Once(tx')
  <2>1. /\ About(tx') = About(tx) \cup {k.req}
        /\ Answered(tx') = Answered(tx) \cup
             (IF k.kind = "keepalive" THEN {} ELSE {k.req})
        /\ Once(tx) /\ (k.kind = "keepalive" \/ k.req \notin Answered(tx))
             => Once(tx')
    BY <1>1, <1>2, AppendPacket
  <2>2. QED
    BY <1>2, <2>1
<1>4. UNCHANGED <<rx, at, request, transportLock, tainted, stray>>
  BY DEF KernelKeepalive
<1>5. LockInv'
  BY <1>4 DEF QueueInv, LockInv
<1>6. SentInv'
  BY <1>1, <1>3, <1>4 DEF QueueInv, SentInv, BusyUsers
<1>7. PacketInv'
  <2>1. \A i \in DOMAIN tx' : (i \in DOMAIN tx /\ tx'[i] = tx[i]) \/ tx'[i] = k
    BY <1>1, <1>2
  <2>2. QED
    BY <1>1, <2>1 DEF k, QueueInv, PacketInv
<1>8. PendingInv'
  BY <1>3, <1>4 DEF QueueInv, PendingInv
<1>9. Known' \subseteq Known
  BY <1>1, <1>3, <1>4 DEF Known, Strays, BusyUsers
<1>10. QED
  BY <1>5, <1>6, <1>7, <1>8, <1>9 DEF QueueInv

LEMMA AnswerKeeps ==
  ASSUME Shape, QueueInv, NEW kind \in {"answer", "error"}, KernelAnswer(kind)
  PROVE  QueueInv' /\ Known' \subseteq Known
<1> DEFINE q == Head(rx)
<1>1. /\ q \in Request /\ Elems(rx) = Elems(rx') \cup {q}
      /\ Distinct(rx) => Distinct(rx') /\ q \notin Elems(rx')
      /\ tx \in Seq(Packet)
  BY TailFacts DEF KernelAnswer, Shape, QueueType
<1> DEFINE k == [req |-> q, kind |-> kind]
<1>2. k \in Packet /\ k.kind # "keepalive" /\ k.req = q /\ k.kind = kind
  BY <1>1 DEF Packet
<1>3. tx' = IF q.cmd = "cancel" THEN tx ELSE Append(tx, k)
  BY DEF KernelAnswer
<1>4. q \notin Answered(tx) /\ q \notin Elems(rx')
  BY <1>1 DEF QueueInv, SentInv
<1>5. /\ About(tx') \subseteq About(tx) \cup {q}
      /\ Answered(tx') = Answered(tx) \cup (IF q.cmd = "cancel" THEN {} ELSE {q})
      /\ Once(tx) => Once(tx')
  <2>1. CASE q.cmd = "cancel"
    BY <1>3, <2>1
  <2>2. CASE q.cmd # "cancel"
    BY <1>1, <1>2, <1>3, <1>4, <2>2, AppendPacket
  <2>3. QED
    BY <2>1, <2>2
<1>6. UNCHANGED <<at, request, transportLock, tainted, stray>>
  BY DEF KernelAnswer
<1>7. PacketInv'
  <2>1. q.cmd # "cancel" =>
          \A i \in DOMAIN tx' : (i \in DOMAIN tx /\ tx'[i] = tx[i]) \/ tx'[i] = k
    BY <1>1, <1>2, <1>3
  <2>2. kind = "error" => q.cmd = "init"
    BY DEF KernelAnswer
  <2>3. CASE q.cmd = "cancel"
    BY <1>3, <2>3 DEF QueueInv, PacketInv
  <2>4. CASE q.cmd # "cancel"
    BY <1>2, <2>1, <2>2, <2>4 DEF QueueInv, PacketInv
  <2>5. QED
    BY <2>3, <2>4
<1> HIDE DEF q, k
<1>8. LockInv'
  BY <1>6 DEF QueueInv, LockInv
<1>9. SentInv'
  BY <1>1, <1>4, <1>5, <1>6 DEF QueueInv, SentInv, BusyUsers
<1>10. PendingInv'
  BY <1>1, <1>5, <1>6 DEF QueueInv, PendingInv
<1>11. Known' \subseteq Known
  BY <1>1, <1>5, <1>6 DEF Known, Strays, BusyUsers
<1>12. QED
  BY <1>7, <1>8, <1>9, <1>10, <1>11 DEF QueueInv

\* A thread in an exchange takes a packet.
LEMMA PacketTaken ==
  ASSUME Shape, tx # <<>>, tx' = Tail(tx), PacketInv
  PROVE  /\ Head(tx) \in Packet /\ Head(tx).req \in Request
         /\ About(tx) = About(tx') \cup {Head(tx).req}
         /\ Answered(tx) = Answered(tx') \cup
              (IF Head(tx).kind = "keepalive" THEN {} ELSE {Head(tx).req})
         /\ Once(tx) => /\ Once(tx')
                        /\ Head(tx).kind # "keepalive" =>
                             Head(tx).req \notin Answered(tx')
         /\ PacketInv'
         /\ Head(tx).kind = "error" => Head(tx).req.cmd = "init"
         /\ Head(tx).req.cmd # "cancel"
<1>1. tx \in Seq(Packet)
  BY DEF Shape, QueueType
<1>2. /\ Head(tx) \in Packet
      /\ About(tx) = About(tx') \cup {Head(tx).req}
      /\ Answered(tx) = Answered(tx') \cup
              (IF Head(tx).kind = "keepalive" THEN {} ELSE {Head(tx).req})
      /\ Once(tx) => /\ Once(tx')
                     /\ Head(tx).kind # "keepalive" =>
                          Head(tx).req \notin Answered(tx')
      /\ \A i \in DOMAIN tx' : \E j \in DOMAIN tx : tx'[i] = tx[j]
  BY <1>1, TakePacket
<1>3. Head(tx) = tx[1] /\ 1 \in DOMAIN tx
  BY <1>1
<1>4. PacketInv'
  BY <1>2 DEF PacketInv
<1>5. QED
  BY <1>2, <1>3, <1>4 DEF PacketInv, Packet

LEMMA SkipKeeps ==
  ASSUME Shape, QueueInv, NEW u \in Users, SkipPacket(u)
  PROVE  QueueInv' /\ Known' \subseteq Known
<1>1. /\ Head(tx) \in Packet /\ Head(tx).req \in Request
      /\ About(tx) = About(tx') \cup {Head(tx).req}
      /\ Answered(tx) = Answered(tx') \cup
              (IF Head(tx).kind = "keepalive" THEN {} ELSE {Head(tx).req})
      /\ Once(tx) => Once(tx')
      /\ PacketInv'
  BY PacketTaken DEF SkipPacket, QueueInv
<1>2. UNCHANGED <<rx, at, request, transportLock, tainted, stray>>
  BY DEF SkipPacket
<1>3. Head(tx).kind # "keepalive" => Head(tx).req # request[u]
  BY DEF SkipPacket, Matches
<1>4. \A v \in Users : at[v] = "exchange" => v = u
  BY DEF SkipPacket, QueueInv, LockInv
<1>5. LockInv'
  BY <1>2 DEF QueueInv, LockInv
<1>6. SentInv'
  BY <1>1, <1>2 DEF QueueInv, SentInv, BusyUsers
<1>7. PendingInv'
  <2>1. request[u] \in Elems(rx) \cup Answered(tx')
        /\ request[u].cmd # "cancel"
    BY <1>1, <1>3 DEF SkipPacket, QueueInv, PendingInv
  <2>2. QED
    BY <1>1, <1>2, <1>4, <2>1 DEF QueueInv, PendingInv
<1>8. Known' \subseteq Known
  BY <1>1, <1>2 DEF Known, Strays, BusyUsers
<1>9. QED
  BY <1>1, <1>5, <1>6, <1>7, <1>8 DEF QueueInv

\* A thread leaves an exchange: what is still pending of its request is on a
\* channel that is given up, or an INIT.
LEMMA LeavesKeeps ==
  ASSUME Shape, QueueInv, NEW u \in Users, Leaves(u), UNCHANGED rx,
         About(tx') \subseteq About(tx), Answered(tx') \subseteq Answered(tx),
         Once(tx'), PacketInv', tainted \subseteq tainted',
         request[u] \in Elems(rx) \cup Answered(tx') =>
           request[u].cmd = "init" \/ request[u].cid \in tainted'
  PROVE  QueueInv'
<1>1. \A v \in Users : at[v] = "exchange" => v = u
  BY DEF Leaves, QueueInv, LockInv
<1>2. \A v \in Users : v # 0 /\ at'[v] # "exchange"
  BY <1>1, RelayAssumption DEF Leaves, Users, Conns, Local
<1>3. BusyUsers' \subseteq BusyUsers \ {u}
  BY DEF BusyUsers, Leaves, Busy
<1>4. LockInv'
  BY <1>2 DEF Leaves, LockInv
<1>5. SentInv'
  BY <1>3 DEF Leaves, QueueInv, SentInv, BusyUsers
<1>6. PendingInv'
  <2>1. ASSUME NEW q \in Elems(rx') \cup Answered(tx')
        PROVE  q.cmd \in {"cancel", "init"} \/ q.cid \in tainted'
    <3>1. CASE q = request[u]
      BY <2>1, <3>1
    <3>2. CASE q # request[u]
      BY <1>1, <2>1, <3>2 DEF QueueInv, PendingInv
    <3>3. QED
      BY <3>1, <3>2
  <2>2. QED
    BY <1>2, <2>1 DEF PendingInv
<1>7. QED
  BY <1>4, <1>5, <1>6 DEF QueueInv

LEMMA LeavesKnown ==
  ASSUME NEW u \in Users, Leaves(u), UNCHANGED rx,
         About(tx') \subseteq About(tx), Strays' \subseteq Known
  PROVE  Known' \subseteq Known
<1>1. \A v \in BusyUsers' : v \in BusyUsers /\ request'[v] = request[v]
  BY DEF BusyUsers, Leaves, Busy
<1>2. QED
  BY <1>1 DEF Known

\* A thread gives its request up.
LEMMA AbandonsKeeps ==
  ASSUME Shape, RequestInv, QueueInv, NEW u \in Users,
         ReadTimeout(u) \/ (u \in Conns /\ KeepaliveUndeliverable(u))
  PROVE  QueueInv' /\ Known' \subseteq Known
<1>1. Leaves(u)
  BY GivesUpLeaves DEF ReadTimeout, KeepaliveUndeliverable
<1>2. /\ UNCHANGED <<rx, stray>>
      /\ tainted' = tainted \cup ({request[u].cid} \ {Broadcast})
  BY DEF ReadTimeout, KeepaliveUndeliverable, Abandons, kernelVars
<1>3. /\ About(tx') \subseteq About(tx) /\ Answered(tx') \subseteq Answered(tx)
      /\ Once(tx') /\ PacketInv'
  <2>1. CASE UNCHANGED tx
    BY <2>1 DEF QueueInv, SentInv, PacketInv
  <2>2. CASE tx # <<>> /\ tx' = Tail(tx)
    BY <2>2, PacketTaken DEF QueueInv, SentInv
  <2>3. QED
    BY <2>1, <2>2 DEF ReadTimeout, KeepaliveUndeliverable, kernelVars
<1>4. request[u] \in Known
  BY <1>1 DEF Leaves, Known, BusyUsers, Busy
<1>5. request[u].cmd = "init" \/ request[u].cid \in tainted'
  BY <1>2, <1>4 DEF RequestInv
<1>6. QueueInv'
  BY <1>1, <1>2, <1>3, <1>5, LeavesKeeps
<1>7. Known' \subseteq Known
  <2>1. Strays' \subseteq Known
    BY <1>2 DEF Strays, Known
  <2>2. QED
    BY <1>1, <1>2, <1>3, <2>1, LeavesKnown
<1>8. QED
  BY <1>6, <1>7

\* A thread takes an answer: its own, unless it is a late one of its channel
\* or the error of another INIT.
LEMMA TakeAnswerKeeps ==
  ASSUME Shape, RequestInv, ChannelInv, QueueInv, NEW u \in Users,
         TakeAnswer(u)
  PROVE  /\ QueueInv' /\ Known' \subseteq Known
         /\ \/ UNCHANGED channel
            \/ \E q \in Known :
                 channel' = [channel EXCEPT ![Owner(q.user)] = q.id]
         /\ AnswersStayHome => AnswersStayHome'
         /\ AnswersMatch => AnswersMatch'
<1> DEFINE p == Head(tx)
           r == request[u]
<1>1. /\ p \in Packet /\ p.req \in Request
      /\ About(tx) = About(tx') \cup {p.req}
      /\ Answered(tx) = Answered(tx') \cup {p.req}
      /\ Once(tx') /\ p.req \notin Answered(tx')
      /\ PacketInv' /\ (p.kind = "error" => p.req.cmd = "init")
      /\ p.req.cmd # "cancel"
  <2>1. p.kind # "keepalive"
    BY DEF TakeAnswer
  <2>2. QED
    BY <2>1, PacketTaken DEF TakeAnswer, QueueInv, SentInv
<1>2. Leaves(u)
  BY TakeAnswerLeaves
<1>3. /\ u \in BusyUsers /\ r \in Known /\ p.req \in Known
      /\ r \in Request /\ r.user = u
  BY <1>1, <1>2 DEF Leaves, BusyUsers, Busy, Known, Shape, ThreadInv
<1>4. UNCHANGED <<rx, tainted, who>>
  BY DEF TakeAnswer, connVars
<1>5. p.req.cid = r.cid /\ p.kind \in {"answer", "error"}
      /\ (p.kind = "answer" => p.req.cmd = r.cmd)
      /\ (p.kind # "error" /\ r.cmd = "init" => p.req.id = r.id)
  BY <1>1 DEF TakeAnswer, Matches, Packet
<1>6. p.req \notin Elems(rx)
  BY <1>1 DEF QueueInv, SentInv
<1>7. \/ p.req = r \/ r.cid \in tainted
      \/ p.kind = "error" /\ r.cid = Broadcast /\ r.cmd = "init"
  <2>1. CASE p.req.cmd = "init"
    <3>1. r.cid = Broadcast /\ r.cmd = "init"
      BY <1>3, <1>5, <2>1 DEF RequestInv
    <3>2. p.kind = "answer" => p.req = r
      BY <1>3, <1>5, <3>1 DEF RequestInv
    <3>3. QED
      BY <1>5, <3>1, <3>2
  <2>2. CASE p.req.cmd # "init"
    <3>1. \/ p.req.cid \in tainted
          \/ \E v \in Users : at[v] = "exchange" /\ request[v] = p.req
      BY <1>1, <2>2 DEF QueueInv, PendingInv
    <3>2. \A v \in Users : at[v] = "exchange" => v = u
      BY <1>2 DEF Leaves, QueueInv, LockInv
    <3>3. QED
      BY <1>5, <3>1, <3>2
  <2>3. QED
    BY <2>1, <2>2
<1> HIDE DEF p, r
<1>8. QueueInv'
  <2>1. r \in Elems(rx) \cup Answered(tx') => r.cmd = "init" \/ r.cid \in tainted'
    BY <1>1, <1>4, <1>6, <1>7
  <2>2. About(tx') \subseteq About(tx) /\ Answered(tx') \subseteq Answered(tx)
    BY <1>1
  <2>3. QED
    BY <1>1, <1>2, <1>4, <2>1, <2>2, LeavesKeeps DEF r
<1>9. stray' = stray \/ (p.req # r /\ stray' = [to |-> r, with |-> p])
  BY DEF TakeAnswer, p, r
<1>10. Known' \subseteq Known
  <2>1. Strays' \subseteq Known
    <3>1. CASE stray' = stray
      BY <3>1 DEF Strays, Known
    <3>2. CASE stray' = [to |-> r, with |-> p]
      BY <1>3, <3>2 DEF Strays
    <3>3. QED
      BY <1>9, <3>1, <3>2
  <2>2. About(tx') \subseteq About(tx)
    BY <1>1
  <2>3. QED
    BY <1>2, <1>4, <2>1, <2>2, LeavesKnown
<1>11. \/ UNCHANGED channel
       \/ \E q \in Known :
            channel' = [channel EXCEPT ![Owner(q.user)] = q.id]
  <2>1. CASE r.cmd = "init" /\ p.kind = "answer"
    <3>1. p.req = r
      BY <1>3, <1>5, <2>1 DEF RequestInv
    <3>2. channel' = channel
          \/ channel' = [channel EXCEPT ![Owner(u)] = p.req.id]
      BY DEF TakeAnswer, p
    <3>3. QED
      BY <1>3, <3>1, <3>2
  <2>2. CASE ~(r.cmd = "init" /\ p.kind = "answer")
    BY <2>2 DEF TakeAnswer, p, r
  <2>3. QED
    BY <2>1, <2>2
<1>12. AnswersMatch => AnswersMatch'
  <2>1. CASE stray' = stray
    BY <1>4, <2>1 DEF AnswersMatch
  <2>2. CASE p.req # r /\ stray' = [to |-> r, with |-> p]
    BY <1>4, <1>7, <2>2 DEF AnswersMatch
  <2>3. QED
    BY <1>9, <2>1, <2>2
<1>13. AnswersStayHome => AnswersStayHome'
  <2>1. \A n : Owner(n)' = Owner(n)
    BY <1>4 DEF Owner
  <2>2. CASE stray' = stray
    BY <2>1, <2>2 DEF AnswersStayHome
  <2>3. CASE p.req # r /\ stray' = [to |-> r, with |-> p]
    <3>1. CASE r.cid = Broadcast
      <4>1. r.cmd = "init" /\ p.req.cmd = "init"
        BY <1>3, <1>5, <3>1 DEF RequestInv
      <4>2. p.kind = "error"
        BY <1>3, <1>5, <2>3, <4>1 DEF RequestInv
      <4>3. QED
        BY <2>3, <3>1, <4>2 DEF AnswersStayHome
    <3>2. CASE r.cid # Broadcast
      <4>1. <<r.cid, Owner(r.user)>> \in Claims
            /\ <<r.cid, Owner(p.req.user)>> \in Claims
        BY <1>3, <1>5, <3>2 DEF Claims
      <4>2. Owner(r.user) = Owner(p.req.user)
        BY <4>1 DEF ChannelInv
      <4>3. QED
        BY <2>1, <2>3, <4>2 DEF AnswersStayHome
    <3>3. QED
      BY <3>1, <3>2
  <2>4. QED
    BY <1>9, <2>2, <2>3
<1>14. QED
  BY <1>8, <1>10, <1>11, <1>12, <1>13

-----------------------------------------------------------------------------
(* The invariant of the exchanges.                                          *)

LEMMA InitInv == Init => Inv
<1> SUFFICES ASSUME Init PROVE Inv
  OBVIOUS
<1>1. Shape
  BY InitShape
<1>2. BusyUsers = {} /\ \A u \in Users : at[u] # "exchange" /\ u # 0
  BY RelayAssumption DEF Init, BusyUsers, Busy, Users, Conns, Local
<1>3. Elems(rx) = {} /\ About(tx) = {} /\ Answered(tx) = {} /\ Strays = {}
      /\ Distinct(rx) /\ Once(tx)
  BY DEF Init, Elems, About, Answered, Answers, Strays, Distinct, Once
<1>4. Known = {}
  BY <1>2, <1>3 DEF Known
<1>5. LockInv /\ RequestInv /\ SentInv /\ PendingInv
  BY <1>2, <1>3, <1>4 DEF Init, LockInv, RequestInv, SentInv, PendingInv
<1>6. PacketInv
  BY DEF Init, PacketInv
<1>7. ChannelInv
  <2>1. Claims = {}
    BY <1>4 DEF Claims, Init
  <2>2. QED
    BY <2>1 DEF ChannelInv, Init, Broadcast
<1>8. StrayInv
  BY DEF Init, StrayInv, AnswersStayHome, AnswersMatch
<1>9. QED
  BY <1>1, <1>5, <1>6, <1>7, <1>8 DEF Inv, QueueInv

\* A step that makes no request and takes no answer keeps the history.
LEMMA StrayStays ==
  ASSUME RequestInv, StrayInv, UNCHANGED stray, tainted \subseteq tainted',
         \A c \in 1..conns : who'[c] = who[c]
  PROVE  StrayInv'
<1>1. AnswersMatch'
  BY DEF StrayInv, AnswersMatch
<1>2. stray # None => stray.to \in Known /\ stray.with.req \in Known
  BY DEF Known, Strays
<1>3. AnswersStayHome'
  BY <1>2, OwnerStays DEF StrayInv, AnswersStayHome
<1>4. QED
  BY <1>1, <1>3 DEF StrayInv

\* Connections are only added.
LEMMA ConnsGrow ==
  ASSUME Shape, [Next]_vars
  PROVE  /\ 1..conns \subseteq 1..(conns')
         /\ \A c \in 1..conns : who'[c] = who[c]
<1>1. conns \in Nat
  BY DEF Shape, ThreadType
<1>2. CASE UNCHANGED <<conns, who>>
  BY <1>1, <1>2
<1>3. CASE \E a \in Computers : Accept(a)
  BY <1>1, <1>3, RelayAssumption DEF Accept, Shape, ThreadType, Conns
<1>4. UNCHANGED <<conns, who>> \/ \E a \in Computers : Accept(a)
  BY DEF Next, vars, lanVars, connVars, Thread, Exchange, Remove, SetStatus,
         Stop, Hello, EndOfStream, ReadRequest, Activate, NotWritten, Write,
         Break, SkipPacket, TakeAnswer, ReadTimeout, KeepaliveUndeliverable,
         LocalWrite, KernelKeepalive, KernelAnswer
<1>5. QED
  BY <1>2, <1>3, <1>4

\* The steps that leave the exchanges alone.
LEMMA StillSteps ==
  ASSUME Shape,
         \/ \E a \in Computers : Accept(a) \/ Remove(a)
         \/ \E a \in Computers, st \in Statuses : SetStatus(a, st)
         \/ Stop \/ UNCHANGED vars
         \/ \E c \in Conns : \/ Hello(c) \/ EndOfStream(c) \/ Activate(c)
                            \/ Break(c)
  PROVE  Still /\ UNCHANGED <<reqs, channel>>
<1> USE DEF kernelVars
<1>1. CASE \E a \in Computers : Accept(a)
  <2>1. PICK a \in Computers : Accept(a)
    BY <1>1
  <2>2. conns + 1 \in Conns /\ at[conns + 1] = "none"
    BY <2>1, RelayAssumption DEF Accept, Shape, ThreadType, ThreadInv, Conns
  <2>3. \A u \in Users \ {conns + 1} : at'[u] = at[u]
    BY <2>1 DEF Accept, Shape, ThreadType
  <2>4. at'[conns + 1] = "hello"
    BY <2>1, <2>2 DEF Accept, Shape, ThreadType, Users
  <2>5. QED
    BY <2>1, <2>2, <2>3, <2>4 DEF Accept, Still, Busy
<1>2. CASE \/ \E a \in Computers : Remove(a)
           \/ \E a \in Computers, st \in Statuses : SetStatus(a, st)
           \/ Stop \/ UNCHANGED vars \/ \E c \in Conns : Break(c)
  BY <1>2 DEF Remove, SetStatus, Stop, vars, Break, Still
<1>3. ASSUME NEW c \in Conns, Hello(c) \/ EndOfStream(c)
      PROVE  Still /\ UNCHANGED <<reqs, channel>>
  <2>1. /\ at[c] \in {"hello", "idle"}
        /\ at' \in {[at EXCEPT ![c] = "closed"], [at EXCEPT ![c] = "idle"]}
        /\ request' \in {request, [request EXCEPT ![c] = None]}
        /\ UNCHANGED <<rx, tx, stray, transportLock, tainted, reqs, channel>>
    BY <1>3 DEF Hello, EndOfStream, Closes
  <2>2. /\ at'[c] \in {"closed", "idle"}
        /\ \A u \in Users \ {c} : at'[u] = at[u] /\ request'[u] = request[u]
    BY <2>1 DEF Shape, ThreadType, RequestType, Users
  <2>3. QED
    BY <2>1, <2>2 DEF Still, Busy
<1>4. ASSUME NEW c \in Conns, Activate(c)
      PROVE  Still /\ UNCHANGED <<reqs, channel>>
  BY <1>4 DEF Activate, Still, Shape, ThreadType, Users
<1>5. QED
  BY <1>1, <1>2, <1>3, <1>4

\* A step that makes no request and takes no answer.
LEMMA QuietStep ==
  ASSUME Inv, [Next]_vars, QueueInv', Known' \subseteq Known,
         UNCHANGED <<reqs, channel, stray>>, tainted \subseteq tainted'
  PROVE  Inv'
<1>1. Shape'
  BY ShapeStep DEF Inv
<1>2. RequestInv' /\ ChannelInv'
  BY ConnsGrow, NothingNew DEF Inv
<1>3. StrayInv'
  BY ConnsGrow, StrayStays DEF Inv
<1>4. QED
  BY <1>1, <1>2, <1>3 DEF Inv

\* A step that makes a request.
LEMMA RequestStep ==
  ASSUME Inv, [Next]_vars, QueueInv', NEW u \in Users,
         u = Local \/ u \in 1..conns, reqs < MaxReqs, NEW r \in NewRequest(u),
         Known' \subseteq Known \cup {r}, reqs' = reqs + 1,
         UNCHANGED <<who, conns, channel, stray, tainted>>
  PROVE  Inv'
<1>1. Shape'
  BY ShapeStep DEF Inv
<1>2. RequestInv' /\ ChannelInv'
  BY OneNew DEF Inv
<1>3. StrayInv'
  BY ConnsGrow, StrayStays DEF Inv
<1>4. QED
  BY <1>1, <1>2, <1>3 DEF Inv

LEMMA WriteStep ==
  ASSUME Inv, NEW c \in Conns, Write(c)
  PROVE  Inv'
<1> DEFINE r == request[c]
<1>1. /\ c \in BusyUsers /\ at[c] = "waiting" /\ c \in Users
      /\ r \in Request /\ r.user = c /\ r \in Known
      /\ \A v \in BusyUsers \ {c} : request[v].user # c
  BY DEF Write, BusyUsers, Busy, Users, Inv, Shape, ThreadInv, Known
<1>2. Sends(c, r)
  <2>1. rx' = Append(rx, r) /\ transportLock = 0
        /\ UNCHANGED <<tx, stray, tainted>>
    BY DEF Write
  <2>2. \A v \in Users \ {c} : at'[v] = at[v] /\ request'[v] = request[v]
    BY <1>1 DEF Write, Inv, Shape, ThreadType, RequestType
  <2>3. \/ r.cmd = "cancel" /\ at'[c] = "idle" /\ transportLock' = 0
        \/ /\ r.cmd # "cancel" /\ at'[c] = "exchange" /\ transportLock' = c
           /\ request'[c] = r
    BY <1>1 DEF Write, Inv, Shape, ThreadType, RequestType
  <2>4. QED
    BY <2>1, <2>2, <2>3 DEF Sends
<1>3. r \notin Elems(rx) \cup About(tx)
  BY <1>1 DEF Inv, QueueInv, SentInv
<1> HIDE DEF r
<1>4. \A v \in BusyUsers \ {c} : request[v] # r
  BY <1>1
<1>5. QueueInv' /\ Known' \subseteq Known
  BY <1>1, <1>2, <1>3, <1>4, SendsKeeps DEF Inv
<1>6. UNCHANGED <<reqs, channel, stray, tainted>> /\ [Next]_vars
  BY <1>2 DEF Write, Next, Thread, Sends
<1>7. QED
  BY <1>5, <1>6, QuietStep

LEMMA LocalWriteStep ==
  ASSUME Inv, LocalWrite
  PROVE  Inv'
<1>1. PICK r \in NewRequest(Local) :
        /\ r.cmd # "cancel" /\ request' = [request EXCEPT ![Local] = r]
        /\ rx' = Append(rx, r)
  BY DEF LocalWrite
<1>2. Local \in Users /\ reqs < MaxReqs /\ at[Local] = "idle"
  BY DEF LocalWrite, Users
<1>3. r \in Request /\ r.id = reqs + 1
  BY <1>2, NewRequestType DEF Inv
<1>4. reqs \in Nat
  BY DEF Inv, Shape, RequestType
<1>5. r \notin Known
  BY <1>3, <1>4 DEF Inv, RequestInv
<1>6. Sends(Local, r)
  <2>1. at'[Local] = "exchange" /\ request'[Local] = r
        /\ \A v \in Users \ {Local} : at'[v] = at[v] /\ request'[v] = request[v]
    BY <1>1, <1>2 DEF LocalWrite, Inv, Shape, ThreadType, RequestType
  <2>2. QED
    BY <1>1, <2>1 DEF LocalWrite, Sends
<1>7. /\ r \notin Elems(rx) \cup About(tx)
      /\ \A v \in BusyUsers \ {Local} : request[v] # r
  BY <1>5 DEF Known
<1>8. QueueInv' /\ Known' \subseteq Known \cup {r}
  BY <1>2, <1>3, <1>6, <1>7, SendsKeeps DEF Inv
<1>9. /\ reqs' = reqs + 1 /\ [Next]_vars
      /\ UNCHANGED <<who, conns, channel, stray, tainted>>
  BY DEF LocalWrite, Next, lanVars, connVars
<1>10. QED
  BY <1>1, <1>2, <1>8, <1>9, RequestStep

LEMMA ReadRequestStep ==
  ASSUME Inv, NEW c \in Conns, ReadRequest(c)
  PROVE  Inv'
<1>1. PICK r \in NewRequest(c) : request' = [request EXCEPT ![c] = r]
  BY DEF ReadRequest
<1>2. QueueInv' /\ Known' \subseteq Known \cup {r}
  BY <1>1, AsksKeeps DEF Inv
<1>3. c \in Users /\ c \in 1..conns /\ reqs < MaxReqs
  BY DEF ReadRequest, Users, Inv, Shape, ThreadInv
<1>4. /\ reqs' = reqs + 1 /\ [Next]_vars
      /\ UNCHANGED <<who, conns, channel, stray, tainted>>
  BY DEF ReadRequest, Next, Thread, lanVars, connVars
<1>5. QED
  BY <1>1, <1>2, <1>3, <1>4, RequestStep

LEMMA TakeAnswerStep ==
  ASSUME Inv, NEW u \in Users, TakeAnswer(u)
  PROVE  Inv'
<1>1. [Next]_vars /\ UNCHANGED reqs
  BY DEF Next, Exchange, TakeAnswer
<1>2. Shape'
  BY <1>1, ShapeStep DEF Inv
<1>3. /\ QueueInv' /\ Known' \subseteq Known
      /\ \/ UNCHANGED channel
         \/ \E q \in Known :
              channel' = [channel EXCEPT ![Owner(q.user)] = q.id]
      /\ AnswersStayHome => AnswersStayHome'
      /\ AnswersMatch => AnswersMatch'
  BY TakeAnswerKeeps DEF Inv
<1>4. RequestInv' /\ ChannelInv'
  BY <1>1, <1>3, ConnsGrow, NothingNew DEF Inv
<1>5. QED
  BY <1>2, <1>3, <1>4 DEF Inv, StrayInv

LEMMA InvStep == Inv /\ [Next]_vars => Inv'
<1> SUFFICES ASSUME Inv, [Next]_vars PROVE Inv'
  OBVIOUS
<1>1. CASE \/ \E a \in Computers : Accept(a) \/ Remove(a)
           \/ \E a \in Computers, st \in Statuses : SetStatus(a, st)
           \/ Stop \/ UNCHANGED vars
           \/ \E c \in Conns : \/ Hello(c) \/ EndOfStream(c) \/ Activate(c)
                              \/ Break(c)
  <2>1. Still /\ UNCHANGED <<reqs, channel>>
    BY <1>1, StillSteps DEF Inv
  <2>2. QueueInv' /\ Known' = Known
    BY <2>1, StillKeeps DEF Inv
  <2>3. QED
    BY <2>1, <2>2, QuietStep DEF Still
<1>2. ASSUME NEW c \in Conns, NotWritten(c) PROVE Inv'
  <2>1. UNCHANGED <<reqs, channel, stray, tainted>>
    BY <1>2 DEF NotWritten
  <2>2. QED
    BY <1>2, <2>1, NotWrittenKeeps, QuietStep DEF Inv
<1>3. ASSUME NEW u \in Users,
             ReadTimeout(u) \/ (u \in Conns /\ KeepaliveUndeliverable(u))
      PROVE  Inv'
  <2>1. UNCHANGED <<reqs, channel, stray>> /\ tainted \subseteq tainted'
    BY <1>3 DEF ReadTimeout, KeepaliveUndeliverable, Abandons
  <2>2. QED
    BY <1>3, <2>1, AbandonsKeeps, QuietStep DEF Inv
<1>4. ASSUME NEW u \in Users, SkipPacket(u) PROVE Inv'
  <2>1. UNCHANGED <<reqs, channel, stray, tainted>>
    BY <1>4 DEF SkipPacket
  <2>2. QED
    BY <1>4, <2>1, SkipKeeps, QuietStep DEF Inv
<1>5. CASE KernelKeepalive
  <2>1. UNCHANGED <<reqs, channel, stray, tainted>>
    BY <1>5 DEF KernelKeepalive
  <2>2. QED
    BY <1>5, <2>1, KeepaliveKeeps, QuietStep DEF Inv
<1>6. ASSUME NEW kind \in {"answer", "error"}, KernelAnswer(kind) PROVE Inv'
  <2>1. UNCHANGED <<reqs, channel, stray, tainted>>
    BY <1>6 DEF KernelAnswer
  <2>2. QED
    BY <1>6, <2>1, AnswerKeeps, QuietStep DEF Inv
<1>7. ASSUME NEW c \in Conns, Thread(c) \/ Break(c) PROVE Inv'
  BY <1>1, <1>2, <1>7, WriteStep, ReadRequestStep DEF Thread
<1>8. ASSUME NEW u \in Users, Exchange(u) PROVE Inv'
  BY <1>3, <1>4, <1>8, TakeAnswerStep DEF Exchange, Users
<1>9. QED
  BY <1>1, <1>5, <1>6, <1>7, <1>8, LocalWriteStep DEF Next

LEMMA InvHolds == Spec => []Inv
BY InitInv, InvStep, PTL DEF Spec

-----------------------------------------------------------------------------
(* Theorems about the exchanges.                                            *)

\* No computer gets an answer to a request of another computer or of the
\* phone, but for an error on the broadcast channel: the threads of
\* LanFidoServer and CtapHidEndpoint.transceive share the kernel's queue.
THEOREM AnswersAreHome == Spec => []AnswersStayHome
<1>1. Inv => AnswersStayHome
  BY DEF Inv, StrayInv
<1>2. QED
  BY <1>1, InvHolds, PTL

\* A request is answered by its own answer, unless an earlier exchange on its
\* channel was given up (relayResponse compares channel, command and nonce).
THEOREM AnswersAreMatched == Spec => []AnswersMatch
<1>1. Inv => AnswersMatch
  BY DEF Inv, StrayInv
<1>2. QED
  BY <1>1, InvHolds, PTL

\* The answer that a thread waits for is still to come: nobody else takes it
\* from the kernel's queue (the transport lock).
THEOREM AnswersAreKept == Spec => []AnswerNotStolen
<1>1. Inv => AnswerNotStolen
  BY DEF Inv, QueueInv, PendingInv, AnswerNotStolen, Elems, Answered, Answers
<1>2. QED
  BY <1>1, InvHolds, PTL

=============================================================================
