-------------------------- MODULE HidFramingProofs --------------------------
(***************************************************************************)
(* Proofs about CTAPHID reassembly, for any number of transports, every    *)
(* size of the channel table and of the queues, and any number of messages *)
(* and lost frames.                                                        *)
(***************************************************************************)
EXTENDS HidFraming, WellFoundedInduction, TLAPS

-----------------------------------------------------------------------------
(* The invariants.                                                          *)

\* The frames of a transport that its worker has not seen: in the receive
\* queue, and still to be written.
Stream(t) == rx_packets[t] \o writing[t]

\* Ids are given out in order, each to one host.
IdInv ==
  /\ next_cid # 0 /\ \A t \in Transports : host_cid[t] \notin {0, Broadcast}
  /\ ~wrapped =>
       /\ \A t \in Transports : host_cid[t] = NoCid \/ host_cid[t] < next_cid
       /\ \A t, u \in Transports :
            t # u /\ host_cid[t] = host_cid[u] => host_cid[t] = NoCid

\* One chunk was sent before another.
Before(x, y) == x.msg < y.msg \/ (x.msg = y.msg /\ x.idx < y.idx)

\* The frames of a stream are in order; those of a message agree on the rest.
Ordered(s) ==
  \A n, k \in DOMAIN s :
    /\ n < k => Before(s[n].chunk, s[k].chunk)
    /\ s[n].chunk.msg = s[k].chunk.msg =>
         s[n].cid = s[k].cid /\ s[n].chunk.len = s[k].chunk.len

\* The frames of a message follow each other, unless one was lost.
Sound(out, m) == out[m] \in {"none", "refused"}
Linked(s, out) ==
  \A n \in DOMAIN s :
    /\ n > 1 /\ s[n].chunk.idx > 1 /\ Sound(out, s[n].chunk.msg) =>
         s[n - 1].chunk.msg = s[n].chunk.msg
    /\ out[s[n].chunk.msg] = "none" /\ s[n].chunk.idx < s[n].chunk.len =>
         n < Len(s) /\ s[n + 1].chunk.msg = s[n].chunk.msg

\* A message answered with an error is the one that the worker is at.
Answered(s, out) ==
  \A n \in DOMAIN s :
    out[s[n].chunk.msg] = "error" =>
      s[n].chunk.idx > 1 /\ s[1].chunk.msg = s[n].chunk.msg

\* Nor does a worker carry on with a message that announced too much.
LongSettled(s, out) ==
  s # <<>> /\ s[1].chunk.idx > 1 /\ s[1].chunk.len > MaxLen =>
    out[s[1].chunk.msg] # "none"

\* A frame of transport t, whose host may send it.
FrameOf(t, f) ==
  /\ f.chunk.msg \in DOMAIN source /\ source[f.chunk.msg] = t
  /\ f.chunk.idx <= f.chunk.len
  /\ f.cid = Broadcast => f.chunk.len = 1
  /\ ~wrapped => f.cid = Broadcast \/ f.cid < next_cid

FramesInv ==
  \A t \in Transports :
    /\ \A n \in DOMAIN Stream(t) : FrameOf(t, Stream(t)[n])
    /\ Ordered(Stream(t))
LinkInv ==
  \A t \in Transports : /\ Linked(Stream(t), outcome)
                        /\ Answered(Stream(t), outcome)
                        /\ LongSettled(Stream(t), outcome)

\* A host writes one message at a time.
WriteInv ==
  \A t \in Transports : \A n \in DOMAIN writing[t] :
    writing[t][n].chunk.msg = writing[t][1].chunk.msg

\* No two hosts use the same id.
OwnCidInv ==
  ~wrapped =>
    \A t, u \in Transports : t # u =>
      \A n \in DOMAIN Stream(t) :
        /\ Stream(t)[n].cid # host_cid[u]
        /\ \A k \in DOMAIN Stream(u) :
             Stream(t)[n].cid = Stream(u)[k].cid => Stream(t)[n].cid = Broadcast

\* What became of the messages so far.
OutcomeInv ==
  /\ \A m \in Msgs \ DOMAIN source : outcome[m] = "none"
  /\ \A m \in DOMAIN source : /\ outcome[m] = "refused" => source[m] \in User
                              /\ outcome[m] = "lost" => source[m] \in Usb
  /\ ~wrapped => \A t \in Transports : \A n \in DOMAIN Stream(t) :
       outcome[Stream(t)[n].chunk.msg] # "dispatched"

\* A channel holds the chunks that it has got in order, or is only reserved.
ChannelOK(ch) ==
  /\ ch.in_use \/ ch.msg = <<>>
  /\ ch.msg = <<>> => ch.cmd = "none" /\ ch.expected_len = 0
  /\ ch.msg # <<>> =>
       /\ ch.next_seq = Len(ch.msg) - 1
       /\ ch.expected_len = ch.msg[1].len
       /\ Len(ch.msg) < ch.expected_len
       /\ \A p \in DOMAIN ch.msg : ch.msg[p].idx = p
       /\ ch.cid # Broadcast

\* Two messages are joined only if both have lost frames, or one of them was
\* too long.
Joined(c, out) ==
  \A p, q \in DOMAIN c :
    /\ c[p].msg = c[q].msg => c[p].len = c[q].len
    /\ \/ c[p].msg = c[q].msg \/ c[p].len > MaxLen \/ c[q].len > MaxLen
       \/ out[c[p].msg] = "lost" /\ out[c[q].msg] = "lost"

TableInv ==
  /\ \A i \in Channels : ChannelOK(channels[i])
  /\ ~wrapped =>
       /\ \A i \in Channels : /\ channels[i].cid < next_cid
                              /\ Joined(channels[i].msg, outcome)
       /\ \A i, j \in Channels :
            /\ channels[i].in_use /\ channels[j].in_use
            /\ channels[i].cid = channels[j].cid
            => i = j

\* What a channel holds: chunks that its host has sent before all that is
\* still to come from it.
ChunkOf(x, cid) ==
  /\ x.msg \in DOMAIN source
  /\ x.len > MaxLen \/ outcome[x.msg] \in {"none", "refused", "lost"}
  /\ \A t \in Transports :
       /\ host_cid[t] = cid => source[x.msg] = t
       /\ \A n \in DOMAIN Stream(t) :
            LET f == Stream(t)[n]
            IN  /\ f.cid = cid => source[x.msg] = t
                /\ source[x.msg] = t => Before(x, f.chunk)
                /\ f.chunk.msg = x.msg => f.cid = cid /\ f.chunk.len = x.len
HeldInv ==
  ~wrapped => \A i \in Channels : \A p \in DOMAIN channels[i].msg :
                ChunkOf(channels[i].msg[p], channels[i].cid)

\* The next frame of a message finds what came before it, if anything.
Finds(f, ch) ==
  LET c == ch.msg
  IN  ch.cid = f.cid /\ c # <<>> =>
        /\ outcome[f.chunk.msg] # "error"
        /\ Sound(outcome, f.chunk.msg) => c[Len(c)].msg = f.chunk.msg
NextInv ==
  ~wrapped => \A t \in Transports :
    /\ Stream(t) # <<>> /\ Stream(t)[1].chunk.idx > 1
    /\ Stream(t)[1].chunk.len <= MaxLen
    => \A i \in Channels : Finds(Stream(t)[1], channels[i])

\* A message is settled or has frames that its worker has not seen.
HeardInv ==
  ~wrapped => \A t \in Transports : \A m \in DOMAIN source :
    source[m] = t /\ outcome[m] = "none" =>
      \E n \in DOMAIN Stream(t) : Stream(t)[n].chunk.msg = m

Inv ==
  /\ TypeOK /\ IdInv /\ FramesInv /\ LinkInv /\ WriteInv /\ OwnCidInv
  /\ OutcomeInv /\ TableInv /\ HeldInv /\ NextInv /\ HeardInv
  /\ DispatchedWhole

-----------------------------------------------------------------------------
(* Parts of the type invariant.                                             *)

TableType ==
  /\ channels \in [Channels -> Channel]
  /\ \A i \in Channels : Len(channels[i].msg) <= channels[i].expected_len
  /\ next_cid \in Cids /\ wrapped \in BOOLEAN
  /\ pc \in [Transports -> {"frame", "init"}]
QueueType ==
  /\ rx_packets \in [Transports -> Seq(Frame)]
  /\ \A t \in Transports : Len(rx_packets[t]) <= QueueDepth
HostType ==
  /\ host_cid \in [Transports -> Cids \cup {NoCid}]
  /\ writing \in [Transports -> Seq(Frame)]
  /\ lost \in 0..MaxLost
  /\ source \in Seq(Transports) /\ Len(source) <= MaxMsgs
HistoryType ==
  /\ outcome \in [Msgs -> Outcomes]
  /\ dispatched \in [Transports -> Seq(Chunk)]

-----------------------------------------------------------------------------
(* The operators of the model.                                              *)

NatLess == {p \in Nat \X Nat : p[1] < p[2]}

\* The first of some channels is one of them.
LEMMA FirstIn ==
  ASSUME NEW S \in SUBSET Nat, S # {}
  PROVE  First(S) \in S /\ \A j \in S : First(S) <= j
<1>1. IsWellFoundedOn(NatLess, Nat)
  BY NatLessThanWellFounded DEF OpToRel, NatLess
<1>2. PICK n \in S : \A m \in S : <<m, n>> \notin NatLess
  BY <1>1, WFMin
<1>3. \A m \in S : <<m, n>> \in Nat \X Nat /\ <<m, n>>[1] = m /\ <<m, n>>[2] = n
  OBVIOUS
<1>4. \A m \in S : ~(m < n)
  BY <1>2, <1>3 DEF NatLess
<1>5. \A m \in S : n <= m
  BY <1>4
<1>6. QED
  BY <1>5 DEF First

LEMMA AllocFacts ==
  /\ AllocChannel \in Channels
  /\ UnusedChannels # {} => AllocChannel \in UnusedChannels
  /\ \A cid : Found(cid) # {} => First(Found(cid)) \in Found(cid)
<1>1. Channels \subseteq Nat /\ 1 \in Channels
  BY HidFramingAssumption DEF Channels
<1>2. UnusedChannels \subseteq Channels
      /\ \A cid : Found(cid) \subseteq Channels
  BY DEF UnusedChannels, Found
<1>3. UnusedChannels # {} => First(UnusedChannels) \in UnusedChannels
  <2>1. UnusedChannels \in SUBSET Nat
    BY <1>1, <1>2
  <2>2. QED
    BY <2>1, FirstIn
<1>4. ASSUME NEW cid, Found(cid) # {} PROVE First(Found(cid)) \in Found(cid)
  <2>1. Found(cid) \in SUBSET Nat
    BY <1>1, <1>2
  <2>2. QED
    BY <1>4, <2>1, FirstIn
<1>5. QED
  BY <1>1, <1>2, <1>3, <1>4 DEF AllocChannel

\* The id that is given out is not a reserved one, and as long as next_cid
\* has not gone through zero it is the old next_cid.
LEMMA NextCidFacts ==
  ASSUME NEW n \in Cids, n # 0
  PROVE  /\ NextCid(n).cid \in Cids \ {0, Broadcast}
         /\ NextCid(n).next \in Cids \ {0}
         /\ NextCid(n).next > n =>
              /\ n # Broadcast /\ NextCid(n).cid = n
              /\ NextCid(n).next = n + 1
<1>1. CidSpace \in Nat /\ CidSpace > 2 /\ Broadcast = CidSpace - 1
      /\ Broadcast \in Nat
  BY HidFramingAssumption DEF Broadcast
<1>2. CASE n = Broadcast
  <2>1. n + 2 = CidSpace + 1
    BY <1>1, <1>2
  <2>2. (CidSpace + 1) % CidSpace = 1
    BY <1>1
  <2>3. NextCid(n) = [cid |-> 1, next |-> 1]
    BY <1>2, <2>1, <2>2 DEF NextCid
  <2>4. QED
    BY <1>1, <1>2, <2>3 DEF Cids
<1>3. CASE n # Broadcast
  <2>1. NextCid(n) = [cid |-> n, next |-> n + 1]
    BY <1>3 DEF NextCid
  <2>2. QED
    BY <1>1, <1>3, <2>1 DEF Cids
<1>4. QED
  BY <1>2, <1>3

-----------------------------------------------------------------------------
(* Streams of frames.                                                       *)

\* A stream after its first frame is taken.
Shorter(s, r) ==
  /\ r \in Seq(Frame) /\ Len(s) = Len(r) + 1
  /\ \A n \in 1..Len(r) : r[n] = s[n + 1]

\* A sequence in two parts, and its first element taken, moved or dropped.
LEMMA StreamFacts ==
  ASSUME NEW a \in Seq(Frame), NEW b \in Seq(Frame)
  PROVE  /\ a \o b \in Seq(Frame) /\ Len(a \o b) = Len(a) + Len(b)
         /\ \A n \in 1..(Len(a) + Len(b)) :
              (a \o b)[n] = IF n <= Len(a) THEN a[n] ELSE b[n - Len(a)]
OBVIOUS

LEMMA TakeStream ==
  ASSUME NEW a \in Seq(Frame), NEW b \in Seq(Frame), a # <<>>
  PROVE  Shorter(a \o b, Tail(a) \o b) /\ (a \o b)[1] = Head(a)
<1>1. /\ Tail(a) \in Seq(Frame) /\ Len(Tail(a)) = Len(a) - 1
      /\ Len(a) \in Nat \ {0} /\ Len(b) \in Nat /\ Head(a) = a[1]
      /\ \A n \in 1..(Len(a) - 1) : Tail(a)[n] = a[n + 1]
  OBVIOUS
<1> DEFINE s == a \o b
           r == Tail(a) \o b
<1>2. /\ s \in Seq(Frame) /\ Len(s) = Len(a) + Len(b)
      /\ \A n \in 1..(Len(a) + Len(b)) :
           s[n] = IF n <= Len(a) THEN a[n] ELSE b[n - Len(a)]
  BY StreamFacts
<1>3. /\ r \in Seq(Frame) /\ Len(r) = Len(a) - 1 + Len(b)
      /\ \A n \in 1..(Len(a) - 1 + Len(b)) :
           r[n] = IF n <= Len(a) - 1 THEN Tail(a)[n] ELSE b[n - (Len(a) - 1)]
  BY <1>1, StreamFacts
<1> HIDE DEF s, r
<1>4. ASSUME NEW n \in 1..Len(r) PROVE r[n] = s[n + 1]
  <2>1. n \in 1..(Len(a) - 1 + Len(b)) /\ n + 1 \in 1..(Len(a) + Len(b))
    BY <1>1, <1>3
  <2>2. CASE n <= Len(a) - 1
    BY <1>1, <1>2, <1>3, <2>1, <2>2
  <2>3. CASE ~(n <= Len(a) - 1)
    <3>1. ~(n + 1 <= Len(a)) /\ n - (Len(a) - 1) = (n + 1) - Len(a)
      BY <1>1, <2>1, <2>3
    <3>2. r[n] = b[n - (Len(a) - 1)] /\ s[n + 1] = b[(n + 1) - Len(a)]
      BY <1>2, <1>3, <2>1, <2>3, <3>1
    <3>3. QED
      BY <3>1, <3>2
  <2>4. QED
    BY <2>2, <2>3
<1>5. s[1] = a[1]
  BY <1>1, <1>2
<1>6. QED
  BY <1>1, <1>2, <1>3, <1>4, <1>5 DEF Shorter, s, r

LEMMA WriteStream ==
  ASSUME NEW a \in Seq(Frame), NEW b \in Seq(Frame), b # <<>>
  PROVE  /\ Append(a, Head(b)) \o Tail(b) = a \o b
         /\ Head(b) \in Frame
<1>1. /\ Tail(b) \in Seq(Frame) /\ Len(Tail(b)) = Len(b) - 1
      /\ Len(b) \in Nat \ {0} /\ Len(a) \in Nat /\ Head(b) = b[1]
      /\ Head(b) \in Frame
      /\ \A n \in 1..(Len(b) - 1) : Tail(b)[n] = b[n + 1]
  OBVIOUS
<1> DEFINE c == Append(a, Head(b))
           s == a \o b
           r == c \o Tail(b)
<1>2. /\ c \in Seq(Frame) /\ Len(c) = Len(a) + 1 /\ c[Len(a) + 1] = b[1]
      /\ \A n \in 1..Len(a) : c[n] = a[n]
  BY <1>1
<1> HIDE DEF c
<1>3. /\ s \in Seq(Frame) /\ Len(s) = Len(a) + Len(b)
      /\ \A n \in 1..(Len(a) + Len(b)) :
           s[n] = IF n <= Len(a) THEN a[n] ELSE b[n - Len(a)]
  BY StreamFacts
<1>4. /\ r \in Seq(Frame) /\ Len(r) = Len(a) + 1 + (Len(b) - 1)
      /\ \A n \in 1..(Len(a) + 1 + (Len(b) - 1)) :
           r[n] = IF n <= Len(a) + 1 THEN c[n] ELSE Tail(b)[n - (Len(a) + 1)]
  <2>1. /\ r \in Seq(Frame) /\ Len(r) = Len(c) + Len(Tail(b))
        /\ \A n \in 1..(Len(c) + Len(Tail(b))) :
             r[n] = IF n <= Len(c) THEN c[n] ELSE Tail(b)[n - Len(c)]
    BY <1>1, <1>2, StreamFacts
  <2> HIDE DEF r
  <2>2. QED
    BY <1>1, <1>2, <2>1
<1> HIDE DEF s, r
<1>5. ASSUME NEW n \in 1..(Len(a) + Len(b)) PROVE r[n] = s[n]
  <2>0. n \in 1..(Len(a) + 1 + (Len(b) - 1))
    BY <1>1
  <2>1. CASE n <= Len(a)
    <3>1. n <= Len(a) + 1 /\ n \in 1..Len(a)
      BY <1>1, <2>1
    <3>2. r[n] = c[n] /\ s[n] = a[n] /\ c[n] = a[n]
      BY <1>2, <1>3, <1>4, <2>0, <2>1, <3>1
    <3>3. QED
      BY <3>2
  <2>2. CASE n = Len(a) + 1
    <3>1. n <= Len(a) + 1 /\ ~(n <= Len(a)) /\ n - Len(a) = 1
      BY <1>1, <2>2
    <3>2. r[n] = c[n] /\ s[n] = b[n - Len(a)]
      BY <1>3, <1>4, <2>0, <3>1
    <3>3. QED
      BY <1>2, <2>2, <3>1, <3>2
  <2>3. CASE n > Len(a) + 1
    <3>1. /\ n - (Len(a) + 1) \in 1..(Len(b) - 1)
          /\ (n - (Len(a) + 1)) + 1 = n - Len(a)
          /\ ~(n <= Len(a)) /\ ~(n <= Len(a) + 1)
      BY <1>1, <2>3
    <3>2. r[n] = Tail(b)[n - (Len(a) + 1)] /\ s[n] = b[n - Len(a)]
      BY <1>3, <1>4, <2>0, <3>1
    <3>3. QED
      BY <1>1, <3>1, <3>2
  <2>4. QED
    BY <1>1, <2>1, <2>2, <2>3
<1>6. Len(r) = Len(s) /\ DOMAIN s = 1..(Len(a) + Len(b)) /\ DOMAIN r = DOMAIN s
  BY <1>1, <1>3, <1>4
<1>7. r = s
  BY <1>3, <1>4, <1>5, <1>6
<1>8. QED
  BY <1>1, <1>7 DEF r, s, c

\* The k-th element of a stream is dropped.
Without(s, k, r) ==
  /\ r \in Seq(Frame) /\ Len(s) = Len(r) + 1 /\ k \in 1..Len(s)
  /\ \A n \in 1..Len(r) : r[n] = IF n < k THEN s[n] ELSE s[n + 1]

LEMMA DropStream ==
  ASSUME NEW a \in Seq(Frame), NEW b \in Seq(Frame), b # <<>>
  PROVE  /\ Without(a \o b, Len(a) + 1, a \o Tail(b))
         /\ (a \o b)[Len(a) + 1] = Head(b)
<1>1. /\ Tail(b) \in Seq(Frame) /\ Len(Tail(b)) = Len(b) - 1
      /\ Len(b) \in Nat \ {0} /\ Len(a) \in Nat /\ Head(b) = b[1]
      /\ \A n \in 1..(Len(b) - 1) : Tail(b)[n] = b[n + 1]
  OBVIOUS
<1> DEFINE s == a \o b
           r == a \o Tail(b)
<1>2. /\ s \in Seq(Frame) /\ Len(s) = Len(a) + Len(b)
      /\ \A n \in 1..(Len(a) + Len(b)) :
           s[n] = IF n <= Len(a) THEN a[n] ELSE b[n - Len(a)]
  BY StreamFacts
<1>3. /\ r \in Seq(Frame) /\ Len(r) = Len(a) + (Len(b) - 1)
      /\ \A n \in 1..(Len(a) + (Len(b) - 1)) :
           r[n] = IF n <= Len(a) THEN a[n] ELSE Tail(b)[n - Len(a)]
  BY <1>1, StreamFacts
<1> HIDE DEF s, r
<1>4. ASSUME NEW n \in 1..Len(r)
      PROVE  r[n] = IF n < Len(a) + 1 THEN s[n] ELSE s[n + 1]
  <2>0. n \in 1..(Len(a) + (Len(b) - 1)) /\ n + 1 \in 1..(Len(a) + Len(b))
        /\ n \in 1..(Len(a) + Len(b))
    BY <1>1, <1>3
  <2>1. CASE n <= Len(a)
    BY <1>1, <1>2, <1>3, <2>0, <2>1
  <2>2. CASE ~(n <= Len(a))
    <3>1. n - Len(a) \in 1..(Len(b) - 1) /\ (n - Len(a)) + 1 = (n + 1) - Len(a)
          /\ ~(n + 1 <= Len(a)) /\ ~(n < Len(a) + 1)
      BY <1>1, <2>0, <2>2
    <3>2. r[n] = Tail(b)[n - Len(a)] /\ s[n + 1] = b[(n + 1) - Len(a)]
      BY <1>2, <1>3, <2>0, <2>2, <3>1
    <3>3. QED
      BY <1>1, <3>1, <3>2
  <2>3. QED
    BY <2>1, <2>2
<1>5. s[Len(a) + 1] = b[1]
  BY <1>1, <1>2
<1>6. QED
  BY <1>1, <1>2, <1>3, <1>4, <1>5 DEF Without, s, r

-----------------------------------------------------------------------------
(* What a worker does with a frame, in terms of streams and of the table.   *)

\* The next frame of t is taken.
Takes(t) ==
  /\ QueueType' /\ Frame1(t) \in Frame
  /\ rx_packets[t] # <<>> /\ Stream(t) # <<>> /\ Stream(t)[1] = Frame1(t)
  /\ Shorter(Stream(t), Stream(t)')
  /\ \A u \in Transports \ {t} : Stream(u)' = Stream(u)
  /\ UNCHANGED <<next_cid, wrapped, hostVars, lost>>

\* At most one channel is given back, and none is left for the id of frame f.
Clears(f) ==
  /\ channels' \in [Channels -> Channel]
  /\ \A i \in Channels : channels'[i] = channels[i] \/ channels'[i] = Unused
  /\ ~wrapped =>
       \A i \in Channels : channels'[i].in_use => channels'[i].cid # f.cid

\* What frame f is put together with.
Prior(f, c) ==
  \/ f.chunk.idx = 1 /\ c = <<>> /\ f.chunk.len <= MaxLen
  \/ \E i \in Channels :
       /\ c = channels[i].msg /\ c # <<>> /\ channels[i].cid = f.cid
       /\ f.chunk.idx = Len(c) + 1

\* The outcomes of a frame: an error at once, an error, a message dispatched, a
\* chunk stored.
TooLongError(t) ==
  /\ Frame1(t).chunk.idx = 1 /\ Frame1(t).chunk.len > MaxLen
  /\ Error(t) /\ UNCHANGED channels
Errs(t) ==
  /\ Error(t) /\ Clears(Frame1(t))
  /\ Frame1(t).chunk.idx = 1 => Frame1(t).chunk.len <= MaxLen
Dispatches(t, c) ==
  LET f == Frame1(t)
      p == Append(c, f.chunk)
  IN  /\ Prior(f, c) /\ Len(p) = p[1].len /\ Clears(f)
      /\ Settle(f.chunk.msg, "dispatched")
      /\ dispatched' = [dispatched EXCEPT ![t] = p]
      /\ pc' \in [Transports -> {"frame", "init"}]
Stores(t, c) ==
  LET f == Frame1(t)
      p == Append(c, f.chunk)
  IN  /\ Prior(f, c) /\ Len(p) < p[1].len /\ p[1].len <= MaxLen
      /\ UNCHANGED <<outcome, dispatched, pc>>
      /\ channels' \in [Channels -> Channel]
      /\ \E i \in Channels :
           /\ channels'[i].in_use /\ channels'[i].cid = f.cid
           /\ channels'[i].msg = p /\ channels'[i].expected_len = p[1].len
           /\ channels'[i].next_seq = Len(p) - 1
           /\ \A j \in Channels \ {i} :
                /\ channels'[j] = channels[j]
                /\ ~wrapped /\ channels[j].in_use => channels[j].cid # f.cid
FrameEffect(t) ==
  /\ Takes(t)
  /\ \/ TooLongError(t) \/ Errs(t)
     \/ \E c \in Seq(Chunk) : Dispatches(t, c) \/ Stores(t, c)

LEMMA TakeFrameTakes ==
  ASSUME TypeOK, NEW t \in Transports, TakeFrame(t),
         UNCHANGED <<next_cid, wrapped, hostVars, lost>>
  PROVE  Takes(t)
<1>1. /\ rx_packets \in [Transports -> Seq(Frame)]
      /\ writing \in [Transports -> Seq(Frame)]
      /\ rx_packets[t] # <<>> /\ UNCHANGED writing
      /\ rx_packets' = [rx_packets EXCEPT ![t] = Tail(@)]
  BY DEF TypeOK, TakeFrame, hostVars
<1>2. Shorter(Stream(t), Stream(t)') /\ Stream(t)[1] = Frame1(t)
  BY <1>1, TakeStream DEF Stream, Frame1
<1>3. \A u \in Transports \ {t} : Stream(u)' = Stream(u)
  BY <1>1 DEF Stream
<1>4. Stream(t) # <<>>
  BY <1>1, <1>2, StreamFacts DEF Shorter, Stream
<1>5. QueueType'
  <2>1. Tail(rx_packets[t]) \in Seq(Frame)
        /\ Len(Tail(rx_packets[t])) <= Len(rx_packets[t])
    BY <1>1
  <2>2. \A u \in Transports : Len(rx_packets[u]) \in Nat
          /\ Len(rx_packets[u]) <= QueueDepth /\ QueueDepth \in Nat
    BY HidFramingAssumption, <1>1 DEF TypeOK
  <2>3. Len(Tail(rx_packets[t])) <= QueueDepth
    BY <1>1, <2>1, <2>2
  <2>4. QED
    BY <1>1, <2>1, <2>2, <2>3 DEF QueueType
<1>6. Frame1(t) \in Frame
  BY <1>1 DEF Frame1
<1>7. QED
  BY <1>1, <1>2, <1>3, <1>4, <1>5, <1>6 DEF Takes

\* An unused channel, and one that has got a frame.
LEMMA UnusedFacts ==
  Unused \in Channel /\ ~Unused.in_use /\ Unused.msg = <<>>
  /\ Unused.cmd = "none" /\ Unused.expected_len = 0 /\ Unused.cid = 0
  /\ 0 \in Cids
<1>1. 0 \in Cids /\ 0 \in Nat /\ 0 \in 0..MaxLen /\ <<>> \in Seq(Chunk)
  BY HidFramingAssumption DEF Cids, Broadcast
<1>2. \A r \in Channel :
        LET q == [r EXCEPT !.in_use = FALSE]
        IN  /\ q \in Channel /\ ~q.in_use /\ q.msg = r.msg /\ q.cmd = r.cmd
            /\ q.expected_len = r.expected_len /\ q.cid = r.cid
  BY DEF Channel
<1>3. /\ Reserved(0) \in Channel /\ Reserved(0).msg = <<>>
      /\ Reserved(0).cmd = "none" /\ Reserved(0).expected_len = 0
      /\ Reserved(0).cid = 0
  BY <1>1 DEF Reserved, Channel
<1>4. QED
  BY <1>1, <1>2, <1>3 DEF Unused

LEMMA TooLongEffect ==
  ASSUME TypeOK, NEW t \in Transports, TooLong(t)
  PROVE  FrameEffect(t)
<1>1. Takes(t)
  BY TakeFrameTakes DEF TooLong
<1>2. TooLongError(t)
  BY DEF TooLong, TooLongError, IsFirst
<1>3. QED
  BY <1>1, <1>2 DEF FrameEffect

LEMMA UnknownEffect ==
  ASSUME TypeOK, NEW t \in Transports, UnknownChannel(t)
  PROVE  FrameEffect(t)
<1>1. Takes(t)
  BY TakeFrameTakes DEF UnknownChannel
<1>2. Clears(Frame1(t))
  BY DEF UnknownChannel, Clears, Found, TypeOK
<1>3. Errs(t)
  BY <1>2 DEF UnknownChannel, Errs, IsFirst
<1>4. QED
  BY <1>1, <1>3 DEF FrameEffect

LEMMA OutOfSequenceEffect ==
  ASSUME TypeOK, TableInv, NEW t \in Transports, OutOfSequence(t)
  PROVE  FrameEffect(t)
<1>1. Takes(t)
  BY TakeFrameTakes DEF OutOfSequence
<1>2. PICK i \in Found(Frame1(t).cid) : channels' = [channels EXCEPT ![i] = Unused]
  BY DEF OutOfSequence, SetChannel
<1>3. Clears(Frame1(t))
  BY <1>2, UnusedFacts DEF Clears, Found, TypeOK, TableInv
<1>4. Errs(t)
  BY <1>3 DEF OutOfSequence, Errs, IsFirst
<1>5. QED
  BY <1>1, <1>4 DEF FrameEffect

\* A frame that starts or continues a channel.
LEMMA ReassembleEffect ==
  ASSUME TypeOK, NEW t \in Transports, NEW i \in Channels, NEW ch \in Channel,
         NEW c \in Seq(Chunk), Frame1(t) \in Frame, Prior(Frame1(t), c),
         Frame1(t).chunk.idx = 1 => Frame1(t).chunk.len <= MaxLen,
         ch.in_use, ch.cid = Frame1(t).cid,
         ch.msg = Append(c, Frame1(t).chunk), ch.next_seq = Len(ch.msg) - 1,
         ch.expected_len = ch.msg[1].len, Len(ch.msg) <= ch.expected_len,
         ~wrapped => \A j \in Channels \ {i} :
           channels[j].in_use => channels[j].cid # Frame1(t).cid,
         Reassemble(t, i, ch)
  PROVE  Errs(t) \/ Dispatches(t, c) \/ Stores(t, c)
<1> DEFINE f == Frame1(t)
<1>1. Len(ch.msg) \in Nat /\ ch.expected_len \in Nat
      /\ ch.expected_len <= MaxLen
  BY HidFramingAssumption DEF Channel
<1>2. CASE Len(ch.msg) = ch.expected_len
  <2>1. Complete(t, i, ch)
    BY <1>2 DEF Reassemble
  <2>2. Clears(f)
    <3>1. channels' = [channels EXCEPT ![i] = Unused]
      BY <2>1 DEF Complete, SetChannel
    <3>2. QED
      BY <3>1, UnusedFacts DEF Clears, TypeOK
  <2>3. CASE Error(t)
    BY <2>2, <2>3 DEF Errs
  <2>4. CASE /\ Settle(f.chunk.msg, "dispatched")
             /\ dispatched' = [dispatched EXCEPT ![t] = ch.msg]
             /\ pc' = [pc EXCEPT ![t] =
                         IF ch.cmd = "INIT" THEN "init" ELSE "frame"]
    <3>1. pc' \in [Transports -> {"frame", "init"}]
      BY <2>4 DEF TypeOK
    <3>2. QED
      BY <1>2, <2>2, <2>4, <3>1 DEF Dispatches
  <2>5. QED
    BY <2>1, <2>3, <2>4 DEF Complete
<1>3. CASE Len(ch.msg) # ch.expected_len
  <2>1. channels' = [channels EXCEPT ![i] = ch]
        /\ UNCHANGED <<pc, outcome, dispatched>>
    BY <1>3 DEF Reassemble, SetChannel
  <2>2. Len(ch.msg) < ch.expected_len
    BY <1>1, <1>3
  <2>3. channels' \in [Channels -> Channel] /\ channels'[i] = ch
        /\ \A j \in Channels \ {i} : channels'[j] = channels[j]
    BY <2>1 DEF TypeOK
  <2>4. QED
    BY <1>1, <2>1, <2>2, <2>3 DEF Stores
<1>4. QED
  BY <1>2, <1>3

\* A channel as its first frame sets it up.
LEMMA StartFacts ==
  ASSUME NEW f \in Frame, f.chunk.len <= MaxLen,
         NEW ch, ch = [Reserved(f.cid) EXCEPT !.cmd = f.cmd,
                         !.expected_len = f.chunk.len, !.msg = <<f.chunk>>]
  PROVE  /\ ch \in Channel /\ ch.in_use /\ ch.cid = f.cid /\ ch.next_seq = 0
         /\ ch.expected_len = f.chunk.len /\ ch.msg = <<f.chunk>>
         /\ f.chunk.len \in Nat \ {0}
<1>1. /\ f.cid \in Cids /\ f.cmd \in Cmds /\ f.chunk \in Chunk
      /\ f.chunk.len \in Lens \cup {1} /\ <<f.chunk>> \in Seq(Chunk)
  BY DEF Frame, Chunk
<1>2. f.chunk.len \in Nat \ {0} /\ f.chunk.len \in 0..MaxLen
  BY <1>1, HidFramingAssumption
<1>3. /\ Reserved(f.cid) \in Channel /\ Reserved(f.cid).in_use
      /\ Reserved(f.cid).cid = f.cid /\ Reserved(f.cid).next_seq = 0
  BY <1>1, <1>2, HidFramingAssumption DEF Reserved, Channel
<1> DEFINE r == Reserved(f.cid)
           c == f.cmd
           e == f.chunk.len
           m == <<f.chunk>>
<1>4. ch = [r EXCEPT !.cmd = c, !.expected_len = e, !.msg = m]
  OBVIOUS
<1>5. r \in Channel /\ c \in Cmds /\ e \in 0..MaxLen /\ m \in Seq(Chunk)
  BY <1>1, <1>2, <1>3
<1> HIDE DEF r, c, e, m
<1>6. ch \in Channel
  BY <1>4, <1>5 DEF Channel
<1>7. /\ ch.in_use = r.in_use /\ ch.cid = r.cid
      /\ ch.next_seq = r.next_seq /\ ch.expected_len = e /\ ch.msg = m
  BY <1>4, <1>5 DEF Channel
<1>8. QED
  BY <1>2, <1>3, <1>6, <1>7 DEF r, e, m

LEMMA FirstFrameEffect ==
  ASSUME TypeOK, TableInv, NEW t \in Transports, FirstFrame(t)
  PROVE  FrameEffect(t)
<1> DEFINE f == Frame1(t)
           i == IF Found(f.cid) # {} THEN First(Found(f.cid)) ELSE AllocChannel
           ch == [Reserved(f.cid) EXCEPT !.cmd = f.cmd,
                    !.expected_len = f.chunk.len, !.msg = <<f.chunk>>]
<1>1. Takes(t) /\ f \in Frame
  BY TakeFrameTakes DEF FirstFrame, Takes
<1>2. Reassemble(t, i, ch) /\ f.chunk.idx = 1 /\ f.chunk.len <= MaxLen
  BY DEF FirstFrame, IsFirst
<1>3. /\ ch \in Channel /\ ch.in_use /\ ch.cid = f.cid /\ ch.next_seq = 0
      /\ ch.expected_len = f.chunk.len /\ ch.msg = <<f.chunk>>
      /\ f.chunk.len \in Nat \ {0}
  <2>1. ch = [Reserved(f.cid) EXCEPT !.cmd = f.cmd,
                !.expected_len = f.chunk.len, !.msg = <<f.chunk>>]
    OBVIOUS
  <2> HIDE DEF ch
  <2>2. QED
    BY <1>1, <1>2, <2>1, StartFacts
<1> HIDE DEF ch
<1>4. i \in Channels
  BY AllocFacts DEF Found
<1>5. ~wrapped => \A j \in Channels \ {i} :
        channels[j].in_use => channels[j].cid # f.cid
  <2>1. CASE Found(f.cid) = {}
    BY <2>1 DEF Found
  <2>2. CASE Found(f.cid) # {}
    BY <2>2, AllocFacts DEF Found, TableInv
  <2>3. QED
    BY <2>1, <2>2
<1> HIDE DEF i
<1>6. f.chunk \in Chunk
  BY <1>1 DEF Frame
<1>7. /\ ch.msg = Append(<<>>, f.chunk) /\ Len(ch.msg) = 1
      /\ ch.msg[1] = f.chunk /\ <<>> \in Seq(Chunk)
  BY <1>3
<1>8. Prior(f, <<>>)
  BY <1>2 DEF Prior
<1>9. ch.next_seq = Len(ch.msg) - 1 /\ Len(ch.msg) <= ch.expected_len
  BY <1>3, <1>7
<1>10. Errs(t) \/ Dispatches(t, <<>>) \/ Stores(t, <<>>)
  BY <1>1, <1>2, <1>3, <1>4, <1>5, <1>7, <1>8, <1>9, ReassembleEffect
<1>11. QED
  BY <1>1, <1>7, <1>10 DEF FrameEffect

LEMMA ContinuationEffect ==
  ASSUME TypeOK, TableInv, NEW t \in Transports, Continuation(t)
  PROVE  FrameEffect(t)
<1> DEFINE f == Frame1(t)
<1>1. Takes(t) /\ f \in Frame /\ f.chunk \in Chunk /\ f.chunk.idx # 1
  BY TakeFrameTakes DEF Continuation, IsFirst, Frame, Takes
<1>2. PICK i \in Found(f.cid) :
        /\ f.chunk.idx = channels[i].next_seq + 2
        /\ LET ch == channels[i]
               room == Len(ch.msg) < ch.expected_len
           IN  Reassemble(t, i, [ch EXCEPT
                 !.next_seq = @ + 1,
                 !.msg = IF room THEN Append(@, f.chunk) ELSE @])
  BY DEF Continuation, Continues
<1> DEFINE old == channels[i]
           room == Len(old.msg) < old.expected_len
           c == old.msg
           p == IF room THEN Append(c, f.chunk) ELSE c
           new == [old EXCEPT !.next_seq = @ + 1,
                     !.msg = IF room THEN Append(@, f.chunk) ELSE @]
<1>3. i \in Channels /\ old \in Channel /\ old.in_use /\ old.cid = f.cid
      /\ ChannelOK(old)
  BY DEF Found, TypeOK, TableInv
<1>4. c \in Seq(Chunk) /\ old.next_seq \in Nat /\ old.expected_len \in Nat
  BY <1>3, HidFramingAssumption DEF Channel
<1>5. ~wrapped => \A j \in Channels \ {i} :
        channels[j].in_use => channels[j].cid # f.cid
  BY <1>3 DEF TableInv
<1>6. Reassemble(t, i, new)
  BY <1>2
<1>7. /\ new \in Channel /\ new.in_use /\ new.cid = f.cid /\ new.cmd = old.cmd
      /\ new.next_seq = old.next_seq + 1 /\ new.msg = p
      /\ new.expected_len = old.expected_len
  <2> DEFINE n == old.next_seq + 1
  <2>1. n \in Nat /\ p \in Seq(Chunk)
    BY <1>1, <1>4
  <2>2. new = [old EXCEPT !.next_seq = n, !.msg = p]
    OBVIOUS
  <2> HIDE DEF new, n, p, room, old, c
  <2>3. new \in Channel
    BY <1>3, <2>1, <2>2 DEF Channel
  <2>4. /\ new.in_use = old.in_use /\ new.cid = old.cid /\ new.cmd = old.cmd
        /\ new.next_seq = n /\ new.msg = p
        /\ new.expected_len = old.expected_len
    BY <1>3, <2>1, <2>2 DEF Channel
  <2>5. QED
    BY <1>3, <2>3, <2>4 DEF n
<1> HIDE DEF new
<1>8. CASE c = <<>>
  <2>1. /\ old.cmd = "none" /\ old.expected_len = 0 /\ ~room /\ p = <<>>
        /\ Len(new.msg) = new.expected_len
    BY <1>3, <1>7, <1>8 DEF ChannelOK
  <2>2. Error(t) /\ channels' = [channels EXCEPT ![i] = Unused]
    BY <1>6, <1>7, <2>1 DEF Reassemble, Complete, SetChannel
  <2>3. Clears(f)
    BY <1>3, <1>5, <2>2, UnusedFacts DEF Clears, TypeOK
  <2>4. Errs(t)
    BY <1>1, <2>2, <2>3 DEF Errs
  <2>5. QED
    BY <1>1, <2>4 DEF FrameEffect
<1>9. CASE c # <<>>
  <2>1. /\ old.next_seq = Len(c) - 1 /\ old.expected_len = c[1].len
        /\ Len(c) < old.expected_len
    BY <1>3, <1>9 DEF ChannelOK
  <2>2. /\ p = Append(c, f.chunk) /\ Len(p) = Len(c) + 1 /\ p[1] = c[1]
        /\ Len(c) \in Nat \ {0}
    BY <1>1, <1>4, <1>9, <2>1
  <2> HIDE DEF p, room, c, old
  <2>3. f.chunk.idx = Len(c) + 1
    BY <1>2, <2>1, <2>2 DEF old
  <2>4. Prior(f, c)
    BY <1>3, <1>9, <2>3 DEF Prior, old, c
  <2>5. /\ new.next_seq = Len(new.msg) - 1 /\ new.expected_len = new.msg[1].len
        /\ Len(new.msg) <= new.expected_len
    BY <1>4, <1>7, <2>1, <2>2
  <2>6. Errs(t) \/ Dispatches(t, c) \/ Stores(t, c)
    BY <1>1, <1>3, <1>4, <1>5, <1>6, <1>7, <2>2, <2>4, <2>5, ReassembleEffect
  <2>7. QED
    BY <1>1, <1>4, <2>6 DEF FrameEffect
<1>10. QED
  BY <1>8, <1>9

\* What becomes of the message of a frame.
LEMMA SettleFacts ==
  ASSUME TypeOK, NEW m \in Msgs, NEW r \in Outcomes, Settle(m, r)
  PROVE  /\ outcome' \in [Msgs -> Outcomes]
         /\ outcome'[m] = IF outcome[m] = "none" THEN r ELSE outcome[m]
         /\ \A k \in Msgs \ {m} : outcome'[k] = outcome[k]
BY DEF TypeOK, Settle

LEMMA FrameFacts ==
  /\ \A f \in Frame : /\ f.chunk \in Chunk /\ f.chunk.msg \in Msgs
                      /\ f.chunk.idx \in Nat \ {0} /\ f.chunk.len \in Nat \ {0}
                      /\ f.cid \in Cids
  /\ \A x \in Chunk : x.msg \in Msgs /\ x.idx \in Nat \ {0} /\ x.len \in Nat \ {0}
  /\ Msgs \subseteq Nat /\ Cids \subseteq Nat /\ Broadcast \in Nat
  /\ NoCid \in Nat /\ NoCid \notin Cids
<1>1. Msgs \subseteq Nat /\ Cids \subseteq Nat /\ Broadcast \in Nat
      /\ NoCid \in Nat /\ NoCid \notin Cids
      /\ Lens \cup {1} \subseteq Nat \ {0}
  BY HidFramingAssumption DEF Msgs, Cids, Broadcast, NoCid
<1>2. \A x \in Chunk :
        x.msg \in Msgs /\ x.idx \in Nat \ {0} /\ x.len \in Nat \ {0}
  BY <1>1 DEF Chunk
<1>3. \A f \in Frame : f.chunk \in Chunk /\ f.cid \in Cids
  BY DEF Frame
<1>4. QED
  BY <1>1, <1>2, <1>3

LEMMA FrameType ==
  ASSUME TypeOK, NEW t \in Transports, FrameEffect(t)
  PROVE  TypeOK'
<1> DEFINE f == Frame1(t)
<1>1. QueueType' /\ HostType' /\ f \in Frame /\ f.chunk \in Chunk
      /\ f.chunk.msg \in Msgs /\ UNCHANGED <<next_cid, wrapped>>
  BY FrameFacts DEF FrameEffect, Takes, TypeOK, HostType, hostVars
<1>2. \A r \in Outcomes : Settle(f.chunk.msg, r) =>
        outcome' \in [Msgs -> Outcomes]
  BY <1>1, SettleFacts
<1>3. {"error", "dispatched"} \subseteq Outcomes
  BY DEF Outcomes
<1>4. CASE TooLongError(t)
  <2>1. HistoryType' /\ UNCHANGED <<channels, pc>>
    BY <1>2, <1>3, <1>4 DEF TooLongError, Error, TypeOK, HistoryType
  <2>2. TableType'
    BY <1>1, <2>1 DEF TypeOK, TableType
  <2>3. QED
    BY <1>1, <2>1, <2>2
       DEF TypeOK, TableType, QueueType, HostType, HistoryType
<1>5. ASSUME Clears(f) PROVE \A i \in Channels :
        Len(channels'[i].msg) <= channels'[i].expected_len
  <2>1. Len(<<>>) <= 0
    OBVIOUS
  <2>2. QED
    BY <1>5, <2>1, UnusedFacts DEF TypeOK, Clears
<1>6. CASE Errs(t)
  <2>1. TableType'
    BY <1>1, <1>5, <1>6 DEF Errs, Error, Clears, TypeOK, TableType
  <2>2. HistoryType'
    BY <1>2, <1>3, <1>6 DEF Errs, Error, TypeOK, HistoryType
  <2>3. QED
    BY <1>1, <2>1, <2>2
       DEF TypeOK, TableType, QueueType, HostType, HistoryType
<1>7. ASSUME NEW c \in Seq(Chunk), Dispatches(t, c) PROVE TypeOK'
  <2>1. TableType'
    BY <1>1, <1>5, <1>7 DEF Dispatches, Clears, TypeOK, TableType
  <2>2. Append(c, f.chunk) \in Seq(Chunk)
    BY <1>1
  <2>3. HistoryType'
    BY <1>2, <1>3, <1>7, <2>2 DEF Dispatches, TypeOK, HistoryType
  <2>4. QED
    BY <1>1, <2>1, <2>3
       DEF TypeOK, TableType, QueueType, HostType, HistoryType
<1>8. ASSUME NEW c \in Seq(Chunk), Stores(t, c) PROVE TypeOK'
  <2>1. HistoryType' /\ UNCHANGED pc /\ channels' \in [Channels -> Channel]
    BY <1>8 DEF Stores, TypeOK, HistoryType
  <2> DEFINE p == Append(c, f.chunk)
  <2>2. p \in Seq(Chunk) /\ Len(p) \in Nat /\ p[1] \in Chunk
    BY <1>1
  <2> HIDE DEF p
  <2>3. Len(p) <= p[1].len
    BY <1>8, <2>2, FrameFacts DEF Stores, p
  <2>4. \A i \in Channels : \/ channels'[i] = channels[i]
                            \/ /\ channels'[i].msg = p
                               /\ channels'[i].expected_len = p[1].len
    BY <1>8 DEF Stores, p
  <2>5. TableType'
    BY <1>1, <2>1, <2>3, <2>4 DEF TypeOK, TableType
  <2>6. QED
    BY <1>1, <2>1, <2>5
       DEF TypeOK, TableType, QueueType, HostType, HistoryType
<1>9. QED
  BY <1>4, <1>6, <1>7, <1>8 DEF FrameEffect

-----------------------------------------------------------------------------
(* What the other steps do, in the same terms.                              *)

\* A host starts a message: frames w are put behind its stream.
Behind(s, w, r) ==
  /\ r \in Seq(Frame) /\ Len(r) = Len(s) + Len(w)
  /\ \A n \in 1..Len(r) : r[n] = IF n <= Len(s) THEN s[n] ELSE w[n - Len(s)]
MessageOf(w, m) ==
  /\ w \in Seq(Frame) /\ w # <<>>
  /\ \A n \in DOMAIN w :
       /\ w[n].chunk.msg = m /\ w[n].chunk.idx = n
       /\ w[n].chunk.len = Len(w) /\ w[n].cid = w[1].cid
SendEffect(t, w) ==
  /\ Len(source) + 1 \in Msgs /\ MessageOf(w, Len(source) + 1)
  /\ \/ w[1].cid = Broadcast /\ Len(w) = 1
     \/ w[1].cid = host_cid[t] /\ host_cid[t] # NoCid
  /\ Behind(Stream(t), w, Stream(t)')
  /\ \A u \in Transports \ {t} : Stream(u)' = Stream(u)
  /\ source' = Append(source, t) /\ writing' = [writing EXCEPT ![t] = w]
  /\ UNCHANGED <<driverVars, rx_packets, host_cid, lost, outcome, dispatched>>

LEMMA FramesOf ==
  ASSUME NEW m \in Msgs, NEW cid \in Cids, NEW cmd \in Cmds,
         NEW len \in Lens \cup {1}
  PROVE  LET w == Frames(m, cid, cmd, len)
         IN  MessageOf(w, m) /\ Len(w) = len /\ w[1].cid = cid
<1> DEFINE w == Frames(m, cid, cmd, len)
<1>1. len \in Nat \ {0}
  BY HidFramingAssumption
<1>2. w = [i \in 1..len |-> [chunk |-> [msg |-> m, idx |-> i, len |-> len],
                             cid |-> cid, cmd |-> cmd]]
  BY DEF Frames
<1> HIDE DEF w
<1>3. \A i \in 1..len :
        [chunk |-> [msg |-> m, idx |-> i, len |-> len],
         cid |-> cid, cmd |-> cmd] \in Frame
  BY <1>1 DEF Frame, Chunk
<1>4. \A i \in 1..len : w[i] \in Frame
  BY <1>2, <1>3
<1>5. w \in Seq(Frame) /\ Len(w) = len /\ DOMAIN w = 1..len
  BY <1>1, <1>2, <1>4
<1>6. \A i \in 1..len :
        /\ w[i].chunk.msg = m /\ w[i].chunk.idx = i /\ w[i].chunk.len = len
        /\ w[i].cid = cid
  BY <1>2
<1>7. 1 \in 1..len /\ w # <<>>
  BY <1>1, <1>5
<1>8. QED
  BY <1>5, <1>6, <1>7 DEF MessageOf, w

LEMMA SendStep ==
  ASSUME TypeOK, NEW t \in Transports, NEW cmd \in Cmds,
         NEW len \in Lens \cup {1}, Send(t, cmd, len)
  PROVE  TypeOK' /\ \E w \in Seq(Frame) : SendEffect(t, w)
<1> DEFINE m == Len(source) + 1
           cid == IF cmd = "INIT" THEN Broadcast ELSE host_cid[t]
           w == Frames(m, cid, cmd, len)
<1>1. /\ writing[t] = <<>> /\ Len(source) < MaxMsgs
      /\ cmd = "INIT" => len = 1
      /\ cmd = "CBOR" => host_cid[t] # NoCid
      /\ source' = Append(source, t) /\ writing' = [writing EXCEPT ![t] = w]
      /\ UNCHANGED <<driverVars, rx_packets, host_cid, lost, outcome,
                     dispatched>>
  BY DEF Send
<1>2. /\ source \in Seq(Transports) /\ Len(source) \in Nat
      /\ host_cid[t] \in Cids \cup {NoCid} /\ Broadcast \in Cids
      /\ rx_packets \in [Transports -> Seq(Frame)]
      /\ writing \in [Transports -> Seq(Frame)]
  BY HidFramingAssumption DEF TypeOK, Cids, Broadcast
<1>3. m \in Msgs /\ cid \in Cids
  BY <1>1, <1>2, HidFramingAssumption DEF Msgs, Cmds
<1>4. MessageOf(w, m) /\ Len(w) = len /\ w[1].cid = cid
  BY <1>3, FramesOf
<1> HIDE DEF w
<1>5. w \in Seq(Frame) /\ writing' \in [Transports -> Seq(Frame)]
      /\ writing'[t] = w /\ \A u \in Transports \ {t} : writing'[u] = writing[u]
  BY <1>1, <1>2, <1>4 DEF MessageOf
<1>6. source' \in Seq(Transports) /\ Len(source') <= MaxMsgs
  BY <1>1, <1>2, HidFramingAssumption
<1>7. TypeOK'
  <2>1. UNCHANGED <<channels, next_cid, wrapped, pc, rx_packets, host_cid,
                    lost, outcome, dispatched>>
    BY <1>1 DEF driverVars
  <2>2. QED
    BY <1>5, <1>6, <2>1 DEF TypeOK
<1>8. \A u \in Transports \ {t} : Stream(u)' = Stream(u)
  BY <1>1, <1>5 DEF Stream
<1>9. Behind(Stream(t), w, Stream(t)')
  <2>1. Stream(t)' = rx_packets[t] \o w /\ Stream(t) = rx_packets[t] \o <<>>
    BY <1>1, <1>5 DEF Stream
  <2>2. /\ rx_packets[t] \o <<>> = rx_packets[t]
        /\ rx_packets[t] \in Seq(Frame)
    BY <1>2
  <2>3. /\ rx_packets[t] \o w \in Seq(Frame)
        /\ Len(rx_packets[t] \o w) = Len(rx_packets[t]) + Len(w)
        /\ \A n \in 1..(Len(rx_packets[t]) + Len(w)) :
             (rx_packets[t] \o w)[n] =
               IF n <= Len(rx_packets[t]) THEN rx_packets[t][n]
               ELSE w[n - Len(rx_packets[t])]
    BY <1>5, <2>2, StreamFacts
  <2>4. QED
    BY <2>1, <2>2, <2>3 DEF Behind
<1>10. \/ w[1].cid = Broadcast /\ Len(w) = 1
       \/ w[1].cid = host_cid[t] /\ host_cid[t] # NoCid
  <2>1. CASE cmd = "INIT"
    BY <1>1, <1>4, <2>1
  <2>2. CASE cmd = "CBOR"
    BY <1>1, <1>4, <2>2
  <2>3. QED
    BY <2>1, <2>2 DEF Cmds
<1>11. QED
  BY <1>1, <1>3, <1>4, <1>5, <1>7, <1>8, <1>9, <1>10 DEF SendEffect

\* Hosts write one frame, or give the rest up.
Written ==
  \A u \in Transports :
    \/ writing'[u] \in {<<>>, writing[u]}
    \/ writing[u] # <<>> /\ writing'[u] = Tail(writing[u])

\* A frame goes from the host to the queue: the stream is the same.
WriteEffect(t) ==
  /\ \A u \in Transports : Stream(u)' = Stream(u)
  /\ Written
  /\ UNCHANGED <<driverVars, host_cid, source, lost, outcome, dispatched>>

LEMMA WriteStep ==
  ASSUME TypeOK, NEW t \in Transports, Write(t)
  PROVE  TypeOK' /\ WriteEffect(t)
<1>1. /\ writing[t] # <<>> /\ Len(rx_packets[t]) < QueueDepth
      /\ rx_packets' = [rx_packets EXCEPT ![t] = Append(@, Head(writing[t]))]
      /\ writing' = [writing EXCEPT ![t] = Tail(@)]
      /\ UNCHANGED <<driverVars, host_cid, source, lost, outcome, dispatched>>
  BY DEF Write
<1>2. /\ rx_packets \in [Transports -> Seq(Frame)]
      /\ writing \in [Transports -> Seq(Frame)]
      /\ \A u \in Transports : Len(rx_packets[u]) <= QueueDepth
      /\ QueueDepth \in Nat
  BY HidFramingAssumption DEF TypeOK
<1>3. /\ Append(rx_packets[t], Head(writing[t])) \o Tail(writing[t]) = Stream(t)
      /\ Head(writing[t]) \in Frame /\ Tail(writing[t]) \in Seq(Frame)
  BY <1>1, <1>2, WriteStream DEF Stream
<1>4. \A u \in Transports : Stream(u)' = Stream(u)
  BY <1>1, <1>2, <1>3 DEF Stream
<1>5. /\ Append(rx_packets[t], Head(writing[t])) \in Seq(Frame)
      /\ Len(Append(rx_packets[t], Head(writing[t]))) = Len(rx_packets[t]) + 1
      /\ Len(rx_packets[t]) \in Nat
  BY <1>2, <1>3
<1>6. Len(Append(rx_packets[t], Head(writing[t]))) <= QueueDepth
  BY <1>1, <1>2, <1>5
<1>7. QueueType'
  BY <1>1, <1>2, <1>5, <1>6 DEF QueueType
<1>8. TypeOK'
  <2>1. UNCHANGED <<channels, next_cid, wrapped, pc, host_cid, source, lost,
                    outcome, dispatched>>
    BY <1>1 DEF driverVars
  <2>2. writing' \in [Transports -> Seq(Frame)]
    BY <1>1, <1>2, <1>3
  <2>3. QED
    BY <1>7, <2>1, <2>2 DEF TypeOK, QueueType
<1>9. QED
  BY <1>1, <1>2, <1>4, <1>8 DEF WriteEffect, Written

\* The frame at k, the first that its host has still to write, is lost; or it
\* is refused and the host gives up.  All from k on are of one message.
Cut(s, k, d, r) ==
  /\ r \in Seq(Frame) /\ k \in Nat \ {0} /\ d \in Nat
  /\ Len(s) = Len(r) + d /\ k <= Len(r) + 1
  /\ \A n \in 1..Len(r) : r[n] = IF n < k THEN s[n] ELSE s[n + d]
CutEffect(t, k, d, result) ==
  /\ Cut(Stream(t), k, d, Stream(t)')
  /\ k > 1 /\ d > 0 /\ k \in DOMAIN Stream(t)
  /\ \A n \in DOMAIN Stream(t) :
       n >= k => Stream(t)[n].chunk.msg = Stream(t)[k].chunk.msg
  /\ \/ t \in Usb /\ d = 1 /\ result = "lost"
     \/ t \in User /\ k = Len(Stream(t)') + 1 /\ result = "refused"
  /\ Settle(Stream(t)[k].chunk.msg, result)
  /\ \A u \in Transports \ {t} : Stream(u)' = Stream(u)
  /\ Written
  /\ UNCHANGED <<driverVars, host_cid, source, dispatched>>

\* What is still to be written, in the stream.
LEMMA UnwrittenFacts ==
  ASSUME TypeOK, WriteInv, NEW t \in Transports, writing[t] # <<>>,
         Len(rx_packets[t]) = QueueDepth
  PROVE  LET k == Len(rx_packets[t]) + 1
         IN  /\ k \in Nat /\ k > 1 /\ k \in DOMAIN Stream(t)
             /\ Stream(t)[k] = Head(writing[t])
             /\ Stream(t)[k].chunk.msg \in Msgs
             /\ \A n \in DOMAIN Stream(t) :
                  n >= k => Stream(t)[n].chunk.msg = Stream(t)[k].chunk.msg
<1> DEFINE a == rx_packets[t]
           b == writing[t]
           k == Len(a) + 1
<1>1. a \in Seq(Frame) /\ b \in Seq(Frame) /\ b # <<>>
      /\ Len(a) = QueueDepth /\ QueueDepth \in Nat \ {0}
  BY HidFramingAssumption DEF TypeOK
<1>2. Len(b) \in Nat \ {0} /\ Head(b) = b[1] /\ DOMAIN b = 1..Len(b)
  BY <1>1
<1>3. \A n \in DOMAIN b : b[n].chunk.msg = b[1].chunk.msg
  BY DEF WriteInv
<1>4. /\ Stream(t) \in Seq(Frame) /\ Len(Stream(t)) = Len(a) + Len(b)
      /\ \A n \in 1..(Len(a) + Len(b)) :
           Stream(t)[n] = IF n <= Len(a) THEN a[n] ELSE b[n - Len(a)]
  BY <1>1, StreamFacts DEF Stream
<1> HIDE DEF a, b
<1>5. k \in Nat /\ k > 1 /\ k \in 1..(Len(a) + Len(b)) /\ ~(k <= Len(a))
      /\ k - Len(a) = 1
  BY <1>1, <1>2
<1>6. Stream(t)[k] = b[1] /\ k \in DOMAIN Stream(t)
      /\ DOMAIN Stream(t) = 1..(Len(a) + Len(b))
  BY <1>1, <1>2, <1>4, <1>5
<1>7. ASSUME NEW n \in DOMAIN Stream(t), n >= k
      PROVE  Stream(t)[n].chunk.msg = Stream(t)[k].chunk.msg
  <2>1. n - Len(a) \in 1..Len(b) /\ ~(n <= Len(a)) /\ n \in 1..(Len(a) + Len(b))
    BY <1>1, <1>2, <1>6, <1>7
  <2>2. Stream(t)[n] = b[n - Len(a)]
    BY <1>4, <2>1
  <2>3. QED
    BY <1>2, <1>3, <1>6, <2>1, <2>2
<1>8. Stream(t)[k].chunk.msg \in Msgs
  BY <1>4, <1>6, FrameFacts
<1>9. QED
  BY <1>2, <1>5, <1>6, <1>7, <1>8 DEF a, b

LEMMA WriteLostStep ==
  ASSUME TypeOK, WriteInv, NEW t \in Transports, WriteLost(t)
  PROVE  TypeOK' /\ \E k \in Nat, d \in Nat : CutEffect(t, k, d, "lost")
<1> DEFINE k == Len(rx_packets[t]) + 1
<1>1. /\ t \in Usb /\ lost < MaxLost
      /\ writing[t] # <<>> /\ Len(rx_packets[t]) = QueueDepth
      /\ lost' = lost + 1 /\ writing' = [writing EXCEPT ![t] = Tail(@)]
      /\ Settle(Head(writing[t]).chunk.msg, "lost")
      /\ UNCHANGED <<driverVars, rx_packets, host_cid, source, dispatched>>
  BY DEF WriteLost
<1>2. /\ k \in Nat /\ k > 1 /\ k \in DOMAIN Stream(t)
      /\ Stream(t)[k] = Head(writing[t]) /\ Stream(t)[k].chunk.msg \in Msgs
      /\ \A n \in DOMAIN Stream(t) :
           n >= k => Stream(t)[n].chunk.msg = Stream(t)[k].chunk.msg
  BY <1>1, UnwrittenFacts
<1>3. /\ rx_packets[t] \in Seq(Frame) /\ writing \in [Transports -> Seq(Frame)]
      /\ rx_packets' = rx_packets /\ Tail(writing[t]) \in Seq(Frame)
  BY <1>1 DEF TypeOK
<1>4. Stream(t)' = rx_packets[t] \o Tail(writing[t])
      /\ \A u \in Transports \ {t} : Stream(u)' = Stream(u)
  BY <1>1, <1>3 DEF Stream
<1>5. Without(Stream(t), k, Stream(t)')
  BY <1>1, <1>3, <1>4, DropStream DEF Stream
<1>6. Cut(Stream(t), k, 1, Stream(t)')
  <2>1. Stream(t)' \in Seq(Frame) /\ Len(Stream(t)) = Len(Stream(t)') + 1
        /\ k \in 1..Len(Stream(t))
    BY <1>5 DEF Without
  <2>2. k <= Len(Stream(t)') + 1 /\ k \in Nat \ {0}
    BY <1>2, <2>1
  <2>3. QED
    BY <1>5, <2>1, <2>2 DEF Cut, Without
<1>7. TypeOK'
  <2>1. lost' \in 0..MaxLost /\ writing' \in [Transports -> Seq(Frame)]
    BY <1>1, <1>3, HidFramingAssumption DEF TypeOK
  <2>2. outcome' \in [Msgs -> Outcomes]
    BY <1>1, <1>2, SettleFacts DEF Outcomes
  <2>3. UNCHANGED <<channels, next_cid, wrapped, pc, rx_packets, host_cid,
                    source, dispatched>>
    BY <1>1 DEF driverVars
  <2>4. QED
    BY <2>1, <2>2, <2>3 DEF TypeOK
<1>8. Written
  BY <1>1, <1>3 DEF Written
<1>9. CutEffect(t, k, 1, "lost")
  BY <1>1, <1>2, <1>4, <1>6, <1>8 DEF CutEffect
<1>10. QED
  BY <1>2, <1>7, <1>9

LEMMA WriteBusyStep ==
  ASSUME TypeOK, WriteInv, NEW t \in Transports, WriteBusy(t)
  PROVE  TypeOK' /\ \E k \in Nat, d \in Nat : CutEffect(t, k, d, "refused")
<1> DEFINE k == Len(rx_packets[t]) + 1
           d == Len(writing[t])
<1>1. /\ t \in User
      /\ writing[t] # <<>> /\ Len(rx_packets[t]) = QueueDepth
      /\ writing' = [writing EXCEPT ![t] = <<>>]
      /\ Settle(Head(writing[t]).chunk.msg, "refused")
      /\ UNCHANGED <<driverVars, rx_packets, host_cid, source, lost,
                     dispatched>>
  BY DEF WriteBusy
<1>2. /\ k \in Nat /\ k > 1 /\ k \in DOMAIN Stream(t)
      /\ Stream(t)[k] = Head(writing[t]) /\ Stream(t)[k].chunk.msg \in Msgs
      /\ \A n \in DOMAIN Stream(t) :
           n >= k => Stream(t)[n].chunk.msg = Stream(t)[k].chunk.msg
  BY <1>1, UnwrittenFacts
<1>3. /\ rx_packets[t] \in Seq(Frame) /\ writing \in [Transports -> Seq(Frame)]
      /\ writing[t] \in Seq(Frame) /\ rx_packets' = rx_packets
  BY <1>1 DEF TypeOK
<1>4. Stream(t)' = rx_packets[t] /\ d \in Nat /\ d > 0
  <2>1. Stream(t)' = rx_packets[t] \o <<>>
    BY <1>1, <1>3 DEF Stream
  <2>2. rx_packets[t] \o <<>> = rx_packets[t] /\ d \in Nat /\ d > 0
    BY <1>1, <1>3
  <2>3. QED
    BY <2>1, <2>2
<1>5. \A u \in Transports \ {t} : Stream(u)' = Stream(u)
  BY <1>1, <1>3 DEF Stream
<1>6. /\ Len(Stream(t)) = Len(rx_packets[t]) + d
      /\ \A n \in 1..Len(rx_packets[t]) : Stream(t)[n] = rx_packets[t][n]
  BY <1>3, StreamFacts DEF Stream
<1>7. Cut(Stream(t), k, d, Stream(t)') /\ k = Len(Stream(t)') + 1
  <2>1. k \in Nat \ {0} /\ k <= Len(rx_packets[t]) + 1
        /\ \A n \in 1..Len(rx_packets[t]) : n < k
    BY <1>2, <1>3
  <2>2. QED
    BY <1>3, <1>4, <1>6, <2>1 DEF Cut
<1>8. TypeOK'
  <2>1. writing' \in [Transports -> Seq(Frame)]
    BY <1>1, <1>3
  <2>2. outcome' \in [Msgs -> Outcomes]
    BY <1>1, <1>2, SettleFacts DEF Outcomes
  <2>3. UNCHANGED <<channels, next_cid, wrapped, pc, rx_packets, host_cid,
                    source, lost, dispatched>>
    BY <1>1 DEF driverVars
  <2>4. QED
    BY <2>1, <2>2, <2>3 DEF TypeOK
<1>9. Written
  BY <1>1, <1>3 DEF Written
<1>10. CutEffect(t, k, d, "refused")
  BY <1>1, <1>2, <1>4, <1>5, <1>7, <1>9 DEF CutEffect
<1>11. QED
  BY <1>2, <1>4, <1>8, <1>10

\* INIT gives t the next id, and reserves a channel for it if one is unused.
InitEffect(t, id) ==
  /\ id \in Cids \ {0, Broadcast} /\ next_cid' \in Cids \ {0}
  /\ wrapped => wrapped'
  /\ ~wrapped' => /\ id = next_cid /\ id # Broadcast
                  /\ next_cid' = next_cid + 1
  /\ host_cid' = [host_cid EXCEPT ![t] = id]
  /\ \A i \in Channels : \/ channels'[i] = channels[i]
                         \/ /\ channels'[i] = Reserved(id)
                            /\ \A j \in Channels \ {i} :
                                 channels'[j] = channels[j]
  /\ \A u \in Transports : Stream(u)' = Stream(u)
  /\ UNCHANGED <<rx_packets, writing, source, lost, outcome, dispatched>>

LEMMA ReservedFacts ==
  ASSUME NEW id \in Cids
  PROVE  /\ Reserved(id) \in Channel /\ Reserved(id).cid = id
         /\ Reserved(id).msg = <<>> /\ Reserved(id).in_use
         /\ Reserved(id).cmd = "none" /\ Reserved(id).expected_len = 0
<1>1. 0 \in Nat /\ 0 \in 0..MaxLen /\ <<>> \in Seq(Chunk)
  BY HidFramingAssumption
<1>2. QED
  BY <1>1 DEF Reserved, Channel

LEMMA DispatchInitStep ==
  ASSUME TypeOK, IdInv, NEW t \in Transports, DispatchInit(t)
  PROVE  TypeOK' /\ \E id \in Cids : InitEffect(t, id)
<1> DEFINE id == NextCid(next_cid).cid
           next == NextCid(next_cid).next
<1>1. /\ pc' = [pc EXCEPT ![t] = "frame"] /\ next_cid' = next
      /\ wrapped' = (wrapped \/ next <= next_cid)
      /\ channels' = IF UnusedChannels = {} THEN channels
                     ELSE [channels EXCEPT ![AllocChannel] = Reserved(id)]
      /\ host_cid' = [host_cid EXCEPT ![t] = id]
      /\ UNCHANGED <<rx_packets, writing, source, lost, outcome, dispatched>>
  BY DEF DispatchInit
<1>2. next_cid \in Cids /\ next_cid # 0 /\ wrapped \in BOOLEAN
  BY DEF TypeOK, IdInv
<1>3. /\ id \in Cids \ {0, Broadcast} /\ next \in Cids \ {0}
      /\ next > next_cid =>
           next_cid # Broadcast /\ id = next_cid /\ next = next_cid + 1
  BY <1>2, NextCidFacts
<1> HIDE DEF id, next
<1>4. next \in Nat /\ next_cid \in Nat
  BY <1>2, <1>3, FrameFacts
<1>5. /\ wrapped' \in BOOLEAN
      /\ wrapped => wrapped'
      /\ ~wrapped' => id = next_cid /\ id # Broadcast /\ next = next_cid + 1
  <2>1. /\ wrapped' \in BOOLEAN
        /\ wrapped => wrapped'
    BY <1>1, <1>2
  <2>2. ASSUME ~wrapped' PROVE next > next_cid
    <3>1. ~(next <= next_cid)
      BY <1>1, <2>2, Zenon
    <3>2. QED
      BY <1>4, <3>1
  <2>3. QED
    BY <1>3, <2>1, <2>2
<1>6. /\ channels' \in [Channels -> Channel]
      /\ \A i \in Channels :
           \/ channels'[i] = channels[i]
           \/ /\ channels'[i] = Reserved(id)
              /\ \A j \in Channels \ {i} : channels'[j] = channels[j]
  <2>1. AllocChannel \in Channels /\ Reserved(id) \in Channel
    BY <1>3, AllocFacts, ReservedFacts
  <2> HIDE DEF AllocChannel
  <2>2. QED
    BY <1>1, <2>1 DEF TypeOK
<1>7. \A u \in Transports : Stream(u)' = Stream(u)
  BY <1>1 DEF Stream
<1>8. TypeOK'
  <2>1. \A i \in Channels : Len(channels'[i].msg) <= channels'[i].expected_len
    <3>1. Len(<<>>) <= 0
      OBVIOUS
    <3>2. Reserved(id).msg = <<>> /\ Reserved(id).expected_len = 0
      BY <1>3, ReservedFacts
    <3>3. ASSUME NEW i \in Channels
          PROVE  Len(channels'[i].msg) <= channels'[i].expected_len
      <4>1. CASE channels'[i] = channels[i]
        BY <4>1 DEF TypeOK
      <4>2. CASE channels'[i] = Reserved(id)
        BY <3>1, <3>2, <4>2
      <4>3. QED
        BY <1>6, <4>1, <4>2
    <3>4. QED
      BY <3>3
  <2>2. pc' \in [Transports -> {"frame", "init"}]
        /\ host_cid' \in [Transports -> Cids \cup {NoCid}]
    BY <1>1, <1>3 DEF TypeOK
  <2>3. QED
    BY <1>1, <1>3, <1>5, <1>6, <2>1, <2>2 DEF TypeOK
<1>9. QED
  BY <1>1, <1>3, <1>5, <1>6, <1>7, <1>8 DEF InitEffect

\* What the step leaves alone when only frames move.
Quiet ==
  /\ \A u \in Transports : Stream(u)' = Stream(u)
  /\ UNCHANGED <<driverVars, host_cid, source, outcome, dispatched>>

LEMMA StepEffects ==
  ASSUME TypeOK, IdInv, WriteInv, TableInv, [Next]_vars
  PROVE  /\ TypeOK'
         /\ \/ Quiet /\ (Written \/ UNCHANGED writing)
            \/ \E t \in Transports :
                 \/ FrameEffect(t)
                 \/ \E id \in Cids : InitEffect(t, id)
                 \/ \E w \in Seq(Frame) : SendEffect(t, w)
                 \/ \E k \in Nat, d \in Nat, r \in {"lost", "refused"} :
                      CutEffect(t, k, d, r)
<1>1. CASE UNCHANGED vars
  <2>1. TypeOK'
    BY <1>1 DEF TypeOK, vars, driverVars, hostVars
  <2>2. Quiet /\ UNCHANGED writing
    BY <1>1 DEF Quiet, vars, driverVars, hostVars, Stream
  <2>3. QED
    BY <2>1, <2>2
<1>2. ASSUME NEW t \in Transports, Worker(t)
      PROVE  TypeOK' /\ (FrameEffect(t) \/ \E id \in Cids : InitEffect(t, id))
  <2>1. CASE TooLong(t)
    BY <2>1, TooLongEffect, FrameType
  <2>2. CASE FirstFrame(t)
    BY <2>2, FirstFrameEffect, FrameType
  <2>3. CASE UnknownChannel(t)
    BY <2>3, UnknownEffect, FrameType
  <2>4. CASE OutOfSequence(t)
    BY <2>4, OutOfSequenceEffect, FrameType
  <2>5. CASE Continuation(t)
    BY <2>5, ContinuationEffect, FrameType
  <2>6. CASE DispatchInit(t)
    BY <2>6, DispatchInitStep
  <2>7. QED
    BY <1>2, <2>1, <2>2, <2>3, <2>4, <2>5, <2>6 DEF Worker
<1>3. ASSUME NEW t \in Transports, Host(t)
      PROVE  /\ TypeOK'
             /\ \/ Quiet /\ Written
                \/ \E w \in Seq(Frame) : SendEffect(t, w)
                \/ \E k \in Nat, d \in Nat, r \in {"lost", "refused"} :
                     CutEffect(t, k, d, r)
  <2>1. CASE \E cmd \in Cmds, len \in Lens \cup {1} : Send(t, cmd, len)
    BY <2>1, SendStep
  <2>2. CASE Write(t)
    BY <2>2, WriteStep DEF WriteEffect, Quiet
  <2>3. CASE WriteLost(t)
    BY <2>3, WriteLostStep
  <2>4. CASE WriteBusy(t)
    BY <2>4, WriteBusyStep
  <2>5. QED
    BY <1>3, <2>1, <2>2, <2>3, <2>4 DEF Host
<1>4. QED
  BY <1>1, <1>2, <1>3 DEF Next

\* The rest of the invariant says nothing that a quiet step could change.
LEMMA QuietStep ==
  ASSUME Quiet, FramesInv, LinkInv, OwnCidInv, OutcomeInv, TableInv, HeldInv,
         NextInv, HeardInv, DispatchedWhole
  PROVE  /\ FramesInv' /\ LinkInv' /\ OwnCidInv' /\ OutcomeInv' /\ TableInv'
         /\ HeldInv' /\ NextInv' /\ HeardInv' /\ DispatchedWhole'
<1>1. /\ \A u \in Transports : Stream(u)' = Stream(u)
      /\ UNCHANGED <<channels, next_cid, wrapped, host_cid, source, outcome,
                     dispatched>>
  BY DEF Quiet, driverVars
<1> HIDE DEF Quiet
<1>2. FramesInv'
  BY <1>1 DEF FramesInv, FrameOf
<1>3. LinkInv'
  BY <1>1 DEF LinkInv
<1>4. OwnCidInv'
  BY <1>1 DEF OwnCidInv
<1>5. OutcomeInv'
  BY <1>1 DEF OutcomeInv
<1>6. TableInv'
  BY <1>1 DEF TableInv
<1>7. HeldInv'
  BY <1>1 DEF HeldInv, ChunkOf
<1>8. NextInv'
  BY <1>1 DEF NextInv, Finds
<1>9. HeardInv'
  BY <1>1 DEF HeardInv
<1>10. DispatchedWhole'
  BY <1>1 DEF DispatchedWhole
<1>11. QED
  BY <1>2, <1>3, <1>4, <1>5, <1>6, <1>7, <1>8, <1>9, <1>10

LEMMA WriteInvStep ==
  ASSUME TypeOK, WriteInv,
         \/ Written \/ UNCHANGED writing
         \/ \E t \in Transports : \E w \in Seq(Frame) : SendEffect(t, w)
  PROVE  WriteInv'
<1>1. \A u \in Transports : writing[u] \in Seq(Frame)
  BY DEF TypeOK
<1>2. ASSUME NEW u \in Transports, writing'[u] \in {<<>>, writing[u]}
      PROVE  \A n \in DOMAIN writing'[u] :
               writing'[u][n].chunk.msg = writing'[u][1].chunk.msg
  BY <1>2 DEF WriteInv
<1>3. ASSUME NEW u \in Transports, writing[u] # <<>>,
             writing'[u] = Tail(writing[u])
      PROVE  \A n \in DOMAIN writing'[u] :
               writing'[u][n].chunk.msg = writing'[u][1].chunk.msg
  <2> DEFINE a == writing[u]
  <2>1. a \in Seq(Frame) /\ a # <<>>
        /\ \A n \in 1..Len(a) : a[n].chunk.msg = a[1].chunk.msg
    BY <1>1, <1>3 DEF WriteInv
  <2> HIDE DEF a
  <2>2. /\ Len(a) \in Nat \ {0} /\ DOMAIN Tail(a) = 1..(Len(a) - 1)
        /\ \A n \in 1..(Len(a) - 1) : Tail(a)[n] = a[n + 1]
    BY <2>1
  <2>3. ASSUME NEW n \in DOMAIN Tail(a)
        PROVE  Tail(a)[n].chunk.msg = Tail(a)[1].chunk.msg
    <3>1. n \in 1..(Len(a) - 1) /\ 1 \in 1..(Len(a) - 1)
          /\ n + 1 \in 1..Len(a) /\ 1 + 1 \in 1..Len(a)
      BY <2>2, <2>3
    <3>2. Tail(a)[n] = a[n + 1] /\ Tail(a)[1] = a[1 + 1]
      BY <2>2, <3>1
    <3>3. QED
      BY <2>1, <3>1, <3>2
  <2>4. QED
    BY <1>3, <2>3 DEF a
<1>4. CASE Written
  BY <1>2, <1>3, <1>4 DEF Written, WriteInv
<1>5. CASE UNCHANGED writing
  BY <1>5 DEF WriteInv
<1>6. ASSUME NEW t \in Transports, NEW w \in Seq(Frame), SendEffect(t, w)
      PROVE  WriteInv'
  <2>1. /\ \A n \in DOMAIN w : w[n].chunk.msg = w[1].chunk.msg
        /\ writing' = [writing EXCEPT ![t] = w]
    BY <1>6 DEF SendEffect, MessageOf
  <2>2. QED
    BY <2>1 DEF WriteInv, TypeOK
<1>7. QED
  BY <1>4, <1>5, <1>6

LEMMA IdStep ==
  ASSUME TypeOK, IdInv,
         \/ UNCHANGED <<next_cid, wrapped, host_cid>>
         \/ \E t \in Transports, id \in Cids : InitEffect(t, id)
  PROVE  IdInv'
<1>1. CASE UNCHANGED <<next_cid, wrapped, host_cid>>
  BY <1>1 DEF IdInv
<1>2. ASSUME NEW t \in Transports, NEW id \in Cids, InitEffect(t, id)
      PROVE  IdInv'
  <2>1. /\ id \notin {0, Broadcast} /\ next_cid' # 0
        /\ wrapped => wrapped'
        /\ ~wrapped' => id = next_cid /\ next_cid' = next_cid + 1
        /\ host_cid'[t] = id
        /\ \A u \in Transports \ {t} : host_cid'[u] = host_cid[u]
    BY <1>2 DEF InitEffect, TypeOK
  <2>2. next_cid \in Nat /\ NoCid \in Nat
        /\ \A u \in Transports : host_cid[u] \in Nat
    BY FrameFacts DEF TypeOK
  <2>3. ASSUME ~wrapped'
        PROVE  /\ \A u \in Transports :
                    host_cid'[u] = NoCid \/ host_cid'[u] < next_cid'
               /\ \A u, v \in Transports :
                    u # v /\ host_cid'[u] = host_cid'[v] =>
                      host_cid'[u] = NoCid
    <3>1. \A u \in Transports : host_cid[u] = NoCid \/ host_cid[u] < id
      BY <2>1, <2>3 DEF IdInv
    <3>2. \A u, v \in Transports :
            u # v /\ host_cid[u] = host_cid[v] => host_cid[u] = NoCid
      BY <2>1, <2>3 DEF IdInv
    <3>3. id \in Nat /\ next_cid' = id + 1
      BY <2>1, <2>2, <2>3
    <3>4. \A u \in Transports : host_cid'[u] = NoCid \/ host_cid'[u] < id + 1
      BY <2>1, <2>2, <3>1, <3>3
    <3>5. ASSUME NEW u \in Transports, NEW v \in Transports, u # v,
                 host_cid'[u] = host_cid'[v]
          PROVE  host_cid'[u] = NoCid
      <4>1. CASE u = t
        BY <2>1, <2>2, <3>1, <3>3, <3>5, <4>1
      <4>2. CASE v = t
        BY <2>1, <2>2, <3>1, <3>3, <3>5, <4>2
      <4>3. CASE u # t /\ v # t
        BY <2>1, <3>2, <3>5, <4>3
      <4>4. QED
        BY <4>1, <4>2, <4>3
    <3>6. QED
      BY <3>3, <3>4, <3>5
  <2>4. \A u \in Transports : host_cid'[u] \notin {0, Broadcast}
    BY <2>1 DEF IdInv
  <2>5. QED
    BY <2>1, <2>3, <2>4 DEF IdInv
<1>3. QED
  BY <1>1, <1>2

-----------------------------------------------------------------------------
(* Frames and their ids.                                                    *)

LEMMA StreamType ==
  ASSUME TypeOK
  PROVE  \A t \in Transports :
           /\ Stream(t) \in Seq(Frame) /\ Len(Stream(t)) \in Nat
           /\ DOMAIN Stream(t) = 1..Len(Stream(t))
           /\ \A n \in DOMAIN Stream(t) : Stream(t)[n] \in Frame
<1>1. ASSUME NEW t \in Transports
      PROVE  Stream(t) \in Seq(Frame)
  <2>1. rx_packets[t] \in Seq(Frame) /\ writing[t] \in Seq(Frame)
    BY DEF TypeOK
  <2>2. QED
    BY <2>1, StreamFacts DEF Stream
<1>2. QED
  BY <1>1

\* What is left of a stream keeps its order.
LEMMA CutFacts ==
  ASSUME NEW s \in Seq(Frame), NEW k, NEW d, NEW r, Cut(s, k, d, r)
  PROVE  /\ r \in Seq(Frame) /\ DOMAIN r = 1..Len(r) /\ Len(r) \in Nat
         /\ \A n \in DOMAIN r : \E j \in DOMAIN s : r[n] = s[j]
         /\ Ordered(s) => Ordered(r)
<1> DEFINE at(n) == IF n < k THEN n ELSE n + d
<1>1. /\ r \in Seq(Frame) /\ k \in Nat \ {0} /\ d \in Nat
      /\ Len(s) = Len(r) + d /\ Len(r) \in Nat
      /\ DOMAIN r = 1..Len(r) /\ DOMAIN s = 1..Len(s)
      /\ \A n \in 1..Len(r) : r[n] = IF n < k THEN s[n] ELSE s[n + d]
  BY DEF Cut
<1>2. \A n \in DOMAIN r : at(n) \in DOMAIN s /\ r[n] = s[at(n)]
  BY <1>1
<1>3. \A n, m \in DOMAIN r : n < m => at(n) < at(m)
  BY <1>1
<1> HIDE DEF at
<1>4. Ordered(s) => Ordered(r)
  BY <1>2, <1>3 DEF Ordered
<1>5. QED
  BY <1>1, <1>2, <1>4

LEMMA CutAll ==
  ASSUME TypeOK, NEW t \in Transports,
         \/ FrameEffect(t)
         \/ \E k \in Nat, d \in Nat, r \in {"lost", "refused"} :
              CutEffect(t, k, d, r)
  PROVE  /\ \A u \in Transports : \E k, d : Cut(Stream(u), k, d, Stream(u)')
         /\ UNCHANGED <<next_cid, wrapped, host_cid, source>>
<1>1. ASSUME NEW s \in Seq(Frame) PROVE Cut(s, 1, 0, s)
  BY DEF Cut
<1>2. ASSUME NEW s \in Seq(Frame), NEW r, Shorter(s, r) PROVE Cut(s, 1, 1, r)
  BY <1>2 DEF Cut, Shorter
<1>3. CASE FrameEffect(t)
  BY <1>1, <1>2, <1>3, StreamType DEF FrameEffect, Takes, hostVars
<1>4. ASSUME NEW k \in Nat, NEW d \in Nat, NEW r, CutEffect(t, k, d, r)
      PROVE  /\ \A u \in Transports : \E j, e : Cut(Stream(u), j, e, Stream(u)')
             /\ UNCHANGED <<next_cid, wrapped, host_cid, source>>
  BY <1>1, <1>4, StreamType DEF CutEffect, driverVars
<1>5. QED
  BY <1>3, <1>4

\* A message gets the next number.
LEMMA SourceFacts ==
  ASSUME TypeOK, NEW t \in Transports, NEW w, SendEffect(t, w)
  PROVE  LET m == Len(source) + 1
         IN  /\ m \in Msgs \ DOMAIN source /\ DOMAIN source' = DOMAIN source \cup {m}
             /\ source'[m] = t /\ \A k \in DOMAIN source : source'[k] = source[k]
             /\ \A k \in DOMAIN source : k < m /\ k \in Msgs
             /\ \A n \in DOMAIN w :
                  /\ w[n] \in Frame
                  /\ w[n].chunk.msg = m /\ w[n].chunk.idx = n
                  /\ w[n].chunk.len = Len(w) /\ w[n].cid = w[1].cid
             /\ w \in Seq(Frame) /\ DOMAIN w = 1..Len(w) /\ Len(w) \in Nat \ {0}
             /\ \/ w[1].cid = Broadcast /\ Len(w) = 1
                \/ w[1].cid = host_cid[t] /\ host_cid[t] # NoCid
<1>1. source \in Seq(Transports) /\ source' = Append(source, t)
      /\ Len(source) <= MaxMsgs /\ MaxMsgs \in Nat
  BY HidFramingAssumption DEF TypeOK, SendEffect
<1>2. /\ DOMAIN source = 1..Len(source) /\ DOMAIN source' = 1..(Len(source) + 1)
      /\ source'[Len(source) + 1] = t /\ Len(source) \in Nat
      /\ \A k \in 1..Len(source) : source'[k] = source[k]
  BY <1>1
<1>3. MessageOf(w, Len(source) + 1) /\ Len(source) + 1 \in Msgs
      /\ \/ w[1].cid = Broadcast /\ Len(w) = 1
         \/ w[1].cid = host_cid[t] /\ host_cid[t] # NoCid
  BY DEF SendEffect
<1>4. w \in Seq(Frame) /\ DOMAIN w = 1..Len(w) /\ Len(w) \in Nat \ {0}
  BY <1>3 DEF MessageOf
<1>5. \A k \in DOMAIN source : k < Len(source) + 1 /\ k \in Msgs
  BY <1>1, <1>2 DEF Msgs
<1>6. DOMAIN source' = DOMAIN source \cup {Len(source) + 1}
      /\ Len(source) + 1 \notin DOMAIN source
  BY <1>2
<1>7. QED
  BY <1>2, <1>3, <1>4, <1>5, <1>6 DEF MessageOf

LEMMA FramesStep ==
  ASSUME TypeOK, IdInv, FramesInv, NEW t \in Transports,
         \/ /\ \A u \in Transports : \E k, d : Cut(Stream(u), k, d, Stream(u)')
            /\ UNCHANGED <<next_cid, wrapped, host_cid, source>>
         \/ \E id \in Cids : InitEffect(t, id)
         \/ \E w \in Seq(Frame) : SendEffect(t, w)
  PROVE  FramesInv'
<1>1. \A u \in Transports :
        /\ Stream(u) \in Seq(Frame) /\ Len(Stream(u)) \in Nat
        /\ DOMAIN Stream(u) = 1..Len(Stream(u))
        /\ \A n \in DOMAIN Stream(u) : Stream(u)[n] \in Frame
  BY StreamType
<1>2. CASE /\ \A u \in Transports :
                \E k, d : Cut(Stream(u), k, d, Stream(u)')
           /\ UNCHANGED <<next_cid, wrapped, host_cid, source>>
  <2>1. ASSUME NEW u \in Transports, NEW f, FrameOf(u, f)
        PROVE  FrameOf(u, f)'
    BY <1>2, <2>1 DEF FrameOf
  <2>2. ASSUME NEW u \in Transports
        PROVE  /\ Ordered(Stream(u)')
               /\ \A n \in DOMAIN Stream(u)' :
                    \E j \in DOMAIN Stream(u) : Stream(u)'[n] = Stream(u)[j]
    <3>1. PICK k, d : Cut(Stream(u), k, d, Stream(u)')
      BY <1>2
    <3>2. QED
      BY <1>1, <3>1, CutFacts DEF FramesInv
  <2>3. ASSUME NEW u \in Transports, NEW n \in DOMAIN Stream(u)'
        PROVE  FrameOf(u, Stream(u)[n])'
    <3>1. PICK j \in DOMAIN Stream(u) : Stream(u)'[n] = Stream(u)[j]
      BY <2>2
    <3>2. FrameOf(u, Stream(u)[j])
      BY DEF FramesInv
    <3>3. QED
      BY <1>2, <3>1, <3>2 DEF FrameOf
  <2>4. QED
    BY <2>2, <2>3 DEF FramesInv
<1>3. ASSUME NEW id \in Cids, InitEffect(t, id) PROVE FramesInv'
  <2>1. /\ \A u \in Transports : Stream(u)' = Stream(u)
        /\ source' = source
        /\ wrapped => wrapped'
        /\ ~wrapped' => next_cid' = next_cid + 1
    BY <1>3 DEF InitEffect
  <2>2. next_cid \in Nat
    BY FrameFacts DEF TypeOK
  <2>3. ASSUME NEW u \in Transports, NEW n \in DOMAIN Stream(u)
        PROVE  FrameOf(u, Stream(u)[n])'
    <3>1. FrameOf(u, Stream(u)[n]) /\ Stream(u)[n].cid \in Nat
      BY <1>1, FrameFacts DEF FramesInv
    <3>2. ASSUME ~wrapped'
          PROVE  Stream(u)[n].cid = Broadcast \/ Stream(u)[n].cid < next_cid'
      BY <2>1, <2>2, <3>1, <3>2 DEF FrameOf
    <3>3. QED
      BY <2>1, <3>1, <3>2 DEF FrameOf
  <2>4. QED
    BY <2>1, <2>3 DEF FramesInv
<1>4. ASSUME NEW w \in Seq(Frame), SendEffect(t, w) PROVE FramesInv'
  <2> DEFINE m == Len(source) + 1
             s == Stream(t)
  <2>0. PICK r : r = Stream(t)'
    OBVIOUS
  <2>1. /\ m \in Msgs \ DOMAIN source /\ DOMAIN source' = DOMAIN source \cup {m}
        /\ source'[m] = t /\ \A k \in DOMAIN source : source'[k] = source[k]
        /\ \A k \in DOMAIN source : k < m /\ k \in Msgs
        /\ \A n \in DOMAIN w :
             /\ w[n] \in Frame
             /\ w[n].chunk.msg = m /\ w[n].chunk.idx = n
             /\ w[n].chunk.len = Len(w) /\ w[n].cid = w[1].cid
        /\ w \in Seq(Frame) /\ DOMAIN w = 1..Len(w) /\ Len(w) \in Nat \ {0}
        /\ \/ w[1].cid = Broadcast /\ Len(w) = 1
           \/ w[1].cid = host_cid[t] /\ host_cid[t] # NoCid
    BY <1>4, SourceFacts
  <2> HIDE DEF m
  <2>2. /\ Behind(s, w, r) /\ \A u \in Transports \ {t} : Stream(u)' = Stream(u)
        /\ UNCHANGED <<next_cid, wrapped>>
    BY <1>4, <2>0 DEF SendEffect, driverVars
  <2>3. ASSUME NEW u \in Transports, NEW f, FrameOf(u, f)
        PROVE  FrameOf(u, f)'
    BY <2>1, <2>2, <2>3 DEF FrameOf
  <2>4. ASSUME NEW n \in DOMAIN w PROVE FrameOf(t, w[n])'
    <3>1. w[n].chunk.msg \in DOMAIN source' /\ source'[w[n].chunk.msg] = t
          /\ w[n].chunk.idx <= w[n].chunk.len
      BY <2>1
    <3>2. w[n].cid = Broadcast => w[n].chunk.len = 1
      BY <2>1 DEF IdInv
    <3>3. ~wrapped => w[n].cid = Broadcast \/ w[n].cid < next_cid
      BY <2>1 DEF IdInv
    <3>4. QED
      BY <2>2, <3>1, <3>2, <3>3 DEF FrameOf
  <2>5. /\ r \in Seq(Frame) /\ Len(r) = Len(s) + Len(w) /\ DOMAIN r = 1..Len(r)
        /\ \A n \in 1..Len(r) : r[n] = IF n <= Len(s) THEN s[n] ELSE w[n - Len(s)]
    BY <2>2 DEF Behind
  <2>6. /\ s \in Seq(Frame) /\ Len(s) \in Nat /\ DOMAIN s = 1..Len(s)
        /\ \A n \in DOMAIN s : s[n] \in Frame /\ FrameOf(t, s[n])
        /\ Ordered(s)
    BY <1>1 DEF FramesInv
  <2> HIDE DEF s
  <2>7. \A n \in DOMAIN r :
          \/ n \in DOMAIN s /\ n <= Len(s) /\ r[n] = s[n]
          \/ n > Len(s) /\ n - Len(s) \in DOMAIN w /\ r[n] = w[n - Len(s)]
    BY <2>1, <2>5, <2>6
  <2>8. \A n \in DOMAIN r : FrameOf(t, r[n])'
    BY <2>3, <2>4, <2>6, <2>7
  <2>9. \A n \in DOMAIN s : s[n].chunk.msg < m
    BY <2>1, <2>6 DEF FrameOf
  <2>10. Ordered(r)
    <3>1. ASSUME NEW n \in DOMAIN r, NEW j \in DOMAIN r
          PROVE  /\ n < j => Before(r[n].chunk, r[j].chunk)
                 /\ r[n].chunk.msg = r[j].chunk.msg =>
                      r[n].cid = r[j].cid /\ r[n].chunk.len = r[j].chunk.len
      <4>0. n \in Nat /\ j \in Nat /\ m \in Nat
        BY <2>1, <2>5, <2>6, FrameFacts
      <4>1. CASE n <= Len(s) /\ j <= Len(s)
        BY <2>6, <2>7, <4>0, <4>1 DEF Ordered
      <4>2. CASE n <= Len(s) /\ j > Len(s)
        <5>1. r[n] = s[n] /\ n \in DOMAIN s /\ r[j] = w[j - Len(s)]
              /\ j - Len(s) \in DOMAIN w
          BY <2>6, <2>7, <4>0, <4>2
        <5>2. r[n].chunk.msg < m /\ r[j].chunk.msg = m
          BY <2>1, <2>9, <5>1
        <5>3. r[n].chunk.msg \in Nat
          BY <2>6, <5>1, FrameFacts
        <5>4. QED
          BY <4>0, <5>2, <5>3 DEF Before
      <4>3. CASE n > Len(s) /\ j <= Len(s)
        <5>1. r[j] = s[j] /\ j \in DOMAIN s /\ r[n] = w[n - Len(s)]
              /\ n - Len(s) \in DOMAIN w
          BY <2>6, <2>7, <4>0, <4>3
        <5>2. r[j].chunk.msg < m /\ r[n].chunk.msg = m
          BY <2>1, <2>9, <5>1
        <5>3. r[j].chunk.msg \in Nat
          BY <2>6, <5>1, FrameFacts
        <5>4. ~(n < j)
          BY <2>6, <4>0, <4>3
        <5>5. QED
          BY <4>0, <5>2, <5>3, <5>4
      <4>4. CASE n > Len(s) /\ j > Len(s)
        <5>1. /\ r[j] = w[j - Len(s)] /\ r[n] = w[n - Len(s)]
              /\ n - Len(s) \in DOMAIN w /\ j - Len(s) \in DOMAIN w
          BY <2>6, <2>7, <4>0, <4>4
        <5>2. /\ r[j].chunk.msg = m /\ r[n].chunk.msg = m
              /\ r[j].chunk.idx = j - Len(s) /\ r[n].chunk.idx = n - Len(s)
              /\ r[n].cid = r[j].cid /\ r[n].chunk.len = r[j].chunk.len
          BY <2>1, <5>1
        <5>3. n < j => n - Len(s) < j - Len(s)
          BY <2>6, <4>0
        <5>4. QED
          BY <5>2, <5>3 DEF Before
      <4>5. QED
        BY <2>6, <4>0, <4>1, <4>2, <4>3, <4>4
    <3>2. QED
      BY <3>1 DEF Ordered
  <2>11. ASSUME NEW u \in Transports \ {t}
         PROVE  /\ \A n \in DOMAIN Stream(u)' : FrameOf(u, Stream(u)[n])'
                /\ Ordered(Stream(u)')
    BY <2>2, <2>3 DEF FramesInv
  <2>12. QED
    BY <2>0, <2>8, <2>10, <2>11 DEF FramesInv
<1>5. QED
  BY <1>2, <1>3, <1>4

\* The stream of a host that starts a message.
LEMMA BehindFacts ==
  ASSUME TypeOK, NEW t \in Transports, NEW w \in Seq(Frame), SendEffect(t, w)
  PROVE  /\ Len(Stream(t)') = Len(Stream(t)) + Len(w)
         /\ DOMAIN Stream(t)' = 1..Len(Stream(t)')
         /\ \A n \in DOMAIN Stream(t) : /\ n \in DOMAIN Stream(t)'
                                        /\ Stream(t)'[n] = Stream(t)[n]
         /\ \A n \in DOMAIN w : /\ Len(Stream(t)) + n \in DOMAIN Stream(t)'
                                /\ Stream(t)'[Len(Stream(t)) + n] = w[n]
         /\ \A n \in DOMAIN Stream(t)' :
              \/ n \in DOMAIN Stream(t) /\ Stream(t)'[n] = Stream(t)[n]
              \/ /\ n > Len(Stream(t)) /\ n - Len(Stream(t)) \in DOMAIN w
                 /\ Stream(t)'[n] = w[n - Len(Stream(t))]
<1>1. Behind(Stream(t), w, Stream(t)')
  BY DEF SendEffect
<1>2. Stream(t) \in Seq(Frame) /\ Len(Stream(t)) \in Nat
      /\ DOMAIN Stream(t) = 1..Len(Stream(t))
      /\ DOMAIN w = 1..Len(w) /\ Len(w) \in Nat
  BY StreamType
<1> DEFINE s == Stream(t)
<1>3. PICK r : r = Stream(t)'
  OBVIOUS
<1>4. /\ Len(r) = Len(s) + Len(w) /\ DOMAIN r = 1..Len(r)
      /\ \A n \in 1..Len(r) : r[n] = IF n <= Len(s) THEN s[n] ELSE w[n - Len(s)]
  BY <1>1, <1>3 DEF Behind
<1> HIDE DEF s
<1>5. \A n \in DOMAIN s : n \in DOMAIN r /\ r[n] = s[n]
  BY <1>2, <1>4 DEF s
<1>6. ASSUME NEW n \in DOMAIN w
      PROVE  Len(s) + n \in DOMAIN r /\ r[Len(s) + n] = w[n]
  <2>1. /\ Len(s) + n \in DOMAIN r /\ ~(Len(s) + n <= Len(s))
        /\ (Len(s) + n) - Len(s) = n
    BY <1>2, <1>4 DEF s
  <2>2. QED
    BY <1>4, <2>1
<1>7. \A n \in DOMAIN r :
        \/ n \in DOMAIN s /\ r[n] = s[n]
        \/ n > Len(s) /\ n - Len(s) \in DOMAIN w /\ r[n] = w[n - Len(s)]
  BY <1>2, <1>4 DEF s
<1>8. QED
  BY <1>3, <1>4, <1>5, <1>6, <1>7 DEF s

LEMMA OwnCidStep ==
  ASSUME TypeOK, IdInv, FramesInv, OwnCidInv, NEW t \in Transports,
         \/ /\ \A u \in Transports : \E k, d : Cut(Stream(u), k, d, Stream(u)')
            /\ UNCHANGED <<next_cid, wrapped, host_cid, source>>
         \/ \E id \in Cids : InitEffect(t, id)
         \/ \E w \in Seq(Frame) : SendEffect(t, w)
  PROVE  OwnCidInv'
<1>1. \A u \in Transports :
        /\ Stream(u) \in Seq(Frame)
        /\ \A n \in DOMAIN Stream(u) : Stream(u)[n].cid \in Nat
  BY StreamType, FrameFacts
<1>2. ASSUME \A u \in Transports : \E k, d : Cut(Stream(u), k, d, Stream(u)'),
             UNCHANGED <<next_cid, wrapped, host_cid, source>>
      PROVE  OwnCidInv'
  <2>1. ASSUME NEW u \in Transports
        PROVE  \A n \in DOMAIN Stream(u)' :
                 \E j \in DOMAIN Stream(u) : Stream(u)'[n] = Stream(u)[j]
    <3>1. PICK k, d : Cut(Stream(u), k, d, Stream(u)')
      BY <1>2
    <3>2. QED
      BY <1>1, <3>1, CutFacts
  <2>2. QED
    BY <1>2, <2>1 DEF OwnCidInv
<1>3. ASSUME NEW id \in Cids, InitEffect(t, id) PROVE OwnCidInv'
  <2>1. /\ \A u \in Transports : Stream(u)' = Stream(u)
        /\ wrapped => wrapped'
        /\ ~wrapped' => id = next_cid /\ id # Broadcast
        /\ host_cid'[t] = id
        /\ \A u \in Transports \ {t} : host_cid'[u] = host_cid[u]
    BY <1>3 DEF InitEffect, TypeOK
  <2>2. ASSUME ~wrapped', NEW u \in Transports, NEW v \in Transports, u # v,
               NEW n \in DOMAIN Stream(u)
        PROVE  Stream(u)[n].cid # host_cid'[v]
    <3>1. CASE v # t
      BY <2>1, <2>2, <3>1 DEF OwnCidInv
    <3>2. CASE v = t
      <4>1. host_cid'[v] = next_cid /\ next_cid # Broadcast /\ next_cid \in Nat
        BY <2>1, <2>2, <3>2, FrameFacts DEF TypeOK
      <4>2. Stream(u)[n].cid = Broadcast \/ Stream(u)[n].cid < next_cid
        BY <2>1, <2>2 DEF FramesInv, FrameOf
      <4>3. QED
        BY <2>2, <4>1, <4>2
    <3>3. QED
      BY <3>1, <3>2
  <2>3. QED
    BY <2>1, <2>2 DEF OwnCidInv
<1>4. ASSUME NEW w \in Seq(Frame), SendEffect(t, w) PROVE OwnCidInv'
  <2>1. /\ \A u \in Transports \ {t} : Stream(u)' = Stream(u)
        /\ UNCHANGED <<wrapped, host_cid, next_cid>>
    BY <1>4 DEF SendEffect, driverVars
  <2>2. \A n \in DOMAIN w : \/ w[n].cid = Broadcast
                            \/ w[n].cid = host_cid[t] /\ host_cid[t] # NoCid
    BY <1>4, SourceFacts
  <2>3. \A n \in DOMAIN Stream(t)' :
          \/ \E j \in DOMAIN Stream(t) : Stream(t)'[n] = Stream(t)[j]
          \/ Stream(t)'[n].cid = Broadcast
          \/ Stream(t)'[n].cid = host_cid[t] /\ host_cid[t] # NoCid
    BY <1>4, <2>2, BehindFacts
  <2>4. ASSUME ~wrapped PROVE
          \A u \in Transports \ {t} :
            /\ host_cid[t] # NoCid => host_cid[t] # host_cid[u]
            /\ host_cid[u] # Broadcast
            /\ \A k \in DOMAIN Stream(u) : Stream(u)[k].cid # host_cid[t]
    BY <2>4 DEF IdInv, OwnCidInv
  <2>5. QED
    <3>1. SUFFICES ASSUME ~wrapped, NEW u \in Transports, NEW v \in Transports,
                          u # v, NEW n \in DOMAIN Stream(u)'
                   PROVE  /\ Stream(u)'[n].cid # host_cid[v]
                          /\ \A k \in DOMAIN Stream(v)' :
                               Stream(u)'[n].cid = Stream(v)'[k].cid =>
                                 Stream(u)'[n].cid = Broadcast
      BY <2>1 DEF OwnCidInv
    <3>2. CASE u = t
      BY <2>1, <2>3, <2>4, <3>1, <3>2 DEF OwnCidInv
    <3>3. CASE v = t
      BY <2>1, <2>3, <2>4, <3>1, <3>3 DEF OwnCidInv
    <3>4. CASE u # t /\ v # t
      BY <2>1, <3>1, <3>4 DEF OwnCidInv
    <3>5. QED
      BY <3>2, <3>3, <3>4
<1>5. QED
  BY <1>2, <1>3, <1>4

-----------------------------------------------------------------------------
(* A host starts a message.                                                 *)

LEMMA SendLinks ==
  ASSUME TypeOK, FramesInv, OutcomeInv, LinkInv, NEW t \in Transports,
         NEW w \in Seq(Frame), SendEffect(t, w)
  PROVE  LinkInv'
<1> DEFINE s == Stream(t)
           m == Len(source) + 1
<1>1. PICK r : r = Stream(t)'
  OBVIOUS
<1>2. /\ \A u \in Transports \ {t} : Stream(u)' = Stream(u)
      /\ outcome' = outcome
  BY DEF SendEffect
<1>3. /\ Len(r) = Len(s) + Len(w) /\ DOMAIN r = 1..Len(r)
      /\ \A n \in DOMAIN s : n \in DOMAIN r /\ r[n] = s[n]
      /\ \A n \in DOMAIN w : Len(s) + n \in DOMAIN r /\ r[Len(s) + n] = w[n]
      /\ \A n \in DOMAIN r :
           \/ n \in DOMAIN s /\ r[n] = s[n]
           \/ n > Len(s) /\ n - Len(s) \in DOMAIN w /\ r[n] = w[n - Len(s)]
  BY <1>1, BehindFacts
<1>4. s \in Seq(Frame) /\ Len(s) \in Nat /\ DOMAIN s = 1..Len(s)
      /\ \A n \in DOMAIN s : s[n] \in Frame
  BY StreamType
<1>5. /\ m \in Msgs \ DOMAIN source
      /\ \A n \in DOMAIN w :
           /\ w[n].chunk.msg = m /\ w[n].chunk.idx = n
           /\ w[n].chunk.len = Len(w)
      /\ DOMAIN w = 1..Len(w) /\ Len(w) \in Nat \ {0}
  BY SourceFacts
<1>6. outcome[m] = "none"
  BY <1>5 DEF OutcomeInv
<1>7. Linked(s, outcome) /\ Answered(s, outcome) /\ LongSettled(s, outcome)
  BY DEF LinkInv
<1> HIDE DEF s, m
<1>8. Linked(r, outcome)
  <2>1. ASSUME NEW n \in DOMAIN r
        PROVE  /\ n > 1 /\ r[n].chunk.idx > 1 /\ Sound(outcome, r[n].chunk.msg)
                    => r[n - 1].chunk.msg = r[n].chunk.msg
               /\ /\ outcome[r[n].chunk.msg] = "none"
                  /\ r[n].chunk.idx < r[n].chunk.len
                  => n < Len(r) /\ r[n + 1].chunk.msg = r[n].chunk.msg
    <3>1. CASE n \in DOMAIN s /\ r[n] = s[n]
      <4>1. n > 1 => n - 1 \in DOMAIN s
        BY <1>4, <3>1
      <4>2. n < Len(s) => n + 1 \in DOMAIN s /\ n < Len(r)
        BY <1>3, <1>4, <1>5, <3>1
      <4>3. QED
        BY <1>3, <1>7, <3>1, <4>1, <4>2 DEF Linked
    <3>2. CASE n > Len(s) /\ n - Len(s) \in DOMAIN w /\ r[n] = w[n - Len(s)]
      <4>1. r[n].chunk.msg = m /\ r[n].chunk.idx = n - Len(s)
            /\ r[n].chunk.len = Len(w) /\ n \in Nat
        BY <1>3, <1>4, <1>5, <3>2
      <4>2. ASSUME r[n].chunk.idx > 1 PROVE r[n - 1].chunk.msg = m
        <5>1. n - Len(s) - 1 \in DOMAIN w /\ Len(s) + (n - Len(s) - 1) = n - 1
          BY <1>3, <1>4, <1>5, <3>2, <4>1, <4>2
        <5>2. QED
          BY <1>3, <1>5, <5>1
      <4>3. ASSUME r[n].chunk.idx < r[n].chunk.len
            PROVE  n < Len(r) /\ r[n + 1].chunk.msg = m
        <5>1. n - Len(s) + 1 \in DOMAIN w /\ Len(s) + (n - Len(s) + 1) = n + 1
          BY <1>3, <1>4, <1>5, <3>2, <4>1, <4>3
        <5>2. n < Len(r)
          BY <1>3, <1>4, <1>5, <3>2, <4>1, <4>3
        <5>3. QED
          BY <1>3, <1>5, <5>1, <5>2
      <4>4. QED
        BY <4>1, <4>2, <4>3
    <3>3. QED
      BY <1>3, <3>1, <3>2
  <2>2. QED
    BY <2>1 DEF Linked
<1>9. Answered(r, outcome)
  <2>1. ASSUME NEW n \in DOMAIN r, outcome[r[n].chunk.msg] = "error"
        PROVE  r[n].chunk.idx > 1 /\ r[1].chunk.msg = r[n].chunk.msg
    <3>1. n \in DOMAIN s /\ r[n] = s[n]
      BY <1>3, <1>5, <1>6, <2>1
    <3>2. 1 \in DOMAIN s
      BY <1>4, <3>1
    <3>3. QED
      BY <1>3, <1>7, <2>1, <3>1, <3>2 DEF Answered
  <2>2. QED
    BY <2>1 DEF Answered
<1>10. LongSettled(r, outcome)
  <2>1. CASE s = <<>>
    <3>1. Len(s) = 0
      BY <2>1
    <3>2. 1 \in DOMAIN w /\ Len(s) + 1 = 1
      BY <1>5, <3>1
    <3>3. r[1] = w[1]
      BY <1>3, <3>2
    <3>4. r[1].chunk.idx = 1
      BY <1>5, <3>2, <3>3
    <3>5. QED
      BY <3>4 DEF LongSettled
  <2>2. CASE s # <<>>
    <3>1. 1 \in DOMAIN s
      BY <1>4, <2>2
    <3>2. QED
      BY <1>3, <1>7, <2>2, <3>1 DEF LongSettled
  <2>3. QED
    BY <2>1, <2>2
<1>11. QED
  BY <1>1, <1>2, <1>8, <1>9, <1>10 DEF LinkInv

LEMMA SendRest ==
  ASSUME Inv, NEW t \in Transports, NEW w \in Seq(Frame), SendEffect(t, w)
  PROVE  /\ OutcomeInv' /\ TableInv' /\ HeldInv' /\ NextInv' /\ HeardInv'
         /\ DispatchedWhole'
<1> DEFINE m == Len(source) + 1
           s == Stream(t)
<1>1. PICK r : r = Stream(t)'
  OBVIOUS
<1>2. /\ \A u \in Transports \ {t} : Stream(u)' = Stream(u)
      /\ UNCHANGED <<channels, next_cid, wrapped, host_cid, outcome,
                     dispatched>>
  BY DEF SendEffect, driverVars
<1>3. /\ Len(r) = Len(s) + Len(w) /\ DOMAIN r = 1..Len(r)
      /\ \A n \in DOMAIN s : n \in DOMAIN r /\ r[n] = s[n]
      /\ \A n \in DOMAIN w : Len(s) + n \in DOMAIN r /\ r[Len(s) + n] = w[n]
      /\ \A n \in DOMAIN r :
           \/ n \in DOMAIN s /\ r[n] = s[n]
           \/ n > Len(s) /\ n - Len(s) \in DOMAIN w /\ r[n] = w[n - Len(s)]
  BY <1>1, BehindFacts DEF Inv
<1>4. s \in Seq(Frame) /\ Len(s) \in Nat /\ DOMAIN s = 1..Len(s)
      /\ \A n \in DOMAIN s : s[n] \in Frame
  BY StreamType DEF Inv
<1>5. /\ m \in Msgs \ DOMAIN source /\ DOMAIN source' = DOMAIN source \cup {m}
      /\ source'[m] = t /\ \A k \in DOMAIN source : source'[k] = source[k]
      /\ \A k \in DOMAIN source : k < m /\ k \in Msgs
      /\ \A n \in DOMAIN w :
           /\ w[n] \in Frame
           /\ w[n].chunk.msg = m /\ w[n].chunk.idx = n
           /\ w[n].chunk.len = Len(w) /\ w[n].cid = w[1].cid
      /\ w \in Seq(Frame) /\ DOMAIN w = 1..Len(w) /\ Len(w) \in Nat \ {0}
      /\ \/ w[1].cid = Broadcast /\ Len(w) = 1
         \/ w[1].cid = host_cid[t] /\ host_cid[t] # NoCid
  BY SourceFacts DEF Inv
<1> HIDE DEF s, m
<1>6. outcome[m] = "none"
  BY <1>5 DEF Inv, OutcomeInv
<1>7. OutcomeInv'
  <2>1. \A k \in Msgs \ DOMAIN source' : outcome'[k] = "none"
    BY <1>2, <1>5 DEF Inv, OutcomeInv
  <2>2. \A k \in DOMAIN source' : /\ outcome'[k] = "refused" => source'[k] \in User
                                  /\ outcome'[k] = "lost" => source'[k] \in Usb
    BY <1>2, <1>5, <1>6 DEF Inv, OutcomeInv
  <2>3. ASSUME ~wrapped, NEW n \in DOMAIN r
        PROVE  outcome[r[n].chunk.msg] # "dispatched"
    <3>1. \A j \in DOMAIN s : outcome[s[j].chunk.msg] # "dispatched"
      BY <2>3 DEF Inv, OutcomeInv, s
    <3>2. QED
      BY <1>3, <1>5, <1>6, <3>1
  <2>4. QED
    BY <1>1, <1>2, <2>1, <2>2, <2>3 DEF Inv, OutcomeInv
<1>8. TableInv'
  BY <1>2 DEF Inv, TableInv
<1>9. HeldInv'
  <2>1. SUFFICES ASSUME ~wrapped, NEW i \in Channels,
                        NEW p \in DOMAIN channels[i].msg
                 PROVE  ChunkOf(channels[i].msg[p], channels[i].cid)'
    BY <1>2 DEF HeldInv
  <2> DEFINE x == channels[i].msg[p]
             cid == channels[i].cid
  <2>2. /\ ChunkOf(x, cid) /\ x \in Chunk /\ cid # Broadcast
    <3>1. channels[i].msg \in Seq(Chunk) /\ ChannelOK(channels[i])
      BY DEF Inv, TypeOK, TableInv, Channel
    <3>2. x \in Chunk /\ channels[i].msg # <<>>
      BY <2>1, <3>1
    <3>3. QED
      BY <2>1, <3>1, <3>2 DEF Inv, HeldInv, ChannelOK
  <2>3. UNCHANGED <<channels, outcome, host_cid>>
    BY <1>2
  <2> HIDE DEF x, cid
  <2>4. x.msg \in DOMAIN source /\ x.msg \in DOMAIN source'
        /\ source'[x.msg] = source[x.msg] /\ x.msg < m /\ x.msg # m
    BY <1>5, <2>2 DEF ChunkOf
  <2>5. ASSUME NEW u \in Transports, NEW n \in DOMAIN Stream(u)'
        PROVE  LET f == Stream(u)'[n]
               IN  /\ f.cid = cid => source[x.msg] = u
                   /\ source[x.msg] = u => Before(x, f.chunk)
                   /\ f.chunk.msg = x.msg => f.cid = cid /\ f.chunk.len = x.len
    <3>1. CASE u # t
      BY <1>2, <2>2, <2>5, <3>1 DEF ChunkOf
    <3>2. CASE u = t /\ n \in DOMAIN s /\ r[n] = s[n]
      BY <1>1, <2>2, <3>2 DEF ChunkOf, s
    <3>3. ASSUME u = t, NEW j \in DOMAIN w, r[n] = w[j]
          PROVE  LET f == r[n]
                 IN  /\ f.cid = cid => source[x.msg] = u
                     /\ source[x.msg] = u => Before(x, f.chunk)
                     /\ f.chunk.msg = x.msg =>
                          f.cid = cid /\ f.chunk.len = x.len
      <4>1. r[n].chunk.msg = m /\ r[n].cid = w[1].cid
        BY <1>5, <3>3
      <4>2. r[n].cid = cid => source[x.msg] = u
        BY <1>5, <2>2, <3>3, <4>1 DEF ChunkOf
      <4>3. Before(x, r[n].chunk)
        BY <2>4, <4>1 DEF Before
      <4>4. QED
        BY <2>4, <4>1, <4>2, <4>3
    <3>4. QED
      BY <1>1, <1>3, <2>5, <3>1, <3>2, <3>3
  <2>6. ChunkOf(x, cid)'
    BY <1>2, <2>2, <2>4, <2>5 DEF ChunkOf, x, cid
  <2>7. QED
    BY <2>6 DEF x, cid
<1>10. NextInv'
  <2>1. ASSUME NEW u \in Transports, Stream(u)' # <<>>,
               Stream(u)'[1].chunk.idx > 1
        PROVE  Stream(u) # <<>> /\ Stream(u)'[1] = Stream(u)[1]
    <3>1. CASE u # t
      BY <1>2, <2>1, <3>1
    <3>2. CASE u = t
      <4>1. CASE s = <<>>
        <5>1. Len(s) = 0
          BY <4>1
        <5>2. 1 \in DOMAIN w /\ Len(s) + 1 = 1
          BY <1>5, <5>1
        <5>3. r[1] = w[1]
          BY <1>3, <5>2
        <5>4. r[1].chunk.idx = 1
          BY <1>5, <5>2, <5>3
        <5>5. QED
          BY <1>1, <2>1, <3>2, <5>4
      <4>2. CASE s # <<>>
        <5>1. 1 \in DOMAIN s
          BY <1>4, <4>2
        <5>2. QED
          BY <1>1, <1>3, <3>2, <4>2, <5>1 DEF s
      <4>3. QED
        BY <4>1, <4>2
    <3>3. QED
      BY <3>1, <3>2
  <2>2. QED
    BY <1>2, <2>1 DEF Inv, NextInv, Finds
<1>11. HeardInv'
  <2>1. SUFFICES ASSUME ~wrapped, NEW u \in Transports, NEW k \in DOMAIN source',
                        source'[k] = u, outcome[k] = "none"
                 PROVE  \E n \in DOMAIN Stream(u)' : Stream(u)'[n].chunk.msg = k
    BY <1>2 DEF HeardInv
  <2>2. CASE k = m
    <3>1. u = t /\ 1 \in DOMAIN w
      BY <1>5, <2>1, <2>2
    <3>2. QED
      BY <1>1, <1>3, <1>5, <2>2, <3>1
  <2>3. CASE k # m
    <3>1. k \in DOMAIN source /\ source[k] = u
      BY <1>5, <2>1, <2>3
    <3>2. PICK n \in DOMAIN Stream(u) : Stream(u)[n].chunk.msg = k
      BY <2>1, <3>1 DEF Inv, HeardInv
    <3>3. QED
      BY <1>1, <1>2, <1>3, <3>2 DEF s
  <2>4. QED
    BY <2>2, <2>3
<1>12. DispatchedWhole'
  BY <1>2, <1>5 DEF Inv, DispatchedWhole
<1>13. QED
  BY <1>7, <1>8, <1>9, <1>10, <1>11, <1>12

-----------------------------------------------------------------------------
(* INIT gives out an id.                                                    *)

LEMMA InitRest ==
  ASSUME Inv, NEW t \in Transports, NEW id \in Cids, InitEffect(t, id)
  PROVE  /\ LinkInv' /\ OutcomeInv' /\ TableInv' /\ HeldInv' /\ NextInv'
         /\ HeardInv' /\ DispatchedWhole'
<1>1. /\ \A u \in Transports : Stream(u)' = Stream(u)
      /\ UNCHANGED <<source, outcome, dispatched>>
      /\ wrapped => wrapped'
      /\ ~wrapped' => id = next_cid /\ next_cid' = next_cid + 1
      /\ host_cid'[t] = id
      /\ \A u \in Transports \ {t} : host_cid'[u] = host_cid[u]
  BY DEF InitEffect, Inv, TypeOK
<1>2. \A i \in Channels :
        \/ channels'[i] = channels[i]
        \/ /\ channels'[i] = Reserved(id)
           /\ \A j \in Channels \ {i} : channels'[j] = channels[j]
  BY DEF InitEffect
<1>3. /\ Reserved(id).cid = id /\ Reserved(id).msg = <<>> /\ Reserved(id).in_use
      /\ Reserved(id).cmd = "none" /\ Reserved(id).expected_len = 0
  BY ReservedFacts
<1>4. \A i \in Channels : channels'[i].msg # <<>> => channels'[i] = channels[i]
  BY <1>2, <1>3
<1>5. next_cid \in Nat /\ \A i \in Channels : channels[i].cid \in Nat
  BY FrameFacts DEF Inv, TypeOK, Channel
<1>6. LinkInv'
  BY <1>1 DEF Inv, LinkInv
<1>7. OutcomeInv'
  BY <1>1 DEF Inv, OutcomeInv
<1>8. TableInv'
  <2>1. ASSUME NEW i \in Channels PROVE ChannelOK(channels'[i])
    <3>1. CASE channels'[i] = channels[i]
      BY <3>1 DEF Inv, TableInv
    <3>2. CASE channels'[i] = Reserved(id)
      BY <1>3, <3>2 DEF ChannelOK
    <3>3. QED
      BY <1>2, <3>1, <3>2
  <2>2. ASSUME ~wrapped', NEW i \in Channels
        PROVE  channels'[i].cid < next_cid' /\ Joined(channels'[i].msg, outcome')
    <3>1. ~wrapped /\ next_cid' = next_cid + 1 /\ id = next_cid
      BY <1>1, <2>2
    <3>2. CASE channels'[i] = channels[i]
      <4>1. channels[i].cid < next_cid /\ Joined(channels[i].msg, outcome)
        BY <3>1 DEF Inv, TableInv
      <4>2. QED
        BY <1>1, <1>5, <3>1, <3>2, <4>1
    <3>3. CASE channels'[i] = Reserved(id)
      <4>1. Joined(<<>>, outcome')
        BY DEF Joined
      <4>2. QED
        BY <1>3, <1>5, <3>1, <3>3, <4>1
    <3>4. QED
      BY <1>2, <3>2, <3>3
  <2>3. ASSUME ~wrapped', NEW i \in Channels, NEW j \in Channels, i # j,
               channels'[i].in_use, channels'[j].in_use,
               channels'[i].cid = channels'[j].cid
        PROVE  FALSE
    <3>1. ~wrapped /\ id = next_cid
      BY <1>1, <2>3
    <3>2. channels[i].cid # id /\ channels[j].cid # id
      BY <1>5, <3>1 DEF Inv, TableInv
    <3>3. CASE channels'[i] = channels[i] /\ channels'[j] = channels[j]
      BY <2>3, <3>1, <3>3 DEF Inv, TableInv
    <3>4. QED
      BY <1>2, <1>3, <2>3, <3>2, <3>3
  <2>4. QED
    BY <2>1, <2>2, <2>3 DEF TableInv
<1>9. HeldInv'
  <2>1. SUFFICES ASSUME ~wrapped', NEW i \in Channels,
                        NEW p \in DOMAIN channels'[i].msg
                 PROVE  ChunkOf(channels[i].msg[p], channels[i].cid)'
    BY DEF HeldInv
  <2>2. channels'[i] = channels[i] /\ ~wrapped /\ id = next_cid
    BY <1>1, <1>4, <2>1
  <2>3. ChunkOf(channels[i].msg[p], channels[i].cid)
    BY <2>1, <2>2 DEF Inv, HeldInv
  <2>4. channels[i].cid # id
    BY <1>5, <2>2 DEF Inv, TableInv
  <2>5. QED
    BY <1>1, <2>2, <2>3, <2>4 DEF ChunkOf
<1>10. NextInv'
  BY <1>1, <1>4 DEF Inv, NextInv, Finds
<1>11. HeardInv'
  BY <1>1 DEF Inv, HeardInv
<1>12. DispatchedWhole'
  BY <1>1 DEF Inv, DispatchedWhole
<1>13. QED
  BY <1>6, <1>7, <1>8, <1>9, <1>10, <1>11, <1>12

-----------------------------------------------------------------------------
(* A frame is lost, or a message is refused.                                *)

\* A stream loses the frame at k, or all from there on.
LEMMA CutLinks ==
  ASSUME NEW s \in Seq(Frame), NEW r, NEW k, NEW d, Cut(s, k, d, r), k > 1, d > 0,
         NEW out \in [Msgs -> Outcomes], NEW out2 \in [Msgs -> Outcomes],
         k \in DOMAIN s,
         \A n \in DOMAIN s : n >= k => s[n].chunk.msg = s[k].chunk.msg,
         out2[s[k].chunk.msg] # "none",
         \A m \in Msgs : m # s[k].chunk.msg => out2[m] = out[m],
         \/ k = Len(r) + 1 /\ (Sound(out2, s[k].chunk.msg) =>
                                 Sound(out, s[k].chunk.msg))
         \/ d = 1 /\ ~Sound(out2, s[k].chunk.msg),
         out2[s[k].chunk.msg] = "error" => out[s[k].chunk.msg] = "error",
         Linked(s, out), Answered(s, out), LongSettled(s, out)
  PROVE  Linked(r, out2) /\ Answered(r, out2) /\ LongSettled(r, out2)
<1> DEFINE at(n) == IF n < k THEN n ELSE n + d
           m == s[k].chunk.msg
<1>1. /\ r \in Seq(Frame) /\ k \in Nat \ {0, 1} /\ d \in Nat \ {0}
      /\ Len(s) = Len(r) + d /\ k <= Len(r) + 1 /\ Len(r) \in Nat
      /\ DOMAIN r = 1..Len(r) /\ DOMAIN s = 1..Len(s)
      /\ \A n \in 1..Len(r) : r[n] = IF n < k THEN s[n] ELSE s[n + d]
  BY DEF Cut
<1>2. ASSUME NEW n \in DOMAIN r PROVE at(n) \in DOMAIN s /\ r[n] = s[at(n)]
  <2>1. n \in 1..Len(r)
    BY <1>1
  <2>2. CASE n < k
    BY <1>1, <2>1, <2>2
  <2>3. CASE ~(n < k)
    BY <1>1, <2>1, <2>3
  <2>4. QED
    BY <2>2, <2>3
<1>3. \A n \in DOMAIN s : s[n].chunk.msg \in Msgs
  BY FrameFacts
<1>4. /\ m \in Msgs /\ out2[m] # "none"
      /\ \A j \in Msgs \ {m} : out2[j] = out[j]
      /\ out2[m] = "error" => out[m] = "error"
  BY <1>3
<1>5. \A n \in DOMAIN s : n >= k => s[n].chunk.msg = m
  OBVIOUS
<1>6. \A j \in Msgs : out2[j] = "none" => out[j] = "none" /\ j # m
  BY <1>4
<1>7. 1 \in DOMAIN s /\ (1 \in DOMAIN r => r[1] = s[1])
  BY <1>1
<1> HIDE DEF m
<1>8. Linked(r, out2)
  <2>1. ASSUME NEW n \in DOMAIN r, n > 1, r[n].chunk.idx > 1,
               Sound(out2, r[n].chunk.msg)
        PROVE  r[n - 1].chunk.msg = r[n].chunk.msg
    <3>1. CASE n < k
      <4>1. n - 1 \in DOMAIN r /\ n - 1 < k /\ n \in DOMAIN s
        BY <1>1, <2>1, <3>1
      <4>2. r[n] = s[n] /\ r[n - 1] = s[n - 1]
        BY <1>1, <3>1, <4>1
      <4>3. Sound(out, s[n].chunk.msg)
        BY <1>3, <1>4, <2>1, <4>1, <4>2 DEF Sound, m
      <4>4. QED
        BY <2>1, <4>1, <4>2, <4>3 DEF Linked
    <3>2. CASE ~(n < k)
      <4>1. at(n) \in DOMAIN s /\ at(n) >= k /\ r[n] = s[at(n)]
            /\ k # Len(r) + 1
        BY <1>1, <1>2, <2>1, <3>2
      <4>2. r[n].chunk.msg = m
        BY <1>5, <4>1
      <4>3. QED
        BY <2>1, <4>1, <4>2 DEF m
    <3>3. QED
      BY <3>1, <3>2
  <2>2. ASSUME NEW n \in DOMAIN r, out2[r[n].chunk.msg] = "none",
               r[n].chunk.idx < r[n].chunk.len
        PROVE  n < Len(r) /\ r[n + 1].chunk.msg = r[n].chunk.msg
    <3>1. /\ at(n) \in DOMAIN s /\ r[n] = s[at(n)] /\ r[n].chunk.msg \in Msgs
          /\ r[n].chunk.msg # m /\ out[r[n].chunk.msg] = "none"
      BY <1>2, <1>3, <1>6, <2>2
    <3>2. n < k /\ n \in DOMAIN s /\ r[n] = s[n]
      BY <1>1, <1>5, <3>1
    <3>3. n < Len(s) /\ s[n + 1].chunk.msg = s[n].chunk.msg
      BY <2>2, <3>1, <3>2 DEF Linked
    <3>4. n + 1 # k
      BY <3>1, <3>2, <3>3 DEF m
    <3>5. n + 1 < k /\ n + 1 \in DOMAIN r
      BY <1>1, <3>2, <3>4
    <3>6. n < Len(r) /\ r[n + 1] = s[n + 1]
      BY <1>1, <3>5
    <3>7. QED
      BY <3>2, <3>3, <3>6
  <2>3. QED
    BY <2>1, <2>2 DEF Linked
<1>9. Answered(r, out2)
  <2>1. ASSUME NEW n \in DOMAIN r, out2[r[n].chunk.msg] = "error"
        PROVE  r[n].chunk.idx > 1 /\ r[1].chunk.msg = r[n].chunk.msg
    <3>1. /\ at(n) \in DOMAIN s /\ r[n] = s[at(n)]
          /\ out[r[n].chunk.msg] = "error"
      BY <1>2, <1>3, <1>4, <2>1
    <3>2. 1 \in DOMAIN r
      BY <1>1
    <3>3. QED
      BY <1>7, <3>1, <3>2 DEF Answered
  <2>2. QED
    BY <2>1 DEF Answered
<1>10. LongSettled(r, out2)
  <2>1. ASSUME r # <<>>, r[1].chunk.idx > 1, r[1].chunk.len > MaxLen
        PROVE  out2[r[1].chunk.msg] # "none"
    <3>1. 1 \in DOMAIN r /\ s # <<>>
      BY <1>1, <2>1
    <3>2. out[s[1].chunk.msg] # "none"
      BY <1>7, <2>1, <3>1 DEF LongSettled
    <3>3. QED
      BY <1>3, <1>4, <1>7, <3>1, <3>2
  <2>2. QED
    BY <2>1 DEF LongSettled
<1>11. QED
  BY <1>8, <1>9, <1>10

LEMMA CutRest ==
  ASSUME Inv, NEW t \in Transports, NEW k \in Nat, NEW d \in Nat,
         NEW result \in {"lost", "refused"}, CutEffect(t, k, d, result)
  PROVE  /\ LinkInv' /\ OutcomeInv' /\ TableInv' /\ HeldInv' /\ NextInv'
         /\ HeardInv' /\ DispatchedWhole'
<1> DEFINE s == Stream(t)
           m == Stream(t)[k].chunk.msg
<1>1. PICK r : r = Stream(t)'
  OBVIOUS
<1>2. /\ Cut(s, k, d, r) /\ k > 1 /\ d > 0 /\ k \in DOMAIN s
      /\ \A n \in DOMAIN s : n >= k => s[n].chunk.msg = m
      /\ \/ t \in Usb /\ d = 1 /\ result = "lost"
         \/ t \in User /\ k = Len(r) + 1 /\ result = "refused"
      /\ Settle(m, result)
      /\ \A u \in Transports \ {t} : Stream(u)' = Stream(u)
      /\ UNCHANGED <<channels, next_cid, wrapped, host_cid, source, dispatched>>
  BY <1>1 DEF CutEffect, driverVars
<1>3. s \in Seq(Frame) /\ DOMAIN s = 1..Len(s) /\ Len(s) \in Nat
      /\ \A n \in DOMAIN s : s[n] \in Frame
  BY StreamType DEF Inv
<1>4. m \in Msgs /\ m \in DOMAIN source /\ source[m] = t
      /\ \A n \in DOMAIN s : s[n].chunk.msg \in Msgs
  BY <1>2, <1>3, FrameFacts DEF Inv, FramesInv, FrameOf
<1>5. /\ outcome' \in [Msgs -> Outcomes] /\ outcome \in [Msgs -> Outcomes]
      /\ outcome'[m] = IF outcome[m] = "none" THEN result ELSE outcome[m]
      /\ \A j \in Msgs \ {m} : outcome'[j] = outcome[j]
  BY <1>2, <1>4, SettleFacts DEF Outcomes, Inv, TypeOK
<1>6. /\ r \in Seq(Frame) /\ DOMAIN r = 1..Len(r) /\ Len(r) \in Nat
      /\ \A n \in DOMAIN r : \E j \in DOMAIN s : r[n] = s[j]
  BY <1>2, <1>3, CutFacts
<1>7. \A u \in Transports : \A n \in DOMAIN Stream(u) :
        Stream(u)[n].chunk.msg \in DOMAIN source /\ Stream(u)[n].chunk.msg \in Msgs
        /\ source[Stream(u)[n].chunk.msg] = u
  BY StreamType, FrameFacts DEF Inv, FramesInv, FrameOf
<1>8. /\ DOMAIN source \subseteq Msgs
      /\ \A j \in DOMAIN source : /\ outcome[j] = "refused" => source[j] \in User
                                  /\ outcome[j] = "lost" => source[j] \in Usb
      /\ Usb \cap User = {}
  BY HidFramingAssumption DEF Inv, OutcomeInv, TypeOK, Msgs
<1>9. \A j \in Msgs : /\ outcome'[j] = "none" => outcome[j] = "none" /\ j # m
                      /\ outcome'[j] = "error" => outcome[j] = "error"
                      /\ outcome'[j] = "dispatched" => outcome[j] = "dispatched"
                      /\ outcome[j] = "lost" => outcome'[j] = "lost"
                      /\ Sound(outcome', j) => Sound(outcome, j)
  BY <1>5 DEF Sound
<1> HIDE DEF s, m
<1>10. LinkInv'
  <2>1. \/ k = Len(r) + 1
        \/ d = 1 /\ ~Sound(outcome', m)
    <3>1. CASE result = "lost"
      <4>1. t \in Usb /\ outcome[m] # "refused" /\ d = 1
        BY <1>2, <1>4, <1>8, <3>1
      <4>2. QED
        BY <1>5, <3>1, <4>1 DEF Sound
    <3>2. QED
      BY <1>2, <3>1
  <2>2. Linked(s, outcome) /\ Answered(s, outcome) /\ LongSettled(s, outcome)
    BY DEF Inv, LinkInv, s
  <2>3. PICK out2 : out2 = outcome'
    OBVIOUS
  <2>4. Linked(r, out2) /\ Answered(r, out2) /\ LongSettled(r, out2)
    <3>1. s[k].chunk.msg = m
      BY DEF s, m
    <3>2. out2 \in [Msgs -> Outcomes] /\ out2[m] # "none"
          /\ (Sound(out2, m) => Sound(outcome, m))
          /\ (out2[m] = "error" => outcome[m] = "error")
      BY <1>4, <1>5, <1>9, <2>3
    <3>3. /\ out2[s[k].chunk.msg] # "none"
          /\ \A j \in Msgs : j # s[k].chunk.msg => out2[j] = outcome[j]
          /\ \/ /\ k = Len(r) + 1
                /\ Sound(out2, s[k].chunk.msg) => Sound(outcome, s[k].chunk.msg)
             \/ d = 1 /\ ~Sound(out2, s[k].chunk.msg)
          /\ out2[s[k].chunk.msg] = "error" => outcome[s[k].chunk.msg] = "error"
          /\ \A n \in DOMAIN s : n >= k => s[n].chunk.msg = s[k].chunk.msg
      BY <1>2, <1>5, <2>1, <2>3, <3>1, <3>2
    <3>4. /\ out2 \in [Msgs -> Outcomes] /\ outcome \in [Msgs -> Outcomes]
          /\ Cut(s, k, d, r) /\ k > 1 /\ d > 0 /\ k \in DOMAIN s
          /\ s \in Seq(Frame)
      BY <1>2, <1>3, <1>5, <3>2
    <3>5. QED
      BY <2>2, <3>3, <3>4, CutLinks
  <2>5. ASSUME NEW u \in Transports \ {t}
        PROVE  Linked(Stream(u), outcome') /\ Answered(Stream(u), outcome')
               /\ LongSettled(Stream(u), outcome')
    <3>1. \A n \in DOMAIN Stream(u) :
            outcome'[Stream(u)[n].chunk.msg] = outcome[Stream(u)[n].chunk.msg]
      BY <1>4, <1>5, <1>7
    <3>2. Stream(u) # <<>> => 1 \in DOMAIN Stream(u)
      BY StreamType DEF Inv
    <3>3. /\ Linked(Stream(u), outcome) /\ Answered(Stream(u), outcome)
          /\ LongSettled(Stream(u), outcome)
      BY DEF Inv, LinkInv
    <3>4. QED
      BY <3>1, <3>2, <3>3 DEF Linked, Answered, LongSettled, Sound
  <2>6. QED
    BY <1>1, <1>2, <2>3, <2>4, <2>5 DEF LinkInv
<1>11. OutcomeInv'
  <2>1. \A j \in Msgs \ DOMAIN source : outcome'[j] = "none"
    BY <1>4, <1>5 DEF Inv, OutcomeInv
  <2>2. \A j \in DOMAIN source : /\ outcome'[j] = "refused" => source[j] \in User
                                 /\ outcome'[j] = "lost" => source[j] \in Usb
    BY <1>2, <1>4, <1>5, <1>8
  <2>3. ASSUME ~wrapped, NEW u \in Transports, NEW n \in DOMAIN Stream(u)'
        PROVE  outcome'[Stream(u)'[n].chunk.msg] # "dispatched"
    <3>1. PICK j \in DOMAIN Stream(u) : Stream(u)'[n] = Stream(u)[j]
      BY <1>1, <1>2, <1>6, <2>3 DEF s
    <3>2. QED
      BY <1>7, <1>9, <2>3, <3>1 DEF Inv, OutcomeInv
  <2>4. QED
    BY <1>2, <2>1, <2>2, <2>3 DEF OutcomeInv
<1>12. ASSUME NEW i \in Channels, NEW p \in DOMAIN channels[i].msg
       PROVE  channels[i].msg[p] \in Chunk /\ channels[i].msg[p].msg \in Msgs
  BY FrameFacts DEF Inv, TypeOK, Channel
<1>13. TableInv'
  <2>1. ASSUME ~wrapped, NEW i \in Channels
        PROVE  Joined(channels[i].msg, outcome')
    <3>1. Joined(channels[i].msg, outcome)
      BY <2>1 DEF Inv, TableInv
    <3>2. QED
      BY <1>9, <1>12, <3>1 DEF Joined
  <2>2. QED
    BY <1>2, <2>1 DEF Inv, TableInv
<1>14. HeldInv'
  <2>1. SUFFICES ASSUME ~wrapped, NEW i \in Channels,
                        NEW p \in DOMAIN channels[i].msg
                 PROVE  ChunkOf(channels[i].msg[p], channels[i].cid)'
    BY <1>2 DEF HeldInv
  <2> DEFINE x == channels[i].msg[p]
             cid == channels[i].cid
  <2>2. ChunkOf(x, cid) /\ x \in Chunk /\ x.msg \in Msgs
    BY <1>12, <2>1 DEF Inv, HeldInv
  <2>3. UNCHANGED <<channels, source, host_cid>>
    BY <1>2
  <2> HIDE DEF x, cid
  <2>4. x.len > MaxLen \/ outcome'[x.msg] \in {"none", "refused", "lost"}
    BY <1>5, <2>2 DEF ChunkOf
  <2>5. \A u \in Transports : \A n \in DOMAIN Stream(u)' :
          \E j \in DOMAIN Stream(u) : Stream(u)'[n] = Stream(u)[j]
    BY <1>1, <1>2, <1>6 DEF s
  <2>6. ChunkOf(x, cid)'
    BY <1>2, <2>2, <2>3, <2>4, <2>5 DEF ChunkOf, x, cid
  <2>7. QED
    BY <2>6 DEF x, cid
<1>15. ASSUME NEW u \in Transports, Stream(u)' # <<>>
       PROVE  /\ Stream(u) # <<>> /\ Stream(u)'[1] = Stream(u)[1]
              /\ 1 \in DOMAIN Stream(u)
  <2>1. CASE u = t
    <3>1. s # <<>> /\ 1 \in DOMAIN s /\ Len(r) > 0
      BY <1>1, <1>2, <1>3, <1>6, <1>15, <2>1
    <3>2. r[1] = s[1]
      BY <1>2, <1>6, <3>1 DEF Cut
    <3>3. QED
      BY <1>1, <2>1, <3>1, <3>2 DEF s
  <2>2. CASE u # t
    BY <1>2, <1>15, <2>2, StreamType DEF Inv
  <2>3. QED
    BY <2>1, <2>2
<1>16. NextInv'
  <2>1. ASSUME ~wrapped, NEW u \in Transports, Stream(u)' # <<>>,
               Stream(u)'[1].chunk.idx > 1, Stream(u)'[1].chunk.len <= MaxLen,
               NEW i \in Channels
        PROVE  Finds(Stream(u)[1], channels[i])'
    <3>1. Finds(Stream(u)[1], channels[i])
      BY <1>15, <2>1 DEF Inv, NextInv
    <3>2. Stream(u)[1].chunk.msg \in Msgs
      BY <1>7, <1>15, <2>1
    <3>3. QED
      BY <1>2, <1>9, <1>15, <2>1, <3>1, <3>2 DEF Finds
  <2>2. QED
    BY <1>2, <2>1 DEF NextInv
<1>17. HeardInv'
  <2>1. SUFFICES ASSUME ~wrapped, NEW u \in Transports, NEW j \in DOMAIN source,
                        source[j] = u, outcome'[j] = "none"
                 PROVE  \E n \in DOMAIN Stream(u)' : Stream(u)'[n].chunk.msg = j
    BY <1>2 DEF HeardInv
  <2>2. outcome[j] = "none" /\ j # m
    BY <1>8, <1>9, <2>1
  <2>3. PICK n \in DOMAIN Stream(u) : Stream(u)[n].chunk.msg = j
    BY <2>1, <2>2 DEF Inv, HeardInv
  <2>4. CASE u # t
    BY <1>2, <2>3, <2>4
  <2>5. CASE u = t
    <3>1. n \in DOMAIN s /\ ~(n >= k)
      BY <1>2, <2>2, <2>3, <2>5 DEF s
    <3>2. n \in DOMAIN r /\ r[n] = s[n]
      BY <1>2, <1>3, <1>6, <3>1 DEF Cut
    <3>3. QED
      BY <1>1, <2>3, <2>5, <3>2 DEF s
  <2>6. QED
    BY <2>4, <2>5
<1>18. DispatchedWhole'
  <2>1. \A u \in Transports : \A i \in DOMAIN dispatched[u] :
          dispatched[u][i].msg \in Msgs
    BY FrameFacts DEF Inv, TypeOK
  <2>2. QED
    BY <1>2, <1>9, <2>1 DEF Inv, DispatchedWhole
<1>19. QED
  BY <1>10, <1>11, <1>13, <1>14, <1>16, <1>17, <1>18

-----------------------------------------------------------------------------
(* A worker takes a frame.                                                  *)

\* The frame and the rest of its stream.
LEMMA TakenFacts ==
  ASSUME Inv, NEW t \in Transports, Takes(t)
  PROVE  LET f == Frame1(t)
             s == Stream(t)
         IN  /\ f = s[1] /\ f \in Frame /\ f.chunk \in Chunk /\ 1 \in DOMAIN s
             /\ s \in Seq(Frame) /\ DOMAIN s = 1..Len(s) /\ Len(s) \in Nat
             /\ Shorter(s, Stream(t)')
             /\ \A u \in Transports \ {t} : Stream(u)' = Stream(u)
             /\ f.chunk.msg \in Msgs /\ f.chunk.msg \in DOMAIN source
             /\ source[f.chunk.msg] = t /\ f.chunk.idx <= f.chunk.len
             /\ f.cid = Broadcast => f.chunk.len = 1
             /\ f.chunk.idx \in Nat \ {0} /\ f.chunk.len \in Nat \ {0}
             /\ UNCHANGED <<next_cid, wrapped, host_cid, source>>
<1>1. /\ Frame1(t) = Stream(t)[1] /\ Frame1(t) \in Frame /\ Stream(t) # <<>>
      /\ Shorter(Stream(t), Stream(t)')
      /\ \A u \in Transports \ {t} : Stream(u)' = Stream(u)
      /\ UNCHANGED <<next_cid, wrapped, host_cid, source>>
  BY DEF Takes, hostVars
<1>2. /\ Stream(t) \in Seq(Frame) /\ Len(Stream(t)) \in Nat
      /\ DOMAIN Stream(t) = 1..Len(Stream(t))
  BY StreamType DEF Inv
<1>3. 1 \in DOMAIN Stream(t)
  BY <1>1, <1>2
<1>4. FrameOf(t, Frame1(t))
  BY <1>1, <1>3 DEF Inv, FramesInv
<1>5. QED
  BY <1>1, <1>2, <1>3, <1>4, FrameFacts DEF FrameOf

\* What the frame is put together with is a beginning of a message, in order.
LEMMA PriorShape ==
  ASSUME Inv, NEW t \in Transports, Takes(t), NEW c \in Seq(Chunk),
         Prior(Frame1(t), c)
  PROVE  LET f == Frame1(t)
             p == Append(c, f.chunk)
         IN  /\ p \in Seq(Chunk) /\ Len(p) = Len(c) + 1 /\ p[Len(p)] = f.chunk
             /\ DOMAIN p = 1..Len(p) /\ Len(c) \in Nat
             /\ \A q \in DOMAIN c : q \in DOMAIN p /\ p[q] = c[q]
             /\ \A q \in DOMAIN p : q \in DOMAIN c \/ q = Len(p)
             /\ f.chunk.idx = Len(p) /\ \A q \in DOMAIN p : p[q].idx = q
             /\ Len(p) > 1 => c # <<>>
<1> DEFINE f == Frame1(t)
<1>1. f.chunk \in Chunk /\ f.chunk.idx \in Nat \ {0}
  BY TakenFacts
<1>2. PICK p : p = Append(c, f.chunk)
  OBVIOUS
<1>3. /\ p \in Seq(Chunk) /\ Len(p) = Len(c) + 1 /\ p[Len(p)] = f.chunk
      /\ DOMAIN p = 1..Len(p) /\ Len(c) \in Nat /\ DOMAIN c = 1..Len(c)
      /\ \A q \in DOMAIN c : q \in DOMAIN p /\ p[q] = c[q]
      /\ \A q \in DOMAIN p : q \in DOMAIN c \/ q = Len(p)
      /\ Len(p) > 1 => c # <<>>
  BY <1>1, <1>2
<1>4. f.chunk.idx = Len(p) /\ \A q \in DOMAIN c : c[q].idx = q
  <2>1. CASE f.chunk.idx = 1 /\ c = <<>>
    BY <1>3, <2>1
  <2>2. ASSUME NEW i \in Channels, c = channels[i].msg, c # <<>>,
               f.chunk.idx = Len(c) + 1
        PROVE  f.chunk.idx = Len(p) /\ \A q \in DOMAIN c : c[q].idx = q
    BY <1>3, <2>2 DEF Inv, TableInv, ChannelOK
  <2>3. QED
    BY <2>1, <2>2 DEF Prior
<1>5. QED
  BY <1>2, <1>3, <1>4

LEMMA PriorFacts ==
  ASSUME Inv, NEW t \in Transports, Takes(t), NEW c \in Seq(Chunk),
         Prior(Frame1(t), c), ~wrapped
  PROVE  LET f == Frame1(t)
         IN  /\ f.chunk.len <= MaxLen => outcome[f.chunk.msg] # "error"
             /\ f.chunk.len > MaxLen =>
                  outcome[f.chunk.msg] # "none" /\ c # <<>>
             /\ \A q \in DOMAIN c : ChunkOf(c[q], f.cid)
             /\ Joined(Append(c, f.chunk), outcome)
             /\ c # <<>> => c[1].len <= MaxLen
<1> DEFINE f == Frame1(t)
           s == Stream(t)
<1>1. /\ f = s[1] /\ f \in Frame /\ f.chunk \in Chunk /\ 1 \in DOMAIN s
      /\ s \in Seq(Frame) /\ DOMAIN s = 1..Len(s) /\ Len(s) \in Nat
      /\ f.chunk.msg \in Msgs /\ f.chunk.msg \in DOMAIN source
      /\ source[f.chunk.msg] = t /\ f.chunk.idx <= f.chunk.len
      /\ f.chunk.idx \in Nat \ {0} /\ f.chunk.len \in Nat \ {0} /\ s # <<>>
  BY TakenFacts
<1>2. /\ Linked(s, outcome) /\ Answered(s, outcome) /\ LongSettled(s, outcome)
      /\ Ordered(s)
  BY DEF Inv, LinkInv, FramesInv
<1>3. MaxLen \in Nat /\ MaxLen > 0
  BY HidFramingAssumption
<1>4. CASE f.chunk.idx = 1 /\ c = <<>> /\ f.chunk.len <= MaxLen
  <2>1. outcome[f.chunk.msg] # "error"
    BY <1>1, <1>2, <1>4 DEF Answered
  <2>2. Append(c, f.chunk) = <<f.chunk>>
    BY <1>4
  <2>3. Joined(<<f.chunk>>, outcome)
    BY DEF Joined
  <2>4. ~(f.chunk.len > MaxLen)
    BY <1>1, <1>3, <1>4
  <2>5. DOMAIN c = {}
    BY <1>4
  <2>6. QED
    BY <1>4, <2>1, <2>2, <2>3, <2>4, <2>5
<1>5. ASSUME NEW i \in Channels, c = channels[i].msg, c # <<>>,
             channels[i].cid = f.cid, f.chunk.idx = Len(c) + 1
      PROVE  /\ f.chunk.len <= MaxLen => outcome[f.chunk.msg] # "error"
             /\ f.chunk.len > MaxLen => outcome[f.chunk.msg] # "none"
             /\ \A q \in DOMAIN c : ChunkOf(c[q], f.cid)
             /\ Joined(Append(c, f.chunk), outcome)
             /\ c[1].len <= MaxLen
  <2>1. f.chunk.idx > 1 /\ Len(c) \in DOMAIN c /\ 1 \in DOMAIN c
        /\ DOMAIN c = 1..Len(c)
    <3>1. Len(c) \in Nat \ {0} /\ DOMAIN c = 1..Len(c)
      BY <1>5
    <3>2. QED
      BY <1>5, <3>1
  <2>2. f.chunk.len > MaxLen => outcome[f.chunk.msg] # "none"
    BY <1>1, <1>2, <2>1 DEF LongSettled
  <2>3. f.chunk.len <= MaxLen => Finds(f, channels[i])
    BY <1>1, <2>1 DEF Inv, NextInv
  <2>4. \A q \in DOMAIN c : ChunkOf(c[q], f.cid)
    BY <1>5 DEF Inv, HeldInv
  <2>5. c[1].len <= MaxLen
    <3>1. channels[i].expected_len = c[1].len /\ channels[i].expected_len \in 0..MaxLen
      BY <1>5 DEF Inv, TableInv, ChannelOK, TypeOK, Channel
    <3>2. QED
      BY <1>3, <3>1
  <2>6. Joined(c, outcome)
    BY <1>5 DEF Inv, TableInv
  <2>7. ASSUME NEW q \in DOMAIN c
        PROVE  /\ c[q].msg = f.chunk.msg => c[q].len = f.chunk.len
               /\ \/ c[q].msg = f.chunk.msg \/ c[q].len > MaxLen
                  \/ f.chunk.len > MaxLen
                  \/ /\ outcome[c[q].msg] = "lost"
                     /\ outcome[f.chunk.msg] = "lost"
    <3> DEFINE x == c[q]
               y == c[Len(c)]
    <3>1. x \in Chunk /\ y \in Chunk /\ x.len \in Nat /\ y.len \in Nat
          /\ x.msg \in Nat /\ x.msg \in Msgs
      BY <2>1, FrameFacts
    <3>2. ChunkOf(x, f.cid) /\ ChunkOf(y, f.cid)
      BY <2>1, <2>4
    <3>3. x.msg = f.chunk.msg => x.len = f.chunk.len
      BY <1>1, <3>2 DEF ChunkOf
    <3>4. y.msg = f.chunk.msg => y.len = f.chunk.len
      BY <1>1, <3>2 DEF ChunkOf
    <3>5. source[x.msg] = t /\ Before(x, f.chunk) /\ x.msg \in DOMAIN source
      BY <1>1, <3>2 DEF ChunkOf
    <3>6. \/ x.msg = y.msg \/ x.len > MaxLen \/ y.len > MaxLen
          \/ outcome[x.msg] = "lost" /\ outcome[y.msg] = "lost"
      BY <2>1, <2>6 DEF Joined
    <3> HIDE DEF x, y, f, s
    <3>7. ASSUME x.msg # f.chunk.msg, ~(x.len > MaxLen), ~(f.chunk.len > MaxLen)
          PROVE  outcome[x.msg] = "lost" /\ outcome[f.chunk.msg] = "lost"
      <4>1. f.chunk.len <= MaxLen
        BY <1>1, <1>3, <3>7
      <4>2. /\ outcome[f.chunk.msg] # "error"
            /\ Sound(outcome, f.chunk.msg) => y.msg = f.chunk.msg
        BY <1>5, <2>3, <4>1 DEF Finds, y
      <4>3. outcome[f.chunk.msg] \in {"none", "refused", "lost"}
        <5>1. outcome[f.chunk.msg] # "dispatched"
          BY <1>1 DEF Inv, OutcomeInv, f, s
        <5>2. outcome[f.chunk.msg] \in Outcomes
          BY <1>1 DEF Inv, TypeOK
        <5>3. QED
          BY <4>2, <5>1, <5>2 DEF Outcomes
      <4>4. CASE outcome[f.chunk.msg] = "lost"
        <5>1. outcome[x.msg] \in {"none", "refused", "lost"}
          BY <3>2, <3>7 DEF ChunkOf
        <5>2. outcome[x.msg] # "refused"
          <6>1. t \in Usb
            BY <1>1, <4>4 DEF Inv, OutcomeInv
          <6>2. t \notin User
            BY <6>1, HidFramingAssumption
          <6>3. QED
            BY <3>5, <6>2 DEF Inv, OutcomeInv
        <5>3. outcome[x.msg] # "none"
          <6>1. SUFFICES ASSUME outcome[x.msg] = "none" PROVE FALSE
            OBVIOUS
          <6>2. PICK n \in DOMAIN s : s[n].chunk.msg = x.msg
            BY <3>5, <6>1 DEF Inv, HeardInv, s
          <6>3. x.msg < f.chunk.msg
            BY <3>5, <3>7 DEF Before
          <6>4. n > 1
            BY <1>1, <3>7, <6>2
          <6>5. Before(f.chunk, s[n].chunk)
            BY <1>1, <1>2, <6>2, <6>4 DEF Ordered
          <6>6. f.chunk.msg \in Nat
            BY <1>1, FrameFacts
          <6>7. QED
            BY <3>1, <6>2, <6>3, <6>5, <6>6 DEF Before
        <5>4. QED
          BY <4>4, <5>1, <5>2, <5>3
      <4>5. CASE outcome[f.chunk.msg] \in {"none", "refused"}
        <5>1. y.msg = f.chunk.msg /\ y.len = f.chunk.len
          BY <3>4, <4>2, <4>5 DEF Sound
        <5>2. outcome[y.msg] # "lost" /\ ~(y.len > MaxLen)
          BY <3>7, <4>5, <5>1
        <5>3. QED
          BY <3>6, <3>7, <5>1, <5>2
      <4>6. QED
        BY <4>3, <4>4, <4>5
    <3>8. QED
      BY <3>3, <3>7 DEF x
  <2>8. Joined(Append(c, f.chunk), outcome)
    <3>1. PICK p : p = Append(c, f.chunk)
      OBVIOUS
    <3>2. /\ \A q \in DOMAIN c : p[q] = c[q]
          /\ \A q \in DOMAIN p : q \in DOMAIN c \/ p[q] = f.chunk
      BY <1>1, <3>1
    <3> HIDE DEF f
    <3>3. Joined(p, outcome)
      BY <2>6, <2>7, <3>2 DEF Joined
    <3>4. QED
      BY <3>1, <3>3
  <2>9. QED
    BY <2>2, <2>3, <2>4, <2>5, <2>8, <1>5 DEF Finds
<1>6. QED
  BY <1>4, <1>5 DEF Prior

\* What becomes of messages: only the frame's own can be settled, and is
\* unless the frame is stored.
LEMMA OutcomeFacts ==
  ASSUME Inv, NEW t \in Transports, FrameEffect(t)
  PROVE  LET m == Frame1(t).chunk.msg
         IN  /\ outcome \in [Msgs -> Outcomes] /\ outcome' \in [Msgs -> Outcomes]
             /\ \A j \in Msgs : j # m => outcome'[j] = outcome[j]
             /\ outcome[m] # "none" => outcome'[m] = outcome[m]
             /\ outcome[m] = "none" =>
                  outcome'[m] \in {"none", "error", "dispatched"}
             /\ outcome'[m] = "none" => \E c \in Seq(Chunk) : Stores(t, c)
             /\ outcome'[m] = "dispatched" =>
                  \/ outcome[m] = "dispatched"
                  \/ \E c \in Seq(Chunk) : Dispatches(t, c)
             /\ \A j \in Msgs :
                  /\ outcome'[j] = "none" => outcome[j] = "none"
                  /\ Sound(outcome', j) => Sound(outcome, j)
                  /\ outcome[j] = "lost" <=> outcome'[j] = "lost"
                  /\ outcome[j] = "refused" <=> outcome'[j] = "refused"
<1> DEFINE m == Frame1(t).chunk.msg
<1>1. m \in Msgs /\ outcome \in [Msgs -> Outcomes] /\ Takes(t)
  BY TakenFacts DEF FrameEffect, Inv, TypeOK
<1>2. ASSUME NEW r \in {"error", "dispatched"}, Settle(m, r)
      PROVE  /\ outcome' \in [Msgs -> Outcomes]
             /\ outcome'[m] = IF outcome[m] = "none" THEN r ELSE outcome[m]
             /\ \A j \in Msgs \ {m} : outcome'[j] = outcome[j]
  BY <1>1, <1>2, SettleFacts DEF Outcomes, Inv
<1> HIDE DEF m
<1>3. /\ outcome' \in [Msgs -> Outcomes]
      /\ \A j \in Msgs : j # m => outcome'[j] = outcome[j]
      /\ outcome[m] # "none" => outcome'[m] = outcome[m]
      /\ outcome[m] = "none" => outcome'[m] \in {"none", "error", "dispatched"}
      /\ outcome'[m] = "none" => \E c \in Seq(Chunk) : Stores(t, c)
      /\ outcome'[m] = "dispatched" =>
           \/ outcome[m] = "dispatched"
           \/ \E c \in Seq(Chunk) : Dispatches(t, c)
  <2>1. CASE TooLongError(t) \/ Errs(t)
    <3>1. Settle(m, "error")
      BY <2>1 DEF TooLongError, Errs, Error, m
    <3>2. QED
      BY <1>2, <3>1
  <2>2. ASSUME NEW c \in Seq(Chunk), Dispatches(t, c)
        PROVE  /\ outcome' \in [Msgs -> Outcomes]
               /\ \A j \in Msgs : j # m => outcome'[j] = outcome[j]
               /\ outcome[m] # "none" => outcome'[m] = outcome[m]
               /\ outcome[m] = "none" => outcome'[m] = "dispatched"
               /\ outcome'[m] # "none"
    <3>1. Settle(m, "dispatched")
      BY <2>2 DEF Dispatches, m
    <3>2. QED
      BY <1>2, <3>1
  <2>3. ASSUME NEW c \in Seq(Chunk), Stores(t, c)
        PROVE  outcome' = outcome
    BY <2>3 DEF Stores
  <2>4. QED
    BY <1>1, <2>1, <2>2, <2>3 DEF FrameEffect
<1>4. \A j \in Msgs : /\ outcome'[j] = "none" => outcome[j] = "none"
                      /\ Sound(outcome', j) => Sound(outcome, j)
                      /\ outcome[j] = "lost" <=> outcome'[j] = "lost"
                      /\ outcome[j] = "refused" <=> outcome'[j] = "refused"
  BY <1>3 DEF Sound
<1>5. QED
  BY <1>1, <1>3, <1>4 DEF m

\* A frame that is stored is not the only one of its message, so not INIT's.
LEMMA StoredFacts ==
  ASSUME Inv, NEW t \in Transports, Takes(t), NEW c \in Seq(Chunk), Stores(t, c)
  PROVE  LET f == Frame1(t)
         IN  /\ f.cid # Broadcast /\ Prior(f, c)
             /\ f.chunk.idx = 1 => f.chunk.len <= MaxLen
<1> DEFINE f == Frame1(t)
           p == Append(c, f.chunk)
<1>1. Prior(f, c) /\ Len(p) < p[1].len /\ p[1].len <= MaxLen
  BY DEF Stores
<1>2. /\ f.cid = Broadcast => f.chunk.len = 1
      /\ f.chunk.idx <= f.chunk.len
      /\ f.chunk.idx \in Nat \ {0} /\ f.chunk.len \in Nat \ {0}
  BY TakenFacts
<1>3. f.chunk.idx = Len(p) /\ p[Len(p)] = f.chunk
  BY <1>1, PriorShape
<1> HIDE DEF p
<1>4. f.chunk.idx = 1 => p[1] = f.chunk
  BY <1>3
<1>5. QED
  BY <1>1, <1>2, <1>3, <1>4

\* The rest of a stream after its first frame.
LEMMA RestLinks ==
  ASSUME NEW s \in Seq(Frame), NEW r, Shorter(s, r), Ordered(s),
         NEW out \in [Msgs -> Outcomes], NEW out2 \in [Msgs -> Outcomes],
         \A j \in Msgs : j # s[1].chunk.msg => out2[j] = out[j],
         \A j \in Msgs : out2[j] = "none" => out[j] = "none",
         \A j \in Msgs : Sound(out2, j) => Sound(out, j),
         out2[s[1].chunk.msg] = "none" /\ s[1].chunk.idx = 1 =>
           s[1].chunk.len <= MaxLen,
         Linked(s, out), Answered(s, out), LongSettled(s, out)
  PROVE  Linked(r, out2) /\ Answered(r, out2) /\ LongSettled(r, out2)
<1>1. /\ r \in Seq(Frame) /\ Len(s) = Len(r) + 1 /\ Len(r) \in Nat
      /\ DOMAIN r = 1..Len(r) /\ DOMAIN s = 1..Len(s) /\ 1 \in DOMAIN s
      /\ \A n \in DOMAIN r : n + 1 \in DOMAIN s /\ r[n] = s[n + 1]
      /\ s # <<>>
  BY DEF Shorter
<1>2. \A n \in DOMAIN s :
        /\ s[n].chunk.msg \in Msgs /\ s[n].chunk.msg \in Nat
        /\ s[n].chunk.idx \in Nat \ {0} /\ s[n].chunk.len \in Nat
  <2>1. \A n \in DOMAIN s : s[n] \in Frame
    OBVIOUS
  <2>2. QED
    BY <2>1, FrameFacts
<1>3. Linked(r, out2)
  <2>1. ASSUME NEW n \in DOMAIN r, n > 1, r[n].chunk.idx > 1,
               Sound(out2, r[n].chunk.msg)
        PROVE  r[n - 1].chunk.msg = r[n].chunk.msg
    <3>1. n - 1 \in DOMAIN r /\ (n - 1) + 1 = n /\ n + 1 \in DOMAIN s
          /\ (n + 1) - 1 = n /\ n + 1 > 1 /\ n \in Nat
      BY <1>1, <2>1
    <3>2. r[n] = s[n + 1] /\ r[n - 1] = s[n]
      BY <1>1, <3>1
    <3>3. Sound(out, s[n + 1].chunk.msg)
      BY <1>2, <2>1, <3>1, <3>2
    <3>4. s[(n + 1) - 1].chunk.msg = s[n + 1].chunk.msg
      BY <2>1, <3>1, <3>2, <3>3 DEF Linked
    <3>5. QED
      BY <3>1, <3>2, <3>4
  <2>2. ASSUME NEW n \in DOMAIN r, out2[r[n].chunk.msg] = "none",
               r[n].chunk.idx < r[n].chunk.len
        PROVE  n < Len(r) /\ r[n + 1].chunk.msg = r[n].chunk.msg
    <3>1. n + 1 \in DOMAIN s /\ r[n] = s[n + 1]
      BY <1>1
    <3>2. out[s[n + 1].chunk.msg] = "none"
      BY <1>2, <2>2, <3>1
    <3>3. n + 1 < Len(s) /\ s[(n + 1) + 1].chunk.msg = s[n + 1].chunk.msg
      BY <2>2, <3>1, <3>2 DEF Linked
    <3>4. n < Len(r) /\ n + 1 \in DOMAIN r
      BY <1>1, <3>3
    <3>5. QED
      BY <1>1, <3>1, <3>3, <3>4
  <2>3. QED
    BY <2>1, <2>2 DEF Linked
<1>4. Answered(r, out2)
  <2>1. ASSUME NEW n \in DOMAIN r, out2[r[n].chunk.msg] = "error"
        PROVE  r[n].chunk.idx > 1 /\ r[1].chunk.msg = r[n].chunk.msg
    <3>1. n + 1 \in DOMAIN s /\ r[n] = s[n + 1] /\ 1 < n + 1
      BY <1>1
    <3>2. s[n + 1].chunk.msg = s[1].chunk.msg
      <4>1. CASE out[s[n + 1].chunk.msg] = "error"
        BY <3>1, <4>1 DEF Answered
      <4>2. CASE out[s[n + 1].chunk.msg] # "error"
        BY <1>2, <2>1, <3>1, <4>2
      <4>3. QED
        BY <4>1, <4>2
    <3>3. Before(s[1].chunk, s[n + 1].chunk)
      BY <1>1, <3>1 DEF Ordered
    <3>4. s[n + 1].chunk.idx > 1
      BY <1>1, <1>2, <3>1, <3>2, <3>3 DEF Before
    <3>5. CASE n = 1
      BY <3>1, <3>4, <3>5
    <3>6. CASE n # 1
      <4>1. 1 \in DOMAIN r /\ 1 + 1 \in DOMAIN s /\ r[1] = s[1 + 1]
            /\ 1 < 1 + 1 /\ 1 + 1 < n + 1
        BY <1>1, <3>6
      <4>2. Before(s[1].chunk, s[1 + 1].chunk)
            /\ Before(s[1 + 1].chunk, s[n + 1].chunk)
        BY <1>1, <3>1, <4>1 DEF Ordered
      <4>3. s[1 + 1].chunk.msg = s[1].chunk.msg
        BY <1>1, <1>2, <3>1, <3>2, <4>1, <4>2 DEF Before
      <4>4. QED
        BY <3>1, <3>2, <3>4, <4>1, <4>3
    <3>7. QED
      BY <3>5, <3>6
  <2>2. QED
    BY <2>1 DEF Answered
<1>5. LongSettled(r, out2)
  <2>1. ASSUME r # <<>>, r[1].chunk.idx > 1, r[1].chunk.len > MaxLen,
               out2[r[1].chunk.msg] = "none"
        PROVE  FALSE
    <3>1. 1 \in DOMAIN r /\ r[1] = s[2] /\ 2 \in DOMAIN s
      BY <1>1, <2>1
    <3>2. out[s[2].chunk.msg] = "none"
      BY <1>2, <2>1, <3>1
    <3>3. s[2 - 1].chunk.msg = s[2].chunk.msg
      BY <2>1, <3>1, <3>2 DEF Linked, Sound
    <3>4. s[1].chunk.msg = s[2].chunk.msg /\ s[1].chunk.len = s[2].chunk.len
      BY <1>1, <3>1, <3>3 DEF Ordered
    <3>5. MaxLen \in Nat
      BY HidFramingAssumption
    <3>6. s[1].chunk.idx # 1
      BY <1>1, <1>2, <2>1, <3>1, <3>4, <3>5
    <3>7. s[1].chunk.idx > 1
      BY <1>1, <1>2, <3>6
    <3>8. QED
      BY <1>1, <2>1, <3>1, <3>2, <3>4, <3>7 DEF LongSettled
  <2>2. QED
    BY <2>1 DEF LongSettled
<1>6. QED
  BY <1>3, <1>4, <1>5

LEMMA FrameLinks ==
  ASSUME Inv, NEW t \in Transports, FrameEffect(t)
  PROVE  LinkInv'
<1> DEFINE f == Frame1(t)
           s == Stream(t)
<1>1. /\ Takes(t) /\ f = s[1] /\ s \in Seq(Frame) /\ Shorter(s, Stream(t)')
      /\ \A u \in Transports \ {t} : Stream(u)' = Stream(u)
      /\ f.chunk.msg \in Msgs /\ source[f.chunk.msg] = t
  BY TakenFacts DEF FrameEffect
<1>2. PICK out2 : out2 = outcome'
  OBVIOUS
<1>3. /\ outcome \in [Msgs -> Outcomes] /\ out2 \in [Msgs -> Outcomes]
      /\ \A j \in Msgs : j # f.chunk.msg => out2[j] = outcome[j]
      /\ \A j \in Msgs : out2[j] = "none" => outcome[j] = "none"
      /\ \A j \in Msgs : Sound(out2, j) => Sound(outcome, j)
      /\ out2[f.chunk.msg] = "none" => \E c \in Seq(Chunk) : Stores(t, c)
  BY <1>2, OutcomeFacts
<1>4. out2[f.chunk.msg] = "none" /\ f.chunk.idx = 1 => f.chunk.len <= MaxLen
  BY <1>1, <1>3, StoredFacts
<1>5. /\ Linked(s, outcome) /\ Answered(s, outcome) /\ LongSettled(s, outcome)
      /\ Ordered(s)
  BY DEF Inv, LinkInv, FramesInv
<1> HIDE DEF f, s
<1>6. PICK r : r = Stream(t)'
  OBVIOUS
<1>7. Linked(r, out2) /\ Answered(r, out2) /\ LongSettled(r, out2)
  BY <1>1, <1>3, <1>4, <1>5, <1>6, RestLinks
<1>8. ASSUME NEW u \in Transports \ {t}
      PROVE  Linked(Stream(u), out2) /\ Answered(Stream(u), out2)
             /\ LongSettled(Stream(u), out2)
  <2>1. \A n \in DOMAIN Stream(u) :
          outcome[Stream(u)[n].chunk.msg] = out2[Stream(u)[n].chunk.msg]
    <3>1. \A n \in DOMAIN Stream(u) : /\ source[Stream(u)[n].chunk.msg] = u
                                      /\ Stream(u)[n].chunk.msg \in Msgs
      BY StreamType, FrameFacts DEF Inv, FramesInv, FrameOf
    <3>2. QED
      BY <1>1, <1>3, <3>1
  <2>2. Stream(u) # <<>> => 1 \in DOMAIN Stream(u)
    BY StreamType DEF Inv
  <2>3. /\ Linked(Stream(u), outcome) /\ Answered(Stream(u), outcome)
        /\ LongSettled(Stream(u), outcome)
    BY DEF Inv, LinkInv
  <2>4. QED
    BY <2>1, <2>2, <2>3 DEF Linked, Answered, LongSettled, Sound
<1>9. QED
  BY <1>1, <1>2, <1>6, <1>7, <1>8 DEF LinkInv

LEMMA FrameOutcomes ==
  ASSUME Inv, NEW t \in Transports, FrameEffect(t)
  PROVE  OutcomeInv'
<1> DEFINE f == Frame1(t)
           s == Stream(t)
<1>1. /\ Takes(t) /\ f = s[1] /\ s \in Seq(Frame) /\ Shorter(s, Stream(t)')
      /\ \A u \in Transports \ {t} : Stream(u)' = Stream(u)
      /\ f.chunk.msg \in Msgs /\ source[f.chunk.msg] = t /\ 1 \in DOMAIN s
      /\ f.chunk.msg \in DOMAIN source /\ f.chunk.idx \in Nat
      /\ DOMAIN s = 1..Len(s) /\ UNCHANGED <<wrapped, source>>
  BY TakenFacts DEF FrameEffect
<1>2. /\ \A j \in Msgs : j # f.chunk.msg => outcome'[j] = outcome[j]
      /\ outcome'[f.chunk.msg] = "dispatched" =>
           \/ outcome[f.chunk.msg] = "dispatched"
           \/ \E c \in Seq(Chunk) : Dispatches(t, c)
      /\ \A j \in Msgs : /\ outcome[j] = "lost" <=> outcome'[j] = "lost"
                         /\ outcome[j] = "refused" <=> outcome'[j] = "refused"
      /\ outcome[f.chunk.msg] # "none" =>
           outcome'[f.chunk.msg] = outcome[f.chunk.msg]
  BY OutcomeFacts
<1>3. DOMAIN source \subseteq Msgs
  BY HidFramingAssumption DEF Inv, TypeOK, Msgs
<1>4. \A j \in Msgs \ DOMAIN source : outcome'[j] = "none"
  BY <1>1, <1>2 DEF Inv, OutcomeInv
<1>5. \A j \in DOMAIN source : /\ outcome'[j] = "refused" => source[j] \in User
                               /\ outcome'[j] = "lost" => source[j] \in Usb
  BY <1>2, <1>3 DEF Inv, OutcomeInv
<1>6. \A u \in Transports : \A n \in DOMAIN Stream(u) :
        /\ source[Stream(u)[n].chunk.msg] = u
        /\ Stream(u)[n].chunk.msg \in Msgs /\ Stream(u)[n].chunk.msg \in Nat
        /\ Stream(u)[n].chunk.idx <= Stream(u)[n].chunk.len
        /\ Stream(u)[n].chunk.idx \in Nat /\ Stream(u)[n].chunk.len \in Nat
  BY StreamType, FrameFacts DEF Inv, FramesInv, FrameOf
<1> HIDE DEF f, s
<1>7. ASSUME ~wrapped, NEW u \in Transports, NEW n \in DOMAIN Stream(u)'
      PROVE  outcome'[Stream(u)'[n].chunk.msg] # "dispatched"
  <2>1. CASE u # t
    BY <1>1, <1>2, <1>6, <1>7, <2>1 DEF Inv, OutcomeInv
  <2>2. CASE u = t
    <3>1. PICK r : r = Stream(t)'
      OBVIOUS
    <3>2. n \in DOMAIN r /\ n + 1 \in DOMAIN s /\ r[n] = s[n + 1] /\ 1 < n + 1
      BY <1>1, <1>7, <2>2, <3>1 DEF Shorter
    <3>3. outcome[s[n + 1].chunk.msg] # "dispatched"
          /\ outcome[f.chunk.msg] # "dispatched"
      BY <1>1, <1>7, <3>2 DEF Inv, OutcomeInv, s
    <3>4. CASE s[n + 1].chunk.msg # f.chunk.msg
      BY <1>2, <1>6, <2>2, <3>1, <3>2, <3>3, <3>4 DEF s
    <3>5. ASSUME s[n + 1].chunk.msg = f.chunk.msg, NEW c \in Seq(Chunk),
                 Dispatches(t, c)
          PROVE  outcome'[f.chunk.msg] # "dispatched"
      <4>1. Ordered(s)
        BY DEF Inv, FramesInv, s
      <4>2. f.chunk.idx < s[n + 1].chunk.idx /\ s[n + 1].chunk.len = f.chunk.len
        BY <1>1, <1>6, <3>2, <3>5, <4>1 DEF Ordered, Before, s
      <4>3. f.chunk.idx < f.chunk.len
        BY <1>1, <1>6, <3>2, <4>2 DEF s
      <4>4. PICK p : p = Append(c, f.chunk)
        OBVIOUS
      <4>5. Prior(f, c) /\ Len(p) = p[1].len
        BY <3>5, <4>4 DEF Dispatches, f
      <4>6. /\ p[Len(p)] = f.chunk /\ f.chunk.idx = Len(p)
            /\ Len(p) \in DOMAIN p /\ 1 \in DOMAIN p
            /\ \A q \in DOMAIN p : q \in DOMAIN c \/ q = Len(p)
            /\ \A q \in DOMAIN c : p[q] = c[q]
        BY <1>1, <4>4, <4>5, PriorShape DEF f
      <4>7. p[1].len # f.chunk.len
        BY <4>3, <4>5, <4>6
      <4>8. p[1] = c[1] /\ c # <<>>
        BY <4>6, <4>7
      <4>9. /\ Joined(p, outcome) /\ c[1].len <= MaxLen
            /\ f.chunk.len > MaxLen => outcome[f.chunk.msg] # "none"
        BY <1>1, <1>7, <4>4, <4>5, <4>8, PriorFacts DEF f
      <4>10. outcome[f.chunk.msg] # "none"
        <5>1. \/ p[1].len > MaxLen \/ f.chunk.len > MaxLen
              \/ outcome[f.chunk.msg] = "lost"
          BY <4>6, <4>7, <4>9 DEF Joined
        <5>2. ~(p[1].len > MaxLen)
          <6>1. p[1].len \in Nat /\ MaxLen \in Nat
            BY <4>5, <4>6, HidFramingAssumption, <1>1
          <6>2. QED
            BY <4>8, <4>9, <6>1
        <5>3. QED
          BY <4>9, <5>1, <5>2
      <4>11. QED
        BY <1>2, <3>3, <4>10
    <3>6. QED
      BY <1>2, <2>2, <3>1, <3>2, <3>3, <3>4, <3>5
  <2>3. QED
    BY <2>1, <2>2
<1>8. QED
  BY <1>1, <1>4, <1>5, <1>7 DEF OutcomeInv

\* A frame leaves the table alone, gives a channel back, or is stored.
LEMMA TableCases ==
  ASSUME NEW t \in Transports, FrameEffect(t)
  PROVE  \/ /\ UNCHANGED channels /\ TooLongError(t)
         \/ Clears(Frame1(t))
         \/ \E c \in Seq(Chunk) : Stores(t, c)
BY DEF FrameEffect, TooLongError, Errs, Dispatches

LEMMA FrameTable ==
  ASSUME Inv, NEW t \in Transports, FrameEffect(t)
  PROVE  TableInv'
<1> DEFINE f == Frame1(t)
<1>1. Takes(t) /\ UNCHANGED <<wrapped, next_cid>> /\ f.chunk \in Chunk
      /\ f.chunk.len \in Nat
  BY TakenFacts DEF FrameEffect
<1>2. \A j \in Msgs : outcome[j] = "lost" <=> outcome'[j] = "lost"
  BY OutcomeFacts
<1>3. ASSUME NEW c \in Seq(Chunk), Joined(c, outcome) PROVE Joined(c, outcome')
  <2>1. \A q \in DOMAIN c : c[q].msg \in Msgs
    BY FrameFacts
  <2>2. QED
    BY <1>2, <1>3, <2>1 DEF Joined
<1>4. \A i \in Channels : /\ ChannelOK(channels[i])
                          /\ channels[i].msg \in Seq(Chunk)
  BY DEF Inv, TableInv, TypeOK, Channel
<1>5. next_cid \in Nat /\ next_cid # 0
  BY FrameFacts DEF Inv, TypeOK, IdInv
<1> HIDE DEF f
<1>6. CASE UNCHANGED channels
  BY <1>1, <1>3, <1>4, <1>6 DEF Inv, TableInv
<1>7. CASE Clears(f)
  <2>1. \A i \in Channels : channels'[i] = channels[i] \/ channels'[i] = Unused
    BY <1>7 DEF Clears
  <2>2. ChannelOK(Unused)
    BY UnusedFacts DEF ChannelOK
  <2>3. Joined(<<>>, outcome')
    BY DEF Joined
  <2>4. \A i \in Channels : ChannelOK(channels'[i])
    BY <1>4, <2>1, <2>2
  <2>5. ASSUME ~wrapped, NEW i \in Channels
        PROVE  channels'[i].cid < next_cid /\ Joined(channels'[i].msg, outcome')
    <3>1. channels[i].cid < next_cid /\ Joined(channels[i].msg, outcome)
      BY <2>5 DEF Inv, TableInv
    <3>2. CASE channels'[i] = channels[i]
      BY <1>3, <1>4, <3>1, <3>2
    <3>3. CASE channels'[i] = Unused
      BY <1>5, <2>3, <3>3, UnusedFacts
    <3>4. QED
      BY <2>1, <3>2, <3>3
  <2>6. ASSUME ~wrapped, NEW i \in Channels, NEW j \in Channels,
               channels'[i].in_use, channels'[j].in_use,
               channels'[i].cid = channels'[j].cid
        PROVE  i = j
    <3>1. channels'[i] = channels[i] /\ channels'[j] = channels[j]
      BY <2>1, <2>6, UnusedFacts
    <3>2. QED
      BY <2>6, <3>1 DEF Inv, TableInv
  <2>7. QED
    BY <1>1, <2>4, <2>5, <2>6 DEF TableInv
<1>8. ASSUME NEW c \in Seq(Chunk), Stores(t, c) PROVE TableInv'
  <2>1. PICK p : p = Append(c, f.chunk)
    OBVIOUS
  <2>2. /\ Prior(f, c) /\ Len(p) < p[1].len
        /\ \E i \in Channels :
             /\ channels'[i].in_use /\ channels'[i].cid = f.cid
             /\ channels'[i].msg = p /\ channels'[i].expected_len = p[1].len
             /\ channels'[i].next_seq = Len(p) - 1
             /\ \A j \in Channels \ {i} :
                  /\ channels'[j] = channels[j]
                  /\ ~wrapped /\ channels[j].in_use => channels[j].cid # f.cid
    BY <1>8, <2>1 DEF Stores, f
  <2>3. PICK i \in Channels :
          /\ channels'[i].in_use /\ channels'[i].cid = f.cid
          /\ channels'[i].msg = p /\ channels'[i].expected_len = p[1].len
          /\ channels'[i].next_seq = Len(p) - 1
          /\ \A j \in Channels \ {i} :
               /\ channels'[j] = channels[j]
               /\ ~wrapped /\ channels[j].in_use => channels[j].cid # f.cid
    BY <2>2
  <2>4. /\ p \in Seq(Chunk) /\ Len(p) = Len(c) + 1 /\ Len(c) \in Nat
        /\ \A q \in DOMAIN p : p[q].idx = q
    BY <1>1, <2>1, <2>2, PriorShape DEF f
  <2>5. f.cid # Broadcast
    BY <1>1, <1>8, StoredFacts DEF f
  <2>6. p # <<>>
    BY <2>4
  <2>7. ChannelOK(channels'[i])
    BY <2>2, <2>3, <2>4, <2>5, <2>6 DEF ChannelOK
  <2>8. ASSUME ~wrapped
        PROVE  channels'[i].cid < next_cid /\ Joined(channels'[i].msg, outcome')
    <3>1. f.cid < next_cid
      <4>1. f = Stream(t)[1] /\ 1 \in DOMAIN Stream(t)
        BY <1>1, TakenFacts DEF f
      <4>2. QED
        BY <2>5, <2>8, <4>1 DEF Inv, FramesInv, FrameOf
    <3>2. Joined(p, outcome)
      BY <1>1, <2>1, <2>2, <2>8, PriorFacts DEF f
    <3>3. QED
      BY <1>3, <2>3, <2>4, <3>1, <3>2
  <2>9. ASSUME NEW j \in Channels \ {i}
        PROVE  /\ ChannelOK(channels'[j])
               /\ ~wrapped => /\ channels'[j].cid < next_cid
                              /\ Joined(channels'[j].msg, outcome')
    <3>1. channels'[j] = channels[j]
      BY <2>3
    <3>2. ~wrapped =>
            channels[j].cid < next_cid /\ Joined(channels[j].msg, outcome)
      BY DEF Inv, TableInv
    <3>3. QED
      BY <1>3, <1>4, <3>1, <3>2
  <2>10. ASSUME ~wrapped, NEW j \in Channels, NEW k \in Channels, j # k,
                channels'[j].in_use, channels'[k].in_use,
                channels'[j].cid = channels'[k].cid
         PROVE  FALSE
    <3>1. CASE j = i
      BY <2>3, <2>10, <3>1
    <3>2. CASE k = i
      BY <2>3, <2>10, <3>2
    <3>3. CASE j # i /\ k # i
      BY <2>3, <2>10, <3>3 DEF Inv, TableInv
    <3>4. QED
      BY <3>1, <3>2, <3>3
  <2>11. QED
    BY <1>1, <2>7, <2>8, <2>9, <2>10 DEF TableInv
<1>9. QED
  BY <1>6, <1>7, <1>8, TableCases DEF f

LEMMA FrameHeld ==
  ASSUME Inv, NEW t \in Transports, FrameEffect(t)
  PROVE  HeldInv'
<1> DEFINE f == Frame1(t)
           s == Stream(t)
<1>1. /\ Takes(t) /\ f = s[1] /\ f \in Frame /\ 1 \in DOMAIN s
      /\ s \in Seq(Frame) /\ Shorter(s, Stream(t)') /\ DOMAIN s = 1..Len(s)
      /\ \A u \in Transports \ {t} : Stream(u)' = Stream(u)
      /\ f.chunk.msg \in Msgs /\ f.chunk.msg \in DOMAIN source
      /\ source[f.chunk.msg] = t /\ f.chunk.idx \in Nat \ {0}
      /\ f.chunk.len \in Nat \ {0} /\ f.chunk \in Chunk
      /\ UNCHANGED <<wrapped, host_cid, source, next_cid>>
  BY TakenFacts DEF FrameEffect
<1>2. /\ \A j \in Msgs : j # f.chunk.msg => outcome'[j] = outcome[j]
      /\ outcome[f.chunk.msg] # "none" =>
           outcome'[f.chunk.msg] = outcome[f.chunk.msg]
  BY OutcomeFacts
<1>3. \A u \in Transports : \A n \in DOMAIN Stream(u)' :
        \E k \in DOMAIN Stream(u) :
          Stream(u)'[n] = Stream(u)[k] /\ (u = t => 1 < k)
  <2>1. PICK r : r = Stream(t)'
    OBVIOUS
  <2>2. \A n \in DOMAIN r : n + 1 \in DOMAIN s /\ r[n] = s[n + 1] /\ 1 < n + 1
    BY <1>1, <2>1 DEF Shorter
  <2> HIDE DEF s
  <2>3. QED
    BY <1>1, <2>1, <2>2 DEF s
<1> HIDE DEF f, s
\* A chunk that was held stays so unless it is of the message now settled.
<1>4. ASSUME NEW x \in Chunk, NEW cid, ChunkOf(x, cid),
             \/ x.msg # f.chunk.msg \/ x.len > MaxLen \/ outcome' = outcome
      PROVE  ChunkOf(x, cid)'
  <2>1. x.len > MaxLen \/ outcome'[x.msg] \in {"none", "refused", "lost"}
    <3>1. x.msg \in Msgs
      BY FrameFacts
    <3>2. QED
      BY <1>2, <1>4, <3>1 DEF ChunkOf
  <2>2. QED
    BY <1>1, <1>3, <1>4, <2>1 DEF ChunkOf
<1>5. \A i \in Channels : channels[i].msg \in Seq(Chunk)
                          /\ ChannelOK(channels[i])
  BY DEF Inv, TypeOK, TableInv, Channel
<1>6. ASSUME ~wrapped, NEW i \in Channels, NEW q \in DOMAIN channels[i].msg
      PROVE  ChunkOf(channels[i].msg[q], channels[i].cid)
             /\ channels[i].msg[q] \in Chunk
  BY <1>5, <1>6 DEF Inv, HeldInv
<1>7. CASE UNCHANGED channels /\ TooLongError(t)
  <2>1. ASSUME ~wrapped, NEW i \in Channels, NEW q \in DOMAIN channels[i].msg
        PROVE  ChunkOf(channels[i].msg[q], channels[i].cid)'
    <3>1. f.chunk.len > MaxLen
      BY <1>7 DEF TooLongError, f
    <3>2. channels[i].msg[q].msg = f.chunk.msg =>
            channels[i].msg[q].len > MaxLen
      BY <1>1, <1>6, <2>1, <3>1 DEF ChunkOf, s
    <3>3. PICK x, cid : x = channels[i].msg[q] /\ cid = channels[i].cid
      OBVIOUS
    <3>4. ChunkOf(x, cid)'
      BY <1>4, <1>6, <2>1, <3>2, <3>3
    <3>5. x = channels'[i].msg[q] /\ cid = channels'[i].cid
      BY <1>7, <3>3
    <3>6. QED
      BY <3>4, <3>5 DEF ChunkOf
  <2>2. QED
    BY <1>1, <1>7, <2>1 DEF HeldInv
<1>8. CASE Clears(f)
  <2>1. ASSUME ~wrapped, NEW i \in Channels, NEW q \in DOMAIN channels'[i].msg
        PROVE  ChunkOf(channels[i].msg[q], channels[i].cid)'
    <3>1. channels'[i] = channels[i]
      <4>1. channels'[i] # Unused
        BY <2>1, UnusedFacts
      <4>2. QED
        BY <1>8, <4>1 DEF Clears
    <3>2. channels[i].in_use /\ channels[i].cid # f.cid
      <4>1. channels[i].msg # <<>>
        BY <2>1, <3>1
      <4>2. QED
        BY <1>5, <1>8, <2>1, <3>1, <4>1 DEF Clears, ChannelOK
    <3>3. channels[i].msg[q].msg # f.chunk.msg
      BY <1>1, <1>6, <2>1, <3>1, <3>2 DEF ChunkOf, s
    <3>4. PICK x, cid : x = channels[i].msg[q] /\ cid = channels[i].cid
      OBVIOUS
    <3>5. ChunkOf(x, cid)'
      BY <1>4, <1>6, <2>1, <3>1, <3>3, <3>4
    <3>6. x = channels'[i].msg[q] /\ cid = channels'[i].cid
      BY <3>1, <3>4
    <3>7. QED
      BY <3>5, <3>6 DEF ChunkOf
  <2>2. QED
    BY <1>1, <2>1 DEF HeldInv
<1>9. ASSUME NEW c \in Seq(Chunk), Stores(t, c) PROVE HeldInv'
  <2>1. PICK p : p = Append(c, f.chunk)
    OBVIOUS
  <2>2. /\ Prior(f, c) /\ outcome' = outcome
        /\ \E i \in Channels :
             /\ channels'[i].cid = f.cid /\ channels'[i].msg = p
             /\ \A j \in Channels \ {i} : channels'[j] = channels[j]
    BY <1>9, <2>1 DEF Stores, f
  <2>3. PICK i \in Channels :
          /\ channels'[i].cid = f.cid /\ channels'[i].msg = p
          /\ \A j \in Channels \ {i} : channels'[j] = channels[j]
    BY <2>2
  <2>4. /\ \A q \in DOMAIN c : p[q] = c[q] /\ c[q] \in Chunk
        /\ \A q \in DOMAIN p : q \in DOMAIN c \/ q = Len(p)
        /\ p[Len(p)] = f.chunk
    BY <1>1, <2>1, <2>2, PriorShape DEF f
  <2>5. f.cid # Broadcast
    BY <1>1, <1>9, StoredFacts DEF f
  <2>6. ASSUME ~wrapped, NEW x, NEW cid, x = f.chunk, cid = f.cid
        PROVE  ChunkOf(x, cid)'
    <3>1. /\ f.chunk.len <= MaxLen => outcome[f.chunk.msg] # "error"
          /\ outcome[f.chunk.msg] # "dispatched"
      BY <1>1, <2>2, <2>6, PriorFacts DEF Inv, OutcomeInv, f, s
    <3>2. f.chunk.len > MaxLen
          \/ outcome[f.chunk.msg] \in {"none", "refused", "lost"}
      <4>1. MaxLen \in Nat /\ outcome[f.chunk.msg] \in Outcomes
        BY <1>1, HidFramingAssumption DEF Inv, TypeOK
      <4>2. f.chunk.len > MaxLen \/ f.chunk.len <= MaxLen
        BY <1>1, <4>1
      <4>3. QED
        BY <3>1, <4>1, <4>2 DEF Outcomes
    <3>3. \A u \in Transports : host_cid[u] = f.cid => u = t
      BY <1>1, <2>5, <2>6 DEF Inv, OwnCidInv, s
    <3>4. ASSUME NEW u \in Transports, NEW n \in DOMAIN Stream(u)'
          PROVE  LET g == Stream(u)'[n]
                 IN  /\ g.cid = f.cid => t = u
                     /\ t = u => Before(f.chunk, g.chunk)
                     /\ g.chunk.msg = f.chunk.msg =>
                          g.cid = f.cid /\ g.chunk.len = f.chunk.len
      <4>1. PICK k \in DOMAIN Stream(u) :
              Stream(u)'[n] = Stream(u)[k] /\ (u = t => 1 < k)
        BY <1>3
      <4>2. Stream(u)[k].cid = f.cid => t = u
        BY <1>1, <2>5, <2>6 DEF Inv, OwnCidInv, s
      <4>3. t = u => Before(f.chunk, Stream(u)[k].chunk)
        BY <1>1, <4>1 DEF Inv, FramesInv, Ordered, s
      <4>4. Stream(u)[k].chunk.msg = f.chunk.msg => u = t
        BY <1>1 DEF Inv, FramesInv, FrameOf
      <4>5. Stream(u)[k].chunk.msg = f.chunk.msg =>
              /\ Stream(u)[k].cid = f.cid
              /\ Stream(u)[k].chunk.len = f.chunk.len
        BY <1>1, <4>4 DEF Inv, FramesInv, Ordered, s
      <4>6. QED
        BY <4>1, <4>2, <4>3, <4>5
    <3>5. x.len > MaxLen \/ outcome'[x.msg] \in {"none", "refused", "lost"}
      BY <2>2, <2>6, <3>2
    <3>6. QED
      BY <1>1, <2>6, <3>3, <3>4, <3>5 DEF ChunkOf
  <2>7. ASSUME ~wrapped, NEW j \in Channels, NEW q \in DOMAIN channels'[j].msg
        PROVE  ChunkOf(channels[j].msg[q], channels[j].cid)'
    <3>1. PICK x, cid : x = channels'[j].msg[q] /\ cid = channels'[j].cid
      OBVIOUS
    <3>2. CASE j # i
      <4>1. /\ x = channels[j].msg[q] /\ cid = channels[j].cid
            /\ q \in DOMAIN channels[j].msg
        BY <2>3, <2>7, <3>1, <3>2
      <4>2. ChunkOf(x, cid) /\ x \in Chunk
        BY <1>6, <2>7, <4>1
      <4>3. ChunkOf(x, cid)'
        BY <1>4, <2>2, <4>2
      <4>4. QED
        BY <3>1, <4>3 DEF ChunkOf
    <3>3. CASE j = i /\ q \in DOMAIN c
      <4>1. x = c[q] /\ cid = f.cid /\ x \in Chunk
        BY <2>3, <2>4, <3>1, <3>3
      <4>2. ChunkOf(x, cid)
        BY <1>1, <2>2, <2>7, <3>3, <4>1, PriorFacts DEF f
      <4>3. ChunkOf(x, cid)'
        BY <1>4, <2>2, <4>1, <4>2
      <4>4. QED
        BY <3>1, <4>3 DEF ChunkOf
    <3>4. CASE j = i /\ q = Len(p)
      <4>1. x = f.chunk /\ cid = f.cid
        BY <2>3, <2>4, <3>1, <3>4
      <4>2. ChunkOf(x, cid)'
        BY <2>6, <2>7, <4>1
      <4>3. QED
        BY <3>1, <4>2 DEF ChunkOf
    <3>5. QED
      BY <2>3, <2>4, <2>7, <3>2, <3>3, <3>4
  <2>8. QED
    BY <1>1, <2>7 DEF HeldInv
<1>10. QED
  BY <1>7, <1>8, <1>9, TableCases DEF f

LEMMA FrameNext ==
  ASSUME Inv, NEW t \in Transports, FrameEffect(t)
  PROVE  NextInv'
<1> DEFINE f == Frame1(t)
           s == Stream(t)
<1>1. /\ Takes(t) /\ f = s[1] /\ f \in Frame /\ 1 \in DOMAIN s
      /\ s \in Seq(Frame) /\ Shorter(s, Stream(t)') /\ DOMAIN s = 1..Len(s)
      /\ \A u \in Transports \ {t} : Stream(u)' = Stream(u)
      /\ f.chunk.msg \in Msgs /\ f.chunk.msg \in DOMAIN source
      /\ source[f.chunk.msg] = t /\ f.chunk \in Chunk
      /\ f.chunk.len \in Nat \ {0}
      /\ UNCHANGED <<wrapped, host_cid, source, next_cid>>
  BY TakenFacts DEF FrameEffect
<1>2. \A j \in Msgs : j # f.chunk.msg => outcome'[j] = outcome[j]
  BY OutcomeFacts
<1>3. TableInv'
  BY FrameTable
<1>4. MaxLen \in Nat
  BY HidFramingAssumption
<1> HIDE DEF f, s
<1>5. SUFFICES ASSUME ~wrapped, NEW u \in Transports, Stream(u)' # <<>>,
                      NEW g, g = Stream(u)'[1], g.chunk.idx > 1,
                      g.chunk.len <= MaxLen, NEW i \in Channels,
                      channels'[i].cid = g.cid, channels'[i].msg # <<>>
               PROVE  LET c == channels'[i].msg
                      IN  /\ outcome'[g.chunk.msg] # "error"
                          /\ Sound(outcome', g.chunk.msg) =>
                               c[Len(c)].msg = g.chunk.msg
  BY <1>1 DEF NextInv, Finds
\* What is stored can only be found by the rest of its own stream.
<1>6. /\ channels'[i] = channels[i]
      \/ /\ channels'[i].cid = f.cid /\ f.cid # Broadcast
         /\ channels'[i].msg[Len(channels'[i].msg)] = f.chunk
         /\ outcome' = outcome
         /\ f.chunk.len <= MaxLen => outcome[f.chunk.msg] # "error"
  <2>1. CASE UNCHANGED channels
    BY <2>1
  <2>2. CASE Clears(f)
    BY <1>5, <2>2, UnusedFacts DEF Clears
  <2>3. ASSUME NEW c \in Seq(Chunk), Stores(t, c)
        PROVE  \/ channels'[i] = channels[i]
               \/ /\ channels'[i].cid = f.cid /\ f.cid # Broadcast
                  /\ channels'[i].msg[Len(channels'[i].msg)] = f.chunk
                  /\ outcome' = outcome
                  /\ f.chunk.len <= MaxLen => outcome[f.chunk.msg] # "error"
    <3>1. PICK p : p = Append(c, f.chunk)
      OBVIOUS
    <3>2. /\ Prior(f, c) /\ outcome' = outcome
          /\ \E j \in Channels :
               /\ channels'[j].cid = f.cid /\ channels'[j].msg = p
               /\ \A k \in Channels \ {j} : channels'[k] = channels[k]
      BY <2>3, <3>1 DEF Stores, f
    <3>3. p[Len(p)] = f.chunk
      BY <1>1, <3>1, <3>2, PriorShape DEF f
    <3>4. f.cid # Broadcast
      BY <1>1, <2>3, StoredFacts DEF f
    <3>5. f.chunk.len <= MaxLen => outcome[f.chunk.msg] # "error"
      BY <1>1, <1>5, <3>2, PriorFacts DEF f
    <3>6. QED
      BY <3>2, <3>3, <3>4, <3>5
  <2>4. QED
    BY <2>1, <2>2, <2>3, TableCases DEF f
<1>7. CASE u # t
  <2>1. /\ g = Stream(u)[1] /\ 1 \in DOMAIN Stream(u) /\ Stream(u) # <<>>
        /\ g \in Frame /\ source[g.chunk.msg] = u
    <3>1. Stream(u) # <<>> /\ g = Stream(u)[1]
      BY <1>1, <1>5, <1>7
    <3>2. 1 \in DOMAIN Stream(u)
      BY <3>1, StreamType DEF Inv
    <3>3. QED
      BY <3>1, <3>2, StreamType DEF Inv, FramesInv, FrameOf
  <2>2. outcome'[g.chunk.msg] = outcome[g.chunk.msg]
    BY <1>1, <1>2, <1>7, <2>1, FrameFacts
  <2>3. g.cid = f.cid => f.cid = Broadcast
    BY <1>1, <1>5, <1>7, <2>1 DEF Inv, OwnCidInv, s
  <2>4. channels'[i] = channels[i]
    BY <1>5, <1>6, <2>3
  <2>5. Finds(g, channels[i])
    BY <1>5, <2>1 DEF Inv, NextInv
  <2>6. QED
    BY <1>5, <2>2, <2>4, <2>5 DEF Finds, Sound
<1>8. CASE u = t
  <2>1. g = s[2] /\ 2 \in DOMAIN s
    <3>1. PICK r : r = Stream(t)'
      OBVIOUS
    <3>2. r # <<>> /\ r \in Seq(Frame) /\ Len(s) = Len(r) + 1
          /\ \A n \in 1..Len(r) : r[n] = s[n + 1]
      BY <1>1, <1>5, <1>8, <3>1 DEF Shorter
    <3>3. 1 \in 1..Len(r) /\ 1 + 1 = 2 /\ 2 \in 1..Len(s)
      BY <3>2
    <3>4. QED
      BY <1>1, <1>5, <1>8, <3>1, <3>2, <3>3
  <2>2. g \in Frame /\ g.chunk.msg \in Msgs
    BY <1>1, <2>1, FrameFacts
  <2>3. CASE g.chunk.msg = f.chunk.msg
    <3>1. g.cid = f.cid /\ g.chunk.len = f.chunk.len
      BY <1>1, <2>1, <2>3 DEF Inv, FramesInv, Ordered, s
    <3>2. f.chunk.len <= MaxLen
      BY <1>5, <3>1
    <3>3. channels'[i].in_use
      BY <1>3, <1>5 DEF TableInv, ChannelOK
    <3>4. ~Clears(f)
      BY <1>5, <3>1, <3>3 DEF Clears
    <3>5. ~TooLongError(t)
      BY <1>1, <1>4, <3>2 DEF TooLongError, f
    <3>6. PICK c \in Seq(Chunk) : Stores(t, c)
      BY <3>4, <3>5, TableCases DEF f
    <3>7. PICK p : p = Append(c, f.chunk)
      OBVIOUS
    <3>8. /\ Prior(f, c) /\ outcome' = outcome
          /\ \E j \in Channels :
               /\ channels'[j].cid = f.cid /\ channels'[j].msg = p
               /\ \A k \in Channels \ {j} :
                    /\ channels'[k] = channels[k]
                    /\ channels[k].in_use => channels[k].cid # f.cid
      BY <1>5, <3>6, <3>7 DEF Stores, f
    <3>9. channels'[i].msg = p
      BY <1>5, <3>1, <3>3, <3>8
    <3>10. p[Len(p)] = f.chunk
      BY <1>1, <3>7, <3>8, PriorShape DEF f
    <3>11. outcome[f.chunk.msg] # "error"
      BY <1>1, <1>5, <3>2, <3>8, PriorFacts DEF f
    <3>12. QED
      BY <2>3, <3>8, <3>9, <3>10, <3>11
  <2>4. CASE g.chunk.msg # f.chunk.msg
    <3>1. outcome'[g.chunk.msg] = outcome[g.chunk.msg]
      BY <1>2, <2>2, <2>4
    <3>2. outcome[g.chunk.msg] # "error"
      BY <1>1, <2>1, <2>4 DEF Inv, LinkInv, Answered, s
    <3>3. ~Sound(outcome, g.chunk.msg)
      <4>1. 2 > 1 /\ 2 - 1 = 1
        OBVIOUS
      <4>2. Linked(s, outcome)
        BY DEF Inv, LinkInv, s
      <4>3. QED
        BY <1>1, <1>5, <2>1, <2>4, <4>1, <4>2 DEF Linked
    <3>4. QED
      BY <3>1, <3>2, <3>3 DEF Sound
  <2>5. QED
    BY <2>3, <2>4
<1>9. QED
  BY <1>7, <1>8

LEMMA FrameHeard ==
  ASSUME Inv, NEW t \in Transports, FrameEffect(t)
  PROVE  HeardInv'
<1> DEFINE f == Frame1(t)
           s == Stream(t)
<1>1. /\ Takes(t) /\ f = s[1] /\ f \in Frame /\ 1 \in DOMAIN s
      /\ s \in Seq(Frame) /\ Shorter(s, Stream(t)') /\ DOMAIN s = 1..Len(s)
      /\ \A u \in Transports \ {t} : Stream(u)' = Stream(u)
      /\ f.chunk.msg \in Msgs /\ f.chunk.idx <= f.chunk.len
      /\ f.chunk.len \in Nat \ {0} /\ f.chunk.idx \in Nat \ {0}
      /\ UNCHANGED <<wrapped, host_cid, source, next_cid>>
      /\ f.chunk \in Chunk
  BY TakenFacts DEF FrameEffect
<1>2. /\ \A j \in Msgs : outcome'[j] = "none" => outcome[j] = "none"
      /\ outcome'[f.chunk.msg] = "none" => \E c \in Seq(Chunk) : Stores(t, c)
  BY OutcomeFacts
<1>3. DOMAIN source \subseteq Msgs
  BY HidFramingAssumption DEF Inv, TypeOK, Msgs
<1> HIDE DEF f, s
<1>4. PICK r : r = Stream(t)'
  OBVIOUS
<1>5. /\ r \in Seq(Frame) /\ Len(s) = Len(r) + 1 /\ DOMAIN r = 1..Len(r)
      /\ \A n \in 1..Len(r) : r[n] = s[n + 1] /\ Len(r) \in Nat
  BY <1>1, <1>4 DEF Shorter
<1>6. ASSUME NEW n \in DOMAIN s, n > 1
      PROVE  n - 1 \in DOMAIN r /\ r[n - 1] = s[n]
  <2>1. n - 1 \in 1..Len(r) /\ (n - 1) + 1 = n
    BY <1>1, <1>5, <1>6
  <2>2. QED
    BY <1>5, <2>1
<1>7. SUFFICES ASSUME ~wrapped, NEW u \in Transports, NEW m \in DOMAIN source,
                      source[m] = u, outcome'[m] = "none"
               PROVE  \E n \in DOMAIN Stream(u)' : Stream(u)'[n].chunk.msg = m
  BY <1>1 DEF HeardInv
<1>8. outcome[m] = "none"
  BY <1>2, <1>3, <1>7
<1>9. PICK n \in DOMAIN Stream(u) : Stream(u)[n].chunk.msg = m
  BY <1>7, <1>8 DEF Inv, HeardInv
<1>10. CASE u # t
  BY <1>1, <1>9, <1>10
<1>11. CASE u = t /\ n # 1
  <2>1. n \in DOMAIN s /\ n > 1 /\ s[n].chunk.msg = m
    BY <1>1, <1>9, <1>11 DEF s
  <2>2. QED
    BY <1>4, <1>6, <1>11, <2>1
<1>12. CASE u = t /\ n = 1
  <2>1. m = f.chunk.msg
    BY <1>1, <1>9, <1>12 DEF s
  <2>2. PICK c \in Seq(Chunk) : Stores(t, c)
    BY <1>2, <1>7, <2>1
  <2>3. PICK p : p = Append(c, f.chunk)
    OBVIOUS
  <2>4. Prior(f, c) /\ Len(p) < p[1].len /\ p[1].len <= MaxLen
    BY <2>2, <2>3 DEF Stores, f
  <2>5. /\ p[Len(p)] = f.chunk /\ f.chunk.idx = Len(p)
        /\ Len(p) \in DOMAIN p /\ 1 \in DOMAIN p /\ p \in Seq(Chunk)
        /\ \A q \in DOMAIN p : q \in DOMAIN c \/ q = Len(p)
    BY <1>1, <2>3, <2>4, PriorShape DEF f
  <2>6. /\ Joined(p, outcome)
        /\ f.chunk.len > MaxLen => outcome[f.chunk.msg] # "none"
    BY <1>1, <1>7, <2>3, <2>4, PriorFacts DEF f
  <2>7. p[1].len = f.chunk.len
    <3>1. \/ p[1].msg = f.chunk.msg \/ p[1].len > MaxLen \/ f.chunk.len > MaxLen
          \/ outcome[f.chunk.msg] = "lost"
      BY <2>5, <2>6 DEF Joined
    <3>2. ~(p[1].len > MaxLen)
      <4>1. p[1].len \in Nat /\ MaxLen \in Nat
        BY <2>5, FrameFacts, HidFramingAssumption
      <4>2. QED
        BY <2>4, <4>1
    <3>3. p[1].msg = f.chunk.msg
      BY <1>8, <2>1, <2>6, <3>1, <3>2
    <3>4. QED
      BY <2>5, <2>6, <3>3 DEF Joined
  <2>8. f.chunk.idx < f.chunk.len
    BY <2>4, <2>5, <2>7
  <2>9. 1 < Len(s) /\ s[1 + 1].chunk.msg = m
    <3>1. Linked(s, outcome)
      BY DEF Inv, LinkInv, s
    <3>2. QED
      BY <1>1, <1>8, <2>1, <2>8, <3>1 DEF Linked
  <2>10. 1 + 1 \in DOMAIN s /\ 1 + 1 > 1
    BY <1>1, <2>9
  <2>11. QED
    BY <1>4, <1>6, <1>12, <2>9, <2>10
<1>13. QED
  BY <1>10, <1>11, <1>12

LEMMA FrameWhole ==
  ASSUME Inv, NEW t \in Transports, FrameEffect(t)
  PROVE  DispatchedWhole'
<1> DEFINE f == Frame1(t)
<1>1. /\ Takes(t) /\ f.chunk.msg \in DOMAIN source /\ f.chunk \in Chunk
      /\ source[f.chunk.msg] = t /\ UNCHANGED <<wrapped, source>>
      /\ f.chunk.len \in Nat
  BY TakenFacts DEF FrameEffect
<1>2. \A j \in Msgs : outcome[j] = "lost" <=> outcome'[j] = "lost"
  BY OutcomeFacts
<1> DEFINE Good(payload, u, out) ==
             \/ payload = <<>>
             \/ \E m \in DOMAIN source :
                  /\ source[m] = u
                  /\ \A i \in DOMAIN payload :
                       /\ payload[i].msg = m /\ payload[i].idx = i
                       /\ payload[i].len = Len(payload)
             \/ \E i \in DOMAIN payload : payload[i].len > MaxLen
             \/ \E i, j \in DOMAIN payload :
                  /\ payload[i].msg # payload[j].msg
                  /\ out[payload[i].msg] = "lost"
                  /\ out[payload[j].msg] = "lost"
<1>3. ASSUME NEW p \in Seq(Chunk), NEW u, Good(p, u, outcome)
      PROVE  Good(p, u, outcome')
  <2>1. \A i \in DOMAIN p : p[i].msg \in Msgs
    BY FrameFacts
  <2>2. QED
    BY <1>2, <1>3, <2>1
<1>4. \A u \in Transports : ~wrapped => Good(dispatched[u], u, outcome)
  BY DEF Inv, DispatchedWhole
<1>5. dispatched \in [Transports -> Seq(Chunk)]
  BY DEF Inv, TypeOK
<1> HIDE DEF f, Good
<1>6. ASSUME NEW c \in Seq(Chunk), Dispatches(t, c), ~wrapped
      PROVE  LET p == Append(c, f.chunk)
             IN  /\ p \in Seq(Chunk) /\ Good(p, t, outcome)
                 /\ dispatched' = [dispatched EXCEPT ![t] = p]
  <2>1. PICK p : p = Append(c, f.chunk)
    OBVIOUS
  <2>2. /\ Prior(f, c) /\ Len(p) = p[1].len
        /\ dispatched' = [dispatched EXCEPT ![t] = p]
    BY <1>6, <2>1 DEF Dispatches, f
  <2>3. /\ p \in Seq(Chunk) /\ p[Len(p)] = f.chunk
        /\ DOMAIN p = 1..Len(p) /\ Len(p) \in DOMAIN p /\ 1 \in DOMAIN p
        /\ \A q \in DOMAIN p : p[q].idx = q
    BY <1>1, <2>1, <2>2, PriorShape DEF f
  <2>4. Joined(p, outcome)
    BY <1>1, <1>6, <2>1, <2>2, PriorFacts DEF f
  <2>5. CASE \A q \in DOMAIN p : p[q].msg = f.chunk.msg
    <3>1. \A q \in DOMAIN p : p[q].len = p[1].len
      BY <2>3, <2>4, <2>5 DEF Joined
    <3>2. \A q \in DOMAIN p : /\ p[q].msg = f.chunk.msg /\ p[q].idx = q
                              /\ p[q].len = Len(p)
      BY <2>2, <2>3, <2>5, <3>1
    <3>3. Good(p, t, outcome)
      BY <1>1, <3>2 DEF Good
    <3>4. QED
      BY <2>1, <2>2, <2>3, <3>3
  <2>6. ASSUME NEW q \in DOMAIN p, p[q].msg # f.chunk.msg
        PROVE  Good(p, t, outcome)
    BY <2>3, <2>4, <2>6 DEF Joined, Good
  <2>7. QED
    BY <2>1, <2>2, <2>3, <2>5, <2>6
<1>7. CASE dispatched' = dispatched
  <2>1. \A u \in Transports : ~wrapped => Good(dispatched[u], u, outcome')
    BY <1>3, <1>4, <1>5
  <2>2. QED
    BY <1>1, <1>7, <2>1 DEF DispatchedWhole, Good
<1>8. ASSUME NEW c \in Seq(Chunk), Dispatches(t, c) PROVE DispatchedWhole'
  <2>1. CASE wrapped
    BY <1>1, <2>1 DEF DispatchedWhole
  <2>2. CASE ~wrapped
    <3>1. PICK p \in Seq(Chunk) : /\ Good(p, t, outcome)
                                  /\ dispatched' = [dispatched EXCEPT ![t] = p]
      BY <1>6, <1>8, <2>2
    <3>2. Good(p, t, outcome')
      BY <1>3, <3>1
    <3>3. \A u \in Transports : Good(dispatched[u], u, outcome')
      BY <1>3, <1>4, <1>5, <2>2
    <3>4. \A u \in Transports :
            dispatched'[u] = IF u = t THEN p ELSE dispatched[u]
      BY <1>5, <3>1
    <3>5. \A u \in Transports : Good(dispatched'[u], u, outcome')
      BY <3>2, <3>3, <3>4
    <3>6. QED
      BY <1>1, <3>5 DEF DispatchedWhole, Good
  <2>3. QED
    BY <2>1, <2>2
<1>9. QED
  BY <1>7, <1>8
     DEF FrameEffect, TooLongError, Errs, Error, Stores

-----------------------------------------------------------------------------
(* The theorems.                                                            *)

LEMMA InitInv == Init => Inv
<1> SUFFICES ASSUME Init PROVE Inv
  OBVIOUS
<1>1. \A t \in Transports : Stream(t) = <<>>
  BY DEF Init, Stream
<1>2. /\ channels = [i \in Channels |-> Unused]
      /\ next_cid \in FirstCids /\ wrapped = FALSE
      /\ rx_packets = [t \in Transports |-> <<>>]
      /\ pc = [t \in Transports |-> "frame"]
      /\ host_cid = [t \in Transports |-> NoCid]
      /\ writing = [t \in Transports |-> <<>>]
      /\ source = <<>> /\ lost = 0
      /\ outcome = [m \in Msgs |-> "none"]
      /\ dispatched = [t \in Transports |-> <<>>]
  BY DEF Init
<1>3. /\ next_cid \in Cids \ {0} /\ Broadcast \in Cids \ {0} /\ next_cid \in Nat
      /\ NoCid \notin {0, Broadcast}
  BY <1>2, HidFramingAssumption, FrameFacts DEF Cids, Broadcast, NoCid
<1>4. TypeOK
  <2>1. \A i \in Channels : Len(channels[i].msg) <= channels[i].expected_len
    <3>1. Len(<<>>) <= 0
      OBVIOUS
    <3>2. QED
      BY <1>2, <3>1, UnusedFacts
  <2>2. channels \in [Channels -> Channel]
    BY <1>2, UnusedFacts
  <2>3. /\ \A t \in Transports : Len(rx_packets[t]) <= QueueDepth
        /\ rx_packets \in [Transports -> Seq(Frame)]
        /\ writing \in [Transports -> Seq(Frame)]
        /\ dispatched \in [Transports -> Seq(Chunk)]
    BY <1>2, HidFramingAssumption
  <2>4. /\ source \in Seq(Transports) /\ Len(source) <= MaxMsgs
        /\ lost \in 0..MaxLost
    BY <1>2, HidFramingAssumption
  <2>5. /\ outcome \in [Msgs -> Outcomes] /\ wrapped \in BOOLEAN
        /\ pc \in [Transports -> {"frame", "init"}]
        /\ host_cid \in [Transports -> Cids \cup {NoCid}]
    BY <1>2, <1>3 DEF Outcomes
  <2>6. QED
    BY <1>3, <2>1, <2>2, <2>3, <2>4, <2>5 DEF TypeOK
<1>5. IdInv
  BY <1>2, <1>3, FrameFacts DEF IdInv
<1>6. FramesInv /\ LinkInv /\ OwnCidInv
  BY <1>1 DEF FramesInv, LinkInv, OwnCidInv, Ordered, Linked, Answered,
              LongSettled
<1>7. WriteInv
  BY <1>2 DEF WriteInv
<1>8. OutcomeInv
  BY <1>1, <1>2 DEF OutcomeInv
<1>9. \A i \in Channels : channels[i] = Unused /\ channels[i].msg = <<>>
  BY <1>2, UnusedFacts
<1>10. TableInv
  <2>1. ChannelOK(Unused)
    BY UnusedFacts DEF ChannelOK
  <2>2. Joined(<<>>, outcome)
    BY DEF Joined
  <2>3. QED
    BY <1>3, <1>9, <2>1, <2>2, UnusedFacts DEF TableInv
<1>11. HeldInv /\ NextInv
  BY <1>1, <1>9 DEF HeldInv, NextInv
<1>12. HeardInv /\ DispatchedWhole
  BY <1>2 DEF HeardInv, DispatchedWhole
<1>13. QED
  BY <1>4, <1>5, <1>6, <1>7, <1>8, <1>10, <1>11, <1>12 DEF Inv

LEMMA StepInv == Inv /\ [Next]_vars => Inv'
<1> SUFFICES ASSUME Inv, [Next]_vars PROVE Inv'
  OBVIOUS
<1>0. /\ TypeOK /\ IdInv /\ FramesInv /\ LinkInv /\ WriteInv /\ OwnCidInv
      /\ OutcomeInv /\ TableInv /\ HeldInv /\ NextInv /\ HeardInv
      /\ DispatchedWhole
  BY DEF Inv
<1>1. /\ TypeOK'
      /\ \/ Quiet /\ (Written \/ UNCHANGED writing)
         \/ \E t \in Transports :
              \/ FrameEffect(t)
              \/ \E id \in Cids : InitEffect(t, id)
              \/ \E w \in Seq(Frame) : SendEffect(t, w)
              \/ \E k \in Nat, d \in Nat, r \in {"lost", "refused"} :
                   CutEffect(t, k, d, r)
  BY <1>0, StepEffects
<1>2. CASE Quiet /\ (Written \/ UNCHANGED writing)
  <2>1. WriteInv'
    BY <1>0, <1>2, WriteInvStep
  <2>2. IdInv'
    BY <1>0, <1>2, IdStep DEF Quiet, driverVars
  <2>3. QED
    BY <1>0, <1>1, <1>2, <2>1, <2>2, QuietStep DEF Inv
<1>3. ASSUME NEW t \in Transports, FrameEffect(t) PROVE Inv'
  <2>1. /\ \A u \in Transports : \E k, d : Cut(Stream(u), k, d, Stream(u)')
        /\ UNCHANGED <<next_cid, wrapped, host_cid, source>>
    BY <1>0, <1>3, CutAll
  <2>2. UNCHANGED writing
    BY <1>3 DEF FrameEffect, Takes, hostVars
  <2>3. WriteInv'
    BY <1>0, <2>2, WriteInvStep
  <2>4. IdInv'
    BY <1>0, <2>1, IdStep
  <2>5. FramesInv' /\ OwnCidInv'
    BY <1>0, <2>1, FramesStep, OwnCidStep
  <2>6. /\ LinkInv' /\ OutcomeInv' /\ TableInv' /\ HeldInv' /\ NextInv'
        /\ HeardInv' /\ DispatchedWhole'
    BY <1>3, FrameLinks, FrameOutcomes, FrameTable, FrameHeld, FrameNext,
       FrameHeard, FrameWhole
  <2>7. QED
    BY <1>1, <2>3, <2>4, <2>5, <2>6 DEF Inv
<1>4. ASSUME NEW t \in Transports, NEW id \in Cids, InitEffect(t, id) PROVE Inv'
  <2>1. WriteInv'
    BY <1>0, <1>4, WriteInvStep DEF InitEffect
  <2>2. IdInv'
    BY <1>0, <1>4, IdStep
  <2>3. FramesInv' /\ OwnCidInv'
    BY <1>0, <1>4, FramesStep, OwnCidStep
  <2>4. QED
    BY <1>1, <1>4, <2>1, <2>2, <2>3, InitRest DEF Inv
<1>5. ASSUME NEW t \in Transports, NEW w \in Seq(Frame), SendEffect(t, w)
      PROVE  Inv'
  <2>1. WriteInv'
    BY <1>0, <1>5, WriteInvStep
  <2>2. IdInv'
    BY <1>0, <1>5, IdStep DEF SendEffect, driverVars
  <2>3. FramesInv' /\ OwnCidInv'
    BY <1>0, <1>5, FramesStep, OwnCidStep
  <2>4. LinkInv'
    BY <1>0, <1>5, SendLinks
  <2>5. QED
    BY <1>1, <1>5, <2>1, <2>2, <2>3, <2>4, SendRest DEF Inv
<1>6. ASSUME NEW t \in Transports, NEW k \in Nat, NEW d \in Nat,
             NEW r \in {"lost", "refused"}, CutEffect(t, k, d, r)
      PROVE  Inv'
  <2>1. /\ \A u \in Transports : \E j, e : Cut(Stream(u), j, e, Stream(u)')
        /\ UNCHANGED <<next_cid, wrapped, host_cid, source>>
    BY <1>0, <1>6, CutAll
  <2>2. WriteInv'
    BY <1>0, <1>6, WriteInvStep DEF CutEffect
  <2>3. IdInv'
    BY <1>0, <2>1, IdStep
  <2>4. FramesInv' /\ OwnCidInv'
    BY <1>0, <1>6, <2>1, FramesStep, OwnCidStep
  <2>5. QED
    BY <1>1, <1>6, <2>2, <2>3, <2>4, CutRest DEF Inv
<1>7. QED
  BY <1>1, <1>2, <1>3, <1>4, <1>5, <1>6

\* The invariant says what the properties do.
LEMMA InvSays == Inv => IdsUsable /\ NoSilence
<1> SUFFICES ASSUME Inv PROVE IdsUsable /\ NoSilence
  OBVIOUS
<1>1. IdsUsable
  BY DEF Inv, IdInv, IdsUsable
<1>2. ASSUME NEW m \in DOMAIN source, ~wrapped, outcome[m] = "none"
      PROVE  \/ \E i \in DOMAIN writing[source[m]] :
                  writing[source[m]][i].chunk.msg = m
             \/ \E i \in DOMAIN rx_packets[source[m]] :
                  rx_packets[source[m]][i].chunk.msg = m
  <2>1. PICK t \in Transports : t = source[m]
    BY DEF Inv, TypeOK
  <2>2. PICK n \in DOMAIN Stream(t) : Stream(t)[n].chunk.msg = m
    BY <1>2, <2>1 DEF Inv, HeardInv
  <2> DEFINE a == rx_packets[t]
             b == writing[t]
  <2>3. a \in Seq(Frame) /\ b \in Seq(Frame)
    BY DEF Inv, TypeOK
  <2>4. /\ DOMAIN Stream(t) = 1..(Len(a) + Len(b))
        /\ \A j \in 1..(Len(a) + Len(b)) :
             Stream(t)[j] = IF j <= Len(a) THEN a[j] ELSE b[j - Len(a)]
    BY <2>3, StreamFacts, StreamType DEF Inv, Stream
  <2> HIDE DEF a, b
  <2>5. CASE n <= Len(a)
    <3>1. n \in DOMAIN a /\ a[n].chunk.msg = m
      BY <2>2, <2>3, <2>4, <2>5
    <3>2. QED
      BY <2>1, <3>1 DEF a
  <2>6. CASE ~(n <= Len(a))
    <3>1. n - Len(a) \in DOMAIN b /\ b[n - Len(a)].chunk.msg = m
      BY <2>2, <2>3, <2>4, <2>6
    <3>2. QED
      BY <2>1, <3>1 DEF b
  <2>7. QED
    BY <2>5, <2>6
<1>3. NoSilence
  BY <1>2 DEF NoSilence
<1>4. QED
  BY <1>1, <1>3

LEMMA Invariance == Spec => []Inv
BY InitInv, StepInv, PTL DEF Spec

\* The variables keep their types: no channel holds more chunks than its
\* message announced, nor that more than ABK_FIDO_MAX_MSG, and no queue more
\* than ABK_FIDO_QUEUE_DEPTH frames, whatever hosts send.
THEOREM TypeCorrect == Spec => []TypeOK
<1>1. Inv => TypeOK
  BY DEF Inv
<1>2. QED
  BY <1>1, Invariance, PTL

\* No host is given a reserved id, nor that of another host before next_cid
\* has gone through zero (abk_fido_next_cid_locked).
THEOREM IdsAreUsable == Spec => []IdsUsable
BY InvSays, Invariance, PTL

\* Every payload that a worker dispatches is one whole message of its own
\* transport, but for messages that announced too much, for two that have lost
\* frames, and for ids that repeat (abk_fido_process_packet).
THEOREM DispatchIsWhole == Spec => []DispatchedWhole
<1>1. Inv => DispatchedWhole
  BY DEF Inv
<1>2. QED
  BY <1>1, Invariance, PTL

\* Every message is dispatched or answered by the time its last frame has been
\* taken, whichever transports take its channel over in between.
THEOREM NobodyIsIgnored == Spec => []NoSilence
BY InvSays, Invariance, PTL

=============================================================================
