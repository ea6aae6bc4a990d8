------------------------ MODULE AuthenticatorProofs -------------------------
(***************************************************************************)
(* Proofs about the CTAP2 commands, for every store size, all relying      *)
(* parties, lists and companion edits, and any number of transports.       *)
(***************************************************************************)
EXTENDS Authenticator, WellFoundedInduction, TLAPS

-----------------------------------------------------------------------------
(* Induction over the natural numbers, in the first-order form that the     *)
(* provers can use.                                                         *)

NatLess == {p \in Nat \X Nat : p[1] < p[2]}

\* A set of numbers that is not empty has a least one.
LEMMA LeastNumber ==
  ASSUME NEW T \in SUBSET Nat, T # {}
  PROVE  \E n \in T : \A m \in T : n <= m
<1>1. IsWellFoundedOn(NatLess, Nat)
  BY NatLessThanWellFounded DEF OpToRel, NatLess
<1>2. PICK n \in T : \A m \in T : <<m, n>> \notin NatLess
  BY <1>1, WFMin
<1>3. \A m \in T : <<m, n>> \in Nat \X Nat /\ <<m, n>>[1] = m /\ <<m, n>>[2] = n
  OBVIOUS
<1>4. \A m \in T : ~(m < n)
  BY <1>2, <1>3 DEF NatLess
<1>5. QED
  BY <1>4

\* A set that has 0 and the successor of each of its members has every number.
LEMMA NatInduct ==
  ASSUME NEW P, 0 \in P, \A n \in Nat : n \in P => n + 1 \in P
  PROVE  Nat \subseteq P
<1> SUFFICES ASSUME Nat \ P # {} PROVE FALSE
  OBVIOUS
<1>1. PICK n \in Nat \ P : \A m \in Nat \ P : n <= m
  BY LeastNumber
<1>2. n # 0 /\ n - 1 \in Nat /\ n - 1 \in P
  BY <1>1
<1>3. QED
  BY <1>1, <1>2

-----------------------------------------------------------------------------
(* What the search for credentials returns.                                 *)

\* The loop over the slots, as a function of the slots it has seen.
Collects(f, creds, r) ==
  f = [n \in 0..MaxCreds |->
         IF n = 0 THEN <<>>
         ELSE IF Matches(creds, r, n) THEN Append(f[n - 1], n)
         ELSE f[n - 1]]

LEMMA CollectExists ==
  ASSUME NEW creds, NEW r
  PROVE  \E f : Collects(f, creds, r) /\ CollectSlots(creds, r) = f[MaxCreds]
<1> DEFINE Upto(f, n) ==
             /\ f \in [0..n -> Seq(Nat)] /\ f[0] = <<>>
             /\ \A i \in 1..n :
                  f[i] = IF Matches(creds, r, i) THEN Append(f[i - 1], i)
                                                 ELSE f[i - 1]
           P == {n \in Nat : \E f : Upto(f, n)}
<1>1. 0 \in P
  <2>1. Upto([i \in 0..0 |-> <<>>], 0)
    OBVIOUS
  <2> HIDE DEF Upto
  <2>2. QED
    BY <2>1
<1>2. ASSUME NEW n \in Nat, n \in P PROVE n + 1 \in P
  <2>1. PICK f : Upto(f, n)
    BY <1>2
  <2> DEFINE x == IF Matches(creds, r, n + 1) THEN Append(f[n], n + 1)
                                              ELSE f[n]
             g == [i \in 0..(n + 1) |-> IF i = n + 1 THEN x ELSE f[i]]
  <2>2. f[n] \in Seq(Nat) /\ x \in Seq(Nat)
    BY <2>1
  <2>3. /\ g[n + 1] = x /\ \A i \in 0..n : g[i] = f[i]
        /\ \A i \in 1..(n + 1) : i = n + 1 \/ i \in 1..n
        /\ \A i \in 1..n : i - 1 \in 0..n
    OBVIOUS
  <2> HIDE DEF x
  <2>4. g \in [0..(n + 1) -> Seq(Nat)]
    BY <2>1, <2>2
  <2> HIDE DEF g
  <2>5. g[0] = <<>>
    BY <2>1, <2>3
  <2>6. ASSUME NEW i \in 1..(n + 1)
        PROVE  g[i] = IF Matches(creds, r, i) THEN Append(g[i - 1], i)
                                              ELSE g[i - 1]
    <3>1. CASE i = n + 1
      BY <2>3, <3>1 DEF x
    <3>2. CASE i \in 1..n
      BY <2>1, <2>3, <3>2
    <3>3. QED
      BY <2>3, <3>1, <3>2
  <2>7. Upto(g, n + 1)
    BY <2>4, <2>5, <2>6
  <2> HIDE DEF Upto
  <2>8. QED
    BY <2>7
<1>3. \E f : Upto(f, MaxCreds)
  <2> HIDE DEF Upto
  <2>1. Nat \subseteq P
    <3> HIDE DEF P
    <3>1. QED
      BY <1>1, <1>2, NatInduct
  <2>2. QED
    BY <2>1, AuthenticatorAssumption
<1>4. PICK f : Upto(f, MaxCreds)
  BY <1>3
<1>5. f = [n \in 0..MaxCreds |->
             IF n = 0 THEN <<>>
             ELSE IF Matches(creds, r, n) THEN Append(f[n - 1], n)
             ELSE f[n - 1]]
  <2> DEFINE F(n) == IF n = 0 THEN <<>>
                     ELSE IF Matches(creds, r, n) THEN Append(f[n - 1], n)
                     ELSE f[n - 1]
  <2>1. \A n \in 0..MaxCreds : n = 0 \/ n \in 1..MaxCreds
    BY AuthenticatorAssumption
  <2>2. \A n \in 0..MaxCreds : f[n] = F(n)
    BY <1>4, <2>1
  <2>3. f \in [0..MaxCreds -> Seq(Nat)]
    BY <1>4
  <2> HIDE DEF F, Upto
  <2>4. f = [n \in 0..MaxCreds |-> F(n)]
    BY <2>2, <2>3
  <2>5. QED
    BY <2>4 DEF F
<1>6. QED
  BY <1>5 DEF CollectSlots, Collects

\* What has been found after n slots: the matching ones among them, each once
\* and in slot order.
FoundUpTo(c, creds, r, n) ==
  /\ c \in Seq(1..n) /\ Len(c) <= n
  /\ \A i \in DOMAIN c : Matches(creds, r, c[i])
  /\ \A s \in 1..n : Matches(creds, r, s) => \E i \in DOMAIN c : c[i] = s
  /\ \A i, j \in DOMAIN c : i < j => c[i] < c[j]

LEMMA FoundNone ==
  ASSUME NEW creds, NEW r PROVE FoundUpTo(<<>>, creds, r, 0)
BY DEF FoundUpTo

LEMMA FoundStep ==
  ASSUME NEW creds, NEW r, NEW n \in Nat, NEW c, FoundUpTo(c, creds, r, n)
  PROVE  FoundUpTo(IF Matches(creds, r, n + 1) THEN Append(c, n + 1) ELSE c,
                   creds, r, n + 1)
<1>1. /\ c \in Seq(1..n) /\ c \in Seq(1..(n + 1)) /\ c \in Seq(Nat)
      /\ Len(c) \in Nat /\ DOMAIN c = 1..Len(c)
      /\ \A i \in DOMAIN c : c[i] \in 1..n
  BY DEF FoundUpTo
<1>2. \A s \in 1..(n + 1) : s \in 1..n \/ s = n + 1
  OBVIOUS
<1>3. CASE ~Matches(creds, r, n + 1)
  BY <1>1, <1>2, <1>3 DEF FoundUpTo
<1>4. CASE Matches(creds, r, n + 1)
  <2> DEFINE d == Append(c, n + 1)
  <2>1. /\ d \in Seq(1..(n + 1)) /\ Len(d) = Len(c) + 1
        /\ DOMAIN d = 1..(Len(c) + 1)
        /\ \A i \in DOMAIN c : d[i] = c[i]
        /\ d[Len(c) + 1] = n + 1
    BY <1>1
  <2>2. \A i \in DOMAIN d : i \in DOMAIN c \/ i = Len(c) + 1
    BY <1>1, <2>1
  <2>3. DOMAIN c \subseteq DOMAIN d /\ Len(c) + 1 \in DOMAIN d
    BY <1>1, <2>1
  <2> HIDE DEF d
  <2>4. \A i \in DOMAIN d : Matches(creds, r, d[i])
    BY <1>4, <2>1, <2>2 DEF FoundUpTo
  <2>5. \A s \in 1..(n + 1) : Matches(creds, r, s)
                                => \E i \in DOMAIN d : d[i] = s
    BY <1>2, <2>1, <2>3 DEF FoundUpTo
  <2>6. ASSUME NEW i \in DOMAIN d, NEW j \in DOMAIN d, i < j
        PROVE  d[i] < d[j]
    <3>1. i \in DOMAIN c
      BY <1>1, <2>1, <2>2, <2>6
    <3>2. CASE j \in DOMAIN c
      BY <2>1, <2>6, <3>1, <3>2 DEF FoundUpTo
    <3>3. CASE j = Len(c) + 1
      BY <1>1, <2>1, <3>1, <3>3
    <3>4. QED
      BY <2>2, <3>2, <3>3
  <2>7. Len(d) <= n + 1
    BY <1>1, <2>1 DEF FoundUpTo
  <2>8. FoundUpTo(d, creds, r, n + 1)
    BY <2>1, <2>4, <2>5, <2>6, <2>7 DEF FoundUpTo
  <2>9. QED
    BY <1>4, <2>8 DEF d
<1>5. QED
  BY <1>3, <1>4

\* The search returns the slots of the credentials the request allows: all of
\* them, each once and in slot order, whatever is in the store.
THEOREM CollectFinds ==
  \A creds, r : FoundUpTo(CollectSlots(creds, r), creds, r, MaxCreds)
<1> SUFFICES ASSUME NEW creds, NEW r
             PROVE  FoundUpTo(CollectSlots(creds, r), creds, r, MaxCreds)
  OBVIOUS
<1>1. PICK f : Collects(f, creds, r) /\ CollectSlots(creds, r) = f[MaxCreds]
  BY CollectExists
<1>2. /\ f[0] = <<>>
      /\ \A n \in 0..(MaxCreds - 1) :
           f[n + 1] = IF Matches(creds, r, n + 1) THEN Append(f[n], n + 1)
                                                  ELSE f[n]
  <2> DEFINE F(n) == IF n = 0 THEN <<>>
                     ELSE IF Matches(creds, r, n) THEN Append(f[n - 1], n)
                     ELSE f[n - 1]
  <2>1. f = [n \in 0..MaxCreds |-> F(n)]
    BY <1>1 DEF Collects
  <2> HIDE DEF F
  <2>2. \A n \in 0..MaxCreds : f[n] = F(n)
    BY <2>1
  <2>3. f[0] = F(0) /\ \A n \in 0..(MaxCreds - 1) : f[n + 1] = F(n + 1)
    BY <2>2, AuthenticatorAssumption
  <2>4. \A n \in 0..(MaxCreds - 1) : n + 1 # 0 /\ (n + 1) - 1 = n
    BY AuthenticatorAssumption
  <2>5. QED
    BY <2>3, <2>4 DEF F
<1> DEFINE P == {n \in Nat : n <= MaxCreds => FoundUpTo(f[n], creds, r, n)}
<1>3. 0 \in P
  BY <1>2, FoundNone
<1>4. ASSUME NEW n \in Nat, n \in P PROVE n + 1 \in P
  <2> SUFFICES ASSUME n + 1 <= MaxCreds
               PROVE  FoundUpTo(f[n + 1], creds, r, n + 1)
    OBVIOUS
  <2>1. n \in 0..(MaxCreds - 1) /\ FoundUpTo(f[n], creds, r, n)
    BY <1>4, AuthenticatorAssumption
  <2>2. QED
    BY <1>2, <2>1, FoundStep
<1>5. Nat \subseteq P
  <2> HIDE DEF P
  <2>1. QED
    BY <1>3, <1>4, NatInduct
<1>6. QED
  BY <1>1, <1>5, AuthenticatorAssumption

LEMMA SearchResult ==
  ASSUME NEW creds, NEW r
  PROVE  /\ CollectSlots(creds, r) \in Seq(Slots)
         /\ Len(CollectSlots(creds, r)) <= MaxCreds
         /\ \A i \in DOMAIN CollectSlots(creds, r) :
              Matches(creds, r, CollectSlots(creds, r)[i])
BY CollectFinds DEF FoundUpTo, Slots

-----------------------------------------------------------------------------
(* Type correctness.                                                        *)

AssertionCommands == {"getAssertion", "getNextAssertion"}

StoreOK == store \in StoreType
ContOK ==
  /\ assert_valid \in BOOLEAN /\ assert_fresh \in BOOLEAN
  /\ assert_slots \in Seq(Slots) /\ Len(assert_slots) <= MaxCreds
  /\ assert_next \in Nat /\ assert_req \in Request \cup {None}
  \* A live continuation has a next slot to read, and a request.
  /\ assert_valid => assert_next < Len(assert_slots) /\ assert_req \in Request
WorkersOK ==
  /\ lock \in Transports \cup {None}
  /\ pc \in [Transports -> Phases] /\ cmd \in [Transports -> Commands]
  /\ req \in [Transports -> Request \cup {None}]
  /\ resp \in [Transports -> Response]
LocalsOK ==
  /\ slots \in [Transports -> Seq(Slots)] /\ served \in [Transports -> Nat]
  /\ \A t \in Transports : Len(slots[t]) <= MaxCreds
  \* Behind the gate an assertion command has a slot and a request to answer.
  /\ \A t \in Transports :
       pc[t] = "gate" /\ cmd[t] \in AssertionCommands =>
         slots[t] # <<>> /\ req[t] \in Request
  /\ \A t \in Transports :
       pc[t] # "idle" /\ cmd[t] \in {"makeCredential", "getAssertion"} =>
         req[t] \in Request
HistoryOK == walk \in Seq(Cred \cup {Free}) /\ walker \in Transports \cup {None}
\* A command that is still running has not been answered.
QuietOK == \A t \in Transports : pc[t] # "idle" => resp[t].kind = "none"

FullType ==
  StoreOK /\ ContOK /\ WorkersOK /\ LocalsOK /\ HistoryOK /\ QuietOK

LEMMA ReplyFields ==
  \A kind \in Kinds, cred \in Cred \cup {Free} :
    /\ Reply(kind, cred) \in Response
    /\ Reply(kind, cred).kind = kind /\ Reply(kind, cred).cred = cred
BY DEF Reply, Response

LEMMA ParsedRequests ==
  /\ \A c \in Commands : Parsed(c) \subseteq Request \cup {None}
  /\ \A c \in {"makeCredential", "getAssertion"} : Parsed(c) = Request
BY DEF Parsed

\* Returning from a handler keeps the types.
LEMMA DoneOK ==
  ASSUME WorkersOK, LocalsOK, QuietOK, NEW t \in Transports,
         NEW reply \in Response, Done(t, reply), UNCHANGED request
  PROVE  WorkersOK' /\ LocalsOK' /\ QuietOK'
<1> USE DEF Done, request, Phases
<1>1. WorkersOK'
  BY DEF WorkersOK
<1>2. LocalsOK'
  <2>1. <<>> \in Seq(Slots) /\ Len(<<>>) = 0
    OBVIOUS
  <2>2. QED
    BY <2>1, AuthenticatorAssumption DEF WorkersOK, LocalsOK
<1>3. QuietOK'
  BY DEF QuietOK, WorkersOK
<1>4. QED
  BY <1>1, <1>2, <1>3

\* Ending the continuation keeps its types.
LEMMA ClearOK ==
  ASSUME ContOK, ClearAssertState PROVE ContOK'
<1>1. <<>> \in Seq(Slots) /\ Len(<<>>) = 0
  OBVIOUS
<1>2. /\ ~assert_valid' /\ assert_valid' \in BOOLEAN
      /\ assert_slots' = <<>> /\ assert_next' = 0
      /\ UNCHANGED <<assert_req, assert_fresh>>
  BY DEF ClearAssertState
<1>3. assert_slots' \in Seq(Slots) /\ Len(assert_slots') <= MaxCreds
  BY <1>1, <1>2, AuthenticatorAssumption
<1>4. QED
  BY <1>2, <1>3 DEF ContOK

\* A free slot is found when there is one.
LEMMA FirstFreeIsFree ==
  ASSUME FreeSlots # {} PROVE FirstFree \in FreeSlots /\ FirstFree \in Slots
<1>1. FreeSlots \in SUBSET Nat /\ FreeSlots \subseteq Slots
  BY DEF FreeSlots, Slots
<1>2. \E s \in FreeSlots : \A u \in FreeSlots : s <= u
  BY <1>1, LeastNumber
<1>3. QED
  BY <1>1, <1>2 DEF FirstFree

\* Entering the gate with the request as it came, or with slots looked up.
LEMMA EnterOK ==
  ASSUME WorkersOK, QuietOK, NEW t \in Transports, EnterGate(t),
         pc[t] = "entered", UNCHANGED <<cmd, resp>>,
         req' \in [Transports -> Request \cup {None}]
  PROVE  WorkersOK' /\ QuietOK'
BY DEF WorkersOK, QuietOK, EnterGate, Phases

\* What the store holds in a slot, a response or a walk can show.
LEMMA SlotCreds ==
  ASSUME StoreOK, NEW s \in Slots PROVE store[s] \in Cred \cup {Free}
BY DEF StoreOK, StoreType

LEMMA HandlerType ==
  ASSUME FullType, NEW t \in Transports, Handler(t)
  PROVE  /\ StoreOK' /\ ContOK' /\ WorkersOK' /\ LocalsOK' /\ QuietOK'
         /\ walk' \in Seq(Cred \cup {Free})
<1> DEFINE Goal == /\ StoreOK' /\ ContOK' /\ WorkersOK' /\ LocalsOK'
                   /\ QuietOK' /\ walk' \in Seq(Cred \cup {Free})
<1>0. /\ \A kind \in Kinds : Reply(kind, Free) \in Response
      /\ {"none", "error", "made", "assertion", "next", "reset", "selected",
          "info"} \subseteq Kinds
  BY ReplyFields DEF Kinds
<1> USE DEF FullType
\* The handlers that only answer.
<1>1. ASSUME NEW kind \in Kinds, Done(t, Reply(kind, Free)),
             UNCHANGED <<store, request, walk>>,
             UNCHANGED contVars \/ ClearAssertState
      PROVE  Goal
  <2>1. WorkersOK' /\ LocalsOK' /\ QuietOK'
    BY <1>0, <1>1, DoneOK
  <2>2. ContOK'
    BY <1>1, ClearOK DEF contVars, ContOK
  <2>3. QED
    BY <1>1, <2>1, <2>2 DEF StoreOK, HistoryOK
<1>2. CASE \/ Reject(t) \/ RejectAssertion(t) \/ GetInfo(t)
           \/ GetAssertionNone(t) \/ GetNextNone(t) \/ Fail(t)
           \/ MakeCredentialRefused(t) \/ GetNextGone(t) \/ Selection(t)
  BY <1>0, <1>1, <1>2
     DEF Reject, RejectAssertion, GetInfo, GetAssertionNone, GetNextNone,
         Fail, MakeCredentialRefused, GetNextGone, Selection, Goal
<1>3. CASE AskPlain(t)
  <2>1. WorkersOK' /\ QuietOK'
    BY <1>3, EnterOK DEF AskPlain, localVars, WorkersOK
  <2>2. LocalsOK'
    BY <1>3 DEF AskPlain, localVars, EnterGate, LocalsOK, WorkersOK,
                AssertionCommands
  <2>3. QED
    BY <1>3, <2>1, <2>2 DEF AskPlain, StoreOK, ContOK, contVars, HistoryOK
<1>4. CASE AskGetAssertion(t)
  <2>1. WorkersOK' /\ QuietOK'
    BY <1>4, EnterOK DEF AskGetAssertion, WorkersOK
  <2> DEFINE found == CollectSlots(store, req[t])
  <2>2. found \in Seq(Slots) /\ Len(found) <= MaxCreds
    BY SearchResult
  <2>3. /\ found # <<>> /\ slots' = [slots EXCEPT ![t] = found]
        /\ UNCHANGED <<cmd, req, served>>
        /\ pc' = [pc EXCEPT ![t] = "gate"] /\ pc[t] = "entered"
        /\ cmd[t] = "getAssertion"
    BY <1>4 DEF AskGetAssertion, EnterGate
  <2> HIDE DEF found
  <2>4. LocalsOK'
    BY <2>2, <2>3 DEF LocalsOK, WorkersOK, AssertionCommands
  <2>5. ContOK'
    BY <1>4, ClearOK DEF AskGetAssertion
  <2>6. QED
    BY <1>4, <2>1, <2>4, <2>5 DEF AskGetAssertion, StoreOK, HistoryOK
<1>5. CASE AskGetNext(t)
  <2>1. /\ assert_req \in Request /\ NextSlot \in Slots
        /\ assert_next + 1 \in Nat
    BY <1>5 DEF AskGetNext, HasNext, NextSlot, ContOK
  <2>2. WorkersOK' /\ QuietOK'
    BY <1>5, <2>1, EnterOK DEF AskGetNext, WorkersOK
  <2> DEFINE found == <<NextSlot>>
  <2>3. found \in Seq(Slots) /\ Len(found) <= MaxCreds /\ found # <<>>
    BY <2>1, AuthenticatorAssumption
  <2>4. /\ slots' = [slots EXCEPT ![t] = found] /\ UNCHANGED cmd
        /\ req' = [req EXCEPT ![t] = assert_req]
        /\ served' = [served EXCEPT ![t] = assert_next + 1]
        /\ pc' = [pc EXCEPT ![t] = "gate"]
        /\ cmd[t] = "getNextAssertion"
    BY <1>5 DEF AskGetNext, EnterGate
  <2> HIDE DEF found
  <2>5. LocalsOK'
    BY <2>1, <2>3, <2>4 DEF LocalsOK, WorkersOK, AssertionCommands
  <2>6. QED
    BY <1>5, <2>2, <2>5 DEF AskGetNext, StoreOK, ContOK, contVars, HistoryOK
<1>6. ASSUME NEW id \in Ids, MakeCredential(t, id) PROVE Goal
  <2> DEFINE new == [id |-> id, rp |-> req[t].rp]
  <2>1. new \in Cred
    BY <1>6 DEF MakeCredential, InGate, LocalsOK, Request, Cred
  <2>2. /\ store' = [store EXCEPT ![FirstFree] = new]
        /\ Done(t, Reply("made", new)) /\ FreeSlots # {}
        /\ UNCHANGED <<contVars, request, walk>>
    BY <1>6 DEF MakeCredential
  <2> HIDE DEF new
  <2>3. StoreOK'
    BY <2>1, <2>2, FirstFreeIsFree DEF StoreOK, StoreType
  <2>4. WorkersOK' /\ LocalsOK' /\ QuietOK'
    BY <1>0, <2>1, <2>2, DoneOK, ReplyFields
  <2>5. QED
    BY <2>2, <2>3, <2>4 DEF ContOK, contVars, HistoryOK
<1>7. ASSUME GetAssertion(t) \/ GetNext(t)
      PROVE  /\ slots[t][1] \in Slots
             /\ store[slots[t][1]] \in Cred \cup {Free}
             /\ WorkersOK' /\ LocalsOK' /\ QuietOK'
  <2>1. slots[t] # <<>> /\ slots[t] \in Seq(Slots)
    BY <1>7 DEF GetAssertion, GetNext, InGate, LocalsOK, AssertionCommands
  <2>2. slots[t][1] \in Slots
    BY <2>1
  <2>3. store[slots[t][1]] \in Cred \cup {Free}
    BY <2>2, SlotCreds
  <2>4. QED
    BY <1>0, <1>7, <2>2, <2>3, DoneOK, ReplyFields
       DEF GetAssertion, GetNext, Signed
<1>8. CASE GetAssertion(t)
  <2>1. ContOK'
    <3>1. req[t] \in Request /\ slots[t] \in Seq(Slots)
          /\ Len(slots[t]) <= MaxCreds
      BY <1>8 DEF GetAssertion, InGate, LocalsOK, AssertionCommands
    <3>2. CASE Len(slots[t]) > 1
      <4>1. /\ assert_valid' /\ assert_valid' \in BOOLEAN
            /\ assert_fresh' \in BOOLEAN
            /\ assert_slots' = slots[t] /\ assert_next' = 1
            /\ assert_req' = req[t]
        BY <1>8, <3>2 DEF GetAssertion
      <4>2. QED
        BY <3>1, <3>2, <4>1 DEF ContOK
    <3>3. CASE ~(Len(slots[t]) > 1)
      BY <1>8, <3>3 DEF GetAssertion, ContOK, contVars
    <3>4. QED
      BY <3>2, <3>3
  <2>2. walk' \in Seq(Cred \cup {Free})
    <3>1. walk' = <<store[slots[t][1]]>>
      BY <1>8 DEF GetAssertion
    <3>2. QED
      BY <1>7, <1>8, <3>1
  <2>3. QED
    BY <1>7, <1>8, <2>1, <2>2 DEF GetAssertion, StoreOK
<1>9. CASE GetNext(t)
  <2>1. ContOK'
    <3>1. CASE assert_next + 1 >= Len(assert_slots)
      BY <1>9, <3>1, ClearOK DEF GetNext
    <3>2. CASE ~(assert_next + 1 >= Len(assert_slots))
      <4>1. /\ assert_next' = assert_next + 1 /\ assert_fresh' \in BOOLEAN
            /\ UNCHANGED <<assert_valid, assert_slots, assert_req>>
        BY <1>9, <3>2 DEF GetNext
      <4>2. QED
        BY <3>2, <4>1 DEF ContOK
    <3>3. QED
      BY <3>1, <3>2
  <2>2. walk' \in Seq(Cred \cup {Free})
    <3>1. walk' = Append(walk, store[slots[t][1]])
      BY <1>9 DEF GetNext
    <3>2. walk \in Seq(Cred \cup {Free})
      BY DEF HistoryOK
    <3>3. QED
      BY <1>7, <1>9, <3>1, <3>2
  <2>3. QED
    BY <1>7, <1>9, <2>1, <2>2 DEF GetNext, StoreOK
<1>10. CASE Reset(t)
  <2>1. WorkersOK' /\ LocalsOK' /\ QuietOK'
    BY <1>0, <1>10, DoneOK DEF Reset
  <2>2. QED
    BY <1>10, <2>1 DEF Reset, StoreOK, StoreType, ContOK, contVars, HistoryOK
<1>11. QED
  BY <1>2, <1>3, <1>4, <1>5, <1>6, <1>8, <1>9, <1>10 DEF Handler

LEMMA DispatchType ==
  ASSUME FullType, NEW t \in Transports, NEW c \in Commands,
         NEW r \in Parsed(c), Dispatch(t, c, r)
  PROVE  /\ StoreOK' /\ ContOK' /\ WorkersOK' /\ LocalsOK' /\ QuietOK'
         /\ walk' \in Seq(Cred \cup {Free})
<1>1. /\ r \in Request \cup {None}
      /\ c \in {"makeCredential", "getAssertion"} => r \in Request
  BY ParsedRequests
<1>2. Reply("none", Free) \in Response /\ Reply("none", Free).kind = "none"
  BY ReplyFields DEF Kinds
<1>3. WorkersOK'
  BY <1>1, <1>2 DEF FullType, WorkersOK, Dispatch, Phases
<1>4. LocalsOK'
  BY <1>1 DEF FullType, LocalsOK, WorkersOK, Dispatch
<1>5. QuietOK'
  BY <1>2 DEF FullType, QuietOK, WorkersOK, Dispatch
<1>6. ContOK'
  <2>1. CASE UNCHANGED contVars
    BY <2>1 DEF FullType, ContOK, contVars
  <2>2. CASE ClearAssertState
    BY <2>2, ClearOK DEF FullType
  <2>3. QED
    BY <2>1, <2>2 DEF Dispatch
<1>7. QED
  BY <1>3, <1>4, <1>5, <1>6 DEF Dispatch, FullType, StoreOK, HistoryOK

LEMMA TypeStep == FullType /\ [Next]_vars => FullType'
<1> SUFFICES ASSUME FullType, [Next]_vars PROVE FullType'
  OBVIOUS
<1>1. ASSUME NEW t \in Transports,
             \/ \E c \in Commands : \E r \in Parsed(c) : Dispatch(t, c, r)
             \/ Handler(t),
             Walks(t)
      PROVE  FullType'
  <2>1. /\ StoreOK' /\ ContOK' /\ WorkersOK' /\ LocalsOK' /\ QuietOK'
        /\ walk' \in Seq(Cred \cup {Free})
    BY <1>1, DispatchType, HandlerType
  <2>2. walker' \in Transports \cup {None}
    BY <1>1 DEF Walks
  <2>3. QED
    BY <2>1, <2>2 DEF FullType, HistoryOK
<1>2. ASSUME NEW new \in Restores, Restore(new) PROVE FullType'
  BY <1>2, AuthenticatorAssumption
     DEF Restore, contVars, localVars, FullType, StoreOK, ContOK, WorkersOK,
         LocalsOK, HistoryOK, QuietOK
<1>3. CASE WindowCloses
  BY <1>3 DEF WindowCloses, localVars, FullType, StoreOK, ContOK, WorkersOK,
              LocalsOK, HistoryOK, QuietOK
<1>4. CASE UNCHANGED vars
  BY <1>4 DEF vars, contVars, localVars, FullType, StoreOK, ContOK, WorkersOK,
              LocalsOK, HistoryOK, QuietOK
<1>5. QED
  BY <1>1, <1>2, <1>3, <1>4 DEF Next

LEMMA FullTypeCorrect == Spec => []FullType
<1>1. Init => FullType
  <2> SUFFICES ASSUME Init PROVE FullType
    OBVIOUS
  <2>1. /\ <<>> \in Seq(Slots) /\ Len(<<>>) = 0
        /\ <<>> \in Seq(Cred \cup {Free})
    OBVIOUS
  <2>2. StoreOK
    BY AuthenticatorAssumption DEF Init, StoreOK
  <2>3. ContOK
    <3>1. /\ ~assert_valid /\ assert_valid \in BOOLEAN
          /\ assert_slots = <<>> /\ assert_next = 0
          /\ assert_req = None /\ assert_fresh \in BOOLEAN
      BY DEF Init
    <3>2. assert_slots \in Seq(Slots) /\ Len(assert_slots) <= MaxCreds
      BY <2>1, <3>1, AuthenticatorAssumption
    <3>3. QED
      BY <3>1, <3>2 DEF ContOK
  <2>4. Reply("none", Free) \in Response /\ Reply("none", Free).kind = "none"
    BY ReplyFields DEF Kinds
  <2>5. WorkersOK /\ QuietOK
    BY <2>4 DEF Init, WorkersOK, QuietOK, Phases, Commands
  <2>6. LocalsOK
    BY <2>1, AuthenticatorAssumption DEF Init, LocalsOK
  <2>7. HistoryOK
    BY <2>1 DEF Init, HistoryOK
  <2>8. QED
    BY <2>2, <2>3, <2>5, <2>6, <2>7 DEF FullType
<1>2. QED
  BY <1>1, TypeStep, PTL DEF Spec

\* The state of the command handlers keeps its types: the arrays are never
\* overrun and a live continuation always has a next slot to read.
THEOREM TypeCorrect == Spec => []TypeOK
<1>1. FullType => TypeOK
  BY DEF FullType, StoreOK, ContOK, WorkersOK, LocalsOK, HistoryOK, TypeOK
<1>2. QED
  BY <1>1, FullTypeCorrect, PTL

-----------------------------------------------------------------------------
(* What a single command may do to the store.                               *)

\* The two commands that change the store.
LEMMA StoreChange ==
  ASSUME NEW t \in Transports, Handler(t), store' # store
  PROVE  Reset(t) \/ \E id \in Ids : MakeCredential(t, id)
BY DEF Handler, Reject, RejectAssertion, GetInfo, AskPlain, GetAssertionNone,
   AskGetAssertion, GetNextNone, AskGetNext, Fail, MakeCredentialRefused,
   GetAssertion, GetNext, GetNextGone, Selection

\* A registration never overwrites a credential, not even when the store is
\* full: only an approved reset and a companion edit make one disappear.
THEOREM CredentialsAreKept == Spec => CredentialsKept
<1>1. FullType /\ [Next]_vars =>
        [\A s \in Slots : InUse(s) /\ store'[s] # store[s] =>
           \/ \E t \in Transports : InGate(t, "reset")
                                      /\ resp'[t].kind = "reset"
           \/ resp' = resp /\ store' \in Restores]_vars
  <2> SUFFICES ASSUME FullType, Next, NEW s \in Slots, InUse(s),
                      store'[s] # store[s]
               PROVE  \/ \E t \in Transports : InGate(t, "reset")
                                                 /\ resp'[t].kind = "reset"
                      \/ resp' = resp /\ store' \in Restores
    BY DEF vars
  <2>1. ASSUME NEW t \in Transports, Reset(t)
        PROVE  InGate(t, "reset") /\ resp'[t].kind = "reset"
    <3>1. resp' = [resp EXCEPT ![t] = Reply("reset", Free)]
      BY <2>1 DEF Reset, Done
    <3>2. resp'[t] = Reply("reset", Free)
      BY <3>1 DEF FullType, WorkersOK
    <3>3. QED
      BY <2>1, <3>2, ReplyFields DEF Reset, Kinds
  <2>2. ASSUME NEW t \in Transports, NEW id \in Ids, MakeCredential(t, id)
        PROVE  FALSE
    <3>1. \E new : store' = [store EXCEPT ![FirstFree] = new]
      BY <2>2 DEF MakeCredential
    <3>2. FirstFree \in FreeSlots
      BY <2>2, FirstFreeIsFree DEF MakeCredential
    <3>3. FirstFree # s
      BY <3>2 DEF FreeSlots
    <3>4. QED
      BY <3>1, <3>3 DEF FullType, StoreOK, StoreType
  <2>3. ASSUME NEW new \in Restores, Restore(new)
        PROVE  resp' = resp /\ store' \in Restores
    BY <2>3 DEF Restore
  <2>4. store' # store
    OBVIOUS
  <2>5. \A t, c, r : ~Dispatch(t, c, r)
    BY <2>4 DEF Dispatch
  <2>6. ~WindowCloses
    BY <2>4 DEF WindowCloses
  <2>7. QED
    BY <2>1, <2>2, <2>3, <2>4, <2>5, <2>6, StoreChange DEF Next
<1>2. QED
  BY <1>1, FullTypeCorrect, PTL DEF Spec, CredentialsKept

\* No registration succeeds while the store holds a credential of its exclude
\* list, whenever that credential came in.
THEOREM ExclusionAlwaysHolds == Spec => ExclusionHolds
<1>1. FullType /\ [Next]_vars =>
        [\A t \in Transports :
           resp'[t].kind = "made" /\ resp[t].kind # "made" =>
             req[t].list \cap UsedIds = {}]_vars
  <2> SUFFICES ASSUME FullType, Next, NEW t \in Transports,
                      resp'[t].kind = "made", resp[t].kind # "made"
               PROVE  req[t].list \cap UsedIds = {}
    BY DEF vars
  <2>1. ASSUME NEW u \in Transports, NEW kind \in Kinds, kind # "made",
               NEW cred \in Cred \cup {Free},
               resp' = [resp EXCEPT ![u] = Reply(kind, cred)]
        PROVE  FALSE
    <3>1. resp'[t] = resp[t] \/ resp'[t] = Reply(kind, cred)
      BY <2>1 DEF FullType, WorkersOK
    <3>2. QED
      BY <2>1, <3>1, ReplyFields
  <2>2. ASSUME NEW u \in Transports, NEW id \in Ids, MakeCredential(u, id)
        PROVE  req[t].list \cap UsedIds = {}
    <3>1. PICK reply : resp' = [resp EXCEPT ![u] = reply]
      BY <2>2 DEF MakeCredential, Done
    <3>2. u = t
      BY <3>1 DEF FullType, WorkersOK
    <3>3. QED
      BY <2>2, <3>2 DEF MakeCredential
  <2>3. \A new : ~Restore(new)
    BY DEF Restore
  <2>4. ~WindowCloses
    BY DEF WindowCloses
  <2>5. ASSUME NEW u \in Transports, GetAssertion(u) \/ GetNext(u) PROVE FALSE
    <3>1. store[slots[u][1]] \in Cred \cup {Free}
      <4>1. slots[u] # <<>> /\ slots[u] \in Seq(Slots)
        BY <2>5 DEF GetAssertion, GetNext, InGate, FullType, LocalsOK,
           AssertionCommands
      <4>2. slots[u][1] \in Slots
        BY <4>1
      <4>3. QED
        BY <4>2, SlotCreds DEF FullType
    <3>2. QED
      BY <2>1, <2>5, <3>1 DEF GetAssertion, GetNext, Signed, Done, Kinds
  <2>6. ASSUME NEW u \in Transports, NEW c, NEW r, Dispatch(u, c, r)
        PROVE  FALSE
    BY <2>1, <2>6 DEF Dispatch, Kinds
  <2>7. ASSUME NEW u \in Transports,
               \/ Reject(u) \/ RejectAssertion(u) \/ GetInfo(u)
               \/ GetAssertionNone(u) \/ GetNextNone(u) \/ Fail(u)
               \/ MakeCredentialRefused(u) \/ GetNextGone(u) \/ Reset(u)
               \/ Selection(u)
        PROVE  FALSE
    BY <2>1, <2>7
       DEF Reject, RejectAssertion, GetInfo, GetAssertionNone, GetNextNone,
           Fail, MakeCredentialRefused, GetNextGone, Reset, Selection, Done,
           Kinds
  <2>8. ASSUME NEW u \in Transports,
               AskPlain(u) \/ AskGetAssertion(u) \/ AskGetNext(u)
        PROVE  FALSE
    BY <2>8 DEF AskPlain, AskGetAssertion, AskGetNext
  <2>9. QED
    BY <2>2, <2>3, <2>4, <2>5, <2>6, <2>7, <2>8 DEF Next, Handler
<1>2. QED
  BY <1>1, FullTypeCorrect, PTL DEF Spec, ExclusionHolds

-----------------------------------------------------------------------------
(* getAssertion and getNextAssertion.                                       *)

\* The walk w has shown the first n answers to r.
Shown(w, creds, n, r) ==
  /\ Len(w) = n /\ n <= Len(CollectSlots(creds, r))
  /\ \A i \in 1..n : w[i] = creds[CollectSlots(creds, r)[i]]

\* As long as nobody comes in between, what the walker has looked up is still
\* what is there: before the gate's wait and after it, and in the continuation.
WalkOf(t) ==
  /\ pc[t] # "idle" /\ cmd[t] \notin AssertionCommands => ~assert_valid
  /\ pc[t] = "gate" /\ cmd[t] = "getAssertion" =>
       ~assert_valid /\ slots[t] = CollectSlots(store, req[t])
  /\ pc[t] = "gate" /\ cmd[t] = "getNextAssertion" =>
       /\ assert_valid /\ req[t] = assert_req
       /\ slots[t] = <<NextSlot>>
  /\ assert_valid =>
       /\ assert_slots = CollectSlots(store, assert_req)
       /\ Shown(walk, store, assert_next, assert_req)
  /\ Answered(t) =>
       IF assert_valid THEN req[t] = assert_req
       ELSE Shown(walk, store, Len(CollectSlots(store, req[t])), req[t])

WalkInv == \A t \in Transports : walker = t => WalkOf(t)

\* A getAssertion starts the walk.
LEMMA WalkStarts ==
  ASSUME FullType, NEW t \in Transports, AskGetAssertion(t)
  PROVE  WalkOf(t)'
<1>1. /\ pc'[t] = "gate" /\ cmd'[t] = "getAssertion" /\ ~assert_valid'
      /\ req' = req /\ store' = store /\ resp' = resp
      /\ slots' = [slots EXCEPT ![t] = CollectSlots(store, req[t])]
  BY DEF AskGetAssertion, EnterGate, ClearAssertState, FullType, WorkersOK
<1>2. slots'[t] = CollectSlots(store', req'[t])
  BY <1>1 DEF FullType, LocalsOK
<1>3. ~Answered(t)'
  BY <1>1 DEF AskGetAssertion, FullType, QuietOK, Answered
<1>4. QED
  BY <1>1, <1>2, <1>3 DEF WalkOf, AssertionCommands

\* Every answer but an assertion, and the start of every command.
LEMMA WalkWaits ==
  ASSUME FullType, NEW t \in Transports, WalkOf(t),
         UNCHANGED <<store, walk>>, UNCHANGED contVars \/ ClearAssertState,
         ~Answered(t)', pc'[t] # "gate",
         pc'[t] # "idle" /\ cmd'[t] \notin AssertionCommands => ~assert_valid'
  PROVE  WalkOf(t)'
<1>1. CASE ClearAssertState
  BY <1>1 DEF WalkOf, ClearAssertState
<1>2. CASE UNCHANGED contVars
  BY <1>2 DEF WalkOf, contVars
<1>3. QED
  BY <1>1, <1>2

\* What an answer leaves.
LEMMA DoneEffect ==
  ASSUME FullType, NEW t \in Transports, NEW kind \in Kinds,
         NEW cred \in Cred \cup {Free}, Done(t, Reply(kind, cred))
  PROVE  pc'[t] = "idle" /\ resp'[t].kind = kind /\ resp'[t].cred = cred
<1>1. resp'[t] = Reply(kind, cred) /\ pc'[t] = "idle"
  BY DEF Done, FullType, WorkersOK
<1>2. QED
  BY <1>1, ReplyFields

LEMMA GetAssertionWalks ==
  ASSUME FullType, NEW t \in Transports, WalkOf(t), GetAssertion(t)
  PROVE  WalkOf(t)'
<1> DEFINE found == slots[t]
<1>1. /\ ~assert_valid /\ found = CollectSlots(store, req[t])
      /\ found \in Seq(Slots) /\ found # <<>>
  BY DEF GetAssertion, InGate, WalkOf, FullType, LocalsOK, AssertionCommands
<1>2. /\ walk' = <<store[found[1]]>> /\ store' = store /\ req' = req
      /\ IF Len(found) > 1
         THEN /\ assert_valid' /\ assert_slots' = found /\ assert_next' = 1
              /\ assert_req' = req[t]
         ELSE assert_valid' = assert_valid
  BY DEF GetAssertion, contVars, request
<1>3. pc'[t] = "idle"
  BY DEF GetAssertion, Signed, Done, FullType, WorkersOK
<1> HIDE DEF found
<1>4. Len(found) \in Nat /\ Len(found) >= 1
  BY <1>1
<1>5. Shown(walk', store', 1, req'[t])
  BY <1>1, <1>2, <1>4 DEF Shown
<1>6. CASE Len(found) > 1
  BY <1>1, <1>2, <1>3, <1>5, <1>6 DEF WalkOf
<1>7. CASE Len(found) = 1
  BY <1>1, <1>2, <1>3, <1>5, <1>7 DEF WalkOf
<1>8. Len(found) > 1 \/ Len(found) = 1
  BY <1>4
<1>9. QED
  BY <1>6, <1>7, <1>8

LEMMA GetNextWalks ==
  ASSUME FullType, NEW t \in Transports, WalkOf(t), GetNext(t)
  PROVE  WalkOf(t)'
<1> DEFINE found == CollectSlots(store, assert_req)
<1>1. /\ assert_valid /\ req[t] = assert_req /\ slots[t] = <<NextSlot>>
      /\ assert_slots = found
      /\ Shown(walk, store, assert_next, assert_req)
  BY DEF GetNext, InGate, WalkOf
<1>2. /\ found \in Seq(Slots) /\ assert_next \in Nat
      /\ assert_next < Len(found) /\ Len(found) \in Nat
      /\ walk \in Seq(Cred \cup {Free})
  BY <1>1 DEF FullType, ContOK, HistoryOK
<1>3. slots[t][1] = found[assert_next + 1]
  BY <1>1 DEF NextSlot
<1>4. store[slots[t][1]] \in Cred \cup {Free}
  BY <1>2, <1>3, SlotCreds DEF FullType
<1>5. /\ walk' = Append(walk, store[found[assert_next + 1]])
      /\ store' = store /\ req' = req
      /\ IF assert_next + 1 >= Len(found)
         THEN ~assert_valid'
         ELSE /\ assert_next' = assert_next + 1
              /\ UNCHANGED <<assert_valid, assert_slots, assert_req>>
  BY <1>1, <1>3 DEF GetNext, ClearAssertState, request
<1>6. pc'[t] = "idle"
  BY DEF GetNext, Signed, Done, FullType, WorkersOK
<1>7. Shown(walk', store', assert_next + 1, assert_req)
  <2> HIDE DEF found
  <2>1. /\ Len(walk) = assert_next
        /\ \A i \in 1..assert_next : walk[i] = store[found[i]]
    BY <1>1 DEF Shown, found
  <2>2. /\ Len(walk') = assert_next + 1
        /\ \A i \in 1..assert_next : walk'[i] = walk[i]
        /\ walk'[assert_next + 1] = store[found[assert_next + 1]]
    BY <1>2, <1>3, <1>4, <1>5, <2>1
  <2>3. \A i \in 1..(assert_next + 1) : i \in 1..assert_next
                                          \/ i = assert_next + 1
    BY <1>2
  <2>4. \A i \in 1..(assert_next + 1) : walk'[i] = store[found[i]]
    BY <2>1, <2>2, <2>3
  <2>5. QED
    BY <1>2, <1>5, <2>2, <2>4 DEF Shown, found
<1>8. CASE assert_next + 1 >= Len(found)
  <2>1. assert_next + 1 = Len(found)
    BY <1>2, <1>8
  <2>2. Shown(walk', store', Len(CollectSlots(store', req'[t])), req'[t])
    BY <1>1, <1>5, <1>7, <2>1
  <2>3. QED
    BY <1>5, <1>6, <1>8, <2>2 DEF WalkOf
<1>9. CASE ~(assert_next + 1 >= Len(found))
  BY <1>1, <1>5, <1>6, <1>7, <1>9 DEF WalkOf
<1>10. QED
  BY <1>8, <1>9

LEMMA WalkGoesOn ==
  ASSUME FullType, NEW t \in Transports, WalkOf(t),
         \/ \E c \in Commands : \E r \in Parsed(c) : Dispatch(t, c, r)
         \/ Handler(t) /\ ~AskGetAssertion(t)
  PROVE  WalkOf(t)'
<1>0. {"none", "error", "made", "assertion", "next", "reset", "selected",
       "info"} \subseteq Kinds
  BY DEF Kinds
<1>1. ASSUME NEW c \in Commands, NEW r \in Parsed(c), Dispatch(t, c, r)
      PROVE  WalkOf(t)'
  <2>1. pc'[t] = "entered" /\ cmd'[t] = c
        /\ resp'[t] = Reply("none", Free)
    BY <1>1 DEF Dispatch, FullType, WorkersOK
  <2>2. ~Answered(t)'
    BY <1>0, <2>1, ReplyFields DEF Answered
  <2>3. /\ UNCHANGED <<store, walk>>
        /\ UNCHANGED contVars \/ ClearAssertState
        /\ c \notin AssertionCommands => ~assert_valid'
    BY <1>1 DEF Dispatch, ClearAssertState, AssertionCommands
  <2>4. /\ pc'[t] # "gate"
        /\ pc'[t] # "idle" /\ cmd'[t] \notin AssertionCommands
             => ~assert_valid'
    BY <2>1, <2>3
  <2>5. QED
    BY <2>2, <2>3, <2>4, WalkWaits
<1>2. ASSUME NEW kind \in Kinds, kind \notin {"assertion", "next"},
             Done(t, Reply(kind, Free)),
             UNCHANGED <<store, walk>>, UNCHANGED contVars \/ ClearAssertState
      PROVE  WalkOf(t)'
  BY <1>2, DoneEffect, WalkWaits DEF Answered
<1>3. CASE \/ Reject(t) \/ RejectAssertion(t) \/ GetInfo(t)
           \/ GetAssertionNone(t) \/ GetNextNone(t) \/ Fail(t)
           \/ MakeCredentialRefused(t) \/ GetNextGone(t) \/ Selection(t)
  BY <1>0, <1>2, <1>3
     DEF Reject, RejectAssertion, GetInfo, GetAssertionNone, GetNextNone,
         Fail, MakeCredentialRefused, GetNextGone, Selection
<1>4. CASE AskPlain(t)
  <2>1. /\ pc'[t] = "gate" /\ cmd' = cmd /\ cmd[t] \notin AssertionCommands
        /\ pc[t] = "entered" /\ resp' = resp
        /\ UNCHANGED contVars
    BY <1>4 DEF AskPlain, localVars, EnterGate, FullType, WorkersOK,
                AssertionCommands
  <2>2. ~assert_valid' /\ ~Answered(t)'
    BY <2>1 DEF WalkOf, contVars, Answered, FullType, QuietOK
  <2>3. QED
    BY <2>1, <2>2 DEF WalkOf, AssertionCommands
<1>5. CASE AskGetNext(t)
  <2>1. /\ pc'[t] = "gate" /\ cmd' = cmd /\ cmd[t] = "getNextAssertion"
        /\ pc[t] = "entered" /\ assert_valid /\ req'[t] = assert_req
        /\ slots'[t] = <<NextSlot>>
        /\ UNCHANGED contVars /\ UNCHANGED <<store, resp, walk>>
    BY <1>5 DEF AskGetNext, HasNext, EnterGate, FullType, WorkersOK, LocalsOK
  <2>2. ~Answered(t)'
    BY <2>1 DEF Answered, FullType, QuietOK
  <2>3. QED
    BY <2>1, <2>2 DEF WalkOf, contVars, AssertionCommands, NextSlot
<1>6. ASSUME NEW kind \in Kinds, kind \notin {"assertion", "next"},
             NEW cred \in Cred \cup {Free}, Done(t, Reply(kind, cred)),
             UNCHANGED contVars, pc[t] # "idle",
             cmd[t] \notin AssertionCommands
      PROVE  WalkOf(t)'
  <2>1. ~assert_valid'
    BY <1>6 DEF WalkOf, contVars
  <2>2. pc'[t] = "idle" /\ ~Answered(t)'
    BY <1>6, DoneEffect DEF Answered
  <2>3. QED
    BY <2>1, <2>2 DEF WalkOf
<1>7. ASSUME NEW id \in Ids, MakeCredential(t, id) PROVE WalkOf(t)'
  <2>1. [id |-> id, rp |-> req[t].rp] \in Cred
    BY <1>7 DEF MakeCredential, InGate, FullType, LocalsOK, Request, Cred
  <2>2. QED
    BY <1>0, <1>6, <1>7, <2>1 DEF MakeCredential, InGate, AssertionCommands
<1>8. CASE Reset(t)
  BY <1>0, <1>6, <1>8 DEF Reset, InGate, AssertionCommands
<1>9. QED
  BY <1>1, <1>3, <1>4, <1>5, <1>7, <1>8, GetAssertionWalks, GetNextWalks
     DEF Handler

LEMMA WalkStep == FullType /\ WalkInv /\ [Next]_vars => WalkInv'
<1> SUFFICES ASSUME FullType, WalkInv, [Next]_vars,
                    NEW t \in Transports, walker' = t
             PROVE  WalkOf(t)'
  BY DEF WalkInv
<1>1. ASSUME NEW u \in Transports, Walks(u),
             \/ \E c \in Commands : \E r \in Parsed(c) : Dispatch(u, c, r)
             \/ Handler(u)
      PROVE  WalkOf(t)'
  <2>1. u = t
    BY <1>1, AuthenticatorAssumption DEF Walks
  <2>2. CASE AskGetAssertion(t)
    BY <2>2, WalkStarts
  <2>3. CASE ~AskGetAssertion(t)
    <3>1. ASSUME cmd[t] = "getAssertion", pc[t] = "entered", pc'[t] = "gate"
          PROVE  FALSE
      <4>1. \A reply : ~Done(t, reply)
        BY <3>1 DEF Done, FullType, WorkersOK
      <4>2. \A c, r : ~Dispatch(t, c, r)
        BY <3>1 DEF Dispatch
      <4>3. ~AskPlain(t) /\ ~AskGetNext(t)
        BY <3>1 DEF AskPlain, AskGetNext
      <4>4. ~GetAssertion(t) /\ ~GetNext(t)
        BY <4>1 DEF GetAssertion, GetNext, Signed
      <4>5. \A id : ~MakeCredential(t, id)
        BY <4>1 DEF MakeCredential
      <4>6. ~Handler(t)
        BY <2>3, <4>1, <4>3, <4>4, <4>5
           DEF Handler, Reject, RejectAssertion, GetInfo, GetAssertionNone,
               GetNextNone, Fail, MakeCredentialRefused, GetNextGone, Reset,
               Selection
      <4>7. QED
        BY <1>1, <2>1, <4>2, <4>6
    <3>2. walker = t
      BY <1>1, <2>1, <3>1, AuthenticatorAssumption DEF Walks
    <3>3. QED
      BY <1>1, <2>1, <2>3, <3>2, WalkGoesOn DEF WalkInv
  <2>4. QED
    BY <2>2, <2>3
<1>2. ASSUME NEW new, Restore(new) PROVE FALSE
  BY <1>2, AuthenticatorAssumption DEF Restore
<1>3. CASE WindowCloses
  BY <1>3 DEF WindowCloses, localVars, WalkInv, WalkOf, NextSlot, Answered
<1>4. CASE UNCHANGED vars
  BY <1>4 DEF vars, contVars, localVars, WalkInv, WalkOf, NextSlot, Answered
<1>5. QED
  BY <1>1, <1>2, <1>3, <1>4 DEF Next

\* getAssertion and getNextAssertion show the matching credentials one by one,
\* in slot order, each once, and end exactly when all have been shown, unless
\* another transport or the companion has come in between.
THEOREM WalkIsFaithful == Spec => []WalkFaithful
<1>1. Init => WalkInv
  BY AuthenticatorAssumption DEF Init, WalkInv
<1>2. FullType /\ WalkInv => WalkFaithful
  <2> SUFFICES ASSUME FullType, WalkInv, NEW t \in Transports, walker = t,
                      Answered(t)
               PROVE  /\ walk = SubSeq(Answers(req[t]), 1, Len(walk))
                      /\ assert_valid = (Len(walk) < Len(Answers(req[t])))
    BY DEF WalkFaithful
  <2> DEFINE found == CollectSlots(store, req[t])
             all == [i \in DOMAIN found |-> store[found[i]]]
  <2>1. found \in Seq(Slots) /\ walk \in Seq(Cred \cup {Free})
    BY SearchResult DEF FullType, HistoryOK
  <2>2. Answers(req[t]) = all
    BY DEF Answers
  <2>3. Shown(walk, store, Len(walk), req[t])
        /\ assert_valid = (Len(walk) < Len(found))
    <3>1. CASE assert_valid
      BY <3>1 DEF WalkInv, WalkOf, FullType, ContOK, Shown
    <3>2. CASE ~assert_valid
      BY <3>2, <2>1 DEF WalkInv, WalkOf, FullType, ContOK, Shown
    <3>3. QED
      BY <3>1, <3>2
  <2>4. /\ Len(walk) \in Nat /\ Len(walk) <= Len(found)
        /\ \A i \in 1..Len(walk) : walk[i] = store[found[i]]
    BY <2>1, <2>3 DEF Shown
  <2>5. \A i \in DOMAIN found : store[found[i]] \in Cred \cup {Free}
    BY <2>1, SlotCreds DEF FullType
  <2> HIDE DEF found
  <2>6. /\ all \in Seq(Cred \cup {Free}) /\ Len(all) = Len(found)
        /\ \A i \in 1..Len(found) : all[i] = store[found[i]]
    BY <2>1, <2>5
  <2> HIDE DEF all
  <2>7. /\ SubSeq(all, 1, Len(walk)) \in Seq(Cred \cup {Free})
        /\ Len(SubSeq(all, 1, Len(walk))) = Len(walk)
        /\ \A i \in 1..Len(walk) : SubSeq(all, 1, Len(walk))[i] = all[i]
    BY <2>4, <2>6
  <2>8. walk = SubSeq(all, 1, Len(walk))
    <3>1. \A i \in 1..Len(walk) : walk[i] = SubSeq(all, 1, Len(walk))[i]
      BY <2>4, <2>6, <2>7
    <3> DEFINE part == SubSeq(all, 1, Len(walk))
    <3>2. part \in Seq(Cred \cup {Free}) /\ Len(part) = Len(walk)
          /\ \A i \in 1..Len(walk) : walk[i] = part[i]
      BY <2>7, <3>1
    <3> HIDE DEF part
    <3>3. walk = part
      BY <2>1, <3>2
    <3>4. QED
      BY <3>3 DEF part
  <2>9. QED
    BY <2>2, <2>3, <2>6, <2>8
<1>3. QED
  BY <1>1, <1>2, WalkStep, FullTypeCorrect, PTL DEF Spec

-----------------------------------------------------------------------------
(* An authenticator that one transport uses and no companion edits.         *)

OneTransport == \A t, u \in Transports : t = u

AllMatch(creds, found, r) == \A i \in DOMAIN found : Matches(creds, r, found[i])

\* What has been looked up still matches when it is used.
FreshOf(t) ==
  /\ pc[t] # "idle" /\ cmd[t] \notin AssertionCommands => ~assert_valid
  /\ pc[t] = "gate" /\ cmd[t] \in AssertionCommands =>
       AllMatch(store, slots[t], req[t])
  /\ assert_valid => AllMatch(store, assert_slots, assert_req)
FreshInv == \A t \in Transports : FreshOf(t)

LEMMA FreshWaits ==
  ASSUME FullType, NEW t \in Transports, FreshOf(t), store' = store,
         UNCHANGED contVars \/ ClearAssertState, pc'[t] # "gate",
         pc'[t] # "idle" /\ cmd'[t] \notin AssertionCommands => ~assert_valid'
  PROVE  FreshOf(t)'
<1>1. CASE ClearAssertState
  BY <1>1 DEF FreshOf, ClearAssertState
<1>2. CASE UNCHANGED contVars
  BY <1>2 DEF FreshOf, contVars
<1>3. QED
  BY <1>1, <1>2

LEMMA FreshStep ==
  ASSUME FullType, NEW t \in Transports, FreshOf(t),
         \/ \E c \in Commands : \E r \in Parsed(c) : Dispatch(t, c, r)
         \/ Handler(t)
  PROVE  FreshOf(t)'
<1>1. ASSUME NEW c \in Commands, NEW r \in Parsed(c), Dispatch(t, c, r)
      PROVE  FreshOf(t)'
  <2>1. /\ pc'[t] # "gate" /\ store' = store
        /\ UNCHANGED contVars \/ ClearAssertState
        /\ cmd'[t] \notin AssertionCommands => ~assert_valid'
    BY <1>1 DEF Dispatch, ClearAssertState, AssertionCommands, FullType,
                WorkersOK
  <2>2. QED
    BY <2>1, FreshWaits
<1>2. ASSUME NEW reply, Done(t, reply), store' = store,
             UNCHANGED contVars \/ ClearAssertState
      PROVE  FreshOf(t)'
  <2>1. pc'[t] = "idle"
    BY <1>2 DEF Done, FullType, WorkersOK
  <2>2. QED
    BY <1>2, <2>1, FreshWaits
<1>3. CASE \/ Reject(t) \/ RejectAssertion(t) \/ GetInfo(t)
           \/ GetAssertionNone(t) \/ GetNextNone(t) \/ Fail(t)
           \/ MakeCredentialRefused(t) \/ GetNextGone(t) \/ Selection(t)
  BY <1>2, <1>3
     DEF Reject, RejectAssertion, GetInfo, GetAssertionNone, GetNextNone,
         Fail, MakeCredentialRefused, GetNextGone, Selection
<1>4. CASE AskPlain(t)
  BY <1>4 DEF AskPlain, localVars, contVars, FreshOf, AssertionCommands
<1>5. CASE AskGetAssertion(t)
  <2>1. /\ slots'[t] = CollectSlots(store, req[t]) /\ req' = req
        /\ store' = store /\ ~assert_valid'
        /\ cmd'[t] = "getAssertion"
    BY <1>5 DEF AskGetAssertion, ClearAssertState, FullType, LocalsOK
  <2>2. AllMatch(store', slots'[t], req'[t])
    BY <2>1, SearchResult DEF AllMatch
  <2>3. QED
    BY <2>1, <2>2 DEF FreshOf, AssertionCommands
<1>6. CASE AskGetNext(t)
  <2>1. /\ slots'[t] = <<NextSlot>> /\ req'[t] = assert_req
        /\ cmd' = cmd /\ cmd[t] = "getNextAssertion"
        /\ store' = store /\ UNCHANGED contVars /\ HasNext
    BY <1>6 DEF AskGetNext, FullType, LocalsOK, WorkersOK
  <2>2. Matches(store, assert_req, NextSlot)
    BY <2>1 DEF HasNext, NextSlot, FreshOf, AllMatch, FullType, ContOK
  <2>3. DOMAIN <<NextSlot>> = {1} /\ <<NextSlot>>[1] = NextSlot
    OBVIOUS
  <2>4. AllMatch(store', slots'[t], req'[t])
    BY <2>1, <2>2, <2>3 DEF AllMatch
  <2>5. QED
    BY <2>1, <2>4 DEF FreshOf, contVars, AssertionCommands
<1>7. ASSUME Reset(t) \/ \E id \in Ids : MakeCredential(t, id)
      PROVE  FreshOf(t)'
  <2>1. ~assert_valid
    BY <1>7 DEF Reset, MakeCredential, InGate, FreshOf, AssertionCommands
  <2>2. pc'[t] = "idle" /\ assert_valid' = assert_valid
    BY <1>7 DEF Reset, MakeCredential, Done, contVars, FullType, WorkersOK
  <2>3. QED
    BY <2>1, <2>2 DEF FreshOf
<1>8. CASE GetAssertion(t)
  <2>1. AllMatch(store, slots[t], req[t]) /\ pc'[t] = "idle"
    BY <1>8 DEF GetAssertion, InGate, FreshOf, AssertionCommands, Signed, Done,
                FullType, WorkersOK
  <2>2. CASE Len(slots[t]) > 1
    BY <1>8, <2>1, <2>2 DEF GetAssertion, FreshOf
  <2>3. CASE ~(Len(slots[t]) > 1)
    BY <1>8, <2>1, <2>3 DEF GetAssertion, FreshOf, contVars
  <2>4. QED
    BY <2>2, <2>3
<1>9. CASE GetNext(t)
  <2>1. pc'[t] = "idle" /\ store' = store
    BY <1>9 DEF GetNext, Signed, Done, FullType, WorkersOK
  <2>2. assert_valid' => assert_valid /\ UNCHANGED <<assert_slots, assert_req>>
    BY <1>9 DEF GetNext, ClearAssertState
  <2>3. QED
    BY <2>1, <2>2 DEF FreshOf
<1>10. QED
  BY <1>1, <1>3, <1>4, <1>5, <1>6, <1>7, <1>8, <1>9 DEF Handler

\* One transport and no companion edit are what the signature needs: then an
\* assertion is always made with a credential of the request's relying party
\* and list.  (With a second transport or an edit it is not: the slots looked
\* up before the wait are used after it.)
THEOREM SoloAssertionMatches ==
  ASSUME OneTransport, Restores = {} PROVE Spec => AssertionMatchesRequest
<1>1. Init => FreshInv
  BY DEF Init, FreshInv, FreshOf
<1>2. FullType /\ FreshInv /\ [Next]_vars => FreshInv'
  <2> SUFFICES ASSUME FullType, FreshInv, [Next]_vars, NEW t \in Transports
               PROVE  FreshOf(t)'
    BY DEF FreshInv
  <2>1. FreshOf(t)
    BY DEF FreshInv
  <2>2. CASE WindowCloses
    BY <2>1, <2>2 DEF WindowCloses, localVars, FreshOf
  <2>3. CASE UNCHANGED vars
    BY <2>1, <2>3 DEF vars, contVars, localVars, FreshOf
  <2>4. QED
    BY <2>1, <2>2, <2>3, FreshStep, OneTransport DEF OneTransport, Next
<1>3. FullType /\ FreshInv /\ [Next]_vars =>
        [\A t \in Transports : Answered(t)' /\ ~Answered(t) =>
           LET cred == resp'[t].cred
           IN  /\ cred # Free /\ cred.rp = req[t].rp
               /\ req[t].list = {} \/ cred.id \in req[t].list]_vars
  <2> SUFFICES ASSUME FullType, FreshInv, Next, NEW t \in Transports,
                      Answered(t)', ~Answered(t)
               PROVE  \E s \in Slots : /\ Matches(store, req[t], s)
                                       /\ resp'[t].cred = store[s]
    BY DEF vars, Matches
  <2>1. ~WindowCloses
    BY DEF WindowCloses, Answered
  <2>2. \A kind \in Kinds, cred \in Cred \cup {Free} :
          kind \notin {"assertion", "next"} => ~Done(t, Reply(kind, cred))
    BY DoneEffect DEF Answered
  <2>3. {"none", "error", "made", "assertion", "next", "reset", "selected",
         "info"} \subseteq Kinds
    BY DEF Kinds
  <2>4. \A c, r : ~Dispatch(t, c, r)
    <3> SUFFICES ASSUME NEW c, NEW r, Dispatch(t, c, r) PROVE FALSE
      OBVIOUS
    <3>1. resp'[t] = Reply("none", Free)
      BY DEF Dispatch, FullType, WorkersOK
    <3>2. QED
      BY <2>3, <3>1, ReplyFields DEF Answered
  <2>5. \A id \in Ids : ~MakeCredential(t, id)
    <3> SUFFICES ASSUME NEW id \in Ids, MakeCredential(t, id) PROVE FALSE
      OBVIOUS
    <3>1. [id |-> id, rp |-> req[t].rp] \in Cred
      BY DEF MakeCredential, InGate, FullType, LocalsOK, Request, Cred
    <3>2. QED
      BY <2>2, <2>3, <3>1 DEF MakeCredential
  <2>6. Handler(t)
    BY <2>1, <2>4, OneTransport DEF Next, OneTransport
  <2>7. ~AskPlain(t) /\ ~AskGetAssertion(t) /\ ~AskGetNext(t)
    BY DEF AskPlain, AskGetAssertion, AskGetNext, Answered
  <2>8. GetAssertion(t) \/ GetNext(t)
    BY <2>2, <2>3, <2>5, <2>6, <2>7
       DEF Handler, Reject, RejectAssertion, GetInfo, GetAssertionNone,
           GetNextNone, Fail, MakeCredentialRefused, GetNextGone, Reset,
           Selection
  <2>9. slots[t] # <<>> /\ slots[t] \in Seq(Slots)
        /\ AllMatch(store, slots[t], req[t])
    BY <2>8 DEF GetAssertion, GetNext, InGate, FreshInv, FreshOf, FullType,
                LocalsOK, AssertionCommands
  <2>10. 1 \in DOMAIN slots[t] /\ slots[t][1] \in Slots
    BY <2>9
  <2>11. Matches(store, req[t], slots[t][1])
    BY <2>9, <2>10 DEF AllMatch
  <2>12. resp'[t].cred = store[slots[t][1]]
    BY <2>3, <2>8, <2>10, SlotCreds, DoneEffect
       DEF GetAssertion, GetNext, Signed, FullType
  <2>13. QED
    BY <2>10, <2>11, <2>12
<1>4. QED
  BY <1>1, <1>2, <1>3, FullTypeCorrect, PTL DEF Spec, AssertionMatchesRequest
=============================================================================
