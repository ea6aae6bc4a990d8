------------------------------ MODULE LanRelay ------------------------------
(***************************************************************************)
(* The phone's side of the LAN relay: LanFidoServer.kt with its registry   *)
(* of computers, LanClientRegistry.kt, and the endpoint it shares with the *)
(* phone's own credential provider, CtapHidEndpoint.kt.  Every connection  *)
(* has a thread; one transport lock covers the exchange of a request and   *)
(* its answer with the kernel, whose reply queue is shared by all.  A      *)
(* message is one packet here.  The kernel, the network and the computers  *)
(* are external; USB is unplugged.                                         *)
(***************************************************************************)
EXTENDS Naturals, Sequences

CONSTANTS
  Computers,
  MaxRecords,    \* LanClientRegistry.MAX_RECORDS
  MaxConns,      \* bound: connections
  MaxReqs,       \* bound: requests
  MaxDecisions,  \* bound: the user's edits of the list and stops
  MaxKeepalives, \* bound: keepalives of one request
  None

Local == MaxConns + 1            \* the credential provider of the phone
Conns == 1..MaxConns
Users == Conns \cup {Local}
Ids == 1..MaxReqs
Broadcast == 0                   \* a channel is named by the INIT it is from
Statuses == {"pending", "authorized", "blocked"}

ASSUME RelayAssumption ==
  /\ MaxRecords \in Nat \ {0} /\ MaxConns \in Nat /\ MaxReqs \in Nat
  /\ MaxKeepalives \in Nat /\ MaxDecisions \in Nat
  /\ None \notin Computers

Request == [id : Ids, user : Users, cid : 0..MaxReqs,
            cmd : {"init", "cbor", "cancel"}]
\* What the kernel sends about a request.
Packet == [req : Request, kind : {"answer", "error", "keepalive"}]

VARIABLES
  records,       \* the registry, in its order
  autoAuthorizeNewClients,
  running,       \* the relay has not been stopped
  who,           \* connection -> its computer
  at,            \* user of the endpoint -> where its thread is
  open,          \* connections whose socket is open
  authenticated, \* connections that have been the active one
  activeClient,  \* 0 for null
  request,       \* user -> the request it has in hand
  transportLock, \* the user that holds it, 0 for nobody
  rx, tx,        \* the kernel's queues
  keepalives,    \* keepalives sent for the request at the head of rx
  channel,       \* computer or phone -> its channel, Broadcast before INIT
  conns, reqs, decisions, \* so far
  banned,        \* history: computers the user has blocked and not readmitted
  tainted,       \* history: channels with an answer nobody waited for
  stray          \* history: the last answer to another request than the one
                 \* it was given to, or None

connVars == <<who, authenticated, conns>>
lanVars == <<running, connVars, open, activeClient>>
regVars == <<records, autoAuthorizeNewClients, decisions, banned>>
kernelVars == <<rx, tx, keepalives>>
vars == <<lanVars, regVars, kernelVars, at, request, transportLock, channel,
          reqs, tainted, stray>>

Owner(u) == IF u = Local THEN Local ELSE who[u]
Owners == Computers \cup {Local}

\* The type invariant; the registry keeps its limit.
TypeOK ==
  /\ records \in Seq([id : Computers, status : Statuses])
  /\ Len(records) <= MaxRecords
  /\ autoAuthorizeNewClients \in BOOLEAN
  /\ who \in [Conns -> Computers \cup {None}]
  /\ at \in [Users -> {"none", "hello", "idle", "request", "waiting",
                       "exchange", "closed"}]
  /\ open \subseteq Conns /\ authenticated \subseteq Conns
  /\ running \in BOOLEAN /\ activeClient \in 0..MaxConns
  /\ request \in [Users -> Request \cup {None}]
  /\ transportLock \in {0} \cup Users
  /\ rx \in Seq(Request) /\ tx \in Seq(Packet)
  /\ keepalives \in 0..MaxKeepalives
  /\ channel \in [Owners -> 0..MaxReqs]
  /\ conns \in 0..MaxConns /\ reqs \in 0..MaxReqs
  /\ decisions \in 0..MaxDecisions
  /\ banned \subseteq Computers /\ tainted \subseteq Ids
  /\ stray \in [to : Request, with : Packet] \cup {None}

Init ==
  /\ records = <<>> /\ autoAuthorizeNewClients \in BOOLEAN
  /\ decisions = 0 /\ banned = {}
  /\ who = [c \in Conns |-> None]
  /\ at = [u \in Users |-> IF u = Local THEN "idle" ELSE "none"]
  /\ running = TRUE /\ activeClient = 0
  /\ open = {} /\ authenticated = {} /\ conns = 0
  /\ request = [u \in Users |-> None] /\ transportLock = 0
  /\ rx = <<>> /\ tx = <<>> /\ keepalives = 0
  /\ channel = [o \in Owners |-> Broadcast]
  /\ reqs = 0 /\ tainted = {} /\ stray = None

-----------------------------------------------------------------------------
(* The registry.                                                           *)

Listed(a) == \E i \in DOMAIN records : records[i].id = a
StatusOf(a) == records[CHOOSE i \in DOMAIN records : records[i].id = a].status

\* Mutant: the newest records are the ones kept.
SaveNewest(rs) ==
  LET n == Len(rs) IN IF n > MaxRecords THEN SubSeq(rs, n - MaxRecords + 1, n)
                      ELSE rs

\* save keeps the first MAX_RECORDS.
Save(rs) == SubSeq(rs, 1, IF Len(rs) > MaxRecords THEN MaxRecords ELSE Len(rs))

\* onHello: the status that applies to computer a.
HelloStatus(a) ==
  IF Listed(a) THEN StatusOf(a)
  ELSE IF autoAuthorizeNewClients THEN "authorized" ELSE "pending"

\* The user decides about a listed computer in LanClientsActivity.
SetStatus(a, s) ==
  /\ Listed(a) /\ StatusOf(a) # s
  /\ decisions < MaxDecisions /\ decisions' = decisions + 1
  /\ records' = [i \in DOMAIN records |->
                   IF records[i].id = a THEN [records[i] EXCEPT !.status = s]
                   ELSE records[i]]
  /\ banned' = IF s = "blocked" THEN banned \cup {a} ELSE banned \ {a}
  /\ UNCHANGED <<lanVars, autoAuthorizeNewClients, kernelVars, at, request,
                 transportLock, channel, reqs, tainted, stray>>

\* The user removes a computer from the list, where it stands once.
Remove(a) ==
  /\ decisions < MaxDecisions /\ decisions' = decisions + 1
  /\ \E i \in DOMAIN records :
       /\ records[i].id = a
       /\ records' = SubSeq(records, 1, i - 1) \o
                     SubSeq(records, i + 1, Len(records))
  /\ banned' = banned \ {a}
  /\ UNCHANGED <<lanVars, autoAuthorizeNewClients, kernelVars, at, request,
                 transportLock, channel, reqs, tainted, stray>>

-----------------------------------------------------------------------------
(* The relay as a whole, switched off in the app.                          *)

\* stop closes every socket; the threads find out at their next use of it.
\* (A relay started again is a new object, which shares with threads of
\* this one only the transport lock and the kernel.)
Stop ==
  /\ running /\ running' = FALSE
  /\ decisions < MaxDecisions /\ decisions' = decisions + 1
  /\ open' = {} /\ activeClient' = 0
  /\ UNCHANGED <<connVars, records, autoAuthorizeNewClients, banned,
                 kernelVars, at, request, transportLock, channel, reqs,
                 tainted, stray>>

-----------------------------------------------------------------------------
(* A connection's thread.                                                  *)

\* A computer connects and shakes hands.
Accept(a) ==
  /\ running /\ conns < MaxConns
  /\ LET c == conns + 1
     IN /\ conns' = c /\ who' = [who EXCEPT ![c] = a]
        /\ open' = open \cup {c} /\ at' = [at EXCEPT ![c] = "hello"]
  /\ UNCHANGED <<running, authenticated, activeClient, regVars, kernelVars,
                 request,
                 transportLock, channel, reqs, tainted, stray>>

\* The end of thread c: its socket is closed, and it is not active any more.
Closes(c) ==
  /\ at' = [at EXCEPT ![c] = "closed"]
  /\ request' = [request EXCEPT ![c] = None]
  /\ open' = open \ {c}
  /\ activeClient' = IF activeClient = c THEN 0 ELSE activeClient

\* The hello names the computer: recorded, and let in if authorized.
Hello(c) ==
  /\ at[c] = "hello" /\ c \in open
  /\ records' = Save(IF Listed(who[c]) THEN records
                     ELSE Append(records, [id |-> who[c],
                                           status |-> HelloStatus(who[c])]))
  /\ \/ /\ HelloStatus(who[c]) = "authorized"
        /\ at' = [at EXCEPT ![c] = "idle"]
        /\ UNCHANGED <<open, activeClient, request>>
     \/ HelloStatus(who[c]) # "authorized" /\ Closes(c)
  /\ UNCHANGED <<running, connVars, autoAuthorizeNewClients, decisions, banned,
                 kernelVars, transportLock, channel, reqs, tainted, stray>>

\* A connection breaks.
Break(c) ==
  /\ c \in open /\ open' = open \ {c}
  /\ UNCHANGED <<running, connVars, activeClient, regVars, kernelVars,
                 at, request, transportLock, channel, reqs, tainted, stray>>

\* A thread waiting for a frame finds its socket closed.
EndOfStream(c) ==
  /\ at[c] \in {"hello", "idle"} /\ c \notin open
  /\ Closes(c)
  /\ UNCHANGED <<running, connVars, regVars, kernelVars,
                 transportLock, channel, reqs, tainted, stray>>

\* What a user may ask: INIT to get a channel, then commands on it.
NewRequest(u) ==
  {[id |-> reqs + 1, user |-> u, cid |-> Broadcast, cmd |-> "init"]} \cup
  {[id |-> reqs + 1, user |-> u, cid |-> channel[Owner(u)], cmd |-> m] :
     m \in IF channel[Owner(u)] = Broadcast THEN {} ELSE {"cbor", "cancel"}}

\* awaitFrame and readRequest: the latest connection of a computer sends a
\* request of its host.
ReadRequest(c) ==
  /\ at[c] = "idle" /\ c \in open /\ reqs < MaxReqs
  /\ \A d \in Conns : d > c => who[d] # who[c]
  /\ \E r \in NewRequest(c) : request' = [request EXCEPT ![c] = r]
  /\ reqs' = reqs + 1 /\ at' = [at EXCEPT ![c] = "request"]
  /\ UNCHANGED <<lanVars, regVars, kernelVars, transportLock, channel, tainted,
                 stray>>

\* The first request of a connection makes it the active one, and closes
\* the previous one.
Activate(c) ==
  /\ at[c] = "request"
  /\ at' = [at EXCEPT ![c] = "waiting"]
  /\ \/ /\ c \in authenticated
        /\ UNCHANGED <<activeClient, authenticated, open>>
     \/ /\ c \notin authenticated
        /\ authenticated' = authenticated \cup {c}
        /\ activeClient' = c
        /\ open' = open \ ({activeClient} \ {c})
  /\ UNCHANGED <<running, who, conns, regVars, kernelVars,
                 request, transportLock, channel, reqs, tainted, stray>>

\* With the lock: a superseded connection ends, and so does one whose request
\* the kernel endpoint refuses to take, also when it is written again.
NotWritten(c) ==
  /\ at[c] = "waiting" /\ transportLock = 0
  /\ Closes(c)
  /\ UNCHANGED <<running, connVars, regVars, kernelVars,
                 transportLock, channel, reqs, tainted, stray>>

\* Mutant: the lock covers the write and not the answer.
WriteOnlyLocked(c) ==
  /\ at[c] = "waiting" /\ transportLock = 0 /\ activeClient = c
  /\ rx' = Append(rx, request[c])
  /\ at' = [at EXCEPT ![c] = "exchange"]
  /\ UNCHANGED <<lanVars, regVars, tx, keepalives, channel, reqs, tainted,
                 stray, request, transportLock>>

\* With the lock: the request goes to the kernel.  A CANCEL has no answer.
Write(c) ==
  /\ at[c] = "waiting" /\ transportLock = 0 /\ activeClient = c
  /\ rx' = Append(rx, request[c])
  /\ \/ /\ request[c].cmd = "cancel"
        /\ at' = [at EXCEPT ![c] = "idle"]
        /\ request' = [request EXCEPT ![c] = None]
        /\ UNCHANGED transportLock
     \/ /\ request[c].cmd # "cancel"
        /\ at' = [at EXCEPT ![c] = "exchange"] /\ transportLock' = c
        /\ UNCHANGED request
  /\ UNCHANGED <<lanVars, regVars, tx, keepalives, channel, reqs, tainted,
                 stray>>

\* The phone's own provider takes the lock for a request (transceive).
LocalWrite ==
  /\ at[Local] = "idle" /\ transportLock = 0 /\ reqs < MaxReqs
  /\ \E r \in NewRequest(Local) :
       /\ r.cmd # "cancel"
       /\ request' = [request EXCEPT ![Local] = r] /\ rx' = Append(rx, r)
  /\ reqs' = reqs + 1
  /\ at' = [at EXCEPT ![Local] = "exchange"] /\ transportLock' = Local
  /\ UNCHANGED <<lanVars, regVars, tx, keepalives, channel, tainted, stray>>

-----------------------------------------------------------------------------
(* The kernel, external: it serves requests in turn.                       *)

KernelKeepalive ==
  /\ rx # <<>> /\ Head(rx).cmd = "cbor" /\ keepalives < MaxKeepalives
  /\ keepalives' = keepalives + 1
  /\ tx' = Append(tx, [req |-> Head(rx), kind |-> "keepalive"])
  /\ UNCHANGED <<lanVars, regVars, rx, at, request, transportLock, channel,
                 reqs, tainted, stray>>

\* An answer, or HID_ERROR, which only for an INIT is treated differently; a
\* CANCEL has neither.
KernelAnswer(kind) ==
  /\ rx # <<>> /\ (kind = "error" => Head(rx).cmd = "init")
  /\ rx' = Tail(rx) /\ keepalives' = 0
  /\ tx' = IF Head(rx).cmd = "cancel" THEN tx
           ELSE Append(tx, [req |-> Head(rx), kind |-> kind])
  /\ UNCHANGED <<lanVars, regVars, at, request, transportLock, channel, reqs,
                 tainted, stray>>

-----------------------------------------------------------------------------
(* The answer.                                                             *)

\* Mutant: the nonce of an INIT answer is not compared.
MatchesAnyNonce(p, r) ==
  p.req.cid = r.cid /\ (p.kind # "answer" \/ p.req.cmd = r.cmd)

\* A packet is taken to belong to request r: its channel, its command, and
\* for an INIT the nonce.  An error has neither command nor nonce.
Matches(p, r) ==
  /\ p.req.cid = r.cid
  /\ p.kind = "answer" => p.req.cmd = r.cmd
  /\ p.kind # "error" /\ r.cmd = "init" => p.req.id = r.id

\* The thread gives up: its answer may still come.
Abandons(u) ==
  tainted' = tainted \cup ({request[u].cid} \ {Broadcast})

\* Thread u leaves the exchange, a connection's because of an exception.
GivesUp(u) ==
  /\ transportLock' = 0
  /\ \/ /\ u = Local /\ at' = [at EXCEPT ![u] = "idle"]
        /\ request' = [request EXCEPT ![u] = None]
        /\ UNCHANGED <<open, activeClient>>
     \/ u # Local /\ Closes(u)

\* Mutant: a keepalive ends the exchange like an answer.
SkipPacketEnds(u) ==
  /\ at[u] = "exchange" /\ tx # <<>> /\ tx' = Tail(tx)
  /\ Head(tx).kind = "keepalive" \/ ~Matches(Head(tx), request[u])
  /\ u \in open \cup {Local}
  /\ IF Head(tx).kind = "keepalive"
     THEN /\ transportLock' = 0 /\ at' = [at EXCEPT ![u] = "idle"]
          /\ request' = [request EXCEPT ![u] = None]
     ELSE UNCHANGED <<transportLock, at, request>>
  /\ UNCHANGED <<lanVars, regVars, rx, keepalives, channel, reqs, tainted,
                 stray>>

\* relayResponse and transceive drop a packet of another exchange, and
\* forward or skip a keepalive.
SkipPacket(u) ==
  /\ at[u] = "exchange" /\ tx # <<>> /\ tx' = Tail(tx)
  /\ Head(tx).kind = "keepalive" \/ ~Matches(Head(tx), request[u])
  /\ u \in open \cup {Local} \/ ~Matches(Head(tx), request[u])
  /\ UNCHANGED <<lanVars, regVars, rx, keepalives, at, request, transportLock,
                 channel, reqs, tainted, stray>>

\* Forwarding a keepalive to a closed socket ends the exchange early.
KeepaliveUndeliverable(c) ==
  /\ at[c] = "exchange" /\ tx # <<>> /\ tx' = Tail(tx) /\ c \notin open
  /\ Head(tx).kind = "keepalive" /\ Matches(Head(tx), request[c])
  /\ Abandons(c) /\ GivesUp(c)
  /\ UNCHANGED <<running, connVars, regVars, rx, keepalives, channel,
                 reqs, stray>>

\* The answer arrives: the exchange is over, and the computer has it if its
\* socket is still open.
TakeAnswer(u) ==
  /\ at[u] = "exchange" /\ tx # <<>> /\ tx' = Tail(tx)
  /\ Head(tx).kind # "keepalive" /\ Matches(Head(tx), request[u])
  /\ \/ /\ u \in open \cup {Local}
        /\ stray' = IF Head(tx).req = request[u] THEN stray
                    ELSE [to |-> request[u], with |-> Head(tx)]
        /\ channel' = IF request[u].cmd = "init" /\ Head(tx).kind = "answer"
                      THEN [channel EXCEPT ![Owner(u)] = Head(tx).req.id]
                      ELSE channel
        /\ at' = [at EXCEPT ![u] = "idle"] /\ transportLock' = 0
        /\ request' = [request EXCEPT ![u] = None]
        /\ UNCHANGED <<open, activeClient>>
     \/ /\ u \notin open \cup {Local} /\ GivesUp(u)
        /\ UNCHANGED <<stray, channel>>
  /\ UNCHANGED <<running, connVars, regVars, rx, keepalives, reqs,
                 tainted>>

\* Mutant: a relayed exchange has no timeout.
ReadTimeoutLocalOnly(u) ==
  /\ u = Local /\ at[u] = "exchange" /\ tx = <<>>
  /\ Abandons(u) /\ GivesUp(u)
  /\ UNCHANGED <<running, connVars, regVars, kernelVars, channel, reqs,
                 stray>>

\* readPacket times out with nothing to read; transceive also has a
\* deadline of its own, whatever arrives.
ReadTimeout(u) ==
  /\ at[u] = "exchange" /\ (tx = <<>> \/ u = Local)
  /\ Abandons(u) /\ GivesUp(u)
  /\ UNCHANGED <<running, connVars, regVars, kernelVars, channel, reqs,
                 stray>>

-----------------------------------------------------------------------------
\* The steps of one thread.
Thread(c) ==
  \/ Hello(c) \/ EndOfStream(c) \/ ReadRequest(c) \/ Activate(c)
  \/ NotWritten(c) \/ Write(c)

Exchange(u) ==
  \/ SkipPacket(u) \/ TakeAnswer(u) \/ ReadTimeout(u)
  \/ u # Local /\ KeepaliveUndeliverable(u)

Next ==
  \/ \E a \in Computers : Accept(a) \/ Remove(a)
  \/ \E a \in Computers, s \in Statuses : SetStatus(a, s)
  \/ Stop
  \/ \E c \in Conns : Thread(c) \/ Break(c)
  \/ \E u \in Users : Exchange(u)
  \/ LocalWrite \/ KernelKeepalive
  \/ \E kind \in {"answer", "error"} : KernelAnswer(kind)

\* A thread in an exchange runs, and its read returns: with a packet, or at
\* the timeout of the root shell command that does it.
Fairness == \A u \in Users : WF_vars(Exchange(u))

Spec == Init /\ [][Next]_vars /\ Fairness

-----------------------------------------------------------------------------
(* Properties.                                                             *)

\* No computer gets an answer to a request of another one, or of the phone:
\* not over the shared queue, not after a connection was superseded, and not
\* on the broadcast channel that all of them use for INIT.  Only an error,
\* which tells nothing, can go astray there.
AnswersStayHome ==
  stray # None =>
    \/ Owner(stray.to.user) = Owner(stray.with.req.user)
    \/ stray.with.kind = "error" /\ stray.to.cid = Broadcast

\* A request is answered by its own answer, unless an earlier exchange on
\* its channel was given up before its answer came; a new INIT heals that,
\* and may only meet the error of an older one.
AnswersMatch ==
  stray # None =>
    \/ stray.to.cid \in tainted
    \/ stray.with.kind = "error" /\ stray.to.cid = Broadcast

\* While a thread waits for an answer, that answer is still to come: no
\* other thread, of an older session or of the phone, has taken it from the
\* shared queue (the reason for the transport lock).
AnswerNotStolen ==
  \A u \in Users : at[u] = "exchange" =>
    \/ \E i \in DOMAIN rx : rx[i] = request[u]
    \/ \E i \in DOMAIN tx : tx[i].req = request[u] /\ tx[i].kind # "keepalive"

\* A computer the user has blocked starts no session, whatever joins the
\* list after it and whether or not new computers are let in.
BlockedStaysOut == \A a \in banned : Listed(a) /\ StatusOf(a) = "blocked"

\* Whoever holds the transport lock gives it back.
LockReleased == transportLock # 0 ~> transportLock = 0
=============================================================================
