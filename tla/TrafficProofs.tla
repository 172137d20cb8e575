----------------------------- MODULE TrafficProofs -----------------------------
(* Theorems about WsHub, for any servers, clients, queues and turns, about   *)
(* Requests, for any senders, calls and limits, about RecordReads, for any   *)
(* readers, writers, containers and questions, and about RequestAuth, for    *)
(* any demands, tokens, settings and roles.                                  *)
EXTENDS WsHub, Requests, RecordReads, RequestAuth, SequenceTheorems, FiniteSetTheorems, TLAPS

-----------------------------------------------------------------------------
(* Sequences of events.                                                      *)
InSeq(e, q) == \E i \in DOMAIN q : q[i] = e
Once(q) == \A i, j \in DOMAIN q : q[i] = q[j] => i = j

LEMMA AppendFacts ==
  ASSUME NEW q \in Seq(Nat), NEW e \in Nat
  PROVE  /\ Append(q, e) \in Seq(Nat) /\ Len(Append(q, e)) = Len(q) + 1
         /\ \A i \in 1..Len(q) : Append(q, e)[i] = q[i]
         /\ Append(q, e)[Len(q) + 1] = e
         /\ \A x : InSeq(x, Append(q, e)) <=> x = e \/ InSeq(x, q)
         /\ Once(q) /\ ~InSeq(e, q) => Once(Append(q, e))
<1> DEFINE a == Append(q, e)
<1>1. /\ a \in Seq(Nat) /\ Len(a) = Len(q) + 1 /\ Len(q) \in Nat
      /\ \A i \in 1..Len(q) : a[i] = q[i]
      /\ a[Len(q) + 1] = e
  OBVIOUS
<1>2. DOMAIN a = 1..(Len(q) + 1) /\ DOMAIN q = 1..Len(q)
  BY <1>1
<1> HIDE DEF a
<1>3. \A x : InSeq(x, a) <=> x = e \/ InSeq(x, q)
  <2> TAKE x
  <2>1. InSeq(x, a) => x = e \/ InSeq(x, q)
    BY <1>1, <1>2 DEF InSeq
  <2>2. x = e => InSeq(x, a)
    <3>1. Len(q) + 1 \in DOMAIN a
      BY <1>1, <1>2
    <3> QED
      BY <1>1, <3>1 DEF InSeq
  <2>3. InSeq(x, q) => InSeq(x, a)
    <3>1. \A i \in DOMAIN q : i \in DOMAIN a /\ a[i] = q[i]
      BY <1>1, <1>2
    <3> QED
      BY <3>1 DEF InSeq
  <2> QED
    BY <2>1, <2>2, <2>3
<1>4. Once(q) /\ ~InSeq(e, q) => Once(a)
  BY <1>1, <1>2 DEF Once, InSeq
<1> QED
  BY <1>1, <1>3, <1>4 DEF a

LEMMA TailFacts ==
  ASSUME NEW q \in Seq(Nat), q # <<>>
  PROVE  /\ Head(q) \in Nat /\ Head(q) = q[1] /\ InSeq(Head(q), q)
         /\ Tail(q) \in Seq(Nat) /\ Len(q) \in Nat \ {0} /\ Len(Tail(q)) = Len(q) - 1
         /\ \A i \in 1..Len(q) - 1 : Tail(q)[i] = q[i + 1]
         /\ \A x : InSeq(x, Tail(q)) => InSeq(x, q)
         /\ Once(q) => Once(Tail(q)) /\ ~InSeq(Head(q), Tail(q))
<1> DEFINE t == Tail(q)
<1>1. /\ Head(q) \in Nat /\ Head(q) = q[1] /\ t \in Seq(Nat) /\ Len(q) \in Nat \ {0} /\ Len(t) = Len(q) - 1
      /\ \A i \in 1..Len(q) - 1 : t[i] = q[i + 1]
  OBVIOUS
<1>2. DOMAIN t = 1..(Len(q) - 1) /\ DOMAIN q = 1..Len(q)
  BY <1>1
<1> HIDE DEF t
<1>3. \A i \in DOMAIN t : i + 1 \in DOMAIN q /\ t[i] = q[i + 1] /\ i + 1 # 1
  BY <1>1, <1>2
<1>4. 1 \in DOMAIN q
  BY <1>1, <1>2
<1>5. InSeq(Head(q), q) /\ \A x : InSeq(x, t) => InSeq(x, q)
  BY <1>1, <1>3, <1>4 DEF InSeq
<1>6. Once(q) => ~InSeq(Head(q), t)
  BY <1>1, <1>3, <1>4 DEF InSeq, Once
<1>7. Once(q) => Once(t)
  <2>1. SUFFICES ASSUME Once(q), NEW i \in DOMAIN t, NEW j \in DOMAIN t, t[i] = t[j]
                 PROVE  i = j
    BY DEF Once
  <2>2. i + 1 = j + 1
    BY <1>3, <2>1 DEF Once
  <2> QED
    BY <1>2, <2>2
<1> QED
  BY <1>1, <1>5, <1>6, <1>7 DEF t

LEMMA EmptyFacts == <<>> \in Seq(Nat) /\ Len(<<>>) = 0 /\ Once(<<>>) /\ \A x : ~InSeq(x, <<>>)
BY DEF Once, InSeq

-----------------------------------------------------------------------------
(* The hub. An event is taken up once by each server: from its own sending,  *)
(* or else from the wire, and while it is still to come it is nowhere in the *)
(* server. What a client was sent and is to be sent follow, element by       *)
(* element, what his server has broadcast to him.                            *)

\* What is written and what is to be written are a beginning of what was told.
Follows(written, waiting, all) ==
  /\ Len(written) + Len(waiting) <= Len(all)
  /\ \A i \in 1..Len(written) : written[i] = all[i]
  /\ \A i \in 1..Len(waiting) : waiting[i] = all[Len(written) + i]

\* Only events that have been emitted.
Within(q, n) == \A i \in DOMAIN q : q[i] \in 1..n

Connection ==
  [pc : {"open", "closed"}, server : Servers, project : Projects, send : Seq(Nat), got : Seq(Nat)]

HubTypeOK ==
  /\ emitted \in Nat /\ breaks \in Nat /\ Len(home) = emitted
  /\ home \in Seq([project : Projects, origin : Servers])
  /\ publishing \subseteq 1..emitted /\ listening \subseteq Servers
  /\ wire \in [Servers -> Seq(Nat)] /\ queue \in [Servers -> Seq(Nat)]
  /\ client \in [Clients -> {Away} \cup Connection]
  /\ stale \in [Servers -> SUBSET Clients] /\ told \in [Clients -> Seq(Nat)]

ClientsOf(s) == {c \in Clients : Address[c][1] = s}

\* The server has taken the event up.
Taken(s, e) == InSeq(e, queue[s]) \/ \E c \in ClientsOf(s) : InSeq(e, told[c])

ServerOK(s) ==
  /\ Once(wire[s]) /\ Once(queue[s])
  /\ Within(wire[s], emitted) /\ Within(queue[s], emitted)
  /\ \A e \in 1..emitted :
       /\ e \in publishing => ~ InSeq(e, wire[s])
       /\ home[e].origin # s /\ (e \in publishing \/ InSeq(e, wire[s])) => ~ Taken(s, e)
       /\ InSeq(e, queue[s]) => \A c \in ClientsOf(s) : ~ InSeq(e, told[c])

ToldOK(c) ==
  /\ Once(told[c]) /\ Within(told[c], emitted)
  /\ \A i \in DOMAIN told[c] : home[told[c][i]].project = Address[c][2]

ClientOK(c) ==
  /\ client[c].pc = "away" => told[c] = <<>>
  /\ client[c].pc # "away" => client[c].server = Address[c][1] /\ client[c].project = Address[c][2]
  /\ \A s \in Servers : c \in stale[s] => s = Address[c][1]
  /\ Follows(client[c].got, client[c].send, told[c])
  /\ client[c].pc = "open" /\ (\A s \in Servers : c \notin stale[s]) =>
       Len(client[c].got) + Len(client[c].send) = Len(told[c])

HubIInv ==
  /\ HubTypeOK
  /\ \A s \in Servers : ServerOK(s)
  /\ \A c \in Clients : ToldOK(c) /\ ClientOK(c)

LEMMA WithinFact ==
  ASSUME NEW q, NEW n
  PROVE  Within(q, n) <=> \A x : InSeq(x, q) => x \in 1..n
BY DEF Within, InSeq

LEMMA FollowsNothing ==
  ASSUME NEW g \in Seq(Nat), NEW q \in Seq(Nat), NEW t \in Seq(Nat), Follows(g, q, t)
  PROVE  Follows(g, <<>>, t)
BY DEF Follows

LEMMA Bounds ==
  ASSUME NEW l \in Nat, NEW m \in Nat, NEW n \in Nat, l + m <= n
  PROVE  /\ l + m <= n + 1
         /\ \A i \in 1..l : i \in 1..n
         /\ \A i \in 1..m : l + i \in 1..n
         /\ l + (m + 1) = (l + m) + 1
         /\ \A i \in 1..m + 1 : i = m + 1 \/ i \in 1..m
OBVIOUS

\* More is told, and nothing else happens.
LEMMA FollowsTold ==
  ASSUME NEW g \in Seq(Nat), NEW q \in Seq(Nat), NEW t \in Seq(Nat), NEW e \in Nat, Follows(g, q, t)
  PROVE  Follows(g, q, Append(t, e))
<1> DEFINE a == Append(t, e)
<1>1. Len(a) = Len(t) + 1 /\ Len(t) \in Nat /\ \A i \in 1..Len(t) : a[i] = t[i]
  BY AppendFacts
<1>2. Len(g) \in Nat /\ Len(q) \in Nat
  OBVIOUS
<1> HIDE DEF a
<1>3. /\ Len(g) + Len(q) <= Len(a)
      /\ \A i \in 1..Len(g) : i \in 1..Len(t)
      /\ \A i \in 1..Len(q) : Len(g) + i \in 1..Len(t)
  BY <1>1, <1>2, Bounds DEF Follows
<1> QED
  <2>1. Follows(g, q, a)
    BY <1>1, <1>3 DEF Follows
  <2> QED
    BY <2>1 DEF a

\* What is told is put in the queue.
LEMMA FollowsSent ==
  ASSUME NEW g \in Seq(Nat), NEW q \in Seq(Nat), NEW t \in Seq(Nat), NEW e \in Nat,
         Follows(g, q, t), Len(g) + Len(q) = Len(t)
  PROVE  /\ Follows(g, Append(q, e), Append(t, e))
         /\ Len(g) + Len(Append(q, e)) = Len(Append(t, e))
<1> DEFINE a == Append(t, e)
           b == Append(q, e)
<1>1. Len(a) = Len(t) + 1 /\ Len(t) \in Nat /\ a[Len(t) + 1] = e /\ \A i \in 1..Len(t) : a[i] = t[i]
  BY AppendFacts
<1>2. Len(b) = Len(q) + 1 /\ Len(q) \in Nat /\ b[Len(q) + 1] = e /\ \A i \in 1..Len(q) : b[i] = q[i]
  BY AppendFacts
<1>3. Len(g) \in Nat
  OBVIOUS
<1> HIDE DEF a, b
<1>4. \A i \in 1..Len(b) : b[i] = a[Len(g) + i]
  <2> TAKE i \in 1..Len(b)
  <2>1. CASE i = Len(q) + 1
    <3>1. Len(g) + (Len(q) + 1) = (Len(g) + Len(q)) + 1
      BY <1>2, <1>3
    <3>2. Len(g) + i = Len(t) + 1
      BY <2>1, <3>1
    <3> QED
      BY <1>1, <1>2, <2>1, <3>2
  <2>2. CASE i # Len(q) + 1
    <3>1. i \in 1..Len(q)
      BY <1>2, <2>2
    <3>2. Len(g) + i \in 1..Len(t)
      BY <1>1, <1>2, <1>3, <3>1, Bounds DEF Follows
    <3> QED
      BY <1>1, <1>2, <3>1, <3>2 DEF Follows
  <2> QED
    BY <2>1, <2>2
<1>5. \A i \in 1..Len(g) : i \in 1..Len(t)
  BY <1>1, <1>2, <1>3
<1>6. Len(g) + Len(b) = Len(a)
  BY <1>1, <1>2, <1>3
<1>7. Follows(g, b, a)
  <2>1. Len(g) + Len(b) <= Len(a)
    BY <1>1, <1>6
  <2>2. \A i \in 1..Len(g) : g[i] = a[i]
    BY <1>1, <1>5 DEF Follows
  <2> QED
    BY <1>4, <2>1, <2>2 DEF Follows
<1> QED
  BY <1>6, <1>7 DEF a, b

\* The first that waits is written.
LEMMA FollowsWritten ==
  ASSUME NEW g \in Seq(Nat), NEW q \in Seq(Nat), NEW t \in Seq(Nat), Follows(g, q, t), q # <<>>
  PROVE  /\ Follows(Append(g, Head(q)), Tail(q), t)
         /\ Len(Append(g, Head(q))) + Len(Tail(q)) = Len(g) + Len(q)
<1> DEFINE h == Append(g, Head(q))
           r == Tail(q)
<1>1. /\ Head(q) \in Nat /\ Head(q) = q[1] /\ Len(q) \in Nat \ {0} /\ Len(r) = Len(q) - 1
      /\ \A i \in 1..Len(q) - 1 : r[i] = q[i + 1]
  BY TailFacts
<1>2. Len(h) = Len(g) + 1 /\ Len(g) \in Nat /\ h[Len(g) + 1] = Head(q) /\ \A i \in 1..Len(g) : h[i] = g[i]
  BY <1>1, AppendFacts
<1>3. Len(t) \in Nat
  OBVIOUS
<1> HIDE DEF h, r
<1>4. Len(h) + Len(r) = Len(g) + Len(q)
  BY <1>1, <1>2
<1>5. \A i \in 1..Len(h) : h[i] = t[i]
  <2>1. t[Len(g) + 1] = q[1]
    <3>1. 1 \in 1..Len(q)
      BY <1>1
    <3> QED
      BY <3>1 DEF Follows
  <2>2. \A i \in 1..Len(h) : i = Len(g) + 1 \/ i \in 1..Len(g)
    BY <1>2
  <2> QED
    BY <1>1, <1>2, <2>1, <2>2 DEF Follows
<1>6. \A i \in 1..Len(r) : r[i] = t[Len(h) + i]
  <2> TAKE i \in 1..Len(r)
  <2>1. i \in 1..Len(q) - 1 /\ i + 1 \in 1..Len(q)
    BY <1>1
  <2>2. r[i] = q[i + 1] /\ q[i + 1] = t[Len(g) + (i + 1)]
    BY <1>1, <2>1 DEF Follows
  <2>3. Len(g) + (i + 1) = Len(h) + i
    BY <1>2, <2>1
  <2> QED
    BY <2>2, <2>3
<1>7. Len(h) + Len(r) <= Len(t)
  BY <1>4 DEF Follows
<1> QED
  <2>1. Follows(h, r, t)
    BY <1>5, <1>6, <1>7 DEF Follows
  <2> QED
    BY <1>4, <2>1 DEF h, r

LEMMA FollowsPrefix ==
  ASSUME NEW g \in Seq(Nat), NEW q \in Seq(Nat), NEW t \in Seq(Nat), Follows(g, q, t)
  PROVE  /\ IsPrefix(g \o q, t)
         /\ Len(g) + Len(q) = Len(t) => g \o q = t
<1> DEFINE w == g \o q
<1>1. Len(g) \in Nat /\ Len(q) \in Nat /\ Len(t) \in Nat /\ w \in Seq(Nat) /\ Len(w) = Len(g) + Len(q)
  OBVIOUS
<1>2. \A i \in 1..Len(w) : w[i] = IF i <= Len(g) THEN g[i] ELSE q[i - Len(g)]
  OBVIOUS
<1> HIDE DEF w
<1>3. \A i \in 1..Len(w) : w[i] = t[i]
  <2> TAKE i \in 1..Len(w)
  <2>1. CASE i <= Len(g)
    <3>1. i \in 1..Len(g)
      BY <1>1, <2>1
    <3> QED
      BY <1>2, <2>1, <3>1 DEF Follows
  <2>2. CASE ~ (i <= Len(g))
    <3> DEFINE j == i - Len(g)
    <3>1. j \in 1..Len(q) /\ Len(g) + j = i
      <4>1. i \in Nat /\ i <= Len(g) + Len(q)
        BY <1>1
      <4> QED
        BY <1>1, <2>2, <4>1
    <3>2. w[i] = q[j]
      BY <1>2, <2>2
    <3> HIDE DEF j
    <3> QED
      BY <3>1, <3>2 DEF Follows
  <2> QED
    BY <2>1, <2>2
<1>4. Len(w) <= Len(t)
  BY <1>1 DEF Follows
<1>5. SubSeq(w, 1, Len(w)) = w
  BY <1>1
<1>6. SubSeq(t, 1, Len(w)) = w
  <2> DEFINE u == SubSeq(t, 1, Len(w))
  <2>1. u \in Seq(Nat) /\ Len(u) = Len(w) /\ \A i \in 1..Len(w) : u[i] = t[i]
    BY <1>1, <1>4
  <2> HIDE DEF u
  <2>2. u = w
    BY <1>1, <1>3, <2>1, SeqEqual
  <2> QED
    BY <2>2 DEF u
<1>7. Len(g) + Len(q) = Len(t) => w = t
  BY <1>1, <1>3, SeqEqual
<1> QED
  BY <1>4, <1>5, <1>6, <1>7 DEF IsPrefix, w

-----------------------------------------------------------------------------
(* Type correctness.                                                         *)

LEMMA ClientParts ==
  ASSUME HubTypeOK, NEW c \in Clients
  PROVE  /\ client[c].send \in Seq(Nat) /\ client[c].got \in Seq(Nat)
         /\ client[c].pc \in {"away", "open", "closed"}
         /\ client[c].pc # "away" => client[c] \in Connection
         /\ client[c].pc = "away" => client[c] = Away
<1>1. client[c] \in {Away} \cup Connection
  BY DEF HubTypeOK
<1>2. Away.pc = "away" /\ Away.send = <<>> /\ Away.got = <<>>
  BY DEF Away
<1>3. ASSUME client[c] \in Connection
      PROVE  client[c].pc \in {"open", "closed"} /\ client[c].send \in Seq(Nat) /\ client[c].got \in Seq(Nat)
  BY <1>3 DEF Connection
<1> QED
  BY <1>1, <1>2, <1>3, EmptyFacts

\* One client changes.
LEMMA OneClient ==
  ASSUME HubTypeOK, NEW c \in Clients, NEW v \in Connection, client' = [client EXCEPT ![c] = v]
  PROVE  /\ client' \in [Clients -> {Away} \cup Connection]
         /\ client'[c] = v /\ \A d \in Clients \ {c} : client'[d] = client[d]
BY DEF HubTypeOK

LEMMA ConnectFacts ==
  ASSUME HubTypeOK, NEW c \in Clients, Connect(c)
  PROVE  /\ client' \in [Clients -> {Away} \cup Connection]
         /\ \A d \in Clients \ {c} : client'[d] = client[d]
         /\ client[c].pc = "away"
         /\ client'[c].server = Address[c][1] /\ client'[c].project = Address[c][2]
         /\ client'[c].send = <<>> /\ client'[c].got = <<>>
<1> DEFINE v == [pc |-> "open", server |-> Address[c][1], project |-> Address[c][2],
                 send |-> <<>>, got |-> <<>>]
<1>1. v \in Connection
  BY HubAssumption, EmptyFacts DEF Connection
<1>2. v.server = Address[c][1] /\ v.project = Address[c][2] /\ v.send = <<>> /\ v.got = <<>>
  OBVIOUS
<1>3. client[c].pc = "away" /\ client' = [client EXCEPT ![c] = v]
  BY DEF Connect
<1> HIDE DEF v
<1> QED
  BY <1>1, <1>2, <1>3, OneClient

\* The connection of a client is closed.
LEMMA ClosesFacts ==
  ASSUME HubTypeOK, NEW c \in Clients, client[c].pc = "open", Closes(c)
  PROVE  /\ client' \in [Clients -> {Away} \cup Connection]
         /\ \A d \in Clients \ {c} : client'[d] = client[d]
         /\ client'[c].pc = "closed"
         /\ client'[c].server = client[c].server /\ client'[c].project = client[c].project
         /\ client'[c].send = client[c].send /\ client'[c].got = client[c].got
<1> DEFINE v == [client[c] EXCEPT !.pc = "closed"]
<1>1. client[c] \in Connection
  BY ClientParts
<1>2. /\ v \in Connection /\ v.pc = "closed" /\ v.server = client[c].server
      /\ v.project = client[c].project /\ v.send = client[c].send /\ v.got = client[c].got
  BY <1>1 DEF Connection
<1>3. client' = [client EXCEPT ![c] = v]
  BY DEF Closes
<1> HIDE DEF v
<1> QED
  BY <1>2, <1>3, OneClient

LEMMA WriteFacts ==
  ASSUME HubTypeOK, NEW c \in Clients, Write(c)
  PROVE  /\ client' \in [Clients -> {Away} \cup Connection]
         /\ \A d \in Clients \ {c} : client'[d] = client[d]
         /\ client[c].send # <<>> /\ client[c].pc # "away"
         /\ client'[c].pc = client[c].pc
         /\ client'[c].server = client[c].server /\ client'[c].project = client[c].project
         /\ client'[c].send = Tail(client[c].send)
         /\ client'[c].got = Append(client[c].got, Head(client[c].send))
<1> DEFINE send == Tail(client[c].send)
           got == Append(client[c].got, Head(client[c].send))
           v == [client[c] EXCEPT !.send = send, !.got = got]
<1>1. client[c].send # <<>> /\ client[c].pc # "away"
  BY ClientParts DEF Write, Away
<1>2. client[c] \in Connection /\ client[c].send \in Seq(Nat) /\ client[c].got \in Seq(Nat)
  BY <1>1, ClientParts
<1>3. send \in Seq(Nat) /\ got \in Seq(Nat)
  BY <1>1, <1>2, TailFacts, AppendFacts
<1>4. client' = [client EXCEPT ![c] = v]
  BY <1>2 DEF Write, Connection, HubTypeOK
<1> HIDE DEF send, got
<1>5. /\ v \in Connection /\ v.pc = client[c].pc /\ v.server = client[c].server
      /\ v.project = client[c].project /\ v.send = send /\ v.got = got
  BY <1>2, <1>3 DEF Connection
<1> HIDE DEF v
<1> QED
  BY <1>1, <1>4, <1>5, OneClient DEF send, got

LEMMA DisconnectFacts ==
  ASSUME HubTypeOK, NEW c \in Clients, Disconnect(c)
  PROVE  /\ client' \in [Clients -> {Away} \cup Connection]
         /\ \A d \in Clients \ {c} : client'[d] = client[d]
         /\ client[c].pc # "away" /\ client'[c].pc = "closed"
         /\ client'[c].server = client[c].server /\ client'[c].project = client[c].project
         /\ client'[c].send = <<>> /\ client'[c].got = client[c].got
<1> DEFINE v == [client[c] EXCEPT !.pc = "closed", !.send = <<>>]
<1>1. client[c].pc # "away" /\ client[c] \in Connection
  BY ClientParts DEF Disconnect
<1>2. /\ v \in Connection /\ v.pc = "closed" /\ v.server = client[c].server
      /\ v.project = client[c].project /\ v.send = <<>> /\ v.got = client[c].got
  BY <1>1, EmptyFacts DEF Connection
<1>3. client' = [client EXCEPT ![c] = v]
  BY <1>1 DEF Disconnect, Connection, HubTypeOK
<1> HIDE DEF v
<1> QED
  BY <1>1, <1>2, <1>3, OneClient

LEMMA EmitFacts ==
  ASSUME HubTypeOK, NEW s \in Servers, NEW p \in Projects, Emit(s, p)
  PROVE  /\ emitted' = emitted + 1 /\ emitted' \in Nat /\ Len(home') = emitted'
         /\ home' \in Seq([project : Projects, origin : Servers])
         /\ \A e \in 1..emitted : home'[e] = home[e]
         /\ home'[emitted'].origin = s
         /\ publishing' = publishing \cup {emitted'} /\ Enqueue(s, emitted')
<1> DEFINE r == [project |-> p, origin |-> s]
<1>1. r \in [project : Projects, origin : Servers] /\ r.origin = s
  OBVIOUS
<1>2. /\ home \in Seq([project : Projects, origin : Servers]) /\ Len(home) = emitted /\ emitted \in Nat
      /\ home' = Append(home, r) /\ emitted' = emitted + 1
      /\ publishing' = publishing \cup {emitted'} /\ Enqueue(s, emitted')
  BY DEF HubTypeOK, Emit
<1> HIDE DEF r
<1>3. /\ home' \in Seq([project : Projects, origin : Servers]) /\ Len(home') = emitted'
      /\ \A e \in 1..emitted : home'[e] = home[e]
      /\ home'[emitted'] = r
  BY <1>1, <1>2
<1> QED
  BY <1>1, <1>2, <1>3

\* An event comes into the queue of a server, or is lost.
LEMMA EnqueueFacts ==
  ASSUME HubTypeOK, NEW s \in Servers, NEW e \in Nat, Enqueue(s, e)
  PROVE  /\ queue' \in [Servers -> Seq(Nat)]
         /\ \A z \in Servers \ {s} : queue'[z] = queue[z]
         /\ \A x : InSeq(x, queue'[s]) => x = e \/ InSeq(x, queue[s])
         /\ Once(queue[s]) /\ ~ InSeq(e, queue[s]) => Once(queue'[s])
<1>1. queue \in [Servers -> Seq(Nat)] /\ queue[s] \in Seq(Nat)
  BY DEF HubTypeOK
<1>2. CASE queue' = queue
  BY <1>1, <1>2
<1>3. CASE queue' = [queue EXCEPT ![s] = Append(@, e)]
  <2> DEFINE q == Append(queue[s], e)
  <2>1. /\ q \in Seq(Nat) /\ \A x : InSeq(x, q) => x = e \/ InSeq(x, queue[s])
        /\ Once(queue[s]) /\ ~ InSeq(e, queue[s]) => Once(q)
    BY <1>1, AppendFacts
  <2>2. queue' = [queue EXCEPT ![s] = q]
    BY <1>3
  <2> HIDE DEF q
  <2>3. queue' \in [Servers -> Seq(Nat)] /\ queue'[s] = q /\ \A z \in Servers \ {s} : queue'[z] = queue[z]
    BY <1>1, <2>1, <2>2
  <2> QED
    BY <2>1, <2>3
<1> QED
  BY <1>2, <1>3 DEF Enqueue

\* The first of a queue is taken out.
LEMMA TakenOut ==
  ASSUME NEW f \in [Servers -> Seq(Nat)], NEW s \in Servers, f[s] # <<>>
  PROVE  Head(f[s]) \in Nat /\ [f EXCEPT ![s] = Tail(@)] \in [Servers -> Seq(Nat)]
BY TailFacts

LEMMA BroadcastFacts ==
  ASSUME HubTypeOK, NEW s \in Servers, NEW e, Broadcast(s), e = Head(queue[s])
  PROVE  /\ queue[s] # <<>> /\ stale[s] = {} /\ queue' = [queue EXCEPT ![s] = Tail(@)] /\ e \in Nat
         /\ stale' = [stale EXCEPT ![s] = {c \in Here(s, e) : Full(c)}]
         /\ client' \in [Clients -> {Away} \cup Connection] /\ told' \in [Clients -> Seq(Nat)]
         /\ \A c \in Here(s, e) :
              /\ c \in Clients /\ client[c].pc = "open" /\ client[c].server = s
              /\ client[c].project = home[e].project
              /\ told'[c] = Append(told[c], e)
         /\ \A c \in Clients \ Here(s, e) : told'[c] = told[c] /\ client'[c] = client[c]
         /\ \A c \in Here(s, e) : Full(c) => client'[c] = client[c]
         /\ \A c \in Here(s, e) : ~ Full(c) =>
              /\ client'[c].pc = client[c].pc
              /\ client'[c].server = client[c].server /\ client'[c].project = client[c].project
              /\ client'[c].send = Append(client[c].send, e) /\ client'[c].got = client[c].got
<1>1. /\ queue[s] # <<>> /\ stale[s] = {} /\ queue' = [queue EXCEPT ![s] = Tail(@)]
      /\ stale' = [stale EXCEPT ![s] = {c \in Here(s, e) : Full(c)}]
      /\ client' = [c \in Clients |->
           IF c \in Here(s, e) /\ ~ Full(c) THEN [client[c] EXCEPT !.send = Append(@, e)] ELSE client[c]]
      /\ told' = [c \in Clients |-> IF c \in Here(s, e) THEN Append(told[c], e) ELSE told[c]]
  BY DEF Broadcast
<1>2. e \in Nat
  <2>1. queue[s] \in Seq(Nat)
    BY DEF HubTypeOK
  <2> QED
    BY <1>1, <2>1, TailFacts
<1>3. \A c \in Here(s, e) :
        c \in Clients /\ client[c].pc = "open" /\ client[c].server = s /\ client[c].project = home[e].project
  BY DEF Here
<1>4. \A c \in Clients : told[c] \in Seq(Nat) /\ Append(told[c], e) \in Seq(Nat)
  BY <1>2, AppendFacts DEF HubTypeOK
<1>5. told' \in [Clients -> Seq(Nat)]
  BY <1>1, <1>4
<1>6. ASSUME NEW c \in Clients, c \in Here(s, e), ~ Full(c)
      PROVE  /\ client'[c] \in Connection
             /\ client'[c].pc = client[c].pc
             /\ client'[c].server = client[c].server /\ client'[c].project = client[c].project
             /\ client'[c].send = Append(client[c].send, e) /\ client'[c].got = client[c].got
  <2> DEFINE q == Append(client[c].send, e)
             v == [client[c] EXCEPT !.send = q]
  <2>1. client[c] \in Connection /\ client[c].send \in Seq(Nat)
    BY <1>3, <1>6, ClientParts
  <2>2. q \in Seq(Nat)
    BY <1>2, <2>1, AppendFacts
  <2>3. client'[c] = v
    BY <1>1, <1>6
  <2> HIDE DEF q
  <2>4. /\ v \in Connection /\ v.pc = client[c].pc /\ v.server = client[c].server
        /\ v.project = client[c].project /\ v.send = q /\ v.got = client[c].got
    BY <2>1, <2>2 DEF Connection
  <2> HIDE DEF v
  <2> QED
    BY <2>3, <2>4 DEF q
<1>7. \A c \in Clients : ~ (c \in Here(s, e) /\ ~ Full(c)) => client'[c] = client[c]
  BY <1>1
<1>8. client' \in [Clients -> {Away} \cup Connection]
  <2>1. \A c \in Clients : client'[c] \in {Away} \cup Connection
    BY <1>6, <1>7 DEF HubTypeOK
  <2>2. DOMAIN client' = Clients /\ client' = [c \in DOMAIN client' |-> client'[c]]
    BY <1>1
  <2> HIDE <1>1
  <2> QED
    BY <2>1, <2>2
<1> QED
  BY <1>1, <1>2, <1>3, <1>5, <1>6, <1>7, <1>8

LEMMA HubTypeInit == HubInit => HubTypeOK
BY EmptyFacts DEF HubInit, HubTypeOK

LEMMA HubTypeStep ==
  ASSUME HubTypeOK, [HubNext]_hubVars
  PROVE  HubTypeOK'
<1> USE DEF HubTypeOK
<1>1. ASSUME NEW s \in Servers, NEW p \in Projects, Emit(s, p)
      PROVE  HubTypeOK'
  <2>1. /\ emitted' = emitted + 1 /\ emitted' \in Nat /\ Len(home') = emitted'
        /\ home' \in Seq([project : Projects, origin : Servers])
        /\ publishing' = publishing \cup {emitted'} /\ queue' \in [Servers -> Seq(Nat)]
    BY <1>1, EmitFacts, EnqueueFacts
  <2>2. publishing' \subseteq 1..emitted'
    BY <2>1
  <2> QED
    BY <1>1, <2>1, <2>2 DEF Emit
<1>2. ASSUME NEW e \in publishing, Publish(e)
      PROVE  HubTypeOK'
  <2>1. e \in Nat
    OBVIOUS
  <2>2. wire' \in [Servers -> Seq(Nat)]
    <3>1. \A s \in Servers : wire[s] \in Seq(Nat) /\ Append(wire[s], e) \in Seq(Nat)
      BY <2>1, AppendFacts
    <3> QED
      BY <1>2, <3>1 DEF Publish
  <2> QED
    BY <1>2, <2>2 DEF Publish
<1>3. ASSUME NEW s \in Servers, Receive(s)
      PROVE  HubTypeOK'
  <2>1. wire[s] # <<>> /\ wire' = [wire EXCEPT ![s] = Tail(@)] /\ wire \in [Servers -> Seq(Nat)]
    BY <1>3 DEF Receive
  <2>2. wire' \in [Servers -> Seq(Nat)] /\ Head(wire[s]) \in Nat
    BY <2>1, TakenOut
  <2>3. queue' \in [Servers -> Seq(Nat)]
    BY <1>3, <2>2, EnqueueFacts DEF Receive
  <2> QED
    BY <1>3, <2>2, <2>3 DEF Receive
<1>4. ASSUME NEW s \in Servers, Break(s)
      PROVE  HubTypeOK'
  BY <1>4, EmptyFacts DEF Break
<1>5. ASSUME NEW s \in Servers, Subscribe(s)
      PROVE  HubTypeOK'
  BY <1>5 DEF Subscribe
<1>6. ASSUME NEW s \in Servers, Broadcast(s)
      PROVE  HubTypeOK'
  <2> DEFINE e == Head(queue[s])
  <2>1. /\ queue[s] # <<>> /\ queue' = [queue EXCEPT ![s] = Tail(@)]
        /\ stale' = [stale EXCEPT ![s] = {c \in Here(s, e) : Full(c)}]
        /\ client' \in [Clients -> {Away} \cup Connection] /\ told' \in [Clients -> Seq(Nat)]
    BY <1>6, BroadcastFacts
  <2>2. queue \in [Servers -> Seq(Nat)]
    OBVIOUS
  <2>3. queue' \in [Servers -> Seq(Nat)]
    BY <2>1, <2>2, TakenOut
  <2>4. stale' \in [Servers -> SUBSET Clients]
    BY <2>1 DEF Here
  <2> QED
    BY <1>6, <2>1, <2>3, <2>4 DEF Broadcast
<1>7. ASSUME NEW s \in Servers, NEW c \in Clients, DropStale(s, c)
      PROVE  HubTypeOK'
  <2>1. client' \in [Clients -> {Away} \cup Connection]
    BY <1>7, ClosesFacts DEF DropStale
  <2> QED
    BY <1>7, <2>1 DEF DropStale
<1>8. ASSUME NEW c \in Clients, Connect(c)
      PROVE  HubTypeOK'
  BY <1>8, ConnectFacts DEF Connect
<1>9. ASSUME NEW c \in Clients, Write(c)
      PROVE  HubTypeOK'
  BY <1>9, WriteFacts DEF Write
<1>10. ASSUME NEW c \in Clients, Disconnect(c)
       PROVE  HubTypeOK'
  BY <1>10, DisconnectFacts DEF Disconnect
<1>11. CASE UNCHANGED hubVars
  BY <1>11 DEF hubVars
<1> QED
  BY <1>1, <1>2, <1>3, <1>4, <1>5, <1>6, <1>7, <1>8, <1>9, <1>10, <1>11 DEF HubNext

-----------------------------------------------------------------------------
(* A server takes an event up once.                                          *)

LEMMA NextIsNew ==
  ASSUME NEW n \in Nat, NEW q, Within(q, n)
  PROVE  ~ InSeq(n + 1, q) /\ Within(q, n + 1)
<1>1. \A k \in 1..n : k \in 1..(n + 1) /\ k # n + 1
  OBVIOUS
<1> QED
  BY <1>1 DEF Within, InSeq

LEMMA EmitServers ==
  ASSUME HubIInv, NEW s \in Servers, NEW p \in Projects, Emit(s, p), NEW z \in Servers
  PROVE  ServerOK(z)'
<1> DEFINE n == emitted + 1
<1>1. /\ emitted' = n /\ n \in Nat /\ emitted \in Nat
      /\ \A e \in 1..emitted : home'[e] = home[e]
      /\ home'[n].origin = s /\ publishing' = publishing \cup {n} /\ Enqueue(s, n)
  BY EmitFacts DEF HubIInv, HubTypeOK
<1>2. wire' = wire /\ told' = told
  BY DEF Emit
<1>3. ServerOK(z) /\ \A c \in Clients : ToldOK(c)
  BY DEF HubIInv
<1>4. /\ ~ InSeq(n, wire[z]) /\ ~ InSeq(n, queue[z]) /\ \A c \in Clients : ~ InSeq(n, told[c])
      /\ Within(wire[z], n) /\ Within(queue[z], n)
  BY <1>1, <1>3, NextIsNew DEF ServerOK, ToldOK
<1>5. /\ \A x : InSeq(x, queue'[z]) => (x = n /\ z = s) \/ InSeq(x, queue[z])
      /\ Once(queue'[z])
  <2>1. HubTypeOK /\ Once(queue[z])
    BY <1>3 DEF HubIInv, ServerOK
  <2>2. CASE z = s
    BY <1>1, <1>4, <2>1, <2>2, EnqueueFacts
  <2>3. CASE z # s
    <3>1. queue'[z] = queue[z]
      BY <1>1, <2>1, <2>3, EnqueueFacts
    <3> QED
      BY <2>1, <3>1
  <2> QED
    BY <2>2, <2>3
<1>6. \A e \in 1..n : e = n \/ e \in 1..emitted
  BY <1>1
<1>7. n \in 1..n
  BY <1>1
<1> HIDE DEF n
<1>8. Within(queue'[z], n)
  BY <1>4, <1>5, <1>7, WithinFact
<1>9. \A c : c \in ClientsOf(z) => c \in Clients
  BY DEF ClientsOf
<1>10. ASSUME NEW e \in 1..n
       PROVE  /\ e \in publishing' => ~ InSeq(e, wire[z])
              /\ home'[e].origin # z /\ (e \in publishing' \/ InSeq(e, wire[z])) =>
                   ~ InSeq(e, queue'[z]) /\ \A c \in ClientsOf(z) : ~ InSeq(e, told[c])
              /\ InSeq(e, queue'[z]) => \A c \in ClientsOf(z) : ~ InSeq(e, told[c])
  <2>1. CASE e = n
    BY <1>1, <1>4, <1>5, <1>9, <2>1
  <2>2. CASE e # n /\ e \in 1..emitted
    <3>1. home'[e] = home[e] /\ (e \in publishing' <=> e \in publishing)
          /\ (InSeq(e, queue'[z]) => InSeq(e, queue[z]))
      BY <1>1, <1>5, <2>2
    <3> QED
      BY <1>3, <2>2, <3>1 DEF ServerOK, Taken
  <2> QED
    BY <1>6, <2>1, <2>2
<1> QED
  BY <1>1, <1>2, <1>3, <1>4, <1>5, <1>8, <1>10 DEF ServerOK, Taken, ClientsOf

LEMMA PublishServers ==
  ASSUME HubIInv, NEW e \in publishing, Publish(e), NEW z \in Servers
  PROVE  ServerOK(z)'
<1>1. /\ publishing' = publishing \ {e} /\ emitted' = emitted /\ home' = home
      /\ queue' = queue /\ told' = told
  BY DEF Publish
<1>2. ServerOK(z) /\ e \in 1..emitted /\ emitted \in Nat /\ wire[z] \in Seq(Nat) /\ wire \in [Servers -> Seq(Nat)]
  BY DEF HubIInv, HubTypeOK
<1>3. ~ InSeq(e, wire[z]) /\ (home[e].origin # z => ~ Taken(z, e))
  BY <1>2 DEF ServerOK
<1>4. /\ Once(wire'[z]) /\ Within(wire'[z], emitted)
      /\ \A x : InSeq(x, wire'[z]) => x = e \/ InSeq(x, wire[z])
  <2>1. CASE wire'[z] = wire[z]
    BY <1>2, <2>1 DEF ServerOK
  <2>2. CASE wire'[z] = Append(wire[z], e)
    <3>1. e \in Nat /\ Once(wire[z]) /\ Within(wire[z], emitted)
      BY <1>2 DEF ServerOK
    <3>2. Once(wire'[z]) /\ \A x : InSeq(x, wire'[z]) => x = e \/ InSeq(x, wire[z])
      BY <1>2, <1>3, <2>2, <3>1, AppendFacts
    <3> QED
      BY <1>2, <3>1, <3>2, WithinFact
  <2>3. wire'[z] = wire[z] \/ wire'[z] = Append(wire[z], e)
    BY DEF Publish
  <2> QED
    BY <2>1, <2>2, <2>3
<1>5. ASSUME NEW x \in 1..emitted
      PROVE  /\ x \in publishing' => ~ InSeq(x, wire'[z])
             /\ home[x].origin # z /\ (x \in publishing' \/ InSeq(x, wire'[z])) => ~ Taken(z, x)
             /\ InSeq(x, queue[z]) => \A c \in ClientsOf(z) : ~ InSeq(x, told[c])
  BY <1>1, <1>2, <1>3, <1>4 DEF ServerOK
<1> QED
  BY <1>1, <1>2, <1>4, <1>5 DEF ServerOK, Taken, ClientsOf

\* What has left the wire may come into the queue.
LEMMA ReceiveServers ==
  ASSUME HubIInv, NEW s \in Servers, Receive(s), NEW z \in Servers
  PROVE  ServerOK(z)'
<1> DEFINE e == Head(wire[s])
<1>1. /\ wire[s] # <<>> /\ wire' = [wire EXCEPT ![s] = Tail(@)] /\ e = Head(wire[s]) /\ wire \in [Servers -> Seq(Nat)]
      /\ home[e].origin = s \/ Enqueue(s, e)
      /\ home[e].origin = s => queue' = queue
      /\ publishing' = publishing /\ emitted' = emitted /\ home' = home /\ told' = told
  BY DEF Receive, HubIInv, HubTypeOK
<1>2. ServerOK(z) /\ ServerOK(s) /\ HubTypeOK
  BY DEF HubIInv
<1>3. /\ e \in Nat /\ InSeq(e, wire[s])
      /\ \A y \in Servers \ {s} : wire'[y] = wire[y]
      /\ \A x : InSeq(x, wire'[s]) => InSeq(x, wire[s])
      /\ Once(wire'[s]) /\ ~ InSeq(e, wire'[s])
  <2>1. Once(wire[s]) /\ wire \in [Servers -> Seq(Nat)]
    BY <1>2 DEF ServerOK, HubTypeOK
  <2>2. /\ wire[s] \in Seq(Nat) /\ wire'[s] = Tail(wire[s])
        /\ \A y \in Servers \ {s} : wire'[y] = wire[y]
    BY <1>1, <2>1
  <2>3. /\ Head(wire[s]) \in Nat /\ InSeq(Head(wire[s]), wire[s])
        /\ \A x : InSeq(x, Tail(wire[s])) => InSeq(x, wire[s])
        /\ Once(wire[s]) => Once(Tail(wire[s])) /\ ~ InSeq(Head(wire[s]), Tail(wire[s]))
    BY <1>1, <2>2, TailFacts
  <2> QED
    BY <1>1, <2>1, <2>2, <2>3
<1> HIDE DEF e
<1>4. e \in 1..emitted /\ e \notin publishing /\ (home[e].origin # s => ~ Taken(s, e))
  BY <1>2, <1>3, WithinFact DEF ServerOK
<1>5. /\ \A y \in Servers \ {s} : queue'[y] = queue[y]
      /\ \A x : InSeq(x, queue'[s]) => (x = e /\ home[e].origin # s) \/ InSeq(x, queue[s])
      /\ Once(queue'[s])
  <2>1. CASE home[e].origin = s
    BY <1>1, <1>2, <2>1 DEF ServerOK
  <2>2. CASE home[e].origin # s
    BY <1>1, <1>2, <1>3, <1>4, <2>2, EnqueueFacts DEF ServerOK, Taken
  <2> QED
    BY <2>1, <2>2
<1>6. CASE z # s
  <2>1. wire'[z] = wire[z] /\ queue'[z] = queue[z]
    BY <1>3, <1>5, <1>6
  <2> QED
    BY <1>1, <1>2, <2>1 DEF ServerOK, Taken, ClientsOf
<1>7. CASE z = s
  <2>1. Within(wire'[s], emitted) /\ Within(queue'[s], emitted)
    BY <1>2, <1>3, <1>4, <1>5, WithinFact DEF ServerOK
  <2>2. ASSUME NEW x \in 1..emitted
        PROVE  /\ x \in publishing => ~ InSeq(x, wire'[s])
               /\ home[x].origin # s /\ (x \in publishing \/ InSeq(x, wire'[s])) =>
                    ~ InSeq(x, queue'[s]) /\ \A c \in ClientsOf(s) : ~ InSeq(x, told[c])
               /\ InSeq(x, queue'[s]) => \A c \in ClientsOf(s) : ~ InSeq(x, told[c])
    BY <1>2, <1>3, <1>4, <1>5 DEF ServerOK, Taken
  <2> QED
    BY <1>1, <1>3, <1>5, <1>7, <2>1, <2>2 DEF ServerOK, Taken, ClientsOf
<1> QED
  BY <1>6, <1>7

LEMMA BreakServers ==
  ASSUME HubIInv, NEW s \in Servers, Break(s), NEW z \in Servers
  PROVE  ServerOK(z)'
<1>1. /\ wire' = [wire EXCEPT ![s] = <<>>] /\ wire \in [Servers -> Seq(Nat)] /\ ServerOK(z)
      /\ publishing' = publishing /\ emitted' = emitted /\ home' = home /\ told' = told /\ queue' = queue
  BY DEF Break, HubIInv, HubTypeOK
<1>2. /\ Once(wire'[z]) /\ \A x : InSeq(x, wire'[z]) => InSeq(x, wire[z])
  BY <1>1, EmptyFacts DEF ServerOK
<1>3. Within(wire'[z], emitted)
  BY <1>1, <1>2, WithinFact DEF ServerOK
<1> QED
  BY <1>1, <1>2, <1>3 DEF ServerOK, Taken, ClientsOf

LEMMA BroadcastServers ==
  ASSUME HubIInv, NEW s \in Servers, Broadcast(s), NEW z \in Servers
  PROVE  ServerOK(z)'
<1> DEFINE e == Head(queue[s])
<1>1. /\ queue[s] # <<>> /\ queue' = [queue EXCEPT ![s] = Tail(@)] /\ e = Head(queue[s]) /\ e \in Nat
      /\ \A c \in Here(s, e) :
           /\ c \in Clients /\ client[c].pc = "open" /\ client[c].server = s
           /\ told'[c] = Append(told[c], e)
      /\ \A c \in Clients \ Here(s, e) : told'[c] = told[c]
  BY BroadcastFacts DEF HubIInv
<1>2. /\ publishing' = publishing /\ emitted' = emitted /\ home' = home /\ wire' = wire
      /\ queue \in [Servers -> Seq(Nat)] /\ \A c \in Clients : told[c] \in Seq(Nat)
      /\ ServerOK(z) /\ ServerOK(s) /\ \A c \in Clients : ClientOK(c)
  BY DEF Broadcast, HubIInv, HubTypeOK
<1>3. /\ InSeq(e, queue[s])
      /\ \A y \in Servers \ {s} : queue'[y] = queue[y]
      /\ \A x : InSeq(x, queue'[s]) => InSeq(x, queue[s])
      /\ Once(queue'[s]) /\ ~ InSeq(e, queue'[s])
  <2>1. Once(queue[s]) /\ queue \in [Servers -> Seq(Nat)]
    BY <1>2 DEF ServerOK
  <2>2. /\ queue[s] \in Seq(Nat) /\ queue'[s] = Tail(queue[s])
        /\ \A y \in Servers \ {s} : queue'[y] = queue[y]
    BY <1>1, <2>1
  <2>3. /\ Head(queue[s]) \in Nat /\ InSeq(Head(queue[s]), queue[s])
        /\ \A x : InSeq(x, Tail(queue[s])) => InSeq(x, queue[s])
        /\ Once(queue[s]) => Once(Tail(queue[s])) /\ ~ InSeq(Head(queue[s]), Tail(queue[s]))
    BY <1>1, <2>2, TailFacts
  <2> QED
    BY <1>1, <2>1, <2>2, <2>3
<1> HIDE DEF e
<1>4. \A c \in Here(s, e) : Address[c][1] = s
  BY <1>1, <1>2 DEF ClientOK
<1>5. \A c \in Clients : \A x : InSeq(x, told'[c]) => (x = e /\ Address[c][1] = s) \/ InSeq(x, told[c])
  <2> TAKE c \in Clients
  <2>1. CASE c \in Here(s, e)
    <3>1. told[c] \in Seq(Nat) /\ e \in Nat /\ told'[c] = Append(told[c], e)
      BY <1>1, <1>2, <2>1
    <3>2. \A x : InSeq(x, Append(told[c], e)) <=> x = e \/ InSeq(x, told[c])
      BY <3>1, AppendFacts
    <3> QED
      BY <1>4, <2>1, <3>1, <3>2
  <2>2. CASE c \notin Here(s, e)
    BY <1>1, <2>2
  <2> QED
    BY <2>1, <2>2
<1>6. \A c \in ClientsOf(z) : c \in Clients /\ Address[c][1] = z
  BY DEF ClientsOf
<1>7. CASE z # s
  <2>1. queue'[z] = queue[z] /\ \A c \in ClientsOf(z) : \A x : InSeq(x, told'[c]) => InSeq(x, told[c])
    BY <1>3, <1>5, <1>6, <1>7
  <2> QED
    BY <1>2, <2>1 DEF ServerOK, Taken, ClientsOf
<1>8. CASE z = s
  <2>1. /\ e \in 1..emitted /\ Within(queue'[s], emitted)
    BY <1>2, <1>3, WithinFact DEF ServerOK
  <2>2. ASSUME NEW x \in 1..emitted
        PROVE  /\ home[x].origin # s /\ (x \in publishing \/ InSeq(x, wire[s])) =>
                    ~ InSeq(x, queue'[s]) /\ \A c \in ClientsOf(s) : ~ InSeq(x, told'[c])
               /\ InSeq(x, queue'[s]) => \A c \in ClientsOf(s) : ~ InSeq(x, told'[c])
    <3>1. ~ Taken(s, x) => x # e
      BY <1>3 DEF Taken
    <3>2. \A c \in ClientsOf(s) : x # e /\ ~ InSeq(x, told[c]) => ~ InSeq(x, told'[c])
      BY <1>5, <1>6, <1>8
    <3> QED
      BY <1>2, <1>3, <3>1, <3>2 DEF ServerOK, Taken
  <2> QED
    BY <1>2, <1>3, <1>8, <2>1, <2>2 DEF ServerOK, Taken, ClientsOf
<1> QED
  BY <1>7, <1>8

LEMMA ServersStep ==
  ASSUME HubIInv, [HubNext]_hubVars, NEW z \in Servers
  PROVE  ServerOK(z)'
<1>1. ASSUME UNCHANGED <<emitted, home, publishing, wire, queue, told>>
      PROVE  ServerOK(z)'
  BY <1>1 DEF HubIInv, ServerOK, Taken, ClientsOf
<1>2. ASSUME NEW s \in Servers, Subscribe(s) \/ \E c \in Clients : DropStale(s, c)
      PROVE  ServerOK(z)'
  BY <1>1, <1>2 DEF Subscribe, DropStale
<1>3. ASSUME NEW c \in Clients, Connect(c) \/ Write(c) \/ Disconnect(c)
      PROVE  ServerOK(z)'
  BY <1>1, <1>3 DEF Connect, Write, Disconnect
<1>4. CASE UNCHANGED hubVars
  BY <1>1, <1>4 DEF hubVars
<1>5. ASSUME NEW s \in Servers, NEW p \in Projects, Emit(s, p)
      PROVE  ServerOK(z)'
  BY <1>5, EmitServers
<1>6. ASSUME NEW s \in Servers, Receive(s)
      PROVE  ServerOK(z)'
  BY <1>6, ReceiveServers
<1>7. ASSUME NEW s \in Servers, Break(s)
      PROVE  ServerOK(z)'
  BY <1>7, BreakServers
<1>8. ASSUME NEW s \in Servers, Broadcast(s)
      PROVE  ServerOK(z)'
  BY <1>8, BroadcastServers
<1>9. ASSUME NEW e \in publishing, Publish(e)
      PROVE  ServerOK(z)'
  BY <1>9, PublishServers
<1> QED
  BY <1>2, <1>3, <1>4, <1>5, <1>6, <1>7, <1>8, <1>9 DEF HubNext

-----------------------------------------------------------------------------
(* A client is told an event of his project once, and sent what he is told   *)
(* or else disconnected.                                                     *)

LEMMA ToldStep ==
  ASSUME HubIInv, [HubNext]_hubVars, NEW c \in Clients
  PROVE  ToldOK(c)'
<1>1. ToldOK(c) /\ HubTypeOK
  BY DEF HubIInv
<1>2. ASSUME UNCHANGED <<emitted, home, told>>
      PROVE  ToldOK(c)'
  BY <1>1, <1>2 DEF ToldOK
<1>3. ASSUME NEW s \in Servers, NEW p \in Projects, Emit(s, p)
      PROVE  ToldOK(c)'
  <2>1. /\ emitted' = emitted + 1 /\ emitted \in Nat /\ \A e \in 1..emitted : home'[e] = home[e]
        /\ told' = told
    BY <1>1, <1>3, EmitFacts DEF HubTypeOK, Emit
  <2>2. Within(told[c], emitted + 1)
    BY <1>1, <2>1, NextIsNew DEF ToldOK
  <2>3. \A i \in DOMAIN told[c] : home'[told[c][i]] = home[told[c][i]]
    BY <1>1, <2>1 DEF ToldOK, Within
  <2> QED
    BY <1>1, <2>1, <2>2, <2>3 DEF ToldOK
<1>4. ASSUME NEW s \in Servers, Broadcast(s)
      PROVE  ToldOK(c)'
  <2> DEFINE e == Head(queue[s])
  <2>1. /\ queue[s] # <<>> /\ e \in Nat
        /\ c \in Here(s, e) =>
             /\ client[c].pc = "open" /\ client[c].server = s /\ client[c].project = home[e].project
             /\ told'[c] = Append(told[c], e)
        /\ c \notin Here(s, e) => told'[c] = told[c]
        /\ emitted' = emitted /\ home' = home
    <3>1. emitted' = emitted /\ home' = home
      BY <1>4 DEF Broadcast
    <3> QED
      BY <1>1, <1>4, <3>1, BroadcastFacts
  <2>2. CASE c \notin Here(s, e)
    BY <1>1, <2>1, <2>2 DEF ToldOK
  <2>3. CASE c \in Here(s, e)
    <3>1. queue[s] \in Seq(Nat) /\ told[c] \in Seq(Nat) /\ ServerOK(s) /\ ClientOK(c)
      BY DEF HubIInv, HubTypeOK
    <3>2. InSeq(e, queue[s])
      BY <2>1, <3>1, TailFacts
    <3> HIDE DEF e
    <3>3. Address[c][1] = s /\ Address[c][2] = home[e].project
      BY <2>1, <2>3, <3>1 DEF ClientOK
    <3>4. e \in 1..emitted
      BY <3>1, <3>2, WithinFact DEF ServerOK
    <3>5. ~ InSeq(e, told[c])
      BY <3>1, <3>2, <3>3, <3>4 DEF ServerOK, ClientsOf
    <3>6. /\ Once(told'[c]) /\ \A x : InSeq(x, told'[c]) => x = e \/ InSeq(x, told[c])
      <4>1. /\ \A x : InSeq(x, Append(told[c], e)) <=> x = e \/ InSeq(x, told[c])
            /\ Once(told[c]) => Once(Append(told[c], e))
        BY <2>1, <3>1, <3>5, AppendFacts
      <4> QED
        BY <1>1, <2>1, <2>3, <4>1 DEF ToldOK
    <3>7. Within(told'[c], emitted)
      BY <1>1, <3>4, <3>6, WithinFact DEF ToldOK
    <3>8. \A x : InSeq(x, told'[c]) => home[x].project = Address[c][2]
      BY <1>1, <3>3, <3>6 DEF ToldOK, InSeq
    <3> QED
      BY <2>1, <3>6, <3>7, <3>8 DEF ToldOK, InSeq
  <2> QED
    BY <2>2, <2>3
<1>5. ASSUME NEW s \in Servers,
             Receive(s) \/ Break(s) \/ Subscribe(s) \/ \E d \in Clients : DropStale(s, d)
      PROVE  ToldOK(c)'
  BY <1>2, <1>5 DEF Receive, Break, Subscribe, DropStale
<1>6. ASSUME NEW e \in publishing, Publish(e)
      PROVE  ToldOK(c)'
  BY <1>2, <1>6 DEF Publish
<1>7. ASSUME NEW d \in Clients, Connect(d) \/ Write(d) \/ Disconnect(d)
      PROVE  ToldOK(c)'
  BY <1>2, <1>7 DEF Connect, Write, Disconnect
<1>8. CASE UNCHANGED hubVars
  BY <1>2, <1>8 DEF hubVars
<1> QED
  BY <1>3, <1>4, <1>5, <1>6, <1>7, <1>8 DEF HubNext

LEMMA BroadcastClients ==
  ASSUME HubIInv, NEW s \in Servers, Broadcast(s), NEW c \in Clients
  PROVE  ClientOK(c)'
<1> DEFINE e == Head(queue[s])
<1>1. /\ e \in Nat /\ stale[s] = {} /\ stale' = [stale EXCEPT ![s] = {d \in Here(s, e) : Full(d)}]
      /\ c \in Here(s, e) =>
           /\ client[c].pc = "open" /\ client[c].server = s
           /\ told'[c] = Append(told[c], e)
           /\ Full(c) => client'[c] = client[c]
           /\ ~ Full(c) =>
                /\ client'[c].pc = client[c].pc
                /\ client'[c].server = client[c].server /\ client'[c].project = client[c].project
                /\ client'[c].send = Append(client[c].send, e) /\ client'[c].got = client[c].got
      /\ c \notin Here(s, e) => told'[c] = told[c] /\ client'[c] = client[c]
  BY BroadcastFacts DEF HubIInv
<1>2. /\ ClientOK(c) /\ HubTypeOK /\ told[c] \in Seq(Nat) /\ stale \in [Servers -> SUBSET Clients]
      /\ client[c].got \in Seq(Nat) /\ client[c].send \in Seq(Nat)
  BY ClientParts DEF HubIInv, HubTypeOK
<1> HIDE DEF e
<1>3. \A z \in Servers : stale'[z] = IF z = s THEN {d \in Here(s, e) : Full(d)} ELSE stale[z]
  BY <1>1, <1>2
<1>4. \A z \in Servers : c \notin stale'[z] => c \notin stale[z]
  BY <1>1, <1>3
<1>5. CASE c \notin Here(s, e)
  <2>1. told'[c] = told[c] /\ client'[c] = client[c] /\ \A z \in Servers : c \in stale'[z] => c \in stale[z]
    BY <1>1, <1>3, <1>5
  <2> QED
    BY <1>2, <1>4, <2>1 DEF ClientOK
<1>6. CASE c \in Here(s, e)
  <2>1. s = Address[c][1] /\ client[c].pc = "open" /\ told'[c] = Append(told[c], e)
    BY <1>1, <1>2, <1>6 DEF ClientOK
  <2>2. \A z \in Servers : c \in stale'[z] => z = Address[c][1]
    BY <1>2, <1>3, <2>1 DEF ClientOK
  <2>3. CASE Full(c)
    <3>1. client'[c] = client[c] /\ c \in stale'[s]
      <4>1. c \in {d \in Here(s, e) : Full(d)}
        BY <1>6, <2>3, Zenon
      <4> QED
        BY <1>1, <1>3, <1>6, <2>3, <4>1
    <3>2. Follows(client[c].got, client[c].send, told'[c])
      BY <1>1, <1>2, <2>1, FollowsTold DEF ClientOK
    <3> QED
      BY <1>2, <2>1, <2>2, <3>1, <3>2 DEF ClientOK
  <2>4. CASE ~ Full(c)
    <3>1. /\ client'[c].pc = client[c].pc
          /\ client'[c].server = client[c].server /\ client'[c].project = client[c].project
          /\ client'[c].send = Append(client[c].send, e) /\ client'[c].got = client[c].got
      BY <1>1, <1>6, <2>4
    <3>2. \A z \in Servers : c \notin stale[z]
      BY <1>1, <1>2, <2>1 DEF ClientOK
    <3>3. Len(client[c].got) + Len(client[c].send) = Len(told[c]) /\ Follows(client[c].got, client[c].send, told[c])
      BY <1>2, <2>1, <3>2 DEF ClientOK
    <3>4. /\ Follows(client'[c].got, client'[c].send, told'[c])
          /\ Len(client'[c].got) + Len(client'[c].send) = Len(told'[c])
      <4>1. /\ Follows(client[c].got, Append(client[c].send, e), Append(told[c], e))
            /\ Len(client[c].got) + Len(Append(client[c].send, e)) = Len(Append(told[c], e))
        BY <1>1, <1>2, <3>3, FollowsSent
      <4> QED
        BY <2>1, <3>1, <4>1
    <3> QED
      BY <1>2, <2>1, <2>2, <3>1, <3>4 DEF ClientOK
  <2> QED
    BY <2>3, <2>4
<1> QED
  BY <1>5, <1>6

LEMMA DropStaleClients ==
  ASSUME HubIInv, NEW s \in Servers, NEW d \in Clients, DropStale(s, d), NEW c \in Clients
  PROVE  ClientOK(c)'
<1>1. /\ stale' = [stale EXCEPT ![s] = @ \ {d}] /\ stale \in [Servers -> SUBSET Clients]
      /\ told' = told /\ ClientOK(c) /\ HubTypeOK
      /\ (client[d].pc = "open" /\ Closes(d)) \/ (client[d].pc # "open" /\ client' = client)
  BY DEF DropStale, HubIInv, HubTypeOK
<1>2. \A z \in Servers : stale'[z] = IF z = s THEN stale[s] \ {d} ELSE stale[z]
  BY <1>1
<1>3. CASE client'[c] = client[c] /\ (c # d \/ client[c].pc # "open")
  <2>1. \A z \in Servers : (c \in stale'[z] => c \in stale[z]) /\ (c # d => (c \in stale'[z] <=> c \in stale[z]))
    BY <1>2
  <2> QED
    BY <1>1, <1>3, <2>1 DEF ClientOK
<1>4. CASE c = d /\ client[d].pc = "open"
  <2>1. /\ client'[c].pc = "closed"
        /\ client'[c].server = client[c].server /\ client'[c].project = client[c].project
        /\ client'[c].send = client[c].send /\ client'[c].got = client[c].got
    BY <1>1, <1>4, ClosesFacts
  <2>2. \A z \in Servers : c \in stale'[z] => c \in stale[z]
    BY <1>2
  <2> QED
    BY <1>1, <1>4, <2>1, <2>2 DEF ClientOK
<1> QED
  BY <1>1, <1>3, <1>4, ClosesFacts

LEMMA ClientsStep ==
  ASSUME HubIInv, [HubNext]_hubVars, NEW c \in Clients
  PROVE  ClientOK(c)'
<1>1. ClientOK(c) /\ HubTypeOK /\ told[c] \in Seq(Nat)
      /\ client[c].got \in Seq(Nat) /\ client[c].send \in Seq(Nat)
  BY ClientParts DEF HubIInv, HubTypeOK
<1>2. ASSUME stale' = stale, told' = told, client'[c] = client[c]
      PROVE  ClientOK(c)'
  BY <1>1, <1>2 DEF ClientOK
<1>3. ASSUME NEW d \in Clients, Connect(d)
      PROVE  ClientOK(c)'
  <2>1. CASE c # d
    BY <1>1, <1>2, <1>3, <2>1, ConnectFacts DEF Connect
  <2>2. CASE c = d
    <3>1. /\ client[c].pc = "away"
          /\ client'[c].server = Address[c][1] /\ client'[c].project = Address[c][2]
          /\ client'[c].send = <<>> /\ client'[c].got = <<>> /\ told' = told /\ stale' = stale
          /\ client'[c].pc # "away"
      <4>1. client'[c].pc = "open"
        BY <1>1, <1>3, <2>2 DEF Connect, HubTypeOK
      <4> QED
        BY <1>1, <1>3, <2>2, <4>1, ConnectFacts DEF Connect
    <3>2. told[c] = <<>>
      BY <1>1, <3>1 DEF ClientOK
    <3>3. Follows(<<>>, <<>>, <<>>) /\ Len(<<>>) + Len(<<>>) = Len(<<>>)
      BY EmptyFacts DEF Follows
    <3> QED
      BY <1>1, <3>1, <3>2, <3>3 DEF ClientOK
  <2> QED
    BY <2>1, <2>2
<1>4. ASSUME NEW d \in Clients, Write(d)
      PROVE  ClientOK(c)'
  <2>1. CASE c # d
    BY <1>1, <1>2, <1>4, <2>1, WriteFacts DEF Write
  <2>2. CASE c = d
    <3>1. /\ client[c].send # <<>> /\ client[c].pc # "away" /\ client'[c].pc = client[c].pc
          /\ client'[c].server = client[c].server /\ client'[c].project = client[c].project
          /\ client'[c].send = Tail(client[c].send)
          /\ client'[c].got = Append(client[c].got, Head(client[c].send))
          /\ told' = told /\ stale' = stale
      BY <1>1, <1>4, <2>2, WriteFacts DEF Write
    <3>2. /\ Follows(client'[c].got, client'[c].send, told[c])
          /\ Len(client'[c].got) + Len(client'[c].send) = Len(client[c].got) + Len(client[c].send)
      BY <1>1, <3>1, FollowsWritten DEF ClientOK
    <3> QED
      BY <1>1, <3>1, <3>2 DEF ClientOK
  <2> QED
    BY <2>1, <2>2
<1>5. ASSUME NEW d \in Clients, Disconnect(d)
      PROVE  ClientOK(c)'
  <2>1. CASE c # d
    BY <1>1, <1>2, <1>5, <2>1, DisconnectFacts DEF Disconnect
  <2>2. CASE c = d
    <3>1. /\ client[c].pc # "away" /\ client'[c].pc = "closed"
          /\ client'[c].server = client[c].server /\ client'[c].project = client[c].project
          /\ client'[c].send = <<>> /\ client'[c].got = client[c].got /\ told' = told /\ stale' = stale
      BY <1>1, <1>5, <2>2, DisconnectFacts DEF Disconnect
    <3>2. Follows(client[c].got, <<>>, told[c])
      BY <1>1, FollowsNothing DEF ClientOK
    <3> QED
      BY <1>1, <3>1, <3>2 DEF ClientOK
  <2> QED
    BY <2>1, <2>2
<1>6. ASSUME NEW s \in Servers, Broadcast(s)
      PROVE  ClientOK(c)'
  BY <1>6, BroadcastClients
<1>7. ASSUME NEW s \in Servers, NEW d \in Clients, DropStale(s, d)
      PROVE  ClientOK(c)'
  BY <1>7, DropStaleClients
<1>8. ASSUME NEW s \in Servers,
             (\E p \in Projects : Emit(s, p)) \/ Receive(s) \/ Break(s) \/ Subscribe(s)
      PROVE  ClientOK(c)'
  BY <1>2, <1>8 DEF Emit, Receive, Break, Subscribe
<1>9. ASSUME NEW e \in publishing, Publish(e)
      PROVE  ClientOK(c)'
  BY <1>2, <1>9 DEF Publish
<1>10. CASE UNCHANGED hubVars
  BY <1>2, <1>10 DEF hubVars
<1> QED
  BY <1>3, <1>4, <1>5, <1>6, <1>7, <1>8, <1>9, <1>10 DEF HubNext

LEMMA HubIInvInit == HubInit => HubIInv
<1> SUFFICES ASSUME HubInit
             PROVE  HubIInv
  OBVIOUS
<1>1. HubTypeOK
  BY HubTypeInit
<1>2. ASSUME NEW s \in Servers
      PROVE  ServerOK(s)
  <2>1. wire[s] = <<>> /\ queue[s] = <<>> /\ emitted = 0 /\ publishing = {}
    BY DEF HubInit
  <2>2. Within(<<>>, emitted) /\ 1..0 = {}
    BY EmptyFacts, WithinFact
  <2> QED
    BY <2>1, <2>2, EmptyFacts DEF ServerOK
<1>3. ASSUME NEW c \in Clients
      PROVE  ToldOK(c) /\ ClientOK(c)
  <2>1. told[c] = <<>> /\ client[c] = Away /\ \A s \in Servers : stale[s] = {}
    BY DEF HubInit
  <2>2. Away.pc = "away" /\ Away.send = <<>> /\ Away.got = <<>> /\ Within(<<>>, emitted)
    BY EmptyFacts, WithinFact DEF Away
  <2>3. Follows(<<>>, <<>>, <<>>)
    BY EmptyFacts DEF Follows
  <2> QED
    BY <2>1, <2>2, <2>3, EmptyFacts DEF ToldOK, ClientOK
<1> QED
  BY <1>1, <1>2, <1>3 DEF HubIInv

LEMMA HubIInvStep == HubIInv /\ [HubNext]_hubVars => HubIInv'
<1> SUFFICES ASSUME HubIInv, [HubNext]_hubVars
             PROVE  HubIInv'
  OBVIOUS
<1>1. HubTypeOK'
  BY HubTypeStep DEF HubIInv
<1>2. \A s \in Servers : ServerOK(s)'
  BY ServersStep
<1>3. \A c \in Clients : ToldOK(c)' /\ ClientOK(c)'
  BY ToldStep, ClientsStep
<1> QED
  BY <1>1, <1>2, <1>3 DEF HubIInv

LEMMA HubIInvProperty == HubIInv => NoSilentGap
<1> SUFFICES ASSUME HubIInv
             PROVE  NoSilentGap
  OBVIOUS
<1>1. ASSUME NEW c \in Clients
      PROVE  /\ IsPrefix(client[c].got \o client[c].send, told[c])
             /\ client[c].pc = "open" /\ (\A s \in Servers : c \notin stale[s]) =>
                  client[c].got \o client[c].send = told[c]
             /\ \A i, j \in DOMAIN told[c] : told[c][i] = told[c][j] => i = j
             /\ \A i \in DOMAIN told[c] : home[told[c][i]].project = client[c].project
  <2>1. /\ ToldOK(c) /\ ClientOK(c) /\ told[c] \in Seq(Nat)
        /\ client[c].got \in Seq(Nat) /\ client[c].send \in Seq(Nat)
    BY ClientParts DEF HubIInv, HubTypeOK
  <2>2. /\ IsPrefix(client[c].got \o client[c].send, told[c])
        /\ Len(client[c].got) + Len(client[c].send) = Len(told[c]) => client[c].got \o client[c].send = told[c]
    BY <2>1, FollowsPrefix DEF ClientOK
  <2>3. \A i, j \in DOMAIN told[c] : told[c][i] = told[c][j] => i = j
    BY <2>1 DEF ToldOK, Once
  <2>4. \A i \in DOMAIN told[c] : home[told[c][i]].project = client[c].project
    BY <2>1, EmptyFacts DEF ToldOK, ClientOK
  <2> QED
    BY <2>1, <2>2, <2>3, <2>4 DEF ClientOK
<1> QED
  BY <1>1 DEF NoSilentGap

-----------------------------------------------------------------------------
(* The theorems about the hub.                                               *)

\* An event is a number that has been given, and what a client is told and sent
\* are sequences of events, for any servers, clients, queues and turns.
THEOREM HubTypes == HubSpec => []HubTypeOK
<1>1. HubIInv => HubTypeOK
  BY DEF HubIInv
<1> QED
  BY <1>1, HubIInvInit, HubIInvStep, PTL DEF HubSpec

\* However full the queues, however often subscriptions break, clients are slow
\* and servers publish at once: what a client received is the beginning of what
\* his server broadcast to his project since he connected, nothing twice and
\* nothing of another project, and the rest waits for him or he is disconnected.
THEOREM HubLeavesNoGap == HubSpec => []NoSilentGap
  BY HubIInvInit, HubIInvStep, HubIInvProperty, PTL DEF HubSpec

-----------------------------------------------------------------------------
(* The idempotent requests.                                                  *)

\* Where a request goes by the key it came with, and where it has one.
Keyed == {"limit", "begin", "lookup", "lock", "again", "drop", "validate", "ask", "wait", "store", "unlock"}
WithKey == {"lookup", "lock", "again", "drop", "validate", "ask", "wait", "store", "unlock"}

Keys == {c.key : c \in Calls}
Hashes == {c.hash : c \in Calls}
Circuits == [failures : Nat, phase : {"closed", "open", "due"}, probe : BOOLEAN]

Asked ==
  [pc : Keyed \cup Over \cup {"run"}, stage : Nat, counted : Nat, call : Calls,
   key : Keys \cup {Unkeyed}, guarded : BOOLEAN, stored : BOOLEAN, replay : SUBSET Senders]

StoresOK ==
  /\ circuit \in Circuits /\ subscribed \in BOOLEAN /\ faults \in Nat /\ crashes \in Nat
  /\ hits \in [DOMAIN hits -> Nat]

RequestsTypeOK ==
  /\ StoresOK
  /\ locks \in [DOMAIN locks -> [hash : Hashes, owner : Senders]]
  /\ results \in [DOMAIN results -> [hash : Hashes, by : Senders]]
  /\ DOMAIN locks \subseteq Keys /\ DOMAIN results \subseteq Keys
  /\ request \in [Senders -> {NoRequest} \cup Asked]

Came(r) == request[r].pc # "idle"

\* A guarded request that still runs or has left its answer.
Lasting(r) == Came(r) /\ request[r].guarded /\ (~ Finished(r) \/ request[r].stored)

\* The lock of the key is the request's own, or there is a result already.
Covers(r, k, held, stored) == k \in DOMAIN stored \/ (k \in DOMAIN held /\ held[k].owner = r)

SameAs(q, call) == q.pc # "idle" /\ q.call.key = call.key /\ q.call.hash = call.hash

\* What the request r may be, with these locks, results and requests.
Fits(r, q, held, stored, asked) ==
  /\ q.pc = "limit" => q.stage \in 1..Len(Route)
  /\ q.pc \in Keyed => q.key = q.call.key
  /\ q.pc \in WithKey => q.key # Unkeyed
  /\ q.key \in {q.call.key, Unkeyed}
  /\ q.pc \in {"drop", "unlock"} => q.call.key \in DOMAIN stored
  /\ q.stored => q.call.key \in DOMAIN stored /\ q.pc \in {"unlock"} \cup Over
  /\ q.guarded => q.pc \in {"run", "store", "unlock"} \cup Over
  /\ q.pc = "unlock" => q.stored
  /\ q.pc = "again" \/ (q.guarded /\ q.pc \in {"run", "store"}) =>
       Covers(r, q.call.key, held, stored) /\ q.key = q.call.key
  /\ \A o \in q.replay : o # r => SameAs(asked[o], q.call)

RequestOK(r) == Came(r) => Fits(r, request[r], locks, results, request)

ResultOK(k) ==
  /\ Came(results[k].by) /\ request[results[k].by].call.key = k
  /\ request[results[k].by].call.hash = results[k].hash

OneLasts ==
  \A r, q \in Senders : Lasting(r) /\ Lasting(q) /\ request[r].call.key = request[q].call.key => r = q

RequestsIInv ==
  /\ RequestsTypeOK
  /\ \A r \in Senders : RequestOK(r)
  /\ \A k \in DOMAIN results : ResultOK(k)
  /\ OneLasts

LEMMA PutFacts ==
  ASSUME NEW S, NEW f, f \in [DOMAIN f -> S], NEW k, NEW v \in S
  PROVE  /\ Put(f, k, v) \in [DOMAIN Put(f, k, v) -> S]
         /\ DOMAIN Put(f, k, v) = DOMAIN f \cup {k}
         /\ Put(f, k, v)[k] = v /\ \A x \in DOMAIN f \ {k} : Put(f, k, v)[x] = f[x]
BY DEF Put

LEMMA ClearedFacts ==
  ASSUME NEW S, NEW f, f \in [DOMAIN f -> S], NEW k
  PROVE  /\ Cleared(f, k) \in [DOMAIN Cleared(f, k) -> S]
         /\ DOMAIN Cleared(f, k) = DOMAIN f \ {k}
         /\ \A x \in DOMAIN f \ {k} : Cleared(f, k)[x] = f[x]
BY DEF Cleared

LEMMA CircuitFacts ==
  ASSUME circuit \in Circuits
  PROVE  Closed \in Circuits /\ Opened \in Circuits /\ AfterAsking(circuit) \in Circuits /\ Failed(circuit) \in Circuits
<1>1. Closed \in Circuits /\ Opened \in Circuits
  BY DEF Circuits, Closed, Opened
<1>2. AfterAsking(circuit) \in Circuits
  BY DEF AfterAsking, Circuits
<1>3. Failed(circuit) \in Circuits
  <2> DEFINE v == [circuit EXCEPT !.failures = @ + 1, !.probe = FALSE]
  <2>1. circuit.failures + 1 \in Nat
    BY DEF Circuits
  <2>2. v \in Circuits
    BY <2>1 DEF Circuits
  <2>3. Failed(circuit) = v \/ Failed(circuit) = Opened
    BY DEF Failed
  <2> HIDE DEF v
  <2> QED
    BY <1>1, <2>2, <2>3
<1> QED
  BY <1>1, <1>2, <1>3

\* Whatever a call to Redis reports.
LEMMA RedisFacts ==
  ASSUME StoresOK, Succeeds \/ Fails \/ Idles
  PROVE  circuit' \in Circuits /\ faults' \in Nat
BY CircuitFacts DEF StoresOK, Succeeds, Fails, Idles

LEMMA CameFacts ==
  ASSUME RequestsIInv, NEW r \in Senders, Came(r)
  PROVE  /\ request[r] \in Asked /\ Fits(r, request[r], locks, results, request)
         /\ request \in [Senders -> {NoRequest} \cup Asked] /\ request[r].call \in Calls
         /\ request[r].call.key \in Keys /\ request[r].call.hash \in Hashes
<1>1. request[r] \in Asked
  BY DEF RequestsIInv, RequestsTypeOK, Came, NoRequest
<1>2. request[r].call \in Calls
  BY <1>1 DEF Asked
<1> QED
  BY <1>1, <1>2 DEF RequestsIInv, RequestsTypeOK, RequestOK, Keys, Hashes

\* A step of one request: what it does to the locks and the results of its key,
\* and what becomes of it.
LEMMA OneRequestStep ==
  ASSUME RequestsIInv, NEW r \in Senders, StoresOK',
         NEW v \in Asked, Came(r) => v.call = request[r].call, request' = [request EXCEPT ![r] = v],
         NEW k, k = v.call.key, NEW h, h = v.call.hash,
         results' = results \/ results' = Put(results, k, [hash |-> h, by |-> r]),
         \/ locks' = locks
         \/ k \notin DOMAIN locks /\ locks' = Put(locks, k, [hash |-> h, owner |-> r])
         \/ k \in DOMAIN results /\ locks' = Cleared(locks, k),
         Fits(r, v, locks', results', request'),
         v.guarded /\ (v.pc \notin Over \/ v.stored) =>
           Lasting(r) \/ \A q \in Senders \ {r} : Lasting(q) => request[q].call.key # k
  PROVE  RequestsIInv'
<1>1. /\ RequestsTypeOK /\ \A q \in Senders : RequestOK(q)
      /\ \A x \in DOMAIN results : ResultOK(x)
      /\ OneLasts
  BY DEF RequestsIInv
<1>2. /\ request' \in [Senders -> {NoRequest} \cup Asked] /\ request'[r] = v
      /\ \A q \in Senders \ {r} : request'[q] = request[q]
  BY <1>1 DEF RequestsTypeOK
<1>3. v.pc # "idle"
  BY DEF Asked, Keyed, Over
<1>4. k \in Keys /\ h \in Hashes
  BY DEF Asked, Keys, Hashes
<1>5. /\ results' \in [DOMAIN results' -> [hash : Hashes, by : Senders]] /\ DOMAIN results' \subseteq Keys
      /\ DOMAIN results \subseteq DOMAIN results'
      /\ \A x \in DOMAIN results' :
           \/ x = k /\ results'[x] = [hash |-> h, by |-> r]
           \/ x \in DOMAIN results /\ results'[x] = results[x]
  <2>1. CASE results' = results
    BY <1>1, <2>1 DEF RequestsTypeOK
  <2>2. CASE results' = Put(results, k, [hash |-> h, by |-> r])
    <3> DEFINE n == [hash |-> h, by |-> r]
    <3>1. n \in [hash : Hashes, by : Senders] /\ results \in [DOMAIN results -> [hash : Hashes, by : Senders]]
          /\ DOMAIN results \subseteq Keys
      BY <1>1, <1>4 DEF RequestsTypeOK
    <3>2. results' = Put(results, k, n)
      BY <2>2
    <3> HIDE DEF n
    <3>3. /\ results' \in [DOMAIN results' -> [hash : Hashes, by : Senders]]
          /\ DOMAIN results' = DOMAIN results \cup {k}
          /\ results'[k] = n /\ \A x \in DOMAIN results \ {k} : results'[x] = results[x]
      <4> DEFINE S == [hash : Hashes, by : Senders]
      <4>1. n \in S /\ results \in [DOMAIN results -> S]
        BY <3>1
      <4> HIDE DEF S
      <4>2. results' \in [DOMAIN results' -> S]
        BY <3>2, <4>1, PutFacts
      <4>3. /\ DOMAIN results' = DOMAIN results \cup {k}
            /\ results'[k] = n /\ \A x \in DOMAIN results \ {k} : results'[x] = results[x]
        BY <3>2 DEF Put
      <4> QED
        BY <4>2, <4>3 DEF S
    <3> QED
      BY <1>4, <3>1, <3>3 DEF n
  <2> QED
    BY <2>1, <2>2
<1>6. /\ locks' \in [DOMAIN locks' -> [hash : Hashes, owner : Senders]] /\ DOMAIN locks' \subseteq Keys
      /\ \A x \in DOMAIN locks \ DOMAIN results' : x \in DOMAIN locks' /\ locks'[x] = locks[x]
  <2>1. locks \in [DOMAIN locks -> [hash : Hashes, owner : Senders]] /\ DOMAIN locks \subseteq Keys
    BY <1>1 DEF RequestsTypeOK
  <2>2. CASE locks' = locks
    BY <2>1, <2>2
  <2>3. CASE k \notin DOMAIN locks /\ locks' = Put(locks, k, [hash |-> h, owner |-> r])
    <3> DEFINE n == [hash |-> h, owner |-> r]
    <3>1. n \in [hash : Hashes, owner : Senders] /\ locks' = Put(locks, k, n)
      BY <1>4, <2>3
    <3> HIDE DEF n
    <3>2. /\ locks' \in [DOMAIN locks' -> [hash : Hashes, owner : Senders]]
          /\ DOMAIN locks' = DOMAIN locks \cup {k}
          /\ \A x \in DOMAIN locks \ {k} : locks'[x] = locks[x]
      <4> DEFINE S == [hash : Hashes, owner : Senders]
      <4>1. n \in S /\ locks \in [DOMAIN locks -> S]
        BY <2>1, <3>1
      <4> HIDE DEF S
      <4>2. locks' \in [DOMAIN locks' -> S]
        BY <3>1, <4>1, PutFacts
      <4>3. /\ DOMAIN locks' = DOMAIN locks \cup {k}
            /\ \A x \in DOMAIN locks \ {k} : locks'[x] = locks[x]
        BY <3>1 DEF Put
      <4> QED
        BY <4>2, <4>3 DEF S
    <3> QED
      BY <1>4, <2>1, <2>3, <3>2
  <2>4. CASE k \in DOMAIN results /\ locks' = Cleared(locks, k)
    <3>1. /\ locks' \in [DOMAIN locks' -> [hash : Hashes, owner : Senders]]
          /\ DOMAIN locks' = DOMAIN locks \ {k}
          /\ \A x \in DOMAIN locks \ {k} : locks'[x] = locks[x]
      <4> DEFINE S == [hash : Hashes, owner : Senders]
      <4>1. locks \in [DOMAIN locks -> S]
        BY <2>1
      <4> HIDE DEF S
      <4>2. locks' \in [DOMAIN locks' -> S]
        BY <2>4, <4>1, ClearedFacts
      <4>3. /\ DOMAIN locks' = DOMAIN locks \ {k}
            /\ \A x \in DOMAIN locks \ {k} : locks'[x] = locks[x]
        BY <2>4 DEF Cleared
      <4> QED
        BY <4>2, <4>3 DEF S
    <3> QED
      BY <1>5, <2>1, <2>4, <3>1
  <2> QED
    BY <2>2, <2>3, <2>4
<1>7. RequestsTypeOK'
  BY <1>2, <1>5, <1>6 DEF RequestsTypeOK
<1>8. \A o \in Senders : \A c : SameAs(request[o], c) => SameAs(request'[o], c)
  BY <1>2, <1>3 DEF SameAs, Came
<1>9. ASSUME NEW q \in Senders
      PROVE  RequestOK(q)'
  <2>1. CASE q = r
    BY <1>2, <2>1 DEF RequestOK
  <2>2. CASE q # r
    <3>1. request'[q] = request[q] /\ RequestOK(q)
      BY <1>1, <1>2, <2>2
    <3>2. ASSUME NEW x, Covers(q, x, locks, results)
          PROVE  Covers(q, x, locks', results')
      BY <1>5, <1>6, <3>2 DEF Covers
    <3>3. ASSUME Came(q)
          PROVE  Fits(q, request[q], locks', results', request')
      <4>1. Fits(q, request[q], locks, results, request)
        BY <3>1, <3>3 DEF RequestOK
      <4>2. request[q].replay \subseteq Senders
        BY <3>3, CameFacts DEF Asked
      <4>3. \A o \in request[q].replay : o # q => SameAs(request'[o], request[q].call)
        BY <1>8, <4>1, <4>2 DEF Fits
      <4> QED
        BY <1>5, <3>2, <4>1, <4>3 DEF Fits
    <3> QED
      BY <3>1, <3>3 DEF RequestOK, Came
  <2> QED
    BY <2>1, <2>2
<1>10. ASSUME NEW x \in DOMAIN results'
       PROVE  ResultOK(x)'
  <2>1. CASE x = k /\ results'[x] = [hash |-> h, by |-> r]
    BY <1>2, <1>3, <2>1 DEF ResultOK, Came
  <2>2. CASE x \in DOMAIN results /\ results'[x] = results[x]
    <3>1. ResultOK(x) /\ results[x].by \in Senders
      BY <1>1, <2>2 DEF RequestsTypeOK
    <3>2. request'[results[x].by].pc # "idle" /\ request'[results[x].by].call = request[results[x].by].call
      <4>1. CASE results[x].by = r
        BY <1>2, <1>3, <3>1, <4>1 DEF Came, ResultOK
      <4>2. CASE results[x].by # r
        <5>1. request'[results[x].by] = request[results[x].by] /\ Came(results[x].by)
          BY <1>2, <3>1, <4>2 DEF ResultOK
        <5>2. results'[x].by = results[x].by
          BY <2>2
        <5> QED
          BY <5>1, <5>2 DEF Came
      <4> QED
        BY <4>1, <4>2
    <3> QED
      BY <2>2, <3>1, <3>2 DEF ResultOK, Came
  <2> QED
    BY <1>5, <2>1, <2>2
<1>11. OneLasts'
  <2>1. \A q \in Senders \ {r} : Lasting(q)' <=> Lasting(q)
    BY <1>2 DEF Lasting, Came, Finished
  <2>2. Lasting(r)' => v.guarded /\ (v.pc \notin Over \/ v.stored)
    BY <1>2 DEF Lasting, Finished
  <2>3. Lasting(r)' => \A q \in Senders \ {r} : Lasting(q) => request[q].call.key # k
    <3>1. Lasting(r) => k = request[r].call.key
      BY DEF Lasting
    <3> QED
      BY <1>1, <2>2, <3>1 DEF OneLasts
  <2>4. ASSUME NEW p \in Senders, NEW q \in Senders, Lasting(p)', Lasting(q)',
               request'[p].call.key = request'[q].call.key
        PROVE  p = q
    <3>1. \A o \in Senders : request'[o].call.key = IF o = r THEN k ELSE request[o].call.key
      BY <1>2
    <3> QED
      BY <1>1, <2>1, <2>3, <2>4, <3>1 DEF OneLasts
  <2> QED
    BY <2>4 DEF OneLasts
<1> QED
  BY <1>7, <1>9, <1>10, <1>11 DEF RequestsIInv

\* Before its handler a request neither is guarded nor has stored an answer.
LEMMA EarlyFacts ==
  ASSUME RequestsIInv, NEW r \in Senders,
         request[r].pc \in {"limit", "begin", "lookup", "lock", "again", "drop", "validate", "ask", "wait"}
  PROVE  /\ Came(r) /\ ~ request[r].guarded /\ ~ request[r].stored
         /\ request[r].key = request[r].call.key
         /\ request[r].pc \in WithKey => request[r].key # Unkeyed
<1>1. Came(r)
  BY DEF Came
<1>2. Fits(r, request[r], locks, results, request)
  BY <1>1, CameFacts
<1> QED
  BY <1>1, <1>2 DEF Fits, Keyed, Over

\* What a request may be after a step that moves it, and leaves its results.
LEMMA GoesStep ==
  ASSUME RequestsIInv, NEW r \in Senders, Came(r),
         NEW pc \in (Keyed \cup Over \cup {"run"}) \ {"limit", "again", "drop", "unlock"},
         Goes(r, pc), StoresOK', results' = results,
         locks' = locks \/ (request[r].call.key \in DOMAIN results /\ locks' = Cleared(locks, request[r].call.key)),
         pc \in Keyed => request[r].key = request[r].call.key,
         pc \in WithKey => request[r].key # Unkeyed,
         request[r].guarded \/ request[r].stored => pc \in Over
  PROVE  RequestsIInv'
<1> DEFINE v == [request[r] EXCEPT !.pc = pc]
           k == request[r].call.key
           h == request[r].call.hash
<1>1. request[r] \in Asked /\ Fits(r, request[r], locks, results, request)
  BY CameFacts
<1>2. /\ v \in Asked /\ v.pc = pc /\ v.call = request[r].call /\ v.key = request[r].key
      /\ v.guarded = request[r].guarded /\ v.stored = request[r].stored /\ v.replay = request[r].replay
  BY <1>1 DEF Asked
<1>3. request' = [request EXCEPT ![r] = v]
  BY DEF Goes
<1>4. locks' = locks \/ (k \in DOMAIN results /\ locks' = Cleared(locks, k))
  OBVIOUS
<1>5. k = v.call.key /\ h = v.call.hash
  BY <1>2
<1> HIDE DEF v
<1>6. request \in [Senders -> {NoRequest} \cup Asked] /\ v.pc # "idle"
  BY <1>2, CameFacts DEF Keyed, Over
<1>7. \A o \in v.replay : o # r => SameAs(request'[o], v.call)
  <2>1. v.replay \subseteq Senders
    BY <1>2 DEF Asked
  <2> QED
    BY <1>1, <1>2, <1>3, <1>6, <2>1 DEF Fits
<1>8. Fits(r, v, locks', results', request')
  BY <1>1, <1>2, <1>7 DEF Fits, Keyed, WithKey, Over
<1>9. v.guarded /\ (v.pc \notin Over \/ v.stored) => Lasting(r)
  BY <1>2 DEF Lasting
<1> HIDE DEF k, h
<1> QED
  BY <1>2, <1>3, <1>4, <1>5, <1>8, <1>9, OneRequestStep

\* A request goes on without a key, and unprotected.
LEMMA UnprotectedStep ==
  ASSUME RequestsIInv, NEW r \in Senders, Unprotected(r), StoresOK', results' = results, locks' = locks,
         request[r].pc \in {"lookup", "lock", "again", "validate"}
  PROVE  RequestsIInv'
<1> DEFINE v == [request[r] EXCEPT !.pc = "run", !.key = Unkeyed]
<1>1. /\ Came(r) /\ ~ request[r].guarded /\ ~ request[r].stored
      /\ request[r] \in Asked /\ Fits(r, request[r], locks, results, request)
      /\ request \in [Senders -> {NoRequest} \cup Asked]
  BY EarlyFacts, CameFacts
<1>2. /\ v \in Asked /\ v.pc = "run" /\ v.call = request[r].call /\ v.key = Unkeyed
      /\ v.guarded = request[r].guarded /\ v.stored = request[r].stored /\ v.replay = request[r].replay
  BY <1>1 DEF Asked
<1>3. request' = [request EXCEPT ![r] = v]
  BY <1>1 DEF Unprotected, Asked
<1> HIDE DEF v
<1>4. \A o \in v.replay : o # r => SameAs(request'[o], v.call)
  <2>1. v.replay \subseteq Senders
    BY <1>2 DEF Asked
  <2> QED
    BY <1>1, <1>2, <1>3, <2>1 DEF Fits
<1>5. Fits(r, v, locks', results', request')
  BY <1>1, <1>2, <1>4 DEF Fits, Keyed, WithKey
<1> QED
  BY <1>1, <1>2, <1>3, <1>5, OneRequestStep

\* The stored answer of the same request is given.
LEMMA ReplaysStep ==
  ASSUME RequestsIInv, NEW r \in Senders, NEW pc, Replays(r, pc), StoresOK', results' = results, locks' = locks,
         \/ request[r].pc \in {"lookup", "wait"} /\ pc = "answered"
         \/ request[r].pc = "again" /\ pc = "drop",
         Key(r) \in DOMAIN results, Same(r, results[Key(r)])
  PROVE  RequestsIInv'
<1> DEFINE k == request[r].call.key
           by == results[k].by
           v == [request[r] EXCEPT !.pc = pc, !.replay = {by}]
<1>1. /\ Came(r) /\ ~ request[r].guarded /\ ~ request[r].stored
      /\ request[r] \in Asked /\ Fits(r, request[r], locks, results, request)
      /\ request \in [Senders -> {NoRequest} \cup Asked]
      /\ Key(r) = k /\ request[r].key = k /\ k # Unkeyed
  BY EarlyFacts, CameFacts DEF Key, WithKey
<1>2. by \in Senders /\ SameAs(request[by], request[r].call)
  BY <1>1 DEF RequestsIInv, RequestsTypeOK, ResultOK, SameAs, Came, Same
<1>3. k \in DOMAIN results
  BY <1>1
<1>4. request' = [request EXCEPT ![r].pc = pc, ![r].replay = {by}]
  BY <1>1 DEF Replays
<1> HIDE DEF by
<1>5. /\ v \in Asked /\ v.pc = pc /\ v.call = request[r].call /\ v.key = k
      /\ v.guarded = request[r].guarded /\ v.stored = request[r].stored /\ v.replay = {by}
  BY <1>1, <1>2 DEF Asked, Keyed, Over
<1>6. request' = [request EXCEPT ![r] = v]
  BY <1>1, <1>4 DEF Asked
<1> HIDE DEF v
<1>7. \A o \in v.replay : o # r => SameAs(request'[o], v.call)
  BY <1>1, <1>2, <1>5, <1>6
<1>8. Fits(r, v, locks', results', request')
  BY <1>1, <1>3, <1>5, <1>7 DEF Fits, Keyed, WithKey, Over
<1>9. k = v.call.key
  BY <1>5
<1> HIDE DEF k
<1> QED
  BY <1>1, <1>5, <1>6, <1>8, <1>9, OneRequestStep

\* The request runs, guarded only if it holds the lock and no result is there.
LEMMA RunsStep ==
  ASSUME RequestsIInv, NEW r \in Senders, NEW g \in BOOLEAN, Runs(r, g), StoresOK', results' = results, locks' = locks,
         request[r].pc = "again", g => Key(r) \notin DOMAIN results
  PROVE  RequestsIInv'
<1> DEFINE k == request[r].call.key
           v == [request[r] EXCEPT !.pc = "run", !.guarded = g]
<1>1. /\ Came(r) /\ ~ request[r].guarded /\ ~ request[r].stored
      /\ request[r] \in Asked /\ Fits(r, request[r], locks, results, request)
      /\ request \in [Senders -> {NoRequest} \cup Asked]
      /\ Key(r) = k /\ request[r].key = k /\ Covers(r, k, locks, results)
  BY EarlyFacts, CameFacts DEF Key, Fits
<1>2. /\ v \in Asked /\ v.pc = "run" /\ v.call = request[r].call /\ v.key = k
      /\ v.guarded = g /\ v.stored = request[r].stored /\ v.replay = request[r].replay
  BY <1>1 DEF Asked
<1>3. request' = [request EXCEPT ![r] = v]
  BY <1>1 DEF Runs, Asked
<1>4. k = v.call.key
  BY <1>2
<1> HIDE DEF v
<1>5. \A o \in v.replay : o # r => SameAs(request'[o], v.call)
  <2>1. v.replay \subseteq Senders
    BY <1>2 DEF Asked
  <2> QED
    BY <1>1, <1>2, <1>3, <2>1 DEF Fits
<1>6. Fits(r, v, locks', results', request')
  BY <1>1, <1>2, <1>5 DEF Fits, Keyed, WithKey
<1>7. g => \A q \in Senders \ {r} : Lasting(q) => request[q].call.key # k
  <2>1. SUFFICES ASSUME g, NEW q \in Senders \ {r}, Lasting(q), request[q].call.key = k
                 PROVE  FALSE
    OBVIOUS
  <2>2. k \notin DOMAIN results /\ k \in DOMAIN locks /\ locks[k].owner = r
    BY <1>1, <2>1 DEF Covers
  <2>3. request[q] \in Asked /\ Fits(q, request[q], locks, results, request)
    BY <2>1, CameFacts DEF Lasting
  <2>4. ~ request[q].stored /\ request[q].guarded /\ request[q].pc \notin Over
    BY <2>1, <2>2, <2>3 DEF Lasting, Finished, Fits
  <2>5. request[q].pc \in {"run", "store"}
    BY <2>3, <2>4 DEF Fits
  <2>6. Covers(q, k, locks, results)
    BY <2>1, <2>3, <2>4, <2>5 DEF Fits
  <2> QED
    BY <2>2, <2>6 DEF Covers
<1> HIDE DEF k
<1> QED
  BY <1>1, <1>2, <1>3, <1>4, <1>6, <1>7, OneRequestStep

-----------------------------------------------------------------------------
(* One lemma for each step of a request.                                     *)

LEMMA EnterStep ==
  ASSUME RequestsIInv, NEW r \in Senders, NEW call \in Calls, Enter(r, call)
  PROVE  RequestsIInv'
<1> DEFINE v == [pc |-> "limit", stage |-> 1, counted |-> 0, call |-> call, key |-> call.key,
                 guarded |-> FALSE, stored |-> FALSE, replay |-> {}]
<1>1. /\ v \in Asked /\ v.pc = "limit" /\ v.stage = 1 /\ v.call = call /\ v.key = call.key
      /\ ~ v.guarded /\ ~ v.stored /\ v.replay = {}
  BY DEF Asked, Keyed, Keys
<1>2. /\ request' = [request EXCEPT ![r] = v] /\ ~ Came(r)
      /\ results' = results /\ locks' = locks /\ StoresOK'
  BY DEF Enter, Came, RequestsIInv, RequestsTypeOK, StoresOK
<1>3. 1 \in 1..Len(Route)
  <2>1. Len(Route) \in Nat
    BY RequestAssumption
  <2> QED
    BY <2>1, RequestAssumption
<1> HIDE DEF v
<1>4. Fits(r, v, locks', results', request')
  BY <1>1, <1>3 DEF Fits, WithKey, Over
<1> QED
  BY <1>1, <1>2, <1>4, OneRequestStep

\* The next limit, or the handler.
LEMMA OnwardStep ==
  ASSUME RequestsIInv, NEW r \in Senders, request[r].pc = "limit", Onward(r), StoresOK',
         results' = results, locks' = locks
  PROVE  RequestsIInv'
<1>1. /\ Came(r) /\ ~ request[r].guarded /\ ~ request[r].stored /\ request[r].key = request[r].call.key
      /\ request[r] \in Asked /\ Fits(r, request[r], locks, results, request)
      /\ request \in [Senders -> {NoRequest} \cup Asked]
  BY EarlyFacts, CameFacts
<1>2. Len(Route) \in Nat /\ request[r].stage \in Nat
  BY <1>1, RequestAssumption DEF Asked
<1>3. CASE request[r].stage < Len(Route)
  <2> DEFINE n == request[r].stage + 1
             v == [request[r] EXCEPT !.stage = n, !.counted = 0]
  <2>1. n \in Nat /\ n \in 1..Len(Route)
    BY <1>2, <1>3
  <2>2. request' = [request EXCEPT ![r] = v]
    BY <1>1, <1>3 DEF Onward, Asked
  <2> HIDE DEF n
  <2>3. /\ v \in Asked /\ v.pc = "limit" /\ v.stage = n /\ v.call = request[r].call /\ v.key = request[r].key
        /\ v.guarded = request[r].guarded /\ v.stored = request[r].stored /\ v.replay = request[r].replay
    BY <1>1, <2>1 DEF Asked
  <2> HIDE DEF v
  <2>4. \A o \in v.replay : o # r => SameAs(request'[o], v.call)
    <3>1. v.replay \subseteq Senders
      BY <2>3 DEF Asked
    <3> QED
      BY <1>1, <2>2, <2>3, <3>1 DEF Fits
  <2>5. Fits(r, v, locks', results', request')
    BY <1>1, <2>1, <2>3, <2>4 DEF Fits, WithKey
  <2> QED
    BY <1>1, <2>2, <2>3, <2>5, OneRequestStep
<1>4. CASE ~ (request[r].stage < Len(Route))
  <2> DEFINE v == [request[r] EXCEPT !.pc = "begin", !.stage = 0, !.counted = 0]
  <2>1. request' = [request EXCEPT ![r] = v]
    BY <1>1, <1>4 DEF Onward, Asked
  <2>2. /\ v \in Asked /\ v.pc = "begin" /\ v.call = request[r].call /\ v.key = request[r].key
        /\ v.guarded = request[r].guarded /\ v.stored = request[r].stored /\ v.replay = request[r].replay
    BY <1>1 DEF Asked, Keyed
  <2> HIDE DEF v
  <2>3. \A o \in v.replay : o # r => SameAs(request'[o], v.call)
    <3>1. v.replay \subseteq Senders
      BY <2>2 DEF Asked
    <3> QED
      BY <1>1, <2>1, <2>2, <3>1 DEF Fits
  <2>4. Fits(r, v, locks', results', request')
    BY <1>1, <2>2, <2>3 DEF Fits, WithKey
  <2> QED
    BY <1>1, <2>1, <2>2, <2>4, OneRequestStep
<1> QED
  BY <1>3, <1>4

LEMMA PassLimitStep ==
  ASSUME RequestsIInv, NEW r \in Senders, PassLimit(r)
  PROVE  RequestsIInv'
<1>1. StoresOK
  BY DEF RequestsIInv, RequestsTypeOK
<1>2. StoresOK'
  BY <1>1, CircuitFacts DEF PassLimit, StoresOK
<1> QED
  BY <1>2, OnwardStep DEF PassLimit

LEMMA CountHitStep ==
  ASSUME RequestsIInv, NEW r \in Senders, CountHit(r)
  PROVE  RequestsIInv'
<1>1. /\ StoresOK /\ request[r].pc = "limit" /\ results' = results /\ locks' = locks
      /\ subscribed' = subscribed /\ crashes' = crashes
      /\ Came(r) /\ ~ request[r].guarded /\ ~ request[r].stored /\ request[r].key = request[r].call.key
      /\ request[r] \in Asked /\ Fits(r, request[r], locks, results, request)
      /\ request \in [Senders -> {NoRequest} \cup Asked]
  BY EarlyFacts, CameFacts DEF CountHit, RequestsIInv, RequestsTypeOK
<1>2. CASE Fails /\ Onward(r) /\ UNCHANGED hits
  <2>1. StoresOK'
    BY <1>1, <1>2, RedisFacts DEF StoresOK
  <2> QED
    BY <1>1, <1>2, <2>1, OnwardStep
<1>3. ASSUME NEW j \in Pending(r), NEW at, Succeeds,
             \/ Goes(r, "limited") /\ UNCHANGED hits
             \/ /\ request' = [request EXCEPT ![r].counted = j]
                /\ hits' = Put(hits, at, Hits(at) + 1)
      PROVE  RequestsIInv'
  <2>1. CASE Goes(r, "limited") /\ UNCHANGED hits
    <3>1. StoresOK'
      BY <1>1, <1>3, <2>1, RedisFacts DEF StoresOK
    <3> QED
      BY <1>1, <2>1, <3>1, GoesStep DEF Keyed, WithKey, Over
  <2>2. CASE request' = [request EXCEPT ![r].counted = j] /\ hits' = Put(hits, at, Hits(at) + 1)
    <3> DEFINE v == [request[r] EXCEPT !.counted = j]
    <3>1. j \in Nat
      <4>1. Route[request[r].stage] \in Seq(LimitPolicy)
        BY <1>1, RequestAssumption DEF Fits
      <4> QED
        BY <4>1 DEF Pending
    <3>2. hits' \in [DOMAIN hits' -> Nat]
      <4>1. Hits(at) + 1 \in Nat /\ hits \in [DOMAIN hits -> Nat]
        BY <1>1 DEF Hits, StoresOK
      <4> QED
        BY <2>2, <4>1, PutFacts
    <3>3. StoresOK'
      BY <1>1, <1>3, <3>2, RedisFacts DEF StoresOK
    <3>4. request' = [request EXCEPT ![r] = v]
      BY <1>1, <2>2 DEF Asked
    <3>5. /\ v \in Asked /\ v.pc = "limit" /\ v.call = request[r].call /\ v.key = request[r].key
          /\ v.stage = request[r].stage
          /\ v.guarded = request[r].guarded /\ v.stored = request[r].stored /\ v.replay = request[r].replay
      BY <1>1, <3>1 DEF Asked
    <3> HIDE DEF v
    <3>6. \A o \in v.replay : o # r => SameAs(request'[o], v.call)
      <4>1. v.replay \subseteq Senders
        BY <3>5 DEF Asked
      <4> QED
        BY <1>1, <3>4, <3>5, <4>1 DEF Fits
    <3>7. Fits(r, v, locks', results', request')
      BY <1>1, <3>5, <3>6 DEF Fits, WithKey
    <3> QED
      BY <1>1, <3>3, <3>4, <3>5, <3>7, OneRequestStep
  <2> QED
    BY <1>3, <2>1, <2>2
<1> QED
  BY <1>2, <1>3 DEF CountHit

\* No request moves, and no lock of one that has not ended goes.
LEMMA RestStep ==
  ASSUME RequestsIInv, StoresOK', request' = request, results' = results,
         \/ locks' = locks
         \/ \E k \in DOMAIN locks : Finished(locks[k].owner) /\ locks' = Cleared(locks, k)
  PROVE  RequestsIInv'
<1>1. /\ RequestsTypeOK /\ \A q \in Senders : RequestOK(q)
      /\ \A x \in DOMAIN results : ResultOK(x)
      /\ OneLasts
  BY DEF RequestsIInv
<1>2. /\ locks' \in [DOMAIN locks' -> [hash : Hashes, owner : Senders]] /\ DOMAIN locks' \subseteq Keys
      /\ \A x \in DOMAIN locks : ~ Finished(locks[x].owner) => x \in DOMAIN locks' /\ locks'[x] = locks[x]
  <2>1. locks \in [DOMAIN locks -> [hash : Hashes, owner : Senders]] /\ DOMAIN locks \subseteq Keys
    BY <1>1 DEF RequestsTypeOK
  <2>2. CASE locks' = locks
    BY <2>1, <2>2
  <2>3. ASSUME NEW k \in DOMAIN locks, Finished(locks[k].owner), locks' = Cleared(locks, k)
        PROVE  /\ locks' \in [DOMAIN locks' -> [hash : Hashes, owner : Senders]] /\ DOMAIN locks' \subseteq Keys
               /\ \A x \in DOMAIN locks : ~ Finished(locks[x].owner) => x \in DOMAIN locks' /\ locks'[x] = locks[x]
    <3> DEFINE S == [hash : Hashes, owner : Senders]
    <3>1. locks \in [DOMAIN locks -> S]
      BY <2>1
    <3> HIDE DEF S
    <3>2. locks' \in [DOMAIN locks' -> S]
      BY <2>3, <3>1, ClearedFacts
    <3>3. DOMAIN locks' = DOMAIN locks \ {k} /\ \A x \in DOMAIN locks \ {k} : locks'[x] = locks[x]
      BY <2>3 DEF Cleared
    <3> QED
      BY <2>1, <2>3, <3>2, <3>3 DEF S
  <2> QED
    BY <2>2, <2>3
<1>3. RequestsTypeOK'
  BY <1>1, <1>2 DEF RequestsTypeOK
<1>4. ASSUME NEW q \in Senders
      PROVE  RequestOK(q)'
  <2>1. ASSUME Came(q)
        PROVE  Fits(q, request[q], locks', results', request')
    <3>1. Fits(q, request[q], locks, results, request)
      BY <1>1, <2>1 DEF RequestOK
    <3>2. request[q].pc = "again" \/ request[q].pc \in {"run", "store"} => ~ Finished(q)
      BY DEF Finished, Over
    <3>3. ASSUME NEW x, Covers(q, x, locks, results), ~ Finished(q)
          PROVE  Covers(q, x, locks', results')
      BY <1>2, <3>3 DEF Covers
    <3> QED
      BY <3>1, <3>2, <3>3 DEF Fits
  <2> QED
    BY <2>1 DEF RequestOK, Came
<1>5. /\ \A x \in DOMAIN results' : ResultOK(x)'
      /\ OneLasts'
  BY <1>1 DEF ResultOK, OneLasts, Lasting, Came, Finished
<1> QED
  BY <1>3, <1>4, <1>5 DEF RequestsIInv

LEMMA BeginStep ==
  ASSUME RequestsIInv, NEW r \in Senders, Begin(r)
  PROVE  RequestsIInv'
<1>1. /\ Came(r) /\ ~ request[r].guarded /\ ~ request[r].stored /\ request[r].key = request[r].call.key
      /\ results' = results /\ locks' = locks /\ StoresOK
  BY EarlyFacts DEF Begin, RequestsIInv, RequestsTypeOK
<1>2. StoresOK'
  BY <1>1, CircuitFacts DEF Begin, StoresOK
<1>3. CASE Goes(r, "run")
  BY <1>1, <1>2, <1>3, GoesStep DEF Keyed, WithKey
<1>4. CASE Goes(r, "lookup") /\ Key(r) # Unkeyed
  BY <1>1, <1>2, <1>4, GoesStep DEF Keyed, WithKey, Key, Over
<1> QED
  BY <1>3, <1>4 DEF Begin

\* A lookup in all its outcomes but the one that found no result.
LEMMA LookUpStep ==
  ASSUME RequestsIInv, NEW r \in Senders, NEW none, LookUp(r, none), request[r].pc \in {"lookup", "again"},
         results' = results, locks' = locks, hits' = hits, subscribed' = subscribed, crashes' = crashes
  PROVE  \/ RequestsIInv'
         \/ /\ none /\ StoresOK'
            /\ LetsThrough(circuit) => Key(r) \notin DOMAIN results
<1>1. /\ Came(r) /\ ~ request[r].guarded /\ ~ request[r].stored /\ request[r].key = request[r].call.key
      /\ StoresOK
  BY EarlyFacts DEF RequestsIInv, RequestsTypeOK
<1>2. StoresOK'
  BY <1>1, RedisFacts DEF LookUp, StoresOK
<1>3. CASE Unprotected(r)
  BY <1>2, <1>3, UnprotectedStep
<1>4. CASE Mismatches(r)
  BY <1>1, <1>2, <1>4, GoesStep DEF Mismatches, Keyed, WithKey, Over
<1>5. CASE /\ Key(r) \in DOMAIN results /\ Same(r, results[Key(r)])
           /\ Replays(r, IF request[r].pc = "lookup" THEN "answered" ELSE "drop")
  <2>1. CASE request[r].pc = "lookup"
    BY <1>2, <1>5, <2>1, ReplaysStep
  <2>2. CASE request[r].pc = "again"
    BY <1>2, <1>5, <2>2, ReplaysStep
  <2> QED
    BY <2>1, <2>2
<1> QED
  BY <1>2, <1>3, <1>4, <1>5 DEF LookUp

LEMMA FirstLookupStep ==
  ASSUME RequestsIInv, NEW r \in Senders, FirstLookup(r)
  PROVE  RequestsIInv'
<1>1. /\ Came(r) /\ ~ request[r].guarded /\ ~ request[r].stored /\ request[r].key = request[r].call.key
      /\ request[r].key # Unkeyed /\ request[r].pc = "lookup"
      /\ results' = results /\ locks' = locks /\ hits' = hits /\ subscribed' = subscribed /\ crashes' = crashes
  BY EarlyFacts DEF FirstLookup, WithKey
<1>2. RequestsIInv' \/ (Goes(r, "lock") /\ StoresOK')
  BY <1>1, LookUpStep DEF FirstLookup
<1> QED
  BY <1>1, <1>2, GoesStep DEF Keyed, WithKey

LEMMA SecondLookupStep ==
  ASSUME RequestsIInv, NEW r \in Senders, SecondLookup(r)
  PROVE  RequestsIInv'
<1>1. /\ request[r].pc = "again"
      /\ results' = results /\ locks' = locks /\ hits' = hits /\ subscribed' = subscribed /\ crashes' = crashes
  BY DEF SecondLookup
<1>2. \/ RequestsIInv'
      \/ Runs(r, LetsThrough(circuit)) /\ StoresOK' /\ (LetsThrough(circuit) => Key(r) \notin DOMAIN results)
  BY <1>1, LookUpStep DEF SecondLookup
<1>3. LetsThrough(circuit) \in BOOLEAN
  BY DEF LetsThrough
<1> QED
  BY <1>1, <1>2, <1>3, RunsStep

LEMMA LockStep ==
  ASSUME RequestsIInv, NEW r \in Senders, Lock(r)
  PROVE  RequestsIInv'
<1>1. /\ Came(r) /\ ~ request[r].guarded /\ ~ request[r].stored /\ request[r].key = request[r].call.key
      /\ request[r].key # Unkeyed /\ request[r].pc = "lock" /\ results' = results /\ StoresOK
      /\ request[r] \in Asked /\ Fits(r, request[r], locks, results, request)
      /\ request \in [Senders -> {NoRequest} \cup Asked]
  BY EarlyFacts, CameFacts DEF Lock, WithKey, RequestsIInv, RequestsTypeOK
<1>2. StoresOK'
  BY <1>1, RedisFacts DEF Lock, StoresOK
<1>3. CASE Unprotected(r) /\ UNCHANGED locks
  BY <1>1, <1>2, <1>3, UnprotectedStep
<1>4. CASE Goes(r, "validate") /\ UNCHANGED locks
  BY <1>1, <1>2, <1>4, GoesStep DEF Keyed, WithKey, Over
<1>5. CASE /\ Key(r) \notin DOMAIN locks
           /\ locks' = Put(locks, Key(r), [hash |-> request[r].call.hash, owner |-> r])
           /\ Goes(r, "again")
  <2> DEFINE v == [request[r] EXCEPT !.pc = "again"]
             k == request[r].call.key
             h == request[r].call.hash
  <2>1. k \notin DOMAIN locks /\ locks' = Put(locks, k, [hash |-> h, owner |-> r])
    BY <1>1, <1>5 DEF Key
  <2>2. request' = [request EXCEPT ![r] = v]
    BY <1>1, <1>5 DEF Goes, Asked
  <2>3. /\ v \in Asked /\ v.pc = "again" /\ v.call = request[r].call /\ v.key = request[r].key
        /\ v.guarded = request[r].guarded /\ v.stored = request[r].stored /\ v.replay = request[r].replay
    BY <1>1 DEF Asked, Keyed
  <2> HIDE DEF v
  <2>4. \A o \in v.replay : o # r => SameAs(request'[o], v.call)
    <3>1. v.replay \subseteq Senders
      BY <2>3 DEF Asked
    <3> QED
      BY <1>1, <2>2, <2>3, <3>1 DEF Fits
  <2>5. k = v.call.key /\ h = v.call.hash
    BY <2>3
  <2> HIDE DEF k, h
  <2>6. Covers(r, k, locks', results')
    <3> DEFINE n == [hash |-> h, owner |-> r]
    <3>1. n.owner = r /\ locks' = Put(locks, k, n)
      BY <2>1
    <3> HIDE DEF n
    <3>2. k \in DOMAIN locks' /\ locks'[k] = n
      BY <3>1 DEF Put
    <3> QED
      BY <3>1, <3>2 DEF Covers
  <2>7. Fits(r, v, locks', results', request')
    BY <1>1, <2>3, <2>4, <2>5, <2>6 DEF Fits, WithKey
  <2> QED
    BY <1>1, <1>2, <2>1, <2>2, <2>3, <2>5, <2>7, OneRequestStep
<1> QED
  BY <1>3, <1>4, <1>5 DEF Lock

\* Whose result is stored lets go of the lock of its key.
LEMMA UnlockStep ==
  ASSUME RequestsIInv, NEW r \in Senders, request[r].pc \in {"drop", "unlock"}, Unlock(r), Goes(r, "answered"),
         results' = results, hits' = hits, subscribed' = subscribed, crashes' = crashes
  PROVE  RequestsIInv'
<1>1. Came(r)
  BY DEF Came
<1>2. Fits(r, request[r], locks, results, request)
  BY <1>1, CameFacts
<1>3. request[r].call.key \in DOMAIN results /\ Key(r) = request[r].call.key
  BY <1>2 DEF Fits, Keyed, Key
<1>4. StoresOK'
  BY RedisFacts DEF Unlock, StoresOK, RequestsIInv, RequestsTypeOK
<1>5. locks' = locks \/ locks' = Cleared(locks, request[r].call.key)
  BY <1>3 DEF Unlock
<1> QED
  BY <1>1, <1>3, <1>4, <1>5, GoesStep DEF Keyed, WithKey, Over

LEMMA ValidateStep ==
  ASSUME RequestsIInv, NEW r \in Senders, Validate(r)
  PROVE  RequestsIInv'
<1>1. /\ Came(r) /\ ~ request[r].guarded /\ ~ request[r].stored /\ request[r].key = request[r].call.key
      /\ request[r].key # Unkeyed /\ request[r].pc = "validate" /\ results' = results /\ locks' = locks /\ StoresOK
  BY EarlyFacts DEF Validate, WithKey, RequestsIInv, RequestsTypeOK
<1>2. StoresOK'
  BY <1>1, RedisFacts DEF Validate, StoresOK
<1>3. CASE Unprotected(r)
  BY <1>1, <1>2, <1>3, UnprotectedStep
<1>4. CASE Goes(r, "mismatch") \/ Goes(r, "ask")
  BY <1>1, <1>2, <1>4, GoesStep DEF Keyed, WithKey, Over
<1> QED
  BY <1>3, <1>4 DEF Validate, Mismatches

LEMMA AskToWaitStep ==
  ASSUME RequestsIInv, NEW r \in Senders, AskToWait(r)
  PROVE  RequestsIInv'
<1>1. /\ Came(r) /\ ~ request[r].guarded /\ ~ request[r].stored /\ request[r].key = request[r].call.key
      /\ request[r].key # Unkeyed /\ results' = results /\ locks' = locks /\ StoresOK
  BY EarlyFacts DEF AskToWait, WithKey, RequestsIInv, RequestsTypeOK
<1>2. StoresOK'
  BY <1>1, CircuitFacts DEF AskToWait, StoresOK
<1>3. Goes(r, "wait") \/ Goes(r, "conflict")
  BY DEF AskToWait, Conflicts
<1> QED
  BY <1>1, <1>2, <1>3, GoesStep DEF Keyed, WithKey, Over

LEMMA WaitStep ==
  ASSUME RequestsIInv, NEW r \in Senders, Wait(r)
  PROVE  RequestsIInv'
<1>1. /\ Came(r) /\ ~ request[r].guarded /\ ~ request[r].stored /\ request[r].key = request[r].call.key
      /\ request[r].key # Unkeyed /\ request[r].pc = "wait" /\ results' = results /\ locks' = locks /\ StoresOK
  BY EarlyFacts DEF Wait, WithKey, RequestsIInv, RequestsTypeOK
<1>2. StoresOK'
  BY <1>1, RedisFacts DEF Wait, StoresOK
<1>3. CASE Goes(r, "conflict") \/ Goes(r, "mismatch")
  BY <1>1, <1>2, <1>3, GoesStep DEF Keyed, WithKey, Over
<1>4. CASE UNCHANGED request
  BY <1>1, <1>2, <1>4, RestStep
<1>5. CASE Key(r) \in DOMAIN results /\ Same(r, results[Key(r)]) /\ Replays(r, "answered")
  BY <1>1, <1>2, <1>5, ReplaysStep
<1> QED
  BY <1>3, <1>4, <1>5 DEF Wait, Conflicts, Mismatches

LEMMA RunStep ==
  ASSUME RequestsIInv, NEW r \in Senders, Run(r)
  PROVE  RequestsIInv'
<1>1. /\ Came(r) /\ request[r].pc = "run" /\ results' = results /\ locks' = locks /\ StoresOK'
      /\ request[r] \in Asked /\ Fits(r, request[r], locks, results, request)
      /\ request \in [Senders -> {NoRequest} \cup Asked]
  BY CameFacts DEF Run, Came, RequestsIInv, RequestsTypeOK, StoresOK
<1>2. CASE Goes(r, "gone")
  BY <1>1, <1>2, GoesStep DEF Keyed, WithKey, Over
<1>3. ASSUME NEW pc \in {"answered", "store"}, pc = IF Key(r) = Unkeyed THEN "answered" ELSE "store",
             request' = [request EXCEPT ![r].pc = pc, ![r].replay = {r}]
      PROVE  RequestsIInv'
  <2> DEFINE v == [request[r] EXCEPT !.pc = pc, !.replay = {r}]
  <2>1. request' = [request EXCEPT ![r] = v]
    BY <1>1, <1>3 DEF Asked
  <2>2. /\ v \in Asked /\ v.pc = pc /\ v.call = request[r].call /\ v.key = request[r].key
        /\ v.guarded = request[r].guarded /\ v.stored = request[r].stored /\ v.replay = {r}
    BY <1>1 DEF Asked, Keyed, Over
  <2> HIDE DEF v
  <2>3. pc = "store" => request[r].key = request[r].call.key /\ request[r].key # Unkeyed
    BY <1>1, <1>3 DEF Fits, Key
  <2>4. request[r].guarded => pc = "store" \/ request[r].key = Unkeyed
    BY <1>3 DEF Key
  <2>5. ~ request[r].stored
    BY <1>1 DEF Fits, Over
  <2>6. Fits(r, v, locks', results', request')
    BY <1>1, <2>2, <2>3, <2>4, <2>5 DEF Fits, Keyed, WithKey, Over
  <2>7. v.guarded => Lasting(r)
    BY <1>1, <2>2 DEF Lasting, Finished, Over
  <2> QED
    BY <1>1, <2>1, <2>2, <2>6, <2>7, OneRequestStep
<1> QED
  BY <1>2, <1>3 DEF Run

LEMMA StoreResultStep ==
  ASSUME RequestsIInv, NEW r \in Senders, StoreResult(r)
  PROVE  RequestsIInv'
<1>1. /\ Came(r) /\ request[r].pc = "store" /\ locks' = locks /\ StoresOK
      /\ request[r] \in Asked /\ Fits(r, request[r], locks, results, request)
      /\ request \in [Senders -> {NoRequest} \cup Asked]
  BY CameFacts DEF StoreResult, Came, RequestsIInv, RequestsTypeOK
<1>2. StoresOK'
  BY <1>1, RedisFacts DEF StoreResult, StoresOK
<1>3. request[r].key = request[r].call.key /\ request[r].key # Unkeyed /\ ~ request[r].stored
  BY <1>1 DEF Fits, Keyed, WithKey, Over
<1>4. CASE Goes(r, "answered") /\ UNCHANGED results
  BY <1>1, <1>2, <1>3, <1>4, GoesStep DEF Keyed, WithKey, Over
<1>5. CASE /\ results' = Put(results, Key(r), [hash |-> request[r].call.hash, by |-> r])
           /\ request' = [request EXCEPT ![r].pc = "unlock", ![r].stored = TRUE]
  <2> DEFINE v == [request[r] EXCEPT !.pc = "unlock", !.stored = TRUE]
             k == request[r].call.key
             h == request[r].call.hash
  <2>1. results' = Put(results, k, [hash |-> h, by |-> r])
    BY <1>3, <1>5 DEF Key
  <2>2. request' = [request EXCEPT ![r] = v]
    BY <1>1, <1>5 DEF Asked
  <2>3. /\ v \in Asked /\ v.pc = "unlock" /\ v.call = request[r].call /\ v.key = request[r].key
        /\ v.guarded = request[r].guarded /\ v.stored /\ v.replay = request[r].replay
    BY <1>1 DEF Asked, Keyed
  <2> HIDE DEF v
  <2>4. \A o \in v.replay : o # r => SameAs(request'[o], v.call)
    <3>1. v.replay \subseteq Senders
      BY <2>3 DEF Asked
    <3> QED
      BY <1>1, <2>2, <2>3, <3>1 DEF Fits
  <2>5. k = v.call.key /\ h = v.call.hash
    BY <2>3
  <2> HIDE DEF k, h
  <2>6. k \in DOMAIN results'
    BY <2>1 DEF Put
  <2>7. Fits(r, v, locks', results', request')
    BY <1>1, <1>3, <2>3, <2>4, <2>5, <2>6 DEF Fits
  <2>8. v.guarded => Lasting(r)
    BY <1>1, <2>3 DEF Lasting, Finished, Over
  <2> QED
    BY <1>1, <1>2, <2>1, <2>2, <2>3, <2>5, <2>7, <2>8, OneRequestStep
<1> QED
  BY <1>4, <1>5 DEF StoreResult

LEMMA CrashStep ==
  ASSUME RequestsIInv, Crash
  PROVE  RequestsIInv'
<1>1. /\ RequestsTypeOK /\ \A q \in Senders : RequestOK(q)
      /\ \A x \in DOMAIN results : ResultOK(x)
      /\ OneLasts
  BY DEF RequestsIInv
<1>2. /\ request' = [r \in Senders |-> IF request[r].pc = "idle" \/ Finished(r) THEN request[r]
                                       ELSE [request[r] EXCEPT !.pc = "crashed"]]
      /\ results' = results /\ locks' = locks /\ crashes' = crashes + 1 /\ circuit' = Closed
      /\ subscribed' = TRUE /\ hits' = hits /\ faults' = faults
  BY DEF Crash
<1>3. ASSUME NEW q \in Senders
      PROVE  /\ request'[q] \in {NoRequest} \cup Asked
             /\ ~ Came(q) => request'[q] = request[q]
             /\ Came(q) =>
                  /\ (request'[q].pc = request[q].pc /\ Finished(q)) \/ request'[q].pc = "crashed"
                  /\ request'[q].call = request[q].call /\ request'[q].key = request[q].key
                  /\ request'[q].guarded = request[q].guarded /\ request'[q].stored = request[q].stored
                  /\ request'[q].replay = request[q].replay
  <2>1. CASE ~ Came(q) \/ Finished(q)
    <3>1. request'[q] = request[q]
      BY <1>2, <2>1 DEF Came
    <3> QED
      BY <1>1, <2>1, <3>1 DEF RequestsTypeOK
  <2>2. CASE Came(q) /\ ~ Finished(q)
    <3>1. request'[q] = [request[q] EXCEPT !.pc = "crashed"] /\ request[q] \in Asked
      BY <1>2, <2>2, CameFacts DEF Came
    <3> QED
      BY <2>2, <3>1 DEF Asked, Over
  <2> QED
    BY <2>1, <2>2
<1>4. RequestsTypeOK'
  <2>1. StoresOK'
    BY <1>1, <1>2, CircuitFacts DEF RequestsTypeOK, StoresOK
  <2>2. request' \in [Senders -> {NoRequest} \cup Asked]
    <3>1. DOMAIN request' = Senders /\ request' = [r \in Senders |-> request'[r]]
      BY <1>2
    <3> HIDE <1>2
    <3> QED
      BY <1>3, <3>1
  <2> QED
    BY <1>1, <1>2, <2>1, <2>2 DEF RequestsTypeOK
<1>5. \A q \in Senders : (Came(q) <=> request'[q].pc # "idle") /\ (Came(q) => request'[q].pc \in Over)
  BY <1>3 DEF Came, Finished, Over
<1>6. ASSUME NEW q \in Senders
      PROVE  RequestOK(q)'
  <2>1. ASSUME Came(q)
        PROVE  Fits(q, request'[q], locks', results', request')
    <3>1. Fits(q, request[q], locks, results, request) /\ request[q].replay \subseteq Senders
      BY <2>1, CameFacts DEF Asked
    <3>2. \A o \in request[q].replay : o # q => SameAs(request'[o], request[q].call)
      BY <1>3, <1>5, <3>1 DEF Fits, SameAs, Came
    <3> QED
      BY <1>2, <1>3, <1>5, <2>1, <3>1, <3>2 DEF Fits, Keyed, WithKey, Over
  <2> QED
    BY <1>5, <2>1 DEF RequestOK, Came
<1>7. ASSUME NEW x \in DOMAIN results'
      PROVE  ResultOK(x)'
  <2>1. ResultOK(x) /\ results[x].by \in Senders /\ results' = results
    BY <1>1, <1>2, <1>7 DEF RequestsTypeOK
  <2> QED
    BY <1>3, <1>5, <2>1 DEF ResultOK, Came
<1>8. OneLasts'
  <2>1. \A q \in Senders : Lasting(q)' => Lasting(q) /\ request'[q].call = request[q].call
    BY <1>3, <1>5 DEF Lasting, Came, Finished
  <2> QED
    BY <1>1, <2>1 DEF OneLasts
<1> QED
  BY <1>4, <1>6, <1>7, <1>8 DEF RequestsIInv

-----------------------------------------------------------------------------
LEMMA RequestsIInvInit == RequestsInit => RequestsIInv
<1> SUFFICES ASSUME RequestsInit
             PROVE  RequestsIInv
  OBVIOUS
<1>1. /\ circuit = Closed /\ subscribed = TRUE /\ faults = 0 /\ crashes = 0
      /\ DOMAIN hits = {} /\ DOMAIN locks = {} /\ DOMAIN results = {}
      /\ hits = <<>> /\ locks = <<>> /\ results = <<>>
      /\ request = [r \in Senders |-> NoRequest]
  BY DEF RequestsInit
<1>2. StoresOK
  BY <1>1 DEF StoresOK, Circuits, Closed
<1>3. \A r \in Senders : ~ Came(r)
  BY <1>1 DEF Came, NoRequest
<1> QED
  BY <1>1, <1>2, <1>3 DEF RequestsIInv, RequestsTypeOK, RequestOK, OneLasts, Lasting

LEMMA RequestsIInvStep == RequestsIInv /\ [RequestsNext]_requestVars => RequestsIInv'
<1> SUFFICES ASSUME RequestsIInv, [RequestsNext]_requestVars
             PROVE  RequestsIInv'
  OBVIOUS
<1>1. StoresOK
  BY DEF RequestsIInv, RequestsTypeOK
<1>2. ASSUME NEW r \in Senders, NEW call \in Calls, Enter(r, call)
      PROVE  RequestsIInv'
  BY <1>2, EnterStep
<1>3. ASSUME NEW r \in Senders, PassLimit(r) \/ CountHit(r)
      PROVE  RequestsIInv'
  BY <1>3, PassLimitStep, CountHitStep
<1>4. ASSUME NEW r \in Senders, Begin(r) \/ FirstLookup(r) \/ Lock(r) \/ SecondLookup(r)
      PROVE  RequestsIInv'
  BY <1>4, BeginStep, FirstLookupStep, LockStep, SecondLookupStep
<1>5. ASSUME NEW r \in Senders, DropLock(r) \/ ReleaseLock(r)
      PROVE  RequestsIInv'
  BY <1>5, UnlockStep DEF DropLock, ReleaseLock
<1>6. ASSUME NEW r \in Senders, Validate(r) \/ AskToWait(r) \/ Wait(r)
      PROVE  RequestsIInv'
  BY <1>6, ValidateStep, AskToWaitStep, WaitStep
<1>7. ASSUME NEW r \in Senders, Run(r) \/ StoreResult(r)
      PROVE  RequestsIInv'
  BY <1>7, RunStep, StoreResultStep
<1>8. ASSUME NEW at \in DOMAIN hits, NextWindow(at)
      PROVE  RequestsIInv'
  <2>1. hits' \in [DOMAIN hits' -> Nat]
    BY <1>1, <1>8, ClearedFacts DEF NextWindow, StoresOK
  <2>2. StoresOK'
    BY <1>1, <1>8, <2>1 DEF NextWindow, StoresOK
  <2> QED
    BY <1>8, <2>2, RestStep DEF NextWindow
<1>9. ASSUME NEW k \in DOMAIN locks, LapseLock(k)
      PROVE  RequestsIInv'
  <2>1. StoresOK'
    BY <1>1, <1>9 DEF LapseLock, StoresOK
  <2> QED
    BY <1>9, <2>1, RestStep DEF LapseLock
<1>10. CASE CoolDown
  <2>1. circuit' \in Circuits
    BY <1>1, <1>10 DEF CoolDown, StoresOK, Circuits
  <2>2. StoresOK'
    BY <1>1, <1>10, <2>1 DEF CoolDown, StoresOK
  <2> QED
    BY <1>10, <2>2, RestStep DEF CoolDown
<1>11. CASE Subscription
  <2>1. StoresOK'
    BY <1>1, <1>11, RedisFacts DEF Subscription, StoresOK
  <2> QED
    BY <1>11, <2>1, RestStep DEF Subscription
<1>12. CASE Crash
  BY <1>12, CrashStep
<1>13. CASE UNCHANGED requestVars
  <2>1. StoresOK'
    BY <1>1, <1>13 DEF requestVars, StoresOK
  <2> QED
    BY <1>13, <2>1, RestStep DEF requestVars
<1> QED
  BY <1>2, <1>3, <1>4, <1>5, <1>6, <1>7, <1>8, <1>9, <1>10, <1>11, <1>12, <1>13 DEF RequestsNext

LEMMA RequestsIInvProperty == RequestsIInv => RunsOnce
<1> SUFFICES ASSUME RequestsIInv
             PROVE  RunsOnce
  OBVIOUS
<1>1. ASSUME NEW k
      PROVE  Cardinality(Guarded(k) \ Lost(k)) <= 1
  <2> DEFINE left == Guarded(k) \ Lost(k)
  <2>1. \A r \in left : r \in Senders /\ Lasting(r) /\ request[r].call.key = k
    BY DEF Guarded, Lost, Lasting, Came
  <2>2. \A r, q \in left : r = q
    BY <2>1 DEF RequestsIInv, OneLasts
  <2> HIDE DEF left
  <2>3. CASE left = {}
    BY <2>3, FS_EmptySet DEF left
  <2>4. CASE left # {}
    <3>1. PICK r \in left : TRUE
      BY <2>4
    <3>2. left = {r}
      BY <2>2, <3>1
    <3>3. Cardinality(left) = 1
      BY <3>2, FS_Singleton
    <3> QED
      BY <3>3 DEF left
  <2> QED
    BY <2>3, <2>4
<1>2. ASSUME NEW r \in Senders, request[r].pc = "answered", NEW o \in request[r].replay, o # r
      PROVE  request[o].call.key = request[r].call.key /\ request[o].call.hash = request[r].call.hash
  <2>1. Came(r)
    BY <1>2 DEF Came
  <2>2. Fits(r, request[r], locks, results, request)
    BY <2>1, CameFacts
  <2> QED
    BY <1>2, <2>2 DEF Fits, SameAs
<1> QED
  BY <1>1, <1>2 DEF RunsOnce

-----------------------------------------------------------------------------
(* The theorems about the requests.                                          *)

\* What is stored of a key in Redis was made by a request with it, and a request
\* is as far as its record says.
THEOREM RequestsTypes == RequestsSpec => []RequestsTypeOK
<1>1. RequestsIInv => RequestsTypeOK
  BY DEF RequestsIInv
<1> QED
  BY <1>1, RequestsIInvInit, RequestsIInvStep, PTL DEF RequestsSpec

\* For any requests, keys and limits, and whatever calls to Redis fail, locks
\* lapse and processes stop: of the requests of a key that ran with its lock
\* one is left that still runs or has left its answer, and who is given the
\* answer of another has asked for the same.
THEOREM RequestsRunOnce == RequestsSpec => []RunsOnce
  BY RequestsIInvInit, RequestsIInvStep, RequestsIInvProperty, PTL DEF RequestsSpec

-----------------------------------------------------------------------------
(* The cached reads. An entry under a key is the answer to everyone whose    *)
(* key it is; a result of a workflow is kept under the revision it was read  *)
(* under, which every later write raises.                                    *)

LEMMA ProjectedTwice ==
  ASSUME NEW fields, NEW role, NEW record
  PROVE  Projected(fields, role, Projected(fields, role, record)) = Projected(fields, role, record)
<1> DEFINE V == VisibleFields(fields, role)
           p == [f \in DOMAIN record \cap V |-> record[f]]
<1>1. [f \in DOMAIN p \cap V |-> p[f]] = p
  OBVIOUS
<1> QED
  BY <1>1 DEF Projected

\* The two readings of a rule agree on a record of its field's types.
LEMMA SameRule ==
  ASSUME NEW types, NEW rule, NEW who, NEW record, InTypes(types, record),
         OnField(rule) => FieldOf(rule) \in DOMAIN types
  PROVE  (\E pred \in Predicates(types, rule, who) : Selects(pred, record)) <=>
           \/ RuleAllows(types, rule, who, record)
           \/ /\ OnField(rule) /\ FieldOf(rule) \notin DOMAIN record
              /\ rule.op \in {"ne", "nin"} /\ Available(who, rule.value)
              /\ NormalizeRule(types[FieldOf(rule)], rule.op, Resolve(who, rule.value)) # {}
<1> DEFINE f == FieldOf(rule)
           N == NormalizeRule(types[f], rule.op, Resolve(who, rule.value))
           P(v) == [field |-> f, op |-> rule.op, value |-> v]
<1>1. CASE ~ OnField(rule) \/ ~ Available(who, rule.value)
  BY <1>1 DEF Predicates, RuleAllows
<1>2. CASE OnField(rule) /\ Available(who, rule.value)
  <2>1. Predicates(types, rule, who) = {P(v) : v \in N}
    BY <1>2 DEF Predicates
  <2>2. (\E pred \in Predicates(types, rule, who) : Selects(pred, record)) <=>
          \E v \in N : Selects(P(v), record)
    BY <2>1
  <2>3. CASE f \in DOMAIN record
    <3>1. Normalize(types[f], record[f]) = {record[f]}
      BY <1>2, <2>3 DEF InTypes, Normalize
    <3>2. RuleAllows(types, rule, who, record) <=> \E v \in N : ValuesMatch(rule.op, record[f], v)
      BY <1>2, <2>3, <3>1 DEF RuleAllows
    <3>3. \A v : Selects(P(v), record) <=> ValuesMatch(rule.op, record[f], v)
      BY <2>3 DEF Selects
    <3> QED
      BY <2>2, <2>3, <3>2, <3>3
  <2>4. CASE f \notin DOMAIN record
    <3>1. \A v : Selects(P(v), record) <=> rule.op \in {"ne", "nin"}
      BY <2>4 DEF Selects
    <3>2. ~ RuleAllows(types, rule, who, record)
      BY <2>4 DEF RuleAllows
    <3>3. (\E v \in N : Selects(P(v), record)) <=> N # {} /\ rule.op \in {"ne", "nin"}
      BY <3>1
    <3> QED
      BY <1>2, <2>2, <2>4, <3>2, <3>3
  <2> QED
    BY <2>3, <2>4
<1> QED
  BY <1>1, <1>2

LEMMA SameFilter ==
  ASSUME NEW c \in Saveable, NEW ask, NEW record, InTypes(Types(c), record)
  PROVE  ReadFilter(c, ask, record) <=> MaySee(c, ask, record)
<1>1. CASE ~ HasPolicy(c, ask)
  BY <1>1 DEF ReadFilter, MaySee
<1>2. CASE HasPolicy(c, ask)
  <2> DEFINE policy == c.access[ask.route]
             types == Types(c)
             Blind(rule) == /\ OnField(rule) /\ FieldOf(rule) \notin DOMAIN record
                            /\ rule.op \in {"ne", "nin"} /\ Available(ask.who, rule.value)
                            /\ NormalizeRule(types[FieldOf(rule)], rule.op, Resolve(ask.who, rule.value)) # {}
             Picks(rule) == \E pred \in Predicates(types, rule, ask.who) : Selects(pred, record)
  <2>1. \A rule \in policy.any : OnField(rule) => FieldOf(rule) \in DOMAIN types
    BY <1>2 DEF Saveable, ValidContainer, HasPolicy, ValidPolicy, ValidRule, Types
  <2>2. \A rule \in policy.any : Picks(rule) <=> RuleAllows(types, rule, ask.who, record) \/ Blind(rule)
    BY <2>1, SameRule
  <2>3. Filter(types, policy, ask.who, record) <=>
          \/ policy.any = {}
          \/ \E rule \in policy.any : ContextHolds(rule, ask.who)
          \/ \E rule \in policy.any : Picks(rule)
    BY DEF Filter
  <2>4. Allows(types, policy, ask.who, record) <=>
          \/ policy.any = {}
          \/ \E rule \in policy.any : ContextHolds(rule, ask.who) \/ RuleAllows(types, rule, ask.who, record)
    BY DEF Allows
  <2>5. MaySee(c, ask, record) <=>
          /\ InRows(c.rows, ask.who, HasPolicy(c, ask), record)
          /\ Allows(types, policy, ask.who, record) \/ \E rule \in policy.any : Blind(rule)
    BY <1>2 DEF MaySee
  <2>6. ReadFilter(c, ask, record) <=>
          InRows(c.rows, ask.who, HasPolicy(c, ask), record) /\ Filter(types, policy, ask.who, record)
    BY <1>2 DEF ReadFilter
  <2> HIDE DEF policy, types, Blind, Picks
  <2> QED
    BY <2>2, <2>3, <2>4, <2>5, <2>6
<1> QED
  BY <1>1, <1>2

Conforming(docs) == \A id \in DOMAIN docs : \A c \in Saveable : InTypes(Types(c), docs[id])

\* An answer from the database is what is due.
LEMMA AnswerDue ==
  ASSUME NEW c \in Saveable, NEW ask, NEW docs, Conforming(docs)
  PROVE  Answer(c, ask, docs) = Due(c, ask, docs)
<1> DEFINE Seen1 == {id \in Wanted(ask) \cap DOMAIN docs : ReadFilter(c, ask, docs[id])}
           Seen2 == {id \in Wanted(ask) \cap DOMAIN docs : MaySee(c, ask, docs[id])}
<1>1. \A id \in DOMAIN docs : ReadFilter(c, ask, docs[id]) <=> MaySee(c, ask, docs[id])
  BY SameFilter DEF Conforming
<1>2. Seen1 = Seen2
  BY <1>1
<1>3. CASE ask.route \in Raw
  BY <1>3 DEF Due
<1>4. CASE ask.route \notin Raw
  <2>1. Answer(c, ask, docs) = Show(c, ask, docs, Seen1)
    BY <1>4 DEF Answer, Raw
  <2>2. Due(c, ask, docs) = Show(c, ask, docs, Seen2)
    BY <1>4 DEF Due
  <2> QED
    BY <1>2, <2>1, <2>2
<1> QED
  BY <1>3, <1>4

KeyFor(c, ask, v) == IF ask.route = "workflow" THEN WorkflowKey(c, ask, v) ELSE ReadKey(c, ask, v)

\* A workflow result that is shared holds every record.
LEMMA WholeResult ==
  ASSUME NEW c, NEW ask, NEW docs, ask.route = "workflow", Cacheable(c, ask)
  PROVE  Answer(c, ask, docs) = {<<id, docs[id]>> : id \in DOMAIN docs}
<1>1. ask.who.userId = ""
  BY DEF Cacheable, WorkflowCacheable, Anonymous
<1>2. OwnedBy(ask.who, docs) = DOMAIN docs
  BY <1>1 DEF OwnedBy
<1> QED
  BY <1>2 DEF Answer

\* What one stored under a key is due to whoever comes with the same key, a
\* pipeline's under the stages of the one who stored.
LEMMA SharedAnswer ==
  ASSUME NEW c, NEW ask, NEW v, Cacheable(c, ask),
         NEW d, NEW other, NEW w, Cacheable(d, other),
         KeyFor(c, ask, v) = KeyFor(d, other, w), NEW docs
  PROVE  \E b \in {c, d} :
           /\ b = d \/ (ask.route = "pipeline" /\ other.route = "pipeline")
           /\ Refiltered(d, other, Answer(c, ask, docs)) = Due(b, other, docs)
<1>1. (ask.route = "workflow") <=> (other.route = "workflow")
  BY DEF KeyFor, WorkflowKey, ReadKey
<1>2. CASE ask.route = "workflow"
  <2>1. Answer(c, ask, docs) = Answer(d, other, docs)
    BY <1>1, <1>2, WholeResult
  <2>2. Refiltered(d, other, Answer(c, ask, docs)) = Due(d, other, docs)
    BY <1>1, <1>2, <2>1 DEF Refiltered, Due, Raw
  <2> QED
    BY <2>2
<1>3. CASE ask.route # "workflow"
  <2>1. ReadKey(c, ask, v) = ReadKey(d, other, w)
    BY <1>1, <1>3 DEF KeyFor
  <2>2. /\ ask.route = other.route /\ <<ask.ids, ask.void>> = <<other.ids, other.void>>
        /\ (IF ask.route = "pipeline" THEN <<>> ELSE <<ask.who.role, c.fields>>)
             = (IF other.route = "pipeline" THEN <<>> ELSE <<other.who.role, d.fields>>)
    BY <2>1 DEF ReadKey
  <2>3. CASE ask.route = "pipeline"
    <3>1. Refiltered(d, other, Answer(c, ask, docs)) = Due(c, other, docs)
      BY <2>2, <2>3 DEF Answer, Refiltered, Due, Raw
    <3> QED
      BY <2>2, <2>3, <3>1
  <2>4. CASE ask.route # "pipeline"
    <3>1. <<ask.who.role, c.fields>> = <<other.who.role, d.fields>>
      BY <2>2, <2>4
    <3>2. /\ ask.who.role = other.who.role /\ c.fields = d.fields
          /\ ask.ids = other.ids /\ ask.void = other.void
      BY <2>2, <3>1
    <3>3. ask.route \notin Raw /\ other.route \notin Raw
      BY <1>1, <1>3, <2>2, <2>4 DEF Raw
    <3>4. ~ IsolatedRead(c, ask) /\ ~ IsolatedRead(d, other)
      BY <1>1, <1>3, <2>2, <2>4 DEF Cacheable
    <3>5. /\ \A record : ReadFilter(c, ask, record)
          /\ \A record : MaySee(d, other, record)
      BY <3>4 DEF IsolatedRead, ReadFilter, MaySee, InRows, RulesFor
    <3>6. Wanted(ask) = Wanted(other)
      BY <2>2, <3>2 DEF Wanted
    <3> DEFINE ids == Wanted(other) \cap DOMAIN docs
               row(id) == Projected(d.fields, other.who.role, docs[id])
               shown == {<<id, row(id)>> : id \in ids}
    <3>7. Answer(c, ask, docs) = shown
      <4>1. {id \in Wanted(ask) \cap DOMAIN docs : ReadFilter(c, ask, docs[id])} = ids
        BY <3>5, <3>6
      <4>2. Answer(c, ask, docs) = Show(c, ask, docs, ids)
        BY <3>3, <4>1 DEF Answer, Raw
      <4> QED
        BY <3>2, <4>2 DEF Show
    <3>8. Due(d, other, docs) = shown
      <4>1. {id \in Wanted(other) \cap DOMAIN docs : MaySee(d, other, docs[id])} = ids
        BY <3>5
      <4>2. Due(d, other, docs) = Show(d, other, docs, ids)
        BY <3>3, <4>1 DEF Due
      <4> QED
        BY <4>2 DEF Show
    <3>9. \A id : Projected(d.fields, other.who.role, row(id)) = row(id)
      BY ProjectedTwice
    <3>10. Refiltered(d, other, shown) = shown
      <4>1. Refiltered(d, other, shown) = {<<x[1], Projected(d.fields, other.who.role, x[2])>> : x \in shown}
        BY <3>3 DEF Refiltered
      <4>2. \A x \in shown : <<x[1], Projected(d.fields, other.who.role, x[2])>> = x
        BY <3>9
      <4> HIDE DEF shown
      <4> QED
        BY <4>1, <4>2
    <3>11. Refiltered(d, other, Answer(c, ask, docs)) = Due(d, other, docs)
      BY <3>7, <3>8, <3>10
    <3> QED
      BY <3>11
  <2> QED
    BY <2>3, <2>4
<1> QED
  BY <1>2, <1>3
-----------------------------------------------------------------------------
(* The invariant of the reads.                                               *)

\* A request that has been loaded.
Loaded(q) == DOMAIN q = {"pc", "ask", "container", "key", "answer", "partial"}

\* The key is the request's own, and no newer than the revision.
OwnKey(q) ==
  /\ Cacheable(q.container, q.ask) /\ q.key = KeyFor(q.container, q.ask, q.key.version)
  /\ q.ask.route = "workflow" => q.key.version \in 1..revision

ReaderOK(q) ==
  /\ q.pc \in {"idle", "refused", "key", "lookup", "query", "store", "done"}
  /\ q.pc \notin {"idle", "refused"} =>
       Loaded(q) /\ q.container \in former /\ q.ask \in Asks
  /\ q.pc = "key" => Cacheable(q.container, q.ask) /\ q.key = NoKey
  /\ q.pc = "query" => q.key = NoKey \/ OwnKey(q)
  /\ q.pc \in {"lookup", "store"} => OwnKey(q)
  /\ q.pc = "store" => \E docs \in past : q.answer = Answer(q.container, q.ask, docs)
  /\ q.pc = "done" /\ ~ q.partial =>
       \E docs \in past, c \in Governing(q) : q.answer = Due(c, q.ask, docs)

\* Every commit of a write has raised the revision.
Settled == \A w \in Writers : job[w].pc \notin {"owes", "lost"}

\* What is to be stored under the current revision is current.
StoresCurrent(q) ==
  q.pc = "store" /\ q.ask.route = "workflow" /\ q.key.version = revision =>
    q.answer = {<<id, content[id]>> : id \in DOMAIN content}

EntryOK(k) ==
  /\ \E c \in former, ask \in Asks, docs \in past :
       /\ Cacheable(c, ask) /\ k = KeyFor(c, ask, k.version)
       /\ entries[k] = Answer(c, ask, docs)
  /\ k.kind = "workflow" => k.version \in 1..revision

ReadsTypeOK ==
  /\ former \subseteq Saveable /\ container \in former /\ version \in Nat /\ revision \in Nat
  /\ DOMAIN read = Readers /\ DOMAIN job = Writers

RecordsConform ==
  /\ content \in past /\ \A docs \in past : Conforming(docs)
  /\ \A w \in Writers : job[w].pc = "written" =>
       \A c \in Saveable : InTypes(Types(c), job[w].doc)

ReadsIInv ==
  /\ ReadsTypeOK /\ RecordsConform
  /\ \A r \in Readers : ReaderOK(read[r])
  /\ \A k \in DOMAIN entries : EntryOK(k)
  /\ Settled => \A r \in Readers : StoresCurrent(read[r])
  /\ WorkflowResultsFresh

\* An answer due under the container the request loaded.
LEMMA OwnGoverns == ASSUME NEW q PROVE q.container \in Governing(q)
BY DEF Governing

LEMMA ReadsIInvImplies == ReadsIInv => OwnView /\ WorkflowResultsFresh
BY DEF ReadsIInv, OwnView, ReaderOK

LEMMA ReadsInitOK == ReadsInit => ReadsIInv
<1> SUFFICES ASSUME ReadsInit PROVE ReadsIInv
  OBVIOUS
<1>1. ReadsTypeOK
  BY DEF ReadsInit, ReadsTypeOK
<1>2. \A r \in Readers : ReaderOK(read[r]) /\ StoresCurrent(read[r])
  BY DEF ReadsInit, ReaderOK, StoresCurrent, Idle
<1>3. RecordsConform
  <2>1. Conforming(Written)
    BY FieldsAssumption DEF Conforming
  <2> QED
    BY <2>1 DEF ReadsInit, RecordsConform, Idle
<1>4. DOMAIN entries = {}
  BY DEF ReadsInit
<1> QED
  BY <1>1, <1>2, <1>3, <1>4 DEF ReadsIInv, WorkflowResultsFresh

\* Later contents and revisions take nothing from a request or an entry.
Wider == past \subseteq past' /\ former \subseteq former' /\ revision \in Nat /\ revision' \in Nat /\ revision' >= revision

LEMMA ReaderStays ==
  ASSUME NEW q, ReaderOK(q), Wider
  PROVE  ReaderOK(q)'
<1>1. \A n \in 1..revision : n \in 1..revision'
  BY DEF Wider
<1>2. OwnKey(q) => OwnKey(q)'
  BY <1>1 DEF OwnKey, KeyFor, WorkflowKey, ReadKey
<1> QED
  BY <1>2 DEF ReaderOK, Wider, Loaded, Governing

LEMMA EntryStays ==
  ASSUME NEW k, EntryOK(k), Wider, k \in DOMAIN entries', entries'[k] = entries[k]
  PROVE  EntryOK(k)'
<1>1. \A n \in 1..revision : n \in 1..revision'
  BY DEF Wider
<1> QED
  BY <1>1 DEF EntryOK, Wider

\* Reader r's request becomes v.
Becomes(r, v) == DOMAIN read' = Readers /\ read'[r] = v /\ \A x \in Readers : x # r => read'[x] = read[x]

\* v is request q at pc with the key.
At(v, q, pc, key) ==
  Loaded(v) /\ v.pc = pc /\ v.ask = q.ask /\ v.container = q.container /\ v.key = key

\* What the forms of a step write.
LEMMA RowProceeds ==
  ASSUME ReadsTypeOK, NEW r \in Readers, NEW q, q = read[r], Loaded(q), NEW pc, Proceeds(r, pc)
  PROVE  \E v : Becomes(r, v) /\ At(v, q, pc, q.key)
<1>1. Becomes(r, read'[r]) /\ At(read'[r], q, pc, q.key)
  BY DEF Proceeds, Becomes, Loaded, At, ReadsTypeOK
<1> QED
  BY <1>1

LEMMA RowLooks ==
  ASSUME ReadsTypeOK, NEW r \in Readers, NEW q, q = read[r], Loaded(q), NEW key, Looks(r, key)
  PROVE  \E v : Becomes(r, v) /\ At(v, q, "lookup", key)
<1>1. Becomes(r, read'[r]) /\ At(read'[r], q, "lookup", key)
  BY DEF Looks, Becomes, Loaded, At, ReadsTypeOK
<1> QED
  BY <1>1

LEMMA RowEnds ==
  ASSUME ReadsTypeOK, NEW r \in Readers, NEW q, q = read[r], Loaded(q), NEW a,
         Ends(r, a, FALSE) \/ Ends(r, a, TRUE)
  PROVE  Becomes(r, read'[r]) /\ At(read'[r], q, "done", NoKey) /\ read'[r].answer = a
<1>1. CASE Ends(r, a, FALSE)
  BY <1>1 DEF Ends, Becomes, Loaded, At, ReadsTypeOK
<1>2. CASE Ends(r, a, TRUE)
  BY <1>2 DEF Ends, Becomes, Loaded, At, ReadsTypeOK
<1> QED
  BY <1>1, <1>2

\* A step of one reader.
LEMMA ReaderMoves ==
  ASSUME ReadsIInv, NEW r \in Readers, NEW v, Becomes(r, v), Wider, ReaderOK(v)'
  PROVE  \A x \in Readers : ReaderOK(read[x])'
<1> SUFFICES ASSUME NEW x \in Readers PROVE ReaderOK(read[x])'
  OBVIOUS
<1>1. CASE x = r
  BY <1>1 DEF Becomes
<1>2. CASE x # r
  <2>1. PICK q : q = read[x]
    OBVIOUS
  <2>2. ReaderOK(q)'
    BY <2>1, ReaderStays DEF ReadsIInv
  <2> QED
    BY <1>2, <2>1, <2>2 DEF Becomes
<1> QED
  BY <1>1, <1>2

\* A step of a reader that leaves the shared state alone, stores nothing and
\* does not come to store.
LEMMA QuietReader ==
  ASSUME ReadsIInv, NEW r \in Readers, NEW v, Becomes(r, v),
         UNCHANGED <<container, former, content, past, version, revision, entries, job>>,
         ReaderOK(v)',
         (Settled => StoresCurrent(v))
  PROVE  ReadsIInv'
<1>1. Wider
  BY DEF Wider, ReadsIInv, ReadsTypeOK
<1>2. DOMAIN read' = Readers /\ \A x \in Readers : ReaderOK(read[x])'
  BY <1>1, ReaderMoves DEF Becomes
<1>3. ReadsTypeOK' /\ RecordsConform'
  BY <1>2 DEF ReadsIInv, ReadsTypeOK, RecordsConform
<1>4. \A k \in DOMAIN entries' : EntryOK(k)'
  BY <1>1, EntryStays DEF ReadsIInv
<1>5. Settled' = Settled /\ WorkflowResultsFresh'
  BY DEF ReadsIInv, Settled, WorkflowResultsFresh
<1>6. ASSUME Settled, NEW x \in Readers PROVE StoresCurrent(read[x])'
  BY <1>6 DEF Becomes, ReadsIInv, StoresCurrent
<1> QED
  BY <1>2, <1>3, <1>4, <1>5, <1>6 DEF ReadsIInv

LEMMA LoadStep ==
  ASSUME ReadsIInv, NEW r \in Readers, NEW ask \in Asks, Load(r, ask)
  PROVE  ReadsIInv'
<1>1. container \in former /\ DOMAIN read = Readers
  BY DEF ReadsIInv, ReadsTypeOK
<1>2. PICK v : v = [pc |-> IF Cacheable(container, ask) THEN "key" ELSE "query", ask |-> ask,
                    container |-> container, key |-> NoKey, answer |-> {}, partial |-> FALSE]
  OBVIOUS
<1>3. Becomes(r, v)
  BY <1>1, <1>2 DEF Load, Becomes
<1>4. /\ v.pc = (IF Cacheable(container, ask) THEN "key" ELSE "query") /\ v.ask = ask
      /\ v.container = container /\ v.key = NoKey /\ v.partial = FALSE /\ Loaded(v)
  BY <1>2 DEF Loaded
<1>5. ReaderOK(v)' /\ StoresCurrent(v)
  BY <1>1, <1>4 DEF Load, ReaderOK, StoresCurrent
<1> QED
  BY <1>3, <1>5, QuietReader DEF Load

LEMMA TakeKeyStep ==
  ASSUME ReadsIInv, NEW r \in Readers, TakeKey(r)
  PROVE  ReadsIInv'
<1>1. PICK q : q = read[r]
  OBVIOUS
<1>2. q.pc = "key" /\ ReaderOK(q) /\ Loaded(q) /\ Cacheable(q.container, q.ask)
  BY <1>1 DEF TakeKey, ReadsIInv, ReaderOK
<1>3. PICK ask, c : ask = q.ask /\ c = q.container
  OBVIOUS
<1>4. c \in former /\ ask \in Asks /\ Cacheable(c, ask) /\ q.key = NoKey
  BY <1>2, <1>3 DEF ReaderOK
<1>5. ReadsTypeOK
  BY DEF ReadsIInv
<1>6. DOMAIN read = Readers /\ revision \in Nat /\ version \in Nat
  BY DEF ReadsIInv, ReadsTypeOK
<1>9. CASE ask.route = "workflow" /\ Looks(r, WorkflowKey(c, ask, Seen(revision)))
           /\ revision' = Seen(revision) /\ UNCHANGED version
  <2> DEFINE k == WorkflowKey(c, ask, Seen(revision))
  <2>1. k.version = revision' /\ revision' \in Nat /\ revision' >= 1 /\ revision' >= revision
        /\ (revision' = revision \/ (revision = 0 /\ revision' = 1))
    BY <1>6, <1>9 DEF WorkflowKey, Seen
  <2>2. PICK v : Becomes(r, v) /\ At(v, q, "lookup", k)
    BY <1>1, <1>2, <1>5, <1>9, RowLooks
  <2>4. k = KeyFor(c, ask, k.version)
    BY <1>9 DEF KeyFor, WorkflowKey
  <2>5. ReaderOK(v)'
    BY <1>3, <1>4, <1>9, <2>1, <2>2, <2>4 DEF TakeKey, At, ReaderOK, OwnKey
  <2>7. Wider
    BY <2>1, <1>6 DEF Wider, TakeKey
  <2>8. DOMAIN read' = Readers /\ \A x \in Readers : ReaderOK(read[x])'
    BY <2>2, <2>5, <2>7, ReaderMoves DEF Becomes
  <2>9. ReadsTypeOK' /\ RecordsConform'
    BY <2>1, <2>8, <1>9 DEF ReadsIInv, ReadsTypeOK, RecordsConform, TakeKey
  <2>10. UNCHANGED <<container, former, content, past, entries, job>>
    BY DEF TakeKey
  <2>11. \A x \in DOMAIN entries' : EntryOK(x)'
    BY <2>7, <2>10, EntryStays DEF ReadsIInv
  <2>12. Settled' = Settled
    BY <2>10 DEF Settled
  <2>13. WorkflowResultsFresh'
    <3>1. \A x \in DOMAIN entries : x.kind = "workflow" => x.version \in 1..revision
      BY DEF ReadsIInv, EntryOK
    <3>2. \A x \in DOMAIN entries : x.kind = "workflow" /\ x.version = revision' => revision' = revision
      BY <1>6, <2>1, <3>1
    <3> QED
      BY <2>10, <3>2 DEF ReadsIInv, WorkflowResultsFresh
  <2>14. ASSUME Settled, NEW x \in Readers PROVE StoresCurrent(read[x])'
    <3>1. x # r => read'[x] = read[x]
      BY <2>2 DEF Becomes
    <3>2. x = r => read'[x].pc = "lookup"
      BY <2>2 DEF Becomes, At
    <3>3. read[x].pc = "store" /\ read[x].ask.route = "workflow" => read[x].key.version \in 1..revision
      BY DEF ReadsIInv, ReaderOK, OwnKey
    <3>4. read[x].pc = "store" /\ read[x].ask.route = "workflow" /\ read[x].key.version = revision' => revision' = revision
      BY <1>6, <2>1, <3>3
    <3>5. StoresCurrent(read[x])
      BY <2>14 DEF ReadsIInv
    <3> QED
      BY <2>10, <3>1, <3>2, <3>4, <3>5 DEF StoresCurrent
  <2> HIDE DEF k
  <2> QED
    BY <2>8, <2>9, <2>11, <2>12, <2>13, <2>14 DEF ReadsIInv
<1>10. CASE ask.route # "workflow" /\ Looks(r, ReadKey(c, ask, Seen(version)))
            /\ version' = Seen(version) /\ UNCHANGED revision
  <2> DEFINE k == ReadKey(c, ask, Seen(version))
  <2>2. PICK v : Becomes(r, v) /\ At(v, q, "lookup", k)
    BY <1>1, <1>2, <1>5, <1>10, RowLooks
  <2>3. k = KeyFor(c, ask, k.version)
    BY <1>10 DEF KeyFor, ReadKey
  <2>4. ReaderOK(v)'
    BY <1>3, <1>4, <1>10, <2>2, <2>3 DEF TakeKey, At, ReaderOK, OwnKey
  <2>6. Wider
    BY <1>6, <1>10 DEF Wider, TakeKey
  <2>7. DOMAIN read' = Readers /\ \A x \in Readers : ReaderOK(read[x])'
    BY <2>2, <2>4, <2>6, ReaderMoves DEF Becomes
  <2>8. version' \in Nat
    BY <1>6, <1>10 DEF Seen
  <2>9. UNCHANGED <<container, former, content, past, entries, job, revision>>
    BY <1>10 DEF TakeKey
  <2>10. ReadsTypeOK' /\ RecordsConform'
    BY <2>7, <2>8, <2>9 DEF ReadsIInv, ReadsTypeOK, RecordsConform
  <2>11. \A x \in DOMAIN entries' : EntryOK(x)'
    BY <2>6, <2>9, EntryStays DEF ReadsIInv
  <2>12. Settled' = Settled /\ WorkflowResultsFresh'
    BY <2>9 DEF ReadsIInv, Settled, WorkflowResultsFresh
  <2>13. ASSUME Settled, NEW x \in Readers PROVE StoresCurrent(read[x])'
    BY <2>2, <2>9, <2>13 DEF At, Becomes, ReadsIInv, StoresCurrent
  <2> HIDE DEF k
  <2> QED
    BY <2>7, <2>10, <2>11, <2>12, <2>13 DEF ReadsIInv
<1>11. CASE ReadsFail /\ Proceeds(r, "query") /\ UNCHANGED <<version, revision>>
  <2>1. PICK v : Becomes(r, v) /\ At(v, q, "query", q.key)
    BY <1>1, <1>2, <1>5, <1>11, RowProceeds
  <2>2. ReaderOK(v)' /\ StoresCurrent(v)
    BY <1>3, <1>4, <2>1 DEF TakeKey, At, ReaderOK, StoresCurrent
  <2> QED
    BY <1>11, <2>1, <2>2, QuietReader DEF TakeKey
<1> QED
  BY <1>1, <1>3, <1>9, <1>10, <1>11 DEF TakeKey

LEMMA LookupStep ==
  ASSUME ReadsIInv, NEW r \in Readers, Lookup(r)
  PROVE  ReadsIInv'
<1>1. PICK q : q = read[r]
  OBVIOUS
<1>2. q.pc = "lookup" /\ ReaderOK(q) /\ Loaded(q) /\ OwnKey(q)
  BY <1>1 DEF Lookup, ReadsIInv, ReaderOK
<1>3. PICK ask, c, key : ask = q.ask /\ c = q.container /\ key = q.key
  OBVIOUS
<1>4. ReadsTypeOK
  BY DEF ReadsIInv
<1>5. c \in former /\ ask \in Asks /\ Cacheable(c, ask) /\ key = KeyFor(c, ask, key.version)
  BY <1>2, <1>3 DEF ReaderOK, OwnKey
<1>7. UNCHANGED <<container, former, content, past, version, revision, entries, job>>
  BY DEF Lookup
<1>8. CASE Proceeds(r, "query")
  <2>1. PICK v : Becomes(r, v) /\ At(v, q, "query", q.key)
    BY <1>1, <1>2, <1>4, <1>8, RowProceeds
  <2>2. OwnKey(v)'
    BY <1>2, <1>3, <1>7, <2>1 DEF OwnKey, At
  <2>3. ReaderOK(v)' /\ StoresCurrent(v)
    BY <1>3, <1>5, <1>7, <2>1, <2>2 DEF At, ReaderOK, StoresCurrent
  <2> QED
    BY <1>7, <2>1, <2>3, QuietReader
<1>9. CASE Hit(r)
  <2> DEFINE shown == Refiltered(c, ask, entries[key])
  <2>1. key \in DOMAIN entries /\ Ends(r, shown, FALSE)
    BY <1>1, <1>3, <1>9 DEF Hit
  <2>2. PICK d \in former, other \in Asks, docs \in past :
          /\ Cacheable(d, other) /\ key = KeyFor(d, other, key.version)
          /\ entries[key] = Answer(d, other, docs)
    BY <2>1 DEF ReadsIInv, EntryOK
  <2>3. PICK b : b \in Governing(q) /\ shown = Due(b, ask, docs)
    <3>1. PICK b \in {d, c} :
            /\ b = c \/ (other.route = "pipeline" /\ ask.route = "pipeline")
            /\ shown = Due(b, ask, docs)
      BY <1>5, <2>2, SharedAnswer
    <3>2. b # c => b \in {x \in former : x.cached} /\ c.cached /\ ask.route = "pipeline"
      BY <1>5, <2>2, <3>1 DEF Cacheable
    <3>3. b \in Governing(q)
      BY <1>3, <3>2 DEF Governing
    <3> QED
      BY <3>1, <3>3
  <2> HIDE DEF shown
  <2>4. PICK v : Becomes(r, v) /\ At(v, q, "done", NoKey) /\ v.answer = shown
    <3>1. Becomes(r, read'[r]) /\ At(read'[r], q, "done", NoKey) /\ read'[r].answer = shown
      BY <1>1, <1>2, <1>4, <2>1, RowEnds
    <3> QED
      BY <3>1
  <2>5. Governing(v)' = Governing(q)
    BY <1>7, <2>4 DEF At, Governing
  <2>6. ReaderOK(v)' /\ StoresCurrent(v)
    BY <1>3, <1>5, <1>7, <2>2, <2>3, <2>4, <2>5 DEF At, ReaderOK, StoresCurrent
  <2> QED
    BY <1>7, <2>4, <2>6, QuietReader
<1> QED
  BY <1>8, <1>9 DEF Lookup

LEMMA QueryStep ==
  ASSUME ReadsIInv, NEW r \in Readers, Query(r)
  PROVE  ReadsIInv'
<1>1. PICK q : q = read[r]
  OBVIOUS
<1>2. q.pc = "query" /\ ReaderOK(q) /\ Loaded(q) /\ (q.key = NoKey \/ OwnKey(q))
  BY <1>1 DEF Query, ReadsIInv, ReaderOK
<1>3. q.container \in former /\ q.ask \in Asks
  BY <1>2 DEF ReaderOK
<1>4. ReadsTypeOK /\ DOMAIN read = Readers
  BY DEF ReadsIInv, ReadsTypeOK
<1>5. UNCHANGED <<container, former, content, past, version, revision, entries, job>>
  BY DEF Query
<1>6. content \in past /\ Answer(q.container, q.ask, content) = Due(q.container, q.ask, content)
  <2>1. content \in past /\ Conforming(content) /\ q.container \in Saveable
    BY <1>3 DEF ReadsIInv, RecordsConform, ReadsTypeOK
  <2> QED
    BY <2>1, AnswerDue
<1>7. CASE read' = [read EXCEPT ![r] = [pc |-> "refused"]]
  <2>1. PICK v : v = [pc |-> "refused"]
    OBVIOUS
  <2>2. Becomes(r, v) /\ v.pc = "refused"
    BY <1>4, <1>7, <2>1 DEF Becomes
  <2>3. ReaderOK(v)' /\ StoresCurrent(v)
    BY <2>2 DEF ReaderOK, StoresCurrent
  <2> QED
    BY <1>5, <2>2, <2>3, QuietReader
<1>8. CASE AfterQuery(r, Answer(q.container, q.ask, content), FALSE)
  <2>1. PICK a : a = Answer(q.container, q.ask, content)
    OBVIOUS
  <2>2. CASE Ends(r, a, FALSE)
    <3>1. Becomes(r, read'[r]) /\ At(read'[r], q, "done", NoKey) /\ read'[r].answer = a
      BY <1>1, <1>2, <1>4, <2>2, RowEnds
    <3>2. PICK v : Becomes(r, v) /\ At(v, q, "done", NoKey) /\ v.answer = a
      BY <3>1
    <3>3. ReaderOK(v)' /\ StoresCurrent(v)
      <4>1. v.container \in Governing(v)'
        BY <1>5 DEF Governing
      <4> QED
        BY <1>3, <1>5, <1>6, <2>1, <3>2, <4>1 DEF At, ReaderOK, StoresCurrent
    <3> QED
      BY <1>5, <3>2, <3>3, QuietReader
  <2>3. CASE q.key # NoKey /\ read' = [read EXCEPT ![r].pc = "store", ![r].answer = a]
    <3>0. Becomes(r, read'[r]) /\ At(read'[r], q, "store", q.key) /\ read'[r].answer = a
      BY <1>1, <1>2, <1>4, <2>3 DEF Becomes, Loaded, At
    <3>1. PICK v : Becomes(r, v) /\ At(v, q, "store", q.key) /\ v.answer = a
      BY <3>0
    <3>2. OwnKey(v)' /\ OwnKey(q)
      BY <1>2, <1>5, <2>3, <3>1 DEF OwnKey, At
    <3>3. ReaderOK(v)'
      BY <1>3, <1>5, <1>6, <2>1, <3>1, <3>2 DEF At, ReaderOK
    <3>4. StoresCurrent(v)
      <4>1. q.ask.route = "workflow" => a = {<<id, content[id]>> : id \in DOMAIN content}
        BY <2>1, <3>2, WholeResult DEF OwnKey
      <4> QED
        BY <3>1, <4>1 DEF StoresCurrent, At
    <3> QED
      BY <1>5, <3>1, <3>3, <3>4, QuietReader
  <2> QED
    BY <1>1, <1>8, <2>1, <2>2, <2>3 DEF AfterQuery
<1>9. CASE AfterQuery(r, {}, TRUE)
  <2>1. Ends(r, {}, TRUE)
    BY <1>9 DEF AfterQuery
  <2>2. Becomes(r, read'[r]) /\ At(read'[r], q, "done", NoKey)
    BY <1>1, <1>2, <1>4, <2>1, RowEnds
  <2>3. read'[r].partial
    BY <1>1, <1>2, <1>4, <2>1 DEF Ends, Loaded
  <2>4. PICK v : v = read'[r]
    OBVIOUS
  <2>5. Becomes(r, v) /\ At(v, q, "done", NoKey) /\ v.partial
    BY <2>2, <2>3, <2>4
  <2>6. ReaderOK(v)' /\ StoresCurrent(v)
    BY <1>3, <1>5, <2>5 DEF At, ReaderOK, StoresCurrent
  <2> QED
    BY <1>5, <2>5, <2>6, QuietReader
<1> QED
  BY <1>1, <1>7, <1>8, <1>9 DEF Query

LEMMA StoreStep ==
  ASSUME ReadsIInv, NEW r \in Readers, Store(r)
  PROVE  ReadsIInv'
<1>1. PICK q : q = read[r]
  OBVIOUS
<1>2. q.pc = "store" /\ ReaderOK(q) /\ Loaded(q) /\ OwnKey(q)
  BY <1>1 DEF Store, ReadsIInv, ReaderOK
<1>3. q.container \in former /\ q.ask \in Asks
  BY <1>2 DEF ReaderOK
<1>4. ReadsTypeOK /\ DOMAIN read = Readers
  BY DEF ReadsIInv, ReadsTypeOK
<1>5. UNCHANGED <<container, former, content, past, version, revision, job>>
  BY DEF Store
<1>6. PICK docs \in past : q.answer = Answer(q.container, q.ask, docs)
  BY <1>2 DEF ReaderOK
<1>7. Answer(q.container, q.ask, docs) = Due(q.container, q.ask, docs)
  <2>1. Conforming(docs) /\ q.container \in Saveable
    BY <1>3, <1>6 DEF ReadsIInv, RecordsConform, ReadsTypeOK
  <2> QED
    BY <2>1, AnswerDue
<1>8. Ends(r, q.answer, FALSE)
  BY <1>1 DEF Store
<1>9. Becomes(r, read'[r]) /\ At(read'[r], q, "done", NoKey) /\ read'[r].answer = q.answer
  BY <1>1, <1>2, <1>4, <1>8, RowEnds
<1>10. PICK v : Becomes(r, v) /\ At(v, q, "done", NoKey) /\ v.answer = q.answer
  BY <1>9
<1>11. ReaderOK(v)'
  <2>1. v.container \in Governing(v)'
    BY DEF Governing
  <2> QED
    BY <1>3, <1>5, <1>6, <1>7, <1>10, <2>1 DEF At, ReaderOK
<1>12. Wider
  BY <1>5 DEF Wider, ReadsIInv, ReadsTypeOK
<1>13. DOMAIN read' = Readers /\ \A x \in Readers : ReaderOK(read[x])'
  BY <1>10, <1>11, <1>12, ReaderMoves DEF Becomes
<1>14. ReadsTypeOK' /\ RecordsConform'
  BY <1>5, <1>13 DEF ReadsIInv, ReadsTypeOK, RecordsConform
<1>15. Settled' = Settled
  BY <1>5 DEF Settled
<1>16. ASSUME Settled, NEW x \in Readers PROVE StoresCurrent(read[x])'
  BY <1>5, <1>10, <1>16 DEF At, Becomes, ReadsIInv, StoresCurrent
<1>17. CASE entries' = entries
  <2>1. \A k \in DOMAIN entries' : EntryOK(k)'
    BY <1>12, <1>17, EntryStays DEF ReadsIInv
  <2>2. WorkflowResultsFresh'
    BY <1>5, <1>17 DEF ReadsIInv, WorkflowResultsFresh
  <2> QED
    BY <1>13, <1>14, <1>15, <1>16, <2>1, <2>2 DEF ReadsIInv
<1>18. CASE entries' = Keeping(entries, q.key, q.answer)
  <2>1. /\ DOMAIN entries' = DOMAIN entries \cup {q.key}
        /\ entries'[q.key] = q.answer
        /\ \A k \in DOMAIN entries : k # q.key => entries'[k] = entries[k]
    BY <1>18 DEF Keeping
  <2>2. PICK key : key = q.key
    OBVIOUS
  <2>3. key.kind = "workflow" => q.ask.route = "workflow"
    BY <1>2, <2>2 DEF OwnKey, KeyFor, ReadKey
  <2>4. EntryOK(key)'
    BY <1>2, <1>3, <1>5, <1>6, <2>1, <2>2, <2>3 DEF EntryOK, OwnKey
  <2>5. \A k \in DOMAIN entries' : EntryOK(k)'
    <3> SUFFICES ASSUME NEW k \in DOMAIN entries' PROVE EntryOK(k)'
      OBVIOUS
    <3>1. CASE k = key
      BY <2>4, <3>1
    <3>2. CASE k # key
      <4>1. k \in DOMAIN entries /\ entries'[k] = entries[k] /\ EntryOK(k)
        BY <2>1, <2>2, <3>2 DEF ReadsIInv
      <4> QED
        BY <1>12, <4>1, EntryStays
    <3> QED
      BY <3>1, <3>2
  <2>6. WorkflowResultsFresh'
    <3> SUFFICES ASSUME Settled, NEW k \in DOMAIN entries', k.kind = "workflow", k.version = revision
                 PROVE  entries'[k] = {<<id, content[id]>> : id \in DOMAIN content}
      BY <1>5, <1>15 DEF WorkflowResultsFresh, Settled
    <3>1. CASE k = key
      <4>1. StoresCurrent(q)
        BY <1>1 DEF ReadsIInv
      <4> QED
        BY <1>2, <2>1, <2>2, <2>3, <3>1, <4>1 DEF StoresCurrent
    <3>2. CASE k # key
      BY <2>1, <2>2, <3>2 DEF ReadsIInv, WorkflowResultsFresh, Settled
    <3> QED
      BY <3>1, <3>2
  <2> QED
    BY <1>13, <1>14, <1>15, <1>16, <2>5, <2>6 DEF ReadsIInv
<1> QED
  BY <1>1, <1>17, <1>18 DEF Store

\* A step of a writer or of the one who saves leaves the requests alone.
LEMMA WriterMoves ==
  ASSUME ReadsIInv, UNCHANGED <<entries, read>>, Wider, ReadsTypeOK', RecordsConform',
         Settled' => /\ \A r \in Readers : StoresCurrent(read[r])'
                     /\ WorkflowResultsFresh'
  PROVE  ReadsIInv'
<1>1. ASSUME NEW r \in Readers PROVE ReaderOK(read[r])'
  <2>1. PICK q : q = read[r]
    OBVIOUS
  <2>2. ReaderOK(q)'
    BY <2>1, ReaderStays DEF ReadsIInv
  <2> QED
    BY <2>1, <2>2
<1>2. \A k \in DOMAIN entries' : EntryOK(k)'
  BY EntryStays DEF ReadsIInv
<1>3. WorkflowResultsFresh'
  BY DEF WorkflowResultsFresh, Settled
<1> QED
  BY <1>1, <1>2, <1>3 DEF ReadsIInv

LEMMA WritesStep ==
  ASSUME ReadsIInv, NEW w \in Writers, NEW id, NEW doc, Writes(w, id, doc),
         \A c \in Saveable : InTypes(Types(c), doc), job[w].pc = "idle",
         UNCHANGED <<container, former, content, past, revision, entries, read, saves>>
  PROVE  ReadsIInv'
<1>1. DOMAIN job = Writers /\ version \in Nat
  BY DEF ReadsIInv, ReadsTypeOK
<1>2. /\ DOMAIN job' = Writers /\ version' \in Nat
      /\ \A x \in Writers : x # w => job'[x] = job[x]
      /\ job'[w].pc \in {"written", "ended"} /\ (job'[w].pc = "written" => job'[w].doc = doc)
  <2>1. CASE Turned(w, [pc |-> "written", id |-> id, doc |-> doc])
    BY <1>1, <2>1 DEF Turned, Writes
  <2>2. CASE Turned(w, Ended)
    BY <1>1, <2>2 DEF Turned, Writes, Ended
  <2> QED
    BY <2>1, <2>2 DEF Writes
<1>3. Wider /\ ReadsTypeOK'
  BY <1>2 DEF Wider, ReadsIInv, ReadsTypeOK
<1>4. RecordsConform'
  BY <1>2 DEF ReadsIInv, RecordsConform
<1>5. Settled' => Settled
  BY <1>2 DEF Settled
<1>6. WorkflowResultsFresh' /\ (Settled' => \A r \in Readers : StoresCurrent(read[r])')
  BY <1>5 DEF ReadsIInv, WorkflowResultsFresh, Settled, StoresCurrent
<1> QED
  BY <1>3, <1>4, <1>6, WriterMoves

LEMMA EditStep ==
  ASSUME ReadsIInv, NEW w \in Writers, Edit(w)
  PROVE  ReadsIInv'
<1>1. PICK id \in DOMAIN content, d \in Edits : Writes(w, id, d)
  BY DEF Edit
<1>2. \A c \in Saveable : InTypes(Types(c), d)
  BY FieldsAssumption
<1> QED
  BY <1>1, <1>2, WritesStep DEF Edit

\* A create keeps to the types: what it assigns is in the form of the field.
LEMMA AssignedInTypes ==
  ASSUME NEW b \in Saveable, NEW c \in Saveable, NEW who, NEW d \in Edits,
         NEW m \in Assigned(Types(b), b.creates, who, d)
  PROVE  InTypes(Types(c), m)
<1> DEFINE assign == b.creates.assign
           value(f) == Resolve(who, assign[f])
           forms(f) == Normalize(Types(b)[f], value(f))
<1>1. /\ m = [f \in DOMAIN assign \cup DOMAIN d |->
                IF f \in DOMAIN assign THEN CHOOSE v \in forms(f) : TRUE ELSE d[f]]
      /\ \A f \in DOMAIN assign : forms(f) # {}
  BY DEF Assigned
<1>2. \A f \in DOMAIN assign : f \in DOMAIN b.fields
  BY DEF Saveable, ValidContainer, ValidPolicy, ValidAssignment
<1>3. DOMAIN Types(b) = DOMAIN b.fields /\ DOMAIN Types(c) = DOMAIN c.fields
      /\ (\A f \in DOMAIN b.fields : Types(b)[f] = b.fields[f].type)
      /\ (\A f \in DOMAIN c.fields : Types(c)[f] = c.fields[f].type)
  BY DEF Types
<1> SUFFICES ASSUME NEW f \in DOMAIN Types(c) \cap DOMAIN m, Types(c)[f] = "objectId"
             PROVE  m[f][1] = "oid"
  BY DEF InTypes
<1>4. CASE f \in DOMAIN assign
  <2>1. Types(b)[f] = "objectId"
    BY <1>2, <1>3, <1>4, FieldsAssumption
  <2>2. m[f] \in forms(f)
    BY <1>1, <1>4
  <2>3. \A v \in forms(f) : (v = value(f) /\ value(f)[1] = "oid") \/ v = ObjectId(value(f)[2])
    BY <2>1 DEF Normalize
  <2> QED
    BY <2>2, <2>3 DEF ObjectId
<1>5. CASE f \notin DOMAIN assign
  <2>1. f \in DOMAIN d /\ m[f] = d[f]
    BY <1>1, <1>5
  <2> QED
    BY <2>1, FieldsAssumption DEF InTypes
<1> QED
  BY <1>4, <1>5

LEMMA CreateStep ==
  ASSUME ReadsIInv, NEW w \in Writers, Create(w)
  PROVE  ReadsIInv'
<1>1. container \in Saveable /\ DOMAIN job = Writers
  BY DEF ReadsIInv, ReadsTypeOK
<1>2. PICK id \in Records \ DOMAIN content, d \in Edits :
        \E made \in {Assigned(Types(container), container.creates, Creator, d)} :
          IF \E m \in made : Allows(Types(container), container.creates, Creator, m)
          THEN \E m \in made : Writes(w, id, m)
          ELSE Turned(w, Ended) /\ UNCHANGED version
  BY DEF Create
<1>3. UNCHANGED <<container, former, content, past, revision, entries, read, saves>> /\ job[w].pc = "idle"
  BY DEF Create
<1>4. CASE \E m \in Assigned(Types(container), container.creates, Creator, d) : Writes(w, id, m)
  <2>1. PICK m \in Assigned(Types(container), container.creates, Creator, d) : Writes(w, id, m)
    BY <1>4
  <2>2. \A c \in Saveable : InTypes(Types(c), m)
    BY <1>1, AssignedInTypes
  <2> QED
    BY <1>3, <2>1, <2>2, WritesStep
<1>5. CASE Turned(w, Ended) /\ UNCHANGED version
  <2>1. /\ DOMAIN job' = Writers /\ job'[w].pc = "ended"
        /\ \A x \in Writers : x # w => job'[x] = job[x]
    BY <1>1, <1>5 DEF Turned, Ended
  <2>2. Wider /\ ReadsTypeOK' /\ RecordsConform'
    BY <1>3, <1>5, <2>1 DEF Wider, ReadsIInv, ReadsTypeOK, RecordsConform
  <2>3. Settled' => Settled
    BY <1>3, <2>1 DEF Settled
  <2>4. WorkflowResultsFresh' /\ (Settled' => \A r \in Readers : StoresCurrent(read[r])')
    BY <1>3, <2>3 DEF ReadsIInv, WorkflowResultsFresh, Settled, StoresCurrent
  <2> QED
    BY <1>3, <2>2, <2>4, WriterMoves
<1> QED
  BY <1>2, <1>4, <1>5

LEMMA CommitStep ==
  ASSUME ReadsIInv, NEW w \in Writers, Commit(w)
  PROVE  ReadsIInv'
<1>1. DOMAIN job = Writers /\ job[w].pc = "written"
  BY DEF ReadsIInv, ReadsTypeOK, Commit
<1>2. UNCHANGED <<container, former, version, revision, entries, read, saves>>
  BY DEF Commit
<1>3. CASE /\ content' = Keeping(content, job[w].id, job[w].doc)
           /\ past' = past \cup {content'}
           /\ \E how \in {"owes", "lost"} : Turned(w, [pc |-> how])
  <2>1. /\ DOMAIN job' = Writers /\ job'[w].pc \in {"owes", "lost"}
        /\ \A x \in Writers : x # w => job'[x] = job[x]
    BY <1>1, <1>3 DEF Turned
  <2>2. ~ Settled'
    BY <2>1 DEF Settled
  <2>3. Wider /\ ReadsTypeOK'
    BY <1>2, <1>3, <2>1 DEF Wider, ReadsIInv, ReadsTypeOK
  <2>4. PICK new : new = content'
    OBVIOUS
  <2>5. Conforming(new)
    <3> SUFFICES ASSUME NEW x \in DOMAIN new, NEW c \in Saveable PROVE InTypes(Types(c), new[x])
      BY DEF Conforming
    <3>1. DOMAIN new = DOMAIN content \cup {job[w].id} /\ new[x] = IF x = job[w].id THEN job[w].doc ELSE content[x]
      BY <1>3, <2>4 DEF Keeping
    <3>2. Conforming(content) /\ InTypes(Types(c), job[w].doc)
      BY <1>1 DEF ReadsIInv, RecordsConform
    <3> QED
      BY <3>1, <3>2 DEF Conforming
  <2>6. RecordsConform'
    <3>1. \A docs \in past' : Conforming(docs)
      BY <1>3, <2>4, <2>5 DEF ReadsIInv, RecordsConform
    <3> QED
      BY <1>3, <2>1, <3>1 DEF ReadsIInv, RecordsConform, Conforming
  <2> QED
    BY <1>2, <2>2, <2>3, <2>6, WriterMoves
<1>4. CASE Turned(w, Ended) /\ UNCHANGED <<content, past>>
  <2>1. /\ DOMAIN job' = Writers /\ job'[w].pc = "ended"
        /\ \A x \in Writers : x # w => job'[x] = job[x]
    BY <1>1, <1>4 DEF Turned, Ended
  <2>2. Wider /\ ReadsTypeOK' /\ RecordsConform'
    BY <1>2, <1>4, <2>1 DEF Wider, ReadsIInv, ReadsTypeOK, RecordsConform
  <2>3. Settled' => Settled
    BY <1>1, <2>1 DEF Settled
  <2>4. WorkflowResultsFresh' /\ (Settled' => \A r \in Readers : StoresCurrent(read[r])')
    BY <1>2, <1>4, <2>3 DEF ReadsIInv, WorkflowResultsFresh, Settled, StoresCurrent
  <2> QED
    BY <1>2, <2>2, <2>4, WriterMoves
<1> QED
  BY <1>3, <1>4 DEF Commit

\* A raised revision leaves every shared result and every key behind.
LEMMA RaisedStep ==
  ASSUME ReadsIInv, UNCHANGED <<entries, read>>, revision' = revision + 1,
         past' = past, former \subseteq former', ReadsTypeOK', RecordsConform'
  PROVE  ReadsIInv'
<1>1. revision \in Nat /\ Wider
  BY DEF ReadsIInv, ReadsTypeOK, Wider
<1>2. WorkflowResultsFresh'
  <2>1. \A k \in DOMAIN entries : k.kind = "workflow" => k.version \in 1..revision
    BY DEF ReadsIInv, EntryOK
  <2>2. \A k \in DOMAIN entries' : k.kind = "workflow" => k.version # revision'
    BY <1>1, <2>1
  <2> QED
    BY <2>2 DEF WorkflowResultsFresh
<1>3. ASSUME NEW r \in Readers PROVE StoresCurrent(read[r])'
  <2>1. read[r].pc = "store" /\ read[r].ask.route = "workflow" => read[r].key.version \in 1..revision
    BY DEF ReadsIInv, ReaderOK, OwnKey
  <2>2. read[r].pc = "store" /\ read[r].ask.route = "workflow" => read[r].key.version # revision'
    BY <1>1, <2>1
  <2> QED
    BY <2>2 DEF StoresCurrent
<1> QED
  BY <1>1, <1>2, <1>3, WriterMoves

LEMMA RaiseRevisionStep ==
  ASSUME ReadsIInv, NEW w \in Writers, RaiseRevision(w)
  PROVE  ReadsIInv'
<1>1. DOMAIN job = Writers /\ revision \in Nat /\ job[w].pc = "owes"
  BY DEF ReadsIInv, ReadsTypeOK, RaiseRevision
<1>2. UNCHANGED <<container, former, content, past, version, entries, read, saves>>
  BY DEF RaiseRevision
<1>3. /\ DOMAIN job' = Writers /\ job'[w].pc \in {"ended", "lost"} /\ revision' \in Nat
      /\ \A x \in Writers : x # w => job'[x] = job[x]
      /\ revision' = revision + 1 \/ (revision' = revision /\ job'[w].pc = "lost")
  BY <1>1 DEF RaiseRevision, Turned, Ended
<1>4. ReadsTypeOK' /\ RecordsConform'
  BY <1>2, <1>3 DEF ReadsIInv, ReadsTypeOK, RecordsConform
<1>5. CASE revision' = revision + 1
  BY <1>2, <1>4, <1>5, RaisedStep
<1>6. CASE revision' = revision /\ job'[w].pc = "lost"
  <2>1. ~ Settled'
    BY <1>6 DEF Settled
  <2>2. Wider
    BY <1>1, <1>2, <1>6 DEF Wider
  <2> QED
    BY <1>2, <1>4, <2>1, <2>2, WriterMoves
<1> QED
  BY <1>3, <1>5, <1>6

LEMMA SaveContainerStep ==
  ASSUME ReadsIInv, SaveContainer
  PROVE  ReadsIInv'
<1>1. /\ UNCHANGED <<content, past, version, entries, read, job>>
      /\ container' \in Saveable /\ former' = former \cup {container'}
      /\ revision' = revision + 1 \/ revision' = revision
  BY DEF SaveContainer
<1>2. revision \in Nat
  BY DEF ReadsIInv, ReadsTypeOK
<1>3. ReadsTypeOK' /\ RecordsConform'
  BY <1>1, <1>2 DEF ReadsIInv, ReadsTypeOK, RecordsConform
<1>4. CASE revision' = revision + 1
  BY <1>1, <1>3, <1>4, RaisedStep
<1>5. CASE revision' = revision
  <2>1. Wider
    BY <1>1, <1>2, <1>5 DEF Wider
  <2>2. WorkflowResultsFresh' /\ (Settled' => \A r \in Readers : StoresCurrent(read[r])')
    BY <1>1, <1>5 DEF ReadsIInv, WorkflowResultsFresh, Settled, StoresCurrent
  <2> QED
    BY <1>1, <1>3, <2>1, <2>2, WriterMoves
<1> QED
  BY <1>1, <1>4, <1>5

\* The invariant is kept by every step.
LEMMA ReadsStep == ReadsIInv /\ [ReadsNext]_readVars => ReadsIInv'
<1> SUFFICES ASSUME ReadsIInv, [ReadsNext]_readVars PROVE ReadsIInv'
  OBVIOUS
<1>1. ASSUME NEW r \in Readers, NEW ask \in Asks, Load(r, ask) PROVE ReadsIInv'
  BY <1>1, LoadStep
<1>2. ASSUME NEW r \in Readers, TakeKey(r) PROVE ReadsIInv'
  BY <1>2, TakeKeyStep
<1>3. ASSUME NEW r \in Readers, Lookup(r) PROVE ReadsIInv'
  BY <1>3, LookupStep
<1>4. ASSUME NEW r \in Readers, Query(r) PROVE ReadsIInv'
  BY <1>4, QueryStep
<1>5. ASSUME NEW r \in Readers, Store(r) PROVE ReadsIInv'
  BY <1>5, StoreStep
<1>6. ASSUME NEW w \in Writers, Edit(w) PROVE ReadsIInv'
  BY <1>6, EditStep
<1>7. ASSUME NEW w \in Writers, Create(w) PROVE ReadsIInv'
  BY <1>7, CreateStep
<1>8. ASSUME NEW w \in Writers, Commit(w) PROVE ReadsIInv'
  BY <1>8, CommitStep
<1>9. ASSUME NEW w \in Writers, RaiseRevision(w) PROVE ReadsIInv'
  BY <1>9, RaiseRevisionStep
<1>10. CASE SaveContainer
  BY <1>10, SaveContainerStep
<1>11. CASE UNCHANGED readVars
  <2>1. UNCHANGED <<container, former, content, past, version, revision, entries, read, job>>
    BY <1>11 DEF readVars
  <2>2. Wider /\ ReadsTypeOK' /\ RecordsConform'
    BY <2>1 DEF Wider, ReadsIInv, ReadsTypeOK, RecordsConform
  <2>3. WorkflowResultsFresh' /\ (Settled' => \A r \in Readers : StoresCurrent(read[r])')
    BY <2>1 DEF ReadsIInv, WorkflowResultsFresh, Settled, StoresCurrent
  <2> QED
    BY <2>1, <2>2, <2>3, WriterMoves
<1> QED
  BY <1>1, <1>2, <1>3, <1>4, <1>5, <1>6, <1>7, <1>8, <1>9, <1>10, <1>11 DEF ReadsNext

\* No reader is shown what is not for him, whatever was cached before and by
\* whom (record_access.go, generateRedisKey.go, dynamic_cache.go).
THEOREM ReadsAreOwn == ReadsSpec => []OwnView
<1>1. ReadsSpec => []ReadsIInv
  BY ReadsInitOK, ReadsStep, PTL DEF ReadsSpec
<1> QED
  BY <1>1, ReadsIInvImplies, PTL

\* Once every commit has raised the revision, a shared workflow result under it
\* is what the workflow would answer now (workflow_cache.go).
THEOREM ReadsStayFresh == ReadsSpec => []WorkflowResultsFresh
<1>1. ReadsSpec => []ReadsIInv
  BY ReadsInitOK, ReadsStep, PTL DEF ReadsSpec
<1> QED
  BY <1>1, ReadsIInvImplies, PTL

-----------------------------------------------------------------------------
(* The requests on their way to a handler. What the checks let through shows *)
(* on the request itself; what is still to be looked up has been neither     *)
(* gone when the request came nor when its document was read.                *)

\* A site that is not trusted, with nothing but the user's cookies.
Foreign(req) == ~ SafeMethod(req.method) /\ ~ req.trusted /\ req.header = NoToken

\* What a request shows for a caller, a manager and an integration.
ShowsCaller(req, who) ==
  \E t \in Shown(req) :
    /\ t.scope = "project" /\ t.use = "access"
    /\ t.user = who.user /\ t.role = who.role /\ OfProject(t, req)

ShowsManager(req, who) ==
  \E t \in Shown(req) :
    /\ t.scope \in {"tenant", "managed"} /\ t.use = "access" /\ t.user = who.user
    /\ t.scope = "managed" /\ req.kind # "tenant" => OfProject(t, req)

ShowsIntegration(req, who) ==
  \E i \in DOMAIN Integrations :
    /\ i = who.user /\ ~ Integrations[i].ended /\ OfProject(Integrations[i], req)
    /\ \E p \in Integrations[i].permissions :
         /\ p.schema = JudgedBy(req) /\ p.method = req.method
         /\ p.at = IF req.name # "" THEN Place(req) ELSE <<"route", req.route>>

\* What the route asks of whoever is let through.
RouteAllows(req, who) ==
  req.kind = "record" =>
    LET name == JudgedBy(req)
        s == SettingsIn(name, req)
    IN /\ Schemas[name].accounts /\ ~ IsRead(req) => who.kind = "management"
       /\ RequiresToken(s) => who.kind # "anonymous"
       /\ who.kind = "caller" /\ s.authorized => who.role \in s.roles

\* The middleware judges by the container the request works on, or by that of
\* the query if it names two.
LEMMA JudgesRight == ASSUME NEW req PROVE JudgedBy(req) = ConditionalSchemaName(req)
BY DEF JudgedBy, TwoNames, WorkedOn, ConditionalSchemaName

\* Let through without a lookup.
PassedOK(req, who) ==
  /\ \/ who.kind = "caller" /\ ShowsCaller(req, who)
     \/ who.kind = "integration" /\ ShowsIntegration(req, who)
     \/ who = Nobody
  /\ Foreign(req) => who = Nobody
  /\ RouteAllows(req, who)

\* Sent to the lookup.
SoughtOK(req, outcome) ==
  /\ outcome.who.kind = "management" /\ ShowsManager(req, outcome.who) /\ ~ Foreign(req)
  /\ outcome.project # "" => OfProjects(outcome.permission)

OutcomeOK(req, outcome) ==
  /\ outcome.to \in {"handler", "error", "lookup"}
  /\ outcome.to = "handler" => PassedOK(req, outcome.who)
  /\ outcome.to = "lookup" => SoughtOK(req, outcome)

Permitted(req, who, seen, gone) ==
  ActsRightly(req, who, seen, gone) /\ RouteAllows(req, who) /\ (Foreign(req) => who = Nobody)

Said == {Granted[d] : d \in DOMAIN Granted} \cup {{}}

GateOK(r) ==
  gate[r].pc # "idle" =>
    /\ DOMAIN gate[r] = {"pc", "req", "outcome", "seen", "gone"}
    /\ gate[r].pc \in {"lookup", "handler", "error"}
    /\ gate[r].seen \in Seq(Said)
    /\ \A d \in gate[r].gone : d \in DOMAIN facts /\ facts[d] = {}
    /\ gate[r].pc = "lookup" =>
         /\ SoughtOK(gate[r].req, gate[r].outcome)
         /\ Len(gate[r].seen) <= Count(gate[r].outcome)
         /\ \A i \in DOMAIN gate[r].seen : gate[r].seen[i] # {} => Documents[i] \notin gate[r].gone
    /\ gate[r].pc = "handler" =>
         Permitted(gate[r].req, gate[r].outcome.who, gate[r].seen, gate[r].gone)

GatesTypeOK ==
  /\ DOMAIN gate = Callers
  /\ DOMAIN facts = DOMAIN Granted /\ \A d \in DOMAIN Granted : facts[d] \in Said

AuthIInv == GatesTypeOK /\ \A r \in Callers : GateOK(r)

LEMMA CredentialShown ==
  ASSUME NEW req \in Demands, NEW c,
         c \in ResolveProject(req) \/ c \in ResolveManagement(req)
  PROVE  /\ c.token \in Shown(req) /\ c.by \in {"bearer", "cookie"}
         /\ req.header = NoToken => c.by = "cookie"
<1>1. PICK cookies \in {<<req.cookie>>, <<req.wide>>, <<req.panel, req.wide>>} : c \in ResolveCredential(req, cookies)
  BY DEF ResolveProject, ResolveManagement
<1>2. \A i \in DOMAIN cookies : cookies[i] \in {req.cookie, req.panel, req.wide}
  BY <1>1
<1>3. CASE req.header = NoToken
  <2>1. c \in FirstOf(cookies)
    BY <1>1, <1>3 DEF ResolveCredential
  <2>2. PICK i \in DOMAIN cookies : cookies[i] # NoToken /\ c = [token |-> cookies[i], by |-> "cookie"]
    BY <2>1 DEF FirstOf
  <2>3. c.token = cookies[i] /\ c.by = "cookie"
    BY <2>2
  <2> QED
    BY <1>2, <2>2, <2>3, DemandsAssumption DEF Shown
<1>4. CASE req.header # NoToken
  <2>1. c = [token |-> req.header, by |-> "bearer"] /\ c # [token |-> Malformed, by |-> "bearer"]
    BY <1>1, <1>4 DEF ResolveCredential
  <2> QED
    BY <1>4, <2>1 DEF Shown
<1> QED
  BY <1>3, <1>4

\* What authentication lets through.
LEMMA AuthenticateOK ==
  ASSUME NEW req \in Demands, NEW s
  PROVE  \/ Authenticate(req, s).to = "error"
         \/ /\ Authenticate(req, s).to = "handler" /\ Authenticate(req, s).who.kind = "caller"
            /\ ShowsCaller(req, Authenticate(req, s).who) /\ ~ Foreign(req)
            /\ s.authorized => Authenticate(req, s).who.role \in s.roles
<1>1. CASE ResolveProject(req) = {}
  BY <1>1 DEF Authenticate, Stop
<1>2. CASE ResolveProject(req) # {}
  <2>1. PICK c : c = CHOOSE x \in ResolveProject(req) : TRUE
    OBVIOUS
  <2>2. c \in ResolveProject(req)
    BY <1>2, <2>1
  <2>3. c.token \in Shown(req) /\ (req.header = NoToken => c.by = "cookie")
    BY <2>2, CredentialShown
  <2>4. CASE Untrusted(req, c)
    BY <1>2, <2>1, <2>4 DEF Authenticate, Stop
  <2>5. CASE ~ Untrusted(req, c) /\ ~ ProjectToken(c.token)
    BY <1>2, <2>1, <2>5 DEF Authenticate, Stop
  <2>6. CASE ~ Untrusted(req, c) /\ ProjectToken(c.token)
    <3>1. Authenticate(req, s) = IF OfProject(c.token, req) /\ s.active /\ (s.authorized => c.token.role \in s.roles)
                                 THEN Pass(Caller("caller", c.token)) ELSE Stop(403)
      BY <1>2, <2>1, <2>6 DEF Authenticate
    <3>2. ~ Foreign(req)
      BY <2>3, <2>6 DEF Foreign, Untrusted
    <3>3. CASE OfProject(c.token, req) /\ (s.authorized => c.token.role \in s.roles)
               /\ Authenticate(req, s) = Pass(Caller("caller", c.token))
      <4>1. PICK who : who = Caller("caller", c.token)
        OBVIOUS
      <4>2. Authenticate(req, s).to = "handler" /\ Authenticate(req, s).who = who
        BY <3>3, <4>1 DEF Pass
      <4>3. who.kind = "caller" /\ who.user = c.token.user /\ who.role = c.token.role
        BY <4>1 DEF Caller
      <4>4. ShowsCaller(req, who)
        BY <2>3, <2>6, <3>3, <4>3 DEF ShowsCaller, ProjectToken
      <4> QED
        BY <3>2, <3>3, <4>2, <4>3, <4>4
    <3>4. CASE Authenticate(req, s) = Stop(403)
      BY <3>4 DEF Stop
    <3> QED
      BY <3>1, <3>3, <3>4
  <2> QED
    BY <2>4, <2>5, <2>6
<1> QED
  BY <1>1, <1>2

\* What an open route or a page makes of the tokens it can use.
LEMMA IdentifiedOK ==
  ASSUME NEW req \in Demands, NEW usable,
         \A c \in usable :
           /\ c \in ResolveProject(req) /\ ProjectToken(c.token) /\ OfProject(c.token, req)
           /\ c.by = "cookie" => SafeMethod(req.method)
  PROVE  /\ Identified(usable).to = "handler"
         /\ \/ Identified(usable).who = Nobody
            \/ /\ Identified(usable).who.kind = "caller" /\ ShowsCaller(req, Identified(usable).who)
               /\ ~ Foreign(req)
<1>1. CASE usable = {}
  BY <1>1 DEF Identified, Pass
<1>2. CASE usable # {}
  <2>1. PICK c : c = CHOOSE x \in usable : TRUE
    OBVIOUS
  <2>2. c \in usable
    BY <1>2, <2>1
  <2>3. c.token \in Shown(req) /\ (req.header = NoToken => c.by = "cookie")
    BY <2>2, CredentialShown
  <2>4. PICK who : who = Caller("caller", c.token)
    OBVIOUS
  <2>5. Identified(usable) = Pass(who)
    BY <1>2, <2>1, <2>4 DEF Identified
  <2>6. Identified(usable).to = "handler" /\ Identified(usable).who = who
    BY <2>5 DEF Pass
  <2>7. who.kind = "caller" /\ who.user = c.token.user /\ who.role = c.token.role
    BY <2>4 DEF Caller
  <2>8. ShowsCaller(req, who)
    BY <2>2, <2>3, <2>7 DEF ShowsCaller, ProjectToken
  <2>9. ~ Foreign(req)
    BY <2>2, <2>3 DEF Foreign
  <2> QED
    BY <2>6, <2>7, <2>8, <2>9
<1> QED
  BY <1>1, <1>2

\* What an integration is let through for.
LEMMA IntegrationOK ==
  ASSUME NEW req \in Demands, NEW s, req.kind = "record", req.header # NoToken
  PROVE  \/ Integration(req, s).to = "error"
         \/ /\ Integration(req, s).to = "handler" /\ Integration(req, s).who.kind = "integration"
            /\ ShowsIntegration(req, Integration(req, s).who)
<1>1. CASE ~ s.active \/ req.header.user \notin DOMAIN Integrations
  BY <1>1 DEF Integration, Stop
<1>2. CASE s.active /\ req.header.user \in DOMAIN Integrations
  <2>1. PICK stored : stored = Integrations[req.header.user]
    OBVIOUS
  <2>2. CASE ~ OfProject(stored, req)
    BY <1>2, <2>1, <2>2 DEF Integration, Stop
  <2>3. CASE OfProject(stored, req) /\ stored.ended
    BY <1>2, <2>1, <2>3 DEF Integration, Stop
  <2>4. CASE OfProject(stored, req) /\ ~ stored.ended
    <3>1. Integration(req, s) = IF Needed(req) \in stored.permissions
                                THEN Pass([Nobody EXCEPT !.kind = "integration", !.user = req.header.user])
                                ELSE Stop(403)
      BY <1>2, <2>1, <2>4 DEF Integration
    <3>2. CASE Needed(req) \in stored.permissions
      <4>1. PICK who : who = [Nobody EXCEPT !.kind = "integration", !.user = req.header.user]
        OBVIOUS
      <4>2. Integration(req, s).to = "handler" /\ Integration(req, s).who = who
        BY <3>1, <3>2, <4>1 DEF Pass
      <4>3. who.kind = "integration" /\ who.user = req.header.user
        BY <4>1 DEF Nobody
      <4>4. PICK p : p = Needed(req)
        OBVIOUS
      <4>5. p.schema = JudgedBy(req) /\ p.method = req.method
            /\ p.at = (IF Place(req)[1] = "route" THEN <<"route", req.route>> ELSE Place(req))
        BY <4>4, JudgesRight DEF Needed
      <4>6. p.at = (IF req.name # "" THEN Place(req) ELSE <<"route", req.route>>)
        <5>1. req.name = "" <=> Place(req)[1] = "route"
          BY DemandsAssumption
        <5> QED
          BY <4>5, <5>1
      <4>7. ShowsIntegration(req, who)
        BY <1>2, <2>1, <2>4, <3>2, <4>3, <4>4, <4>5, <4>6 DEF ShowsIntegration
      <4> QED
        BY <4>2, <4>3, <4>7
    <3>3. CASE Needed(req) \notin stored.permissions
      BY <3>1, <3>3 DEF Stop
    <3> QED
      BY <3>2, <3>3
  <2> QED
    BY <2>2, <2>3, <2>4
<1> QED
  BY <1>1, <1>2

\* Who a management request comes from.
LEMMA PrincipalOK ==
  ASSUME NEW req \in Demands
  PROVE  \/ Principal(req).to = "error"
         \/ /\ Principal(req).to = "scope" /\ ~ Foreign(req)
            /\ Principal(req).token \in Shown(req) /\ TenantToken(Principal(req).token)
<1>1. CASE ResolveManagement(req) = {}
  BY <1>1 DEF Principal, Stop
<1>2. CASE ResolveManagement(req) # {}
  <2>1. PICK c : c = CHOOSE x \in ResolveManagement(req) : TRUE
    OBVIOUS
  <2>2. c \in ResolveManagement(req)
    BY <1>2, <2>1
  <2>3. c.token \in Shown(req) /\ (req.header = NoToken => c.by = "cookie")
    BY <2>2, CredentialShown
  <2>4. CASE Untrusted(req, c)
    BY <1>2, <2>1, <2>4 DEF Principal, Stop
  <2>5. CASE ~ Untrusted(req, c) /\ ~ (TenantToken(c.token) /\ ValidClaims(c.token))
    BY <1>2, <2>1, <2>5 DEF Principal, Stop
  <2>6. CASE ~ Untrusted(req, c) /\ TenantToken(c.token) /\ ValidClaims(c.token)
    <3>1. Principal(req) = [to |-> "scope", token |-> c.token]
      BY <1>2, <2>1, <2>6 DEF Principal
    <3>2. ~ Foreign(req)
      BY <2>3, <2>6 DEF Foreign, Untrusted
    <3> QED
      BY <2>3, <2>6, <3>1, <3>2
  <2> QED
    BY <2>4, <2>5, <2>6
<1> QED
  BY <1>1, <1>2

\* The lookup of a permission for a token that was shown.
LEMMA SeekOK ==
  ASSUME NEW req \in Demands, NEW token \in Shown(req), TenantToken(token), ~ Foreign(req),
         token.scope = "managed" /\ req.kind # "tenant" => OfProject(token, req),
         NEW permission, NEW project, project # "" => OfProjects(permission), NEW enabled
  PROVE  OutcomeOK(req, Seek(token, permission, project, enabled))
<1>1. PICK who : who = Caller("management", token)
  OBVIOUS
<1>2. PICK o : o = Seek(token, permission, project, enabled)
  OBVIOUS
<1>3. o.to = "lookup" /\ o.who = who /\ o.permission = permission /\ o.project = project
  BY <1>1, <1>2 DEF Seek
<1>4. who.kind = "management" /\ who.user = token.user
  BY <1>1 DEF Caller
<1>5. ShowsManager(req, who)
  BY <1>4 DEF ShowsManager, TenantToken
<1> QED
  BY <1>2, <1>3, <1>4, <1>5 DEF OutcomeOK, SoughtOK

LEMMA ErrorOK ==
  ASSUME NEW req, NEW o, o.to = "error"
  PROVE  OutcomeOK(req, o)
BY DEF OutcomeOK

LEMMA StopOK ==
  ASSUME NEW req, NEW status
  PROVE  OutcomeOK(req, Stop(status))
BY ErrorOK DEF Stop

LEMMA ContractOK ==
  ASSUME NEW req \in Demands, req.kind \notin {"record", "page", "member"}
  PROVE  OutcomeOK(req, Contract(req))
<1>1. PICK p : p = Principal(req)
  OBVIOUS
<1>2. CASE p.to = "error"
  <2>1. Contract(req) = p
    BY <1>1, <1>2 DEF Contract
  <2> QED
    BY <1>2, <2>1, ErrorOK
<1>3. CASE p.to # "error" /\ ~ InScope(req, p.token)
  <2>1. Contract(req) = Stop(403)
    BY <1>1, <1>3 DEF Contract
  <2> QED
    BY <2>1, StopOK
<1>4. CASE p.to # "error" /\ InScope(req, p.token)
  <2>1. PICK token : token = p.token
    OBVIOUS
  <2>2. token \in Shown(req) /\ TenantToken(token) /\ ~ Foreign(req)
    BY <1>1, <1>4, <2>1, PrincipalOK
  <2>3. Contract(req) = Seek(token, req.permission, AskedFor(req, token), TRUE)
    BY <1>1, <1>4, <2>1 DEF Contract
  <2>4. token.scope = "managed" /\ req.kind # "tenant" => OfProject(token, req)
    BY <1>4, <2>1, DemandsAssumption DEF InScope
  <2>5. AskedFor(req, token) # "" => OfProjects(req.permission)
    BY DemandsAssumption DEF AskedFor
  <2>6. PICK enabled : enabled = TRUE
    OBVIOUS
  <2>7. PICK project : project = AskedFor(req, token)
    OBVIOUS
  <2>8. OutcomeOK(req, Seek(token, req.permission, project, enabled))
    BY <2>2, <2>4, <2>5, <2>7, SeekOK
  <2> QED
    BY <2>3, <2>6, <2>7, <2>8
<1> QED
  BY <1>2, <1>3, <1>4

LEMMA AccountManagementOK ==
  ASSUME NEW req \in Demands
  PROVE  OutcomeOK(req, AccountManagement(req))
<1>1. PICK p : p = Principal(req)
  OBVIOUS
<1>2. CASE p.to = "error"
  <2>1. AccountManagement(req) = p
    BY <1>1, <1>2 DEF AccountManagement
  <2> QED
    BY <1>2, <2>1, ErrorOK
<1>3. CASE p.to # "error" /\ ~ OfProject(p.token, req)
  <2>1. AccountManagement(req) = Stop(403)
    BY <1>1, <1>3 DEF AccountManagement
  <2> QED
    BY <2>1, StopOK
<1>4. CASE p.to # "error" /\ OfProject(p.token, req)
  <2>1. PICK token : token = p.token
    OBVIOUS
  <2>2. token \in Shown(req) /\ TenantToken(token) /\ ~ Foreign(req)
    BY <1>1, <1>4, <2>1, PrincipalOK
  <2>3. PICK permission : permission = IF IsRead(req) THEN "project.config.read" ELSE "project.schema.write"
    OBVIOUS
  <2>4. PICK enabled : enabled = Enabled(req)
    OBVIOUS
  <2>5. AccountManagement(req) = Seek(token, permission, req.project, enabled)
    BY <1>1, <1>4, <2>1, <2>3, <2>4 DEF AccountManagement
  <2>6. OfProjects(permission)
    BY <2>3 DEF OfProjects
  <2>7. OutcomeOK(req, Seek(token, permission, req.project, enabled))
    BY <1>4, <2>1, <2>2, <2>6, SeekOK
  <2> QED
    BY <2>5, <2>7
<1> QED
  BY <1>2, <1>3, <1>4

\* The routes of records, by the branches of the middleware.
LEMMA RecordOK ==
  ASSUME NEW req \in Demands, req.kind = "record"
  PROVE  OutcomeOK(req, ConditionalAuthentication(req))
<1> DEFINE name == ConditionalSchemaName(req)
<1>0. name = JudgedBy(req) /\ Settings(req) = SettingsIn(JudgedBy(req), req)
  BY JudgesRight DEF Settings
<1> HIDE DEF name
<1>3. CASE ConditionalAuthentication(req) = Stop(400) \/ ConditionalAuthentication(req) = Stop(500)
  BY <1>3, StopOK
<1>1. CASE ConditionalAuthentication(req) = AccountManagement(req)
  BY <1>1, AccountManagementOK
<1>2. CASE /\ ~ (Schemas[name].accounts /\ ~ ByRoutePermissions(req))
           /\ \/ ConditionalAuthentication(req) = Stop(404)
              \/ ConditionalAuthentication(req) = Integration(req, Settings(req)) /\ req.header # NoToken
              \/ ConditionalAuthentication(req) = Authenticate(req, Settings(req))
              \/ ConditionalAuthentication(req) = OptionalIdentity(req) /\ ~ RequiresToken(Settings(req))
  <2>1. PICK o : o = ConditionalAuthentication(req)
    OBVIOUS
  <2>2. Schemas[name].accounts => IsRead(req)
    BY <1>2 DEF ByRoutePermissions
  <2>3. CASE o = Stop(404)
    BY <2>1, <2>3, StopOK
  <2>4. CASE o = Integration(req, Settings(req)) /\ req.header # NoToken
    <3>1. \/ o.to = "error"
          \/ o.to = "handler" /\ o.who.kind = "integration" /\ ShowsIntegration(req, o.who)
      BY <2>4, IntegrationOK
    <3>2. ~ Foreign(req)
      BY <2>4 DEF Foreign
    <3> QED
      BY <1>0, <2>1, <2>2, <3>1, <3>2 DEF OutcomeOK, PassedOK, RouteAllows
  <2>5. CASE o = Authenticate(req, Settings(req))
    <3>1. \/ o.to = "error"
          \/ /\ o.to = "handler" /\ o.who.kind = "caller" /\ ShowsCaller(req, o.who) /\ ~ Foreign(req)
             /\ Settings(req).authorized => o.who.role \in Settings(req).roles
      BY <2>5, AuthenticateOK
    <3> QED
      BY <1>0, <2>1, <2>2, <3>1 DEF OutcomeOK, PassedOK, RouteAllows
  <2>6. CASE o = OptionalIdentity(req) /\ ~ RequiresToken(Settings(req))
    <3>1. PICK usable : usable = {c \in ResolveProject(req) :
                                    /\ ProjectToken(c.token) /\ OfProject(c.token, req)
                                    /\ c.by = "cookie" => SafeMethod(req.method) /\ IsRead(req)}
      OBVIOUS
    <3>2. o = Identified(usable)
      BY <2>6, <3>1 DEF OptionalIdentity
    <3>3. \A c \in usable :
            /\ c \in ResolveProject(req) /\ ProjectToken(c.token) /\ OfProject(c.token, req)
            /\ c.by = "cookie" => SafeMethod(req.method)
      BY <3>1
    <3>4. /\ o.to = "handler"
          /\ \/ o.who = Nobody
             \/ o.who.kind = "caller" /\ ShowsCaller(req, o.who) /\ ~ Foreign(req)
      BY <3>2, <3>3, IdentifiedOK
    <3>5. ~ Settings(req).authorized
      BY <2>6 DEF RequiresToken
    <3>6. Nobody.kind = "anonymous"
      BY DEF Nobody
    <3>7. RouteAllows(req, o.who)
      BY <1>0, <2>2, <2>6, <3>4, <3>5, <3>6 DEF RouteAllows
    <3> QED
      BY <2>1, <3>4, <3>7 DEF OutcomeOK, PassedOK
  <2> QED
    BY <1>2, <2>1, <2>3, <2>4, <2>5, <2>6
<1>4. PICK o, s : o = ConditionalAuthentication(req) /\ s = Settings(req)
  OBVIOUS
<1>5. o = IF name = "" THEN Stop(400)
          ELSE IF name \notin DOMAIN Schemas THEN Stop(500)
          ELSE IF Schemas[name].accounts /\ ~ ByRoutePermissions(req) THEN AccountManagement(req)
          ELSE IF IsWorkflow(req) /\ Place(req) \notin DOMAIN Schemas[name].settings THEN Stop(404)
          ELSE IF req.header \notin {NoToken, Malformed} /\ req.header.scope = "integration"
               THEN Integration(req, s)
          ELSE IF RequiresToken(s) THEN Authenticate(req, s)
          ELSE OptionalIdentity(req)
  BY <1>4 DEF ConditionalAuthentication, name
<1> QED
  BY <1>1, <1>2, <1>3, <1>4, <1>5

LEMMA CheckedOK ==
  ASSUME NEW req \in Demands
  PROVE  OutcomeOK(req, Checked(req))
<1>1. CASE req.kind = "record"
  BY <1>1, RecordOK DEF Checked
<1>2. CASE req.kind = "page"
  <2>1. PICK o : o = Page(req)
    OBVIOUS
  <2>2. \A c \in {c \in ResolveProject(req) : ProjectToken(c.token) /\ OfProject(c.token, req)} :
          /\ c \in ResolveProject(req) /\ ProjectToken(c.token) /\ OfProject(c.token, req)
          /\ c.by = "cookie" => SafeMethod(req.method)
    BY <1>2, DemandsAssumption
  <2>3. /\ o.to = "handler"
        /\ \/ o.who = Nobody
           \/ o.who.kind = "caller" /\ ShowsCaller(req, o.who) /\ ~ Foreign(req)
    BY <2>1, <2>2, IdentifiedOK DEF Page
  <2>4. OutcomeOK(req, o)
    BY <1>2, <2>3 DEF OutcomeOK, PassedOK, RouteAllows
  <2> QED
    BY <1>2, <2>1, <2>4 DEF Checked
<1>3. ASSUME req.kind # "record", Checked(req) = MemberOnly(req)
      PROVE  OutcomeOK(req, Checked(req))
  <2>1. PICK o : o = MemberOnly(req)
    OBVIOUS
  <2>2. \/ o.to = "error"
        \/ /\ o.to = "handler" /\ o.who.kind = "caller" /\ ShowsCaller(req, o.who) /\ ~ Foreign(req)
    BY <2>1, AuthenticateOK DEF MemberOnly
  <2>3. OutcomeOK(req, o)
    BY <1>3, <2>2 DEF OutcomeOK, PassedOK, RouteAllows
  <2> QED
    BY <1>3, <2>1, <2>3
<1>4. ASSUME req.kind \notin {"record", "page", "member"}, Checked(req) = Contract(req)
      PROVE  OutcomeOK(req, Checked(req))
  BY <1>4, ContractOK
<1>5. \/ req.kind \in {"record", "page"}
      \/ req.kind # "record" /\ Checked(req) = MemberOnly(req)
      \/ req.kind \notin {"record", "page", "member"} /\ Checked(req) = Contract(req)
  BY DEF Checked
<1> QED
  BY <1>1, <1>2, <1>3, <1>4, <1>5

\* Whoever was let through acts rightly.
LEMMA PassedPermitted ==
  ASSUME NEW req, NEW who, NEW seen, NEW gone, PassedOK(req, who)
  PROVE  Permitted(req, who, seen, gone)
<1>1. CASE who.kind = "caller" /\ ShowsCaller(req, who)
  BY <1>1 DEF PassedOK, Permitted, ActsRightly, ShowsCaller
<1>2. CASE who.kind = "integration" /\ ShowsIntegration(req, who)
  BY <1>2 DEF PassedOK, Permitted, ActsRightly, ShowsIntegration
<1>3. CASE who = Nobody
  <2>1. who.kind = "anonymous"
    BY <1>3 DEF Nobody
  <2> QED
    BY <1>3, <2>1 DEF PassedOK, Permitted, ActsRightly
<1> QED
  BY <1>1, <1>2, <1>3 DEF PassedOK

-----------------------------------------------------------------------------
LEMMA AuthInitOK == AuthInit => AuthIInv
<1> SUFFICES ASSUME AuthInit PROVE AuthIInv
  OBVIOUS
<1>1. \A r \in Callers : gate[r].pc = "idle"
  BY DEF AuthInit
<1>2. GatesTypeOK
  BY DEF AuthInit, GatesTypeOK, Said
<1> QED
  BY <1>1, <1>2 DEF AuthIInv, GateOK

\* One caller moves, the documents stay.
LEMMA GateMoves ==
  ASSUME AuthIInv, NEW r \in Callers, UNCHANGED facts, DOMAIN gate' = Callers,
         \A q \in Callers \ {r} : gate'[q] = gate[q], GateOK(r)'
  PROVE  AuthIInv'
<1>1. GatesTypeOK'
  BY DEF AuthIInv, GatesTypeOK
<1>2. \A q \in Callers \ {r} : GateOK(q)'
  BY DEF AuthIInv, GateOK
<1> QED
  BY <1>1, <1>2 DEF AuthIInv

LEMMA ArriveStep ==
  ASSUME AuthIInv, NEW r \in Callers, Arrive(r)
  PROVE  AuthIInv'
<1>1. PICK req \in Demands :
        gate' = [gate EXCEPT ![r] = [pc |-> Checked(req).to, req |-> req, outcome |-> Checked(req), seen |-> <<>>,
                                     gone |-> {d \in DOMAIN facts : facts[d] = {}}]]
  BY DEF Arrive
<1>2. PICK o : o = Checked(req)
  OBVIOUS
<1>3. PICK g : g = [pc |-> o.to, req |-> req, outcome |-> o, seen |-> <<>>,
                    gone |-> {d \in DOMAIN facts : facts[d] = {}}]
  OBVIOUS
<1>4. /\ DOMAIN gate' = Callers /\ gate'[r] = g /\ \A q \in Callers \ {r} : gate'[q] = gate[q]
      /\ UNCHANGED facts
  BY <1>1, <1>2, <1>3 DEF Arrive, AuthIInv, GatesTypeOK
<1>5. /\ DOMAIN g = {"pc", "req", "outcome", "seen", "gone"} /\ g.pc = o.to /\ g.req = req
      /\ g.outcome = o /\ g.seen = <<>> /\ g.gone = {d \in DOMAIN facts : facts[d] = {}}
  BY <1>3
<1>6. OutcomeOK(req, o)
  BY <1>2, CheckedOK
<1>7. g.pc \in {"lookup", "handler", "error"} /\ g.seen \in Seq(Said) /\ Len(g.seen) = 0 /\ DOMAIN g.seen = {}
  BY <1>5, <1>6 DEF OutcomeOK
<1>8. 0 <= Count(o)
  BY DEF Count, Documents
<1>9. g.pc = "lookup" => SoughtOK(g.req, g.outcome) /\ Len(g.seen) <= Count(g.outcome)
  BY <1>5, <1>6, <1>7, <1>8 DEF OutcomeOK
<1>10. g.pc = "handler" => Permitted(g.req, g.outcome.who, g.seen, g.gone)
  BY <1>5, <1>6, PassedPermitted DEF OutcomeOK
<1>11. GateOK(r)'
  BY <1>4, <1>5, <1>7, <1>9, <1>10 DEF GateOK
<1> QED
  BY <1>4, <1>11, GateMoves

\* A request that is turned away.
LEMMA StoppedStep ==
  ASSUME AuthIInv, NEW r \in Callers, gate[r].pc = "lookup", NEW status, Stopped(r, status), UNCHANGED facts
  PROVE  AuthIInv'
<1>1. PICK o : o = Stop(status)
  OBVIOUS
<1>2. gate' = [gate EXCEPT ![r].pc = "error", ![r].outcome = o]
  BY <1>1 DEF Stopped
<1>3. GateOK(r) /\ DOMAIN gate = Callers
  BY DEF AuthIInv, GatesTypeOK
<1>4. DOMAIN gate[r] = {"pc", "req", "outcome", "seen", "gone"}
  BY <1>3 DEF GateOK
<1>5. /\ DOMAIN gate' = Callers /\ \A q \in Callers \ {r} : gate'[q] = gate[q]
      /\ DOMAIN gate'[r] = DOMAIN gate[r] /\ gate'[r].pc = "error" /\ gate'[r].seen = gate[r].seen
      /\ gate'[r].gone = gate[r].gone
  BY <1>2, <1>3, <1>4
<1>6. GateOK(r)'
  BY <1>3, <1>5 DEF GateOK
<1> QED
  BY <1>5, <1>6, GateMoves

LEMMA LookStep ==
  ASSUME AuthIInv, NEW r \in Callers, Look(r)
  PROVE  AuthIInv'
<1>1. GateOK(r) /\ DOMAIN gate = Callers /\ gate[r].pc = "lookup" /\ Len(gate[r].seen) < Count(gate[r].outcome)
  BY DEF AuthIInv, GatesTypeOK, Look
<1>2. PICK seen : seen = gate[r].seen
  OBVIOUS
<1>3. PICK said : said = Found(gate[r].outcome, Documents[Len(seen) + 1])
  OBVIOUS
<1>4. CASE Stopped(r, 503)
  BY <1>1, <1>4, StoppedStep DEF Look
<1>5. CASE gate' = [gate EXCEPT ![r].seen = Append(seen, said)]
  <2>1. /\ DOMAIN gate[r] = {"pc", "req", "outcome", "seen", "gone"} /\ seen \in Seq(Said)
        /\ SoughtOK(gate[r].req, gate[r].outcome)
        /\ \A i \in DOMAIN seen : seen[i] # {} => Documents[i] \notin gate[r].gone
        /\ \A d \in gate[r].gone : d \in DOMAIN facts /\ facts[d] = {}
    BY <1>1, <1>2 DEF GateOK
  <2>2. PICK longer : longer = Append(seen, said)
    OBVIOUS
  <2>3. /\ DOMAIN gate' = Callers /\ \A q \in Callers \ {r} : gate'[q] = gate[q]
        /\ DOMAIN gate'[r] = DOMAIN gate[r] /\ gate'[r].pc = gate[r].pc /\ gate'[r].seen = longer
        /\ gate'[r].gone = gate[r].gone /\ gate'[r].req = gate[r].req /\ gate'[r].outcome = gate[r].outcome
    BY <1>1, <1>5, <2>1, <2>2
  <2>4. Count(gate[r].outcome) \in {3, 5} /\ Len(seen) \in Nat
    BY <2>1 DEF Count, Documents
  <2>5. Len(seen) + 1 \in 1..5
    BY <1>1, <1>2, <2>4
  <2>6. Documents[Len(seen) + 1] \in DOMAIN facts
    BY <2>5, GrantedAssumption DEF AuthIInv, GatesTypeOK, Documents
  <2>7. said \in Said /\ (said # {} => facts[Documents[Len(seen) + 1]] # {})
    BY <1>3, <2>6 DEF Found, Said, AuthIInv, GatesTypeOK
  <2>8. /\ longer \in Seq(Said) /\ Len(longer) = Len(seen) + 1
        /\ \A i \in DOMAIN longer : IF i = Len(seen) + 1 THEN longer[i] = said ELSE i \in DOMAIN seen /\ longer[i] = seen[i]
    BY <2>1, <2>2, <2>7
  <2>9. \A i \in DOMAIN longer : longer[i] # {} => Documents[i] \notin gate[r].gone
    BY <2>1, <2>7, <2>8
  <2>10. Len(longer) <= Count(gate[r].outcome)
    BY <1>1, <1>2, <2>4, <2>8
  <2>11. facts' = facts
    BY DEF Look
  <2>12. GateOK(r)'
    BY <1>1, <2>1, <2>3, <2>8, <2>9, <2>10, <2>11 DEF GateOK
  <2> QED
    BY <2>3, <2>11, <2>12, GateMoves
<1> QED
  BY <1>2, <1>3, <1>4, <1>5 DEF Look

LEMMA CountsOK ==
  ASSUME NEW o, NEW n, n = Count(o), OfProjects(o.permission) => o.project # "",
         o.project # "" => OfProjects(o.permission)
  PROVE  \/ n = 3 /\ Needs(o.permission) = 3
         \/ n = 5 /\ Needs(o.permission) = 5
<1>1. Len(Documents) = 5
  BY DEF Documents
<1>2. CASE o.project = ""
  BY <1>1, <1>2 DEF Count, Needs
<1>3. CASE o.project # ""
  BY <1>1, <1>3 DEF Count, Needs
<1> QED
  BY <1>2, <1>3

\* All documents were there when they were read, so none was gone before.
LEMMA AuthorizedPermitted ==
  ASSUME NEW req, NEW o, NEW seen, NEW gone, SoughtOK(req, o),
         DOMAIN seen = 1..Count(o), Authorized(o, seen), Len(seen) = Count(o),
         \A i \in DOMAIN seen : seen[i] # {} => Documents[i] \notin gone
  PROVE  Permitted(req, o.who, seen, gone)
<1>1. o.who.kind = "management" /\ ShowsManager(req, o.who) /\ ~ Foreign(req)
  BY DEF SoughtOK
<1>2. PICK n : n = Count(o)
  OBVIOUS
<1>3. \/ n = 3 /\ Needs(o.permission) = 3
      \/ n = 5 /\ Needs(o.permission) = 5
  BY <1>2, CountsOK DEF SoughtOK, Authorized
<1>4. \A i \in 1..n : seen[i] # {}
  BY <1>3 DEF Authorized
<1>5. \A i \in 1..n : Documents[i] \notin gone
  BY <1>2, <1>4
<1>6. {"user", "tenant", "member"} \cap gone = {}
  <2>1. Documents[1] \notin gone /\ Documents[2] \notin gone /\ Documents[3] \notin gone
    BY <1>3, <1>5
  <2> QED
    BY <2>1 DEF Documents
<1>7. Len(Documents) = 5
  BY DEF Documents
<1>8. ASSUME Len(seen) = Len(Documents) PROVE {"project", "projectMember"} \cap gone = {}
  <2>1. n = 5
    BY <1>2, <1>7, <1>8
  <2>2. Documents[4] \notin gone /\ Documents[5] \notin gone
    BY <1>5, <2>1
  <2> QED
    BY <2>2 DEF Documents
<1>9. ActsRightly(req, o.who, seen, gone)
  BY <1>1, <1>6, <1>8 DEF ActsRightly, ShowsManager
<1> QED
  BY <1>1, <1>9 DEF Permitted, RouteAllows

LEMMA DecideStep ==
  ASSUME AuthIInv, NEW r \in Callers, Decide(r)
  PROVE  AuthIInv'
<1>1. GateOK(r) /\ DOMAIN gate = Callers /\ gate[r].pc = "lookup" /\ facts' = facts
      /\ Len(gate[r].seen) = Count(gate[r].outcome)
  BY DEF AuthIInv, GatesTypeOK, Decide
<1>2. CASE Stopped(r, 403)
  BY <1>1, <1>2, StoppedStep
<1>3. CASE gate' = [gate EXCEPT ![r].pc = "handler"] /\ Authorized(gate[r].outcome, gate[r].seen)
  <2>1. /\ DOMAIN gate[r] = {"pc", "req", "outcome", "seen", "gone"} /\ gate[r].seen \in Seq(Said)
        /\ SoughtOK(gate[r].req, gate[r].outcome)
        /\ \A i \in DOMAIN gate[r].seen : gate[r].seen[i] # {} => Documents[i] \notin gate[r].gone
    BY <1>1 DEF GateOK
  <2>2. Permitted(gate[r].req, gate[r].outcome.who, gate[r].seen, gate[r].gone)
    <3>1. PICK seen : seen = gate[r].seen
      OBVIOUS
    <3>2. DOMAIN seen = 1..Len(seen)
      BY <2>1, <3>1
    <3> QED
      BY <1>1, <1>3, <2>1, <3>1, <3>2, AuthorizedPermitted
  <2>3. /\ DOMAIN gate' = Callers /\ \A q \in Callers \ {r} : gate'[q] = gate[q]
        /\ DOMAIN gate'[r] = DOMAIN gate[r] /\ gate'[r].pc = "handler" /\ gate'[r].seen = gate[r].seen
        /\ gate'[r].gone = gate[r].gone /\ gate'[r].req = gate[r].req /\ gate'[r].outcome = gate[r].outcome
    BY <1>1, <1>3, <2>1
  <2>4. GateOK(r)'
    BY <1>1, <2>1, <2>2, <2>3 DEF GateOK, Permitted
  <2> QED
    BY <1>1, <2>3, <2>4, GateMoves
<1> QED
  BY <1>2, <1>3 DEF Decide

LEMMA WithdrawStep ==
  ASSUME AuthIInv, NEW d \in DOMAIN facts, Withdraw(d)
  PROVE  AuthIInv'
<1>1. facts' = [facts EXCEPT ![d] = {}] /\ gate' = gate
  BY DEF Withdraw
<1>2. GatesTypeOK'
  BY <1>1 DEF AuthIInv, GatesTypeOK, Said
<1>3. ASSUME NEW r \in Callers PROVE GateOK(r)'
  BY <1>1 DEF AuthIInv, GateOK
<1> QED
  BY <1>2, <1>3 DEF AuthIInv

LEMMA AuthStep == AuthIInv /\ [AuthNext]_authVars => AuthIInv'
<1> SUFFICES ASSUME AuthIInv, [AuthNext]_authVars PROVE AuthIInv'
  OBVIOUS
<1>1. CASE UNCHANGED authVars
  BY <1>1 DEF authVars, AuthIInv, GatesTypeOK, GateOK
<1>2. CASE \E r \in Callers : Arrive(r) \/ Look(r) \/ Decide(r)
  BY <1>2, ArriveStep, LookStep, DecideStep
<1>3. CASE \E d \in DOMAIN facts : Withdraw(d)
  BY <1>3, WithdrawStep
<1> QED
  BY <1>1, <1>2, <1>3 DEF AuthNext

LEMMA AuthIInvImplies == AuthIInv => OnlyPermitted
<1> SUFFICES ASSUME AuthIInv, NEW r \in Callers, gate[r].pc = "handler"
             PROVE  Permitted(gate[r].req, gate[r].outcome.who, gate[r].seen, gate[r].gone)
  BY DEF OnlyPermitted, Permitted, RouteAllows, Foreign
<1> QED
  BY DEF AuthIInv, GateOK

\* Whatever a request shows and whatever is withdrawn while it is checked, it
\* reaches its handler only as somebody it has a credential of, with a
\* permission that stood, and never by cookies from a site that is not trusted.
THEOREM RequestsArePermitted == AuthSpec => []OnlyPermitted
  BY AuthInitOK, AuthStep, AuthIInvImplies, PTL DEF AuthSpec
=============================================================================
