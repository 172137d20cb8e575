-------------------------------- MODULE WsHub --------------------------------
(* The events that tell the clients of a project what has changed (ws/hub.go):*)
(* every server has one queue of events, one broadcaster that hands them to  *)
(* the queues of its clients, a writer for each client, and a subscription   *)
(* through which it hears of the events of the other servers.                *)
(*                                                                           *)
(* The queues are bounded: a full queue of the server drops the event, a full*)
(* queue of a client disconnects him. Publishing may fail or be refused by   *)
(* the circuit, and a subscription that has broken hears nothing until it is *)
(* made again.                                                               *)
EXTENDS Naturals, Sequences, FiniteSets, SequencesExt

CONSTANTS
  Servers, Clients,
  Address,        \* client :> the server and the project he connects to
  Projects,
  Sources,        \* where events come from: <<server, project>>
  MaxTurns,       \* how often events are emitted and subscriptions break
  QueueSize,      \* of a server (Broadcast)
  SendSize        \* of a client (clientSendSize)

ASSUME HubAssumption ==
  /\ QueueSize \in Nat \ {0} /\ SendSize \in Nat \ {0}
  /\ Address \in [Clients -> Servers \X Projects] /\ Sources \subseteq Servers \X Projects

VARIABLES
  emitted,        \* how many events so far: an event is its number
  home,           \* event :> [project, origin]
  publishing,     \* the events on their way to Redis
  wire,           \* server :> what the subscription has yet to deliver
  listening,      \* the servers that are subscribed
  queue,          \* server :> Broadcast
  client,         \* client :> [pc, server, project, send, got]
  stale,          \* server :> the clients to be disconnected, their queue full
  told,           \* client :> the events his server has broadcast to his project
  breaks

hubVars == <<emitted, home, publishing, wire, listening, queue, client, stale, told, breaks>>

Away == [pc |-> "away", send |-> <<>>, got |-> <<>>]

HubInit ==
  /\ emitted = 0 /\ home = <<>> /\ publishing = {}
  /\ wire = [s \in Servers |-> <<>>] /\ listening = Servers
  /\ queue = [s \in Servers |-> <<>>]
  /\ client = [c \in Clients |-> Away]
  /\ stale = [s \in Servers |-> {}]
  /\ told = [c \in Clients |-> <<>>]
  /\ breaks = 0

\* The connection is for the project the slugs or the identifiers name.
Connect(c) ==
  /\ client[c].pc = "away"
  /\ client' = [client EXCEPT ![c] =
       [pc |-> "open", server |-> Address[c][1], project |-> Address[c][2],
        send |-> <<>>, got |-> <<>>]]
  /\ UNCHANGED <<emitted, home, publishing, wire, listening, queue, stale, told, breaks>>

\* An event that finds the queue full is gone.
Enqueue(s, e) ==
  queue' = IF Len(queue[s]) < QueueSize THEN [queue EXCEPT ![s] = Append(@, e)] ELSE queue

\* publishEvent: the own queue first, then the other servers.
Emit(s, p) ==
  /\ <<s, p>> \in Sources /\ emitted + breaks < MaxTurns
  /\ emitted' = emitted + 1
  /\ home' = Append(home, [project |-> p, origin |-> s])
  /\ Enqueue(s, emitted')
  /\ publishing' = publishing \cup {emitted'}
  /\ UNCHANGED <<wire, listening, client, stale, told, breaks>>

\* To all that listen, the sender included; or the call fails.
Publish(e) ==
  /\ publishing' = publishing \ {e}
  /\ \/ wire' = [s \in Servers |-> IF s \in listening THEN Append(wire[s], e) ELSE wire[s]]
     \/ UNCHANGED wire
  /\ UNCHANGED <<emitted, home, listening, queue, client, stale, told, breaks>>

(* Fault: a server takes its own events from the wire too. *)
ReceiveAll(s) ==
  /\ s \in listening /\ wire[s] # <<>>
  /\ wire' = [wire EXCEPT ![s] = Tail(@)]
  /\ Enqueue(s, Head(wire[s]))
  /\ UNCHANGED <<emitted, home, publishing, listening, client, stale, told, breaks>>

Receive(s) ==
  /\ s \in listening /\ wire[s] # <<>>
  /\ wire' = [wire EXCEPT ![s] = Tail(@)]
  /\ IF home[Head(wire[s])].origin = s THEN UNCHANGED queue ELSE Enqueue(s, Head(wire[s]))
  /\ UNCHANGED <<emitted, home, publishing, listening, client, stale, told, breaks>>

\* What was on the way is lost, and what is published before it is made again.
Break(s) ==
  /\ s \in listening /\ emitted + breaks < MaxTurns /\ breaks' = breaks + 1
  /\ listening' = listening \ {s} /\ wire' = [wire EXCEPT ![s] = <<>>]
  /\ UNCHANGED <<emitted, home, publishing, queue, client, stale, told>>

Subscribe(s) ==
  /\ s \notin listening /\ listening' = listening \cup {s}
  /\ UNCHANGED <<emitted, home, publishing, wire, queue, client, stale, told, breaks>>

Here(s, e) ==
  {c \in Clients : client[c].pc = "open" /\ client[c].server = s /\ client[c].project = home[e].project}

Full(c) == Len(client[c].send) >= SendSize

(* Fault: a client whose queue is full misses the event and stays. *)
BroadcastOrSkip(s) ==
  /\ queue[s] # <<>> /\ stale[s] = {}
  /\ queue' = [queue EXCEPT ![s] = Tail(@)]
  /\ LET e == Head(queue[s]) IN
       /\ client' = [c \in Clients |->
            IF c \in Here(s, e) /\ ~ Full(c) THEN [client[c] EXCEPT !.send = Append(@, e)] ELSE client[c]]
       /\ told' = [c \in Clients |-> IF c \in Here(s, e) THEN Append(told[c], e) ELSE told[c]]
  /\ UNCHANGED <<emitted, home, publishing, wire, listening, stale, breaks>>

\* One event at a time: to the clients whose queue has room; those without are
\* disconnected before the next.
Broadcast(s) ==
  /\ queue[s] # <<>> /\ stale[s] = {}
  /\ queue' = [queue EXCEPT ![s] = Tail(@)]
  /\ LET e == Head(queue[s]) IN
       /\ client' = [c \in Clients |->
            IF c \in Here(s, e) /\ ~ Full(c) THEN [client[c] EXCEPT !.send = Append(@, e)] ELSE client[c]]
       /\ stale' = [stale EXCEPT ![s] = {c \in Here(s, e) : Full(c)}]
       /\ told' = [c \in Clients |-> IF c \in Here(s, e) THEN Append(told[c], e) ELSE told[c]]
  /\ UNCHANGED <<emitted, home, publishing, wire, listening, breaks>>

\* Unregistered once; the connection is closed a moment later.
Closes(c) == client' = [client EXCEPT ![c].pc = "closed"]

DropStale(s, c) ==
  /\ c \in stale[s] /\ stale' = [stale EXCEPT ![s] = @ \ {c}]
  /\ IF client[c].pc = "open" THEN Closes(c) ELSE UNCHANGED client
  /\ UNCHANGED <<emitted, home, publishing, wire, listening, queue, told, breaks>>

\* The writer of a client; it writes what is queued after the client has been
\* unregistered too, as long as the connection takes it.
Write(c) ==
  /\ client[c].send # <<>>
  /\ client' = [client EXCEPT ![c].send = Tail(@), ![c].got = Append(@, Head(client[c].send))]
  /\ UNCHANGED <<emitted, home, publishing, wire, listening, queue, stale, told, breaks>>

\* A write fails, or the client goes: he is unregistered, what is queued is lost.
Disconnect(c) ==
  /\ client[c].pc \in {"open", "closed"} /\ client[c] # [client[c] EXCEPT !.pc = "closed", !.send = <<>>]
  /\ client' = [client EXCEPT ![c].pc = "closed", ![c].send = <<>>]
  /\ UNCHANGED <<emitted, home, publishing, wire, listening, queue, stale, told, breaks>>

HubNext ==
  \/ \E s \in Servers :
       \/ \E p \in Projects : Emit(s, p)
       \/ Receive(s) \/ Break(s) \/ Subscribe(s) \/ Broadcast(s)
       \/ \E c \in Clients : DropStale(s, c)
  \/ \E e \in publishing : Publish(e)
  \/ \E c \in Clients : Connect(c) \/ Write(c) \/ Disconnect(c)

HubSpec == HubInit /\ [][HubNext]_hubVars

-----------------------------------------------------------------------------
(* Properties.                                                               *)

\* What a client has received is the beginning of what his server has broadcast
\* to his project since he connected, with nothing missing in between, nothing
\* twice and nothing of another project; and as long as he is connected, and not
\* about to be disconnected, the rest is waiting in his queue.
NoSilentGap ==
  \A c \in Clients :
    /\ IsPrefix(client[c].got \o client[c].send, told[c])
    /\ client[c].pc = "open" /\ (\A s \in Servers : c \notin stale[s]) =>
         client[c].got \o client[c].send = told[c]
    /\ \A i, j \in DOMAIN told[c] : told[c][i] = told[c][j] => i = j
    /\ \A i \in DOMAIN told[c] : home[told[c][i]].project = client[c].project
=============================================================================
