-------------------------------- MODULE Hub --------------------------------
(***************************************************************************)
(* The WebSocket hub of one API process: the Run loop that owns the map of *)
(* connections, the read and write goroutine of each connection, the event *)
(* handler the event bus calls, and Stop.                                  *)
(*                                                                         *)
(* A connection is a member of Clients; it is used once, as the random     *)
(* clientID makes every Client value new.  handleRegister, handleUnregister*)
(* and Stop hold Hub.mu, so each is one step.  Only the buffer length of a *)
(* send channel matters, so a channel is a counter.                        *)
(***************************************************************************)
EXTENDS Naturals, Sequences, FiniteSets

CONSTANTS
  Clients,     \* the WebSocket connections ever opened
  Users,
  Owner,       \* the user of each connection
  Chats,       \* the conversations
  NoChat,      \* the nil ConversationID of a BroadcastMessage
  ChatsOf,     \* the conversations of each user
  Events,      \* what the event bus hands to the hub
  ChatOf,      \* the conversation each event belongs to
  MaxConns,    \* maxConnectionsPerUser, 10 in the code
  QueueCap,    \* capacity of register, unregister and broadcast, 256
  SendCap,     \* capacity of Client.send, 256
  PingTokens,  \* MaxPingMessages, 60 a minute
  DbErrors,    \* TRUE: a statement of UpdateOnlineStatus may fail
  Logins,      \* bound: the users that log in
  MayStop      \* bound: whether the process is told to stop

ASSUME HubAssumption ==
  /\ Owner \in [Clients -> Users]
  /\ NoChat \notin Chats
  /\ ChatsOf \in [Users -> SUBSET Chats]
  /\ ChatOf \in [Events -> Chats]
  /\ MaxConns \in Nat \ {0}
  /\ QueueCap \in Nat \ {0}
  /\ SendCap \in Nat \ {0}
  /\ PingTokens \in Nat
  /\ DbErrors \in BOOLEAN
  /\ Logins \subseteq Users
  /\ MayStop \in BOOLEAN

(* client.go writes for at most writeWait, 10 s, and refills the tokens    *)
(* once a minute: between two receptions from a channel that holds         *)
(* something there is room for one refill.                                 *)
ASSUME TwoRefillsFit == 2 * PingTokens <= SendCap

VARIABLES
  phase,       \* the process: up, stopping, stopped or panicked
  looping,     \* Hub.Run has not returned
  registerQ,   \* the channel Hub.register
  unregisterQ, \* the channel Hub.unregister
  broadcastQ,  \* the channel Hub.broadcast
  clients,     \* the connections in the map Hub.clients
  chats,       \* Client.conversations
  open,        \* connections whose send channel is not closed
  closed,      \* connections the server has closed
  gone,        \* connections the peer has left
  stage,       \* the handshake of each connection
  reader,      \* the read goroutine of each connection
  writer,      \* the write goroutine of each connection
  buffer,      \* len(Client.send)
  tokens,      \* ClientRateLimiter.pingTokens
  refilled,    \* tokens were refilled since the writer last took a message
  online,      \* users.is_online
  loggedIn,    \* history: users that logged in
  missed,      \* history: users whose last UpdateOnlineStatus by the hub failed
  pending,     \* events of the bus whose handler goroutine has not returned
  handled,     \* history: events taken by handleBroadcast
  delivered    \* history: pairs of an event and a connection it was put to

queues == <<registerQ, unregisterQ, broadcastQ>>
conn   == <<closed, gone, stage>>
pumps  == <<reader, writer, buffer, tokens, refilled>>
users  == <<online, loggedIn, missed>>
event  == <<pending, handled, delivered>>
vars   == <<phase, looping, queues, clients, chats, open, conn, pumps, users, event>>

Connections(u) == {c \in clients : Owner[c] = u}

Running == phase # "panicked"

Init ==
  /\ phase = "up"
  /\ looping = TRUE
  /\ registerQ = <<>>
  /\ unregisterQ = <<>>
  /\ broadcastQ = <<>>
  /\ clients = {}
  /\ chats = [c \in Clients |-> {}]
  /\ open = Clients
  /\ closed = {}
  /\ gone = {}
  /\ stage = [c \in Clients |-> "new"]
  /\ reader = [c \in Clients |-> "off"]
  /\ writer = [c \in Clients |-> "off"]
  /\ buffer = [c \in Clients |-> 0]
  /\ tokens = [c \in Clients |-> PingTokens]
  /\ refilled = [c \in Clients |-> FALSE]
  /\ online = [u \in Users |-> FALSE]
  /\ loggedIn = {}
  /\ missed = {}
  /\ pending = Events
  /\ handled = {}
  /\ delivered = {}

-----------------------------------------------------------------------------
(* The HTTP handler, login and the peer.                                   *)

(* WebSocketHandler.Handle: h.hub.register <- client, which waits while    *)
(* the channel is full.  A handler that has upgraded is no longer waited   *)
(* for when the HTTP server shuts down, so it may still do this afterwards.*)
Register(c) ==
  /\ Running
  /\ stage[c] = "new"
  /\ Len(registerQ) < QueueCap
  /\ registerQ' = Append(registerQ, c)
  /\ stage' = [stage EXCEPT ![c] = "queued"]
  /\ UNCHANGED <<phase, looping, unregisterQ, broadcastQ, clients, chats, open, closed, gone, pumps, users, event>>

(* AuthService.Login sets the user online whether or not it connects.      *)
Login(u) ==
  /\ phase = "up"
  /\ online' = [online EXCEPT ![u] = TRUE]
  /\ loggedIn' = loggedIn \union {u}
  /\ UNCHANGED <<phase, looping, queues, clients, chats, open, conn, pumps, missed, event>>

(* The peer closes, or stops answering until the read deadline.  Nothing   *)
(* looks at a connection before its pumps run or after it was closed.      *)
Leave(c) ==
  /\ Running
  /\ stage[c] = "registered"
  /\ c \notin gone \union closed
  /\ gone' = gone \union {c}
  /\ UNCHANGED <<phase, looping, queues, clients, chats, open, closed, stage, pumps, users, event>>

-----------------------------------------------------------------------------
(* Hub.Run: one receive of its select, and the handler it calls.           *)

(* UpdateOnlineStatus; both callers ignore its error.                      *)
SetOnline(u, b) ==
  \/ online' = [online EXCEPT ![u] = b] /\ missed' = missed \ {u}
  \/ DbErrors /\ missed' = missed \union {u} /\ UNCHANGED online

(* close of a channel that is closed already panics.                       *)
RemoveClients(C) ==
  /\ open' = open \ C
  /\ closed' = closed \union C
  /\ phase' = IF C \subseteq open THEN phase ELSE "panicked"

(* Slip: the entry of the evicted connection stays in the map.             *)
KickOnly(c, kicked) ==
  /\ kicked \subseteq Connections(Owner[c])
  /\ Cardinality(kicked) = IF Cardinality(Connections(Owner[c])) >= MaxConns THEN 1 ELSE 0
  /\ RemoveClients(kicked)
  /\ clients' = clients \union {c}

(* Slip: the evicted connection is forgotten, not closed.                  *)
KickSilently(c, kicked) ==
  /\ kicked \subseteq Connections(Owner[c])
  /\ Cardinality(kicked) = IF Cardinality(Connections(Owner[c])) >= MaxConns THEN 1 ELSE 0
  /\ clients' = (clients \ kicked) \union {c}
  /\ UNCHANGED <<phase, open, closed>>

(* The map of a user that is full first loses one entry, the one its       *)
(* iteration begins with.                                                  *)
MakeRoom(c, kicked) ==
  /\ kicked \subseteq Connections(Owner[c])
  /\ Cardinality(kicked) = IF Cardinality(Connections(Owner[c])) >= MaxConns THEN 1 ELSE 0
  /\ RemoveClients(kicked)
  /\ clients' = (clients \ kicked) \union {c}

(* The conversations are read once, here; an error leaves none.            *)
Accept(c) ==
  /\ \E kicked \in SUBSET Connections(Owner[c]) : MakeRoom(c, kicked)
  /\ \E C \in {ChatsOf[Owner[c]], {}} : chats' = [chats EXCEPT ![c] = C]
  /\ SetOnline(Owner[c], TRUE)
  /\ reader' = [reader EXCEPT ![c] = "reading"]
  /\ writer' = [writer EXCEPT ![c] = "waiting"]
  /\ stage' = [stage EXCEPT ![c] = "registered"]

(* AllowConnection said no: the pumps are never started.                   *)
Refuse(c) ==
  /\ closed' = closed \union {c}
  /\ stage' = [stage EXCEPT ![c] = "refused"]
  /\ UNCHANGED <<phase, clients, chats, open, reader, writer, online, missed>>

HandleRegister ==
  /\ Running /\ looping
  /\ registerQ # <<>>
  /\ registerQ' = Tail(registerQ)
  /\ Accept(Head(registerQ)) \/ Refuse(Head(registerQ))
  /\ UNCHANGED <<looping, unregisterQ, broadcastQ, gone, buffer, tokens, refilled, loggedIn, event>>

(* Slip: no test whether the connection is still in the map.               *)
UnregisterUnchecked ==
  /\ Running /\ looping
  /\ unregisterQ # <<>>
  /\ unregisterQ' = Tail(unregisterQ)
  /\ LET c == Head(unregisterQ) IN
       /\ clients' = clients \ {c}
       /\ RemoveClients({c})
       /\ IF Connections(Owner[c]) = {c} THEN SetOnline(Owner[c], FALSE) ELSE UNCHANGED <<online, missed>>
  /\ UNCHANGED <<looping, registerQ, broadcastQ, chats, gone, stage, pumps, loggedIn, event>>

(* Slip: the user is set offline whichever connection leaves.              *)
UnregisterOffline ==
  /\ Running /\ looping
  /\ unregisterQ # <<>>
  /\ unregisterQ' = Tail(unregisterQ)
  /\ LET c == Head(unregisterQ) IN
       IF c \in clients
         THEN /\ clients' = clients \ {c}
              /\ RemoveClients({c})
              /\ SetOnline(Owner[c], FALSE)
         ELSE UNCHANGED <<phase, clients, open, closed, online, missed>>
  /\ UNCHANGED <<looping, registerQ, broadcastQ, chats, gone, stage, pumps, loggedIn, event>>

(* A connection that was evicted, or removed by Stop, is not found.        *)
HandleUnregister ==
  /\ Running /\ looping
  /\ unregisterQ # <<>>
  /\ unregisterQ' = Tail(unregisterQ)
  /\ LET c == Head(unregisterQ) IN
       IF c \in clients
         THEN /\ clients' = clients \ {c}
              /\ RemoveClients({c})
              /\ IF Connections(Owner[c]) = {c} THEN SetOnline(Owner[c], FALSE) ELSE UNCHANGED <<online, missed>>
         ELSE UNCHANGED <<phase, clients, open, closed, online, missed>>
  /\ UNCHANGED <<looping, registerQ, broadcastQ, chats, gone, stage, pumps, loggedIn, event>>

(* broadcastToConversation, else broadcastToUser for each user.            *)
Recipients(msg) ==
  IF msg.chat # NoChat THEN {c \in clients : msg.chat \in chats[c]}
  ELSE {c \in clients : Owner[c] \in msg.users}

(* A full buffer loses the message, a closed channel panics.               *)
HandleBroadcast ==
  /\ Running /\ looping
  /\ broadcastQ # <<>>
  /\ broadcastQ' = Tail(broadcastQ)
  /\ LET msg == Head(broadcastQ)
         put == {c \in Recipients(msg) : buffer[c] < SendCap}
     IN  /\ phase' = IF Recipients(msg) \subseteq open THEN phase ELSE "panicked"
         /\ buffer' = [c \in Clients |-> IF c \in put THEN buffer[c] + 1 ELSE buffer[c]]
         /\ handled' = handled \union {msg.event}
         /\ delivered' = delivered \union ({msg.event} \X put)
  /\ UNCHANGED <<looping, registerQ, unregisterQ, clients, chats, open, conn, reader, writer, tokens, refilled, users, pending>>

(* WebSocketEventHandler.Handle, in a goroutine of its own: the message    *)
(* carries the event and neither a conversation nor users.                 *)
Handle(e) ==
  /\ Running
  /\ e \in pending
  /\ Len(broadcastQ) < QueueCap
  /\ broadcastQ' = Append(broadcastQ, [event |-> e, chat |-> NoChat, users |-> {}])
  /\ pending' = pending \ {e}
  /\ UNCHANGED <<phase, looping, registerQ, unregisterQ, clients, chats, open, conn, pumps, users, handled, delivered>>

-----------------------------------------------------------------------------
(* readPump                                                                *)

(* Allow after a minute: the limiter refills before it counts.             *)
Refill(c) ==
  /\ Running
  /\ reader[c] = "reading"
  /\ ~refilled[c]
  /\ tokens[c] < PingTokens
  /\ tokens' = [tokens EXCEPT ![c] = PingTokens]
  /\ refilled' = [refilled EXCEPT ![c] = TRUE]
  /\ UNCHANGED <<phase, looping, queues, clients, chats, open, conn, reader, writer, buffer, users, event>>

(* Slip: Allow does not count the ping.                                    *)
ReadPingUncounted(c) ==
  /\ Running
  /\ reader[c] = "reading"
  /\ tokens[c] > 0
  /\ reader' = [reader EXCEPT ![c] = "pinging"]
  /\ UNCHANGED <<phase, looping, queues, clients, chats, open, conn, writer, buffer, tokens, refilled, users, event>>

(* A ping that Allow lets pass.  Frames the connection has buffered are    *)
(* read even after it was closed.  Pings without a token and the other     *)
(* messages, whose services do not touch the hub, change nothing here.     *)
ReadPing(c) ==
  /\ Running
  /\ reader[c] = "reading"
  /\ tokens[c] > 0
  /\ tokens' = [tokens EXCEPT ![c] = @ - 1]
  /\ reader' = [reader EXCEPT ![c] = "pinging"]
  /\ UNCHANGED <<phase, looping, queues, clients, chats, open, conn, writer, buffer, refilled, users, event>>

(* handlePing: a send that waits for room, and panics on a closed channel, *)
(* also when the channel is closed while it waits.                         *)
SendPong(c) ==
  /\ Running
  /\ reader[c] = "pinging"
  /\ \/ /\ c \in open
        /\ buffer[c] < SendCap
        /\ buffer' = [buffer EXCEPT ![c] = @ + 1]
        /\ reader' = [reader EXCEPT ![c] = "reading"]
        /\ UNCHANGED phase
     \/ /\ c \notin open
        /\ phase' = "panicked"
        /\ UNCHANGED <<buffer, reader>>
  /\ UNCHANGED <<looping, queues, clients, chats, open, conn, writer, tokens, refilled, users, event>>

(* Slip: readPump returns without telling the hub.                         *)
ReadFailsSilently(c) ==
  /\ Running
  /\ reader[c] = "reading"
  /\ c \in closed \union gone
  /\ reader' = [reader EXCEPT ![c] = "done"]
  /\ UNCHANGED <<phase, looping, queues, clients, chats, open, conn, writer, buffer, tokens, refilled, users, event>>

ReadFails(c) ==
  /\ Running
  /\ reader[c] = "reading"
  /\ c \in closed \union gone
  /\ reader' = [reader EXCEPT ![c] = "leaving"]
  /\ UNCHANGED <<phase, looping, queues, clients, chats, open, conn, writer, buffer, tokens, refilled, users, event>>

(* The deferred c.hub.unregister <- c, then conn.Close.                    *)
Unregister(c) ==
  /\ Running
  /\ reader[c] = "leaving"
  /\ Len(unregisterQ) < QueueCap
  /\ unregisterQ' = Append(unregisterQ, c)
  /\ closed' = closed \union {c}
  /\ reader' = [reader EXCEPT ![c] = "done"]
  /\ UNCHANGED <<phase, looping, registerQ, broadcastQ, clients, chats, open, gone, stage, writer, buffer, tokens, refilled, users, event>>

-----------------------------------------------------------------------------
(* writePump                                                               *)

(* One receive and the len(c.send) further ones.                           *)
TakeAll(c) ==
  /\ Running
  /\ writer[c] = "waiting"
  /\ buffer[c] > 0
  /\ buffer' = [buffer EXCEPT ![c] = 0]
  /\ refilled' = [refilled EXCEPT ![c] = FALSE]
  /\ writer' = [writer EXCEPT ![c] = "writing"]
  /\ UNCHANGED <<phase, looping, queues, clients, chats, open, conn, reader, tokens, users, event>>

Written(c) ==
  /\ Running
  /\ writer[c] = "writing"
  /\ writer' = [writer EXCEPT ![c] = "waiting"]
  /\ UNCHANGED <<phase, looping, queues, clients, chats, open, conn, reader, buffer, tokens, refilled, users, event>>

(* The deferred conn.Close: after the close frame of a closed and drained  *)
(* channel, a write that fails or stalls, or a ping to a dead connection.  *)
WriterReturns(c) ==
  /\ Running
  /\ \/ writer[c] = "waiting" /\ c \notin open /\ buffer[c] = 0
     \/ writer[c] = "writing"
     \/ writer[c] = "waiting" /\ c \in closed \union gone
  /\ writer' = [writer EXCEPT ![c] = "done"]
  /\ closed' = closed \union {c}
  /\ UNCHANGED <<phase, looping, queues, clients, chats, open, gone, stage, reader, buffer, tokens, refilled, users, event>>

-----------------------------------------------------------------------------
(* Stop, called by main when the HTTP server has shut down.                *)

CloseStopChan ==
  /\ MayStop
  /\ phase = "up"
  /\ phase' = "stopping"
  /\ UNCHANGED <<looping, queues, clients, chats, open, conn, pumps, users, event>>

(* The rest of Stop, under the lock; Run may still be in its loop.         *)
StopClients ==
  /\ phase = "stopping"
  /\ open' = open \ clients
  /\ closed' = closed \union clients
  /\ phase' = IF clients \subseteq open THEN "stopped" ELSE "panicked"
  /\ clients' = {}
  /\ UNCHANGED <<looping, queues, chats, gone, stage, pumps, users, event>>

(* Run's select takes the closed stopChan.                                 *)
RunReturns ==
  /\ phase \in {"stopping", "stopped"}
  /\ looping
  /\ looping' = FALSE
  /\ UNCHANGED <<phase, queues, clients, chats, open, conn, pumps, users, event>>

-----------------------------------------------------------------------------

Loop == HandleRegister \/ HandleUnregister \/ HandleBroadcast \/ RunReturns
Reading(c) == ReadPing(c) \/ SendPong(c) \/ ReadFails(c) \/ Unregister(c)
Writing(c) == TakeAll(c) \/ Written(c) \/ WriterReturns(c)
Outside(c) == Register(c) \/ Leave(c) \/ Refill(c)
Shutdown == CloseStopChan \/ StopClients

Next ==
  \/ Loop
  \/ Shutdown
  \/ \E u \in Logins : Login(u)
  \/ \E e \in Events : Handle(e)
  \/ \E c \in Clients : Outside(c) \/ Reading(c) \/ Writing(c)

(* Go's select picks among ready channels at random, so none is passed     *)
(* over for ever; goroutines that can proceed are scheduled.  A dead       *)
(* connection has only the frames that are buffered left to read, so the   *)
(* read fails in the end.                                                  *)
Fairness ==
  /\ WF_vars(HandleRegister) /\ WF_vars(HandleUnregister) /\ WF_vars(HandleBroadcast)
  /\ \A e \in Events : WF_vars(Handle(e))
  /\ \A c \in Clients : WF_vars(Reading(c)) /\ SF_vars(ReadFails(c)) /\ WF_vars(Writing(c))

Spec == Init /\ [][Next]_vars
FairSpec == Spec /\ Fairness

-----------------------------------------------------------------------------
(* What the hub promises.                                                  *)

Message == [event : Events, chat : Chats \union {NoChat}, users : SUBSET Users]

(* Every variable has the type its declaration names.                      *)
TypeOK ==
  /\ phase \in {"up", "stopping", "stopped", "panicked"}
  /\ looping \in BOOLEAN
  /\ registerQ \in Seq(Clients)
  /\ unregisterQ \in Seq(Clients)
  /\ broadcastQ \in Seq(Message)
  /\ clients \in SUBSET Clients
  /\ chats \in [Clients -> SUBSET Chats]
  /\ open \in SUBSET Clients
  /\ closed \in SUBSET Clients
  /\ gone \in SUBSET Clients
  /\ stage \in [Clients -> {"new", "queued", "registered", "refused"}]
  /\ reader \in [Clients -> {"off", "reading", "pinging", "leaving", "done"}]
  /\ writer \in [Clients -> {"off", "waiting", "writing", "done"}]
  /\ buffer \in [Clients -> Nat]
  /\ tokens \in [Clients -> Nat]
  /\ refilled \in [Clients -> BOOLEAN]
  /\ online \in [Users -> BOOLEAN]
  /\ loggedIn \in SUBSET Users
  /\ missed \in SUBSET Users
  /\ pending \in SUBSET Events
  /\ handled \in SUBSET Events
  /\ delivered \in SUBSET (Events \X Clients)

(* The map never holds a connection whose channel is closed, in whatever   *)
(* order eviction, unregistration and Stop meet.                           *)
MapHoldsOpenChannels == phase # "panicked" => clients \subseteq open

(* The one panic of the hub is the pong on a closed channel: no channel is *)
(* closed twice and no broadcast meets a closed one.                       *)
OnlyPongPanics ==
  [][phase' = "panicked" => \E c \in Clients \ open : reader[c] = "pinging"]_phase

(* No user ever holds more than MaxConns entries of the map.               *)
ConnectionLimit == \A u \in Users : Cardinality(Connections(u)) <= MaxConns

(* The map is what broadcasts and the limit rely on: its entries can all   *)
(* be written to, and no user has more of them than it may.                *)
MapIsSound == TypeOK /\ MapHoldsOpenChannels /\ ConnectionLimit

(* While the hub runs, is_online says whether the user has a connection:   *)
(* a user with one is online, and a user that did not just log in is       *)
(* online only with one (handleRegister, handleUnregister), unless the     *)
(* last statement that should have said so failed.                         *)
PresenceMatchesMap ==
  phase = "up" =>
    \A u \in Users \ missed :
      /\ Connections(u) # {} => online[u]
      /\ online[u] /\ u \notin loggedIn => Connections(u) # {}

(* The read goroutine never waits for room to answer a ping, so a peer     *)
(* that does not read cannot stall its own connection's departure.         *)
ReaderNeverWaits ==
  \A c \in Clients : reader[c] = "pinging" => buffer[c] < SendCap

(* A dead connection leaves the map, whoever notices first, unless the     *)
(* process shuts down or panics before.                                    *)
DeadConnectionLeaves ==
  \A c \in Clients : c \in clients \intersect (gone \union closed) ~> c \notin clients \/ phase # "up"

(* Both goroutines of a connection that left the map return: neither an    *)
(* eviction nor a failed write leaks one.                                  *)
PumpsReturn ==
  \A c \in Clients :
    stage[c] = "registered" /\ c \notin clients
      ~> (reader[c] = "done" /\ writer[c] = "done") \/ phase # "up"

(* An event the hub takes from its queue is put to every connection of the *)
(* event's conversation whose buffer has room.                             *)
EventsReachClients ==
  [][\A e \in handled' \ handled, c \in clients :
       ChatOf[e] \in chats[c] /\ buffer[c] < SendCap => <<e, c>> \in delivered']_handled
=============================================================================
