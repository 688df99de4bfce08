------------------------------ MODULE HubProofs ------------------------------
(***************************************************************************)
(* Theorems about Hub, for any connections, users, conversations, events,  *)
(* queue capacities and limits.                                            *)
(***************************************************************************)
EXTENDS Hub, FiniteSetTheorems, SequenceTheorems, TLAPS

(* A connection waits in the register channel once, and until the loop     *)
(* takes it out it is neither in the map nor closed.                       *)
QueueInv ==
  /\ \A i \in 1 .. Len(registerQ) : stage[registerQ[i]] = "queued"
  /\ \A i, j \in 1 .. Len(registerQ) : registerQ[i] = registerQ[j] => i = j
  /\ \A c \in Clients : stage[c] \in {"new", "queued"} => c \in open

MapInv ==
  /\ IsFiniteSet(clients)
  /\ \A c \in clients : stage[c] = "registered"

(* Handle puts messages for nobody into the queue.                         *)
BroadcastInv ==
  \A i \in 1 .. Len(broadcastQ) : broadcastQ[i].chat = NoChat /\ broadcastQ[i].users = {}

(* A ping in hand has taken its token.                                     *)
InHand(c) == IF reader[c] = "pinging" THEN 1 ELSE 0

(* What waits in a send channel was paid for with tokens, of which there   *)
(* has been one refill since the writer last emptied the channel.          *)
PongInv ==
  \A c \in Clients :
    /\ tokens[c] + InHand(c) <= PingTokens
    /\ buffer[c] + tokens[c] + InHand(c) <= IF refilled[c] THEN 2 * PingTokens ELSE PingTokens

IInv ==
  /\ TypeOK
  /\ QueueInv
  /\ MapInv
  /\ MapHoldsOpenChannels
  /\ ConnectionLimit
  /\ BroadcastInv
  /\ PongInv

-----------------------------------------------------------------------------

LEMMA InitIInv == Init => IInv
  <1> SUFFICES ASSUME Init PROVE IInv
    OBVIOUS
  <1> USE HubAssumption DEF Init
  <1>1. TypeOK
    BY DEF TypeOK, Message
  <1>2. QueueInv /\ MapHoldsOpenChannels /\ BroadcastInv
    BY DEF QueueInv, MapHoldsOpenChannels, BroadcastInv
  <1>3. MapInv
    BY FS_EmptySet DEF MapInv
  <1>4. ConnectionLimit
    <2>1. \A u \in Users : Connections(u) = {}
      BY DEF Connections
    <2>2. Cardinality({}) = 0 /\ 0 <= MaxConns
      BY FS_EmptySet
    <2>3. QED
      BY <2>1, <2>2 DEF ConnectionLimit
  <1>5. PongInv
    BY DEF PongInv, InHand
  <1>6. QED
    BY <1>1, <1>2, <1>3, <1>4, <1>5 DEF IInv

-----------------------------------------------------------------------------
(* Types.                                                                  *)

(* One receive from a channel: its head has the channel's type, and the    *)
(* rest is the channel without it.                                         *)
LEMMA Receive ==
  ASSUME NEW S, NEW q \in Seq(S), q # <<>>
  PROVE  /\ Head(q) \in S /\ Head(q) = q[1] /\ 1 \in 1 .. Len(q)
         /\ Tail(q) \in Seq(S)
         /\ Len(Tail(q)) = Len(q) - 1
         /\ \A i \in 1 .. Len(Tail(q)) : i + 1 \in 1 .. Len(q) /\ Tail(q)[i] = q[i + 1]
  BY HeadTailProperties, EmptySeq

LEMMA SetOnlineType ==
  ASSUME TypeOK, NEW u \in Users, NEW b \in BOOLEAN, SetOnline(u, b)
  PROVE  online' \in [Users -> BOOLEAN] /\ missed' \in SUBSET Users
  BY DEF SetOnline, TypeOK

LEMMA RemoveClientsType ==
  ASSUME TypeOK, NEW C \in SUBSET Clients, RemoveClients(C)
  PROVE  /\ open' \in SUBSET Clients /\ closed' \in SUBSET Clients
         /\ phase' \in {"up", "stopping", "stopped", "panicked"}
  BY DEF RemoveClients, TypeOK

LEMMA RegisterType ==
  ASSUME TypeOK, HandleRegister
  PROVE  TypeOK'
  <1> USE HubAssumption DEF TypeOK
  <1> DEFINE c == Head(registerQ)
  <1>1. registerQ' = Tail(registerQ) /\ registerQ # <<>>
    BY DEF HandleRegister
  <1>2. c \in Clients /\ registerQ' \in Seq(Clients) /\ Owner[c] \in Users
    BY <1>1, Receive
  <1>3. UNCHANGED <<looping, unregisterQ, broadcastQ, gone, buffer, tokens, refilled, loggedIn, event>>
    BY DEF HandleRegister
  <1>4. CASE Accept(c)
    <2>1. PICK kicked \in SUBSET Connections(Owner[c]) : MakeRoom(c, kicked)
      BY <1>4 DEF Accept
    <2>2. kicked \in SUBSET Clients
      BY <2>1 DEF Connections
    <2>3. RemoveClients(kicked) /\ clients' \in SUBSET Clients
      BY <1>2, <2>1 DEF MakeRoom
    <2>4. chats' \in [Clients -> SUBSET Chats]
      <3>1. PICK C \in {ChatsOf[Owner[c]], {}} : chats' = [chats EXCEPT ![c] = C]
        BY <1>4 DEF Accept
      <3>2. C \in SUBSET Chats
        BY <1>2
      <3>3. QED
        BY <1>2, <3>1, <3>2
    <2>5. SetOnline(Owner[c], TRUE)
      BY <1>4 DEF Accept
    <2>6. /\ reader' \in [Clients -> {"off", "reading", "pinging", "leaving", "done"}]
          /\ writer' \in [Clients -> {"off", "waiting", "writing", "done"}]
          /\ stage' \in [Clients -> {"new", "queued", "registered", "refused"}]
      BY <1>2, <1>4 DEF Accept
    <2>7. QED
      BY <1>2, <1>3, <2>2, <2>3, <2>4, <2>5, <2>6, SetOnlineType, RemoveClientsType DEF event
  <1>5. CASE Refuse(c)
    BY <1>2, <1>3, <1>5 DEF Refuse, event
  <1>6. QED
    BY <1>4, <1>5 DEF HandleRegister

LEMMA UnregisterType ==
  ASSUME TypeOK, HandleUnregister
  PROVE  TypeOK'
  <1> USE HubAssumption DEF TypeOK
  <1> DEFINE c == Head(unregisterQ)
  <1>1. unregisterQ' = Tail(unregisterQ) /\ unregisterQ # <<>>
    BY DEF HandleUnregister
  <1>2. c \in Clients /\ unregisterQ' \in Seq(Clients) /\ Owner[c] \in Users
    BY <1>1, Receive
  <1>3. UNCHANGED <<looping, registerQ, broadcastQ, chats, gone, stage, pumps, loggedIn, event>>
    BY DEF HandleUnregister
  <1>4. CASE c \in clients
    <2>1. clients' \in SUBSET Clients /\ RemoveClients({c})
      BY <1>4 DEF HandleUnregister
    <2>2. SetOnline(Owner[c], FALSE) \/ UNCHANGED <<online, missed>>
      BY <1>4 DEF HandleUnregister
    <2>3. online' \in [Users -> BOOLEAN] /\ missed' \in SUBSET Users
      BY <1>2, <2>2, SetOnlineType
    <2>4. /\ open' \in SUBSET Clients /\ closed' \in SUBSET Clients
          /\ phase' \in {"up", "stopping", "stopped", "panicked"}
      BY <1>2, <2>1, RemoveClientsType
    <2>5. QED
      BY <1>2, <1>3, <2>1, <2>3, <2>4 DEF pumps, event
  <1>5. CASE c \notin clients
    <2>1. UNCHANGED <<phase, clients, open, closed, online, missed>>
      BY <1>5 DEF HandleUnregister
    <2>2. QED
      BY <1>2, <1>3, <2>1 DEF pumps, event
  <1>6. QED
    BY <1>4, <1>5

LEMMA BroadcastType ==
  ASSUME TypeOK, HandleBroadcast
  PROVE  TypeOK'
  <1> USE DEF TypeOK
  <1> DEFINE msg == Head(broadcastQ)
             put == {c \in Recipients(msg) : buffer[c] < SendCap}
  <1>1. broadcastQ' = Tail(broadcastQ) /\ broadcastQ # <<>>
    BY DEF HandleBroadcast
  <1>2. msg \in Message /\ broadcastQ' \in Seq(Message)
    BY <1>1, Receive
  <1>3. msg.event \in Events /\ put \subseteq Clients
    BY <1>2 DEF Message, Recipients
  <1>4. phase' \in {"up", "stopping", "stopped", "panicked"}
    BY DEF HandleBroadcast
  <1>5. buffer' = [c \in Clients |-> IF c \in put THEN buffer[c] + 1 ELSE buffer[c]]
    BY DEF HandleBroadcast
  <1>6. handled' = handled \union {msg.event} /\ delivered' = delivered \union ({msg.event} \X put)
    BY DEF HandleBroadcast
  <1> HIDE DEF msg, put
  <1>7. buffer' \in [Clients -> Nat]
    BY <1>5
  <1>8. handled' \in SUBSET Events /\ delivered' \in SUBSET (Events \X Clients)
    BY <1>3, <1>6
  <1>9. UNCHANGED <<looping, registerQ, unregisterQ, clients, chats, open, conn, reader, writer,
                    tokens, refilled, users, pending>>
    BY DEF HandleBroadcast
  <1>10. QED
    BY <1>2, <1>4, <1>7, <1>8, <1>9 DEF conn, users

(* Every step keeps the types.                                             *)
LEMMA TypeStep == TypeOK /\ [Next]_vars => TypeOK'
  <1> SUFFICES ASSUME TypeOK, [Next]_vars PROVE TypeOK'
    OBVIOUS
  <1> USE HubAssumption DEF TypeOK
  <1>1. CASE Loop
    BY <1>1, RegisterType, UnregisterType, BroadcastType
    DEF Loop, RunReturns, queues, conn, pumps, users, event
  <1>2. CASE Shutdown
    BY <1>2 DEF Shutdown, CloseStopChan, StopClients, queues, conn, pumps, users, event
  <1>3. ASSUME NEW u \in Logins, Login(u) PROVE TypeOK'
    BY <1>3 DEF Login, queues, conn, pumps, event
  <1>4. ASSUME NEW e \in Events, Handle(e) PROVE TypeOK'
    <2>1. [event |-> e, chat |-> NoChat, users |-> {}] \in Message
      BY DEF Message
    <2>2. broadcastQ' \in Seq(Message)
      BY <1>4, <2>1 DEF Handle
    <2>3. QED
      BY <1>4, <2>2 DEF Handle, conn, pumps, users
  <1>5. ASSUME NEW c \in Clients, Outside(c) PROVE TypeOK'
    <2>1. CASE Register(c)
      <3>1. registerQ' \in Seq(Clients) /\ open' = open
        BY <2>1 DEF Register
      <3>2. stage' = [stage EXCEPT ![c] = "queued"]
        BY <2>1 DEF Register
      <3>3. QED
        BY <2>1, <3>1, <3>2 DEF Register, pumps, users, event
    <2>2. CASE Leave(c)
      BY <2>2 DEF Leave, queues, pumps, users, event
    <2>3. CASE Refill(c)
      BY <2>3 DEF Refill, queues, conn, users, event
    <2>4. QED
      BY <1>5, <2>1, <2>2, <2>3 DEF Outside
  <1>6. ASSUME NEW c \in Clients, Reading(c) PROVE TypeOK'
    <2>1. CASE ReadPing(c)
      BY <2>1 DEF ReadPing, queues, conn, users, event
    <2>2. CASE SendPong(c)
      <3>1. /\ buffer' \in [Clients -> Nat]
            /\ reader' \in [Clients -> {"off", "reading", "pinging", "leaving", "done"}]
            /\ phase' \in {"up", "stopping", "stopped", "panicked"}
        <4>1. CASE c \in open
          <5>1. /\ buffer' = [buffer EXCEPT ![c] = @ + 1]
                /\ reader' = [reader EXCEPT ![c] = "reading"]
                /\ phase' = phase
            BY <2>2, <4>1 DEF SendPong
          <5>2. buffer' \in [Clients -> Nat]
            BY <5>1
          <5>3. reader' \in [Clients -> {"off", "reading", "pinging", "leaving", "done"}]
            BY <5>1
          <5>4. QED
            BY <5>1, <5>2, <5>3
        <4>2. CASE c \notin open
          BY <2>2, <4>2 DEF SendPong
        <4>3. QED
          BY <4>1, <4>2
      <3>2. QED
        BY <2>2, <3>1 DEF SendPong, queues, conn, users, event
    <2>3. CASE ReadFails(c)
      BY <2>3 DEF ReadFails, queues, conn, users, event
    <2>4. CASE Unregister(c)
      BY <2>4 DEF Unregister, users, event
    <2>5. QED
      BY <1>6, <2>1, <2>2, <2>3, <2>4 DEF Reading
  <1>7. ASSUME NEW c \in Clients, Writing(c) PROVE TypeOK'
    <2>1. CASE TakeAll(c)
      BY <2>1 DEF TakeAll, queues, conn, users, event
    <2>2. CASE Written(c)
      BY <2>2 DEF Written, queues, conn, users, event
    <2>3. CASE WriterReturns(c)
      BY <2>3 DEF WriterReturns, queues, users, event
    <2>4. QED
      BY <1>7, <2>1, <2>2, <2>3 DEF Writing
  <1>8. CASE UNCHANGED vars
    BY <1>8 DEF vars, queues, conn, pumps, users, event
  <1>9. QED
    BY <1>1, <1>2, <1>3, <1>4, <1>5, <1>6, <1>7, <1>8 DEF Next
-----------------------------------------------------------------------------
(* The map, its queue and the channels.                                    *)

(* Four steps touch the handshakes, the map or an open channel, and        *)
(* nothing runs in a process that has panicked.                            *)
LEMMA MapSteps ==
  ASSUME [Next]_vars
  PROVE  /\ \/ UNCHANGED <<registerQ, clients, open, stage>>
            \/ \E c \in Clients : Register(c)
            \/ HandleRegister
            \/ HandleUnregister
            \/ StopClients
         /\ phase' # "panicked" => phase # "panicked"
  BY DEF Next, Loop, HandleRegister, HandleUnregister, HandleBroadcast, RunReturns, Shutdown,
         CloseStopChan, StopClients, Login, Handle, Outside, Register, Leave, Refill, Reading,
         ReadPing, SendPong, ReadFails, Unregister, Writing, TakeAll, Written, WriterReturns,
         Running, vars, queues, conn, pumps, users, event

(* The connection the loop takes from the register channel is new to the   *)
(* map, open, and not in the channel a second time.                        *)
LEMMA HeadIsNew ==
  ASSUME IInv, registerQ # <<>>, NEW c, c = Head(registerQ)
  PROVE  /\ c \in Clients /\ c \notin clients /\ c \in open
         /\ Tail(registerQ) \in Seq(Clients)
         /\ \A i \in 1 .. Len(Tail(registerQ)) :
              Tail(registerQ)[i] # c /\ stage[Tail(registerQ)[i]] = "queued"
         /\ \A i, j \in 1 .. Len(Tail(registerQ)) :
              Tail(registerQ)[i] = Tail(registerQ)[j] => i = j
  <1> USE DEF IInv, TypeOK
  <1>1. /\ c \in Clients /\ c = registerQ[1] /\ 1 \in 1 .. Len(registerQ)
        /\ Tail(registerQ) \in Seq(Clients)
        /\ \A i \in 1 .. Len(Tail(registerQ)) :
             i + 1 \in 1 .. Len(registerQ) /\ Tail(registerQ)[i] = registerQ[i + 1]
    BY Receive
  <1>2. stage[c] = "queued"
    BY <1>1 DEF QueueInv
  <1>3. c \notin clients /\ c \in open
    BY <1>1, <1>2 DEF QueueInv, MapInv
  <1>4. \A i \in 1 .. Len(Tail(registerQ)) : Tail(registerQ)[i] # c
    <2>1. \A i \in 1 .. Len(Tail(registerQ)) : i + 1 # 1
      OBVIOUS
    <2>2. QED
      BY <1>1, <2>1 DEF QueueInv
  <1>5. \A i \in 1 .. Len(Tail(registerQ)) : stage[Tail(registerQ)[i]] = "queued"
    BY <1>1 DEF QueueInv
  <1>6. \A i, j \in 1 .. Len(Tail(registerQ)) : Tail(registerQ)[i] = Tail(registerQ)[j] => i = j
    <2>1. \A i, j \in 1 .. Len(Tail(registerQ)) : i + 1 = j + 1 => i = j
      OBVIOUS
    <2>2. QED
      BY <1>1, <2>1 DEF QueueInv
  <1>7. QED
    BY <1>1, <1>3, <1>4, <1>5, <1>6

LEMMA OneLess ==
  ASSUME NEW S, IsFiniteSet(S), NEW x \in S
  PROVE  IsFiniteSet(S \ {x}) /\ Cardinality(S \ {x}) = Cardinality(S) - 1
  BY FS_RemoveElement

(* Making room closes an entry of the map at most, and puts the new        *)
(* connection into it.                                                     *)
LEMMA AcceptedMap ==
  ASSUME IInv, HandleRegister, NEW c, c = Head(registerQ), Accept(c)
  PROVE  \E kicked \in SUBSET Connections(Owner[c]) :
           /\ Cardinality(kicked) = IF Cardinality(Connections(Owner[c])) >= MaxConns THEN 1 ELSE 0
           /\ clients' = (clients \ kicked) \union {c}
           /\ open' = open \ kicked
           /\ phase # "panicked" /\ phase' = phase
           /\ stage' = [stage EXCEPT ![c] = "registered"]
           /\ registerQ' = Tail(registerQ)
  <1>1. PICK kicked \in SUBSET Connections(Owner[c]) : MakeRoom(c, kicked)
    BY DEF Accept
  <1>2. phase # "panicked" /\ registerQ' = Tail(registerQ)
    BY DEF HandleRegister, Running
  <1>3. kicked \subseteq open
    BY <1>2 DEF IInv, MapHoldsOpenChannels, Connections
  <1>4. QED
    BY <1>1, <1>2, <1>3 DEF MakeRoom, RemoveClients, Accept

(* Whoever leaves the map is open until then, and an accepted connection   *)
(* comes from the channel: the map holds open channels, of registered      *)
(* connections.                                                            *)
LEMMA MapStep == IInv /\ [Next]_vars => QueueInv' /\ MapInv' /\ MapHoldsOpenChannels'
  <1> SUFFICES ASSUME IInv, [Next]_vars PROVE QueueInv' /\ MapInv' /\ MapHoldsOpenChannels'
    OBVIOUS
  <1> DEFINE Goal == QueueInv' /\ MapInv' /\ MapHoldsOpenChannels'
  <1> USE HubAssumption DEF IInv, TypeOK
  <1>1. CASE UNCHANGED <<registerQ, clients, open, stage>>
    BY <1>1, MapSteps DEF QueueInv, MapInv, MapHoldsOpenChannels
  <1>2. ASSUME NEW c \in Clients, Register(c) PROVE Goal
    <2>1. /\ stage[c] = "new" /\ stage' = [stage EXCEPT ![c] = "queued"]
          /\ registerQ' = Append(registerQ, c)
          /\ UNCHANGED <<clients, open, phase>>
      BY <1>2 DEF Register
    <2>2. /\ Len(registerQ') = Len(registerQ) + 1
          /\ Len(registerQ) \in Nat
          /\ \A i \in 1 .. Len(registerQ) : registerQ'[i] = registerQ[i] /\ registerQ[i] # c
          /\ registerQ'[Len(registerQ) + 1] = c
      BY <2>1, AppendProperties, LenProperties DEF QueueInv
    <2>3. \A i \in 1 .. Len(registerQ') : i \in 1 .. Len(registerQ) \/ i = Len(registerQ) + 1
      <3>1. PICK n \in Nat : n = Len(registerQ)
        BY <2>2
      <3>2. Len(registerQ') = n + 1
        BY <2>2, <3>1
      <3>3. \A i \in 1 .. (n + 1) : i \in 1 .. n \/ i = n + 1
        OBVIOUS
      <3>4. QED
        BY <3>1, <3>2, <3>3
    <2>4. \A i \in 1 .. Len(registerQ) : registerQ[i] \in Clients
      BY ElementOfSeq
    <2>5. \A i \in 1 .. Len(registerQ') : stage'[registerQ'[i]] = "queued"
      BY <2>1, <2>2, <2>3, <2>4 DEF QueueInv
    <2>6. \A i, j \in 1 .. Len(registerQ') : registerQ'[i] = registerQ'[j] => i = j
      <3>1. ASSUME NEW i \in 1 .. Len(registerQ'), NEW j \in 1 .. Len(registerQ'),
                   registerQ'[i] = registerQ'[j]
            PROVE  i = j
        <4>1. CASE i \in 1 .. Len(registerQ) /\ j \in 1 .. Len(registerQ)
          BY <2>2, <3>1, <4>1 DEF QueueInv
        <4>2. CASE i \in 1 .. Len(registerQ) /\ j = Len(registerQ) + 1
          BY <2>2, <3>1, <4>2
        <4>3. CASE i = Len(registerQ) + 1 /\ j \in 1 .. Len(registerQ)
          BY <2>2, <3>1, <4>3
        <4>4. QED
          BY <2>3, <4>1, <4>2, <4>3
      <3>2. QED
        BY <3>1
    <2>7. \A d \in Clients : stage'[d] \in {"new", "queued"} => d \in open'
      BY <2>1 DEF QueueInv
    <2>8. MapInv' /\ MapHoldsOpenChannels'
      BY <2>1 DEF MapInv, MapHoldsOpenChannels
    <2>9. QED
      BY <2>5, <2>6, <2>7, <2>8 DEF QueueInv
  <1>3. CASE HandleRegister
    <2>1. PICK c : c = Head(registerQ)
      OBVIOUS
    <2>2. registerQ # <<>> /\ registerQ' = Tail(registerQ) /\ phase # "panicked"
      BY <1>3 DEF HandleRegister, Running
    <2>3. CASE Accept(c)
      <3>1. PICK kicked \in SUBSET Connections(Owner[c]) :
              /\ clients' = (clients \ kicked) \union {c}
              /\ open' = open \ kicked
              /\ phase' = phase
              /\ stage' = [stage EXCEPT ![c] = "registered"]
        BY <1>3, <2>1, <2>3, AcceptedMap
      <3>2. kicked \subseteq clients /\ \A d \in kicked : stage[d] = "registered"
        BY DEF Connections, MapInv
      <3>3. QueueInv'
        <4>1. /\ registerQ' \in Seq(Clients)
              /\ \A i \in 1 .. Len(registerQ') :
                   registerQ'[i] # c /\ stage[registerQ'[i]] = "queued"
              /\ \A i, j \in 1 .. Len(registerQ') : registerQ'[i] = registerQ'[j] => i = j
          BY <2>1, <2>2, HeadIsNew
        <4>2. \A i \in 1 .. Len(registerQ') : stage'[registerQ'[i]] = "queued"
          BY <3>1, <4>1, ElementOfSeq
        <4>3. \A d \in Clients : stage'[d] \in {"new", "queued"} => d \in open'
          BY <3>1, <3>2 DEF QueueInv
        <4>4. QED
          BY <4>1, <4>2, <4>3 DEF QueueInv
      <3>4. IsFiniteSet(clients')
        <4>1. IsFiniteSet(clients \ kicked)
          BY FS_Subset DEF MapInv
        <4>2. QED
          BY <3>1, <4>1, FS_AddElement
      <3>5. MapInv'
        BY <2>1, <2>2, <3>1, <3>4, HeadIsNew DEF MapInv
      <3>6. MapHoldsOpenChannels'
        BY <2>1, <2>2, <3>1, <3>2, HeadIsNew DEF MapHoldsOpenChannels
      <3>7. QED
        BY <3>3, <3>5, <3>6
    <2>4. CASE Refuse(c)
      <3>1. UNCHANGED <<phase, clients, open>> /\ stage' = [stage EXCEPT ![c] = "refused"]
        BY <2>4 DEF Refuse
      <3>2. QueueInv'
        <4>1. /\ registerQ' \in Seq(Clients)
              /\ \A i \in 1 .. Len(registerQ') :
                   registerQ'[i] # c /\ stage[registerQ'[i]] = "queued"
              /\ \A i, j \in 1 .. Len(registerQ') : registerQ'[i] = registerQ'[j] => i = j
          BY <2>1, <2>2, HeadIsNew
        <4>2. \A i \in 1 .. Len(registerQ') : stage'[registerQ'[i]] = "queued"
          BY <3>1, <4>1, ElementOfSeq
        <4>3. \A d \in Clients : stage'[d] \in {"new", "queued"} => d \in open'
          BY <3>1 DEF QueueInv
        <4>4. QED
          BY <4>1, <4>2, <4>3 DEF QueueInv
      <3>3. MapInv' /\ MapHoldsOpenChannels'
        BY <2>1, <2>2, <3>1, HeadIsNew DEF MapInv, MapHoldsOpenChannels
      <3>4. QED
        BY <3>2, <3>3
    <2>5. QED
      BY <1>3, <2>1, <2>3, <2>4 DEF HandleRegister
  <1>4. ASSUME NEW C \in SUBSET clients, clients' = clients \ C, open' = open \ C,
               UNCHANGED <<registerQ, stage>>
        PROVE  Goal
    <2>1. IsFiniteSet(clients')
      BY <1>4, FS_Subset DEF MapInv
    <2>2. \A c \in C : stage[c] = "registered"
      BY <1>4 DEF MapInv
    <2>3. QED
      BY <1>4, <2>1, <2>2, MapSteps DEF QueueInv, MapInv, MapHoldsOpenChannels
  <1>5. CASE HandleUnregister
    <2>1. UNCHANGED <<registerQ, stage>>
      BY <1>5 DEF HandleUnregister
    <2>2. PICK c : c = Head(unregisterQ)
      OBVIOUS
    <2>3. CASE c \in clients
      <3>1. clients' = clients \ {c} /\ open' = open \ {c}
        BY <1>5, <2>2, <2>3 DEF HandleUnregister, RemoveClients
      <3>2. {c} \in SUBSET clients
        BY <2>3
      <3>3. QED
        BY <1>4, <2>1, <3>1, <3>2
    <2>4. CASE c \notin clients
      BY <1>1, <1>5, <2>1, <2>2, <2>4 DEF HandleUnregister
    <2>5. QED
      BY <2>3, <2>4
  <1>6. CASE StopClients
    <2>1. clients' = clients \ clients /\ open' = open \ clients /\ UNCHANGED <<registerQ, stage>>
      BY <1>6 DEF StopClients, queues
    <2>2. QED
      BY <1>4, <2>1
  <1>7. QED
    BY <1>1, <1>2, <1>3, <1>5, <1>6, MapSteps

(* A user gains a connection only where there is room, or in the place of  *)
(* an evicted one.                                                         *)
LEMMA LimitStep == IInv /\ [Next]_vars => ConnectionLimit'
  <1> SUFFICES ASSUME IInv, [Next]_vars, NEW u \in Users
               PROVE  Cardinality(Connections(u)') <= MaxConns
    BY DEF ConnectionLimit, Connections
  <1> USE HubAssumption
  <1>1. /\ IsFiniteSet(Connections(u)) /\ Cardinality(Connections(u)) \in Nat
        /\ Cardinality(Connections(u)) <= MaxConns
    <2>1. Connections(u) \in SUBSET clients
      BY DEF Connections
    <2>2. QED
      BY <2>1, FS_Subset, FS_CardinalityType DEF IInv, MapInv, ConnectionLimit
  <1>2. ASSUME Connections(u)' \in SUBSET Connections(u)
        PROVE  Cardinality(Connections(u)') <= MaxConns
    <2>1. Cardinality(Connections(u)') <= Cardinality(Connections(u))
      BY <1>1, <1>2, FS_Subset
    <2>2. IsFiniteSet(Connections(u)')
      BY <1>1, <1>2, FS_Subset
    <2>3. Cardinality(Connections(u)') \in Nat
      BY <2>2, FS_CardinalityType
    <2>4. QED
      BY <1>1, <2>1, <2>3
  <1>3. CASE clients' \subseteq clients
    BY <1>2, <1>3 DEF Connections
  <1>4. CASE HandleRegister
    <2>1. PICK c : c = Head(registerQ)
      OBVIOUS
    <2>2. CASE Refuse(c)
      BY <1>3, <2>2 DEF Refuse
    <2>3. CASE Accept(c)
      <3>1. PICK kicked \in SUBSET Connections(Owner[c]) :
              /\ Cardinality(kicked) = IF Cardinality(Connections(Owner[c])) >= MaxConns THEN 1 ELSE 0
              /\ clients' = (clients \ kicked) \union {c}
        BY <1>4, <2>1, <2>3, AcceptedMap
      <3>2. CASE u # Owner[c]
        <4>1. Connections(u)' = Connections(u)
          BY <3>1, <3>2 DEF Connections
        <4>2. QED
          BY <1>2, <4>1
      <3>3. CASE u = Owner[c]
        <4>1. Connections(u)' = (Connections(u) \ kicked) \union {c}
          BY <3>1, <3>3 DEF Connections
        <4>2. IsFiniteSet(kicked)
          BY <1>1, <3>1, <3>3, FS_Subset
        <4>3. \E n \in Nat : /\ IsFiniteSet(Connections(u) \ kicked)
                             /\ Cardinality(Connections(u) \ kicked) = n
                             /\ n + 1 <= MaxConns
          <5>1. CASE Cardinality(Connections(u)) >= MaxConns
            <6>1. PICK k : kicked = {k}
              BY <3>1, <3>3, <4>2, <5>1, FS_Singleton
            <6>2. k \in Connections(u)
              BY <3>1, <3>3, <6>1
            <6>3. /\ IsFiniteSet(Connections(u) \ {k})
                  /\ Cardinality(Connections(u) \ {k}) = Cardinality(Connections(u)) - 1
              <7>1. PICK S : S = Connections(u)
                OBVIOUS
              <7>2. IsFiniteSet(S) /\ k \in S
                BY <1>1, <6>2, <7>1
              <7>3. QED
                BY <7>1, <7>2, OneLess
            <6>4. Cardinality(Connections(u)) - 1 \in Nat
              BY <1>1, <5>1
            <6>5. QED
              BY <1>1, <6>1, <6>3, <6>4
          <5>2. CASE ~(Cardinality(Connections(u)) >= MaxConns)
            <6>1. kicked = {}
              BY <3>1, <3>3, <4>2, <5>2, FS_EmptySet
            <6>2. Connections(u) \ kicked = Connections(u)
              BY <6>1
            <6>3. Cardinality(Connections(u)) + 1 <= MaxConns
              BY <1>1, <5>2
            <6>4. QED
              BY <1>1, <6>2, <6>3
          <5>3. QED
            BY <5>1, <5>2
        <4>4. PICK n \in Nat : /\ IsFiniteSet(Connections(u) \ kicked)
                               /\ Cardinality(Connections(u) \ kicked) = n
                               /\ n + 1 <= MaxConns
          BY <4>3
        <4>5. Cardinality(Connections(u)') \in {n, n + 1}
          BY <4>1, <4>4, FS_AddElement
        <4>6. QED
          BY <4>4, <4>5
      <3>4. QED
        BY <3>2, <3>3
    <2>4. QED
      BY <1>4, <2>1, <2>2, <2>3 DEF HandleRegister
  <1>5. ASSUME HandleUnregister \/ StopClients \/ \E c \in Clients : Register(c)
        PROVE  clients' \subseteq clients
    BY <1>5 DEF HandleUnregister, StopClients, Register
  <1>6. QED
    BY <1>3, <1>4, <1>5, MapSteps
-----------------------------------------------------------------------------
(* Pongs.                                                                  *)

(* Nothing but Handle extends the broadcast channel.                       *)
LEMMA BroadcastStep == IInv /\ [Next]_vars => BroadcastInv'
  <1> SUFFICES ASSUME TypeOK, BroadcastInv, [Next]_vars PROVE BroadcastInv'
    BY DEF IInv
  <1>1. CASE broadcastQ' = broadcastQ
    BY <1>1 DEF BroadcastInv
  <1>2. CASE HandleBroadcast
    <2>1. broadcastQ \in Seq(Message) /\ broadcastQ # <<>> /\ broadcastQ' = Tail(broadcastQ)
      BY <1>2 DEF HandleBroadcast, TypeOK
    <2>2. QED
      BY <2>1, Receive DEF BroadcastInv
  <1>3. ASSUME NEW e \in Events, Handle(e) PROVE BroadcastInv'
    <2>1. PICK m : m = [event |-> e, chat |-> NoChat, users |-> {}]
      OBVIOUS
    <2>2. /\ m \in Message /\ m.chat = NoChat /\ m.users = {}
          /\ broadcastQ' = Append(broadcastQ, m)
      BY <1>3, <2>1 DEF Handle, Message
    <2>3. PICK n \in Nat : n = Len(broadcastQ)
      BY LenProperties DEF TypeOK
    <2>4. /\ Len(broadcastQ') = n + 1
          /\ broadcastQ'[n + 1] = m
          /\ \A i \in 1 .. n : broadcastQ'[i] = broadcastQ[i]
      BY <2>2, <2>3, AppendProperties DEF TypeOK
    <2>5. \A i \in 1 .. (n + 1) : i \in 1 .. n \/ i = n + 1
      OBVIOUS
    <2>6. QED
      BY <2>2, <2>3, <2>4, <2>5 DEF BroadcastInv
  <1>4. QED
    BY <1>1, <1>2, <1>3
    DEF Next, Loop, HandleRegister, HandleUnregister, RunReturns, Shutdown, CloseStopChan,
        StopClients, Login, Outside, Register, Leave, Refill, Reading, ReadPing, SendPong,
        ReadFails, Unregister, Writing, TakeAll, Written, WriterReturns, vars, queues

(* A broadcast of the event handler reaches nobody.                        *)
LEMMA BroadcastPutsNothing ==
  ASSUME IInv, HandleBroadcast
  PROVE  buffer' = buffer /\ phase' = phase
  <1> DEFINE msg == Head(broadcastQ)
  <1>1. msg.chat = NoChat /\ msg.users = {}
    BY Receive DEF IInv, TypeOK, BroadcastInv, HandleBroadcast
  <1>2. Recipients(msg) = {}
    BY <1>1 DEF Recipients
  <1> HIDE DEF msg
  <1>3. buffer' = [c \in Clients |-> buffer[c]] /\ phase' = phase
    BY <1>2 DEF HandleBroadcast, msg
  <1>4. QED
    BY <1>3 DEF IInv, TypeOK

(* Pings, pongs, refills and the writer keep the account of the tokens.    *)
LEMMA PongStep == IInv /\ [Next]_vars => PongInv'
  <1> SUFFICES ASSUME IInv, [Next]_vars, NEW d \in Clients
               PROVE  /\ tokens'[d] + InHand(d)' <= PingTokens
                      /\ buffer'[d] + tokens'[d] + InHand(d)'
                           <= IF refilled'[d] THEN 2 * PingTokens ELSE PingTokens
    BY DEF PongInv, InHand
  <1> DEFINE Goal == /\ tokens'[d] + InHand(d)' <= PingTokens
                     /\ buffer'[d] + tokens'[d] + InHand(d)'
                          <= IF refilled'[d] THEN 2 * PingTokens ELSE PingTokens
  <1>1. /\ PingTokens \in Nat
        /\ tokens \in [Clients -> Nat] /\ buffer \in [Clients -> Nat]
        /\ reader \in [Clients -> {"off", "reading", "pinging", "leaving", "done"}]
        /\ refilled \in [Clients -> BOOLEAN]
        /\ tokens[d] \in Nat /\ buffer[d] \in Nat
        /\ tokens[d] + InHand(d) <= PingTokens
        /\ buffer[d] + tokens[d] + InHand(d) <= IF refilled[d] THEN 2 * PingTokens ELSE PingTokens
    BY HubAssumption DEF IInv, TypeOK, PongInv
  <1>2. ASSUME tokens'[d] = tokens[d], buffer'[d] = buffer[d], refilled'[d] = refilled[d],
               reader'[d] = reader[d] \/ reader'[d] # "pinging"
        PROVE  Goal
    BY <1>1, <1>2 DEF InHand
  <1>3. CASE HandleRegister
    <2>1. UNCHANGED <<tokens, buffer, refilled>>
      BY <1>3 DEF HandleRegister
    <2>2. \/ reader' = [reader EXCEPT ![Head(registerQ)] = "reading"]
          \/ reader' = reader
      BY <1>3 DEF HandleRegister, Accept, Refuse
    <2>3. reader'[d] = reader[d] \/ reader'[d] # "pinging"
      BY <1>1, <2>2
    <2>4. QED
      BY <1>2, <2>1, <2>3
  <1>4. CASE HandleBroadcast
    BY <1>2, <1>4, BroadcastPutsNothing DEF HandleBroadcast
  <1>5. ASSUME NEW c \in Clients, Refill(c) PROVE Goal
    <2>1. CASE c = d
      <3>1. /\ reader[d] = "reading" /\ reader' = reader /\ buffer' = buffer
            /\ ~refilled[d] /\ tokens'[d] = PingTokens /\ refilled'[d]
        BY <1>1, <1>5, <2>1 DEF Refill
      <3>2. InHand(d) = 0 /\ InHand(d)' = 0
        BY <3>1 DEF InHand
      <3>3. QED
        BY <1>1, <3>1, <3>2
    <2>2. CASE c # d
      BY <1>1, <1>2, <1>5, <2>2 DEF Refill
    <2>3. QED
      BY <2>1, <2>2
  <1>6. ASSUME NEW c \in Clients, ReadPing(c) PROVE Goal
    <2>1. CASE c = d
      <3>1. /\ reader[d] = "reading" /\ reader'[d] = "pinging"
            /\ tokens[d] > 0 /\ tokens'[d] = tokens[d] - 1
            /\ UNCHANGED <<buffer, refilled>>
        BY <1>1, <1>6, <2>1 DEF ReadPing
      <3>2. InHand(d) = 0 /\ InHand(d)' = 1
        BY <3>1 DEF InHand
      <3>3. QED
        BY <1>1, <3>1, <3>2
    <2>2. CASE c # d
      BY <1>1, <1>2, <1>6, <2>2 DEF ReadPing
    <2>3. QED
      BY <2>1, <2>2
  <1>7. ASSUME NEW c \in Clients, SendPong(c) PROVE Goal
    <2>1. CASE c = d /\ c \in open
      <3>1. /\ reader[d] = "pinging" /\ reader'[d] = "reading"
            /\ buffer'[d] = buffer[d] + 1
            /\ UNCHANGED <<tokens, refilled>>
        BY <1>1, <1>7, <2>1 DEF SendPong
      <3>2. InHand(d) = 1 /\ InHand(d)' = 0
        BY <3>1 DEF InHand
      <3>3. QED
        BY <1>1, <3>1, <3>2
    <2>2. CASE c # d \/ c \notin open
      BY <1>1, <1>2, <1>7, <2>2 DEF SendPong
    <2>3. QED
      BY <2>1, <2>2
  <1>8. ASSUME NEW c \in Clients, TakeAll(c) PROVE Goal
    <2>1. CASE c = d
      <3>1. buffer'[d] = 0 /\ ~refilled'[d] /\ UNCHANGED <<tokens, reader>>
        BY <1>1, <1>8, <2>1 DEF TakeAll
      <3>2. InHand(d)' = InHand(d) /\ InHand(d) \in Nat
        BY <3>1 DEF InHand
      <3>3. QED
        BY <1>1, <3>1, <3>2
    <2>2. CASE c # d
      BY <1>1, <1>2, <1>8, <2>2 DEF TakeAll
    <2>3. QED
      BY <2>1, <2>2
  <1>9. ASSUME NEW c \in Clients, ReadFails(c) \/ Unregister(c) PROVE Goal
    BY <1>1, <1>2, <1>9 DEF ReadFails, Unregister
  <1>10. ASSUME UNCHANGED <<tokens, buffer, refilled, reader>> PROVE Goal
    BY <1>2, <1>10
  <1>11. QED
    BY <1>3, <1>4, <1>5, <1>6, <1>7, <1>8, <1>9, <1>10
    DEF Next, Loop, HandleUnregister, RunReturns, Shutdown, CloseStopChan, StopClients, Login,
        Handle, Outside, Register, Leave, Reading, Writing, Written, WriterReturns, vars, pumps

-----------------------------------------------------------------------------

LEMMA IInvStep == IInv /\ [Next]_vars => IInv'
  <1> SUFFICES ASSUME IInv, [Next]_vars PROVE IInv'
    OBVIOUS
  <1>1. TypeOK'
    BY TypeStep DEF IInv
  <1>2. QueueInv' /\ MapInv' /\ MapHoldsOpenChannels'
    BY MapStep
  <1>3. QED
    BY <1>1, <1>2, LimitStep, BroadcastStep, PongStep DEF IInv

LEMMA Invariance == Spec => []IInv
  BY InitIInv, IInvStep, PTL DEF Spec

(* The entries of the map can all be written to, and no user has more of   *)
(* them than it may, however eviction, unregistration and Stop meet.       *)
THEOREM MapSound == Spec => []MapIsSound
  <1>1. IInv => MapIsSound
    BY DEF IInv, MapIsSound
  <1>2. QED
    BY <1>1, Invariance, PTL

(* Answering a ping never waits for room in the send channel: the tokens   *)
(* of two minutes fit into it, and nothing else is put there.              *)
THEOREM NeverWaits == Spec => []ReaderNeverWaits
  <1>1. IInv => ReaderNeverWaits
    <2> SUFFICES ASSUME IInv, NEW c \in Clients, reader[c] = "pinging"
                 PROVE  buffer[c] < SendCap
      BY DEF ReaderNeverWaits
    <2>1. /\ buffer[c] \in Nat /\ tokens[c] \in Nat /\ InHand(c) = 1
          /\ PingTokens \in Nat /\ SendCap \in Nat /\ 2 * PingTokens <= SendCap
      BY HubAssumption, TwoRefillsFit DEF IInv, TypeOK, InHand
    <2>2. buffer[c] + tokens[c] + InHand(c) <= IF refilled[c] THEN 2 * PingTokens ELSE PingTokens
      BY DEF IInv, PongInv
    <2>3. QED
      BY <2>1, <2>2
  <1>2. QED
    BY <1>1, Invariance, PTL

(* No channel is closed twice and no broadcast meets a closed one: what    *)
(* can still panic is a pong to a connection that was evicted, removed or  *)
(* stopped meanwhile.                                                      *)
THEOREM OnlyPong == Spec => OnlyPongPanics
  <1>1. IInv /\ [Next]_vars
          => [phase' = "panicked" => \E c \in Clients \ open : reader[c] = "pinging"]_phase
    <2> SUFFICES ASSUME IInv, [Next]_vars, phase' = "panicked", phase' # phase
                 PROVE  \E c \in Clients \ open : reader[c] = "pinging"
      OBVIOUS
    <2>1. clients \subseteq open
      BY DEF IInv, MapHoldsOpenChannels
    <2>2. CASE HandleRegister
      <3>1. PICK c : c = Head(registerQ)
        OBVIOUS
      <3>2. Accept(c) \/ Refuse(c)
        BY <2>2, <3>1 DEF HandleRegister
      <3>3. QED
        BY <2>2, <3>1, <3>2, AcceptedMap DEF Refuse
    <2>3. CASE HandleUnregister
      BY <2>1, <2>3 DEF HandleUnregister, RemoveClients
    <2>4. CASE HandleBroadcast
      BY <2>4, BroadcastPutsNothing
    <2>5. CASE StopClients
      BY <2>1, <2>5 DEF StopClients
    <2>6. ASSUME NEW c \in Clients, SendPong(c)
          PROVE  \E d \in Clients \ open : reader[d] = "pinging"
      BY <2>6 DEF SendPong
    <2>7. QED
      BY <2>2, <2>3, <2>4, <2>5, <2>6
      DEF Next, Loop, RunReturns, Shutdown, CloseStopChan, Login, Handle, Outside, Register, Leave,
          Refill, Reading, ReadPing, ReadFails, Unregister, Writing, TakeAll, Written,
          WriterReturns, vars
  <1>2. QED
    BY <1>1, Invariance, PTL DEF Spec, OnlyPongPanics
-----------------------------------------------------------------------------
(* Presence.                                                               *)

(* Accepting a connection says its user is online; only the last one of a  *)
(* user that leaves says it is offline.                                    *)
LEMMA PresenceStep == IInv /\ PresenceMatchesMap /\ [Next]_vars => PresenceMatchesMap'
  <1> SUFFICES ASSUME IInv, PresenceMatchesMap, [Next]_vars, phase' = "up",
                      NEW u \in Users, u \notin missed'
               PROVE  /\ Connections(u)' # {} => online'[u]
                      /\ online'[u] /\ u \notin loggedIn' => Connections(u)' # {}
    BY DEF PresenceMatchesMap, Connections
  <1> DEFINE Goal == /\ Connections(u)' # {} => online'[u]
                     /\ online'[u] /\ u \notin loggedIn' => Connections(u)' # {}
  <1> USE HubAssumption
  <1>1. phase = "up"
    BY MapSteps
    DEF Next, Loop, HandleRegister, HandleUnregister, HandleBroadcast, RunReturns, Shutdown,
        CloseStopChan, StopClients, Login, Handle, Outside, Register, Leave, Refill, Reading,
        ReadPing, SendPong, ReadFails, Unregister, Writing, TakeAll, Written, WriterReturns,
        Accept, MakeRoom, RemoveClients, Refuse, vars
  <1>2. /\ online \in [Users -> BOOLEAN] /\ clients \subseteq Clients
        /\ u \notin missed => /\ Connections(u) # {} => online[u]
                              /\ online[u] /\ u \notin loggedIn => Connections(u) # {}
    BY <1>1 DEF IInv, TypeOK, PresenceMatchesMap
  (* A statement for another user, or one that changes nothing of this.    *)
  <1>3. ASSUME UNCHANGED <<online, missed>> \/ \E v \in Users \ {u}, b \in BOOLEAN : SetOnline(v, b)
        PROVE  online'[u] = online[u] /\ u \notin missed
    BY <1>2, <1>3 DEF SetOnline
  <1>4. ASSUME NEW b \in BOOLEAN, SetOnline(u, b)
        PROVE  online'[u] = b
    BY <1>2, <1>4 DEF SetOnline
  <1>5. CASE UNCHANGED <<clients, online, missed, loggedIn>>
    BY <1>2, <1>5 DEF Connections
  <1>6. CASE HandleRegister
    <2>1. PICK c : c = Head(registerQ)
      OBVIOUS
    <2>2. loggedIn' = loggedIn /\ c \in Clients /\ Owner[c] \in Users
      BY <1>6, <2>1, HeadIsNew DEF HandleRegister
    <2>3. CASE Refuse(c)
      BY <1>5, <2>2, <2>3 DEF Refuse
    <2>4. CASE Accept(c)
      <3>1. PICK kicked \in SUBSET Connections(Owner[c]) : clients' = (clients \ kicked) \union {c}
        BY <1>6, <2>1, <2>4, AcceptedMap
      <3>2. SetOnline(Owner[c], TRUE)
        BY <2>4 DEF Accept
      <3>3. CASE u = Owner[c]
        <4>1. c \in Connections(u)'
          BY <3>1, <3>3 DEF Connections
        <4>2. online'[u]
          BY <1>4, <3>2, <3>3
        <4>3. QED
          BY <4>1, <4>2
      <3>4. CASE u # Owner[c]
        <4>1. Connections(u)' = Connections(u)
          BY <3>1, <3>4 DEF Connections
        <4>2. online'[u] = online[u] /\ u \notin missed
          BY <1>3, <2>2, <3>2, <3>4
        <4>3. QED
          BY <1>2, <2>2, <4>1, <4>2
      <3>5. QED
        BY <3>3, <3>4
    <2>5. QED
      BY <1>6, <2>1, <2>3, <2>4 DEF HandleRegister
  <1>7. CASE HandleUnregister
    <2>1. PICK c : c = Head(unregisterQ)
      OBVIOUS
    <2>2. loggedIn' = loggedIn
      BY <1>7 DEF HandleUnregister
    <2>3. CASE c \notin clients
      BY <1>5, <1>7, <2>1, <2>2, <2>3 DEF HandleUnregister
    <2>4. CASE c \in clients
      <3>1. /\ clients' = clients \ {c}
            /\ IF Connections(Owner[c]) = {c} THEN SetOnline(Owner[c], FALSE)
               ELSE UNCHANGED <<online, missed>>
        BY <1>7, <2>1, <2>4 DEF HandleUnregister
      <3>2. c \in Clients /\ Owner[c] \in Users
        BY <1>2, <2>4
      <3>3. CASE u = Owner[c] /\ Connections(u) = {c}
        <4>1. Connections(u)' = {}
          BY <3>1, <3>3 DEF Connections
        <4>2. online'[u] = FALSE
          BY <1>4, <3>1, <3>3
        <4>3. QED
          BY <4>1, <4>2
      <3>4. CASE u = Owner[c] /\ Connections(u) # {c}
        <4>1. Connections(u)' # {} /\ Connections(u) # {}
          BY <2>4, <3>1, <3>4 DEF Connections
        <4>2. online'[u] = online[u] /\ u \notin missed
          BY <1>3, <3>1, <3>4
        <4>3. QED
          BY <1>2, <4>1, <4>2
      <3>5. CASE u # Owner[c]
        <4>1. Connections(u)' = Connections(u)
          BY <3>1, <3>5 DEF Connections
        <4>2. online'[u] = online[u] /\ u \notin missed
          BY <1>3, <3>1, <3>2, <3>5
        <4>3. QED
          BY <1>2, <2>2, <4>1, <4>2
      <3>6. QED
        BY <3>3, <3>4, <3>5
    <2>5. QED
      BY <2>3, <2>4
  <1>8. ASSUME NEW v \in Users, Login(v) PROVE Goal
    <2>1. /\ online' = [online EXCEPT ![v] = TRUE] /\ loggedIn' = loggedIn \union {v}
          /\ UNCHANGED <<clients, missed>>
      BY <1>8 DEF Login
    <2>2. Connections(u)' = Connections(u)
      BY <2>1 DEF Connections
    <2>3. QED
      BY <1>2, <2>1, <2>2
  <1>9. CASE StopClients
    BY <1>1, <1>9 DEF StopClients
  <1>10. QED
    BY <1>5, <1>6, <1>7, <1>8, <1>9
    DEF Next, Loop, HandleBroadcast, RunReturns, Shutdown, CloseStopChan, Handle, Outside,
        Register, Leave, Refill, Reading, ReadPing, SendPong, ReadFails, Unregister, Writing,
        TakeAll, Written, WriterReturns, vars, users

(* While the hub runs, is_online agrees with the map, apart from users     *)
(* that only logged in and from statements that failed, with any number    *)
(* of connections, evictions and users.                                    *)
THEOREM PresenceMatches == Spec => []PresenceMatchesMap
  <1>1. Init => PresenceMatchesMap
    BY HubAssumption DEF Init, PresenceMatchesMap, Connections
  <1>2. QED
    BY <1>1, Invariance, PresenceStep, PTL DEF Spec
=============================================================================
