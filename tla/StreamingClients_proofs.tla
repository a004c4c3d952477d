----------------------- MODULE StreamingClients_proofs -----------------------
(***************************************************************************)
(* Proofs about the registry of TaskConnections, for any sets of tasks and *)
(* sockets and any bounds, and, because every step of StreamingClients is  *)
(* a step of TaskConnections or leaves its variables alone, with the       *)
(* clients of the pages that use it.  TypeOK and RegistryMatchesClients    *)
(* together are inductive: a socket is dropped only when nobody listens    *)
(* there any more, and the key goes with the last socket of its task.      *)
(* On that rests what the clients show, for any scripts:                   *)
(*   ContentInv   what was broadcast, and that the rest is noted elsewhere *)
(*   ClientInv    who still waits for the broadcast under way joined before*)
(*                it (Queued); a client has everything since it joined     *)
(*                (Gets), nothing else (Shows), and in order (Sorted)      *)
(***************************************************************************)
EXTENDS StreamingClients, TLAPS

RegistryInv == TypeOK /\ RegistryMatchesClients

LEMMA RegistryInit == Init => RegistryInv
<1> SUFFICES ASSUME Init PROVE RegistryInv
  OBVIOUS
<1>1. TypeOK
  BY BoundAssumption DEF Init, TypeOK, SocketStates
<1>2. RegistryMatchesClients
  BY DEF Init, RegistryMatchesClients, Listening
<1> QED
  BY <1>1, <1>2 DEF RegistryInv

(* disconnect() of a socket on which nobody listens.                       *)
LEMMA DisconnectKeepsRegistry ==
    ASSUME RegistryInv, NEW s \in Sockets, Disconnect(s),
           socket[s] # "receiving",
           socket' \in [Sockets -> SocketStates],
           \A z \in Sockets \ {s} : socket'[z] = socket[z],
           socket'[s] # "receiving"
    PROVE  /\ connections' \in [Tasks -> SUBSET Sockets] /\ keys' \subseteq Tasks
           /\ RegistryMatchesClients'
<1> DEFINE t == TaskOf[s]
<1>1. /\ t \in Tasks /\ TaskOf \in [Sockets -> Tasks]
      /\ connections \in [Tasks -> SUBSET Sockets] /\ keys \subseteq Tasks
      /\ RegistryMatchesClients
  BY TaskOfAssumption DEF RegistryInv, TypeOK
<1>2. /\ connections' = [connections EXCEPT ![t] = @ \ {s}]
      /\ keys' = IF connections[t] \subseteq {s} THEN keys \ {t} ELSE keys
  BY DEF Disconnect
<1> HIDE DEF t
<1>3. connections' \in [Tasks -> SUBSET Sockets] /\ keys' \subseteq Tasks
  BY <1>1, <1>2
<1>4. ASSUME NEW u \in Tasks
      PROVE  /\ Listening(u)' \subseteq connections'[u]
             /\ \A z \in connections'[u] :
                   TaskOf[z] = u /\ socket'[z] \in {"receiving", "left", "failed"}
  <2>1. connections'[u] = connections[u] \ (IF u = t THEN {s} ELSE {})
    BY <1>1, <1>2
  <2>2. s \in connections[u] => u = t
    BY <1>1 DEF RegistryMatchesClients, t
  <2>3. Listening(u)' \subseteq Listening(u) \ {s}
    BY DEF Listening
  <2> QED
    BY <1>1, <2>1, <2>2, <2>3 DEF RegistryMatchesClients
<1>5. keys' = {u \in Tasks : connections'[u] # {}}
  <2>1. keys = {u \in Tasks : connections[u] # {}}
    BY <1>1 DEF RegistryMatchesClients
  <2>2. \A u \in Tasks : connections'[u] = connections[u] \ (IF u = t THEN {s} ELSE {})
    BY <1>1, <1>2
  <2> QED
    BY <1>1, <1>2, <2>1, <2>2
<1> QED
  BY <1>3, <1>4, <1>5 DEF RegistryMatchesClients

LEMMA UnderWayIsBroadcast ==
    ASSUME TypeOK, sending.busy
    PROVE  sending \in Broadcasts
<1>1. Idle.busy = FALSE
  BY DEF Idle
<1>2. sending # Idle
  BY <1>1
<1> QED
  BY <1>2 DEF TypeOK

LEMMA RegistryStep == RegistryInv /\ [Next]_vars => RegistryInv'
<1> SUFFICES ASSUME RegistryInv, [Next]_vars PROVE RegistryInv'
  OBVIOUS
<1> USE DEF RegistryInv
<1>1. ASSUME NEW some \in SUBSET Sockets, Connect(some) PROVE RegistryInv'
  <2>1. socket' \in [Sockets -> SocketStates] /\ UNCHANGED <<connections, keys, sending>>
    BY <1>1 DEF Connect, TypeOK, SocketStates
  <2>2. TypeOK'
    BY <1>1, <2>1 DEF Connect, TypeOK
  <2>3. \A z \in Sockets : socket'[z] = socket[z]
                               \/ (socket[z] = "new" /\ socket'[z] = "accepting")
    BY <1>1 DEF Connect, TypeOK
  <2>4. ASSUME NEW u \in Tasks PROVE Listening(u)' = Listening(u)
    BY <2>3 DEF Listening
  <2>5. RegistryMatchesClients'
    BY <2>1, <2>3, <2>4 DEF RegistryMatchesClients, TypeOK
  <2> QED
    BY <2>2, <2>5
<1>2. ASSUME NEW s \in Sockets, Accepted(s) PROVE RegistryInv'
  <2> DEFINE t == TaskOf[s]
  <2>1. t \in Tasks /\ TaskOf \in [Sockets -> Tasks]
    BY TaskOfAssumption
  <2>2. /\ connections' = [connections EXCEPT ![t] = @ \cup {s}] /\ keys' = keys \cup {t}
        /\ socket[s] = "accepting" /\ socket' = [socket EXCEPT ![s] = "receiving"]
    BY <1>2 DEF Accepted, Moves
  <2>3. TypeOK'
    BY <1>2, <2>1, <2>2 DEF Accepted, TypeOK, SocketStates
  <2>4. ASSUME NEW u \in Tasks
        PROVE  /\ Listening(u)' \subseteq connections'[u]
               /\ \A z \in connections'[u] :
                     TaskOf[z] = u /\ socket'[z] \in {"receiving", "left", "failed"}
    <3>1. connections'[u] = connections[u] \cup (IF u = t THEN {s} ELSE {})
      BY <2>2 DEF TypeOK
    <3>2. Listening(u)' \subseteq Listening(u) \cup (IF u = t THEN {s} ELSE {})
      BY <2>2 DEF Listening, TypeOK
    <3> QED
      BY <2>2, <3>1, <3>2 DEF RegistryMatchesClients, TypeOK
  <2>5. keys' = {u \in Tasks : connections'[u] # {}}
    BY <2>1, <2>2 DEF RegistryMatchesClients, TypeOK
  <2> QED
    BY <2>3, <2>4, <2>5 DEF RegistryMatchesClients
<1>3. ASSUME NEW s \in Sockets, ClientLeaves(s) \/ EndpointFails(s) PROVE RegistryInv'
  <2>1. PICK to \in {"left", "failed"} :
           socket[s] = "receiving" /\ socket' = [socket EXCEPT ![s] = to]
    BY <1>3 DEF ClientLeaves, EndpointFails, Moves
  <2>2. UNCHANGED <<connections, keys, sending, received, broadcasts, escaped>>
    BY <1>3 DEF ClientLeaves, EndpointFails
  <2>3. errors' \in 0..MaxErrors
    BY <1>3, BoundAssumption DEF ClientLeaves, EndpointFails, TypeOK
  <2>4. TypeOK'
    BY <2>1, <2>2, <2>3 DEF TypeOK, SocketStates
  <2>5. \A u \in Tasks : Listening(u)' \subseteq Listening(u)
    BY <2>1 DEF Listening, TypeOK
  <2>6. RegistryMatchesClients'
    BY <2>1, <2>2, <2>5 DEF RegistryMatchesClients, TypeOK
  <2> QED
    BY <2>4, <2>6
<1>4. ASSUME NEW s \in Sockets, EndpointCloses(s) PROVE RegistryInv'
  <2>1. /\ Disconnect(s) /\ socket[s] = "left" /\ socket' = [socket EXCEPT ![s] = "closed"]
        /\ UNCHANGED <<sending, received, broadcasts, escaped, errors>>
    BY <1>4 DEF EndpointCloses, Moves
  <2>2. /\ socket' \in [Sockets -> SocketStates] /\ socket'[s] # "receiving"
        /\ \A z \in Sockets \ {s} : socket'[z] = socket[z]
    BY <2>1 DEF TypeOK, SocketStates
  <2>3. /\ connections' \in [Tasks -> SUBSET Sockets] /\ keys' \subseteq Tasks
        /\ RegistryMatchesClients'
    BY <2>1, <2>2, DisconnectKeepsRegistry
  <2> QED
    BY <2>1, <2>2, <2>3 DEF TypeOK
<1>5. ASSUME NEW t \in Tasks, BroadcastStart(t) PROVE RegistryInv'
  <2>1. broadcasts' \in 1..MaxBroadcasts
    BY <1>5, BoundAssumption DEF BroadcastStart, TypeOK
  <2>2. sending' \in Broadcasts
    BY <1>5, <2>1 DEF BroadcastStart, TypeOK, Broadcasts
  <2>3. UNCHANGED <<connections, keys, socket, received, escaped, errors>>
    BY <1>5 DEF BroadcastStart
  <2> QED
    BY <2>1, <2>2, <2>3 DEF TypeOK, RegistryMatchesClients, Listening
<1>6. ASSUME NEW s \in Sockets, sending.busy, Sent(s)
      PROVE  sending \in Broadcasts /\ sending' \in Broadcasts
  <2>1. sending \in Broadcasts
    BY <1>6, UnderWayIsBroadcast
  <2>2. sending' = [sending EXCEPT !.todo = @ \ {s}]
    BY <1>6 DEF Sent
  <2> QED
    BY <2>1, <2>2 DEF Broadcasts
<1>7. ASSUME NEW s \in Sockets, Send(s) PROVE RegistryInv'
  <2>1. sending \in Broadcasts /\ sending' \in Broadcasts
    BY <1>6, <1>7 DEF Send
  <2>2. sending.event \in 1..MaxBroadcasts
    BY <2>1 DEF Broadcasts
  <2>3. received' \in [Sockets -> Seq(1..MaxBroadcasts)]
    BY <1>7, <2>2 DEF Send, TypeOK
  <2>4. UNCHANGED <<connections, keys, socket, broadcasts, escaped, errors>>
    BY <1>7 DEF Send
  <2> QED
    BY <2>1, <2>3, <2>4 DEF TypeOK, RegistryMatchesClients, Listening
<1>8. ASSUME NEW s \in Sockets, SendToClosed(s) PROVE RegistryInv'
  <2>1. /\ sending.busy /\ socket[s] # "receiving"
        /\ UNCHANGED <<socket, received, broadcasts, errors>>
    BY <1>8 DEF SendToClosed
  <2>2. CASE Sent(s) /\ UNCHANGED <<connections, keys, escaped>>
    BY <1>6, <2>1, <2>2 DEF TypeOK, RegistryMatchesClients, Listening
  <2>3. CASE Sent(s) /\ Disconnect(s) /\ UNCHANGED escaped
    <3>1. /\ socket' \in [Sockets -> SocketStates] /\ socket'[s] # "receiving"
          /\ \A z \in Sockets \ {s} : socket'[z] = socket[z]
      BY <2>1 DEF TypeOK
    <3>2. /\ connections' \in [Tasks -> SUBSET Sockets] /\ keys' \subseteq Tasks
          /\ RegistryMatchesClients'
      BY <2>1, <2>3, <3>1, DisconnectKeepsRegistry
    <3> QED
      BY <1>6, <2>1, <2>3, <3>2 DEF TypeOK
  <2>4. CASE /\ sending' = Idle /\ escaped' = escaped \cup {sending.event}
             /\ UNCHANGED <<connections, keys>>
    <3>1. sending.event \in 1..MaxBroadcasts
      BY <2>1, UnderWayIsBroadcast DEF Broadcasts
    <3> QED
      BY <2>1, <2>4, <3>1 DEF TypeOK, RegistryMatchesClients, Listening
  <2> QED
    BY <1>8, <2>2, <2>3, <2>4 DEF SendToClosed
<1>9. ASSUME BroadcastEnd PROVE RegistryInv'
  BY <1>9 DEF BroadcastEnd, TypeOK, RegistryMatchesClients, Listening
<1>10. ASSUME UNCHANGED vars PROVE RegistryInv'
  BY <1>10 DEF vars, TypeOK, RegistryMatchesClients, Listening
<1> QED
  BY <1>1, <1>2, <1>3, <1>4, <1>5, <1>7, <1>8, <1>9, <1>10 DEF Next

(* Types, of the registry, the endpoints and the broadcast under way.      *)
THEOREM ConnectionsTypeCorrect == Spec => []TypeOK
<1>1. RegistryInv => TypeOK
  BY DEF RegistryInv
<1> QED
  BY <1>1, RegistryInit, RegistryStep, PTL DEF Spec

(* The registry of one API process holds exactly who may still listen, for *)
(* any number of tasks and sockets that come, leave and fail while the     *)
(* process broadcasts.                                                     *)
THEOREM RegistryCorrect == Spec => []RegistryMatchesClients
<1>1. RegistryInv => RegistryMatchesClients
  BY DEF RegistryInv
<1> QED
  BY <1>1, RegistryInit, RegistryStep, PTL DEF Spec

-----------------------------------------------------------------------------
(* What the pages, the engines and the consumer do to the connections.     *)
LEMMA ClientsStep == [ClientsNext]_<<vars, clientVars>> => [Next]_vars
<1> SUFFICES ASSUME [ClientsNext]_<<vars, clientVars>> PROVE [Next]_vars
  OBVIOUS
<1>1. ASSUME NEW t \in Tasks, Answered(t) PROVE [Next]_vars
  <2>1. SocketsOf(t) \in SUBSET Sockets
    BY DEF SocketsOf
  <2> QED
    BY <1>1, <2>1 DEF Answered, Next
<1>2. ASSUME NEW t \in Tasks, PollersComplete(t) \/ Finish(t) \/ HandledElsewhere(t)
      PROVE  UNCHANGED vars
  BY <1>2 DEF PollersComplete, Finish, HandledElsewhere
<1>3. ASSUME NEW t \in Tasks, BroadcastNext(t) PROVE Next
  BY <1>3 DEF BroadcastNext, Next
<1>4. ASSUME NEW s \in Sockets, Registered(s) \/ Hangup(s) PROVE Next
  BY <1>4 DEF Registered, Hangup, Next
<1>5. ASSUME BroadcastProceeds PROVE Next
  BY <1>5 DEF BroadcastProceeds, Delivered, Next
<1>6. ASSUME UNCHANGED <<vars, clientVars>> PROVE UNCHANGED vars
  BY <1>6
<1> QED
  BY <1>1, <1>2, <1>3, <1>4, <1>5, <1>6 DEF ClientsNext

(* The same of the pages' clients: whatever the tasks publish, whichever   *)
(* process handles it and whenever the pages' sockets open, every client   *)
(* that listens is registered and nobody else is.                          *)
THEOREM ClientsRegistered == ClientsSpec => []RegistryMatchesClients
<1>1. ClientsInit => RegistryInv
  BY RegistryInit DEF ClientsInit
<1>2. RegistryInv /\ [ClientsNext]_<<vars, clientVars>> => RegistryInv'
  BY RegistryStep, ClientsStep
<1>3. RegistryInv => RegistryMatchesClients
  BY DEF RegistryInv
<1> QED
  BY <1>1, <1>2, <1>3, PTL DEF ClientsSpec
-----------------------------------------------------------------------------
(* What was broadcast, of each task's script; whatever was handled was     *)
(* broadcast here or is noted as handled elsewhere.                        *)
ContentInv ==
    /\ handled \in [Tasks -> Nat] /\ elsewhere \in [Tasks -> SUBSET Nat]
    /\ content \in Seq([task : Tasks, at : Nat]) /\ Len(content) = broadcasts
    /\ \A t \in Tasks :
          /\ handled[t] <= Len(Script[t])
          /\ \A k \in 1..handled[t] :
                \/ k \in elsewhere[t]
                \/ \E e \in DOMAIN content : content[e] = [task |-> t, at |-> k]
    /\ \A e \in DOMAIN content : content[e].at \in 1..handled[content[e].task]
    /\ sending.busy => /\ sending.event \in DOMAIN content
                       /\ content[sending.event].task = sending.task

Waits(s) == sending.busy /\ s \in sending.todo

(* A socket that the broadcast has still to serve was registered before.   *)
Queued(s) ==
    Waits(s) => /\ socket[s] \notin {"new", "accepting"} /\ sending.task = TaskOf[s]
                /\ joined[s] < content[sending.event].at

(* What a client got, against what was broadcast since it was registered.  *)
Gets(s) ==
    \A e \in DOMAIN content :
        content[e].task = TaskOf[s] /\ joined[s] < content[e].at /\ IsChunk(Message(e)) =>
            \/ e \in escaped
            \/ Waits(s) /\ e = sending.event
            \/ \E k \in DOMAIN client[s].chunks : client[s].chunks[k] = Message(e).id
Shows(s) ==
    LET t == TaskOf[s]
    IN \A k \in DOMAIN client[s].chunks : \E p \in Since(s) :
          /\ IsChunk(Script[t][p]) /\ Script[t][p].id = client[s].chunks[k]
          /\ Waits(s) => p < content[sending.event].at
Sorted(s) ==
    LET shown == client[s].chunks
    IN \A j, k \in DOMAIN shown : j < k =>
          shown[j] < shown[k] \/ (shown[j] = shown[k] /\ ~OnceEach(TaskOf[s]))

Engines == [status : {"IDLE", "RUNNING", "FAILED", "COMPLETED"},
            chunks : Seq(Nat), completed : BOOLEAN]
ClientTypes ==
    /\ client \in [Sockets -> Engines]
    /\ joined \in [Sockets -> Nat]
ClientInv(s) ==
    /\ joined[s] <= handled[TaskOf[s]]
    /\ Queued(s)
    /\ socket[s] \in {"new", "accepting"} => client[s].chunks = <<>>
    /\ socket[s] = "receiving" => Gets(s) /\ Shows(s) /\ Sorted(s)

ShownInv == ContentInv /\ ClientTypes /\ \A s \in Sockets : ClientInv(s)
AllInv == RegistryInv /\ ShownInv

LEMMA ElementType ==
    \A S : \A q \in Seq(S) : Len(q) \in Nat /\ \A i \in DOMAIN q : q[i] \in S
OBVIOUS

LEMMA ScriptLength == \A t \in Tasks : Len(Script[t]) \in Nat
<1>1. Script \in [Tasks -> Seq(Messages)]
  BY ScriptAssumption
<1>2. \A t \in Tasks : Script[t] \in Seq(Messages)
  BY <1>1
<1> QED
  BY <1>2, ElementType

LEMMA MessageTypes ==
    ASSUME NEW t \in Tasks, NEW k \in 1..Len(Script[t])
    PROVE  /\ Script[t] \in Seq(Messages) /\ Len(Script[t]) \in Nat
           /\ Script[t][k] \in Messages
           /\ IsChunk(Script[t][k]) => Script[t][k].id \in Nat /\ Script[t][k].is_last \in BOOLEAN
           /\ ~IsChunk(Script[t][k]) => Script[t][k].state \in {"RUNNING", "FAILED", "COMPLETED"}
<1>1. Script[t] \in Seq(Messages)
  BY ScriptAssumption
<1>2. Script[t][k] \in Messages
  BY <1>1
<1>3. Len(Script[t]) \in Nat
  BY <1>1
<1> QED
  BY <1>1, <1>2, <1>3 DEF Messages, IsChunk

LEMMA HandleMessageShows ==
    ASSUME NEW t \in Tasks, NEW k \in 1..Len(Script[t]), NEW u, NEW engine \in Engines
    PROVE  /\ HandleMessage(u, engine, Script[t][k]) \in Engines
           /\ HandleMessage(u, engine, Script[t][k]).chunks =
                 IF IsChunk(Script[t][k]) THEN Append(engine.chunks, Script[t][k].id)
                 ELSE engine.chunks
<1> DEFINE m == Script[t][k]
<1>1. CASE IsChunk(m)
  <2>1. m.id \in Nat /\ m.is_last \in BOOLEAN
    BY <1>1, MessageTypes
  <2>2. HandleMessage(u, engine, m) = [engine EXCEPT !.chunks = Append(@, m.id),
                                                     !.completed = @ \/ m.is_last]
    BY <1>1 DEF HandleMessage
  <2>3. Append(engine.chunks, m.id) \in Seq(Nat) /\ (engine.completed \/ m.is_last) \in BOOLEAN
    BY <2>1 DEF Engines
  <2> HIDE DEF m
  <2>4. HandleMessage(u, engine, m) \in Engines
    BY <2>2, <2>3 DEF Engines
  <2>5. HandleMessage(u, engine, m).chunks = Append(engine.chunks, m.id)
    BY <2>2 DEF Engines
  <2> QED
    BY <1>1, <2>4, <2>5 DEF m
<1>2. CASE ~IsChunk(m)
  <2>1. m.state \in {"RUNNING", "FAILED", "COMPLETED"}
    BY <1>2, MessageTypes
  <2> DEFINE done == engine.completed \/ (u \in Dashboard /\ m.state \in {"COMPLETED", "FAILED"})
  <2>2. HandleMessage(u, engine, m) = [engine EXCEPT !.status = m.state, !.completed = done]
    BY <1>2 DEF HandleMessage
  <2>3. done \in BOOLEAN
    BY DEF Engines
  <2> HIDE DEF m, done
  <2> QED
    BY <1>2, <2>1, <2>2, <2>3 DEF Engines, m
<1> QED
  BY <1>1, <1>2

LEMMA BroadcastFacts ==
    ASSUME AllInv
    PROVE  /\ sending.busy => /\ sending \in Broadcasts
                              /\ sending.event \in DOMAIN content
                              /\ content[sending.event].task = sending.task
           /\ \A e \in DOMAIN content :
                 /\ content[e].task \in Tasks /\ content[e].at \in Nat
                 /\ content[e].at \in 1..Len(Script[content[e].task])
                 /\ content[e].at <= handled[content[e].task]
<1>1. sending.busy => sending \in Broadcasts
  BY UnderWayIsBroadcast DEF AllInv, RegistryInv
<1>2. ASSUME NEW e \in DOMAIN content
      PROVE  /\ content[e].task \in Tasks /\ content[e].at \in Nat
             /\ content[e].at \in 1..Len(Script[content[e].task])
             /\ content[e].at <= handled[content[e].task]
  <2>1. content[e] \in [task : Tasks, at : Nat]
    <3>1. content \in Seq([task : Tasks, at : Nat])
      BY DEF AllInv, ShownInv, ContentInv
    <3> QED
      BY <3>1, ElementType
  <2> DEFINE t == content[e].task
             a == content[e].at
  <2>2. /\ t \in Tasks /\ a \in Nat /\ a \in 1..handled[t]
        /\ handled[t] \in Nat /\ handled[t] <= Len(Script[t])
    BY <2>1 DEF AllInv, ShownInv, ContentInv
  <2>3. Len(Script[t]) \in Nat
    BY <2>2, ScriptAssumption
  <2> HIDE DEF t, a
  <2>4. a \in 1..Len(Script[t]) /\ a <= handled[t]
    BY <2>2, <2>3
  <2> QED
    BY <2>2, <2>4 DEF t, a
<1> QED
  BY <1>1, <1>2 DEF AllInv, ShownInv, ContentInv

(* A socket to which a step sends nothing.                                 *)
LEMMA ClientKept ==
    ASSUME AllInv, NEW s \in Sockets,
           client'[s] = client[s], joined'[s] = joined[s], UNCHANGED content,
           handled' \in [Tasks -> Nat], \A t \in Tasks : handled[t] <= handled'[t],
           escaped \subseteq escaped',
           socket'[s] = "receiving" => socket[s] = "receiving",
           socket'[s] \in {"new", "accepting"} => socket[s] \in {"new", "accepting"},
           Waits(s)' => /\ Waits(s)
                        /\ sending'.event = sending.event /\ sending'.task = sending.task,
           socket'[s] = "receiving" /\ Waits(s) => Waits(s)' \/ sending.event \in escaped'
    PROVE  ClientInv(s)'
<1> DEFINE t == TaskOf[s]
<1>1. /\ t \in Tasks /\ ClientInv(s) /\ joined[s] \in Nat
      /\ handled[t] \in Nat /\ handled'[t] \in Nat /\ handled[t] <= handled'[t]
  BY TaskOfAssumption DEF AllInv, ShownInv, ClientTypes, ContentInv
<1> HIDE DEF t
<1>2. joined'[s] <= handled'[t]
  BY <1>1 DEF ClientInv, t
<1>3. Queued(s)'
  BY <1>1 DEF ClientInv, Queued
<1>4. socket'[s] \in {"new", "accepting"} => client'[s].chunks = <<>>
  BY <1>1 DEF ClientInv
<1>5. ASSUME socket'[s] = "receiving" PROVE Gets(s)' /\ Shows(s)' /\ Sorted(s)'
  <2>1. Gets(s) /\ Shows(s) /\ Sorted(s)
    BY <1>1, <1>5 DEF ClientInv
  <2>2. \A e : Message(e)' = Message(e)
    BY DEF Message
  <2>3. Gets(s)'
    BY <1>5, <2>1, <2>2 DEF Gets
  <2>4. \A p \in Since(s) : p \in Since(s)'
    BY <1>1 DEF Since, t
  <2>5. Shows(s)'
    BY <2>1, <2>4 DEF Shows
  <2>6. Sorted(s)'
    BY <2>1 DEF Sorted
  <2> QED
    BY <2>3, <2>5, <2>6
<1> QED
  BY <1>2, <1>3, <1>4, <1>5 DEF ClientInv, t

(* A step that neither broadcasts nor handles.                             *)
LEMMA ContentKept ==
    ASSUME ContentInv, UNCHANGED <<content, handled, elsewhere, broadcasts>>,
           sending'.busy => /\ sending.busy
                            /\ sending'.event = sending.event /\ sending'.task = sending.task
    PROVE  ContentInv'
BY DEF ContentInv

(* The endpoints: where a socket can go, but for its registration.         *)
Settles(s) ==
    /\ socket'[s] = "receiving" => socket[s] = "receiving"
    /\ socket'[s] \in {"new", "accepting"} => socket[s] \in {"new", "accepting"}

LEMMA OthersKept ==
    ASSUME AllInv, UNCHANGED <<client, joined, content, handled, elsewhere, broadcasts>>,
           escaped \subseteq escaped', \A s \in Sockets : Settles(s),
           sending'.busy => /\ sending.busy /\ sending'.todo \subseteq sending.todo
                            /\ sending'.event = sending.event /\ sending'.task = sending.task,
           \A s \in Sockets : socket'[s] = "receiving" /\ Waits(s) =>
                                 Waits(s)' \/ sending.event \in escaped'
    PROVE  ShownInv'
<1>1. ContentInv'
  BY ContentKept DEF AllInv, ShownInv
<1>2. ClientTypes'
  BY DEF AllInv, ShownInv, ClientTypes
<1>3. \A s \in Sockets : Waits(s)' => /\ Waits(s)
                                      /\ sending'.event = sending.event /\ sending'.task = sending.task
  BY DEF Waits
<1>4. handled' \in [Tasks -> Nat] /\ \A t \in Tasks : handled[t] <= handled'[t]
  BY DEF AllInv, ShownInv, ContentInv
<1>5. ASSUME NEW s \in Sockets PROVE ClientInv(s)'
  BY <1>3, <1>4, ClientKept DEF Settles
<1> QED
  BY <1>1, <1>2, <1>5 DEF ShownInv
LEMMA ShownInit == ClientsInit => AllInv
<1> SUFFICES ASSUME ClientsInit PROVE AllInv
  OBVIOUS
<1>1. /\ RegistryInv /\ sending = Idle /\ ~sending.busy
      /\ socket = [s \in Sockets |-> "new"] /\ broadcasts = 0 /\ content = <<>>
  BY RegistryInit DEF ClientsInit, Init, Idle
<1>2. handled = [t \in Tasks |-> 0] /\ elsewhere = [t \in Tasks |-> {}]
      /\ client = [s \in Sockets |-> NewClient] /\ joined = [s \in Sockets |-> 0]
  BY DEF ClientsInit
<1>3. \A t \in Tasks : Len(Script[t]) \in Nat
  BY ScriptLength
<1>4. ContentInv
  BY <1>1, <1>2, <1>3 DEF ContentInv
<1>5. NewClient \in Engines /\ NewClient.chunks = <<>>
  BY DEF NewClient, Engines
<1>6. ClientTypes
  BY <1>2, <1>5 DEF ClientTypes
<1>7. ASSUME NEW s \in Sockets PROVE ClientInv(s)
  <2>1. TaskOf[s] \in Tasks
    BY TaskOfAssumption
  <2>2. ~Waits(s) /\ socket[s] = "new"
    BY <1>1 DEF Waits
  <2> QED
    BY <1>2, <1>5, <2>1, <2>2 DEF ClientInv, Queued
<1> QED
  BY <1>1, <1>4, <1>6, <1>7 DEF AllInv, ShownInv

(* Steps that deliver, broadcast and register nothing.                     *)
LEMMA QuietStep ==
    ASSUME AllInv,
           \/ \E t \in Tasks : Answered(t) \/ PollersComplete(t) \/ Finish(t)
           \/ \E s \in Sockets : Hangup(s) \/ (SendToClosed(s) /\ UNCHANGED clientVars)
           \/ BroadcastEnd /\ UNCHANGED clientVars
           \/ UNCHANGED <<vars, clientVars>>
    PROVE  ShownInv'
<1>1. TypeOK
  BY DEF AllInv, RegistryInv
<1>2. sending.busy => sending \in Broadcasts
  BY BroadcastFacts
<1>3. ASSUME NEW t \in Tasks, Answered(t) \/ PollersComplete(t) \/ Finish(t) PROVE ShownInv'
  <2>1. /\ UNCHANGED <<client, joined, content, handled, elsewhere, broadcasts, escaped, sending>>
        /\ \A s \in Sockets : Settles(s)
    BY <1>1, <1>3 DEF Answered, PollersComplete, Finish, Connect, vars, Settles, TypeOK
  <2> QED
    BY <2>1, OthersKept DEF Waits
<1>4. ASSUME NEW s \in Sockets, Hangup(s) PROVE ShownInv'
  <2>1. /\ UNCHANGED <<client, joined, content, handled, elsewhere, broadcasts, escaped, sending>>
        /\ \E to \in {"left", "closed", "failed"} : socket' = [socket EXCEPT ![s] = to]
    BY <1>4 DEF Hangup, clientVars, ClientLeaves, EndpointCloses, EndpointFails, Moves
  <2>2. \A z \in Sockets : Settles(z)
    BY <1>1, <2>1 DEF Settles, TypeOK
  <2> QED
    BY <2>1, <2>2, OthersKept DEF Waits
<1>5. ASSUME NEW s \in Sockets, SendToClosed(s), UNCHANGED clientVars PROVE ShownInv'
  <2>1. /\ UNCHANGED <<client, joined, content, handled, elsewhere, broadcasts, socket>>
        /\ sending.busy /\ socket[s] # "receiving" /\ sending \in Broadcasts
        /\ \A z \in Sockets : Settles(z)
    BY <1>2, <1>5 DEF SendToClosed, clientVars, Settles
  <2>2. CASE Sent(s) /\ UNCHANGED escaped
    <3>1. /\ sending'.busy = sending.busy /\ sending'.event = sending.event
          /\ sending'.task = sending.task /\ sending'.todo = sending.todo \ {s}
      BY <2>1, <2>2 DEF Sent, Broadcasts
    <3>2. \A z \in Sockets : socket'[z] = "receiving" /\ Waits(z) => Waits(z)'
      BY <2>1, <3>1 DEF Waits
    <3> QED
      BY <2>1, <2>2, <3>1, <3>2, OthersKept
  <2>3. CASE sending' = Idle /\ escaped' = escaped \cup {sending.event}
    <3>1. ~sending'.busy
      BY <2>3 DEF Idle
    <3> QED
      BY <2>1, <2>3, <3>1, OthersKept
  <2> QED
    BY <1>5, <2>2, <2>3 DEF SendToClosed
<1>6. ASSUME BroadcastEnd, UNCHANGED clientVars PROVE ShownInv'
  <2>1. /\ UNCHANGED <<client, joined, content, handled, elsewhere, broadcasts, socket, escaped>>
        /\ sending.todo = {} /\ sending' = Idle /\ ~sending'.busy
        /\ \A z \in Sockets : Settles(z)
    BY <1>6 DEF BroadcastEnd, clientVars, Settles, Idle
  <2> QED
    BY <2>1, OthersKept DEF Waits
<1>7. ASSUME UNCHANGED <<vars, clientVars>> PROVE ShownInv'
  <2>1. /\ UNCHANGED <<client, joined, content, handled, elsewhere, broadcasts, socket, escaped,
                       sending>>
        /\ \A z \in Sockets : Settles(z)
    BY <1>7 DEF vars, clientVars, Settles
  <2> QED
    BY <2>1, OthersKept DEF Waits
<1> QED
  BY <1>3, <1>4, <1>5, <1>6, <1>7

(* An event that this process does not broadcast.                          *)
LEMMA ElsewhereStep ==
    ASSUME AllInv, NEW t \in Tasks, HandledElsewhere(t) PROVE ShownInv'
<1>1. /\ UNCHANGED <<client, joined, content, broadcasts, socket, escaped, sending>>
      /\ handled' = [handled EXCEPT ![t] = @ + 1] /\ handled[t] < Len(Script[t])
      /\ elsewhere' = [elsewhere EXCEPT ![t] = @ \cup {handled[t] + 1}]
  BY DEF HandledElsewhere, Handles, Published, vars
<1>2. /\ handled \in [Tasks -> Nat] /\ elsewhere \in [Tasks -> SUBSET Nat] /\ ContentInv
  BY DEF AllInv, ShownInv, ContentInv
<1>3. /\ handled' \in [Tasks -> Nat] /\ elsewhere' \in [Tasks -> SUBSET Nat]
      /\ \A u \in Tasks : handled[u] <= handled'[u] /\ elsewhere[u] \subseteq elsewhere'[u]
  BY <1>1, <1>2
<1>4. ContentInv'
  <2>1. ASSUME NEW u \in Tasks, NEW k \in 1..handled'[u]
        PROVE  \/ k \in elsewhere'[u]
               \/ \E e \in DOMAIN content' : content'[e] = [task |-> u, at |-> k]
    <3>1. k \in 1..handled[u] \/ (u = t /\ k = handled[t] + 1)
      BY <1>1, <1>2
    <3> QED
      BY <1>1, <1>2, <1>3, <3>1 DEF ContentInv
  <2>2. \A u \in Tasks : handled'[u] <= Len(Script[u])
    <3>1. \A u \in Tasks : Len(Script[u]) \in Nat /\ handled[u] <= Len(Script[u])
      BY ScriptAssumption, <1>2 DEF ContentInv
    <3> QED
      BY <1>1, <1>2, <3>1
  <2>3. \A e \in DOMAIN content' : content'[e].at \in 1..handled'[content'[e].task]
    <3>1. \A e \in DOMAIN content :
             /\ content[e].task \in Tasks /\ content[e].at \in 1..handled[content[e].task]
      BY <1>2, BroadcastFacts DEF ContentInv
    <3>2. \A u \in Tasks : \A k \in 1..handled[u] : k \in 1..handled'[u]
      BY <1>2, <1>3
    <3> QED
      BY <1>1, <3>1, <3>2
  <2> QED
    BY <1>1, <1>2, <1>3, <2>1, <2>2, <2>3 DEF ContentInv
<1>5. ASSUME NEW s \in Sockets PROVE ClientInv(s)'
  BY <1>1, <1>3, ClientKept DEF Waits
<1>6. ClientTypes'
  BY <1>1 DEF AllInv, ShownInv, ClientTypes
<1> QED
  BY <1>4, <1>5, <1>6 DEF ShownInv
(* An event that this process begins to broadcast.                         *)
LEMMA BroadcastStep ==
    ASSUME AllInv, NEW t \in Tasks, BroadcastNext(t) PROVE ShownInv'
<1> DEFINE n == broadcasts + 1
           a == handled[t] + 1
           c == [task |-> t, at |-> a]
<1>1. /\ UNCHANGED <<client, joined, socket, escaped, elsewhere>>
      /\ handled' = [handled EXCEPT ![t] = a] /\ handled[t] < Len(Script[t])
      /\ ~sending.busy /\ broadcasts' = n
      /\ sending' = [busy |-> TRUE, event |-> n, task |-> t, todo |-> connections[t]]
      /\ content' = Append(content, c)
  BY DEF BroadcastNext, Handles, Published, BroadcastStart
<1>2. /\ handled \in [Tasks -> Nat] /\ elsewhere \in [Tasks -> SUBSET Nat] /\ ContentInv
      /\ content \in Seq([task : Tasks, at : Nat]) /\ Len(content) = broadcasts
      /\ broadcasts \in Nat /\ ClientTypes /\ RegistryMatchesClients
  BY BoundAssumption DEF AllInv, ShownInv, ContentInv, RegistryInv, TypeOK
<1>3. a \in Nat /\ c \in [task : Tasks, at : Nat] /\ c.task = t /\ c.at = a
  BY <1>2
<1> HIDE DEF c
<1>4. /\ content' \in Seq([task : Tasks, at : Nat]) /\ Len(content') = n
      /\ DOMAIN content' = DOMAIN content \cup {n} /\ n \notin DOMAIN content
      /\ content'[n] = c /\ \A e \in DOMAIN content : content'[e] = content[e]
  <2>1. ASSUME NEW S, NEW q \in Seq(S), NEW x \in S
        PROVE  /\ Append(q, x) \in Seq(S) /\ Len(Append(q, x)) = Len(q) + 1
               /\ DOMAIN Append(q, x) = DOMAIN q \cup {Len(q) + 1} /\ Len(q) + 1 \notin DOMAIN q
               /\ Append(q, x)[Len(q) + 1] = x /\ \A e \in DOMAIN q : Append(q, x)[e] = q[e]
    OBVIOUS
  <2> QED
    BY <1>1, <1>2, <1>3, <2>1
<1>5. /\ handled' \in [Tasks -> Nat] /\ handled'[t] = a
      /\ \A u \in Tasks : handled[u] <= handled'[u] /\ (u # t => handled'[u] = handled[u])
      /\ handled[t] \in Nat
  BY <1>1, <1>2, <1>3
<1>6. \A u \in Tasks : handled'[u] <= Len(Script[u])
  <2>1. \A u \in Tasks : handled[u] <= Len(Script[u])
    BY <1>2 DEF ContentInv
  <2> QED
    BY <1>1, <1>5, <2>1, ScriptLength
<1>7. ContentInv'
  <2>1. ASSUME NEW u \in Tasks, NEW k \in 1..handled'[u]
        PROVE  \/ k \in elsewhere'[u]
               \/ \E e \in DOMAIN content' : content'[e] = [task |-> u, at |-> k]
    <3>1. k \in 1..handled[u] \/ (u = t /\ k = a)
      BY <1>5
    <3>2. CASE k \in 1..handled[u]
      BY <1>1, <1>2, <1>4, <3>2 DEF ContentInv
    <3>3. CASE u = t /\ k = a
      BY <1>4, <3>3 DEF c
    <3> QED
      BY <3>1, <3>2, <3>3
  <2>2. ASSUME NEW e \in DOMAIN content'
        PROVE  content'[e].at \in 1..handled'[content'[e].task]
    <3>1. CASE e = n
      BY <1>3, <1>4, <1>5, <3>1
    <3>2. CASE e \in DOMAIN content
      <4>1. content[e].task \in Tasks /\ content[e].at \in 1..handled[content[e].task]
        BY <1>2, <3>2, BroadcastFacts DEF ContentInv
      <4>2. \A u \in Tasks : \A k \in 1..handled[u] : k \in 1..handled'[u]
        BY <1>2, <1>5
      <4> QED
        BY <1>4, <3>2, <4>1, <4>2
    <3> QED
      BY <1>4, <3>1, <3>2
  <2>3. sending'.event \in DOMAIN content' /\ content'[sending'.event].task = sending'.task
    BY <1>1, <1>3, <1>4
  <2> QED
    BY <1>1, <1>2, <1>4, <1>5, <1>6, <2>1, <2>2, <2>3 DEF ContentInv
<1>8. ASSUME NEW s \in Sockets PROVE ClientInv(s)'
  <2>1. /\ TaskOf[s] \in Tasks /\ ClientInv(s) /\ ~Waits(s) /\ joined[s] \in Nat
        /\ handled[TaskOf[s]] \in Nat /\ handled'[TaskOf[s]] \in Nat
        /\ handled[TaskOf[s]] <= handled'[TaskOf[s]]
    BY <1>1, <1>2, <1>5, TaskOfAssumption DEF AllInv, ShownInv, Waits, ClientTypes
  <2>2. joined'[s] <= handled'[TaskOf[s]]
    BY <1>1, <2>1 DEF ClientInv
  <2>3. Waits(s)' => s \in connections[t] /\ TaskOf[s] = t /\ socket[s] \notin {"new", "accepting"}
    BY <1>1, <1>2 DEF Waits, RegistryMatchesClients
  <2>4. TaskOf[s] = t => joined[s] < a
    BY <1>3, <1>5, <2>1 DEF ClientInv
  <2>5. /\ content'[sending'.event].at = a /\ sending'.task = t /\ sending'.event = n
    BY <1>1, <1>3, <1>4
  <2>6. Queued(s)'
    BY <1>1, <2>3, <2>4, <2>5 DEF Queued
  <2>7. ASSUME socket[s] = "receiving" PROVE Gets(s)' /\ Shows(s)' /\ Sorted(s)'
    <3>1. Gets(s) /\ Shows(s) /\ Sorted(s)
      BY <2>1, <2>7 DEF ClientInv
    <3>2. \A e \in DOMAIN content : Message(e)' = Message(e)
      BY <1>4 DEF Message
    <3>3. TaskOf[s] = t => Waits(s)'
      BY <1>1, <1>2, <2>7 DEF Waits, RegistryMatchesClients, Listening
    <3>4. Gets(s)'
      <4> SUFFICES ASSUME NEW e \in DOMAIN content', content'[e].task = TaskOf[s],
                          joined[s] < content'[e].at, IsChunk(Message(e)')
                   PROVE  \/ e \in escaped
                          \/ Waits(s)' /\ e = sending'.event
                          \/ \E k \in DOMAIN client[s].chunks :
                                client[s].chunks[k] = Message(e)'.id
        BY <1>1 DEF Gets
      <4>1. CASE e = n
        BY <1>3, <1>4, <2>5, <3>3, <4>1
      <4>2. CASE e \in DOMAIN content
        BY <1>4, <2>1, <3>1, <3>2, <4>2 DEF Gets
      <4> QED
        BY <1>4, <4>1, <4>2
    <3>5. Shows(s)'
      <4> SUFFICES ASSUME NEW k \in DOMAIN client[s].chunks
                   PROVE  \E p \in Since(s)' :
                             /\ IsChunk(Script[TaskOf[s]][p])
                             /\ Script[TaskOf[s]][p].id = client[s].chunks[k]
                             /\ Waits(s)' => p < content'[sending'.event].at
        BY <1>1 DEF Shows
      <4>1. PICK p \in Since(s) : /\ IsChunk(Script[TaskOf[s]][p])
                                  /\ Script[TaskOf[s]][p].id = client[s].chunks[k]
        BY <3>1 DEF Shows
      <4>2. p \in Since(s)' /\ (TaskOf[s] = t => p < a)
        BY <1>1, <1>3, <1>5, <2>1, <4>1 DEF Since
      <4> QED
        BY <2>3, <2>5, <4>1, <4>2
    <3>6. Sorted(s)'
      BY <1>1, <3>1 DEF Sorted
    <3> QED
      BY <3>4, <3>5, <3>6
  <2> QED
    BY <1>1, <2>1, <2>2, <2>6, <2>7 DEF ClientInv
<1>9. ClientTypes'
  BY <1>1, <1>2 DEF ClientTypes
<1> QED
  BY <1>7, <1>8, <1>9 DEF ShownInv

(* A socket that is registered: nothing from before is due to it.          *)
LEMMA RegisteredStep ==
    ASSUME AllInv, NEW s \in Sockets, Registered(s) PROVE ShownInv'
<1>1. /\ UNCHANGED <<client, content, handled, elsewhere, broadcasts, escaped, sending>>
      /\ socket[s] = "accepting" /\ socket' = [socket EXCEPT ![s] = "receiving"]
      /\ joined' = [joined EXCEPT ![s] = handled[TaskOf[s]]]
  BY DEF Registered, Accepted, Moves
<1>2. /\ ContentInv /\ ClientTypes /\ ClientInv(s) /\ TaskOf[s] \in Tasks
      /\ handled \in [Tasks -> Nat] /\ socket \in [Sockets -> SocketStates]
  BY TaskOfAssumption DEF AllInv, ShownInv, ContentInv, RegistryInv, TypeOK
<1>3. ContentInv'
  BY <1>1, <1>2, ContentKept
<1>4. ClientTypes'
  BY <1>1, <1>2 DEF ClientTypes
<1>5. ASSUME NEW z \in Sockets, z # s PROVE ClientInv(z)'
  <2>1. /\ joined'[z] = joined[z] /\ client'[z] = client[z] /\ socket'[z] = socket[z]
        /\ \A t \in Tasks : handled[t] <= handled'[t]
    BY <1>1, <1>2, <1>5 DEF ClientTypes
  <2> QED
    BY <1>1, <1>2, <2>1, ClientKept DEF Waits
<1>6. ClientInv(s)'
  <2>1. /\ joined'[s] = handled[TaskOf[s]] /\ joined'[s] = handled'[TaskOf[s]]
        /\ joined'[s] \in Nat /\ socket'[s] = "receiving" /\ client'[s].chunks = <<>>
    BY <1>1, <1>2 DEF ClientTypes, ClientInv
  <2>2. ~Waits(s)'
    BY <1>1, <1>2 DEF ClientInv, Queued, Waits
  <2>3. Gets(s)'
    <3>1. \A e \in DOMAIN content : content[e].task = TaskOf[s] => ~(joined'[s] < content[e].at)
      <4> SUFFICES ASSUME NEW e \in DOMAIN content, content[e].task = TaskOf[s]
                   PROVE  ~(joined'[s] < content[e].at)
        OBVIOUS
      <4>1. content[e].at \in Nat /\ content[e].at <= handled[content[e].task]
        BY BroadcastFacts
      <4>2. content[e].at <= joined'[s]
        BY <2>1, <4>1
      <4> QED
        BY <2>1, <4>1, <4>2
    <3> QED
      BY <1>1, <3>1 DEF Gets
  <2>4. Shows(s)' /\ Sorted(s)'
    BY <2>1 DEF Shows, Sorted
  <2> QED
    BY <2>1, <2>2, <2>3, <2>4 DEF ClientInv, Queued
<1> QED
  BY <1>3, <1>4, <1>5, <1>6 DEF ShownInv
(* A message that reaches its client.                                      *)
LEMMA DeliveredStep ==
    ASSUME AllInv, NEW s \in Sockets, Delivered(s) PROVE ShownInv'
<1> DEFINE t == TaskOf[s]
           e == sending.event
           a == content[e].at
           shown == client[s].chunks
<1>1. /\ UNCHANGED <<content, handled, elsewhere, joined, broadcasts, escaped, socket>>
      /\ sending.busy /\ s \in sending.todo /\ socket[s] = "receiving"
      /\ sending' = [sending EXCEPT !.todo = @ \ {s}]
      /\ client' = [client EXCEPT ![s] = HandleMessage(t, @, Message(e))]
  BY DEF Delivered, Send, Sent
<1>2. /\ sending \in Broadcasts /\ e \in DOMAIN content /\ content[e].task = sending.task
      /\ \A f \in DOMAIN content :
            content[f].task \in Tasks /\ content[f].at \in 1..Len(Script[content[f].task])
  BY <1>1, BroadcastFacts
<1>3. /\ ContentInv /\ ClientTypes /\ ClientInv(s) /\ t \in Tasks /\ handled \in [Tasks -> Nat]
      /\ client \in [Sockets -> Engines] /\ joined[s] \in Nat
  BY TaskOfAssumption DEF AllInv, ShownInv, ContentInv, ClientTypes
<1>4. /\ sending'.busy = sending.busy /\ sending'.event = e /\ sending'.task = sending.task
      /\ sending'.todo = sending.todo \ {s} /\ sending.busy \in BOOLEAN
  BY <1>1, <1>2 DEF Broadcasts
<1>5. sending.task = t /\ joined[s] < a /\ a \in 1..Len(Script[t]) /\ Waits(s)
  BY <1>1, <1>2, <1>3 DEF ClientInv, Queued, Waits
<1>6. Message(e) = Script[t][a]
  BY <1>2, <1>5 DEF Message
<1>7. /\ client'[s] \in Engines /\ shown \in Seq(Nat)
      /\ client'[s].chunks = IF IsChunk(Script[t][a]) THEN Append(shown, Script[t][a].id)
                             ELSE shown
      /\ client' \in [Sockets -> Engines] /\ \A z \in Sockets \ {s} : client'[z] = client[z]
  <2>1. client'[s] = HandleMessage(t, client[s], Script[t][a])
    BY <1>1, <1>3, <1>6
  <2>2. client[s] \in Engines /\ shown \in Seq(Nat)
    BY <1>3 DEF Engines
  <2>3. /\ client'[s] \in Engines
        /\ client'[s].chunks = IF IsChunk(Script[t][a]) THEN Append(shown, Script[t][a].id)
                               ELSE shown
    <3>1. HandleMessage(t, client[s], Script[t][a]) \in Engines
      BY <1>3, <1>5, <2>2, HandleMessageShows
    <3>2. HandleMessage(t, client[s], Script[t][a]).chunks =
             IF IsChunk(Script[t][a]) THEN Append(client[s].chunks, Script[t][a].id)
             ELSE client[s].chunks
      BY <1>3, <1>5, <2>2, HandleMessageShows
    <3> QED
      BY <2>1, <3>1, <3>2
  <2> QED
    BY <1>1, <1>3, <2>2, <2>3
<1>8. Gets(s) /\ Shows(s) /\ Sorted(s)
  BY <1>1, <1>3 DEF ClientInv
<1>9. ~Waits(s)'
  BY <1>4 DEF Waits
<1>10. /\ a \in Nat /\ handled[t] \in Nat /\ a \in Since(s)
  <2>1. a \in 1..handled[t]
    BY <1>2, <1>3, <1>5 DEF ContentInv
  <2> QED
    BY <1>3, <1>5, <2>1 DEF Since
<1>11. Gets(s)' /\ Shows(s)' /\ Sorted(s)'
  <2>1. \A f : Message(f)' = Message(f)
    BY <1>1 DEF Message
  <2>2. Since(s)' = Since(s)
    BY <1>1 DEF Since
  <2>3. ASSUME NEW k \in DOMAIN shown
        PROVE  \E p \in Since(s) : /\ IsChunk(Script[t][p]) /\ Script[t][p].id = shown[k]
                                   /\ p < a
    BY <1>5, <1>8 DEF Shows
  <2>4. CASE ~IsChunk(Script[t][a])
    <3>1. client'[s].chunks = shown
      BY <1>7, <2>4
    <3>2. Gets(s)'
      BY <1>1, <1>6, <1>8, <2>1, <2>4, <3>1 DEF Gets
    <3>3. Shows(s)'
      BY <1>1, <1>9, <2>2, <2>3, <3>1 DEF Shows
    <3>4. Sorted(s)'
      BY <1>8, <3>1 DEF Sorted
    <3> QED
      BY <3>2, <3>3, <3>4
  <2>5. CASE IsChunk(Script[t][a])
    <3> DEFINE id == Script[t][a].id
               n == Len(shown) + 1
    <3>1. id \in Nat
      BY <1>3, <1>5, <2>5, MessageTypes
    <3>2. /\ DOMAIN client'[s].chunks = DOMAIN shown \cup {n}
          /\ client'[s].chunks[n] = id /\ \A k \in DOMAIN shown : client'[s].chunks[k] = shown[k]
          /\ n \in Nat /\ \A k \in DOMAIN shown : k \in Nat /\ k < n /\ shown[k] \in Nat
      <4>1. client'[s].chunks = Append(shown, id)
        BY <1>7, <2>5
      <4>2. ASSUME NEW q \in Seq(Nat), NEW x \in Nat
            PROVE  /\ DOMAIN Append(q, x) = DOMAIN q \cup {Len(q) + 1} /\ Len(q) + 1 \in Nat
                   /\ Append(q, x)[Len(q) + 1] = x
                   /\ \A k \in DOMAIN q : /\ Append(q, x)[k] = q[k]
                                          /\ k \in Nat /\ k < Len(q) + 1 /\ q[k] \in Nat
        OBVIOUS
      <4>3. shown \in Seq(Nat)
        BY <1>7
      <4> HIDE DEF id, shown
      <4> QED
        BY <3>1, <4>1, <4>2, <4>3
    <3> HIDE DEF n
    <3>3. Gets(s)'
      <4> SUFFICES ASSUME NEW f \in DOMAIN content, content[f].task = t,
                          joined[s] < content[f].at, IsChunk(Message(f)), f \notin escaped
                   PROVE  \E k \in DOMAIN client'[s].chunks :
                             client'[s].chunks[k] = Message(f).id
        BY <1>1, <2>1 DEF Gets
      <4>1. CASE f = e
        BY <1>6, <3>2, <4>1
      <4>2. CASE f # e
        <5>1. PICK k \in DOMAIN shown : shown[k] = Message(f).id
          BY <1>8, <4>2 DEF Gets
        <5> QED
          BY <3>2, <5>1
      <4> QED
        BY <4>1, <4>2
    <3>4. Shows(s)'
      <4> SUFFICES ASSUME NEW k \in DOMAIN client'[s].chunks
                   PROVE  \E p \in Since(s) : /\ IsChunk(Script[t][p])
                                              /\ Script[t][p].id = client'[s].chunks[k]
        BY <1>9, <2>2 DEF Shows
      <4>1. CASE k \in DOMAIN shown
        BY <2>3, <3>2, <4>1
      <4>2. CASE k = n
        BY <1>10, <2>5, <3>2, <4>2
      <4> QED
        BY <3>2, <4>1, <4>2
    <3>5. ASSUME NEW k \in DOMAIN shown
          PROVE  shown[k] < id \/ (shown[k] = id /\ ~OnceEach(t))
      <4>1. PICK p \in Since(s) : IsChunk(Script[t][p]) /\ Script[t][p].id = shown[k] /\ p < a
        BY <2>3
      <4>2. p \in 1..Len(Script[t]) /\ p # a
        <5>1. p \in Nat /\ 1 <= p
          BY <1>3, <1>10, <4>1 DEF Since
        <5>2. a <= Len(Script[t]) /\ Len(Script[t]) \in Nat
          BY <1>3, <1>5, ScriptLength
        <5> QED
          BY <1>10, <4>1, <5>1, <5>2
      <4>3. shown[k] <= id
        BY <1>3, <1>5, <2>5, <4>1, <4>2, ScriptAssumption
      <4>4. shown[k] = id => ~OnceEach(t)
        BY <1>5, <2>5, <4>1, <4>2 DEF OnceEach
      <4> QED
        BY <3>1, <3>2, <4>3, <4>4
    <3>6. Sorted(s)'
      <4> SUFFICES ASSUME NEW j \in DOMAIN client'[s].chunks, NEW k \in DOMAIN client'[s].chunks,
                          j < k
                   PROVE  \/ client'[s].chunks[j] < client'[s].chunks[k]
                          \/ client'[s].chunks[j] = client'[s].chunks[k] /\ ~OnceEach(t)
        BY DEF Sorted
      <4>1. CASE k \in DOMAIN shown
        <5>1. j \in DOMAIN shown
          BY <3>2, <4>1
        <5> QED
          BY <1>8, <3>2, <4>1, <5>1 DEF Sorted
      <4>2. CASE k = n
        <5>1. j \in DOMAIN shown
          BY <3>2, <4>2
        <5> QED
          BY <3>2, <3>5, <4>2, <5>1
      <4> QED
        BY <3>2, <4>1, <4>2
    <3> QED
      BY <3>3, <3>4, <3>6
  <2> QED
    BY <2>4, <2>5
<1>12. ClientInv(s)'
  BY <1>1, <1>3, <1>9, <1>11 DEF ClientInv, Queued
<1>13. ASSUME NEW z \in Sockets, z # s PROVE ClientInv(z)'
  <2>1. Waits(z)' <=> Waits(z)
    BY <1>4, <1>13 DEF Waits
  <2>2. \A u \in Tasks : handled[u] <= handled'[u]
    BY <1>1, <1>3
  <2> QED
    BY <1>1, <1>3, <1>4, <1>7, <1>13, <2>1, <2>2, ClientKept
<1>14. ContentInv'
  BY <1>1, <1>3, <1>4, ContentKept
<1> QED
  BY <1>1, <1>7, <1>12, <1>13, <1>14, <1>3 DEF ShownInv, ClientTypes

LEMMA ShownStep == AllInv /\ [ClientsNext]_<<vars, clientVars>> => AllInv'
<1> SUFFICES ASSUME AllInv, [ClientsNext]_<<vars, clientVars>> PROVE AllInv'
  OBVIOUS
<1>1. RegistryInv'
  BY RegistryStep, ClientsStep DEF AllInv
<1>2. ShownInv'
  BY QuietStep, ElsewhereStep, BroadcastStep, RegisteredStep, DeliveredStep
     DEF ClientsNext, BroadcastProceeds
<1> QED
  BY <1>1, <1>2 DEF AllInv

(* What a client shows, for any scripts, tasks, pages and sockets that     *)
(* open, leave and fail at any time: exactly the chunks that were handled  *)
(* since its socket was registered, in order, less what another process    *)
(* took, an exception cut off or is under way.                             *)
THEOREM ShownInFull == ClientsSpec => []ShownSinceJoined
<1>1. AllInv => ShownSinceJoined
  <2> SUFFICES ASSUME AllInv, NEW s \in Sockets, socket[s] = "receiving"
               PROVE  LET t == TaskOf[s]
                          shown == client[s].chunks
                          ids == {shown[k] : k \in DOMAIN shown}
                      IN /\ ChunksAt(t, Since(s) \ (Missed(t) \cup UnderWay(t))) \subseteq ids
                         /\ ids \subseteq ChunksAt(t, Since(s))
                         /\ Sorted(s)
    BY DEF ShownSinceJoined, Sorted
  <2> DEFINE t == TaskOf[s]
             shown == client[s].chunks
             ids == {shown[k] : k \in DOMAIN shown}
  <2>1. /\ Gets(s) /\ Shows(s) /\ Sorted(s) /\ t \in Tasks /\ ContentInv
        /\ joined[s] \in Nat /\ handled[t] \in Nat
    BY TaskOfAssumption DEF AllInv, ShownInv, ClientInv, ClientTypes, ContentInv
  <2>2. ASSUME NEW k \in Since(s), k \notin Missed(t), k \notin UnderWay(t),
               IsChunk(Script[t][k])
        PROVE  Script[t][k].id \in ids
    <3>1. k \in 1..handled[t] /\ joined[s] < k /\ k \notin elsewhere[t]
      BY <2>1, <2>2 DEF Since, Missed
    <3>2. PICK e \in DOMAIN content : content[e] = [task |-> t, at |-> k]
      BY <2>1, <3>1 DEF ContentInv
    <3>3. content[e].task = t /\ content[e].at = k /\ Message(e) = Script[t][k]
      BY <3>2 DEF Message
    <3>4. e \notin escaped
      BY <2>2, <3>3 DEF Missed
    <3>5. ~(sending.busy /\ e = sending.event)
      BY <2>1, <2>2, <3>3 DEF UnderWay, ContentInv
    <3>6. PICK j \in DOMAIN shown : shown[j] = Message(e).id
      BY <2>1, <2>2, <3>1, <3>3, <3>4, <3>5 DEF Gets, Waits
    <3> QED
      BY <3>3, <3>6
  <2>3. ChunksAt(t, Since(s) \ (Missed(t) \cup UnderWay(t))) \subseteq ids
    BY <2>2 DEF ChunksAt
  <2>4. ids \subseteq ChunksAt(t, Since(s))
    BY <2>1 DEF Shows, ChunksAt
  <2> QED
    BY <2>1, <2>3, <2>4
<1> QED
  BY <1>1, ShownInit, ShownStep, PTL DEF ClientsSpec
=============================================================================
