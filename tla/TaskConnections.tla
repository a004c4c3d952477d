--------------------------- MODULE TaskConnections ---------------------------
(***************************************************************************)
(* presentation/websockets.py: TaskConnectionManager of one API process,   *)
(* the endpoint coroutine of each WebSocket, and the one coroutine (the    *)
(* stream consumer) that broadcasts.  They interleave at their awaits:     *)
(* accept, receive_text and send_json.                                     *)
(***************************************************************************)
EXTENDS Naturals, Sequences

CONSTANTS
    Tasks,
    Sockets,
    TaskOf,            \* the task each socket subscribes to
    MaxBroadcasts,     \* bound: events broadcast
    MaxErrors          \* bound: endpoints that end with another exception

ASSUME TaskOfAssumption == TaskOf \in [Sockets -> Tasks]
ASSUME BoundAssumption == MaxBroadcasts \in Nat /\ MaxErrors \in Nat

VARIABLES
    connections,   \* _connections: sockets by task, for the keys it has
    keys,          \* the tasks that are keys of _connections
    socket,        \* where each endpoint coroutine, and its client, is
    sending,       \* the broadcast under way: its event, task and sockets to do
    received,      \* events each client got, in order
    broadcasts,    \* how many events were broadcast
    escaped,       \* history: broadcasts cut short by an exception
    errors

vars == <<connections, keys, socket, sending, received, broadcasts, escaped, errors>>

SocketStates == {"new", "accepting", "receiving", "left", "failed", "closed"}
Idle == [busy |-> FALSE]
Broadcasts == [busy : {TRUE}, event : 1..MaxBroadcasts, task : Tasks, todo : SUBSET Sockets]
Listening(t) == {s \in Sockets : TaskOf[s] = t /\ socket[s] = "receiving"}

TypeOK ==
    /\ connections \in [Tasks -> SUBSET Sockets]
    /\ keys \subseteq Tasks
    /\ socket \in [Sockets -> SocketStates]
    /\ sending \in {Idle} \cup Broadcasts
    /\ received \in [Sockets -> Seq(1..MaxBroadcasts)]
    /\ broadcasts \in 0..MaxBroadcasts /\ escaped \subseteq 1..MaxBroadcasts
    /\ errors \in 0..MaxErrors

Init ==
    /\ connections = [t \in Tasks |-> {}] /\ keys = {}
    /\ socket = [s \in Sockets |-> "new"]
    /\ sending = Idle
    /\ received = [s \in Sockets |-> <<>>]
    /\ broadcasts = 0 /\ escaped = {} /\ errors = 0

Moves(s, from, to) == socket[s] = from /\ socket' = [socket EXCEPT ![s] = to]

\* Mutants: drop the task; do nothing.
DisconnectAll(s) ==
    /\ connections' = [connections EXCEPT ![TaskOf[s]] = {}]
    /\ keys' = keys \ {TaskOf[s]}
DisconnectNothing(s) == UNCHANGED <<connections, keys>>

(* disconnect(): drop the socket, and the key with its last socket.        *)
Disconnect(s) ==
    LET t == TaskOf[s]
    IN /\ connections' = [connections EXCEPT ![t] = @ \ {s}]
       /\ keys' = IF connections[t] \subseteq {s} THEN keys \ {t} ELSE keys

-----------------------------------------------------------------------------
(* task_updates, for the sockets a client opens at once: await accept.     *)
Connect(some) ==
    /\ \A s \in some : socket[s] = "new"
    /\ socket' = [s \in Sockets |-> IF s \in some THEN "accepting" ELSE socket[s]]
    /\ UNCHANGED <<connections, keys, sending, received, broadcasts, escaped, errors>>

(* create_task_session after accept: register, then await receive_text.    *)
Accepted(s) ==
    /\ Moves(s, "accepting", "receiving")
    /\ connections' = [connections EXCEPT ![TaskOf[s]] = @ \cup {s}]
    /\ keys' = keys \cup {TaskOf[s]}
    /\ UNCHANGED <<sending, received, broadcasts, escaped, errors>>

(* The client is gone; its endpoint has not been resumed yet.              *)
ClientLeaves(s) ==
    /\ Moves(s, "receiving", "left")
    /\ UNCHANGED <<connections, keys, sending, received, broadcasts, escaped, errors>>

(* receive_text raises WebSocketDisconnect.                                *)
EndpointCloses(s) ==
    /\ Moves(s, "left", "closed")
    /\ Disconnect(s)
    /\ UNCHANGED <<sending, received, broadcasts, escaped, errors>>

(* Any other exception (a binary message, say) ends the endpoint without   *)
(* disconnect().                                                           *)
EndpointFails(s) ==
    /\ errors < MaxErrors /\ errors' = errors + 1
    /\ Moves(s, "receiving", "failed")
    /\ UNCHANGED <<connections, keys, sending, received, broadcasts, escaped>>

-----------------------------------------------------------------------------
(* broadcast(): snapshot the task's sockets, then await each send.         *)
BroadcastStart(t) ==
    /\ ~sending.busy /\ broadcasts < MaxBroadcasts
    /\ broadcasts' = broadcasts + 1
    /\ sending' = [busy |-> TRUE, event |-> broadcasts', task |-> t,
                   todo |-> connections[t]]
    /\ UNCHANGED <<connections, keys, socket, received, escaped, errors>>

Sent(s) == sending' = [sending EXCEPT !.todo = @ \ {s}]

(* send_json to a client that is there.                                    *)
Send(s) ==
    /\ sending.busy /\ s \in sending.todo
    /\ socket[s] = "receiving"
    /\ received' = [received EXCEPT ![s] = Append(@, sending.event)]
    /\ Sent(s)
    /\ UNCHANGED <<connections, keys, socket, broadcasts, escaped, errors>>

\* Mutant: a caught exception ends the loop.
SendToClosedStops(s) ==
    /\ sending.busy /\ s \in sending.todo
    /\ socket[s] # "receiving"
    /\ sending' = Idle
    /\ Disconnect(s)
    /\ UNCHANGED <<socket, received, broadcasts, escaped, errors>>

(* send_json to one that is not: the server drops the message, or raises   *)
(* RuntimeError, which is caught, or WebSocketDisconnect, which is not: it *)
(* ends the broadcast and fails the event's handler.                       *)
SendToClosed(s) ==
    /\ sending.busy /\ s \in sending.todo
    /\ socket[s] # "receiving"
    /\ \/ Sent(s) /\ UNCHANGED <<connections, keys, escaped>>
       \/ Sent(s) /\ Disconnect(s) /\ UNCHANGED escaped
       \/ /\ sending' = Idle
          /\ escaped' = escaped \cup {sending.event}
          /\ UNCHANGED <<connections, keys>>
    /\ UNCHANGED <<socket, received, broadcasts, errors>>

BroadcastEnd ==
    /\ sending.busy /\ sending.todo = {}
    /\ sending' = Idle
    /\ UNCHANGED <<connections, keys, socket, received, broadcasts, escaped, errors>>

Next ==
    \/ \E s \in Sockets :
          \/ Accepted(s) \/ ClientLeaves(s)
          \/ EndpointCloses(s) \/ EndpointFails(s)
          \/ Send(s) \/ SendToClosed(s)
    \/ \E some \in SUBSET Sockets : Connect(some)
    \/ \E t \in Tasks : BroadcastStart(t)
    \/ BroadcastEnd

(* The event loop resumes an endpoint whose client left, and the broadcast.*)
Spec ==
    /\ Init /\ [][Next]_vars
    /\ \A s \in Sockets : WF_vars(EndpointCloses(s))
    /\ WF_vars(BroadcastEnd \/ \E s \in Sockets : Send(s) \/ SendToClosed(s))

-----------------------------------------------------------------------------
(* The registry holds every client that listens, and besides them only     *)
(* sockets whose endpoint has not noticed yet that the client left or      *)
(* ended with another exception: a broadcast, a late disconnect or a       *)
(* second disconnect never drops somebody else, or leaves an empty entry.  *)
RegistryMatchesClients ==
    /\ \A t \in Tasks :
          /\ Listening(t) \subseteq connections[t]
          /\ \A s \in connections[t] :
                TaskOf[s] = t /\ socket[s] \in {"receiving", "left", "failed"}
    /\ keys = {t \in Tasks : connections[t] # {}}

(* A client that left is forgotten: again and again, and since each leaves *)
(* only once in the end for good, nobody who left is registered.           *)
LeaversForgotten ==
    []<>(\A s \in Sockets :
            socket[s] \in {"left", "closed"} => s \notin connections[TaskOf[s]])
=============================================================================
