--------------------------- MODULE StreamingClients ---------------------------
(***************************************************************************)
(* The demo's streaming clients on the WebSockets of one API process:      *)
(* StreamingEngine and WsClient of demo/shared, and the pages that run     *)
(* them.  A page starts a task, opens its sockets when the POSTs are       *)
(* answered, while the task may be running already, and is done when every *)
(* client is completed.  Of the task's events, published in the order of   *)
(* its script, this process broadcasts those that the group hands to it.   *)
(***************************************************************************)
EXTENDS TaskConnections, FiniteSets

CONSTANTS
    Dashboard,      \* the tasks shown by the dashboard; others: the demo pages
    Script,         \* the messages of each task's events, in order
    MaxElsewhere    \* bound: events that this process never broadcasts

ASSUME DashboardAssumption == Dashboard \subseteq Tasks
ASSUME MaxElsewhereAssumption == MaxElsewhere \in Nat

Messages ==
    [type : {"task.status"}, state : {"RUNNING", "FAILED", "COMPLETED"}]
        \cup [type : {"task.result_chunk"}, id : Nat, is_last : BOOLEAN]
IsChunk(message) == message.type = "task.result_chunk"

(* What the tasks' reporters ensure (WorkerTasks.ChunksInOrder): chunk ids *)
(* do not go back, and may repeat after a failed call.                     *)
ASSUME ScriptAssumption ==
    /\ Script \in [Tasks -> Seq(Messages)]
    /\ \A t \in Tasks : \A j, k \in 1..Len(Script[t]) :
          j < k /\ IsChunk(Script[t][j]) /\ IsChunk(Script[t][k]) =>
              Script[t][j].id <= Script[t][k].id

VARIABLES
    handled,     \* how many of its events have been handled, here or elsewhere
    content,     \* the position in its task's script of each broadcast's event
    elsewhere,   \* the positions this process was not handed, or failed on
    page,        \* each task's page: "starting", "running", "done" or "error"
    polled,      \* the demo pages whose polling clients are all completed
    client,      \* the state of each engine: status, chunks shown, completed
    joined       \* history: `handled` when each socket was registered

clientVars == <<handled, content, elsewhere, page, polled, client, joined>>

Status(state) == [type |-> "task.status", state |-> state]
Chunk(id, isLast) == [type |-> "task.result_chunk", id |-> id, is_last |-> isLast]

SocketsOf(t) == {s \in Sockets : TaskOf[s] = t}

NewClient == [status |-> "IDLE", chunks |-> <<>>, completed |-> FALSE]

(* The run button was pressed: panels reset, the task posted.              *)
ClientsInit ==
    /\ Init
    /\ handled = [t \in Tasks |-> 0]
    /\ content = <<>>
    /\ elsewhere = [t \in Tasks |-> {}]
    /\ page = [t \in Tasks |-> "starting"]
    /\ polled = {}
    /\ client = [s \in Sockets |-> NewClient]
    /\ joined = [s \in Sockets |-> 0]

-----------------------------------------------------------------------------
\* Mutant: completed by the result, which is never broadcast.
HandleMessageNoLast(t, engine, message) ==
    IF IsChunk(message) THEN [engine EXCEPT !.chunks = Append(@, message.id)]
    ELSE [engine EXCEPT !.status = message.state]

(* _handleMessage and the page's callbacks: the dashboard's onUpdate takes *)
(* a terminal status for completion, too.                                  *)
HandleMessage(t, engine, message) ==
    IF IsChunk(message)
    THEN [engine EXCEPT !.chunks = Append(@, message.id),
                        !.completed = @ \/ message.is_last]
    ELSE [engine EXCEPT !.status = message.state,
              !.completed = @ \/ (t \in Dashboard /\ message.state \in {"COMPLETED", "FAILED"})]

Message(e) == Script[content[e].task][content[e].at]

-----------------------------------------------------------------------------
(* The answer to the last POST: the engines start, which opens all the     *)
(* page's sockets, or an error is shown.  The task runs in either case.    *)
Answered(t) ==
    /\ page[t] = "starting"
    /\ \/ page' = [page EXCEPT ![t] = "running"] /\ Connect(SocketsOf(t))
       \/ page' = [page EXCEPT ![t] = "error"] /\ UNCHANGED vars
    /\ UNCHANGED <<handled, content, elsewhere, polled, client, joined>>

Registered(s) ==
    /\ Accepted(s)
    /\ joined' = [joined EXCEPT ![s] = handled[TaskOf[s]]]
    /\ UNCHANGED <<handled, content, elsewhere, page, polled, client>>

(* The last of a demo page's polling clients stops.  What they poll for,   *)
(* and when they stop, is the subject of the Naive modules; a dead worker  *)
(* can keep them going for ever.  The dashboard has neither polling clients*)
(* nor a run button.                                                       *)
PollersComplete(t) ==
    /\ page[t] = "running" /\ t \notin Dashboard /\ t \notin polled
    /\ polled' = polled \cup {t}
    /\ UNCHANGED <<vars, handled, content, elsewhere, page, client, joined>>

(* updateUI, or the page's timer: all clients are completed, those that    *)
(* poll as well.                                                           *)
Finish(t) ==
    /\ page[t] = "running" /\ t \in polled
    /\ \A s \in SocketsOf(t) : client[s].completed
    /\ page' = [page EXCEPT ![t] = "done"]
    /\ UNCHANGED <<vars, handled, content, elsewhere, polled, client, joined>>

-----------------------------------------------------------------------------
Published(t) == handled[t] < Len(Script[t])
Handles(t) == handled' = [handled EXCEPT ![t] = @ + 1]

(* This process is handed the task's next event, and broadcasts it.        *)
BroadcastNext(t) ==
    /\ Published(t) /\ Handles(t)
    /\ BroadcastStart(t)
    /\ content' = Append(content, [task |-> t, at |-> handled[t] + 1])
    /\ UNCHANGED <<elsewhere, page, polled, client, joined>>

(* Another process is, or this one's handler raises before it broadcasts.  *)
HandledElsewhere(t) ==
    /\ Published(t) /\ Handles(t)
    /\ Cardinality(UNION {{<<u, k>> : k \in elsewhere[u]} : u \in Tasks}) < MaxElsewhere
    /\ elsewhere' = [elsewhere EXCEPT ![t] = @ \cup {handled[t] + 1}]
    /\ UNCHANGED <<vars, content, page, polled, client, joined>>

(* The socket delivers, and the engine handles what it got.                *)
Delivered(s) ==
    /\ Send(s)
    /\ client' = [client EXCEPT ![s] = HandleMessage(TaskOf[s], @, Message(sending.event))]
    /\ UNCHANGED <<handled, content, elsewhere, page, polled, joined>>

BroadcastProceeds ==
    \/ \E s \in Sockets : Delivered(s)
    \/ (BroadcastEnd \/ \E s \in Sockets : SendToClosed(s)) /\ UNCHANGED clientVars

Hangup(s) ==
    /\ ClientLeaves(s) \/ EndpointCloses(s) \/ EndpointFails(s)
    /\ UNCHANGED clientVars

ClientsNext ==
    \/ \E t \in Tasks :
          \/ Answered(t) \/ PollersComplete(t) \/ Finish(t)
          \/ BroadcastNext(t) \/ HandledElsewhere(t)
    \/ \E s \in Sockets : Registered(s) \/ Hangup(s)
    \/ BroadcastProceeds

(* The consumer goes on with the next event, and the event loop resumes a  *)
(* broadcast and an endpoint whose client left; the pages' timers tick.    *)
ClientsSpec ==
    /\ ClientsInit /\ [][ClientsNext]_<<vars, clientVars>>
    /\ WF_<<vars, clientVars>>(\E t \in Tasks : BroadcastNext(t))
    /\ WF_<<vars, clientVars>>(BroadcastProceeds)
    /\ \A t \in Tasks : WF_<<vars, clientVars>>(Finish(t))
    /\ \A s \in Sockets : WF_<<vars, clientVars>>(EndpointCloses(s) /\ UNCHANGED clientVars)

-----------------------------------------------------------------------------
(* The positions whose event some client of the task may have missed.      *)
Missed(t) ==
    elsewhere[t] \cup {content[e].at : e \in {f \in escaped : content[f].task = t}}

(* The positions due to a socket: what was handled since it was registered.*)
Since(s) == (joined[s] + 1)..handled[TaskOf[s]]
UnderWay(t) ==
    IF sending.busy /\ sending.task = t THEN {content[sending.event].at} ELSE {}
ChunksAt(t, positions) ==
    {Script[t][k].id : k \in {i \in positions : IsChunk(Script[t][i])}}
OnceEach(t) ==
    \A j, k \in 1..Len(Script[t]) :
        IsChunk(Script[t][j]) /\ IsChunk(Script[t][k]) /\ Script[t][j].id = Script[t][k].id => j = k

(* A client shows the chunks handled since its socket was registered, in   *)
(* order and without a gap, whoever else comes, goes or fails, and a chunk *)
(* twice only if the stream has it twice; what it lacks was handled by     *)
(* another process, fell to an exception, or is being sent.  Nothing from  *)
(* before is replayed: one that came late is completed all the same, with  *)
(* the rest of the result only.                                            *)
ShownSinceJoined ==
    \A s \in Sockets : socket[s] = "receiving" =>
        LET t == TaskOf[s]
            shown == client[s].chunks
            ids == {shown[k] : k \in DOMAIN shown}
        IN /\ ChunksAt(t, Since(s) \ (Missed(t) \cup UnderWay(t))) \subseteq ids
           /\ ids \subseteq ChunksAt(t, Since(s))
           /\ \A j, k \in DOMAIN shown : j < k =>
                 shown[j] < shown[k] \/ (shown[j] = shown[k] /\ ~OnceEach(t))

(* The chunks at which a client of the task is completed.                  *)
Completing(t) == {k \in 1..Len(Script[t]) : IsChunk(Script[t][k]) /\ Script[t][k].is_last}

Expecting(s) ==
    /\ socket[s] = "receiving"
    /\ \E k \in Completing(TaskOf[s]) \ Missed(TaskOf[s]) : k > joined[s]

(* app.js:216 and :356 give the run button back only when each client,     *)
(* streaming and polling, is completed.  Once the polling side is, it comes*)
(* back if every streaming client was registered before the last chunk and *)
(* stays until then: unless this process does not broadcast that chunk.  A *)
(* task that fails without a chunk, and one that is faster than the        *)
(* sockets, leaves a demo page running for ever.  (That the pollers stop:  *)
(* PollersStop of the Naive modules.)                                      *)
ButtonReturns ==
    \A t \in Tasks :
        (page[t] = "running" /\ t \in polled /\ \A s \in SocketsOf(t) : Expecting(s))
            ~> (page[t] = "done" \/ \E s \in SocketsOf(t) : ~Expecting(s))
=============================================================================
