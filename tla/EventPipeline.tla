---------------------------- MODULE EventPipeline ----------------------------
(***************************************************************************)
(* The whole path of a task event: workers publish the events of their     *)
(* tasks, StreamConsumer delivers them, and application/handlers.py        *)
(* (TaskEventHandler) writes status and result rows and broadcasts to      *)
(* WebSocket clients.  A step is the code between two awaits of a handler: *)
(* the storage transaction, then the broadcast.                            *)
(***************************************************************************)
EXTENDS StreamConsumer

CONSTANTS
    Tasks,
    Script,            \* the events each task publishes, in order
    NoPct,             \* the cache holds nothing for the task
    STATUS_DELTA,      \* status_delta, in the unit of the scripts' pct
    MaxHandlerFaults   \* bound: failures of the database and of broadcasts

States == {"QUEUED", "RUNNING", "COMPLETED", "FAILED", "CANCELLED"}
TerminalStates == {"COMPLETED", "FAILED", "CANCELLED"}
Rows == [state : States, pct : Nat]

StatusEvents == [type : {"status"}, state : States, pct : Nat]
ChunkEvents == [type : {"chunk"}, id : Nat]
ResultEvents == [type : {"result"}]
Events == StatusEvents \cup ChunkEvents \cup ResultEvents

ASSUME ScriptAssumption == Script \in [Tasks -> Seq(Events)]
ASSUME NoPctAssumption == NoPct \notin Nat
ASSUME DeltaAssumption == STATUS_DELTA \in Nat \ {0}
ASSUME HandlerFaultsAssumption == MaxHandlerFaults \in Nat

VARIABLES
    content,        \* the task and event of each stream entry
    published,      \* how many events of its script each task has published
    stage,          \* within a status handler: "entered" or "stored"
    cache,          \* _status_cache of each process: last persisted pct
    metered,        \* tasks in _cpu_ws_total_ms of each process
    statusRow,      \* Postgres: the task_status row
    resultRow,      \* Postgres: is there a task_results row?
    shown,          \* history: entries broadcast for each task, in order
    handlerFaults

producers == <<content, published>>
memory == <<stage, cache, metered>>
storage == <<statusRow, resultRow>>
pipelineVars == <<vars, producers, memory, storage, shown, handlerFaults>>

(* TaskService commits the task row, QUEUED, before it enqueues the task,  *)
(* so the row is there when the first event arrives.                       *)
PipelineInit ==
    /\ Init
    /\ content = <<>> /\ published = [t \in Tasks |-> 0]
    /\ stage = [c \in Consumers |-> "entered"]
    /\ cache = [c \in Consumers |-> [t \in Tasks |-> NoPct]]
    /\ metered = [c \in Consumers |-> {}]
    /\ statusRow = [t \in Tasks |-> [state |-> "QUEUED", pct |-> 0]]
    /\ resultRow = [t \in Tasks |-> FALSE]
    /\ shown = [t \in Tasks |-> <<>>]
    /\ handlerFaults = 0

-----------------------------------------------------------------------------
(* A worker publishes the next event of its task; workers run side by side.*)
PublishNext(t) ==
    /\ published[t] < Len(Script[t])
    /\ Publish("valid")
    /\ content' = Append(content, [task |-> t, event |-> Script[t][published[t] + 1]])
    /\ published' = [published EXCEPT ![t] = @ + 1]
    /\ UNCHANGED <<memory, storage, shown, handlerFaults>>

Task(c) == content[Head(batch[c])].task
Event(c) == content[Head(batch[c])].event
Handling(c, type) == pc[c] = "handling" /\ Event(c).type = type
IsTerminal(event) == event.type = "status" /\ event.state \in TerminalStates

Distance(p, q) == IF p < q THEN q - p ELSE p - q

(* The throttle: first status this process sees of the task, a move of at  *)
(* least status_delta since the last write, or a terminal state.           *)
ShouldPersist(c) ==
    LET last_pct == cache[c][Task(c)]
    IN \/ last_pct = NoPct
       \/ Event(c).state \in TerminalStates
       \/ last_pct # NoPct /\ Distance(Event(c).pct, last_pct) >= STATUS_DELTA

HandlerFault == /\ handlerFaults < MaxHandlerFaults
                /\ handlerFaults' = handlerFaults + 1

\* Mutant: nothing is ever dropped from the meter.
MeterKeeps(c) == metered' = [metered EXCEPT ![c] = @ \cup {Task(c)}]

(* ws_cpu_meter, in the finally of status and chunk handlers.              *)
Meter(c) ==
    metered' = [metered EXCEPT ![c] = IF IsTerminal(Event(c)) THEN @ \ {Task(c)}
                                      ELSE @ \cup {Task(c)}]

\* Mutant: a raising handler is called again.
LeavesRetrying(c, ok) ==
    IF ok THEN Dispatch(c, TRUE) /\ stage' = [stage EXCEPT ![c] = "entered"]
               /\ UNCHANGED handlerFaults
    ELSE pc[c] = "handling" /\ HandlerFault /\ UNCHANGED <<vars, stage>>

(* The handler returns (the consumer goes on to XACK) or raises.           *)
Leaves(c, ok) ==
    /\ Dispatch(c, ok)
    /\ stage' = [stage EXCEPT ![c] = "entered"]
    /\ IF ok THEN UNCHANGED handlerFaults ELSE HandlerFault

Shows(c) == shown' = [shown EXCEPT ![Task(c)] = Append(@, Head(batch[c]))]

NewRow(c) == [state |-> Event(c).state, pct |-> Event(c).pct]
Written(c) == [statusRow EXCEPT ![Task(c)] = NewRow(c)]

Remember(c) ==
    cache' = [cache EXCEPT ![c][Task(c)] =
                 IF IsTerminal(Event(c)) THEN NoPct ELSE Event(c).pct]

\* Mutant: the cache is written before the transaction.
FailedWriteCached(c) == Remember(c)

(* If the transaction raises, it may have been committed all the same, and *)
(* the cache is left alone.                                                *)
FailedWrite(c) == UNCHANGED cache

(* handle_status_event up to the end of update_task_status: one            *)
(* transaction, then the cache.                                            *)
StoreStatus(c, ok) ==
    /\ Handling(c, "status") /\ stage[c] = "entered" /\ ShouldPersist(c)
    /\ \/ /\ ok
          /\ statusRow' = Written(c)
          /\ Remember(c)
          /\ stage' = [stage EXCEPT ![c] = "stored"]
          /\ UNCHANGED <<vars, metered, handlerFaults>>
       \/ /\ ~ok
          /\ statusRow' \in {statusRow, Written(c)}
          /\ FailedWrite(c)
          /\ Meter(c) /\ Leaves(c, FALSE)
    /\ UNCHANGED <<producers, resultRow, shown>>

(* ... and its broadcast, of every status, persisted or not.  A broadcast  *)
(* that raises may have reached some of the clients.                       *)
BroadcastStatus(c, ok) ==
    /\ Handling(c, "status") /\ (stage[c] = "stored" \/ ~ShouldPersist(c))
    /\ Meter(c) /\ Leaves(c, ok)
    /\ \/ Shows(c)
       \/ ~ok /\ UNCHANGED shown
    /\ UNCHANGED <<producers, cache, storage>>

(* handle_result_event: the result is stored and not broadcast.            *)
StoreResult(c, ok) ==
    /\ Handling(c, "result")
    /\ Leaves(c, ok)
    /\ \/ resultRow' = [resultRow EXCEPT ![Task(c)] = TRUE]
       \/ ~ok /\ UNCHANGED resultRow
    /\ UNCHANGED <<producers, cache, metered, statusRow, shown>>

\* Mutant: the broadcast waits for a client that does not answer.
BroadcastChunkHangs(c, ok) ==
    /\ Handling(c, "chunk") /\ ok
    /\ UNCHANGED pipelineVars

(* handle_result_chunk_event: chunks are broadcast and not stored.         *)
BroadcastChunk(c, ok) ==
    /\ Handling(c, "chunk")
    /\ Meter(c) /\ Leaves(c, ok)
    /\ \/ Shows(c)
       \/ ~ok /\ UNCHANGED shown
    /\ UNCHANGED <<producers, cache, storage>>

Handler(c, ok) ==
    \/ StoreStatus(c, ok) \/ BroadcastStatus(c, ok)
    \/ StoreResult(c, ok) \/ BroadcastChunk(c, ok)

-----------------------------------------------------------------------------
(* The consumer's own steps, with the handler's state carried along: only  *)
(* the end of the process touches it, by losing it.                        *)
OutsideHandlers == UNCHANGED <<producers, memory, storage, shown, handlerFaults>>

ConsumerProceeds(c) ==
    \/ EnsureGroup(c) \/ Reclaim(c)
    \/ XReadGroup(c) \/ Backoff(c) \/ Ack(c)

ConsumerLoop(c) ==
    /\ \/ ConsumerProceeds(c)
       \/ XReadGroupIdle(c) \/ XReadGroupFails(c) \/ AckFails(c)
    /\ OutsideHandlers

LoseMemory(c) ==
    /\ Stop(c) \/ Crash(c)
    /\ stage' = [stage EXCEPT ![c] = "entered"]
    /\ cache' = [cache EXCEPT ![c] = [t \in Tasks |-> NoPct]]
    /\ metered' = [metered EXCEPT ![c] = {}]
    /\ UNCHANGED <<producers, storage, shown, handlerFaults>>

LoseStream == RedisRestart /\ OutsideHandlers

PipelineNext ==
    \/ \E t \in Tasks : PublishNext(t)
    \/ \E c \in Consumers :
          \/ \E ok \in BOOLEAN : Handler(c, ok)
          \/ ConsumerLoop(c) \/ LoseMemory(c)
    \/ LoseStream

PipelineSpec == PipelineInit /\ [][PipelineNext]_pipelineVars

(* Workers run to the end of their tasks; the event loop of each process   *)
(* resumes its consumer, and docker restarts a process that ended.         *)
PipelineFairSpec ==
    /\ PipelineSpec
    /\ \A t \in Tasks : WF_pipelineVars(PublishNext(t))
    /\ \A c \in Consumers :
          WF_pipelineVars((\E ok \in BOOLEAN : Handler(c, ok))
                          \/ (ConsumerProceeds(c) /\ OutsideHandlers))

-----------------------------------------------------------------------------
(* What some of the properties need of the deployment and of the scripts:  *)
(* the latter is what WorkerTasks checks of the two tasks, as its          *)
(* TerminalStatusIsLast and ProgressNeverGoesBack.                         *)
OneProcess == \A c, d \in Consumers : c = d

TerminalEndsScript ==
    \A t \in Tasks : \A j, k \in DOMAIN Script[t] :
        j < k /\ IsTerminal(Script[t][j]) =>
            Script[t][k].type = "result" \/ Script[t][k] = Script[t][j]

ProgressRises ==
    \A t \in Tasks : \A j, k \in DOMAIN Script[t] :
        j < k /\ Script[t][j].type = "status" /\ Script[t][k].type = "status" =>
            Script[t][j].pct <= Script[t][k].pct

EventAt(i) == content[i].event
ShownStatuses(t) ==
    {k \in DOMAIN shown[t] : EventAt(shown[t][k]).type = "status"}
LastShown(t) == EventAt(shown[t][CHOOSE k \in ShownStatuses(t) :
                                    \A j \in ShownStatuses(t) : j <= k])

(* README "persisting only meaningful state transitions or periodic        *)
(* snapshots ... while still guaranteeing ... client reconnection          *)
(* support": a client that polls the row is never behind a client that     *)
(* listens by status_delta or more, nor by a terminal state, although most *)
(* statuses are not written and writes fail.  (OneProcess, and both        *)
(* conditions on the scripts.)                                             *)
RowKeepsUpWithBroadcasts ==
    \A t \in Tasks : ShownStatuses(t) # {} =>
        /\ LastShown(t).pct < statusRow[t].pct + STATUS_DELTA
        /\ LastShown(t).state \in TerminalStates =>
              statusRow[t].state = LastShown(t).state

(* A task's row never goes back: not to a lower percentage, and not out of *)
(* a terminal state, through failed writes, failed acks, crashes and       *)
(* restarts that empty the cache.  (OneProcess, and both conditions.)      *)
StatusNeverRegresses ==
    [][\A t \in Tasks :
          /\ statusRow'[t].pct >= statusRow[t].pct
          /\ statusRow[t].state \in TerminalStates =>
                statusRow'[t].state = statusRow[t].state]_statusRow

(* Listening clients see the events of a task in the order its worker      *)
(* published them and none twice.  (OneProcess.)                           *)
ShownInOrder ==
    \A t \in Tasks : \A j, k \in DOMAIN shown[t] : j < k => shown[t][j] < shown[t][k]

(* A process that has handled a task's terminal status keeps nothing more  *)
(* of the task in its status cache and its CPU meter, however many         *)
(* processes there are.  (TerminalEndsScript.)                             *)
MemoryReleased ==
    \A c \in Consumers : \A k \in DOMAIN log[c] :
        LET i == log[c][k].id
        IN log[c][k].ok /\ IsTerminal(EventAt(i)) =>
              cache[c][content[i].task] = NoPct /\ content[i].task \notin metered[c]

(* While nothing fails every result reaches its row, whichever process is  *)
(* handed it, and stays there.                                             *)
EveryResultStored ==
    \A t \in Tasks :
        <>[](resultRow[t] \/ handlerFaults + disruptions + redisRestarts > 0)

-----------------------------------------------------------------------------
(* What the documentation says and the code does not do.                   *)

(* README:196 "reliable, ordered, and replayable event delivery": once its *)
(* terminal status is in the row, an earlier status does not replace it.   *)
TerminalStatusIsFinal ==
    [][\A t \in Tasks : statusRow[t].state \in TerminalStates =>
          statusRow'[t].state = statusRow[t].state]_statusRow
=============================================================================
