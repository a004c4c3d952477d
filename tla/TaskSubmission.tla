---------------------------- MODULE TaskSubmission ----------------------------
(***************************************************************************)
(* One document_analysis task from TaskService.create_task to its last     *)
(* status: the request coroutine of the API, the task's row in Postgres,   *)
(* the Celery broker and result backend in Redis, the runs of the task by  *)
(* workers, and their statuses on the way to the row.  (compute_pi reports *)
(* no terminal status: ComputePiTask.)  Of what the stream, its consumers  *)
(* and their handlers may do to a status (EventPipeline) there is here what*)
(* the row shows: it comes late, twice or not at all.                      *)
(***************************************************************************)
EXTENDS Naturals

CONSTANTS
    Runs,        \* executions of the task: one per message a worker takes
    MaxFaults    \* bound: calls that fail or repeat, processes that die

ASSUME MaxFaultsAssumption == MaxFaults \in Nat

VARIABLES
    request,     \* create_task: "new", "inserted", "sending", "storing",
                 \* "failing" or Ended
    row,         \* the task's status row: States, "none" before the insert
    queue,       \* messages for the task in the broker, at most 2
    published,   \* history: the broker accepted a message
    run,         \* each execution: "none", "started", "running", "reported",
                 \* "returned", "raised" or "lost"
    meta,        \* Celery's store of its outcome: "none", "writing", "done"
                 \* or "failed"
    events,      \* statuses published and not yet handled
    arrived,     \* history: the runs whose terminal status has reached the row
    backend,     \* result backend: "PENDING", "SENT", "SUCCESS" or "FAILURE"
    expired,     \* history: the backend dropped what it had stored
    mishaps,     \* history: "sent lost", "status lost", "overtaken", "restart"
    faults

workerVars == <<queue, run, meta>>
statusVars == <<events, arrived>>
backendVars == <<backend, expired>>
vars == <<request, row, published, mishaps, faults, workerVars, statusVars, backendVars>>

States == {"QUEUED", "RUNNING", "COMPLETED", "FAILED"}
TerminalStates == {"COMPLETED", "FAILED"}
Ended == {"accepted", "rejected", "error", "crashed"}

Init ==
    /\ request = "new" /\ row = "none" /\ queue = 0 /\ published = FALSE
    /\ run = [r \in Runs |-> "none"] /\ meta = [r \in Runs |-> "none"]
    /\ events = {} /\ arrived = {}
    /\ backend = "PENDING" /\ expired = FALSE /\ mishaps = {} /\ faults = 0

Fault == faults < MaxFaults /\ faults' = faults + 1

\* A transaction returns after it committed, or raises before or after it did.
Writes(state, ok) ==
    \/ ok /\ row' = state /\ UNCHANGED faults
    \/ ~ok /\ row' \in {row, state} /\ Fault

-----------------------------------------------------------------------------
(* storage.create_task: the row is committed QUEUED before anything else.  *)
Insert(ok) ==
    /\ request = "new"
    /\ Writes("QUEUED", ok)
    /\ request' = IF ok THEN "inserted" ELSE "error"
    /\ UNCHANGED <<published, mishaps, workerVars, statusVars, backendVars>>

\* Mutant: the task is enqueued before it is stored.
SendTaskFirst(copies, ok) ==
    /\ request = "new" /\ copies = 1 /\ ok
    /\ queue' = queue + 1 /\ published' = TRUE
    /\ request' = "sending"
    /\ UNCHANGED <<row, mishaps, faults, run, meta, statusVars, backendVars>>

(* enqueue: send_task, in a thread.  Celery repeats a publish whose        *)
(* connection failed, so the broker may get the message twice; or the call *)
(* raises, with the message in the broker or not.                          *)
SendTask(copies, ok) ==
    /\ request = "inserted"
    /\ queue' = queue + copies
    /\ published' = (published \/ copies > 0)
    /\ \/ ok /\ copies = 1 /\ UNCHANGED faults
       \/ ok /\ copies = 2 /\ Fault
       \/ ~ok /\ copies < 2 /\ Fault
    /\ request' = IF ok THEN "sending" ELSE "failing"
    /\ UNCHANGED <<row, mishaps, run, meta, statusVars, backendVars>>

\* Mutant: the id is looked for where older messages have it.
SentForgotten ==
    /\ request = "sending" /\ request' = "accepted"
    /\ UNCHANGED <<row, published, mishaps, faults, workerVars, statusVars, backendVars>>

\* Mutant: what is stored is not read first.
StoreAlways == TRUE

\* Celery's _store_result reads what is stored and leaves a SUCCESS alone.
StoreNeeded == backend # "SUCCESS"

(* mark_task_sent, after the publish and before send_task returns: store   *)
(* SENT, which is a GET and then a SET.                                    *)
ReadSent ==
    /\ request = "sending"
    /\ request' = IF StoreNeeded THEN "storing" ELSE "accepted"
    /\ UNCHANGED <<row, published, mishaps, faults, workerVars, statusVars, backendVars>>

WriteSent ==
    /\ request = "storing" /\ request' = "accepted"
    /\ backend' = "SENT"
    /\ UNCHANGED <<row, published, mishaps, faults, workerVars, statusVars, expired>>

(* One of the two fails, before or after it was executed; Celery logs the  *)
(* exception of a signal handler and goes on.                              *)
SentFails ==
    /\ request \in {"sending", "storing"} /\ request' = "accepted" /\ Fault
    /\ backend' \in {backend} \cup IF request = "storing" THEN {"SENT"} ELSE {}
    /\ mishaps' = mishaps \cup {"sent lost"}
    /\ UNCHANGED <<row, published, workerVars, statusVars, expired>>

\* Mutant: the exception is raised without the write.
MarkFailedNot(ok) ==
    /\ request = "failing" /\ ok
    /\ request' = "rejected"
    /\ UNCHANGED <<row, published, mishaps, faults, workerVars, statusVars, backendVars>>

(* except Exception: write FAILED, then raise; if the write raises too, its*)
(* exception goes up instead.                                              *)
MarkFailed(ok) ==
    /\ request = "failing"
    /\ Writes("FAILED", ok)
    /\ request' = "rejected"
    /\ UNCHANGED <<published, mishaps, workerVars, statusVars, backendVars>>

ApiCrashes ==
    /\ request \notin Ended /\ Fault
    /\ request' = "crashed"
    /\ UNCHANGED <<row, published, mishaps, workerVars, statusVars, backendVars>>

-----------------------------------------------------------------------------
(* A worker takes the message, and with it acknowledges it.                *)
TakeMessage(r) ==
    /\ queue > 0 /\ run[r] = "none"
    /\ queue' = queue - 1
    /\ run' = [run EXCEPT ![r] = "started"]
    /\ UNCHANGED <<request, row, published, mishaps, faults, meta, statusVars, backendVars>>

(* The run publishes a status.                                             *)
Reports(r, state, to) ==
    /\ run' = [run EXCEPT ![r] = to]
    /\ events' = events \cup {[run |-> r, state |-> state]}
    /\ UNCHANGED <<request, row, published, mishaps, faults, queue, meta, arrived, backendVars>>

\* One stands for the many of a run: it may still be on its way after them.
ReportRunning(r) == run[r] = "started" /\ Reports(r, "RUNNING", "running")

(* The terminal status: COMPLETED after the last chunk, or _report_failed. *)
ReportEnd(r, state) ==
    /\ \/ run[r] = "running" /\ state = "COMPLETED"
       \/ run[r] = "started" /\ state = "FAILED"
    /\ Reports(r, state, "reported")

(* The result is reported and the task returns; a reported FAILED is a     *)
(* return, too, for Celery.  Or it raises, even then: no status says so.   *)
Return(r) ==
    /\ run[r] = "reported"
    /\ run' = [run EXCEPT ![r] = "returned"]
    /\ UNCHANGED <<request, row, published, mishaps, faults, queue, meta, statusVars, backendVars>>

Raise(r) ==
    /\ run[r] \in {"started", "running", "reported"} /\ Fault
    /\ run' = [run EXCEPT ![r] = "raised"]
    /\ UNCHANGED <<request, row, published, mishaps, queue, meta, statusVars, backendVars>>

WorkerCrashes(r) ==
    /\ run[r] \in {"started", "running", "reported"} /\ Fault
    /\ run' = [run EXCEPT ![r] = "lost"]
    /\ UNCHANGED <<request, row, published, mishaps, queue, meta, statusVars, backendVars>>

(* Celery stores the outcome of the run: a GET, and a SET.                 *)
Outcome(r) == IF run[r] = "returned" THEN "SUCCESS" ELSE "FAILURE"

ReadMeta(r) ==
    /\ run[r] \in {"returned", "raised"} /\ meta[r] = "none"
    /\ meta' = [meta EXCEPT ![r] = IF StoreNeeded THEN "writing" ELSE "done"]
    /\ UNCHANGED <<request, row, published, mishaps, faults, queue, run, statusVars, backendVars>>

WriteMeta(r) ==
    /\ meta[r] = "writing"
    /\ meta' = [meta EXCEPT ![r] = "done"]
    /\ backend' = Outcome(r)
    /\ UNCHANGED <<request, row, published, mishaps, faults, queue, run, statusVars, expired>>

(* Either of them fails, or the worker dies in between.                    *)
StoreFails(r) ==
    /\ run[r] \in {"returned", "raised"} /\ meta[r] \in {"none", "writing"} /\ Fault
    /\ meta' = [meta EXCEPT ![r] = "failed"]
    /\ backend' \in {backend} \cup IF meta[r] = "writing" THEN {Outcome(r)} ELSE {}
    /\ UNCHANGED <<request, row, published, mishaps, queue, run, statusVars, expired>>

(* result_expires: Redis drops what the backend stored.                    *)
Expire ==
    /\ backend # "PENDING"
    /\ backend' = "PENDING" /\ expired' = TRUE
    /\ UNCHANGED <<request, row, published, mishaps, faults, workerVars, statusVars>>

(* Redis starts again, empty: it saves nothing.                            *)
RedisRestarts ==
    /\ Fault
    /\ queue' = 0 /\ events' = {} /\ backend' = "PENDING" /\ expired' = TRUE
    /\ mishaps' = mishaps \cup {"restart"}
    /\ UNCHANGED <<request, row, published, run, meta, arrived>>

-----------------------------------------------------------------------------
\* Which runs have their terminal status in the row, and what went wrong.
Notes(e) ==
    LET last == e.state \in TerminalStates
    IN /\ arrived' = arrived \cup {r \in {e.run} : last /\ row' = e.state}
       /\ mishaps' = mishaps
             \cup {m \in {"status lost"} : last /\ e.run \notin arrived'}
             \cup {m \in {"overtaken"} : ~last /\ row' # row /\ e.run \in arrived}

\* Mutant: terminal states are throttled like the others.
ApplyEventThrottled(e, ok) ==
    /\ e \in events /\ ok
    /\ row' = IF row = "none" \/ e.state \in TerminalStates THEN row ELSE e.state
    /\ events' = events \ {e}
    /\ UNCHANGED <<request, published, mishaps, faults, workerVars, arrived, backendVars>>

(* handle_status_event of whichever process was handed the entry, in any   *)
(* order: update_task_status raises TaskNotFoundError when there is no row,*)
(* and may fail; the entry is then never handled again.  A RUNNING may be  *)
(* throttled.                                                              *)
ApplyEvent(e, ok) ==
    /\ e \in events
    /\ \/ row # "none" /\ Writes(e.state, ok)
       \/ (row = "none" \/ e.state = "RUNNING") /\ ok /\ UNCHANGED <<row, faults>>
    /\ events' = events \ {e}
    /\ Notes(e)
    /\ UNCHANGED <<request, published, workerVars, backendVars>>

(* The first of two copies, which a repeated XADD has left in the stream.  *)
ApplyCopy(e) ==
    /\ e \in events /\ row # "none" /\ Fault
    /\ row' = e.state
    /\ Notes(e)
    /\ UNCHANGED <<request, published, workerVars, events, backendVars>>

(* A process that was handed the entry died, or never got the reply; or    *)
(* there was no group to hand it out, or a new one that begins after it.   *)
LoseEvent(e) ==
    /\ e \in events
    /\ IF "restart" \in mishaps THEN UNCHANGED faults ELSE Fault
    /\ events' = events \ {e}
    /\ UNCHANGED row /\ Notes(e)
    /\ UNCHANGED <<request, published, workerVars, backendVars>>

-----------------------------------------------------------------------------
RunProceeds(r) ==
    \/ ReportRunning(r) \/ Return(r) \/ ReadMeta(r) \/ WriteMeta(r)
    \/ \E state \in TerminalStates : ReportEnd(r, state)

Next ==
    \/ \E ok \in BOOLEAN :
          \/ Insert(ok) \/ MarkFailed(ok)
          \/ \E copies \in 0..2 : SendTask(copies, ok)
    \/ ReadSent \/ WriteSent \/ SentFails \/ ApiCrashes
    \/ \E r \in Runs :
          TakeMessage(r) \/ RunProceeds(r) \/ Raise(r) \/ WorkerCrashes(r) \/ StoreFails(r)
    \/ \E e \in events :
          ApplyCopy(e) \/ LoseEvent(e) \/ \E ok \in BOOLEAN : ApplyEvent(e, ok)
    \/ Expire \/ RedisRestarts

(* Workers and consumers keep going.                                       *)
Spec ==
    /\ Init /\ [][Next]_vars
    /\ WF_vars(\E e \in events, ok \in BOOLEAN : ApplyEvent(e, ok))
    /\ WF_vars(\E r \in Runs : TakeMessage(r))
    /\ \A r \in Runs : WF_vars(RunProceeds(r))

-----------------------------------------------------------------------------
(* The answer to the POST, and to GET check_progress, which reads the row. *)
StatusCode ==
    CASE request = "accepted" -> "200"
      [] request \in {"rejected", "error"} -> "500"
      [] OTHER -> "none"
CheckProgress == IF row = "none" THEN "404" ELSE row

(* OrmMapper.to_state: what CeleryTaskManager.get_status makes of the      *)
(* backend; its other states (STARTED, RETRY, REVOKED) are never stored by *)
(* this configuration.                                                     *)
ToState ==
    CASE backend = "PENDING" -> "not_found"
      [] backend = "SENT" -> "QUEUED"
      [] backend = "FAILURE" -> "FAILED"
      [] backend = "SUCCESS" -> "COMPLETED"

(* No status ever arrives for a task without a row, whatever fails: the    *)
(* row is committed before the broker sees the task.                       *)
EventsFindRow == (events # {} \/ queue > 0) => row # "none"

(* A caller told that the task was accepted has a task that the broker has *)
(* had, and that check_progress finds; a caller told that it was not has   *)
(* it marked FAILED, or running after all, unless a second call failed or  *)
(* the insert raised although it was committed.                            *)
AnswersAreTrue ==
    /\ StatusCode = "200" => published /\ CheckProgress # "404"
    /\ StatusCode = "500" /\ CheckProgress = "QUEUED" =>
          published \/ faults >= 2 \/ request = "error"

(* Whatever fails, a task that the broker has had ends in a terminal status*)
(* for good, unless a worker died in it (Celery acknowledges on receipt and*)
(* does not run it again), it raised (no event says so), its last status   *)
(* was lost or overtaken by an earlier one of the same run, or Redis       *)
(* restarted: nothing else strands it, neither a repeated message or       *)
(* status, nor a request that failed, nor the result backend.              *)
OnlyLostRunsStrand ==
    <>[](published =>
            \/ row \in TerminalStates
            \/ \E r \in Runs : run[r] \in {"lost", "raised"}
            \/ mishaps \cap {"status lost", "overtaken", "restart"} # {})

(* celery/app.py:20 "Allows distinguishing between nonexistent task ids    *)
(* and tasks that were accepted": as long as nothing expired, get_status   *)
(* finds a task that was accepted, unless storing SENT failed, and one     *)
(* whose outcome Celery stored, whichever store came last; and COMPLETED   *)
(* and FAILED are the outcome of some run.  (SENT may hide either for good,*)
(* read before it and written after.  A run that reported FAILED and       *)
(* returned is COMPLETED here: the backend and the row differ in that.)    *)
BackendAgrees ==
    /\ ~expired /\ ToState = "not_found" =>
          /\ request = "accepted" => "sent lost" \in mishaps
          /\ \A r \in Runs : meta[r] # "done"
    /\ ToState = "COMPLETED" => \E r \in Runs : run[r] = "returned"
    /\ ToState = "FAILED" => \E r \in Runs : run[r] = "raised"

(* A SUCCESS that no other store has overlapped stays until it expires:    *)
(* only a store that read the backend before, SENT or the outcome of a     *)
(* second run, can replace it.                                             *)
Settled ==
    /\ backend = "SUCCESS" /\ request # "storing"
    /\ \A r \in Runs : meta[r] # "writing"
SuccessSettles == [][Settled => Settled' \/ expired']_vars
=============================================================================
