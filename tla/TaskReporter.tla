---------------------------- MODULE TaskReporter ----------------------------
(***************************************************************************)
(* worker/reporter.py: TaskReporter, which XADDs one event per call, and   *)
(* ResultChunkReporter, which batches the items of a partial result into   *)
(* numbered chunks and closes the stream of chunks with an is_last one.    *)
(* ComputePiTask and DocumentAnalysisTask run on top of it; WorkerTasks is *)
(* a worker that runs one of them.                                         *)
(***************************************************************************)
EXTENDS Naturals, Sequences, SequencesExt

CONSTANTS
    BATCH_SIZE,     \* items per chunk (both tasks use 1)
    MaxFaults       \* bound: calls to Redis that do not simply succeed

ASSUME BatchSizeAssumption == BATCH_SIZE \in Nat \ {0}
ASSUME MaxFaultsAssumption == MaxFaults \in Nat

VARIABLES
    stream,         \* this task's events, as the stream holds them
    chunkIndex,     \* _chunk_index
    batch,          \* _batch
    emitted,        \* history: items given to emit()
    faults,
    pc              \* the next call of the task

reporter == <<stream, chunkIndex, batch, emitted, faults>>

Status(state, current) == [type |-> "status", state |-> state, current |-> current]
Chunk(id, data, isLast) ==
    [type |-> "chunk", id |-> id, data |-> data, isLast |-> isLast]
Result(data) == [type |-> "result", data |-> data]

ReporterInit ==
    /\ stream = <<>> /\ chunkIndex = 0 /\ batch = <<>> /\ emitted = <<>>
    /\ faults = 0

(* StreamsSyncPublisher.publish of one event.  The call returns (ok) with  *)
(* the event in the stream; after a timeout the client sends it again      *)
(* (retry_on_timeout) and the stream may hold it twice.  Or it raises,     *)
(* with the event in the stream or not.                                    *)
Publish(event, ok) ==
    \/ /\ ok
       /\ stream' = Append(stream, event)
       /\ UNCHANGED faults
    \/ /\ faults < MaxFaults /\ faults' = faults + 1
       /\ IF ok THEN stream' = stream \o <<event, event>>
          ELSE stream' \in {stream, Append(stream, event)}

(* report_status and report_result.                                        *)
Report(event, ok) == Publish(event, ok) /\ UNCHANGED <<chunkIndex, batch, emitted>>

\* Mutant: the batch is dropped also by an exception.
FlushDropsBatch(items, isLast, ok) ==
    /\ Publish(Chunk(chunkIndex, items, isLast), ok)
    /\ chunkIndex' = IF ok THEN chunkIndex + 1 ELSE chunkIndex
    /\ batch' = <<>>

(* _flush: an exception or the last chunk leaves index and batch alone.    *)
Flush(items, isLast, ok) ==
    /\ Publish(Chunk(chunkIndex, items, isLast), ok)
    /\ IF ok /\ ~isLast THEN chunkIndex' = chunkIndex + 1 /\ batch' = <<>>
       ELSE chunkIndex' = chunkIndex /\ batch' = items

Emit(item, ok) ==
    /\ emitted' = Append(emitted, item)
    /\ \/ /\ Len(batch) + 1 >= BATCH_SIZE
          /\ Flush(Append(batch, item), FALSE, ok)
       \/ /\ Len(batch) + 1 < BATCH_SIZE /\ ok
          /\ batch' = Append(batch, item)
          /\ UNCHANGED <<stream, chunkIndex, faults>>

(* __exit__: whether or not the with-block raised.                         *)
Exit(ok) == Flush(batch, TRUE, ok) /\ UNCHANGED emitted

\* What an exception raises out of: the task goes on at `handler`.
Continue(ok, next, handler) == pc' = IF ok THEN next ELSE handler

Ended == {"returned", "raised", "crashed"}

(* The worker process dies: nothing more is published, and Celery, which   *)
(* acknowledged the task when it was received, does not run it again.      *)
Crash ==
    /\ pc \notin Ended /\ faults < MaxFaults
    /\ pc' = "crashed" /\ faults' = faults + 1
    /\ UNCHANGED <<stream, chunkIndex, batch, emitted>>

-----------------------------------------------------------------------------
IsChunk(event) == event.type = "chunk"
IsStatus(event) == event.type = "status"
=============================================================================
