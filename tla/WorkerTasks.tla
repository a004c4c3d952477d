----------------------------- MODULE WorkerTasks -----------------------------
(***************************************************************************)
(* A Celery worker that runs one task: compute_pi or document_analysis.    *)
(* Its events are what the API, the pipeline and the clients rely on.      *)
(***************************************************************************)
EXTENDS ComputePiTask, DocumentAnalysisTask

VARIABLES
    task,       \* the task type of the message
    assembled   \* history: what a reader of the stream has put together

vars == <<reporter, pc, digits, scan, task, assembled>>

Init ==
    /\ ReporterInit
    /\ assembled = <<>>
    /\ \/ task = "compute_pi" /\ PiInit /\ ScanInit /\ fileEnd = 0
       \/ task = "document_analysis" /\ DocumentInit /\ digits = 0

(* The new entries that hold a chunk with an id not yet in the stream.     *)
News ==
    {i \in DOMAIN stream' \ DOMAIN stream :
        /\ IsChunk(stream'[i])
        /\ \A j \in DOMAIN stream : IsChunk(stream[j]) => stream[j].id # stream'[i].id}

(* A reader that keeps one copy of each chunk id, as the entries come.     *)
Assemble ==
    IF News = {} THEN UNCHANGED assembled
    ELSE \E i \in News : assembled' = assembled \o stream'[i].data

Work ==
    \/ task = "compute_pi" /\ ComputePi /\ UNCHANGED <<scan, task>> /\ Assemble
    \/ task = "document_analysis" /\ AnalyzeDocument /\ UNCHANGED <<digits, task>> /\ Assemble

Next ==
    \/ Work
    \/ task = "document_analysis" /\ Download /\ UNCHANGED <<digits, task, assembled>>

\* A task is a sequential program that keeps running until it ends.
Spec == Init /\ [][Next]_vars /\ WF_vars(Work)

-----------------------------------------------------------------------------
Terminal(event) == IsStatus(event) /\ event.state \in {"COMPLETED", "FAILED"}
Closed == \E i \in DOMAIN stream : IsChunk(stream[i]) /\ stream[i].isLast

(* Lost calls, retries and exceptions may repeat a chunk but never leave a *)
(* hole: one copy of each chunk id is always a prefix of what was emitted; *)
(* and a client told is_last has been sent everything that was emitted,    *)
(* also when the task raised (__exit__ flushes the unsent batch).          *)
AssembledIsPrefix ==
    /\ IsPrefix(assembled, emitted)
    /\ Closed => assembled = emitted

(* Chunk ids count up from 0, and one repeats only after a failed call; no *)
(* chunk follows the is_last one except its own repetition.                *)
ChunksInOrder ==
    \A i \in DOMAIN stream : IsChunk(stream[i]) =>
        /\ stream[i].id > 0 =>
              \E j \in 1..(i - 1) : IsChunk(stream[j]) /\ stream[j].id + 1 = stream[i].id
        /\ \A j \in 1..(i - 1) : IsChunk(stream[j]) =>
              /\ stream[j].id < stream[i].id \/ (stream[j].id = stream[i].id /\ faults > 0)
              /\ stream[j].isLast => stream[i] = stream[j]

(* What the stream assembles to for whoever reads it, with all the faults. *)
ChunksAssemble == AssembledIsPrefix /\ ChunksInOrder

LastStatus(i) ==
    IsStatus(stream[i]) /\ \A j \in DOMAIN stream : j > i => ~IsStatus(stream[j])

(* compute_pi.py:43: clients see a digit counted before they see the digit *)
(* and no further ahead than the digits still in the batch.                *)
StatusLeadsDigits ==
    task = "compute_pi" => \A i \in DOMAIN stream : LastStatus(i) =>
        LET counted == stream[i].current
        IN Len(assembled) <= counted /\ counted <= Len(assembled) + BATCH_SIZE

(* The final result is published only after all of it was streamed and     *)
(* closed: the two ways to obtain a result agree.  COMPLETED comes after   *)
(* as many bytes as the task announced, unless the file was truncated      *)
(* under it by another worker's download.                                  *)
ResultAgreesWithChunks ==
    \A i \in DOMAIN stream :
        /\ stream[i].type = "result" =>
              /\ Closed
              /\ stream[i].data = IF task = "compute_pi" THEN assembled ELSE Len(assembled)
        /\ IsStatus(stream[i]) /\ stream[i].state = "COMPLETED" =>
              Closed /\ (truncated \/ tell >= totalBytes)

(* Statuses, COMPLETED and the result all agree with what was streamed.    *)
ReportsAgree == StatusLeadsDigits /\ ResultAgreesWithChunks

(* Progress never goes back, although a hit is placed by counting          *)
(* characters and a chunk without hits by the position in the file; but a  *)
(* document that grew after its size was taken is reported past its total  *)
(* (document_analysis.py:202), and what follows is only not below that.    *)
Shown(current) ==
    IF task = "document_analysis" /\ current > totalBytes THEN totalBytes ELSE current
ProgressNeverGoesBack ==
    \A i, j \in DOMAIN stream :
        i < j /\ IsStatus(stream[i]) /\ IsStatus(stream[j]) =>
            Shown(stream[i].current) <= stream[j].current

(* A terminal status is the last status, and nothing but the result        *)
(* follows it.                                                             *)
TerminalStatusIsLast ==
    \A i, j \in DOMAIN stream :
        i < j /\ Terminal(stream[i]) =>
            stream[j].type = "result" \/ (faults > 0 /\ stream[j] = stream[i])

-----------------------------------------------------------------------------
(* What the documentation says and the code does not do.                   *)

(* README:48 "Worker ->> Redis: Emit completion event": a task that ran to *)
(* its end has told so with a terminal status.                             *)
CompletionIsReported ==
    pc = "returned" => \E i \in DOMAIN stream : Terminal(stream[i])
=============================================================================
