------------------------ MODULE TaskSubmission_proofs ------------------------
(***************************************************************************)
(* Proofs about TaskSubmission, for any number of executions and faults.   *)
(*   StoredInv     before the row exists nothing of the task does          *)
(*   AnsweredInv   what the answers to the request rest on                 *)
(*   BackendInv    what the result backend tells, and that only the outcome*)
(*                 of a run that has ended is stored                       *)
(***************************************************************************)
EXTENDS TaskSubmission, TLAPS

Requests == {"new", "inserted", "sending", "storing", "failing"} \cup Ended
Executions == {"none", "started", "running", "reported", "returned", "raised", "lost"}
Stores == {"none", "writing", "done", "failed"}
Reported == {"RUNNING"} \cup TerminalStates
Events == [run : Runs, state : Reported]

TypeOK ==
    /\ request \in Requests
    /\ row \in States \cup {"none"}
    /\ queue \in Nat
    /\ published \in BOOLEAN /\ expired \in BOOLEAN
    /\ run \in [Runs -> Executions] /\ meta \in [Runs -> Stores]
    /\ events \subseteq Events
    /\ backend \in {"PENDING", "SENT", "SUCCESS", "FAILURE"}
    /\ faults \in Nat

StoredInv ==
    row = "none" => /\ request \in {"new", "error", "crashed"}
                    /\ queue = 0 /\ events = {}
                    /\ \A r \in Runs : run[r] = "none"

AnsweredInv ==
    /\ request \in {"sending", "storing", "accepted"} => published
    /\ request = "failing" => faults >= 1
    /\ request = "rejected" /\ row = "QUEUED" => published \/ faults >= 2

BackendInv ==
    /\ expired = FALSE /\ backend = "PENDING" =>
          /\ request = "accepted" => "sent lost" \in mishaps
          /\ \A r \in Runs : meta[r] # "done"
    /\ \A r \in Runs : meta[r] # "none" => run[r] \in {"returned", "raised"}
    /\ backend = "SUCCESS" => \E r \in Runs : run[r] = "returned"
    /\ backend = "FAILURE" => \E r \in Runs : run[r] = "raised"

SubmissionInv == TypeOK /\ StoredInv /\ AnsweredInv /\ BackendInv

LEMMA SubmissionInit == Init => SubmissionInv
<1> SUFFICES ASSUME Init PROVE SubmissionInv
  OBVIOUS
<1>1. TypeOK
  BY DEF Init, TypeOK, Executions, Stores, Requests
<1>2. StoredInv /\ AnsweredInv /\ BackendInv
  BY DEF Init, StoredInv, AnsweredInv, BackendInv
<1> QED
  BY <1>1, <1>2 DEF SubmissionInv

LEMMA FaultCounts ==
    ASSUME TypeOK, Fault PROVE faults' = faults + 1 /\ faults' \in Nat /\ faults' >= 1
BY DEF Fault, TypeOK

(* The request coroutine.                                                  *)
RequestStep ==
    \/ \E ok \in BOOLEAN :
          \/ Insert(ok) \/ MarkFailed(ok)
          \/ \E copies \in 0..2 : SendTask(copies, ok)
    \/ ReadSent \/ WriteSent \/ SentFails \/ ApiCrashes

LEMMA RequestKeeps == ASSUME SubmissionInv, RequestStep PROVE SubmissionInv'
<1> USE DEF SubmissionInv
<1>1. ASSUME NEW ok \in BOOLEAN, Insert(ok) PROVE SubmissionInv'
  <2>1. /\ request = "new" /\ request' \in {"inserted", "error"}
        /\ row' \in {row, "QUEUED"} /\ (request' = "inserted" => row' = "QUEUED")
        /\ UNCHANGED <<published, mishaps, queue, run, meta, events, backend, expired>>
    BY <1>1 DEF Insert, Writes, workerVars, statusVars, backendVars
  <2>2. faults' \in Nat
    BY <1>1, FaultCounts DEF Insert, Writes, TypeOK
  <2>3. TypeOK'
    BY <2>1, <2>2 DEF TypeOK, Requests, Ended, States
  <2> QED
    BY <2>1, <2>3 DEF StoredInv, AnsweredInv, BackendInv
<1>2. ASSUME NEW ok \in BOOLEAN, NEW copies \in 0..2, SendTask(copies, ok)
      PROVE  SubmissionInv'
  <2>1. /\ request = "inserted" /\ request' \in {"sending", "failing"}
        /\ queue' = queue + copies
        /\ UNCHANGED <<row, mishaps, run, meta, events, backend, expired>>
    BY <1>2 DEF SendTask, statusVars, backendVars
  <2>2. published' \in BOOLEAN /\ (request' = "sending" => published')
    BY <1>2 DEF SendTask
  <2>3. faults' \in Nat /\ (request' = "failing" => faults' >= 1)
    BY <1>2, FaultCounts DEF SendTask, TypeOK
  <2>4. TypeOK'
    BY <2>1, <2>2, <2>3 DEF TypeOK, Requests
  <2> QED
    BY <2>1, <2>2, <2>3, <2>4 DEF StoredInv, AnsweredInv, BackendInv
<1>3. ASSUME NEW ok \in BOOLEAN, MarkFailed(ok) PROVE SubmissionInv'
  <2>1. /\ request = "failing" /\ request' = "rejected"
        /\ UNCHANGED <<published, mishaps, queue, run, meta, events, backend, expired>>
    BY <1>3 DEF MarkFailed, workerVars, statusVars, backendVars
  <2>2. \/ row' = "FAILED" /\ faults' \in Nat
        \/ row' = row /\ faults' \in Nat /\ faults' >= 2
    BY <1>3, <2>1, FaultCounts DEF MarkFailed, Writes, TypeOK, AnsweredInv
  <2>3. TypeOK'
    BY <2>1, <2>2 DEF TypeOK, Requests, Ended, States
  <2> QED
    BY <2>1, <2>2, <2>3 DEF StoredInv, AnsweredInv, BackendInv
<1>4. ASSUME ReadSent \/ WriteSent \/ SentFails PROVE SubmissionInv'
  <2>1. /\ request \in {"sending", "storing"} /\ request' \in {"storing", "accepted"}
        /\ UNCHANGED <<row, published, queue, run, meta, events, expired>>
    BY <1>4 DEF ReadSent, WriteSent, SentFails, workerVars, statusVars, backendVars
  <2>2. /\ backend' \in {backend, "SENT"} /\ mishaps \subseteq mishaps'
        /\ request' = "accepted" =>
              backend' \in {"SENT", "SUCCESS"} \/ "sent lost" \in mishaps'
    BY <1>4 DEF ReadSent, WriteSent, SentFails, StoreNeeded, backendVars
  <2>3. faults' \in Nat
    BY <1>4, FaultCounts DEF ReadSent, WriteSent, SentFails, TypeOK
  <2>4. TypeOK'
    BY <2>1, <2>2, <2>3 DEF TypeOK, Requests, Ended
  <2>5. StoredInv' /\ AnsweredInv'
    BY <2>1 DEF StoredInv, AnsweredInv
  <2>6. BackendInv'
    BY <2>1, <2>2 DEF BackendInv
  <2> QED
    BY <2>4, <2>5, <2>6
<1>5. ASSUME ApiCrashes PROVE SubmissionInv'
  <2>1. /\ request' = "crashed" /\ faults' \in Nat
        /\ UNCHANGED <<row, published, mishaps, queue, run, meta, events, backend, expired>>
    BY <1>5, FaultCounts DEF ApiCrashes, workerVars, statusVars, backendVars
  <2>2. TypeOK'
    BY <2>1 DEF TypeOK, Requests, Ended
  <2> QED
    BY <2>1, <2>2 DEF StoredInv, AnsweredInv, BackendInv
<1> QED
  BY <1>1, <1>2, <1>3, <1>4, <1>5 DEF RequestStep

-----------------------------------------------------------------------------
(* What a run does before Celery stores its outcome.                       *)
LEMMA RunMoves ==
    ASSUME SubmissionInv, NEW r \in Runs, NEW to \in Executions,
           run[r] \in {"started", "running", "reported"}, run' = [run EXCEPT ![r] = to],
           events' \subseteq Events, faults' \in Nat, faults' >= faults,
           UNCHANGED <<request, row, queue, published, meta, backend, expired, mishaps>>
    PROVE  SubmissionInv'
<1> USE DEF SubmissionInv
<1>1. /\ run' \in [Runs -> Executions] /\ run'[r] = to
      /\ \A q \in Runs : q # r => run'[q] = run[q]
  BY DEF TypeOK
<1>2. TypeOK'
  BY <1>1 DEF TypeOK
<1>3. row # "none"
  BY DEF StoredInv
<1>4. StoredInv' /\ AnsweredInv'
  BY <1>2, <1>3 DEF StoredInv, AnsweredInv, TypeOK
<1>5. meta[r] = "none"
  BY DEF BackendInv
<1>6. \A q \in Runs : run[q] \in {"returned", "raised"} => run'[q] = run[q]
  BY <1>1
<1>7. BackendInv'
  BY <1>1, <1>5, <1>6 DEF BackendInv
<1> QED
  BY <1>2, <1>4, <1>7

(* The workers.                                                            *)
LEMMA WorkerKeeps ==
    ASSUME SubmissionInv, NEW r \in Runs,
           TakeMessage(r) \/ RunProceeds(r) \/ Raise(r) \/ WorkerCrashes(r) \/ StoreFails(r)
    PROVE  SubmissionInv'
<1> USE DEF SubmissionInv
<1>1. ASSUME TakeMessage(r) PROVE SubmissionInv'
  <2>1. /\ queue \in Nat /\ queue > 0 /\ queue' = queue - 1
        /\ run[r] = "none" /\ run' = [run EXCEPT ![r] = "started"]
        /\ UNCHANGED <<request, row, published, meta, events, backend, expired, mishaps, faults>>
    BY <1>1 DEF TakeMessage, TypeOK, statusVars, backendVars
  <2>2. queue' \in Nat /\ run' \in [Runs -> Executions]
    BY <2>1 DEF TypeOK, Executions
  <2>3. TypeOK'
    BY <2>1, <2>2 DEF TypeOK
  <2>4. StoredInv' /\ AnsweredInv'
    BY <2>1 DEF StoredInv, AnsweredInv
  <2>5. meta[r] = "none" /\ \A q \in Runs : q # r => run'[q] = run[q]
    BY <2>1 DEF BackendInv, TypeOK
  <2>6. BackendInv'
    BY <2>1, <2>5 DEF BackendInv
  <2> QED
    BY <2>3, <2>4, <2>6
<1>2. ASSUME NEW state \in Reported, NEW to \in Executions, Reports(r, state, to),
             run[r] \in {"started", "running"}
      PROVE  SubmissionInv'
  <2>1. /\ run' = [run EXCEPT ![r] = to] /\ events' = events \cup {[run |-> r, state |-> state]}
        /\ UNCHANGED <<request, row, queue, published, meta, backend, expired, mishaps, faults>>
    BY <1>2 DEF Reports, backendVars
  <2>2. events' \subseteq Events /\ faults' \in Nat /\ faults' >= faults
    BY <2>1 DEF Events, TypeOK
  <2> QED
    BY <1>2, <2>1, <2>2, RunMoves
<1>3. ASSUME ReportRunning(r) PROVE SubmissionInv'
  BY <1>2, <1>3 DEF ReportRunning, Reported, Executions
<1>4. ASSUME NEW state \in TerminalStates, ReportEnd(r, state) PROVE SubmissionInv'
  BY <1>2, <1>4 DEF ReportEnd, Reported, Executions
<1>5. ASSUME Return(r) \/ Raise(r) \/ WorkerCrashes(r) PROVE SubmissionInv'
  <2>1. PICK to \in {"returned", "raised", "lost"} :
           /\ run[r] \in {"started", "running", "reported"} /\ run' = [run EXCEPT ![r] = to]
           /\ UNCHANGED <<request, row, queue, published, meta, events, backend, expired, mishaps>>
    BY <1>5 DEF Return, Raise, WorkerCrashes, statusVars, backendVars
  <2>2. faults' \in Nat /\ faults' >= faults /\ events' \subseteq Events
    BY <1>5, <2>1, FaultCounts DEF Return, Raise, WorkerCrashes, TypeOK
  <2>3. to \in Executions
    BY DEF Executions
  <2> QED
    BY <2>1, <2>2, <2>3, RunMoves
<1>6. ASSUME ReadMeta(r) \/ WriteMeta(r) \/ StoreFails(r) PROVE SubmissionInv'
  <2>1. PICK to \in {"writing", "done", "failed"} :
           /\ meta' = [meta EXCEPT ![r] = to] /\ run[r] \in {"returned", "raised"}
           /\ UNCHANGED <<request, row, queue, published, run, events, expired, mishaps>>
           /\ backend' \in {backend, Outcome(r)}
           /\ to = "done" => backend' # "PENDING"
    BY <1>6 DEF ReadMeta, WriteMeta, StoreFails, StoreNeeded, Outcome, BackendInv, TypeOK,
                statusVars, backendVars
  <2>2. faults' \in Nat /\ faults' >= faults
    BY <1>6, FaultCounts DEF ReadMeta, WriteMeta, StoreFails, TypeOK
  <2>3. /\ meta' \in [Runs -> Stores] /\ meta'[r] = to
        /\ \A q \in Runs : q # r => meta'[q] = meta[q]
    BY <2>1 DEF TypeOK, Stores
  <2>4. TypeOK'
    BY <2>1, <2>2, <2>3 DEF TypeOK, Outcome
  <2>5. StoredInv' /\ AnsweredInv'
    BY <2>1, <2>2, <2>4 DEF StoredInv, AnsweredInv, TypeOK
  <2>6. BackendInv'
    BY <2>1, <2>3 DEF BackendInv, Outcome
  <2> QED
    BY <2>4, <2>5, <2>6
<1> QED
  BY <1>1, <1>3, <1>4, <1>5, <1>6 DEF RunProceeds

-----------------------------------------------------------------------------
(* The statuses on their way to the row, and what Redis forgets.           *)
LEMMA EventKeeps ==
    ASSUME SubmissionInv, NEW e \in events,
           ApplyCopy(e) \/ LoseEvent(e) \/ \E ok \in BOOLEAN : ApplyEvent(e, ok)
    PROVE  SubmissionInv'
<1> USE DEF SubmissionInv
<1>1. row # "none" /\ e.state \in Reported
  BY DEF StoredInv, TypeOK, Events
<1>2. /\ row' \in {row, e.state} /\ events' \subseteq events
      /\ UNCHANGED <<request, published, queue, run, meta, backend, expired>>
  BY DEF ApplyCopy, LoseEvent, ApplyEvent, Writes, workerVars, backendVars
<1>3. faults' \in Nat /\ faults' >= faults
  BY FaultCounts DEF ApplyCopy, LoseEvent, ApplyEvent, Writes, TypeOK
<1>4. mishaps \subseteq mishaps'
  BY DEF ApplyCopy, LoseEvent, ApplyEvent, Notes
<1>5. row' \in States /\ (row' = "QUEUED" => row = "QUEUED")
  BY <1>1, <1>2 DEF TypeOK, States, Reported, TerminalStates
<1>6. TypeOK'
  BY <1>2, <1>3, <1>5 DEF TypeOK
<1>7. StoredInv' /\ AnsweredInv'
  BY <1>2, <1>3, <1>5 DEF StoredInv, AnsweredInv, States, TypeOK
<1>8. BackendInv'
  BY <1>2, <1>4 DEF BackendInv
<1> QED
  BY <1>6, <1>7, <1>8

LEMMA SubmissionStep == SubmissionInv /\ [Next]_vars => SubmissionInv'
<1> SUFFICES ASSUME SubmissionInv, [Next]_vars PROVE SubmissionInv'
  OBVIOUS
<1>1. ASSUME Expire \/ RedisRestarts PROVE SubmissionInv'
  <2>1. /\ backend' = "PENDING" /\ expired' = TRUE /\ queue' \in {0, queue}
        /\ events' \in {{}, events} /\ UNCHANGED <<request, row, published, run, meta>>
    BY <1>1 DEF Expire, RedisRestarts, workerVars, statusVars
  <2>2. faults' \in Nat /\ faults' >= faults
    BY <1>1, FaultCounts DEF Expire, RedisRestarts, SubmissionInv, TypeOK
  <2>3. TypeOK'
    BY <2>1, <2>2 DEF SubmissionInv, TypeOK
  <2>4. StoredInv' /\ AnsweredInv'
    BY <2>1, <2>2 DEF SubmissionInv, StoredInv, AnsweredInv, TypeOK
  <2>5. BackendInv'
    BY <2>1 DEF SubmissionInv, BackendInv
  <2> QED
    BY <2>3, <2>4, <2>5 DEF SubmissionInv
<1>2. ASSUME UNCHANGED vars PROVE SubmissionInv'
  BY <1>2 DEF vars, workerVars, statusVars, backendVars, SubmissionInv, TypeOK, StoredInv,
              AnsweredInv, BackendInv
<1> QED
  BY <1>1, <1>2, RequestKeeps, WorkerKeeps, EventKeeps DEF Next, RequestStep

LEMMA AlwaysSubmissionInv == Spec => []SubmissionInv
BY SubmissionInit, SubmissionStep, PTL DEF Spec

-----------------------------------------------------------------------------
(* Whatever fails, no status and no message ever precedes the row.         *)
THEOREM RowComesFirst == Spec => []EventsFindRow
<1>1. SubmissionInv => EventsFindRow
  BY DEF SubmissionInv, TypeOK, StoredInv, EventsFindRow
<1> QED
  BY <1>1, AlwaysSubmissionInv, PTL

(* The answer to the POST, and what check_progress says after it, are true *)
(* of the task.                                                            *)
THEOREM AnswersHold == Spec => []AnswersAreTrue
<1>1. SubmissionInv => AnswersAreTrue
  <2> SUFFICES ASSUME SubmissionInv PROVE AnswersAreTrue
    OBVIOUS
  <2>1. StatusCode = "200" => request = "accepted"
    BY DEF StatusCode
  <2>2. StatusCode = "500" => request \in {"rejected", "error"}
    BY DEF StatusCode
  <2>3. /\ row = "none" <=> CheckProgress = "404"
        /\ CheckProgress = "QUEUED" => row = "QUEUED"
    BY DEF CheckProgress, SubmissionInv, TypeOK, States
  <2> QED
    BY <2>1, <2>2, <2>3 DEF SubmissionInv, StoredInv, AnsweredInv, AnswersAreTrue
<1> QED
  BY <1>1, AlwaysSubmissionInv, PTL

(* What get_status makes of the result backend, however the stores of SENT *)
(* and of the runs' outcomes overlap.                                      *)
THEOREM BackendHolds == Spec => []BackendAgrees
<1>1. SubmissionInv => BackendAgrees
  <2> SUFFICES ASSUME SubmissionInv PROVE BackendAgrees
    OBVIOUS
  <2>1. /\ ToState = "not_found" => backend = "PENDING"
        /\ ToState = "FAILED" => backend = "FAILURE"
        /\ ToState = "COMPLETED" => backend = "SUCCESS"
    BY DEF SubmissionInv, TypeOK, ToState
  <2> QED
    BY <2>1 DEF SubmissionInv, TypeOK, BackendInv, BackendAgrees
<1> QED
  BY <1>1, AlwaysSubmissionInv, PTL

(* Only a store that had read the backend before can replace a SUCCESS.    *)
THEOREM SuccessStays == Spec => SuccessSettles
<1>1. ASSUME TypeOK, Next, Settled PROVE Settled' \/ expired'
  <2>1. CASE Expire \/ RedisRestarts
    BY <2>1 DEF Expire, RedisRestarts
  <2>2. CASE RequestStep
    <3>1. backend' = backend /\ request' # "storing" /\ meta' = meta
      BY <1>1, <2>2 DEF RequestStep, Insert, MarkFailed, SendTask, ReadSent, WriteSent, SentFails,
                        ApiCrashes, Settled, StoreNeeded, backendVars, workerVars
    <3> QED
      BY <1>1, <3>1 DEF Settled
  <2>3. ASSUME NEW r \in Runs,
               TakeMessage(r) \/ RunProceeds(r) \/ Raise(r) \/ WorkerCrashes(r) \/ StoreFails(r)
        PROVE  Settled'
    <3>1. backend' = backend /\ request' = request
      BY <1>1, <2>3 DEF TakeMessage, RunProceeds, ReportRunning, ReportEnd, Reports, Return, Raise,
                        WorkerCrashes, ReadMeta, WriteMeta, StoreFails, Settled, backendVars
    <3>2. meta' = meta \/ \E to \in {"done", "failed"} : meta' = [meta EXCEPT ![r] = to]
      BY <1>1, <2>3 DEF TakeMessage, RunProceeds, ReportRunning, ReportEnd, Reports, Return, Raise,
                        WorkerCrashes, ReadMeta, WriteMeta, StoreFails, Settled, StoreNeeded
    <3> QED
      BY <1>1, <3>1, <3>2 DEF Settled, TypeOK
  <2>4. ASSUME NEW e \in events,
               ApplyCopy(e) \/ LoseEvent(e) \/ \E ok \in BOOLEAN : ApplyEvent(e, ok)
        PROVE  Settled'
    BY <1>1, <2>4 DEF ApplyCopy, LoseEvent, ApplyEvent, Settled, backendVars, workerVars
  <2> QED
    BY <1>1, <2>1, <2>2, <2>3, <2>4 DEF Next, RequestStep
<1>2. SubmissionInv /\ [Next]_vars => [Settled => Settled' \/ expired']_vars
  BY <1>1 DEF SubmissionInv
<1> QED
  BY <1>2, AlwaysSubmissionInv, PTL DEF Spec, SuccessSettles
=============================================================================
