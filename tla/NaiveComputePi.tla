---------------------------- MODULE NaiveComputePi ----------------------------
(***************************************************************************)
(* The polling baseline for compute_pi: one task's row in SQLite, the      *)
(* POST handlers that create it, the worker process that claims it and     *)
(* appends digits to it, and the demo's PollingEngine clients, which ask   *)
(* for the status and then the result, over and over, until they stop.     *)
(* A step is one SQLite transaction, with the reply that follows it.       *)
(***************************************************************************)
EXTENDS Naturals

CONSTANTS
    Posters,    \* calculate_pi requests for the same task_id
    Clients,    \* PollingEngines on the task
    Digits,     \* digits asked for
    Length,     \* characters of str(mp.pi) at that precision
    MaxFaults   \* bound: lost requests and replies, an end of the worker

ASSUME DigitsAssumption == Digits \in Nat \ {0} /\ Length \in Nat \ {0}
ASSUME MaxFaultsAssumption == MaxFaults \in Nat

VARIABLES
    row,      \* the row of naive_tasks
    post,     \* where each request is in check-then-insert
    demo,     \* the flag of the requests: delete the row once fetched
    worker,   \* the worker process and the characters it has appended
    pc,       \* what each client awaits
    status,   \* the last status a client was shown
    seen,     \* metrics.digits_sent shown with it
    reply,    \* the partial_result the server is answering with
    result,   \* length of the result a client shows
    faults

clientVars == <<pc, status, seen, reply, result>>
vars == <<row, post, demo, worker, clientVars, faults>>

Statuses == {"absent", "QUEUED", "RUNNING", "COMPLETED"}
Rows == [status : Statuses, current : Nat, total : Nat, sent : Nat, done : BOOLEAN]
Absent == [status |-> "absent", current |-> 0, total |-> 0, sent |-> 0, done |-> FALSE]
Row(state, current, total, sent, done) ==
    [status |-> state, current |-> current, total |-> total, sent |-> sent, done |-> done]
Exists == row.status # "absent"
Answered == {p \in Posters : post[p] \in {"created", "found"}}

Init ==
    /\ row = Absent
    /\ post = [p \in Posters |-> "new"]
    /\ demo \in BOOLEAN
    /\ worker = [at |-> "idle", k |-> 0]
    /\ pc = [c \in Clients |-> "polling"]
    /\ status = [c \in Clients |-> "IDLE"]
    /\ seen = [c \in Clients |-> 0]
    /\ reply = [c \in Clients |-> 0]
    /\ result = [c \in Clients |-> 0]
    /\ faults = 0

Fault == faults < MaxFaults /\ faults' = faults + 1

-----------------------------------------------------------------------------
(* naive_calculate_pi runs in a thread of the pool: get_task, and then     *)
(* create_task if there was none.                                          *)
CheckTask(p) ==
    /\ post[p] = "new"
    /\ post' = [post EXCEPT ![p] = IF Exists THEN "found" ELSE "checked"]
    /\ UNCHANGED <<row, demo, worker, clientVars, faults>>

\* Mutant: INSERT OR REPLACE.
ReplaceTask(p) ==
    /\ post[p] = "checked"
    /\ row' = Row("QUEUED", 0, Digits, 0, FALSE)
    /\ post' = [post EXCEPT ![p] = "created"]
    /\ UNCHANGED <<demo, worker, clientVars, faults>>

(* The primary key makes the second INSERT raise IntegrityError.           *)
CreateTask(p) ==
    /\ post[p] = "checked"
    /\ row' = IF Exists THEN row ELSE Row("QUEUED", 0, Digits, 0, FALSE)
    /\ post' = [post EXCEPT ![p] = IF Exists THEN "failed" ELSE "created"]
    /\ UNCHANGED <<demo, worker, clientVars, faults>>

-----------------------------------------------------------------------------
(* claim_next_task: the oldest QUEUED row, set RUNNING.  One worker runs.  *)
ClaimNextTask ==
    /\ worker.at = "idle" /\ row.status = "QUEUED"
    /\ row' = [row EXCEPT !.status = "RUNNING"]
    /\ worker' = [at |-> "running", k |-> 0]
    /\ UNCHANGED <<post, demo, clientVars, faults>>

(* UPDATE ... WHERE task_id: nothing happens when there is no such row.    *)
UpdateProgress(written) == row' = IF Exists THEN written ELSE row

(* The loop over enumerate(pi_value, start=1): progress_current = idx + 1. *)
AppendDigit ==
    /\ worker.at = "running" /\ worker.k < Length
    /\ worker' = [worker EXCEPT !.k = @ + 1]
    /\ UpdateProgress(Row("RUNNING", worker.k + 2, Length, worker.k + 1, FALSE))
    /\ UNCHANGED <<post, demo, clientVars, faults>>

(* The update after the loop.                                              *)
Ends(written) ==
    /\ worker.at = "running" /\ worker.k = Length
    /\ worker' = [at |-> "idle", k |-> 0]
    /\ UpdateProgress(written)
    /\ UNCHANGED <<post, demo, clientVars, faults>>

\* Mutant: there is no last update.
CompleteQuietly == Ends(row)

Complete == Ends(Row("COMPLETED", Length, Length, Length, TRUE))

(* The process ends, killed or by "database is locked"; compose gives it   *)
(* no restart policy.                                                      *)
WorkerEnds ==
    /\ worker.at # "down" /\ Fault
    /\ worker' = [at |-> "down", k |-> 0]
    /\ UNCHANGED <<row, post, demo, clientVars>>

-----------------------------------------------------------------------------
\* Mutant: the counter of progress_current.
DigitsCounted == IF row.current > Length THEN Length ELSE row.current

\* metrics.digits_sent is idx, the length of result.
DigitsSent == row.sent

(* PollingEngine._tick, first half: naive_check_progress.  Clients start   *)
(* once a POST succeeded.  A 404 stops the client, and so does a terminal  *)
(* status; a request that gets no answer does neither.                     *)
CheckProgress(c, answered) ==
    /\ pc[c] = "polling" /\ Answered # {}
    /\ IF answered
       THEN /\ IF Exists
               THEN /\ status' = [status EXCEPT ![c] = row.status]
                    /\ seen' = [seen EXCEPT ![c] = DigitsSent]
               ELSE UNCHANGED <<status, seen>>
            /\ pc' = [pc EXCEPT ![c] =
                         IF row.status \in {"absent", "COMPLETED"}
                         THEN "stopped" ELSE "fetching"]
            /\ UNCHANGED faults
       ELSE /\ Fault
            /\ pc' = [pc EXCEPT ![c] = "fetching"]
            /\ UNCHANGED <<status, seen>>
    /\ UNCHANGED <<row, post, demo, worker, reply, result>>

\* Mutant: a demo's row is deleted by any fetch.
DemoRow == Exists /\ demo

Deletable == row.done /\ demo

(* Second half: naive_task_result reads the row, and answers, unless the   *)
(* task is done and a demo's: then the row goes first.                     *)
TaskResult(c, answered) ==
    /\ pc[c] = "fetching"
    /\ \/ /\ ~Exists /\ answered
          /\ pc' = [pc EXCEPT ![c] = "stopped"]
          /\ UNCHANGED <<reply, result, faults>>
       \/ /\ Exists /\ Deletable /\ answered
          /\ pc' = [pc EXCEPT ![c] = "deleting"]
          /\ reply' = [reply EXCEPT ![c] = row.sent]
          /\ UNCHANGED <<result, faults>>
       \/ /\ Exists /\ ~Deletable /\ answered
          /\ pc' = [pc EXCEPT ![c] = IF row.done THEN "stopped" ELSE "polling"]
          /\ result' = [result EXCEPT ![c] = row.sent]
          /\ UNCHANGED <<reply, faults>>
       \/ /\ ~answered /\ Fault
          /\ pc' = [pc EXCEPT ![c] = "polling"]
          /\ UNCHANGED <<reply, result>>
    /\ UNCHANGED <<row, post, demo, worker, status, seen>>

(* delete_task, and the answer; the deletion may raise, and the answer may *)
(* be lost.                                                                *)
DeleteTask(c, answered) ==
    /\ pc[c] = "deleting"
    /\ IF answered
       THEN /\ row' = Absent
            /\ result' = [result EXCEPT ![c] = reply[c]]
            /\ pc' = [pc EXCEPT ![c] = "stopped"]
            /\ UNCHANGED faults
       ELSE /\ Fault
            /\ row' \in {row, Absent}
            /\ pc' = [pc EXCEPT ![c] = "polling"]
            /\ UNCHANGED result
    /\ reply' = [reply EXCEPT ![c] = 0]
    /\ UNCHANGED <<post, demo, worker, status, seen>>

Next ==
    \/ \E p \in Posters : CheckTask(p) \/ CreateTask(p)
    \/ ClaimNextTask \/ AppendDigit \/ Complete \/ WorkerEnds
    \/ \E c \in Clients, answered \in BOOLEAN :
          CheckProgress(c, answered) \/ TaskResult(c, answered) \/ DeleteTask(c, answered)

(* Requests are served, the worker loops, and setInterval keeps ticking.   *)
Spec ==
    /\ Init /\ [][Next]_vars
    /\ \A p \in Posters : WF_vars(CheckTask(p) \/ CreateTask(p))
    /\ WF_vars(ClaimNextTask \/ AppendDigit \/ Complete)
    /\ \A c \in Clients :
          WF_vars(CheckProgress(c, TRUE) \/ TaskResult(c, TRUE) \/ DeleteTask(c, TRUE))

-----------------------------------------------------------------------------
(* A POST slow enough to insert after a client's request deleted the row   *)
(* creates the task again, for whose row and clients the promises below    *)
(* are not made: another client's deletion may be meant for the first one. *)
CreatedAgain == \E p, q \in Posters : p # q /\ post[p] = "created" /\ post[q] = "created"

(* The row goes only when nobody writes to it any more: the worker's row   *)
(* is there and RUNNING until its last update, although several clients    *)
(* delete it.                                                              *)
WorkerKeepsItsRow ==
    worker.at = "running" /\ ~CreatedAgain => row.status = "RUNNING"

(* A repeated or racing POST never sets a task back that is there already. *)
PostNeverResets ==
    [][Exists /\ row'.status # "absent" => row'.sent >= row.sent]_row

(* The digits a client shows never shrink, though every answer replaces    *)
(* them, and after a whole tick they are at least those that its status    *)
(* line counts, though status and result are two requests.                 *)
ResultKeepsUp ==
    [][~CreatedAgain =>
          \A c \in Clients :
              /\ result'[c] >= result[c]
              /\ pc'[c] = "polling" /\ faults' = 0 => result'[c] >= seen'[c]]_vars

(* Nothing is deleted unread: once the row is gone, some client has the    *)
(* whole result, or its answer was lost.                                   *)
DeletedOnceDelivered ==
    ~Exists /\ Answered # {} => faults > 0 \/ \E c \in Clients : result[c] = Length

(* Every client stops, unless the worker ended.                            *)
PollersStop == <>(worker.at = "down" \/ \A c \in Clients : pc[c] = "stopped")

-----------------------------------------------------------------------------
(* What the documentation says and the code does not do.                   *)

(* README:159-161 "Client ->> API: GET /tasks/{id}/result" ... "API -->>   *)
(* Client: Final result": a client that has stopped shows the whole result.*)
StoppedWithFinalResult ==
    \A c \in Clients : pc[c] = "stopped" => result[c] = Length
=============================================================================
