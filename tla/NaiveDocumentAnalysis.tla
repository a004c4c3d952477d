------------------------ MODULE NaiveDocumentAnalysis ------------------------
(***************************************************************************)
(* The polling baseline for document_analysis: one task and its snippets   *)
(* in SQLite, the worker that appends snippets while it scans the file,    *)
(* and PollingEngines that fetch the snippets after the last one they have *)
(* shown.  A step is one SQLite transaction; a snippets request takes up   *)
(* to four, with the worker and other requests in between.                 *)
(***************************************************************************)
EXTENDS Naturals, Sequences

CONSTANTS
    Clients,      \* PollingEngines on the task
    NoId,         \* lastSnippetId === null: the request has no "after"
    MaxSnippets,  \* bound: snippets the file gives
    MaxFaults     \* bound: lost requests and replies, an end of the worker

ASSUME NoIdAssumption == NoId \notin Nat
ASSUME BoundAssumption == MaxSnippets \in Nat /\ MaxFaults \in Nat

VARIABLES
    row,       \* the row of naive_doc_tasks
    snippets,  \* ids 1..snippets are in naive_doc_snippets
    emitted,   \* history: snippets appended, deleted since or not
    worker,    \* where the worker is in its loop
    pc,        \* what each client awaits
    status,    \* the last status a client was shown
    lastId,    \* the client's lastSnippetId
    req,       \* the snippets request the server is working on
    shown,     \* history: ids of the snippets a client appended, in order
    faults

clientVars == <<pc, status, lastId, req, shown>>
vars == <<row, snippets, emitted, worker, clientVars, faults>>

Statuses == {"QUEUED", "RUNNING", "COMPLETED", "FAILED"}
TerminalStates == {"COMPLETED", "FAILED"}
Absent == [status |-> "absent", done |-> FALSE, cursor |-> 0]
Exists == row.status # "absent"
NoRequest == [done |-> FALSE, after |-> 0, upTo |-> 0]

(* The POST has created the row: clients start when it has answered.       *)
Init ==
    /\ row = [status |-> "QUEUED", done |-> FALSE, cursor |-> 0]
    /\ snippets = 0 /\ emitted = 0 /\ worker = "idle"
    /\ pc = [c \in Clients |-> "polling"]
    /\ status = [c \in Clients |-> "IDLE"]
    /\ lastId = [c \in Clients |-> NoId]
    /\ req = [c \in Clients |-> NoRequest]
    /\ shown = [c \in Clients |-> <<>>]
    /\ faults = 0

Fault == faults < MaxFaults /\ faults' = faults + 1

-----------------------------------------------------------------------------
ClaimNextDocTask ==
    /\ worker = "idle" /\ row.status = "QUEUED"
    /\ row' = [row EXCEPT !.status = "RUNNING"]
    /\ worker' = "claimed"
    /\ UNCHANGED <<snippets, emitted, clientVars, faults>>

(* update_doc_progress: an UPDATE, of no row when there is none.           *)
UpdateDocProgress(state, done) ==
    row' = IF Exists THEN [row EXCEPT !.status = state, !.done = done] ELSE row

(* _mark_failed: no path, no download, no file.                            *)
MarkFailed ==
    /\ worker = "claimed"
    /\ UpdateDocProgress("FAILED", TRUE)
    /\ worker' = "idle"
    /\ UNCHANGED <<snippets, emitted, clientVars, faults>>

(* The first RUNNING update, that of a chunk without hits, and the one     *)
(* that follows each snippet.                                              *)
ReportRunning ==
    /\ worker \in {"claimed", "scanning", "emitting"}
    /\ UpdateDocProgress("RUNNING", FALSE)
    /\ worker' = "scanning"
    /\ UNCHANGED <<snippets, emitted, clientVars, faults>>

AppendDocSnippet ==
    /\ worker = "scanning" /\ emitted < MaxSnippets
    /\ snippets' = snippets + 1
    /\ emitted' = emitted + 1
    /\ worker' = "emitting"
    /\ UNCHANGED <<row, clientVars, faults>>

\* Mutant: the last update says RUNNING, not done.
CompleteQuietly ==
    /\ worker = "scanning"
    /\ UpdateDocProgress("RUNNING", FALSE)
    /\ worker' = "idle"
    /\ UNCHANGED <<snippets, emitted, clientVars, faults>>

Complete ==
    /\ worker = "scanning"
    /\ UpdateDocProgress("COMPLETED", TRUE)
    /\ worker' = "idle"
    /\ UNCHANGED <<snippets, emitted, clientVars, faults>>

WorkerEnds ==
    /\ worker # "down" /\ Fault
    /\ worker' = "down"
    /\ UNCHANGED <<row, snippets, emitted, clientVars>>

-----------------------------------------------------------------------------
\* Mutant: the client stops at a terminal status, as compute_pi's does.
StopsAtTerminal == ~Exists \/ row.status \in TerminalStates

StopsAtStatus == ~Exists

(* PollingEngine._tick, first half: naive_document_status.  Only a 404     *)
(* stops the client here.                                                  *)
DocumentStatus(c, answered) ==
    /\ pc[c] = "polling"
    /\ IF answered
       THEN /\ status' = [status EXCEPT ![c] = IF Exists THEN row.status ELSE @]
            /\ pc' = [pc EXCEPT ![c] = IF StopsAtStatus THEN "stopped" ELSE "fetching"]
            /\ UNCHANGED faults
       ELSE /\ Fault
            /\ pc' = [pc EXCEPT ![c] = "fetching"]
            /\ UNCHANGED status
    /\ UNCHANGED <<row, snippets, emitted, worker, lastId, req, shown>>

(* shouldStop after the second half, given a reply or none.                *)
AfterResult(c) == IF status[c] \in TerminalStates THEN "stopped" ELSE "polling"

\* Mutant: every request goes on from the shared cursor.
CursorOf(c) == row.cursor

\* A request without "after" goes on from the shared cursor.
After(c) == IF lastId[c] # NoId THEN lastId[c] ELSE row.cursor

(* naive_document_snippets: get_doc_task, whose done flag and cursor are   *)
(* used below.                                                             *)
ReadDocTask(c) ==
    /\ pc[c] = "fetching"
    /\ req' = [req EXCEPT ![c] = [done |-> row.done, after |-> After(c), upTo |-> After(c)]]
    /\ pc' = [pc EXCEPT ![c] = IF Exists THEN "collecting" ELSE "stopped"]
    /\ UNCHANGED <<row, snippets, emitted, worker, status, lastId, shown, faults>>

(* get_doc_snippets_since.                                                 *)
GetDocSnippets(c) ==
    /\ pc[c] = "collecting"
    /\ IF snippets > req[c].after
       THEN /\ req' = [req EXCEPT ![c].upTo = snippets]
            /\ pc' = [pc EXCEPT ![c] = "marking"]
       ELSE /\ pc' = [pc EXCEPT ![c] = IF req[c].done THEN "clearing" ELSE "answering"]
            /\ UNCHANGED req
    /\ UNCHANGED <<row, snippets, emitted, worker, status, lastId, shown, faults>>

(* mark_doc_snippets_delivered, before the reply is sent.                  *)
MarkDelivered(c) ==
    /\ pc[c] = "marking"
    /\ row' = IF Exists THEN [row EXCEPT !.cursor = req[c].upTo] ELSE row
    /\ pc' = [pc EXCEPT ![c] = IF req[c].done THEN "clearing" ELSE "answering"]
    /\ UNCHANGED <<snippets, emitted, worker, status, lastId, req, shown, faults>>

\* Mutant: only the task's row is deleted.
ClearRowOnly(c) ==
    /\ pc[c] = "clearing"
    /\ row' = IF req[c].upTo >= snippets THEN Absent ELSE row
    /\ pc' = [pc EXCEPT ![c] = "answering"]
    /\ UNCHANGED <<snippets, emitted, worker, status, lastId, req, shown, faults>>

(* task.done: when no snippet is left, the task, a demo's, and its         *)
(* snippets go.                                                            *)
ClearTask(c) ==
    /\ pc[c] = "clearing"
    /\ IF req[c].upTo >= snippets
       THEN row' = Absent /\ snippets' = 0
       ELSE UNCHANGED <<row, snippets>>
    /\ pc' = [pc EXCEPT ![c] = "answering"]
    /\ UNCHANGED <<emitted, worker, status, lastId, req, shown, faults>>

(* The reply: onResult appends its snippets and moves lastSnippetId.       *)
Answer(c) ==
    /\ pc[c] = "answering"
    /\ LET new == req[c].upTo - req[c].after
       IN /\ shown' = [shown EXCEPT ![c] = @ \o [k \in 1..new |-> req[c].after + k]]
          /\ lastId' = [lastId EXCEPT ![c] = IF new > 0 THEN req[c].upTo ELSE @]
    /\ pc' = [pc EXCEPT ![c] = AfterResult(c)]
    /\ req' = [req EXCEPT ![c] = NoRequest]
    /\ UNCHANGED <<row, snippets, emitted, worker, status, faults>>

(* The request or its reply is lost, or a call to SQLite raises.           *)
LoseAnswer(c) ==
    /\ pc[c] \in {"fetching", "collecting", "marking", "clearing", "answering"} /\ Fault
    /\ pc' = [pc EXCEPT ![c] = AfterResult(c)]
    /\ req' = [req EXCEPT ![c] = NoRequest]
    /\ UNCHANGED <<row, snippets, emitted, worker, status, lastId, shown>>

Work == ClaimNextDocTask \/ MarkFailed \/ AppendDocSnippet \/ ReportRunning \/ Complete

Poll(c) ==
    \/ DocumentStatus(c, TRUE) \/ ReadDocTask(c) \/ GetDocSnippets(c)
    \/ MarkDelivered(c) \/ ClearTask(c) \/ Answer(c)

Next ==
    \/ Work \/ WorkerEnds
    \/ \E c \in Clients : Poll(c) \/ DocumentStatus(c, FALSE) \/ LoseAnswer(c)

(* The worker loops, comes to the end of the file, and clients tick.       *)
Spec ==
    /\ Init /\ [][Next]_vars
    /\ WF_vars(Work) /\ SF_vars(Complete)
    /\ \A c \in Clients : WF_vars(Poll(c))

-----------------------------------------------------------------------------
(* The worker never appends to a task that a client's request deleted:     *)
(* the done flag a request acts on was read before its snippets.           *)
NoOrphans == snippets > 0 => Exists

(* Whatever is lost and whoever else polls and moves the shared cursor, a  *)
(* client that has shown a snippet goes on with the next one: it shows     *)
(* none twice, none out of order and leaves none out.                      *)
ShownWithoutGaps ==
    \A c \in Clients : \A k \in DOMAIN shown[c] : shown[c][k] = shown[c][1] + k - 1

(* When no reply was lost and all clients have stopped, every snippet has  *)
(* been shown by one of them, although the cursor is shared and the last   *)
(* request deletes the snippets under the others.                          *)
EverySnippetShown ==
    (\A c \in Clients : pc[c] = "stopped") /\ faults = 0 =>
        \A i \in 1..emitted : \E c \in Clients, k \in 1..MaxSnippets :
            k \in DOMAIN shown[c] /\ shown[c][k] = i

(* Every client stops, unless the worker ended.                            *)
PollersStop == <>(worker = "down" \/ \A c \in Clients : pc[c] = "stopped")
=============================================================================
