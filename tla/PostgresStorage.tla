--------------------------- MODULE PostgresStorage ---------------------------
(***************************************************************************)
(* infrastructure/postgres: the rows of one task in the tables of orm.py,  *)
(* and the sessions of repositories.py on them at Postgres' default        *)
(* isolation, READ COMMITTED: a SELECT sees what is committed when it      *)
(* runs, an UPDATE or INSERT waits for the transaction that changed the    *)
(* row before it, and what a transaction wrote appears when it commits.    *)
(* SQLAlchemy's session sends an UPDATE of the columns whose value differs *)
(* from the one it has read, and an INSERT where it has read no row.       *)
(***************************************************************************)
EXTENDS Naturals, Sequences, Functions

CONSTANTS
    Writers,     \* calls of update_task_status and set_task_result
    Readers,     \* calls of get_task (get_status), get_result and list_tasks
    Data,        \* result payloads
    MaxFaults    \* bound: transactions whose connection is lost

ASSUME MaxFaultsAssumption == MaxFaults \in Nat

VARIABLES
    rows,        \* the committed row of each table, or NoRow
    tx,          \* each writer: its job, how far it is, what it read and wrote
    reader,      \* each reader: its call, what it has left to read, what it read
    commits,     \* history: the writers that committed, in order
    faults

vars == <<rows, tx, reader, commits, faults>>

Tables == {"tasks", "task_metadata", "task_statuses", "task_results"}
None == "null"
NoRow == [null |-> TRUE]
Unread == [t \in Tables |-> NoRow]
Owner == "anonymous"

(* A time stamp, which stands for the session that took it, is not null.   *)
ASSUME WritersAssumption == None \notin Writers

TerminalStates == {"COMPLETED", "FAILED"}
StatusRow(state, percentage, message) ==
    [state |-> state, percentage |-> percentage, message |-> message]
CreatedStatus == StatusRow("QUEUED", None, None)
Statuses ==
    {StatusRow("RUNNING", "0.5", None), StatusRow("COMPLETED", "1.0", None),
     StatusRow("FAILED", None, "error")}

NoChange == [c \in {} |-> None]
Unchanged == [t \in Tables |-> NoChange]

\* What a session is called to do; the stamps are the metadata fields it sets.
NoJob == [kind |-> "none", stamps |-> {}]
Jobs == [kind : {"status"}, status : Statuses, stamps : {{}, {"updated_at"}}]
            \cup [kind : {"result"}, data : Data, stamps : {{}, {"finished_at"}}]

(* The tables a session merges into, in this order.                        *)
Plan(job) ==
    <<IF job.kind = "status" THEN "task_statuses" ELSE "task_results">>
        \o IF job.stamps = {} THEN <<>> ELSE <<"task_metadata">>

(* _merge_metadata: the fields that are given.  A time is its writer.      *)
Stamps(w) == [f \in tx[w].job.stamps |-> w]

(* What w sets in a table: every column of the row that is merged, some    *)
(* fields of the metadata.                                                 *)
Sets(w, table) ==
    LET job == tx[w].job
    IN CASE table = "task_metadata" -> Stamps(w)
         [] table = "task_statuses" -> job.status
         [] table = "task_results" ->
                [data |-> job.data, finished_at |-> IF job.stamps = {} THEN None ELSE w]

\* Mutants: None means "leave it alone"; the row goes out as it was read.
ChangesGiven(set, row) ==
    Restrict(set, {c \in DOMAIN set : row = NoRow \/ (row[c] # set[c] /\ set[c] # None)})
ChangesWholeRow(set, row) ==
    [c \in DOMAIN set \cup (IF row = NoRow THEN {} ELSE DOMAIN row) |->
        IF c \in DOMAIN set THEN set[c] ELSE row[c]]

(* The columns of the INSERT or UPDATE that a flush sends.                 *)
Changes(set, row) == Restrict(set, {c \in DOMAIN set : row = NoRow \/ row[c] # set[c]})

Changed(row, changes) ==
    IF row = NoRow THEN changes
    ELSE [c \in DOMAIN row |-> IF c \in DOMAIN changes THEN changes[c] ELSE row[c]]

Open(w) == tx[w].pc \in {"reading", "flushing"}
Touched(w) == {t \in Tables : DOMAIN tx[w].changes[t] # {}}
Locked(table, w) == \E v \in Writers \ {w} : table \in Touched(v)

NewMetadata ==
    [created_at |-> "create_task", updated_at |-> None, finished_at |-> None]
Task(status) ==
    [Unread EXCEPT !["tasks"] = [user_id |-> Owner], !["task_metadata"] = NewMetadata,
                   !["task_statuses"] = status]

(* Before the task, or while it runs and some of it has been reported.     *)
Init ==
    /\ rows \in {Unread, Task(StatusRow("RUNNING", "0.2", None))}
    /\ tx = [w \in Writers |-> [pc |-> "new", job |-> NoJob, step |-> 1,
                                seen |-> Unread, changes |-> Unchanged]]
    /\ reader = [r \in Readers |-> [pc |-> "new", call |-> "none", left |-> {},
                                    seen |-> Unread]]
    /\ commits = <<>> /\ faults = 0

-----------------------------------------------------------------------------
\* Mutant: the status follows in a transaction of its own.
CreateTaskInParts ==
    /\ \/ rows = Unread /\ rows' = [Task(CreatedStatus) EXCEPT !["task_statuses"] = NoRow]
       \/ rows # Unread /\ rows["task_statuses"] = NoRow
             /\ rows' = [rows EXCEPT !["task_statuses"] = CreatedStatus]
    /\ UNCHANGED <<tx, reader, commits, faults>>

(* create_task: all the rows of the task in one transaction (that of the   *)
(* payload, which nothing changes, is left out).                           *)
CreateTask ==
    /\ rows = Unread
    /\ rows' = Task(CreatedStatus)
    /\ UNCHANGED <<tx, reader, commits, faults>>

(* update_task_status, set_task_result: session.get of the task.           *)
Begin(w, job) ==
    /\ tx[w].pc = "new"
    /\ tx' = [tx EXCEPT ![w].job = job,
                  ![w].pc = IF rows["tasks"] = NoRow THEN "not_found" ELSE "reading"]
    /\ UNCHANGED <<rows, reader, commits, faults>>

(* session.merge, or session.get of the metadata, reads the row.           *)
Read(w) ==
    /\ tx[w].pc = "reading" /\ tx[w].step <= Len(Plan(tx[w].job))
    /\ LET table == Plan(tx[w].job)[tx[w].step]
       IN tx' = [tx EXCEPT ![w].pc = "flushing", ![w].seen[table] = rows[table]]
    /\ UNCHANGED <<rows, reader, commits, faults>>

RolledBack(w, pc) == tx' = [tx EXCEPT ![w].pc = pc, ![w].changes = Unchanged]

(* The flush before the next SELECT or the COMMIT.  It waits for the row,  *)
(* unless it has nothing to send.  An INSERT that meets a row after all    *)
(* raises IntegrityError.                                                  *)
Flush(w) ==
    /\ tx[w].pc = "flushing"
    /\ LET table == Plan(tx[w].job)[tx[w].step]
           changes == Changes(Sets(w, table), tx[w].seen[table])
       IN /\ DOMAIN changes # {} => ~Locked(table, w)
          /\ IF tx[w].seen[table] = NoRow /\ rows[table] # NoRow
             THEN RolledBack(w, "integrity_error")
             ELSE tx' = [tx EXCEPT ![w].pc = "reading", ![w].step = @ + 1,
                                   ![w].changes[table] = changes]
    /\ UNCHANGED <<rows, reader, commits, faults>>

\* Mutant: the session is not closed.
CommitKeepsLocks(w) ==
    /\ tx[w].pc = "reading" /\ tx[w].step > Len(Plan(tx[w].job))
    /\ rows' = [t \in Tables |-> IF t \in Touched(w) THEN Changed(rows[t], tx[w].changes[t])
                                 ELSE rows[t]]
    /\ tx' = [tx EXCEPT ![w].pc = "committed"]
    /\ commits' = Append(commits, w)
    /\ UNCHANGED <<reader, faults>>

(* The end of session.begin().                                             *)
Commit(w) ==
    /\ tx[w].pc = "reading" /\ tx[w].step > Len(Plan(tx[w].job))
    /\ rows' = [t \in Tables |-> IF t \in Touched(w) THEN Changed(rows[t], tx[w].changes[t])
                                 ELSE rows[t]]
    /\ tx' = [tx EXCEPT ![w].pc = "committed", ![w].changes = Unchanged]
    /\ commits' = Append(commits, w)
    /\ UNCHANGED <<reader, faults>>

(* The connection is lost: the server rolls back.                          *)
Abort(w) ==
    /\ Open(w) /\ faults < MaxFaults /\ faults' = faults + 1
    /\ RolledBack(w, "aborted")
    /\ UNCHANGED <<rows, reader, commits>>

-----------------------------------------------------------------------------
(* A call's selectinloads.  Each is a SELECT after that of the task, in an *)
(* order that neither the repository nor SQLAlchemy fixes.                 *)
Loads(call) ==
    CASE call = "get_task" -> {"task_metadata", "task_statuses", "task_results"}
      [] call = "get_result" -> {"task_metadata", "task_results"}
      [] call = "list_tasks" -> {"task_metadata", "task_statuses"}

(* The SELECT of the task: no row is TaskNotFoundError (an empty list), and*)
(* somebody else's TaskAccessDeniedError.                                  *)
Find(r, call, user) ==
    /\ reader[r].pc = "new"
    /\ reader' = [reader EXCEPT ![r] =
           [pc |-> IF rows["tasks"] = NoRow THEN "not_found"
                   ELSE IF rows["tasks"].user_id # user THEN "denied" ELSE "selecting",
            call |-> call, left |-> Loads(call),
            seen |-> [Unread EXCEPT !["tasks"] = rows["tasks"]]]]
    /\ UNCHANGED <<rows, tx, commits, faults>>

(* Another of them; after the last the rows are mapped to a model.         *)
Select(r, table) ==
    /\ reader[r].pc = "selecting" /\ table \in reader[r].left
    /\ reader' = [reader EXCEPT ![r].seen[table] = rows[table], ![r].left = @ \ {table},
                      ![r].pc = IF reader[r].left = {table} THEN "found" ELSE "selecting"]
    /\ UNCHANGED <<rows, tx, commits, faults>>

Next ==
    \/ CreateTask
    \/ \E w \in Writers :
          \/ \E job \in Jobs : Begin(w, job)
          \/ Read(w) \/ Flush(w) \/ Commit(w) \/ Abort(w)
    \/ \E r \in Readers :
          \/ \E call \in {"get_task", "get_result", "list_tasks"}, user \in {Owner, "other"} :
                Find(r, call, user)
          \/ \E table \in Tables : Select(r, table)

(* A session that began goes on; nobody need ever begin one.               *)
Spec ==
    /\ Init /\ [][Next]_vars
    /\ \A w \in Writers : WF_vars(Read(w) \/ Flush(w) \/ Commit(w))

-----------------------------------------------------------------------------
(* The time stamps of the metadata are written field by field, by several  *)
(* sessions, from rows they read before others committed: none is lost.    *)
(* Each field is that of the last session that set it, and a result and    *)
(* its task give the same time of its end.                                 *)
StampsSurvive ==
    rows["tasks"] # NoRow =>
        LET metadata == rows["task_metadata"]
            Setters(f) == {k \in DOMAIN commits : f \in tx[commits[k]].job.stamps}
            LastOf(f) == CHOOSE k \in Setters(f) : \A j \in Setters(f) : j <= k
            result == rows["task_results"]
        IN /\ metadata.created_at # None
           /\ \A f \in {"updated_at", "finished_at"} :
                 metadata[f] = IF Setters(f) = {} THEN None ELSE commits[LastOf(f)]
           /\ result # NoRow /\ result.finished_at # None =>
                 result.finished_at = metadata.finished_at

(* repositories.py:44 "One transaction ensures FK rows are created         *)
(* together": whatever commits between its SELECTs, and in whatever order  *)
(* they run, a read that found a task finds its metadata and its status.   *)
(* Without the row, to_domain_status would call any task QUEUED.           *)
ReadersSeeWholeTasks ==
    \A r \in Readers : reader[r].pc = "found" =>
        \A table \in Loads(reader[r].call) \ {"task_results"} : reader[r].seen[table] # NoRow

Updating(w) == tx[w].pc = "reading" /\ tx'[w].pc = "committed" /\ tx[w].job.kind = "status"

(* A status row is a snapshot: whoever updates the row it has read leaves  *)
(* exactly its own status, with nothing left over of the one before.  Only *)
(* an update that overtook another since its read may mix the two; and     *)
(* then progress of a RUNNING task never undoes a terminal state.          *)
UpdatesAreSnapshots ==
    [][\A w \in Writers : Updating(w) =>
          LET before == rows["task_statuses"]
              seen == tx[w].seen["task_statuses"]
              after == rows'["task_statuses"]
          IN /\ before = seen => after = tx[w].job.status
             /\ before.state \in TerminalStates /\ seen.state = "RUNNING"
                   /\ tx[w].job.status.state = "RUNNING" => after.state = before.state]_vars

(* However they wait for each other's rows, sessions end: rows are always  *)
(* taken in the order status or result, then metadata.                     *)
EverySessionEnds == \A w \in Writers : Open(w) ~> ~Open(w)
=============================================================================
