------------------------ MODULE PostgresStorage_proofs ------------------------
(***************************************************************************)
(* Proofs about PostgresStorage, for any sets of sessions and payloads.    *)
(*   RowsInv      the rows of a task come together, and never disappear    *)
(*   SessionInv   what an open session has read, and what it will write:   *)
(*                the differences from that, and a time of the end only    *)
(*                with a result                                            *)
(*   FreshInv     a session that has not begun has read nothing            *)
(*   ReaderInv    what a read has found so far                             *)
(*   StampsInv    each time in the rows is that of the last commit that    *)
(*                set it; an open session sends its own where it has to    *)
(***************************************************************************)
EXTENDS PostgresStorage, TLAPS

Texts == {None, Owner, "create_task", "QUEUED", "RUNNING", "COMPLETED", "FAILED",
          "0.2", "0.5", "1.0", "error"}
Values == Writers \cup Data \cup Texts
Columns(t) ==
    CASE t = "tasks" -> {"user_id"}
      [] t = "task_metadata" -> {"created_at", "updated_at", "finished_at"}
      [] t = "task_statuses" -> {"state", "percentage", "message"}
      [] t = "task_results" -> {"data", "finished_at"}
RowsOf(t) == [Columns(t) -> Values]
ChangesOf(t) == UNION {[C -> Values] : C \in SUBSET Columns(t)}

LEMMA ColumnNames ==
    /\ Columns("tasks") = {"user_id"}
    /\ Columns("task_metadata") = {"created_at", "updated_at", "finished_at"}
    /\ Columns("task_statuses") = {"state", "percentage", "message"}
    /\ Columns("task_results") = {"data", "finished_at"}
BY DEF Columns

LEMMA RowsAreRows ==
    ASSUME NEW t \in Tables, NEW row \in RowsOf(t)
    PROVE  row # NoRow
<1>1. DOMAIN row = Columns(t) /\ "null" \notin Columns(t)
  BY ColumnNames DEF RowsOf, Tables
<1>2. "null" \in DOMAIN NoRow
  BY DEF NoRow
<1> QED
  BY <1>1, <1>2

LEMMA StatusesAreRows ==
    /\ Statuses \subseteq RowsOf("task_statuses")
    /\ CreatedStatus \in RowsOf("task_statuses")
    /\ StatusRow("RUNNING", "0.2", None) \in RowsOf("task_statuses")
<1>1. \A state, percentage, message \in Texts :
         StatusRow(state, percentage, message) \in RowsOf("task_statuses")
  BY ColumnNames DEF StatusRow, RowsOf, Values
<1>2. {None, "QUEUED", "RUNNING", "COMPLETED", "FAILED", "0.2", "0.5", "1.0", "error"}
         \subseteq Texts
  BY DEF Texts
<1> QED
  BY <1>1, <1>2 DEF Statuses, CreatedStatus

LEMMA PlanShape ==
    ASSUME NEW job \in Jobs
    PROVE  /\ job.kind \in {"status", "result"}
           /\ Len(Plan(job)) = IF job.stamps = {} THEN 1 ELSE 2
           /\ Plan(job)[1] = IF job.kind = "status" THEN "task_statuses" ELSE "task_results"
           /\ job.stamps # {} => Plan(job)[2] = "task_metadata"
           /\ job.kind = "status" => job.status \in Statuses /\ job.stamps \subseteq {"updated_at"}
           /\ job.kind = "result" => job.data \in Data /\ job.stamps \subseteq {"finished_at"}
<1>1. /\ job.kind \in {"status", "result"}
      /\ job.kind = "status" => job.status \in Statuses /\ job.stamps \subseteq {"updated_at"}
      /\ job.kind = "result" => job.data \in Data /\ job.stamps \subseteq {"finished_at"}
  BY DEF Jobs
<1>2. CASE job.stamps = {}
  BY <1>1, <1>2 DEF Plan
<1>3. CASE job.stamps # {}
  BY <1>1, <1>3 DEF Plan
<1> QED
  BY <1>1, <1>2, <1>3

-----------------------------------------------------------------------------
(* What a flush sends, and what it makes of the row.                       *)
LEMMA ChangesProperties ==
    ASSUME NEW t \in Tables, NEW C \in SUBSET Columns(t), NEW set \in [C -> Values],
           NEW row \in RowsOf(t) \cup {NoRow}
    PROVE  /\ Changes(set, row) \in ChangesOf(t)
           /\ DOMAIN Changes(set, row) \subseteq C
           /\ \A c \in C : c \in DOMAIN Changes(set, row) <=> (row = NoRow \/ row[c] # set[c])
           /\ \A c \in DOMAIN Changes(set, row) : Changes(set, row)[c] = set[c]
<1> DEFINE D == {c \in C : row = NoRow \/ row[c] # set[c]}
<1>1. Changes(set, row) = [c \in D |-> set[c]]
  BY DEF Changes, Restrict
<1>2. D \in SUBSET Columns(t) /\ [c \in D |-> set[c]] \in [D -> Values]
  OBVIOUS
<1> QED
  BY <1>1, <1>2 DEF ChangesOf

LEMMA ChangedIsRow ==
    ASSUME NEW t \in Tables, NEW row \in RowsOf(t) \cup {NoRow}, NEW changes \in ChangesOf(t),
           row # NoRow \/ DOMAIN changes = Columns(t)
    PROVE  Changed(row, changes) \in RowsOf(t)
<1>1. PICK C \in SUBSET Columns(t) : changes \in [C -> Values]
  BY DEF ChangesOf
<1>2. CASE row = NoRow
  BY <1>1, <1>2 DEF Changed, RowsOf
<1>3. CASE row # NoRow
  BY <1>1, <1>3 DEF Changed, RowsOf
<1> QED
  BY <1>2, <1>3

-----------------------------------------------------------------------------
Calls == {"get_task", "get_result", "list_tasks"}
AnyRow == {NoRow} \cup UNION {RowsOf(t) : t \in Tables}
AnyChanges == UNION {ChangesOf(t) : t \in Tables}
SessionStages ==
    {"new", "not_found", "reading", "flushing", "committed", "integrity_error", "aborted"}
ReaderStages == {"new", "not_found", "denied", "selecting", "found"}

TypeOK ==
    /\ rows \in [Tables -> AnyRow]
    /\ tx \in [Writers -> [pc : SessionStages, job : Jobs \cup {NoJob}, step : Nat,
                           seen : [Tables -> AnyRow], changes : [Tables -> AnyChanges]]]
    /\ reader \in [Readers -> [pc : ReaderStages, call : Calls \cup {"none"},
                               left : SUBSET Tables, seen : [Tables -> AnyRow]]]

RowsInv ==
    /\ \A t \in Tables : rows[t] \in RowsOf(t) \cup {NoRow}
    /\ rows["tasks"] # NoRow =>
          rows["task_metadata"] # NoRow /\ rows["task_statuses"] # NoRow

SessionInv(w) ==
    Open(w) =>
        /\ tx[w].job \in Jobs /\ rows["tasks"] # NoRow
        /\ tx[w].step \in 1..(Len(Plan(tx[w].job)) + 1)
        /\ tx[w].pc = "flushing" =>
              /\ tx[w].step <= Len(Plan(tx[w].job))
              /\ Plan(tx[w].job)[tx[w].step] \in {"task_metadata", "task_statuses"} =>
                    tx[w].seen[Plan(tx[w].job)[tx[w].step]] # NoRow
        /\ \A t \in Tables :
              /\ tx[w].seen[t] \in RowsOf(t) \cup {NoRow}
              /\ tx[w].seen[t] # NoRow => rows[t] # NoRow
              /\ tx[w].changes[t] \in ChangesOf(t)
              /\ DOMAIN tx[w].changes[t] # {} =>
                    rows[t] # NoRow \/ DOMAIN tx[w].changes[t] = Columns(t)
        /\ tx[w].job.kind = "status" /\ tx[w].step > 1 =>
              /\ tx[w].seen["task_statuses"] # NoRow
              /\ tx[w].changes["task_statuses"] =
                    Changes(tx[w].job.status, tx[w].seen["task_statuses"])

FreshInv(w) ==
    tx[w].pc = "new" => tx[w].step = 1 /\ tx[w].seen = Unread /\ tx[w].changes = Unchanged

ReaderInv(r) ==
    reader[r].pc \in {"selecting", "found"} =>
        LET seen == reader[r].seen
            call == reader[r].call
            left == reader[r].left
        IN /\ call \in Calls /\ rows["tasks"] # NoRow
           /\ reader[r].pc = "found" => left = {}
           /\ \A table \in (Loads(call) \ left) \ {"task_results"} : seen[table] # NoRow

StorageInv ==
    /\ TypeOK /\ RowsInv
    /\ \A w \in Writers : SessionInv(w) /\ FreshInv(w)
    /\ \A r \in Readers : ReaderInv(r)

(* A row that is there stays.                                              *)
RowsStay == \A t \in Tables : rows[t] # NoRow => rows'[t] # NoRow

LEMMA SessionFrame ==
    ASSUME NEW w \in Writers, SessionInv(w), tx'[w] = tx[w], RowsStay
    PROVE  SessionInv(w)'
BY DEF SessionInv, Open, RowsStay, Tables

LEMMA ReaderFrame ==
    ASSUME NEW r \in Readers, ReaderInv(r), reader'[r] = reader[r], RowsStay
    PROVE  ReaderInv(r)'
BY DEF ReaderInv, RowsStay, Tables

LEMMA TaskIsTask ==
    ASSUME NEW status \in RowsOf("task_statuses")
    PROVE  /\ Task(status) \in [Tables -> AnyRow]
           /\ \A t \in Tables : Task(status)[t] \in RowsOf(t) \cup {NoRow}
           /\ Task(status)["task_metadata"] # NoRow /\ Task(status)["task_statuses"] # NoRow
           /\ Task(status)["task_metadata"].finished_at = None
<1>1. /\ Task(status)["tasks"] = [user_id |-> Owner]
      /\ Task(status)["task_metadata"] = NewMetadata
      /\ Task(status)["task_statuses"] = status /\ Task(status)["task_results"] = NoRow
      /\ DOMAIN Task(status) = Tables /\ Task(status) = [t \in Tables |-> Task(status)[t]]
  BY DEF Task, Unread, Tables
<1>2. [user_id |-> Owner] \in RowsOf("tasks")
  BY ColumnNames DEF RowsOf, Values, Texts
<1>3. NewMetadata \in RowsOf("task_metadata") /\ NewMetadata.finished_at = None
  BY ColumnNames DEF NewMetadata, RowsOf, Values, Texts
<1>4. \A t \in Tables : Task(status)[t] \in RowsOf(t) \cup {NoRow}
  BY <1>1, <1>2, <1>3 DEF Tables
<1>5. Task(status) \in [Tables -> AnyRow]
  BY <1>1, <1>4 DEF AnyRow
<1>6. NewMetadata # NoRow /\ status # NoRow
  BY <1>3, RowsAreRows DEF Tables
<1> QED
  BY <1>1, <1>3, <1>4, <1>5, <1>6

-----------------------------------------------------------------------------
LEMMA StorageInit == Init => StorageInv
<1> SUFFICES ASSUME Init PROVE StorageInv
  OBVIOUS
<1>1. rows \in [Tables -> AnyRow] /\ RowsInv
  <2>1. CASE rows = Unread
    BY <2>1 DEF Unread, RowsInv, AnyRow, Tables
  <2>2. CASE rows = Task(StatusRow("RUNNING", "0.2", None))
    BY <2>2, StatusesAreRows, TaskIsTask DEF RowsInv
  <2> QED
    BY <2>1, <2>2 DEF Init
<1>2. Unread \in [Tables -> AnyRow] /\ Unchanged \in [Tables -> AnyChanges]
  <2>1. \A t \in Tables : NoChange \in ChangesOf(t)
    BY DEF NoChange, ChangesOf
  <2> QED
    BY <2>1 DEF Unread, Unchanged, AnyRow, AnyChanges
<1>3. TypeOK
  BY <1>1, <1>2 DEF Init, TypeOK, SessionStages, ReaderStages
<1>4. \A w \in Writers : SessionInv(w) /\ FreshInv(w)
  BY DEF Init, SessionInv, FreshInv, Open
<1>5. \A r \in Readers : ReaderInv(r)
  BY DEF Init, ReaderInv
<1> QED
  BY <1>1, <1>3, <1>4, <1>5 DEF StorageInv

LEMMA CreateTaskStep == StorageInv /\ CreateTask => StorageInv'
<1> SUFFICES ASSUME StorageInv, CreateTask PROVE StorageInv'
  OBVIOUS
<1>1. rows' = Task(CreatedStatus) /\ rows = Unread /\ tx' = tx /\ reader' = reader
  BY DEF CreateTask
<1>2. RowsInv' /\ rows' \in [Tables -> AnyRow]
  BY <1>1, TaskIsTask, StatusesAreRows DEF RowsInv
<1>3. RowsStay
  BY <1>1 DEF RowsStay, Unread
<1>4. TypeOK'
  BY <1>1, <1>2 DEF StorageInv, TypeOK
<1> QED
  BY <1>1, <1>2, <1>3, <1>4, SessionFrame, ReaderFrame DEF StorageInv, FreshInv

(* The step of one session: what is left to prove about it.                *)
LEMMA WriterStep ==
    ASSUME StorageInv, NEW w \in Writers, reader' = reader, RowsStay,
           rows' \in [Tables -> AnyRow], RowsInv',
           NEW s, tx' = [tx EXCEPT ![w] = s], s.pc # "new",
           s \in [pc : SessionStages, job : Jobs \cup {NoJob}, step : Nat,
                  seen : [Tables -> AnyRow], changes : [Tables -> AnyChanges]],
           SessionInv(w)'
    PROVE  StorageInv'
<1>1. tx'[w] = s /\ \A v \in Writers \ {w} : tx'[v] = tx[v]
  BY DEF StorageInv, TypeOK
<1>2. TypeOK'
  BY DEF StorageInv, TypeOK
<1>3. \A v \in Writers : SessionInv(v)'
  BY <1>1, SessionFrame DEF StorageInv
<1>4. \A v \in Writers : FreshInv(v)'
  BY <1>1 DEF StorageInv, FreshInv
<1>5. \A r \in Readers : ReaderInv(r)'
  BY ReaderFrame DEF StorageInv
<1> QED
  BY <1>2, <1>3, <1>4, <1>5 DEF StorageInv

LEMMA NoChanges ==
    /\ Unchanged \in [Tables -> AnyChanges]
    /\ \A t \in Tables : Unchanged[t] \in ChangesOf(t) /\ DOMAIN Unchanged[t] = {}
<1>1. \A t \in Tables : NoChange \in ChangesOf(t)
  BY DEF NoChange, ChangesOf
<1> QED
  BY <1>1 DEF Unchanged, AnyChanges, NoChange

LEMMA BeginStep ==
    ASSUME StorageInv, NEW w \in Writers, NEW job \in Jobs, Begin(w, job)
    PROVE  StorageInv'
<1> DEFINE pc == IF rows["tasks"] = NoRow THEN "not_found" ELSE "reading"
           s == [tx[w] EXCEPT !.job = job, !.pc = pc]
<1>1. tx[w].pc = "new" /\ rows' = rows /\ reader' = reader
      /\ tx' = [tx EXCEPT ![w] = s]
  BY DEF Begin, StorageInv, TypeOK
<1>2. /\ s \in [pc : SessionStages, job : Jobs \cup {NoJob}, step : Nat,
                seen : [Tables -> AnyRow], changes : [Tables -> AnyChanges]]
      /\ s.pc = pc /\ s.job = job /\ s.step = 1 /\ s.seen = Unread /\ s.changes = Unchanged
  BY <1>1 DEF StorageInv, TypeOK, FreshInv, SessionStages
<1>3. tx'[w] = s
  BY <1>1 DEF StorageInv, TypeOK
<1> HIDE DEF s
<1>4. Len(Plan(job)) \in {1, 2}
  BY PlanShape
<1>5. SessionInv(w)'
  BY <1>1, <1>2, <1>3, <1>4, NoChanges DEF SessionInv, Open, Unread, Tables
<1> QED
  BY <1>1, <1>2, <1>5, WriterStep DEF StorageInv, RowsStay, TypeOK, RowsInv

LEMMA ReadStep ==
    ASSUME StorageInv, NEW w \in Writers, Read(w)
    PROVE  StorageInv'
<1> DEFINE table == Plan(tx[w].job)[tx[w].step]
           s == [tx[w] EXCEPT !.pc = "flushing", !.seen = [@ EXCEPT ![table] = rows[table]]]
<1>1. /\ tx[w].pc = "reading" /\ tx[w].step <= Len(Plan(tx[w].job))
      /\ rows' = rows /\ reader' = reader
  BY DEF Read
<1>2. SessionInv(w) /\ tx[w].job \in Jobs /\ tx[w].step \in {1, 2}
  BY <1>1, PlanShape DEF StorageInv, SessionInv, Open
<1>3. table \in Tables
  BY <1>1, <1>2, PlanShape DEF Tables
<1>4. tx' = [tx EXCEPT ![w].pc = "flushing", ![w].seen[table] = rows[table]]
  BY DEF Read
<1> HIDE DEF table
<1>5. /\ tx[w] \in [pc : SessionStages, job : Jobs \cup {NoJob}, step : Nat,
                    seen : [Tables -> AnyRow], changes : [Tables -> AnyChanges]]
      /\ rows[table] \in AnyRow /\ w \in DOMAIN tx
  BY <1>3 DEF StorageInv, TypeOK
<1>6. tx' = [tx EXCEPT ![w] = s] /\ tx'[w] = s
  BY <1>4, <1>5
<1>7. s \in [pc : SessionStages, job : Jobs \cup {NoJob}, step : Nat,
             seen : [Tables -> AnyRow], changes : [Tables -> AnyChanges]]
  BY <1>3, <1>5 DEF SessionStages
<1>8. /\ s.pc = "flushing" /\ s.job = tx[w].job /\ s.step = tx[w].step
      /\ s.changes = tx[w].changes /\ s.seen[table] = rows[table]
      /\ \A t \in Tables \ {table} : s.seen[t] = tx[w].seen[t]
  BY <1>3, <1>5
<1> HIDE DEF s
<1>9. SessionInv(w)'
  <2>1. rows["tasks"] # NoRow /\ (table \in {"task_metadata", "task_statuses"} => rows[table] # NoRow)
    BY <1>1, <1>2 DEF SessionInv, Open, StorageInv, RowsInv
  <2>2. \A t \in Tables : s.seen[t] \in RowsOf(t) \cup {NoRow}
                          /\ (s.seen[t] # NoRow => rows[t] # NoRow)
    BY <1>1, <1>2, <1>3, <1>8 DEF SessionInv, Open, StorageInv, RowsInv
  <2>3. tx[w].job.kind = "status" /\ tx[w].step > 1 =>
           s.seen["task_statuses"] = tx[w].seen["task_statuses"]
    BY <1>1, <1>2, <1>3, <1>8, PlanShape DEF Tables, table
  <2>4. table = Plan(tx[w].job)[tx[w].step]
    BY DEF table
  <2> QED
    BY <1>1, <1>2, <1>6, <1>8, <2>1, <2>2, <2>3, <2>4 DEF SessionInv, Open, Tables
<1> QED
  BY <1>1, <1>6, <1>7, <1>8, <1>9, WriterStep DEF StorageInv, RowsStay, TypeOK, RowsInv

LEMMA RolledBackStep ==
    ASSUME StorageInv, NEW w \in Writers, NEW pc \in {"integrity_error", "aborted"},
           RolledBack(w, pc), UNCHANGED <<rows, reader>>
    PROVE  StorageInv'
<1> DEFINE s == [tx[w] EXCEPT !.pc = pc, !.changes = Unchanged]
<1>1. tx' = [tx EXCEPT ![w] = s] /\ rows' = rows /\ reader' = reader
  BY DEF RolledBack, StorageInv, TypeOK
<1>4. pc \in SessionStages
  BY DEF SessionStages
<1>5. tx[w] \in [pc : SessionStages, job : Jobs \cup {NoJob}, step : Nat,
                 seen : [Tables -> AnyRow], changes : [Tables -> AnyChanges]]
  BY DEF StorageInv, TypeOK
<1>2. s \in [pc : SessionStages, job : Jobs \cup {NoJob}, step : Nat,
             seen : [Tables -> AnyRow], changes : [Tables -> AnyChanges]]
      /\ s.pc = pc /\ tx'[w] = s
  <2>1. s.pc = pc /\ s.changes = Unchanged
    BY <1>5
  <2>2. s \in [pc : SessionStages, job : Jobs \cup {NoJob}, step : Nat,
               seen : [Tables -> AnyRow], changes : [Tables -> AnyChanges]]
    BY <1>4, <1>5, NoChanges
  <2>3. tx'[w] = s
    BY <1>1 DEF StorageInv, TypeOK
  <2> QED
    BY <2>1, <2>2, <2>3
<1> HIDE DEF s
<1>3. SessionInv(w)'
  BY <1>2 DEF SessionInv, Open
<1> QED
  BY <1>1, <1>2, <1>3, WriterStep DEF StorageInv, RowsStay, TypeOK, RowsInv

(* The columns that a job sets in each table of its plan.                  *)
LEMMA SetsAreColumns ==
    ASSUME StorageInv, NEW w \in Writers, tx[w].job \in Jobs, tx[w].step \in {1, 2},
           tx[w].step <= Len(Plan(tx[w].job))
    PROVE  LET table == Plan(tx[w].job)[tx[w].step]
               set == Sets(w, table)
           IN /\ table \in Tables
              /\ DOMAIN set \in SUBSET Columns(table) /\ set \in [DOMAIN set -> Values]
              /\ tx[w].step = 1 => DOMAIN set = Columns(table)
              /\ tx[w].step = 1 /\ tx[w].job.kind = "status" =>
                    table = "task_statuses" /\ set = tx[w].job.status
              /\ tx[w].step = 1 /\ tx[w].job.kind = "result" => table = "task_results"
              /\ tx[w].step = 2 => table = "task_metadata"
              /\ tx[w].step = 2 /\ tx[w].job.kind = "status" => DOMAIN set \subseteq {"updated_at"}
<1>1. CASE tx[w].step = 1 /\ tx[w].job.kind = "status"
  BY <1>1, PlanShape, StatusesAreRows DEF Sets, RowsOf, Tables
<1>2. CASE tx[w].step = 1 /\ tx[w].job.kind = "result"
  <2>1. Plan(tx[w].job)[1] = "task_results" /\ tx[w].job.data \in Data
    BY <1>2, PlanShape
  <2>2. None \in Values /\ tx[w].job.data \in Values /\ w \in Values
    BY <2>1 DEF Values, Texts
  <2> DEFINE time == IF tx[w].job.stamps = {} THEN None ELSE w
  <2>3. Sets(w, "task_results") = [data |-> tx[w].job.data, finished_at |-> time]
    BY DEF Sets
  <2>4. [data |-> tx[w].job.data, finished_at |-> time] \in [Columns("task_results") -> Values]
    BY <2>2, ColumnNames
  <2> DEFINE set == Sets(w, "task_results")
  <2>5. set \in [Columns("task_results") -> Values]
    BY <2>3, <2>4
  <2> HIDE DEF set, time
  <2>6. DOMAIN set = Columns("task_results")
    BY <2>5
  <2>7. Plan(tx[w].job)[tx[w].step] = "task_results"
    BY <1>2, <2>1
  <2> QED
    BY <1>2, <2>5, <2>6, <2>7 DEF set, Tables
<1>3. CASE tx[w].step = 2
  <2>1. Plan(tx[w].job)[2] = "task_metadata"
        /\ tx[w].job.stamps \subseteq {"updated_at", "finished_at"}
        /\ (tx[w].job.kind = "status" => tx[w].job.stamps \subseteq {"updated_at"})
    BY <1>3, PlanShape
  <2>2. Sets(w, "task_metadata") = [f \in tx[w].job.stamps |-> w] /\ w \in Values
    BY DEF Sets, Stamps, Values
  <2> DEFINE set == Sets(w, "task_metadata")
  <2>3. DOMAIN set = tx[w].job.stamps /\ set \in [DOMAIN set -> Values]
    BY <2>2
  <2>4. DOMAIN set \in SUBSET Columns("task_metadata")
    BY <2>1, <2>3, ColumnNames
  <2> HIDE DEF set
  <2>5. Plan(tx[w].job)[tx[w].step] = "task_metadata" /\ tx[w].step # 1
    BY <1>3, <2>1
  <2> QED
    BY <1>3, <2>1, <2>3, <2>4, <2>5 DEF set, Tables
<1>4. tx[w].job.kind = "status" \/ tx[w].job.kind = "result"
  BY PlanShape
<1> QED
  BY <1>1, <1>2, <1>3, <1>4

LEMMA FlushStep ==
    ASSUME StorageInv, NEW w \in Writers, Flush(w)
    PROVE  StorageInv'
<1> DEFINE table == Plan(tx[w].job)[tx[w].step]
           changes == Changes(Sets(w, table), tx[w].seen[table])
           s == [tx[w] EXCEPT !.pc = "reading", !.step = @ + 1,
                              !.changes = [@ EXCEPT ![table] = changes]]
<1>1. tx[w].pc = "flushing" /\ rows' = rows /\ reader' = reader
  BY DEF Flush
<1>2. CASE tx[w].seen[table] = NoRow /\ rows[table] # NoRow
  BY <1>1, <1>2, RolledBackStep DEF Flush
<1>3. CASE ~(tx[w].seen[table] = NoRow /\ rows[table] # NoRow)
  <2>1. tx' = [tx EXCEPT ![w].pc = "reading", ![w].step = @ + 1,
                         ![w].changes[table] = changes]
    BY <1>3 DEF Flush
  <2>2. /\ SessionInv(w) /\ tx[w].job \in Jobs /\ tx[w].step \in {1, 2}
        /\ tx[w].step <= Len(Plan(tx[w].job))
    BY <1>1, PlanShape DEF StorageInv, SessionInv, Open
  <2>3. table = Plan(tx[w].job)[tx[w].step]
    OBVIOUS
  <2> DEFINE set == Sets(w, table)
  <2>4. /\ table \in Tables
        /\ DOMAIN set \in SUBSET Columns(table) /\ set \in [DOMAIN set -> Values]
        /\ tx[w].step = 1 => DOMAIN set = Columns(table)
        /\ tx[w].step = 1 /\ tx[w].job.kind = "status" =>
              table = "task_statuses" /\ set = tx[w].job.status
        /\ tx[w].step = 1 /\ tx[w].job.kind = "result" => table = "task_results"
        /\ tx[w].step = 2 => table = "task_metadata"
        /\ tx[w].step = 2 /\ tx[w].job.kind = "status" => DOMAIN set \subseteq {"updated_at"}
    BY <2>2, SetsAreColumns
  <2>5. changes = Changes(set, tx[w].seen[table])
    OBVIOUS
  <2> HIDE DEF table, set, changes
  <2>6. tx[w].seen[table] \in RowsOf(table) \cup {NoRow}
    BY <1>1, <2>2, <2>4 DEF SessionInv, Open
  <2>7. /\ changes \in ChangesOf(table)
        /\ DOMAIN changes \subseteq DOMAIN set
        /\ tx[w].seen[table] = NoRow => DOMAIN changes = DOMAIN set
    <3> DEFINE C == DOMAIN set
               row == tx[w].seen[table]
    <3>1. C \in SUBSET Columns(table) /\ set \in [C -> Values] /\ row \in RowsOf(table) \cup {NoRow}
      BY <2>4, <2>6
    <3> HIDE DEF C, row
    <3>2. /\ Changes(set, row) \in ChangesOf(table)
          /\ DOMAIN Changes(set, row) \subseteq C
          /\ \A c \in C : row = NoRow => c \in DOMAIN Changes(set, row)
      BY <2>4, <3>1, ChangesProperties
    <3> QED
      BY <2>5, <3>2 DEF C, row
  <2>8. /\ tx[w] \in [pc : SessionStages, job : Jobs \cup {NoJob}, step : Nat,
                      seen : [Tables -> AnyRow], changes : [Tables -> AnyChanges]]
        /\ changes \in AnyChanges /\ w \in DOMAIN tx
    BY <2>4, <2>7 DEF StorageInv, TypeOK, AnyChanges
  <2>9. tx' = [tx EXCEPT ![w] = s] /\ tx'[w] = s
    BY <2>1, <2>8
  <2>10. s \in [pc : SessionStages, job : Jobs \cup {NoJob}, step : Nat,
                seen : [Tables -> AnyRow], changes : [Tables -> AnyChanges]]
    <3>1. tx[w].step + 1 \in Nat /\ "reading" \in SessionStages
      BY <2>8 DEF SessionStages
    <3>2. [tx[w].changes EXCEPT ![table] = changes] \in [Tables -> AnyChanges]
      BY <2>4, <2>8
    <3> QED
      BY <2>8, <3>1, <3>2
  <2>11. /\ s.pc = "reading" /\ s.job = tx[w].job /\ s.step = tx[w].step + 1
         /\ s.seen = tx[w].seen /\ s.changes[table] = changes
         /\ \A t \in Tables \ {table} : s.changes[t] = tx[w].changes[t]
    BY <2>4, <2>8
  <2> HIDE DEF s
  <2>12. \A t \in Tables :
            /\ s.changes[t] \in ChangesOf(t)
            /\ DOMAIN s.changes[t] # {} => rows[t] # NoRow \/ DOMAIN s.changes[t] = Columns(t)
    <3> SUFFICES ASSUME NEW t \in Tables
                 PROVE  /\ s.changes[t] \in ChangesOf(t)
                        /\ DOMAIN s.changes[t] # {} =>
                              rows[t] # NoRow \/ DOMAIN s.changes[t] = Columns(t)
      OBVIOUS
    <3>1. CASE t # table
      BY <1>1, <2>2, <2>11, <3>1 DEF SessionInv, Open
    <3>2. CASE t = table /\ tx[w].seen[table] # NoRow
      BY <1>1, <2>2, <2>4, <2>7, <2>11, <3>2 DEF SessionInv, Open
    <3>3. CASE t = table /\ tx[w].seen[table] = NoRow
      <4>1. table = "task_results" \/ table \in {"task_metadata", "task_statuses"}
        BY <2>2, <2>4, PlanShape
      <4>2. table \notin {"task_metadata", "task_statuses"}
        BY <1>1, <2>2, <2>3, <3>3 DEF SessionInv, Open
      <4>3. tx[w].step = 1
        BY <2>2, <2>4, <4>2
      <4> QED
        BY <2>4, <2>7, <2>11, <3>3, <4>3
    <3> QED
      BY <3>1, <3>2, <3>3
  <2>13. s.job.kind = "status" =>
            /\ s.seen["task_statuses"] # NoRow
            /\ s.changes["task_statuses"] = Changes(s.job.status, s.seen["task_statuses"])
    <3> SUFFICES ASSUME s.job.kind = "status"
                 PROVE  /\ s.seen["task_statuses"] # NoRow
                        /\ s.changes["task_statuses"] =
                              Changes(s.job.status, s.seen["task_statuses"])
      OBVIOUS
    <3>1. CASE tx[w].step = 1
      BY <1>1, <2>2, <2>3, <2>4, <2>5, <2>11, <3>1 DEF SessionInv, Open
    <3>2. CASE tx[w].step = 2
      BY <1>1, <2>2, <2>4, <2>11, <3>2 DEF SessionInv, Open, Tables
    <3> QED
      BY <2>2, <3>1, <3>2
  <2>16. SessionInv(w)'
    <3>1. /\ rows["tasks"] # NoRow /\ s.job \in Jobs /\ s.step > 1
          /\ s.step \in 1..(Len(Plan(s.job)) + 1)
          /\ \A t \in Tables : /\ s.seen[t] \in RowsOf(t) \cup {NoRow}
                               /\ s.seen[t] # NoRow => rows[t] # NoRow
      BY <1>1, <2>2, <2>11 DEF SessionInv, Open
    <3> QED
      BY <1>1, <2>9, <2>11, <2>12, <2>13, <3>1 DEF SessionInv, Open
  <2> QED
    BY <1>1, <2>9, <2>10, <2>11, <2>16, WriterStep DEF StorageInv, RowsStay, TypeOK, RowsInv
<1> QED
  BY <1>2, <1>3

LEMMA CommitStep ==
    ASSUME StorageInv, NEW w \in Writers, Commit(w)
    PROVE  StorageInv'
<1> DEFINE s == [tx[w] EXCEPT !.pc = "committed", !.changes = Unchanged]
<1>1. /\ tx[w].pc = "reading" /\ tx[w].step > Len(Plan(tx[w].job))
      /\ rows' = [t \in Tables |-> IF t \in Touched(w) THEN Changed(rows[t], tx[w].changes[t])
                                   ELSE rows[t]]
      /\ tx' = [tx EXCEPT ![w].pc = "committed", ![w].changes = Unchanged]
      /\ reader' = reader
  BY DEF Commit
<1>2. /\ tx[w] \in [pc : SessionStages, job : Jobs \cup {NoJob}, step : Nat,
                    seen : [Tables -> AnyRow], changes : [Tables -> AnyChanges]]
      /\ w \in DOMAIN tx /\ "committed" \in SessionStages
  BY DEF StorageInv, TypeOK, SessionStages
<1>3. tx' = [tx EXCEPT ![w] = s] /\ tx'[w] = s /\ s.pc = "committed"
  BY <1>1, <1>2
<1>4. s \in [pc : SessionStages, job : Jobs \cup {NoJob}, step : Nat,
             seen : [Tables -> AnyRow], changes : [Tables -> AnyChanges]]
  BY <1>2, NoChanges
<1> HIDE DEF s
<1>5. SessionInv(w) /\ tx[w].job \in Jobs /\ rows["tasks"] # NoRow /\ tx[w].step > 1
  BY <1>1, PlanShape DEF StorageInv, SessionInv, Open
<1>6. \A t \in Tables :
         /\ rows'[t] \in RowsOf(t) \cup {NoRow}
         /\ rows[t] # NoRow \/ DOMAIN tx[w].changes[t] # {} => rows'[t] # NoRow
         /\ DOMAIN tx[w].changes[t] # {} => rows'[t] = Changed(rows[t], tx[w].changes[t])
         /\ DOMAIN tx[w].changes[t] = {} => rows'[t] = rows[t]
  <2> SUFFICES ASSUME NEW t \in Tables
               PROVE  /\ rows'[t] \in RowsOf(t) \cup {NoRow}
                      /\ rows[t] # NoRow \/ DOMAIN tx[w].changes[t] # {} => rows'[t] # NoRow
                      /\ DOMAIN tx[w].changes[t] # {} =>
                            rows'[t] = Changed(rows[t], tx[w].changes[t])
                      /\ DOMAIN tx[w].changes[t] = {} => rows'[t] = rows[t]
    OBVIOUS
  <2>1. rows[t] \in RowsOf(t) \cup {NoRow}
    BY DEF StorageInv, RowsInv
  <2>2. CASE DOMAIN tx[w].changes[t] = {}
    <3>1. rows'[t] = rows[t]
      BY <1>1, <2>2 DEF Touched
    <3> QED
      BY <2>1, <2>2, <3>1
  <2>3. CASE DOMAIN tx[w].changes[t] # {}
    <3>1. rows'[t] = Changed(rows[t], tx[w].changes[t])
      BY <1>1, <2>3 DEF Touched
    <3>2. /\ tx[w].changes[t] \in ChangesOf(t)
          /\ rows[t] # NoRow \/ DOMAIN tx[w].changes[t] = Columns(t)
      BY <1>1, <1>5, <2>3 DEF SessionInv, Open
    <3>3. rows'[t] \in RowsOf(t)
      BY <2>1, <3>1, <3>2, ChangedIsRow
    <3> QED
      BY <2>3, <3>1, <3>3, RowsAreRows
  <2> QED
    BY <2>2, <2>3
<1>7. RowsStay
  BY <1>6 DEF RowsStay
<1>8. rows' \in [Tables -> AnyRow]
  BY <1>1, <1>6 DEF AnyRow
<1>9. RowsInv'
  <2>1. \A t \in Tables : rows'[t] \in RowsOf(t) \cup {NoRow}
    BY <1>6
  <2>2. rows'["task_metadata"] # NoRow /\ rows'["task_statuses"] # NoRow
    BY <1>5, <1>6 DEF StorageInv, RowsInv, Tables
  <2> QED
    BY <2>1, <2>2 DEF RowsInv
<1>10. SessionInv(w)'
  BY <1>3 DEF SessionInv, Open
<1> QED
  BY <1>1, <1>3, <1>4, <1>7, <1>8, <1>9, <1>10, WriterStep

-----------------------------------------------------------------------------
(* The step of one read: what is left to prove about it.                   *)
LEMMA ReaderStep ==
    ASSUME StorageInv, NEW r \in Readers, UNCHANGED <<rows, tx>>,
           NEW s, reader' = [reader EXCEPT ![r] = s],
           s \in [pc : ReaderStages, call : Calls \cup {"none"}, left : SUBSET Tables,
                  seen : [Tables -> AnyRow]],
           ReaderInv(r)'
    PROVE  StorageInv'
<1>1. \A q \in Readers \ {r} : reader'[q] = reader[q]
  BY DEF StorageInv, TypeOK
<1>2. RowsStay /\ rows' = rows /\ tx' = tx
  BY DEF RowsStay
<1>3. TypeOK' /\ RowsInv'
  BY <1>2 DEF StorageInv, TypeOK, RowsInv
<1>4. \A w \in Writers : SessionInv(w)' /\ FreshInv(w)'
  BY <1>2, SessionFrame DEF StorageInv, FreshInv
<1>5. \A q \in Readers : ReaderInv(q)'
  BY <1>1, <1>2, ReaderFrame DEF StorageInv
<1> QED
  BY <1>3, <1>4, <1>5 DEF StorageInv

LEMMA LoadsAreTables ==
    ASSUME NEW call \in Calls
    PROVE  Loads(call) \subseteq {"task_metadata", "task_statuses", "task_results"}
<1>1. CASE call = "get_task"
  BY <1>1 DEF Loads
<1>2. CASE call = "get_result"
  BY <1>2 DEF Loads
<1>3. CASE call = "list_tasks"
  BY <1>3 DEF Loads
<1> QED
  BY <1>1, <1>2, <1>3 DEF Calls

LEMMA FindStep ==
    ASSUME StorageInv, NEW r \in Readers, NEW call \in Calls, NEW user, Find(r, call, user)
    PROVE  StorageInv'
<1> DEFINE pc == IF rows["tasks"] = NoRow THEN "not_found"
                 ELSE IF rows["tasks"].user_id # user THEN "denied" ELSE "selecting"
           seen == [Unread EXCEPT !["tasks"] = rows["tasks"]]
           s == [pc |-> pc, call |-> call, left |-> Loads(call), seen |-> seen]
<1>1. reader' = [reader EXCEPT ![r] = s] /\ rows' = rows /\ tx' = tx
  BY DEF Find
<1>2. seen \in [Tables -> AnyRow]
  BY DEF StorageInv, TypeOK, Unread, AnyRow, Tables
<1>3. pc \in ReaderStages /\ pc # "found" /\ (pc = "selecting" => rows["tasks"] # NoRow)
  BY DEF ReaderStages
<1>4. Loads(call) \in SUBSET Tables
  BY LoadsAreTables DEF Tables
<1> HIDE DEF pc, seen
<1>5. s \in [pc : ReaderStages, call : Calls \cup {"none"}, left : SUBSET Tables,
             seen : [Tables -> AnyRow]]
  BY <1>2, <1>3, <1>4
<1>6. reader'[r] = s
  BY <1>1 DEF StorageInv, TypeOK
<1>7. ReaderInv(r)'
  BY <1>1, <1>3, <1>6 DEF ReaderInv
<1> QED
  BY <1>1, <1>5, <1>7, ReaderStep

LEMMA SelectStep ==
    ASSUME StorageInv, NEW r \in Readers, NEW table \in Tables, Select(r, table)
    PROVE  StorageInv'
<1> DEFINE left == reader[r].left \ {table}
           pc == IF reader[r].left = {table} THEN "found" ELSE "selecting"
           seen == [reader[r].seen EXCEPT ![table] = rows[table]]
           s == [reader[r] EXCEPT !.seen = seen, !.left = left, !.pc = pc]
<1>1. /\ reader[r].pc = "selecting" /\ table \in reader[r].left
      /\ rows' = rows /\ tx' = tx
      /\ reader' = [reader EXCEPT ![r].seen[table] = rows[table], ![r].left = @ \ {table},
                        ![r].pc = pc]
  BY DEF Select
<1>2. /\ reader[r].call \in Calls /\ rows["tasks"] # NoRow
      /\ \A t \in (Loads(reader[r].call) \ reader[r].left) \ {"task_results"} :
            reader[r].seen[t] # NoRow
  BY <1>1 DEF StorageInv, ReaderInv
<1>3. /\ reader[r] \in [pc : ReaderStages, call : Calls \cup {"none"}, left : SUBSET Tables,
                        seen : [Tables -> AnyRow]]
      /\ r \in DOMAIN reader /\ rows[table] \in AnyRow
  BY DEF StorageInv, TypeOK
<1>4. pc \in ReaderStages /\ (pc = "found" => left = {})
  BY DEF ReaderStages
<1>5. left \in SUBSET Tables /\ seen \in [Tables -> AnyRow]
  BY <1>3
<1>6. reader' = [reader EXCEPT ![r] = s] /\ reader'[r] = s
  BY <1>1, <1>3
<1>7. /\ s.pc = pc /\ s.call = reader[r].call /\ s.left = left /\ s.seen = seen
      /\ s \in [pc : ReaderStages, call : Calls \cup {"none"}, left : SUBSET Tables,
                seen : [Tables -> AnyRow]]
  <2> HIDE DEF pc, left, seen
  <2> QED
    BY <1>3, <1>4, <1>5
<1>8. ASSUME NEW t \in (Loads(reader[r].call) \ left) \ {"task_results"}
      PROVE  seen[t] # NoRow
  <2>1. t \in {"task_metadata", "task_statuses"}
    BY <1>2, LoadsAreTables
  <2>2. CASE t = table
    BY <1>2, <1>3, <2>1, <2>2 DEF StorageInv, RowsInv
  <2>3. CASE t # table
    BY <1>2, <1>3, <2>1, <2>3
  <2> QED
    BY <2>2, <2>3
<1>9. ReaderInv(r)'
  <2> HIDE DEF s, pc, left, seen
  <2> QED
    BY <1>1, <1>2, <1>4, <1>6, <1>7, <1>8 DEF ReaderInv
<1> HIDE DEF s
<1> QED
  BY <1>1, <1>6, <1>7, <1>9, ReaderStep

LEMMA StorageStep == StorageInv /\ [Next]_vars => StorageInv'
<1> SUFFICES ASSUME StorageInv, [Next]_vars PROVE StorageInv'
  OBVIOUS
<1>1. CASE CreateTask
  BY <1>1, CreateTaskStep
<1>2. ASSUME NEW w \in Writers, NEW job \in Jobs, Begin(w, job) PROVE StorageInv'
  BY <1>2, BeginStep
<1>3. ASSUME NEW w \in Writers, Read(w) PROVE StorageInv'
  BY <1>3, ReadStep
<1>4. ASSUME NEW w \in Writers, Flush(w) PROVE StorageInv'
  BY <1>4, FlushStep
<1>5. ASSUME NEW w \in Writers, Commit(w) PROVE StorageInv'
  BY <1>5, CommitStep
<1>6. ASSUME NEW w \in Writers, Abort(w) PROVE StorageInv'
  BY <1>6, RolledBackStep DEF Abort
<1>7. ASSUME NEW r \in Readers, NEW call \in Calls, NEW user, Find(r, call, user)
      PROVE  StorageInv'
  BY <1>7, FindStep
<1>8. ASSUME NEW r \in Readers, NEW table \in Tables, Select(r, table) PROVE StorageInv'
  BY <1>8, SelectStep
<1>9. CASE UNCHANGED vars
  BY <1>9 DEF vars, StorageInv, TypeOK, RowsInv, SessionInv, Open, FreshInv, ReaderInv
<1> QED
  BY <1>1, <1>2, <1>3, <1>4, <1>5, <1>6, <1>7, <1>8, <1>9 DEF Next, Calls

THEOREM StorageInvariant == Spec => []StorageInv
<1> QED
  BY StorageInit, StorageStep, PTL DEF Spec

(* Whatever commits between the SELECTs of a read, and in whatever order   *)
(* they run, a task that is found has its metadata and its status, because *)
(* create_task inserts them together.                                      *)
THEOREM ReadersHold == Spec => []ReadersSeeWholeTasks
<1>1. StorageInv => ReadersSeeWholeTasks
  <2> SUFFICES ASSUME StorageInv, NEW r \in Readers, reader[r].pc = "found",
                      NEW table \in Loads(reader[r].call) \ {"task_results"}
               PROVE  reader[r].seen[table] # NoRow
    BY DEF ReadersSeeWholeTasks
  <2>1. ReaderInv(r)
    BY DEF StorageInv
  <2> QED
    BY <2>1 DEF ReaderInv
<1> QED
  BY <1>1, StorageInvariant, PTL

-----------------------------------------------------------------------------
(* What an UPDATE of the differences makes of a status row.                *)
LEMMA StatusUpdate ==
    ASSUME NEW status \in RowsOf("task_statuses"), NEW seen \in RowsOf("task_statuses"),
           NEW before \in RowsOf("task_statuses"), NEW after,
           after = IF DOMAIN Changes(status, seen) = {} THEN before
                   ELSE Changed(before, Changes(status, seen))
    PROVE  /\ before = seen => after = status
           /\ seen.state = status.state => after.state = before.state
<1> DEFINE C == Columns("task_statuses")
           changes == Changes(status, seen)
<1>1. /\ "task_statuses" \in Tables /\ C \in SUBSET Columns("task_statuses")
      /\ status \in [C -> Values] /\ seen \in [C -> Values] /\ before \in [C -> Values]
      /\ "state" \in C
  BY ColumnNames DEF RowsOf, Tables
<1>2. seen # NoRow /\ before # NoRow
  BY <1>1, RowsAreRows
<1> HIDE DEF C
<1>3. /\ changes \in ChangesOf("task_statuses") /\ DOMAIN changes \subseteq C
      /\ \A c \in C : c \in DOMAIN changes <=> (seen = NoRow \/ seen[c] # status[c])
      /\ \A c \in DOMAIN changes : changes[c] = status[c]
  <2>1. seen \in RowsOf("task_statuses") \cup {NoRow}
    OBVIOUS
  <2> HIDE DEF changes
  <2>2. changes = Changes(status, seen)
    BY DEF changes
  <2>3. changes \in ChangesOf("task_statuses") /\ DOMAIN changes \subseteq C
    BY <1>1, <2>1, <2>2, ChangesProperties
  <2>4. ASSUME NEW c \in C
        PROVE  c \in DOMAIN changes <=> (seen = NoRow \/ seen[c] # status[c])
    <3>1. changes = [k \in {k \in C : seen = NoRow \/ seen[k] # status[k]} |-> status[k]]
      BY <1>1, <2>2 DEF Changes, Restrict
    <3> QED
      BY <3>1
  <2>5. \A c \in DOMAIN changes : changes[c] = status[c]
    BY <1>1, <2>1, <2>2, ChangesProperties
  <2> QED
    BY <2>3, <2>4, <2>5
<1> HIDE DEF changes
<1>4. after = [c \in C |-> IF c \in DOMAIN changes THEN changes[c] ELSE before[c]]
  <2>1. CASE DOMAIN changes = {}
    <3>1. after = before
      BY <2>1 DEF changes
    <3> QED
      BY <1>1, <2>1, <3>1
  <2>2. CASE DOMAIN changes # {}
    <3>1. after = Changed(before, changes) /\ DOMAIN before = C
      BY <1>1, <2>2 DEF changes
    <3> QED
      BY <1>2, <3>1 DEF Changed
  <2> QED
    BY <2>1, <2>2
<1>5. ASSUME before = seen PROVE after = status
  <2>1. \A c \in C : after[c] = status[c]
    BY <1>2, <1>3, <1>4, <1>5
  <2> QED
    BY <1>1, <1>4, <2>1
<1>6. ASSUME seen.state = status.state PROVE after.state = before.state
  BY <1>1, <1>2, <1>3, <1>4, <1>6
<1> QED
  BY <1>5, <1>6

(* What an UPDATE writes over: nothing is left of a status that the writer *)
(* has read, and an overtaken progress report does not touch the state.    *)
THEOREM UpdatesHold == Spec => UpdatesAreSnapshots
<1> DEFINE Snapshots == \A w \in Writers : Updating(w) =>
              LET before == rows["task_statuses"]
                  seen == tx[w].seen["task_statuses"]
                  after == rows'["task_statuses"]
              IN /\ before = seen => after = tx[w].job.status
                 /\ before.state \in TerminalStates /\ seen.state = "RUNNING"
                       /\ tx[w].job.status.state = "RUNNING" => after.state = before.state
<1>1. StorageInv /\ [Next]_vars => [Snapshots]_vars
  <2> SUFFICES ASSUME StorageInv, Next, NEW w \in Writers, Updating(w)
               PROVE  LET before == rows["task_statuses"]
                          seen == tx[w].seen["task_statuses"]
                          after == rows'["task_statuses"]
                      IN /\ before = seen => after = tx[w].job.status
                         /\ seen.state = tx[w].job.status.state => after.state = before.state
    OBVIOUS
  <2>1. tx[w].pc = "reading" /\ tx'[w].pc = "committed" /\ tx[w].job.kind = "status"
    BY DEF Updating
  <2>2. tx \in [Writers -> [pc : SessionStages, job : Jobs \cup {NoJob}, step : Nat,
                           seen : [Tables -> AnyRow], changes : [Tables -> AnyChanges]]]
    BY DEF StorageInv, TypeOK
  <2>3. Commit(w)
    <3>1. /\ ~CreateTask
          /\ \A r \in Readers : /\ \A table \in Tables : ~Select(r, table)
                                /\ \A call, user : ~Find(r, call, user)
      BY <2>1 DEF CreateTask, Select, Find
    <3>2. ASSUME NEW v \in Writers, v # w \/ ~Commit(v),
                 Read(v) \/ Flush(v) \/ Commit(v) \/ Abort(v) \/ \E job \in Jobs : Begin(v, job)
          PROVE  FALSE
      <4>1. CASE Read(v)
        BY <2>1, <2>2, <4>1 DEF Read
      <4>2. CASE Flush(v)
        BY <2>1, <2>2, <4>2 DEF Flush, RolledBack
      <4>3. CASE Commit(v)
        BY <2>1, <2>2, <3>2, <4>3 DEF Commit
      <4>4. CASE Abort(v)
        BY <2>1, <2>2, <4>4 DEF Abort, RolledBack
      <4>5. ASSUME NEW job \in Jobs, Begin(v, job) PROVE FALSE
        BY <2>1, <2>2, <4>5 DEF Begin
      <4> QED
        BY <3>2, <4>1, <4>2, <4>3, <4>4, <4>5
    <3> QED
      BY <3>1, <3>2 DEF Next
  <2> DEFINE T == "task_statuses"
             changes == tx[w].changes[T]
  <2>4. /\ SessionInv(w) /\ tx[w].job \in Jobs /\ tx[w].step > 1
        /\ rows["tasks"] # NoRow /\ T \in Tables
    BY <2>1, <2>3, PlanShape DEF StorageInv, SessionInv, Open, Commit, Tables
  <2>5. /\ changes = Changes(tx[w].job.status, tx[w].seen[T])
        /\ tx[w].seen[T] \in RowsOf(T)
    BY <2>1, <2>4 DEF SessionInv, Open
  <2>6. rows[T] \in RowsOf(T) /\ tx[w].job.status \in RowsOf(T)
    BY <2>1, <2>4, PlanShape, StatusesAreRows DEF StorageInv, RowsInv
  <2>7. rows'[T] = IF DOMAIN changes = {} THEN rows[T] ELSE Changed(rows[T], changes)
    BY <2>3, <2>4 DEF Commit, Touched
  <2> QED
    BY <2>5, <2>6, <2>7, StatusUpdate
<1> QED
  BY <1>1, StorageInvariant, PTL DEF Spec, UpdatesAreSnapshots

-----------------------------------------------------------------------------
(* The time stamps of the metadata, against the order of commits.          *)
TimeFields == {"updated_at", "finished_at"}

(* The commits of sessions that set field f, and the last of them.         *)
Setters(f) == {k \in DOMAIN commits : f \in tx[commits[k]].job.stamps}
LastSetIs(f, value) ==
    \/ Setters(f) = {} /\ value = None
    \/ \E k \in Setters(f) : value = commits[k] /\ \A j \in Setters(f) : j <= k

HistoryInv ==
    /\ commits \in Seq(Writers)
    /\ \A k \in DOMAIN commits : tx[commits[k]].pc = "committed"
    /\ rows["tasks"] = NoRow => commits = <<>>

StampRowsInv ==
    /\ rows["tasks"] # NoRow =>
          /\ rows["task_metadata"].created_at # None
          /\ \A f \in TimeFields : LastSetIs(f, rows["task_metadata"][f])
    /\ rows["task_results"] # NoRow /\ rows["task_results"].finished_at # None =>
          /\ rows["tasks"] # NoRow
          /\ rows["task_results"].finished_at = rows["task_metadata"].finished_at

(* No row that w has read has the time of w, so it differs and is sent.    *)
SeenInv(w) ==
    /\ \A f \in TimeFields :
          tx[w].seen["task_metadata"] # NoRow => tx[w].seen["task_metadata"][f] # w
    /\ tx[w].seen["task_results"] # NoRow => tx[w].seen["task_results"].finished_at # w

(* A session sends the fields it sets and no other, all of them once its   *)
(* plan is done, and the same time to the result and the metadata.         *)
SentInv(w) ==
    LET job == tx[w].job
        times == tx[w].changes["task_metadata"]
        result == tx[w].changes["task_results"]
    IN /\ DOMAIN times \subseteq job.stamps /\ \A f \in DOMAIN times : times[f] = w
       /\ tx[w].step > 2 => DOMAIN times = job.stamps
       /\ "finished_at" \in DOMAIN result =>
             /\ job.kind = "result"
             /\ result.finished_at = IF job.stamps = {} THEN None ELSE w
       /\ job.kind = "result" /\ job.stamps # {} /\ tx[w].step > 1 =>
             "finished_at" \in DOMAIN result

StampsInv ==
    /\ HistoryInv /\ StampRowsInv
    /\ \A w \in Writers : Open(w) => SeenInv(w) /\ SentInv(w)

LEMMA StampsInit == Init => StampsInv
<1> SUFFICES ASSUME Init PROVE StampsInv
  OBVIOUS
<1>1. HistoryInv
  BY DEF Init, HistoryInv
<1>2. \A w \in Writers : ~Open(w)
  BY DEF Init, Open
<1>3. \A f : Setters(f) = {}
  BY DEF Init, Setters
<1>4. ASSUME NEW status \in RowsOf("task_statuses"), rows = Task(status)
      PROVE  /\ rows["task_metadata"] = NewMetadata
             /\ rows["task_results"] = NoRow
  BY <1>4 DEF Task, Unread, Tables
<1>5. StampRowsInv
  <2>1. CASE rows = Unread
    BY <2>1 DEF Unread, Tables, StampRowsInv
  <2>2. CASE rows = Task(StatusRow("RUNNING", "0.2", None))
    <3>1. rows["task_metadata"] = NewMetadata /\ rows["task_results"] = NoRow
      BY <1>4, <2>2, StatusesAreRows
    <3> QED
      BY <1>3, <3>1 DEF StampRowsInv, NewMetadata, TimeFields, LastSetIs, None
  <2> QED
    BY <2>1, <2>2 DEF Init
<1> QED
  BY <1>1, <1>2, <1>5 DEF StampsInv

(* A session that has not committed has left no time in the rows.          *)
LEMMA NotYetStamped ==
    ASSUME StampsInv, NEW w \in Writers, tx[w].pc # "committed", rows["tasks"] # NoRow
    PROVE  /\ \A f \in TimeFields : rows["task_metadata"][f] # w
           /\ rows["task_results"] # NoRow => rows["task_results"].finished_at # w
<1>1. \A k \in DOMAIN commits : commits[k] # w
  BY DEF StampsInv, HistoryInv
<1>2. \A f \in TimeFields : rows["task_metadata"][f] # w
  <2> SUFFICES ASSUME NEW f \in TimeFields PROVE rows["task_metadata"][f] # w
    OBVIOUS
  <2>1. LastSetIs(f, rows["task_metadata"][f])
    BY DEF StampsInv, StampRowsInv
  <2> QED
    BY <1>1, <2>1, WritersAssumption DEF LastSetIs, Setters
<1>3. "finished_at" \in TimeFields
  BY DEF TimeFields
<1>4. rows["task_metadata"].finished_at # w
  BY <1>2, <1>3
<1> QED
  BY <1>2, <1>4, WritersAssumption DEF StampsInv, StampRowsInv

(* What a step that commits nothing has to keep.                           *)
LEMMA StampsFrame ==
    ASSUME StampsInv, UNCHANGED <<rows, commits>>,
           \A v \in Writers : tx[v].pc = "committed" => tx'[v] = tx[v],
           \A v \in Writers : Open(v)' => tx'[v] = tx[v] \/ (SeenInv(v)' /\ SentInv(v)')
    PROVE  StampsInv'
<1>1. HistoryInv /\ commits \in Seq(Writers)
  BY DEF StampsInv, HistoryInv
<1>2. \A k \in DOMAIN commits : commits[k] \in Writers /\ tx'[commits[k]] = tx[commits[k]]
  BY <1>1 DEF HistoryInv
<1>3. HistoryInv'
  BY <1>1, <1>2 DEF HistoryInv
<1>4. \A f : Setters(f)' = Setters(f)
  BY <1>2 DEF Setters
<1>5. StampRowsInv'
  BY <1>4 DEF StampsInv, StampRowsInv, LastSetIs
<1>6. ASSUME NEW v \in Writers, Open(v)' PROVE SeenInv(v)' /\ SentInv(v)'
  <2>1. CASE tx'[v] = tx[v]
    BY <1>6, <2>1 DEF StampsInv, Open, SeenInv, SentInv
  <2> QED
    BY <1>6, <2>1
<1> QED
  BY <1>3, <1>5, <1>6 DEF StampsInv

LEMMA StampsWriter ==
    ASSUME StorageInv, StampsInv, UNCHANGED <<rows, commits>>,
           NEW w \in Writers, tx[w].pc # "committed", NEW s, tx' = [tx EXCEPT ![w] = s],
           Open(w)' => SeenInv(w)' /\ SentInv(w)'
    PROVE  StampsInv'
<1>1. \A v \in Writers \ {w} : tx'[v] = tx[v]
  BY DEF StorageInv, TypeOK
<1> QED
  BY <1>1, StampsFrame

LEMMA StampsBegin ==
    ASSUME StorageInv, StampsInv, NEW w \in Writers, NEW job \in Jobs, Begin(w, job)
    PROVE  StampsInv'
<1> DEFINE pc == IF rows["tasks"] = NoRow THEN "not_found" ELSE "reading"
           s == [tx[w] EXCEPT !.job = job, !.pc = pc]
<1>1. tx[w].pc = "new" /\ UNCHANGED <<rows, commits>> /\ tx' = [tx EXCEPT ![w] = s]
  BY DEF Begin, StorageInv, TypeOK
<1>2. s.step = 1 /\ s.seen = Unread /\ s.changes = Unchanged /\ tx'[w] = s
  BY <1>1 DEF StorageInv, TypeOK, FreshInv
<1> HIDE DEF s
<1>3. SeenInv(w)'
  BY <1>2 DEF SeenInv, Unread, Tables
<1>4. SentInv(w)'
  BY <1>2, NoChanges DEF SentInv, Tables
<1> QED
  BY <1>1, <1>3, <1>4, StampsWriter

LEMMA StampsRead ==
    ASSUME StorageInv, StampsInv, NEW w \in Writers, Read(w)
    PROVE  StampsInv'
<1> DEFINE table == Plan(tx[w].job)[tx[w].step]
           s == [tx[w] EXCEPT !.pc = "flushing", !.seen = [@ EXCEPT ![table] = rows[table]]]
<1>1. tx[w].pc = "reading" /\ tx[w].step <= Len(Plan(tx[w].job)) /\ UNCHANGED <<rows, commits>>
  BY DEF Read
<1>2. /\ tx[w].job \in Jobs /\ tx[w].step \in {1, 2} /\ rows["tasks"] # NoRow
      /\ SeenInv(w) /\ SentInv(w)
  <2>1. SessionInv(w) /\ tx[w].job \in Jobs /\ tx[w].step \in {1, 2}
    BY <1>1, PlanShape DEF StorageInv, SessionInv, Open
  <2> QED
    BY <1>1, <2>1 DEF StampsInv, SessionInv, Open
<1>3. table \in Tables
  BY <1>1, <1>2, PlanShape DEF Tables
<1>4. tx' = [tx EXCEPT ![w].pc = "flushing", ![w].seen[table] = rows[table]]
  BY DEF Read
<1> HIDE DEF table
<1>5. tx[w] \in [pc : SessionStages, job : Jobs \cup {NoJob}, step : Nat,
                 seen : [Tables -> AnyRow], changes : [Tables -> AnyChanges]]
      /\ w \in DOMAIN tx
  BY DEF StorageInv, TypeOK
<1>6. tx' = [tx EXCEPT ![w] = s] /\ tx'[w] = s
  BY <1>4, <1>5
<1>7. /\ s.job = tx[w].job /\ s.step = tx[w].step /\ s.changes = tx[w].changes
      /\ s.seen[table] = rows[table]
      /\ \A t \in Tables \ {table} : s.seen[t] = tx[w].seen[t]
  BY <1>3, <1>5
<1> HIDE DEF s
<1>8. SeenInv(w)'
  <2>1. /\ \A f \in TimeFields : rows["task_metadata"][f] # w
        /\ rows["task_results"] # NoRow => rows["task_results"].finished_at # w
    BY <1>1, <1>2, NotYetStamped
  <2>2. \A t \in Tables : s.seen[t] = rows[t] \/ s.seen[t] = tx[w].seen[t]
    BY <1>7
  <2>3. \A f \in TimeFields :
           s.seen["task_metadata"] # NoRow => s.seen["task_metadata"][f] # w
    BY <1>2, <2>1, <2>2 DEF SeenInv, Tables
  <2>4. s.seen["task_results"] # NoRow => s.seen["task_results"].finished_at # w
    BY <1>2, <2>1, <2>2 DEF SeenInv, Tables
  <2> QED
    BY <1>6, <2>3, <2>4 DEF SeenInv
<1>9. SentInv(w)'
  BY <1>2, <1>6, <1>7 DEF SentInv
<1> QED
  BY <1>1, <1>6, <1>8, <1>9, StampsWriter

LEMMA StampsRolledBack ==
    ASSUME StorageInv, StampsInv, NEW w \in Writers, NEW pc \in {"integrity_error", "aborted"},
           tx[w].pc # "committed", RolledBack(w, pc), UNCHANGED <<rows, commits>>
    PROVE  StampsInv'
<1> DEFINE s == [tx[w] EXCEPT !.pc = pc, !.changes = Unchanged]
<1>1. tx' = [tx EXCEPT ![w] = s] /\ tx'[w].pc = pc
  <2>1. tx' = [tx EXCEPT ![w] = s] /\ tx'[w] = s
    BY DEF RolledBack, StorageInv, TypeOK
  <2>2. tx[w] \in [pc : SessionStages, job : Jobs \cup {NoJob}, step : Nat,
                   seen : [Tables -> AnyRow], changes : [Tables -> AnyChanges]]
    BY DEF StorageInv, TypeOK
  <2>3. s.pc = pc
    BY <2>2
  <2> HIDE DEF s
  <2> QED
    BY <2>1, <2>3
<1>2. ~Open(w)'
  BY <1>1 DEF Open
<1> HIDE DEF s
<1> QED
  BY <1>1, <1>2, StampsWriter

(* The difference between what a session sets and what it has read.        *)
LEMMA TimesSent ==
    ASSUME NEW set, NEW row
    PROVE  /\ DOMAIN Changes(set, row) = {c \in DOMAIN set : row = NoRow \/ row[c] # set[c]}
           /\ \A c \in DOMAIN Changes(set, row) : Changes(set, row)[c] = set[c]
BY DEF Changes, Restrict

LEMMA StampsFlush ==
    ASSUME StorageInv, StampsInv, NEW w \in Writers, Flush(w)
    PROVE  StampsInv'
<1> DEFINE table == Plan(tx[w].job)[tx[w].step]
           row == tx[w].seen[table]
           set == Sets(w, table)
           changes == Changes(set, row)
           s == [tx[w] EXCEPT !.pc = "reading", !.step = @ + 1,
                              !.changes = [@ EXCEPT ![table] = changes]]
<1>1. tx[w].pc = "flushing" /\ UNCHANGED <<rows, commits>>
  BY DEF Flush
<1>2. CASE tx[w].seen[table] = NoRow /\ rows[table] # NoRow
  BY <1>1, <1>2, StampsRolledBack DEF Flush
<1>3. CASE ~(tx[w].seen[table] = NoRow /\ rows[table] # NoRow)
  <2>1. tx' = [tx EXCEPT ![w].pc = "reading", ![w].step = @ + 1,
                         ![w].changes[table] = changes]
    BY <1>3 DEF Flush
  <2>2. /\ SessionInv(w) /\ tx[w].job \in Jobs /\ tx[w].step \in {1, 2}
        /\ tx[w].step <= Len(Plan(tx[w].job)) /\ SeenInv(w) /\ SentInv(w)
    BY <1>1, PlanShape DEF StorageInv, StampsInv, SessionInv, Open
  <2>3. /\ table \in {"task_statuses", "task_results", "task_metadata"}
        /\ tx[w].step = 1 /\ tx[w].job.kind = "status" => table = "task_statuses"
        /\ tx[w].step = 1 /\ tx[w].job.kind = "result" => table = "task_results"
        /\ tx[w].step = 2 => table = "task_metadata" /\ tx[w].job.stamps # {}
        /\ tx[w].job.kind \in {"status", "result"}
    BY <2>2, PlanShape
  <2>4. /\ DOMAIN changes = {c \in DOMAIN set : row = NoRow \/ row[c] # set[c]}
        /\ \A c \in DOMAIN changes : changes[c] = set[c]
    BY TimesSent
  <2>5. /\ table = "task_metadata" => set = [f \in tx[w].job.stamps |-> w]
        /\ table = "task_results" =>
              set = [data |-> tx[w].job.data,
                     finished_at |-> IF tx[w].job.stamps = {} THEN None ELSE w]
    BY DEF Sets, Stamps
  <2>6. table = "task_metadata" => row # NoRow /\ row = tx[w].seen["task_metadata"]
    BY <1>1, <2>2 DEF SessionInv, Open
  <2>7. table = "task_results" => row = tx[w].seen["task_results"]
    OBVIOUS
  <2>8. /\ tx[w] \in [pc : SessionStages, job : Jobs \cup {NoJob}, step : Nat,
                      seen : [Tables -> AnyRow], changes : [Tables -> AnyChanges]]
        /\ w \in DOMAIN tx
    BY DEF StorageInv, TypeOK
  <2> HIDE DEF table, set, row, changes
  <2>9. tx' = [tx EXCEPT ![w] = s] /\ tx'[w] = s
    BY <2>1, <2>8
  <2>10. table \in Tables
    BY <2>3 DEF Tables
  <2>11. /\ s.job = tx[w].job /\ s.step = tx[w].step + 1 /\ s.seen = tx[w].seen
         /\ s.changes[table] = changes
         /\ \A t \in Tables \ {table} : s.changes[t] = tx[w].changes[t]
    BY <2>8, <2>10
  <2> HIDE DEF s
  <2>12. SeenInv(w)'
    BY <2>2, <2>9, <2>11 DEF SeenInv
  <2> DEFINE stamps == tx[w].job.stamps
             times == s.changes["task_metadata"]
             result == s.changes["task_results"]
  <2>13. stamps \subseteq TimeFields /\ (stamps # {} /\ tx[w].job.kind = "result" => stamps = {"finished_at"})
    BY <2>2, PlanShape DEF TimeFields
  <2>14. /\ DOMAIN times \subseteq stamps /\ \A f \in DOMAIN times : times[f] = w
         /\ tx[w].step = 2 => DOMAIN times = stamps
    <3>1. CASE table = "task_metadata"
      <4>1. \A f \in stamps : row[f] # w
        BY <2>2, <2>6, <2>13, <3>1 DEF SeenInv
      <4>2. times = changes /\ DOMAIN set = stamps /\ \A f \in stamps : set[f] = w
        BY <2>5, <2>11, <3>1
      <4> QED
        BY <2>4, <4>1, <4>2
    <3>2. CASE table # "task_metadata"
      <4>1. times = tx[w].changes["task_metadata"] /\ tx[w].step # 2
        BY <2>3, <2>11, <3>2 DEF Tables
      <4> QED
        BY <2>2, <4>1 DEF SentInv
    <3> QED
      BY <3>1, <3>2
  <2>15. /\ "finished_at" \in DOMAIN result =>
               /\ tx[w].job.kind = "result"
               /\ result.finished_at = IF stamps = {} THEN None ELSE w
         /\ tx[w].job.kind = "result" /\ stamps # {} => "finished_at" \in DOMAIN result
    <3>1. CASE table = "task_results"
      <4>1. tx[w].job.kind = "result" /\ result = changes /\ "finished_at" \in DOMAIN set
            /\ set.finished_at = IF stamps = {} THEN None ELSE w
        BY <2>2, <2>3, <2>5, <2>11, <3>1
      <4>2. row # NoRow => row.finished_at # w
        BY <2>2, <2>7, <3>1 DEF SeenInv
      <4> QED
        BY <2>4, <4>1, <4>2
    <3>2. CASE table # "task_results"
      <4>1. result = tx[w].changes["task_results"]
        BY <2>11, <3>2 DEF Tables
      <4>2. tx[w].job.kind = "result" => tx[w].step > 1
        BY <2>2, <2>3, <3>2
      <4> QED
        BY <2>2, <4>1, <4>2 DEF SentInv
    <3> QED
      BY <3>1, <3>2
  <2>16. s.step > 2 => tx[w].step = 2
    BY <2>2, <2>11
  <2>17. SentInv(w)'
    BY <2>9, <2>11, <2>14, <2>15, <2>16 DEF SentInv
  <2> QED
    BY <1>1, <2>9, <2>12, <2>17, StampsWriter
<1> QED
  BY <1>2, <1>3

(* What a commit leaves in a column.                                       *)
LEMMA CommittedColumn ==
    ASSUME NEW t \in Tables, NEW row \in RowsOf(t), NEW changes, NEW c \in Columns(t),
           NEW after,
           after = IF DOMAIN changes = {} THEN row ELSE Changed(row, changes)
    PROVE  after[c] = IF c \in DOMAIN changes THEN changes[c] ELSE row[c]
<1>1. row # NoRow /\ c \in DOMAIN row
  BY RowsAreRows DEF RowsOf
<1>2. CASE DOMAIN changes = {}
  BY <1>2
<1>3. CASE DOMAIN changes # {}
  BY <1>1, <1>3 DEF Changed
<1> QED
  BY <1>2, <1>3

(* The session that commits is now the last of those that set its fields.  *)
LEMMA LastSetterStep ==
    ASSUME HistoryInv, NEW w \in Writers, tx[w].pc # "committed",
           commits' = Append(commits, w), tx'[w].job = tx[w].job,
           \A v \in Writers \ {w} : tx'[v] = tx[v],
           NEW f, NEW value, LastSetIs(f, value)
    PROVE  /\ f \in tx[w].job.stamps => LastSetIs(f, w)'
           /\ f \notin tx[w].job.stamps => LastSetIs(f, value)'
<1> DEFINE n == Len(commits)
<1>1. /\ commits \in Seq(Writers) /\ n \in Nat /\ DOMAIN commits = 1..n
      /\ DOMAIN commits' = 1..(n + 1) /\ commits'[n + 1] = w
      /\ \A k \in 1..n : commits'[k] = commits[k] /\ commits[k] \in Writers
  BY DEF HistoryInv
<1>2. \A k \in 1..n : tx'[commits'[k]] = tx[commits[k]]
  BY <1>1 DEF HistoryInv
<1> HIDE DEF n
<1>3. Setters(f)' = Setters(f) \cup (IF f \in tx[w].job.stamps THEN {n + 1} ELSE {})
  <2>1. Setters(f) = {k \in 1..n : f \in tx[commits[k]].job.stamps}
    BY <1>1 DEF Setters
  <2>2. Setters(f)' = {k \in 1..(n + 1) : f \in tx'[commits'[k]].job.stamps}
    BY <1>1 DEF Setters
  <2>3. \A k \in 1..(n + 1) : k \in 1..n \/ k = n + 1
    BY <1>1
  <2>4. \A k \in 1..n : k \in 1..(n + 1) /\ k # n + 1
    BY <1>1
  <2>5. n + 1 \in 1..(n + 1)
    BY <1>1
  <2>6. f \in tx'[commits'[n + 1]].job.stamps <=> f \in tx[w].job.stamps
    BY <1>1
  <2>7. \A k : k \in Setters(f)' <=> k \in Setters(f) \/ (k = n + 1 /\ f \in tx[w].job.stamps)
    BY <1>2, <2>1, <2>2, <2>3, <2>4, <2>5, <2>6
  <2> QED
    BY <2>7
<1>4. Setters(f) \subseteq 1..n
  BY <1>1 DEF Setters
<1>5. CASE f \in tx[w].job.stamps
  <2>1. \A j \in Setters(f)' : j <= n + 1
    BY <1>1, <1>3, <1>4
  <2>2. n + 1 \in Setters(f)' /\ w = commits'[n + 1]
    BY <1>1, <1>3, <1>5
  <2> QED
    BY <1>5, <2>1, <2>2 DEF LastSetIs
<1>6. CASE f \notin tx[w].job.stamps
  <2>1. Setters(f)' = Setters(f)
    BY <1>3, <1>6
  <2>2. \A k \in Setters(f) : commits'[k] = commits[k]
    BY <1>1, <1>4
  <2> QED
    BY <1>6, <2>1, <2>2 DEF LastSetIs
<1> QED
  BY <1>5, <1>6

LEMMA StampsCommit ==
    ASSUME StorageInv, StampsInv, NEW w \in Writers, Commit(w)
    PROVE  StampsInv'
<1> DEFINE M == "task_metadata"
           R == "task_results"
           times == tx[w].changes[M]
           result == tx[w].changes[R]
           stamps == tx[w].job.stamps
<1>1. /\ tx[w].pc = "reading" /\ tx[w].step > Len(Plan(tx[w].job))
      /\ rows' = [t \in Tables |-> IF t \in Touched(w) THEN Changed(rows[t], tx[w].changes[t])
                                   ELSE rows[t]]
      /\ tx' = [tx EXCEPT ![w].pc = "committed", ![w].changes = Unchanged]
      /\ commits' = Append(commits, w)
  BY DEF Commit
<1>2. /\ SessionInv(w) /\ SentInv(w) /\ tx[w].job \in Jobs /\ rows["tasks"] # NoRow
  <2>1. Open(w)
    BY <1>1 DEF Open
  <2> QED
    BY <2>1 DEF StorageInv, StampsInv, SessionInv
<1>3. /\ tx[w].step > 1 /\ (stamps # {} => tx[w].step > 2)
      /\ stamps \subseteq TimeFields
      /\ tx[w].job.kind = "status" => stamps \subseteq {"updated_at"}
      /\ tx[w].job.kind = "result" => stamps \subseteq {"finished_at"}
      /\ tx[w].job.kind \in {"status", "result"}
  <2>1. tx[w].step \in Nat
    BY DEF StorageInv, TypeOK
  <2>2. Len(Plan(tx[w].job)) = IF stamps = {} THEN 1 ELSE 2
    BY <1>2, PlanShape
  <2>3. tx[w].step > 1 /\ (stamps # {} => tx[w].step > 2)
    BY <1>1, <2>1, <2>2
  <2> QED
    BY <1>2, <2>3, PlanShape DEF TimeFields
<1>4. tx'[w].pc = "committed" /\ tx'[w].job = tx[w].job /\ \A v \in Writers \ {w} : tx'[v] = tx[v]
  <2>1. tx[w] \in [pc : SessionStages, job : Jobs \cup {NoJob}, step : Nat,
                   seen : [Tables -> AnyRow], changes : [Tables -> AnyChanges]]
        /\ w \in DOMAIN tx
    BY DEF StorageInv, TypeOK
  <2> QED
    BY <1>1, <2>1 DEF StorageInv, TypeOK
<1>5. ASSUME NEW t \in Tables
      PROVE  rows'[t] = IF DOMAIN tx[w].changes[t] = {} THEN rows[t]
                        ELSE Changed(rows[t], tx[w].changes[t])
  BY <1>1, <1>5 DEF Touched
<1>6. DOMAIN times = stamps /\ \A f \in stamps : times[f] = w
  BY <1>2, <1>3 DEF SentInv
<1>7. /\ "finished_at" \in DOMAIN result =>
            tx[w].job.kind = "result" /\ result.finished_at = IF stamps = {} THEN None ELSE w
      /\ tx[w].job.kind = "result" /\ stamps # {} => "finished_at" \in DOMAIN result
  BY <1>2, <1>3 DEF SentInv
<1>8. /\ rows[M] \in RowsOf(M) /\ rows[R] \in RowsOf(R) \cup {NoRow}
      /\ M \in Tables /\ R \in Tables /\ "tasks" \in Tables
  BY <1>2 DEF StorageInv, RowsInv, Tables
<1>9. \A c \in Columns(M) : rows'[M][c] = IF c \in stamps THEN w ELSE rows[M][c]
  BY <1>5, <1>6, <1>8, CommittedColumn
<1>10. rows'["tasks"] # NoRow
  <2>1. DOMAIN tx[w].changes["tasks"] # {} => rows'["tasks"] \in RowsOf("tasks")
    <3>1. rows["tasks"] \in RowsOf("tasks") \cup {NoRow}
          /\ tx[w].changes["tasks"] \in ChangesOf("tasks")
      BY <1>1, <1>2, <1>8 DEF StorageInv, RowsInv, SessionInv, Open
    <3> QED
      BY <1>2, <1>5, <1>8, <3>1, ChangedIsRow
  <2> QED
    BY <1>2, <1>5, <1>8, <2>1, RowsAreRows
<1>11. HistoryInv'
  <2>1. commits \in Seq(Writers) /\ \A k \in DOMAIN commits : tx[commits[k]].pc = "committed"
    BY DEF StampsInv, HistoryInv
  <2>2. \A k \in DOMAIN commits' :
           (k \in DOMAIN commits /\ commits'[k] = commits[k]) \/ commits'[k] = w
    BY <1>1, <2>1
  <2>3. \A k \in DOMAIN commits : commits[k] \in Writers \ {w}
    BY <1>1, <2>1
  <2>4. \A k \in DOMAIN commits : tx'[commits[k]].pc = "committed"
    BY <1>4, <2>1, <2>3
  <2>5. \A k \in DOMAIN commits' : tx'[commits'[k]].pc = "committed"
    BY <1>4, <2>2, <2>4
  <2>6. commits' \in Seq(Writers)
    BY <1>1, <2>1
  <2> QED
    BY <2>5, <2>6, <1>10 DEF HistoryInv
<1>12. rows'[M].created_at # None /\ \A f \in TimeFields : LastSetIs(f, rows[M][f])'
  <2>1. rows[M].created_at # None /\ \A f \in TimeFields : LastSetIs(f, rows[M][f])
    BY <1>2 DEF StampsInv, StampRowsInv
  <2>2. TimeFields \subseteq Columns(M) /\ "created_at" \in Columns(M)
        /\ "created_at" \notin TimeFields
    BY ColumnNames DEF TimeFields
  <2>3. rows'[M].created_at # None
    BY <1>3, <1>9, <2>1, <2>2
  <2>4. ASSUME NEW f \in TimeFields, NEW before, before = rows[M][f], NEW value, value = rows'[M][f]
        PROVE  LastSetIs(f, value)'
    <3>1. value = IF f \in stamps THEN w ELSE before
      BY <1>9, <2>2, <2>4
    <3>2. LastSetIs(f, before) /\ HistoryInv /\ tx[w].pc # "committed"
      BY <1>1, <2>1, <2>4 DEF StampsInv
    <3>3. /\ f \in stamps => LastSetIs(f, w)'
          /\ f \notin stamps => LastSetIs(f, before)'
      BY <1>1, <1>4, <3>2, LastSetterStep
    <3>4. CASE f \in stamps
      BY <3>1, <3>3, <3>4 DEF LastSetIs
    <3>5. CASE f \notin stamps
      BY <3>1, <3>3, <3>5 DEF LastSetIs
    <3> QED
      BY <3>4, <3>5
  <2>5. \A f \in TimeFields : LastSetIs(f, rows[M][f])'
    <3> SUFFICES ASSUME NEW f \in TimeFields PROVE LastSetIs(f, rows[M][f])'
      OBVIOUS
    <3>1. \A value : value = rows'[M][f] => LastSetIs(f, value)'
      BY <2>4
    <3> QED
      BY <3>1 DEF LastSetIs
  <2> QED
    BY <2>3, <2>5
<1>13. ASSUME rows'[R] # NoRow, rows'[R].finished_at # None
       PROVE  rows'[R].finished_at = rows'[M].finished_at
  <2>1. "finished_at" \in Columns(M) /\ "finished_at" \in Columns(R)
    BY ColumnNames
  <2>2. CASE "finished_at" \in DOMAIN result
    <3>1. rows'[R].finished_at = result.finished_at
      <4>1. CASE rows[R] = NoRow
        BY <1>5, <1>8, <2>2, <4>1 DEF Changed
      <4>2. CASE rows[R] # NoRow
        BY <1>5, <1>8, <2>1, <2>2, <4>2, CommittedColumn
      <4> QED
        BY <4>1, <4>2
    <3>2. stamps # {} /\ result.finished_at = w /\ tx[w].job.kind = "result"
      BY <1>7, <1>13, <2>2, <3>1
    <3>3. "finished_at" \in stamps
      BY <1>3, <3>2
    <3> QED
      BY <1>9, <2>1, <3>1, <3>2, <3>3
  <2>3. CASE "finished_at" \notin DOMAIN result
    <3>1. rows[R] # NoRow
      <4>1. DOMAIN result = {} \/ rows[R] # NoRow \/ DOMAIN result = Columns(R)
        BY <1>1, <1>2, <1>8 DEF SessionInv, Open
      <4> QED
        BY <1>5, <1>8, <1>13, <2>1, <2>3, <4>1
    <3>2. rows'[R].finished_at = rows[R].finished_at
      BY <1>5, <1>8, <2>1, <2>3, <3>1, CommittedColumn
    <3>3. "finished_at" \notin stamps
      BY <1>3, <1>7, <2>3
    <3>4. rows'[M].finished_at = rows[M].finished_at
      BY <1>9, <2>1, <3>3
    <3> QED
      BY <1>13, <3>1, <3>2, <3>4 DEF StampsInv, StampRowsInv
  <2> QED
    BY <2>2, <2>3
<1>14. \A v \in Writers : Open(v)' => SeenInv(v)' /\ SentInv(v)'
  <2>1. ~Open(w)'
    BY <1>4 DEF Open
  <2>2. ASSUME NEW v \in Writers \ {w}, Open(v)' PROVE SeenInv(v)' /\ SentInv(v)'
    BY <1>4, <2>2 DEF StampsInv, Open, SeenInv, SentInv
  <2> QED
    BY <2>1, <2>2
<1>15. StampRowsInv'
  BY <1>2, <1>8, <1>10, <1>12, <1>13 DEF StampRowsInv
<1> QED
  BY <1>14, <1>15, <1>11 DEF StampsInv

LEMMA StampsCreate == StorageInv /\ StampsInv /\ CreateTask => StampsInv'
<1> SUFFICES ASSUME StorageInv, StampsInv, CreateTask PROVE StampsInv'
  OBVIOUS
<1>1. /\ rows = Unread /\ rows["tasks"] = NoRow /\ rows' = Task(CreatedStatus)
      /\ UNCHANGED <<tx, commits>>
  BY DEF CreateTask, Unread, Tables
<1>2. rows'["task_metadata"] = NewMetadata /\ rows'["task_results"] = NoRow
  BY <1>1 DEF Task, Unread, Tables
<1>3. commits = <<>> /\ commits' = <<>> /\ HistoryInv
  BY <1>1 DEF StampsInv, HistoryInv
<1>4. HistoryInv'
  BY <1>1, <1>3 DEF HistoryInv
<1>5. \A f : Setters(f)' = {}
  BY <1>3 DEF Setters
<1>6. StampRowsInv'
  BY <1>2, <1>5 DEF StampRowsInv, NewMetadata, TimeFields, LastSetIs, None
<1>7. \A w \in Writers : Open(w)' => SeenInv(w)' /\ SentInv(w)'
  BY <1>1 DEF StampsInv, Open, SeenInv, SentInv
<1> QED
  BY <1>4, <1>6, <1>7 DEF StampsInv

LEMMA StampsStep == StorageInv /\ StampsInv /\ [Next]_vars => StampsInv'
<1> SUFFICES ASSUME StorageInv, StampsInv, [Next]_vars PROVE StampsInv'
  OBVIOUS
<1>1. CASE CreateTask
  BY <1>1, StampsCreate
<1>2. ASSUME NEW w \in Writers, NEW job \in Jobs, Begin(w, job) PROVE StampsInv'
  BY <1>2, StampsBegin
<1>3. ASSUME NEW w \in Writers, Read(w) PROVE StampsInv'
  BY <1>3, StampsRead
<1>4. ASSUME NEW w \in Writers, Flush(w) PROVE StampsInv'
  BY <1>4, StampsFlush
<1>5. ASSUME NEW w \in Writers, Commit(w) PROVE StampsInv'
  BY <1>5, StampsCommit
<1>6. ASSUME NEW w \in Writers, Abort(w) PROVE StampsInv'
  BY <1>6, StampsRolledBack DEF Abort, Open
<1>7. CASE UNCHANGED <<rows, tx, commits>>
  BY <1>7, StampsFrame DEF Open
<1>8. ASSUME NEW r \in Readers,
             (\E table \in Tables : Select(r, table)) \/ \E call, user : Find(r, call, user)
      PROVE  StampsInv'
  BY <1>7, <1>8 DEF Select, Find
<1>9. CASE UNCHANGED vars
  BY <1>7, <1>9 DEF vars
<1> QED
  BY <1>1, <1>2, <1>3, <1>4, <1>5, <1>6, <1>8, <1>9 DEF Next

(* Sessions write the time stamps of the metadata field by field, from     *)
(* rows they read before others committed, and none is lost: each field is *)
(* that of the last session that set it, and a result and its task give    *)
(* the same time of its end.                                               *)
THEOREM StampsKept == Spec => []StampsSurvive
<1>1. StampsInv => StampsSurvive
  <2> SUFFICES ASSUME StampsInv, rows["tasks"] # NoRow PROVE StampsSurvive
    BY DEF StampsSurvive
  <2>1. HistoryInv /\ StampRowsInv /\ DOMAIN commits \subseteq Nat
    BY DEF StampsInv, HistoryInv
  <2>2. ASSUME NEW f \in TimeFields
        PROVE  rows["task_metadata"][f] =
                  IF Setters(f) = {} THEN None
                  ELSE commits[CHOOSE k \in Setters(f) : \A j \in Setters(f) : j <= k]
    <3>1. LastSetIs(f, rows["task_metadata"][f])
      BY <2>1 DEF StampRowsInv
    <3>2. Setters(f) \subseteq Nat
      BY <2>1 DEF Setters
    <3>3. CASE Setters(f) = {}
      BY <3>1, <3>3 DEF LastSetIs
    <3>4. CASE Setters(f) # {}
      <4>1. PICK k \in Setters(f) :
                rows["task_metadata"][f] = commits[k] /\ \A j \in Setters(f) : j <= k
        BY <3>1, <3>4 DEF LastSetIs
      <4> DEFINE last == CHOOSE i \in Setters(f) : \A j \in Setters(f) : j <= i
      <4>2. last \in Setters(f) /\ \A j \in Setters(f) : j <= last
        BY <4>1
      <4>3. last = k
        <5> HIDE DEF last
        <5> QED
          BY <3>2, <4>1, <4>2
      <4> QED
        BY <3>4, <4>1, <4>3
    <3> QED
      BY <3>3, <3>4
  <2>3. /\ rows["task_metadata"].created_at # None
        /\ rows["task_results"] # NoRow /\ rows["task_results"].finished_at # None =>
              rows["task_results"].finished_at = rows["task_metadata"].finished_at
    BY <2>1 DEF StampRowsInv
  <2> QED
    BY <2>2, <2>3 DEF StampsSurvive, Setters, TimeFields
<1> QED
  BY StampsInit, StampsStep, StorageInvariant, <1>1, PTL DEF Spec
=============================================================================
