------------------------ MODULE NaiveComputePi_proofs ------------------------
(***************************************************************************)
(* Proofs about NaiveComputePi, for any sets of requests and clients, any  *)
(* length and any number of faults.  The inductive invariant:              *)
(*   TypeInv  types                                                        *)
(*   RowInv   what holds however often the task is created                 *)
(*   GoneInv  a row is gone because a client had all of it                 *)
(*   OnceInv  what holds when the task was created once only               *)
(***************************************************************************)
EXTENDS NaiveComputePi, TLAPS

TypeInv ==
    /\ row \in Rows
    /\ post \in [Posters -> {"new", "found", "checked", "created", "failed"}]
    /\ demo \in BOOLEAN
    /\ worker \in [at : {"idle", "running", "down"}, k : Nat]
    /\ pc \in [Clients -> {"polling", "fetching", "deleting", "stopped"}]
    /\ status \in [Clients -> Statuses \cup {"IDLE"}]
    /\ seen \in [Clients -> Nat]
    /\ reply \in [Clients -> Nat]
    /\ result \in [Clients -> Nat]
    /\ faults \in Nat

(* Before the first INSERT there is nothing to claim or to ask for.        *)
Unborn == \A p \in Posters : post[p] # "created"

(* What the row, the worker and the clients know of one another, however   *)
(* often the task is created: `result` only grows under the worker, a row  *)
(* that is done is complete, and so is what a deleting request answers.    *)
RowInv ==
    /\ row.sent <= Length /\ worker.k <= Length
    /\ row.status \in {"QUEUED", "absent"} => row.sent = 0
    /\ worker.at = "running" => row.sent <= worker.k
    /\ row.done <=> row.status = "COMPLETED"
    /\ row.done => row.sent = Length
    /\ \A c \in Clients : result[c] <= Length /\ (pc[c] = "deleting" => reply[c] = Length)
    /\ Unborn =>
          /\ ~Exists /\ worker.at # "running" /\ \A p \in Posters : post[p] # "found"
          /\ \A c \in Clients : pc[c] = "polling" /\ seen[c] = 0 /\ result[c] = 0

(* A row is gone because a client fetched all of it and stopped.           *)
GoneInv ==
    faults = 0 =>
        Unborn \/ Exists \/ \E c \in Clients : pc[c] = "stopped" /\ result[c] = Length

(* When the task was created once only, the row a request is about to      *)
(* delete is not the worker's, and clients lag behind the row.             *)
OnceInv ==
    ~CreatedAgain =>
        /\ worker.at = "running" => row.status = "RUNNING"
        /\ \A c \in Clients :
              /\ pc[c] = "deleting" => row.status \in {"COMPLETED", "absent"}
              /\ Exists => result[c] <= row.sent
              /\ faults = 0 /\ pc[c] = "polling" => seen[c] <= result[c]
              /\ faults = 0 /\ pc[c] = "fetching" /\ Exists => seen[c] <= row.sent

-----------------------------------------------------------------------------
LEMMA TypeInit == Init => TypeInv
BY DEF Init, TypeInv, Rows, Absent, Statuses

LEMMA TypeStep == TypeInv /\ [Next]_vars => TypeInv'
<1> SUFFICES ASSUME TypeInv, [Next]_vars PROVE TypeInv'
  OBVIOUS
<1> USE DEF TypeInv, clientVars
<1>1. \A s \in Statuses, done \in BOOLEAN : \A x, y, z \in Nat : Row(s, x, y, z, done) \in Rows
  BY DEF Row, Rows
<1>2. Absent \in Rows /\ Digits \in Nat /\ Length \in Nat
  BY DigitsAssumption DEF Absent, Rows, Statuses
<1>3. ASSUME NEW written \in Rows, UpdateProgress(written) PROVE row' \in Rows
  BY <1>3 DEF UpdateProgress
<1>4. ASSUME NEW p \in Posters, CheckTask(p) PROVE TypeInv'
  BY <1>4 DEF CheckTask
<1>5. ASSUME NEW p \in Posters, CreateTask(p) PROVE TypeInv'
  <2>1. Row("QUEUED", 0, Digits, 0, FALSE) \in Rows
    BY <1>1, <1>2 DEF Statuses
  <2>2. row' \in Rows /\ post' \in [Posters -> {"new", "found", "checked", "created", "failed"}]
    BY <1>5, <2>1 DEF CreateTask
  <2> QED
    BY <1>5, <2>2 DEF CreateTask
<1>6. ASSUME ClaimNextTask PROVE TypeInv'
  BY <1>6 DEF ClaimNextTask, Rows, Statuses
<1>7. ASSUME AppendDigit PROVE TypeInv'
  <2>1. Row("RUNNING", worker.k + 2, Length, worker.k + 1, FALSE) \in Rows
    <3>1. worker.k + 2 \in Nat /\ worker.k + 1 \in Nat /\ "RUNNING" \in Statuses
      BY DEF Statuses
    <3> QED
      BY <1>1, <1>2, <3>1
  <2>2. row' \in Rows
    BY <1>3, <1>7, <2>1 DEF AppendDigit
  <2>3. worker' \in [at : {"idle", "running", "down"}, k : Nat]
    BY <1>7 DEF AppendDigit
  <2> QED
    BY <1>7, <2>2, <2>3 DEF AppendDigit
<1>8. ASSUME Complete PROVE TypeInv'
  <2>1. Row("COMPLETED", Length, Length, Length, TRUE) \in Rows
    BY <1>1, <1>2 DEF Statuses
  <2>2. row' \in Rows
    BY <1>3, <1>8, <2>1 DEF Complete, Ends
  <2> QED
    BY <1>8, <2>2 DEF Complete, Ends
<1>9. ASSUME WorkerEnds PROVE TypeInv'
  BY <1>9 DEF WorkerEnds, Fault
<1>10. ASSUME NEW c \in Clients, NEW answered \in BOOLEAN, CheckProgress(c, answered)
       PROVE  TypeInv'
  <2>1. status' \in [Clients -> Statuses \cup {"IDLE"}] /\ seen' \in [Clients -> Nat]
    BY <1>10 DEF CheckProgress, DigitsSent, Rows
  <2>2. pc' \in [Clients -> {"polling", "fetching", "deleting", "stopped"}]
    BY <1>10 DEF CheckProgress
  <2>3. faults' \in Nat
    BY <1>10 DEF CheckProgress, Fault
  <2> QED
    BY <1>10, <2>1, <2>2, <2>3 DEF CheckProgress
<1>11. ASSUME NEW c \in Clients, NEW answered \in BOOLEAN, TaskResult(c, answered)
       PROVE  TypeInv'
  <2>1. row.sent \in Nat
    BY DEF Rows
  <2>2. reply' \in [Clients -> Nat] /\ result' \in [Clients -> Nat]
    BY <1>11, <2>1 DEF TaskResult
  <2>3. pc' \in [Clients -> {"polling", "fetching", "deleting", "stopped"}]
    BY <1>11 DEF TaskResult
  <2>4. faults' \in Nat
    BY <1>11 DEF TaskResult, Fault
  <2> QED
    BY <1>11, <2>2, <2>3, <2>4 DEF TaskResult
<1>12. ASSUME NEW c \in Clients, NEW answered \in BOOLEAN, DeleteTask(c, answered)
       PROVE  TypeInv'
  <2>1. row' \in Rows
    BY <1>2, <1>12 DEF DeleteTask
  <2>2. reply' \in [Clients -> Nat] /\ result' \in [Clients -> Nat]
    BY <1>12 DEF DeleteTask
  <2>3. pc' \in [Clients -> {"polling", "fetching", "deleting", "stopped"}]
    BY <1>12 DEF DeleteTask
  <2>4. faults' \in Nat
    BY <1>12 DEF DeleteTask, Fault
  <2> QED
    BY <1>12, <2>1, <2>2, <2>3, <2>4 DEF DeleteTask
<1>13. ASSUME UNCHANGED vars PROVE TypeInv'
  BY <1>13 DEF vars
<1> QED
  BY <1>4, <1>5, <1>6, <1>7, <1>8, <1>9, <1>10, <1>11, <1>12, <1>13 DEF Next

-----------------------------------------------------------------------------
ClientStep(c) ==
    \E answered \in BOOLEAN :
        CheckProgress(c, answered) \/ TaskResult(c, answered) \/ DeleteTask(c, answered)

(* A client's step touches no other client, and needs a task to ask for.   *)
LEMMA ClientFrame ==
    ASSUME TypeInv, RowInv, NEW c \in Clients, ClientStep(c)
    PROVE  /\ \A d \in Clients \ {c} :
                 /\ pc'[d] = pc[d] /\ seen'[d] = seen[d]
                 /\ reply'[d] = reply[d] /\ result'[d] = result[d]
           /\ UNCHANGED <<post, demo, worker>>
           /\ row' = row \/ row' = Absent
           /\ ~Unborn
<1>1. /\ pc' = [pc EXCEPT ![c] = pc'[c]]
      /\ seen' = [seen EXCEPT ![c] = seen'[c]]
      /\ reply' = [reply EXCEPT ![c] = reply'[c]]
      /\ result' = [result EXCEPT ![c] = result'[c]]
  BY DEF ClientStep, CheckProgress, TaskResult, DeleteTask, TypeInv
<1>2. UNCHANGED <<post, demo, worker>> /\ (row' = row \/ row' = Absent)
  BY DEF ClientStep, CheckProgress, TaskResult, DeleteTask
<1>3. ~Unborn
  BY DEF ClientStep, CheckProgress, TaskResult, DeleteTask, RowInv, Unborn, Answered
<1>4. \A d \in Clients \ {c} :
         /\ pc'[d] = pc[d] /\ seen'[d] = seen[d]
         /\ reply'[d] = reply[d] /\ result'[d] = result[d]
  BY <1>1 DEF TypeInv
<1> QED
  BY <1>2, <1>3, <1>4

LEMMA RowInit == Init => RowInv
BY DigitsAssumption DEF Init, RowInv, Absent, Exists, Unborn

LEMMA RowStep == TypeInv /\ RowInv /\ [Next]_vars => RowInv'
<1> SUFFICES ASSUME TypeInv, RowInv, [Next]_vars PROVE RowInv'
  OBVIOUS
<1> DEFINE TheRow == /\ row.sent <= Length /\ worker.k <= Length
                     /\ row.status \in {"QUEUED", "absent"} => row.sent = 0
                     /\ worker.at = "running" => row.sent <= worker.k
                     /\ row.done <=> row.status = "COMPLETED"
                     /\ row.done => row.sent = Length
           Client(c) == result[c] <= Length /\ (pc[c] = "deleting" => reply[c] = Length)
           Nothing == /\ ~Exists /\ worker.at # "running" /\ \A p \in Posters : post[p] # "found"
                      /\ \A c \in Clients : pc[c] = "polling" /\ seen[c] = 0 /\ result[c] = 0
<1>1. TheRow /\ (\A c \in Clients : Client(c)) /\ (Unborn => Nothing)
  BY DEF RowInv
<1>2. TheRow' /\ (\A c \in Clients : Client(c)') /\ (Unborn' => Nothing') => RowInv'
  BY DEF RowInv
<1>3. /\ row.sent \in Nat /\ worker.k \in Nat /\ Length \in Nat
      /\ \A c \in Clients : result[c] \in Nat /\ reply[c] \in Nat
  BY DigitsAssumption DEF TypeInv, Rows
<1>4. ASSUME UNCHANGED clientVars PROVE \A c \in Clients : Client(c)'
  BY <1>1, <1>4 DEF clientVars
<1>5. ASSUME UNCHANGED <<row, worker>> PROVE TheRow'
  BY <1>1, <1>5
<1>6. ASSUME UNCHANGED <<row, post, worker, clientVars>> PROVE Nothing => Nothing'
  BY <1>6 DEF Exists, clientVars
<1>7. ASSUME post' = post PROVE Unborn' <=> Unborn
  BY <1>7 DEF Unborn
<1>8. ASSUME NEW p \in Posters, CheckTask(p) PROVE RowInv'
  <2>1. Unborn' => Unborn
    BY <1>8 DEF CheckTask, Unborn, TypeInv
  <2>2. Nothing => Nothing'
    BY <1>8 DEF CheckTask, Exists, TypeInv, clientVars
  <2> QED
    BY <1>1, <1>2, <1>4, <1>5, <1>8, <2>1, <2>2 DEF CheckTask
<1>9. ASSUME NEW p \in Posters, CreateTask(p) PROVE RowInv'
  <2>1. CASE Exists
    <3>1. UNCHANGED <<row, worker, clientVars>>
      BY <1>9, <2>1 DEF CreateTask
    <3>2. ~Unborn'
      <4>1. PICK q \in Posters : post[q] = "created"
        BY <1>1, <2>1 DEF Unborn
      <4>2. post'[q] = "created"
        BY <1>9, <4>1 DEF CreateTask, TypeInv
      <4> QED
        BY <4>2 DEF Unborn
    <3> QED
      BY <1>2, <1>4, <1>5, <3>1, <3>2
  <2>2. CASE ~Exists
    <3>1. /\ row' = Row("QUEUED", 0, Digits, 0, FALSE) /\ UNCHANGED <<worker, clientVars>>
          /\ post'[p] = "created"
      BY <1>9, <2>2 DEF CreateTask, TypeInv
    <3>2. row'.status = "QUEUED" /\ row'.sent = 0 /\ row'.done = FALSE
      BY <3>1 DEF Row
    <3>3. ~Unborn'
      BY <3>1 DEF Unborn
    <3>4. UNCHANGED <<worker, clientVars>>
      BY <3>1
    <3>5. TheRow'
      BY <1>1, <1>3, <3>2, <3>4
    <3> QED
      BY <1>2, <1>4, <3>3, <3>4, <3>5
  <2> QED
    BY <2>1, <2>2
<1>10. ASSUME ClaimNextTask PROVE RowInv'
  <2>1. /\ row'.status = "RUNNING" /\ row'.sent = row.sent /\ row'.done = row.done
        /\ worker'.at = "running" /\ worker'.k = 0 /\ UNCHANGED <<post, clientVars>>
        /\ row.status = "QUEUED"
    BY <1>10 DEF ClaimNextTask, TypeInv, Rows
  <2>2. TheRow'
    BY <1>1, <1>3, <2>1
  <2>3. ~Unborn
    BY <1>1, <2>1 DEF Exists
  <2> QED
    BY <1>2, <1>4, <1>7, <2>1, <2>2, <2>3
<1>11. ASSUME AppendDigit PROVE RowInv'
  <2>1. /\ worker'.at = "running" /\ worker'.k = worker.k + 1 /\ worker.k < Length
        /\ worker.at = "running" /\ UNCHANGED <<post, clientVars>>
        /\ row' = IF Exists THEN Row("RUNNING", worker.k + 2, Length, worker.k + 1, FALSE) ELSE row
    BY <1>11 DEF AppendDigit, UpdateProgress, TypeInv
  <2>2. TheRow'
    <3>1. CASE Exists
      BY <1>1, <1>3, <2>1, <3>1 DEF Row
    <3>2. CASE ~Exists
      BY <1>1, <1>3, <2>1, <3>2
    <3> QED
      BY <3>1, <3>2
  <2> QED
    BY <1>1, <1>2, <1>4, <1>7, <2>1, <2>2
<1>12. ASSUME Complete PROVE RowInv'
  <2>1. /\ worker'.at = "idle" /\ worker'.k = 0
        /\ worker.at = "running" /\ UNCHANGED <<post, clientVars>>
        /\ row' = IF Exists THEN Row("COMPLETED", Length, Length, Length, TRUE) ELSE row
    BY <1>12 DEF Complete, Ends, UpdateProgress, TypeInv
  <2>2. TheRow'
    <3>1. CASE Exists
      BY <1>1, <1>3, <2>1, <3>1 DEF Row
    <3>2. CASE ~Exists
      BY <1>1, <1>3, <2>1, <3>2
    <3> QED
      BY <3>1, <3>2
  <2> QED
    BY <1>1, <1>2, <1>4, <1>7, <2>1, <2>2
<1>13. ASSUME WorkerEnds PROVE RowInv'
  <2>1. worker'.at = "down" /\ worker'.k = 0 /\ UNCHANGED <<row, post, clientVars>>
    BY <1>13 DEF WorkerEnds, clientVars
  <2>2. TheRow'
    BY <1>1, <1>3, <2>1
  <2>3. Nothing => Nothing'
    BY <2>1 DEF Exists, clientVars
  <2> QED
    BY <1>1, <1>2, <1>4, <1>7, <2>1, <2>2, <2>3
<1>14. ASSUME NEW c \in Clients, ClientStep(c) PROVE RowInv'
  <2>1. /\ \A d \in Clients \ {c} :
              pc'[d] = pc[d] /\ reply'[d] = reply[d] /\ result'[d] = result[d]
        /\ worker' = worker /\ post' = post
        /\ row' = row \/ row' = Absent
        /\ ~Unborn
    BY <1>14, ClientFrame
  <2>2. TheRow'
    BY <1>1, <1>3, <2>1 DEF Absent
  <2>3. Client(c)'
    <3>1. ASSUME NEW answered \in BOOLEAN, CheckProgress(c, answered) PROVE Client(c)'
      BY <1>1, <3>1 DEF CheckProgress, TypeInv
    <3>2. ASSUME NEW answered \in BOOLEAN, TaskResult(c, answered) PROVE Client(c)'
      <4>1. /\ result'[c] \in {result[c], row.sent}
            /\ pc'[c] = "deleting" => row.done /\ reply'[c] = row.sent
        BY <3>2 DEF TaskResult, TypeInv, Deletable
      <4> QED
        BY <1>1, <4>1
    <3>3. ASSUME NEW answered \in BOOLEAN, DeleteTask(c, answered) PROVE Client(c)'
      <4>1. result'[c] \in {result[c], reply[c]} /\ pc[c] = "deleting" /\ pc'[c] # "deleting"
        BY <3>3 DEF DeleteTask, TypeInv
      <4> QED
        BY <1>1, <1>3, <4>1
    <3> QED
      BY <1>14, <3>1, <3>2, <3>3 DEF ClientStep
  <2>4. \A d \in Clients : Client(d)'
    BY <1>1, <2>1, <2>3
  <2> QED
    BY <1>2, <1>7, <2>1, <2>2, <2>4
<1>15. ASSUME UNCHANGED vars PROVE RowInv'
  BY <1>1, <1>2, <1>4, <1>5, <1>6, <1>7, <1>15 DEF vars
<1> QED
  BY <1>8, <1>9, <1>10, <1>11, <1>12, <1>13, <1>14, <1>15 DEF Next, ClientStep

-----------------------------------------------------------------------------
LEMMA GoneInit == Init => GoneInv
BY DEF Init, GoneInv, Unborn

(* Only a request that answers with the whole result deletes the row.      *)
LEMMA GoneStep == TypeInv /\ RowInv /\ GoneInv /\ [Next]_vars => GoneInv'
<1> SUFFICES ASSUME TypeInv, RowInv, GoneInv, [Next]_vars, faults' = 0
             PROVE  \/ Unborn' \/ Exists'
                    \/ \E c \in Clients : pc'[c] = "stopped" /\ result'[c] = Length
  BY DEF GoneInv
<1> DEFINE Had(c) == pc[c] = "stopped" /\ result[c] = Length
           Goal == Unborn' \/ Exists' \/ \E c \in Clients : pc'[c] = "stopped" /\ result'[c] = Length
<1>1. faults \in Nat
  BY DEF TypeInv
<1>2. ASSUME faults = 0 PROVE Unborn \/ Exists \/ \E c \in Clients : Had(c)
  BY <1>2 DEF GoneInv
<1>3. ASSUME faults = 0, post' = post \/ Exists', Exists => Exists', UNCHANGED clientVars
      PROVE  Goal
  BY <1>2, <1>3 DEF Unborn, clientVars
<1>4. ASSUME NEW p \in Posters, CheckTask(p) PROVE Goal
  <2>1. faults' = faults /\ UNCHANGED clientVars /\ row' = row
    BY <1>4 DEF CheckTask
  <2>2. Unborn => Unborn'
    BY <1>4 DEF CheckTask, Unborn, TypeInv
  <2> QED
    BY <1>2, <2>1, <2>2 DEF Exists, clientVars
<1>5. ASSUME NEW p \in Posters, CreateTask(p) PROVE Goal
  <2>1. Exists'
    BY <1>5 DEF CreateTask, Exists, Row
  <2> QED
    BY <2>1
<1>6. ASSUME ClaimNextTask \/ AppendDigit \/ Complete PROVE Goal
  <2>1. Exists => Exists'
    BY <1>6 DEF ClaimNextTask, AppendDigit, Complete, Ends, UpdateProgress, Exists, Row,
                TypeInv, Rows
  <2> QED
    BY <1>3, <1>6, <2>1 DEF ClaimNextTask, AppendDigit, Complete, Ends
<1>7. ASSUME WorkerEnds PROVE Goal
  BY <1>1, <1>7 DEF WorkerEnds, Fault
<1>8. ASSUME NEW c \in Clients, ClientStep(c) PROVE Goal
  <2>1. /\ \A d \in Clients \ {c} : pc'[d] = pc[d] /\ result'[d] = result[d]
        /\ ~Unborn
    BY <1>8, ClientFrame
  <2>2. faults = 0
    BY <1>1, <1>8 DEF ClientStep, CheckProgress, TaskResult, DeleteTask, Fault
  <2>3. ASSUME NEW answered \in BOOLEAN, CheckProgress(c, answered) \/ TaskResult(c, answered)
        PROVE  Goal
    <3>1. row' = row /\ pc[c] # "stopped"
      BY <2>3 DEF CheckProgress, TaskResult
    <3>2. ~Had(c)
      BY <3>1
    <3> QED
      BY <1>2, <2>1, <2>2, <3>1, <3>2 DEF Exists
  <2>4. ASSUME NEW answered \in BOOLEAN, DeleteTask(c, answered) PROVE Goal
    <3>1. answered
      BY <1>1, <2>4 DEF DeleteTask, Fault
    <3>2. pc'[c] = "stopped" /\ result'[c] = reply[c] /\ pc[c] = "deleting"
      BY <2>4, <3>1 DEF DeleteTask, TypeInv
    <3>3. reply[c] = Length
      BY <3>2 DEF RowInv
    <3> QED
      BY <3>2, <3>3
  <2> QED
    BY <1>8, <2>3, <2>4 DEF ClientStep
<1>9. ASSUME UNCHANGED vars PROVE Goal
  BY <1>3, <1>9 DEF vars, Exists
<1> QED
  BY <1>4, <1>5, <1>6, <1>7, <1>8, <1>9 DEF Next, ClientStep

-----------------------------------------------------------------------------
LEMMA OnceInit == Init => OnceInv
BY DEF Init, OnceInv, Absent, Exists

(* A task created twice stays one that was.                                *)
LEMMA CreatedAgainKept ==
    ASSUME TypeInv, [Next]_vars, CreatedAgain PROVE CreatedAgain'
<1>1. ASSUME post' = post PROVE CreatedAgain'
  BY <1>1 DEF CreatedAgain
<1>2. ASSUME NEW p \in Posters, CheckTask(p) \/ CreateTask(p) PROVE CreatedAgain'
  BY <1>2 DEF CheckTask, CreateTask, CreatedAgain, TypeInv
<1> QED
  BY <1>1, <1>2 DEF Next, ClaimNextTask, AppendDigit, Complete, Ends, WorkerEnds, CheckProgress,
                    TaskResult, DeleteTask, vars

LEMMA OnceStep == TypeInv /\ RowInv /\ OnceInv /\ [Next]_vars => OnceInv'
<1> SUFFICES ASSUME TypeInv, RowInv, OnceInv, [Next]_vars, ~CreatedAgain' PROVE OnceInv'
  BY DEF OnceInv
<1> DEFINE Client(c) == /\ pc[c] = "deleting" => row.status \in {"COMPLETED", "absent"}
                        /\ Exists => result[c] <= row.sent
                        /\ faults = 0 /\ pc[c] = "polling" => seen[c] <= result[c]
                        /\ faults = 0 /\ pc[c] = "fetching" /\ Exists => seen[c] <= row.sent
           Mine == worker.at = "running" => row.status = "RUNNING"
<1>1. ~CreatedAgain
  BY CreatedAgainKept
<1>2. Mine /\ \A c \in Clients : Client(c)
  BY <1>1 DEF OnceInv
<1>3. Mine' /\ (\A c \in Clients : Client(c)') => OnceInv'
  BY DEF OnceInv
<1>4. /\ row.sent \in Nat /\ worker.k \in Nat /\ Length \in Nat /\ faults \in Nat
      /\ \A c \in Clients : result[c] \in Nat /\ reply[c] \in Nat /\ seen[c] \in Nat
  BY DigitsAssumption DEF TypeInv, Rows
<1>5. faults' = 0 => faults = 0
  <2>1. faults' = faults \/ Fault
    <3>1. \A p \in Posters : CheckTask(p) \/ CreateTask(p) => faults' = faults
      BY DEF CheckTask, CreateTask
    <3>2. ClaimNextTask \/ AppendDigit \/ Complete => faults' = faults
      BY DEF ClaimNextTask, AppendDigit, Complete, Ends
    <3>3. WorkerEnds => Fault
      BY DEF WorkerEnds
    <3>4. \A c \in Clients : ClientStep(c) => faults' = faults \/ Fault
      BY DEF ClientStep, CheckProgress, TaskResult, DeleteTask
    <3> QED
      BY <3>1, <3>2, <3>3, <3>4 DEF Next, ClientStep, vars
  <2> QED
    BY <1>4, <2>1 DEF Fault
(* A step of the worker: the row only grows.                               *)
<1>6. ASSUME UNCHANGED <<clientVars, faults>>, row'.sent \in Nat, row.sent <= row'.sent,
             Exists' => Exists,
             \/ row'.status = row.status
             \/ row.status \notin {"COMPLETED", "absent"}
      PROVE  \A c \in Clients : Client(c)'
  BY <1>2, <1>4, <1>6 DEF clientVars, Exists
<1>7. ASSUME NEW p \in Posters, CheckTask(p) PROVE OnceInv'
  BY <1>2, <1>3, <1>4, <1>6, <1>7 DEF CheckTask, Exists
<1>8. ASSUME NEW p \in Posters, CreateTask(p) PROVE OnceInv'
  <2>1. CASE Exists
    BY <1>2, <1>3, <1>4, <1>6, <1>8, <2>1 DEF CreateTask, Exists
  <2>2. CASE ~Exists
    <3>1. /\ row' = Row("QUEUED", 0, Digits, 0, FALSE) /\ UNCHANGED <<worker, clientVars, faults>>
          /\ post' = [post EXCEPT ![p] = "created"] /\ post[p] = "checked"
      BY <1>8, <2>2 DEF CreateTask
    <3>2. Unborn
      BY <3>1 DEF TypeInv, Unborn, CreatedAgain
    <3>3. /\ worker.at # "running"
          /\ \A c \in Clients : pc[c] = "polling" /\ seen[c] = 0 /\ result[c] = 0
      BY <3>2 DEF RowInv
    <3>4. row'.sent = 0
      BY <3>1 DEF Row
    <3>5. \A c \in Clients : Client(c)'
      <4>1. \A c \in Clients : pc'[c] = "polling" /\ seen'[c] = 0 /\ result'[c] = 0
        BY <3>1, <3>3 DEF clientVars
      <4> QED
        BY <3>4, <4>1
    <3>6. Mine'
      BY <3>1, <3>3
    <3> QED
      BY <1>3, <3>5, <3>6
  <2> QED
    BY <2>1, <2>2
<1>9. ASSUME ClaimNextTask PROVE OnceInv'
  <2>1. /\ row'.status = "RUNNING" /\ row.status = "QUEUED" /\ row'.sent = row.sent
        /\ UNCHANGED <<clientVars, faults>>
    BY <1>9 DEF ClaimNextTask, TypeInv, Rows
  <2>2. \A c \in Clients : Client(c)'
    BY <1>4, <1>6, <2>1 DEF Exists
  <2> QED
    BY <1>3, <2>1, <2>2
<1>10. ASSUME AppendDigit PROVE OnceInv'
  <2>1. row.status = "RUNNING" /\ row.sent <= worker.k
    BY <1>2, <1>10 DEF AppendDigit, RowInv
  <2>2. row'.status = "RUNNING" /\ row'.sent = worker.k + 1 /\ UNCHANGED <<clientVars, faults>>
    BY <1>10, <2>1 DEF AppendDigit, UpdateProgress, Exists, Row
  <2>3. \A c \in Clients : Client(c)'
    BY <1>4, <1>6, <2>1, <2>2 DEF Exists
  <2> QED
    BY <1>3, <2>2, <2>3
<1>11. ASSUME Complete PROVE OnceInv'
  <2>1. row.status = "RUNNING" /\ row.sent <= Length
    BY <1>2, <1>11 DEF Complete, Ends, RowInv
  <2>2. /\ row'.sent = Length /\ worker'.at = "idle" /\ UNCHANGED <<clientVars, faults>>
    BY <1>11, <2>1 DEF Complete, Ends, UpdateProgress, Exists, Row
  <2>3. \A c \in Clients : Client(c)'
    BY <1>4, <1>6, <2>1, <2>2 DEF Exists
  <2> QED
    BY <1>3, <2>2, <2>3
<1>12. ASSUME WorkerEnds PROVE OnceInv'
  <2>1. worker'.at = "down" /\ faults' # 0 /\ UNCHANGED <<row, clientVars>>
    BY <1>4, <1>12 DEF WorkerEnds, Fault, clientVars
  <2>2. \A c \in Clients : Client(c)'
    BY <1>2, <2>1 DEF clientVars, Exists
  <2> QED
    BY <1>3, <2>1, <2>2
<1>13. ASSUME NEW c \in Clients, ClientStep(c) PROVE OnceInv'
  <2>1. /\ \A d \in Clients \ {c} :
              pc'[d] = pc[d] /\ seen'[d] = seen[d] /\ result'[d] = result[d]
        /\ worker' = worker /\ (row' = row \/ row' = Absent)
    BY <1>13, ClientFrame
  <2>2. row' = Absent => Exists' = FALSE /\ row'.status = "absent"
    BY DEF Exists, Absent
  <2>3. \A d \in Clients \ {c} : Client(d)'
    BY <1>2, <1>5, <2>1, <2>2 DEF Exists
  <2>4. ASSUME NEW answered \in BOOLEAN, CheckProgress(c, answered) PROVE Mine' /\ Client(c)'
    <3>1. /\ row' = row /\ result'[c] = result[c] /\ pc'[c] \in {"stopped", "fetching"}
          /\ seen'[c] = row.sent \/ ~Exists \/ faults' = faults + 1
      BY <2>4 DEF CheckProgress, DigitsSent, Fault, TypeInv
    <3> QED
      BY <1>2, <1>4, <2>1, <3>1 DEF Exists
  <2>5. ASSUME NEW answered \in BOOLEAN, TaskResult(c, answered) PROVE Mine' /\ Client(c)'
    <3>1. /\ row' = row /\ seen' = seen /\ pc[c] = "fetching"
          /\ \/ ~Exists /\ pc'[c] = "stopped" /\ result'[c] = result[c]
             \/ row.done /\ pc'[c] = "deleting" /\ result'[c] = result[c]
             \/ Exists /\ pc'[c] \in {"stopped", "polling"} /\ result'[c] = row.sent
             \/ pc'[c] = "polling" /\ result'[c] = result[c] /\ faults' = faults + 1
      BY <2>5 DEF TaskResult, Deletable, Fault, TypeInv
    <3>2. row.done => row.status = "COMPLETED"
      BY DEF RowInv
    <3> QED
      BY <1>2, <1>4, <1>5, <2>1, <3>1, <3>2 DEF Exists
  <2>6. ASSUME NEW answered \in BOOLEAN, DeleteTask(c, answered) PROVE Mine' /\ Client(c)'
    <3>1. /\ pc[c] = "deleting"
          /\ \/ row' = Absent /\ pc'[c] = "stopped"
             \/ /\ row' = Absent \/ row' = row
                /\ pc'[c] = "polling" /\ result'[c] = result[c] /\ faults' = faults + 1
      BY <2>6 DEF DeleteTask, Fault, TypeInv
    <3>2. row.status \in {"COMPLETED", "absent"}
      BY <1>2, <3>1
    <3> QED
      BY <1>2, <1>4, <2>1, <2>2, <3>1, <3>2 DEF Exists
  <2> QED
    BY <1>3, <1>13, <2>3, <2>4, <2>5, <2>6 DEF ClientStep
<1>14. ASSUME UNCHANGED vars PROVE OnceInv'
  BY <1>2, <1>3, <1>4, <1>6, <1>14 DEF vars, Exists
<1> QED
  BY <1>7, <1>8, <1>9, <1>10, <1>11, <1>12, <1>13, <1>14 DEF Next, ClientStep

-----------------------------------------------------------------------------
Inv == TypeInv /\ RowInv /\ GoneInv /\ OnceInv

LEMMA Inductive == Spec => []Inv
<1>1. Init => Inv
  BY TypeInit, RowInit, GoneInit, OnceInit DEF Inv
<1>2. Inv /\ [Next]_vars => Inv'
  BY TypeStep, RowStep, GoneStep, OnceStep DEF Inv
<1> QED
  BY <1>1, <1>2, PTL DEF Spec

(* A client that deletes the row of a finished task never takes it from    *)
(* under the worker.                                                       *)
THEOREM RowKept == Spec => []WorkerKeepsItsRow
<1>1. Inv => WorkerKeepsItsRow
  BY DEF Inv, OnceInv, WorkerKeepsItsRow
<1> QED
  BY Inductive, <1>1, PTL

(* The row goes only when a client has the whole result.                   *)
THEOREM DeletedDelivered == Spec => []DeletedOnceDelivered
<1>1. Inv => DeletedOnceDelivered
  <2> SUFFICES ASSUME Inv, ~Exists, Answered # {}, ~(faults > 0)
               PROVE  \E c \in Clients : result[c] = Length
    BY DEF DeletedOnceDelivered
  <2>1. faults = 0 /\ ~Unborn
    BY DEF Inv, TypeInv, RowInv, Answered, Unborn
  <2> QED
    BY <2>1 DEF Inv, GoneInv
<1> QED
  BY Inductive, <1>1, PTL

(* A repeated or racing POST, and a worker that goes on writing, never set *)
(* the digits of a task back.                                              *)
THEOREM NeverReset == Spec => PostNeverResets
<1>1. Inv /\ [Next]_vars => [Exists /\ row'.status # "absent" => row'.sent >= row.sent]_row
  <2> SUFFICES ASSUME Inv, [Next]_vars, Exists, row'.status # "absent" PROVE row'.sent >= row.sent
    OBVIOUS
  <2>1. row.sent \in Nat /\ worker.k \in Nat /\ Length \in Nat
    BY DigitsAssumption DEF Inv, TypeInv, Rows
  <2>2. ASSUME row' = row PROVE row'.sent >= row.sent
    BY <2>1, <2>2
  <2>3. ASSUME ClaimNextTask PROVE row'.sent >= row.sent
    BY <2>1, <2>3 DEF ClaimNextTask, Inv, TypeInv, Rows
  <2>4. ASSUME AppendDigit PROVE row'.sent >= row.sent
    BY <2>1, <2>4 DEF AppendDigit, UpdateProgress, Row, Inv, RowInv
  <2>5. ASSUME Complete PROVE row'.sent >= row.sent
    BY <2>1, <2>5 DEF Complete, Ends, UpdateProgress, Row, Inv, RowInv
  <2>6. ASSUME NEW c \in Clients, ClientStep(c) PROVE row' = row
    BY <2>6, ClientFrame DEF Inv, Absent
  <2>7. ASSUME NEW p \in Posters, CheckTask(p) \/ CreateTask(p) PROVE row' = row
    BY <2>7 DEF CheckTask, CreateTask
  <2> QED
    BY <2>2, <2>3, <2>4, <2>5, <2>6, <2>7 DEF Next, ClientStep, WorkerEnds, vars
<1> QED
  BY Inductive, <1>1, PTL DEF Spec, PostNeverResets

(* The digits a client shows never shrink and keep up with the count shown *)
(* beside them, though the two come from separate requests.                *)
THEOREM KeepsUp == Spec => ResultKeepsUp
<1> DEFINE Step == ~CreatedAgain =>
                      \A c \in Clients :
                          /\ result'[c] >= result[c]
                          /\ pc'[c] = "polling" /\ faults' = 0 => result'[c] >= seen'[c]
<1>1. Inv /\ [Next]_vars => [Step]_vars
  <2> SUFFICES ASSUME Inv, [Next]_vars, ~CreatedAgain, NEW c \in Clients
               PROVE  /\ result'[c] >= result[c]
                      /\ pc'[c] = "polling" /\ faults' = 0 => result'[c] >= seen'[c]
    OBVIOUS
  <2>0. /\ row.sent \in Nat /\ Length \in Nat /\ faults \in Nat
        /\ result[c] \in Nat /\ reply[c] \in Nat /\ seen[c] \in Nat
    BY DigitsAssumption DEF Inv, TypeInv, Rows
  <2>1. /\ Exists => result[c] <= row.sent
        /\ result[c] <= Length /\ (pc[c] = "deleting" => reply[c] = Length)
        /\ faults = 0 /\ pc[c] = "polling" => seen[c] <= result[c]
        /\ faults = 0 /\ pc[c] = "fetching" /\ Exists => seen[c] <= row.sent
    BY DEF Inv, RowInv, OnceInv
  <2>2. ASSUME pc'[c] = pc[c], result'[c] = result[c], seen'[c] = seen[c], faults' = 0 => faults = 0
        PROVE  /\ result'[c] >= result[c]
               /\ pc'[c] = "polling" /\ faults' = 0 => result'[c] >= seen'[c]
    BY <2>0, <2>1, <2>2
  <2>3. faults' = faults \/ faults' = faults + 1
    <3>1. \A p \in Posters : CheckTask(p) \/ CreateTask(p) => faults' = faults
      BY DEF CheckTask, CreateTask
    <3>2. ClaimNextTask \/ AppendDigit \/ Complete => faults' = faults
      BY DEF ClaimNextTask, AppendDigit, Complete, Ends
    <3>3. WorkerEnds => faults' = faults + 1
      BY DEF WorkerEnds, Fault
    <3>4. \A d \in Clients : ClientStep(d) => faults' = faults \/ faults' = faults + 1
      BY DEF ClientStep, CheckProgress, TaskResult, DeleteTask, Fault
    <3> QED
      BY <3>1, <3>2, <3>3, <3>4 DEF Next, ClientStep, vars
  <2>4. faults' = 0 => faults = 0
    BY <2>0, <2>3
  <2>5. CASE UNCHANGED clientVars
    BY <2>2, <2>4, <2>5 DEF clientVars
  <2>6. ASSUME NEW d \in Clients, d # c, ClientStep(d)
        PROVE  pc'[c] = pc[c] /\ result'[c] = result[c] /\ seen'[c] = seen[c]
    BY <2>6, ClientFrame DEF Inv
  <2>7. ASSUME NEW answered \in BOOLEAN, CheckProgress(c, answered)
        PROVE  result'[c] = result[c] /\ pc'[c] # "polling"
    BY <2>7 DEF CheckProgress, Inv, TypeInv
  <2>8. ASSUME NEW answered \in BOOLEAN, TaskResult(c, answered)
        PROVE  \/ result'[c] = result[c] /\ (pc'[c] # "polling" \/ faults' = faults + 1)
               \/ /\ Exists /\ result'[c] = row.sent /\ seen'[c] = seen[c]
                  /\ pc[c] = "fetching"
    BY <2>8 DEF TaskResult, Fault, Inv, TypeInv
  <2>9. ASSUME NEW answered \in BOOLEAN, DeleteTask(c, answered)
        PROVE  \/ result'[c] = result[c] /\ faults' = faults + 1
               \/ result'[c] = reply[c] /\ pc[c] = "deleting" /\ pc'[c] = "stopped"
    BY <2>9 DEF DeleteTask, Fault, Inv, TypeInv
  <2>10. \/ UNCHANGED clientVars
         \/ \E d \in Clients : ClientStep(d)
    BY DEF Next, ClientStep, CheckTask, CreateTask, ClaimNextTask, AppendDigit, Complete, Ends,
           WorkerEnds, vars
  <2>11. CASE ClientStep(c)
    BY <2>0, <2>1, <2>4, <2>7, <2>8, <2>9, <2>11 DEF ClientStep
  <2> QED
    BY <2>2, <2>4, <2>5, <2>6, <2>10, <2>11
<1> QED
  BY Inductive, <1>1, PTL DEF Spec, ResultKeepsUp
=============================================================================
