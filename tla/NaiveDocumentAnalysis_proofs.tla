-------------------- MODULE NaiveDocumentAnalysis_proofs --------------------
(***************************************************************************)
(* Proofs about NaiveDocumentAnalysis, for any set of clients, any number  *)
(* of snippets and any number of faults.  The inductive invariant has four *)
(* layers, each proved from the ones before it:                            *)
(*   TypeInv    types                                                      *)
(*   WorkerInv  what the worker's stage says of the row and the snippets   *)
(*   CursorInv  where each client's next request starts                    *)
(*   CoverInv   nothing below any such start is left unshown               *)
(***************************************************************************)
EXTENDS NaiveDocumentAnalysis, TLAPS

(* The types of the state, and how far ids reach.                          *)
Serving == {"collecting", "marking", "clearing", "answering"}
Stages == {"polling", "fetching", "stopped"} \cup Serving
Working == {"claimed", "scanning", "emitting"}
Requests == {r \in [done : BOOLEAN, after : Nat, upTo : Nat] : r.after <= r.upTo}

TypeInv ==
    /\ row \in [status : Statuses \cup {"absent"}, done : BOOLEAN, cursor : Nat]
    /\ snippets \in Nat /\ emitted \in Nat /\ faults \in Nat
    /\ worker \in {"idle", "down"} \cup Working
    /\ pc \in [Clients -> Stages]
    /\ status \in [Clients -> Statuses \cup {"IDLE"}]
    /\ lastId \in [Clients -> Nat \cup {NoId}]
    /\ req \in [Clients -> Requests]
    /\ shown \in [Clients -> Seq(Nat \ {0})]

(* The worker has written its last status, and no request undoes that.     *)
Over == row.status \in TerminalStates \cup {"absent"}

(* While the worker works its task is there and RUNNING; a request that    *)
(* deletes has read `done`, hence comes after the last update.             *)
WorkerInv ==
    /\ worker \in Working => row.status = "RUNNING"
    /\ worker = "idle" => row.status # "RUNNING"
    /\ row.done <=> row.status \in TerminalStates
    /\ snippets = IF Exists THEN emitted ELSE 0
    /\ \A c \in Clients :
          /\ pc[c] \in Serving /\ req[c].done => Over
          /\ pc[c] = "clearing" => req[c].done
          /\ status[c] \in TerminalStates => Over
          /\ pc[c] = "stopped" => Over

(* What a client has shown ends at lastSnippetId, where its next request   *)
(* starts; before it has shown any, at the shared cursor.                  *)
CursorInv ==
    /\ emitted <= MaxSnippets /\ row.cursor <= emitted
    /\ \A c \in Clients :
          /\ lastId[c] = NoId => shown[c] = <<>>
          /\ lastId[c] # NoId =>
                /\ shown[c] # <<>> /\ lastId[c] <= emitted
                /\ lastId[c] = shown[c][1] + Len(shown[c]) - 1
          /\ pc[c] \in Serving =>
                /\ req[c].upTo <= emitted
                /\ lastId[c] # NoId => req[c].after = lastId[c]
          /\ pc[c] = "collecting" => req[c].upTo = req[c].after
    /\ ShownWithoutGaps

(* Snippet i was shown, or is on its way in the answer to a request.       *)
InShown(c, i) == \E k \in DOMAIN shown[c] : shown[c][k] = i
InFlight(c, i) == pc[c] \in Serving /\ req[c].after < i /\ i <= req[c].upTo
Covered(i) == \E c \in Clients : InShown(c, i) \/ InFlight(c, i)
CoveredTo(n) == \A i \in 1..n : Covered(i)

(* No position a request can start from skips a snippet that nobody shows. *)
CoverInv ==
    faults = 0 =>
        /\ CoveredTo(row.cursor)
        /\ ~Exists => CoveredTo(emitted)
        /\ \A c \in Clients :
              /\ pc[c] \in Serving => CoveredTo(req[c].after)
              /\ lastId[c] # NoId => CoveredTo(lastId[c])
              /\ pc[c] \in {"marking", "clearing", "answering"}
                    /\ (req[c].done \/ status[c] \in TerminalStates) =>
                    ~Exists \/ emitted <= req[c].upTo
              /\ pc[c] = "stopped" => CoveredTo(emitted)

-----------------------------------------------------------------------------
LEMMA LastOfAnswer ==
    ASSUME NEW first \in Nat, NEW m \in Nat, NEW new \in Nat, NEW a, a = first + m - 1
    PROVE  a + new = first + (m + new) - 1
OBVIOUS

(* The ids of an answer, after those shown already.                        *)
LEMMA Concat ==
    ASSUME NEW s \in Seq(Nat \ {0}), NEW a \in Nat, NEW n \in Nat
    PROVE  /\ s \o [k \in 1..n |-> a + k] \in Seq(Nat \ {0})
           /\ Len(s) \in Nat /\ DOMAIN s = 1..Len(s)
           /\ Len(s \o [k \in 1..n |-> a + k]) = Len(s) + n
           /\ DOMAIN (s \o [k \in 1..n |-> a + k]) = 1..(Len(s) + n)
           /\ \A k \in 1..Len(s) : (s \o [j \in 1..n |-> a + j])[k] = s[k]
           /\ \A k \in 1..n : (s \o [j \in 1..n |-> a + j])[Len(s) + k] = a + k
<1> DEFINE t == [k \in 1..n |-> a + k]
<1>1. t \in Seq(Nat \ {0}) /\ Len(t) = n /\ \A k \in 1..n : t[k] = a + k
  <2>1. \A k \in 1..n : a + k \in Nat \ {0}
    OBVIOUS
  <2>2. t \in [1..n -> Nat \ {0}]
    BY <2>1
  <2> QED
    BY <2>2
<1> HIDE DEF t
<1>2. /\ s \o t \in Seq(Nat \ {0})
      /\ Len(s) \in Nat /\ DOMAIN s = 1..Len(s)
      /\ Len(s \o t) = Len(s) + n
      /\ DOMAIN (s \o t) = 1..(Len(s) + n)
      /\ \A k \in 1..Len(s) : (s \o t)[k] = s[k]
      /\ \A k \in 1..n : (s \o t)[Len(s) + k] = t[k]
  BY <1>1
<1> QED
  BY <1>1, <1>2 DEF t

LEMMA UpToGrows ==
    ASSUME NEW r \in Requests, NEW u \in Nat, u > r.after
    PROVE  [r EXCEPT !.upTo = u] \in Requests
<1>1. [r EXCEPT !.upTo = u] \in [done : BOOLEAN, after : Nat, upTo : Nat]
  BY DEF Requests
<1>2. [r EXCEPT !.upTo = u].after = r.after /\ [r EXCEPT !.upTo = u].upTo = u
  BY DEF Requests
<1> QED
  BY <1>1, <1>2 DEF Requests

LEMMA TypeInit == Init => TypeInv
BY DEF Init, TypeInv, Statuses, Working, Stages, Serving, Requests, NoRequest

(* A client step keeps the types if the fields it writes have theirs.      *)
LEMMA TypeStep == TypeInv /\ [Next]_vars => TypeInv'
<1> SUFFICES ASSUME TypeInv, [Next]_vars PROVE TypeInv'
  OBVIOUS
<1> USE DEF TypeInv, Working, Stages, Serving, Requests, Statuses, clientVars
<1>1. ASSUME NEW state \in Statuses, NEW done \in BOOLEAN, UpdateDocProgress(state, done)
      PROVE  row' \in [status : Statuses \cup {"absent"}, done : BOOLEAN, cursor : Nat]
  BY <1>1 DEF UpdateDocProgress
<1>2. ASSUME Work PROVE TypeInv'
  <2>1. ASSUME ClaimNextDocTask PROVE TypeInv'
    BY <2>1 DEF ClaimNextDocTask
  <2>2. ASSUME MarkFailed PROVE TypeInv'
    BY <2>2, <1>1 DEF MarkFailed
  <2>3. ASSUME AppendDocSnippet PROVE TypeInv'
    BY <2>3 DEF AppendDocSnippet
  <2>4. ASSUME ReportRunning PROVE TypeInv'
    BY <2>4, <1>1 DEF ReportRunning
  <2>5. ASSUME Complete PROVE TypeInv'
    BY <2>5, <1>1 DEF Complete
  <2> QED
    BY <1>2, <2>1, <2>2, <2>3, <2>4, <2>5 DEF Work
<1>3. ASSUME WorkerEnds PROVE TypeInv'
  BY <1>3 DEF WorkerEnds, Fault
<1>4. ASSUME NEW c \in Clients, NEW answered \in BOOLEAN, DocumentStatus(c, answered)
      PROVE  TypeInv'
  <2>1. Exists => row.status \in Statuses
    BY DEF Exists
  <2>2. status' \in [Clients -> Statuses \cup {"IDLE"}]
    BY <1>4, <2>1 DEF DocumentStatus
  <2>3. pc' \in [Clients -> Stages]
    BY <1>4 DEF DocumentStatus
  <2>4. faults' \in Nat
    BY <1>4 DEF DocumentStatus, Fault
  <2> QED
    BY <1>4, <2>2, <2>3, <2>4 DEF DocumentStatus
<1>5. ASSUME NEW c \in Clients, ReadDocTask(c) PROVE TypeInv'
  <2>1. After(c) \in Nat
    BY DEF After
  <2> QED
    BY <1>5, <2>1 DEF ReadDocTask
<1>6. ASSUME NEW c \in Clients, GetDocSnippets(c) PROVE TypeInv'
  <2> DEFINE r == [req[c] EXCEPT !.upTo = snippets]
  <2>1. /\ req' = req \/ (snippets > req[c].after /\ req' = [req EXCEPT ![c].upTo = snippets])
        /\ pc' \in [Clients -> Stages]
        /\ UNCHANGED <<row, snippets, emitted, worker, status, lastId, shown, faults>>
    BY <1>6 DEF GetDocSnippets
  <2>2. snippets > req[c].after => r \in Requests
    BY UpToGrows
  <2>3. req' = req \/ (snippets > req[c].after /\ req' = [req EXCEPT ![c] = r])
    BY <2>1
  <2> HIDE DEF r
  <2>4. req' \in [Clients -> Requests]
    BY <2>2, <2>3
  <2> QED
    BY <2>1, <2>4
<1>7. ASSUME NEW c \in Clients, MarkDelivered(c) PROVE TypeInv'
  <2>1. req[c].upTo \in Nat
    OBVIOUS
  <2>2. row' \in [status : Statuses \cup {"absent"}, done : BOOLEAN, cursor : Nat]
    BY <1>7, <2>1 DEF MarkDelivered
  <2>3. pc' \in [Clients -> Stages]
    BY <1>7 DEF MarkDelivered
  <2> QED
    BY <1>7, <2>2, <2>3 DEF MarkDelivered
<1>8. ASSUME NEW c \in Clients, ClearTask(c) PROVE TypeInv'
  <2>1. row' \in {row, Absent} /\ snippets' \in {snippets, 0}
    BY <1>8 DEF ClearTask
  <2>2. pc' \in [Clients -> Stages]
    BY <1>8 DEF ClearTask
  <2>3. Absent \in [status : Statuses \cup {"absent"}, done : BOOLEAN, cursor : Nat]
    BY DEF Absent
  <2>4. UNCHANGED <<emitted, worker, status, lastId, req, shown, faults>>
    BY <1>8 DEF ClearTask
  <2> QED
    BY <2>1, <2>2, <2>3, <2>4
<1>9. ASSUME NEW c \in Clients, Answer(c) PROVE TypeInv'
  <2> DEFINE new == req[c].upTo - req[c].after
             ids == shown[c] \o [k \in 1..new |-> req[c].after + k]
  <2>0. /\ pc' = [pc EXCEPT ![c] = AfterResult(c)]
        /\ req' = [req EXCEPT ![c] = NoRequest]
        /\ lastId' = [lastId EXCEPT ![c] = IF new > 0 THEN req[c].upTo ELSE @]
        /\ UNCHANGED <<row, snippets, emitted, worker, status, faults>>
    BY <1>9 DEF Answer
  <2>1. shown' = [shown EXCEPT ![c] = ids]
    BY <1>9 DEF Answer
  <2>2. new \in Nat /\ req[c].after \in Nat /\ shown[c] \in Seq(Nat \ {0})
    OBVIOUS
  <2>3. ids \in Seq(Nat \ {0})
    BY <2>2, Concat
  <2> HIDE DEF ids, new
  <2>4. shown' \in [Clients -> Seq(Nat \ {0})]
    BY <2>1, <2>3
  <2>5. lastId' \in [Clients -> Nat \cup {NoId}] /\ req' \in [Clients -> Requests]
    BY <2>0 DEF NoRequest
  <2>6. pc' \in [Clients -> Stages]
    BY <2>0 DEF AfterResult
  <2> QED
    BY <2>0, <2>4, <2>5, <2>6
<1>10. ASSUME NEW c \in Clients, LoseAnswer(c) PROVE TypeInv'
  <2>1. pc' \in [Clients -> Stages] /\ req' \in [Clients -> Requests]
    BY <1>10 DEF LoseAnswer, AfterResult, NoRequest
  <2> QED
    BY <1>10, <2>1 DEF LoseAnswer, Fault
<1>11. ASSUME UNCHANGED vars PROVE TypeInv'
  BY <1>11 DEF vars
<1> QED
  BY <1>2, <1>3, <1>4, <1>5, <1>6, <1>7, <1>8, <1>9, <1>10, <1>11 DEF Next, Poll

-----------------------------------------------------------------------------
(* Once over, for ever over: no snippet is appended any more.              *)
LEMMA OverKept ==
    ASSUME TypeInv, WorkerInv, [Next]_vars, Over PROVE Over' /\ emitted' = emitted
<1>1. worker \notin Working /\ row.status \notin {"QUEUED", "RUNNING"}
  BY DEF Over, WorkerInv, TerminalStates
<1>2. ASSUME UNCHANGED <<row, emitted>> PROVE Over' /\ emitted' = emitted
  BY <1>2 DEF Over
<1>3. ASSUME Work PROVE FALSE
  BY <1>1, <1>3 DEF Work, Working, WorkerInv, ClaimNextDocTask, MarkFailed,
                    AppendDocSnippet, ReportRunning, Complete
<1>4. ASSUME NEW c \in Clients, MarkDelivered(c) PROVE Over' /\ emitted' = emitted
  <2>1. row'.status = row.status /\ emitted' = emitted
    BY <1>4 DEF MarkDelivered, TypeInv
  <2> QED
    BY <2>1 DEF Over
<1>5. ASSUME NEW c \in Clients, ClearTask(c) PROVE Over' /\ emitted' = emitted
  BY <1>5 DEF ClearTask, Over, Absent
<1>6. ASSUME WorkerEnds PROVE Over' /\ emitted' = emitted
  BY <1>2, <1>6 DEF WorkerEnds
<1>7. ASSUME NEW c \in Clients,
             \/ \E answered \in BOOLEAN : DocumentStatus(c, answered)
             \/ ReadDocTask(c) \/ GetDocSnippets(c) \/ Answer(c) \/ LoseAnswer(c)
      PROVE  Over' /\ emitted' = emitted
  BY <1>2, <1>7 DEF DocumentStatus, ReadDocTask, GetDocSnippets, Answer, LoseAnswer
<1>8. ASSUME UNCHANGED vars PROVE Over' /\ emitted' = emitted
  BY <1>2, <1>8 DEF vars
<1> QED
  BY <1>3, <1>4, <1>5, <1>6, <1>7, <1>8 DEF Next, Poll

LEMMA WorkerInit == Init => WorkerInv
BY DEF Init, WorkerInv, Working, Exists, TerminalStates, Serving

(* The clients' part, for a step that changes at most client c.            *)
LEMMA WorkerStep == TypeInv /\ WorkerInv /\ [Next]_vars => WorkerInv'
<1> SUFFICES ASSUME TypeInv, WorkerInv, [Next]_vars PROVE WorkerInv'
  OBVIOUS
<1> DEFINE Row == /\ worker \in Working => row.status = "RUNNING"
                  /\ worker = "idle" => row.status # "RUNNING"
                  /\ row.done <=> row.status \in TerminalStates
                  /\ snippets = IF Exists THEN emitted ELSE 0
           Client(c) == /\ pc[c] \in Serving /\ req[c].done => Over
                        /\ pc[c] = "clearing" => req[c].done
                        /\ status[c] \in TerminalStates => Over
                        /\ pc[c] = "stopped" => Over
<1>1. WorkerInv <=> Row /\ \A c \in Clients : Client(c)
  BY DEF WorkerInv
<1>2. WorkerInv' <=> Row' /\ \A c \in Clients : Client(c)'
  BY DEF WorkerInv
<1>3. Over => Over'
  BY OverKept
<1>4. ASSUME NEW c \in Clients, pc'[c] = pc[c], req'[c] = req[c], status'[c] = status[c]
      PROVE  Client(c)'
  BY <1>1, <1>3, <1>4
<1>5. ASSUME UNCHANGED clientVars PROVE \A c \in Clients : Client(c)'
  BY <1>4, <1>5 DEF clientVars
<1> HIDE DEF Client
<1>6. ASSUME NEW state \in Statuses, NEW done \in BOOLEAN, Exists, UpdateDocProgress(state, done)
      PROVE  row'.status = state /\ row'.done = done /\ Exists'
  BY <1>6 DEF UpdateDocProgress, Exists, TypeInv, Statuses
<1>7. ASSUME Work PROVE WorkerInv'
  <2>1. ASSUME ClaimNextDocTask PROVE Row'
    BY <2>1, <1>1 DEF ClaimNextDocTask, TypeInv, Exists, Working, TerminalStates
  <2>2. worker \in Working => Exists
    BY <1>1 DEF Exists
  <2>3. ASSUME MarkFailed PROVE Row'
    BY <2>2, <2>3, <1>1, <1>6 DEF MarkFailed, Working, TerminalStates, Statuses
  <2>4. ASSUME AppendDocSnippet PROVE Row'
    BY <2>2, <2>4, <1>1 DEF AppendDocSnippet, Working, Exists
  <2>5. ASSUME ReportRunning PROVE Row'
    BY <2>2, <2>5, <1>1, <1>6 DEF ReportRunning, Working, TerminalStates, Statuses
  <2>6. ASSUME Complete PROVE Row'
    BY <2>2, <2>6, <1>1, <1>6 DEF Complete, Working, TerminalStates, Statuses
  <2>7. UNCHANGED clientVars
    BY <1>7 DEF Work, ClaimNextDocTask, MarkFailed, AppendDocSnippet, ReportRunning, Complete
  <2> QED
    BY <1>2, <1>5, <1>7, <2>1, <2>3, <2>4, <2>5, <2>6, <2>7 DEF Work
<1>8. ASSUME WorkerEnds PROVE WorkerInv'
  BY <1>1, <1>2, <1>5, <1>8 DEF WorkerEnds, Working, Exists
<1>9. ASSUME UNCHANGED <<row, snippets, emitted, worker>> PROVE Row'
  BY <1>1, <1>9 DEF Exists
<1> HIDE DEF Row
<1>10. ASSUME NEW c \in Clients, NEW answered \in BOOLEAN, DocumentStatus(c, answered)
       PROVE  WorkerInv'
  <2>1. ASSUME NEW d \in Clients, d # c PROVE Client(d)'
    BY <2>1, <1>4, <1>10 DEF DocumentStatus, TypeInv
  <2>2. pc'[c] \notin Serving /\ pc'[c] # "clearing"
    BY <1>10 DEF DocumentStatus, Serving, TypeInv
  <2>3. status'[c] \in TerminalStates => status[c] \in TerminalStates \/ row.status \in TerminalStates
    BY <1>10 DEF DocumentStatus, TypeInv
  <2>4. pc'[c] = "stopped" => Over
    BY <1>10 DEF DocumentStatus, TypeInv, StopsAtStatus, Exists, Over
  <2>5. Client(c)'
    BY <2>2, <2>3, <2>4, <1>1, <1>3 DEF Over, Client
  <2> QED
    BY <1>2, <1>9, <1>10, <2>1, <2>5 DEF DocumentStatus
<1>11. ASSUME NEW c \in Clients, ReadDocTask(c) PROVE WorkerInv'
  <2>1. ASSUME NEW d \in Clients, d # c PROVE Client(d)'
    BY <2>1, <1>4, <1>11 DEF ReadDocTask, TypeInv
  <2>2. pc'[c] # "clearing" /\ status'[c] = status[c] /\ req'[c].done = row.done
    BY <1>11 DEF ReadDocTask, TypeInv
  <2>3. (row.done => Over) /\ (pc'[c] = "stopped" => Over)
    BY <1>11 DEF WorkerInv, ReadDocTask, TypeInv, Exists, Over
  <2>4. Client(c)'
    BY <2>2, <2>3, <1>1, <1>3 DEF Client
  <2> QED
    BY <1>2, <1>9, <1>11, <2>1, <2>4 DEF ReadDocTask
<1>12. ASSUME NEW c \in Clients, GetDocSnippets(c) \/ MarkDelivered(c) \/ ClearTask(c)
       PROVE  \A d \in Clients : Client(d)'
  <2>1. ASSUME NEW d \in Clients, d # c PROVE Client(d)'
    BY <2>1, <1>4, <1>12 DEF GetDocSnippets, MarkDelivered, ClearTask, TypeInv
  <2>2. /\ pc[c] \in Serving /\ status'[c] = status[c] /\ req'[c].done = req[c].done
        /\ pc'[c] = "clearing" => req[c].done
        /\ pc'[c] # "stopped"
    BY <1>12 DEF GetDocSnippets, MarkDelivered, ClearTask, TypeInv, Serving, Requests
  <2>3. Client(c)'
    BY <2>2, <1>1, <1>3 DEF Client
  <2> QED
    BY <2>1, <2>3
<1>13. ASSUME NEW c \in Clients, GetDocSnippets(c) PROVE WorkerInv'
  BY <1>2, <1>9, <1>12, <1>13 DEF GetDocSnippets
<1>14. ASSUME NEW c \in Clients, MarkDelivered(c) PROVE WorkerInv'
  <2>1. row'.status = row.status /\ row'.done = row.done
    BY <1>14 DEF MarkDelivered, TypeInv
  <2>2. UNCHANGED <<snippets, emitted, worker>>
    BY <1>14 DEF MarkDelivered
  <2>3. Row'
    BY <2>1, <2>2, <1>1 DEF Row, Exists
  <2> QED
    BY <1>2, <1>12, <1>14, <2>3
<1>15. ASSUME NEW c \in Clients, ClearTask(c) PROVE WorkerInv'
  <2>1. Over
    BY <1>15 DEF ClearTask, WorkerInv, Serving
  <2>2. worker \notin Working
    BY <2>1 DEF Over, WorkerInv, TerminalStates
  <2>3. /\ worker' = worker /\ emitted' = emitted
        /\ \/ row' = row /\ snippets' = snippets
           \/ row' = Absent /\ snippets' = 0
    BY <1>15 DEF ClearTask
  <2>4. Row'
    BY <2>2, <2>3, <1>1 DEF Row, Exists, Absent, TerminalStates
  <2> QED
    BY <1>2, <1>12, <1>15, <2>4
<1>16. ASSUME NEW c \in Clients, Answer(c) \/ LoseAnswer(c) PROVE WorkerInv'
  <2>1. ASSUME NEW d \in Clients, d # c PROVE Client(d)'
    BY <2>1, <1>4, <1>16 DEF Answer, LoseAnswer, TypeInv
  <2>2. pc'[c] \notin Serving /\ pc'[c] # "clearing" /\ status'[c] = status[c]
    BY <1>16 DEF Answer, LoseAnswer, AfterResult, Serving, TypeInv
  <2>3. pc'[c] = "stopped" => status[c] \in TerminalStates
    BY <1>16 DEF Answer, LoseAnswer, AfterResult, TypeInv
  <2>4. Client(c)'
    BY <2>2, <2>3, <1>1, <1>3 DEF Client
  <2> QED
    BY <1>2, <1>9, <1>16, <2>1, <2>4 DEF Answer, LoseAnswer
<1>17. ASSUME UNCHANGED vars PROVE WorkerInv'
  BY <1>2, <1>5, <1>9, <1>17 DEF vars
<1> QED
  BY <1>7, <1>8, <1>10, <1>11, <1>13, <1>14, <1>15, <1>16, <1>17 DEF Next, Poll

-----------------------------------------------------------------------------
LEMMA CursorInit == Init => CursorInv
BY BoundAssumption DEF Init, CursorInv, ShownWithoutGaps, Serving

(* What CursorInv says of one client.                                      *)
ClientCursor(c) ==
    /\ lastId[c] = NoId => shown[c] = <<>>
    /\ lastId[c] # NoId =>
          /\ shown[c] # <<>> /\ lastId[c] <= emitted
          /\ lastId[c] = shown[c][1] + Len(shown[c]) - 1
    /\ pc[c] \in Serving =>
          /\ req[c].upTo <= emitted
          /\ lastId[c] # NoId => req[c].after = lastId[c]
    /\ pc[c] = "collecting" => req[c].upTo = req[c].after
    /\ \A k \in DOMAIN shown[c] : shown[c][k] = shown[c][1] + k - 1

LEMMA CursorParts ==
    CursorInv <=> /\ emitted <= MaxSnippets /\ row.cursor <= emitted
                  /\ \A c \in Clients : ClientCursor(c)
BY DEF CursorInv, ClientCursor, ShownWithoutGaps

(* The state of a client that a step leaves alone.                         *)
LEMMA ClientKept ==
    ASSUME TypeInv, NEW c \in Clients, ClientCursor(c), emitted' \in Nat, emitted <= emitted',
           lastId'[c] = lastId[c], shown'[c] = shown[c], req'[c] = req[c],
           pc'[c] \in Serving => pc[c] \in Serving,
           pc'[c] = "collecting" => pc[c] = "collecting"
    PROVE  ClientCursor(c)'
<1>1. lastId[c] \in Nat \cup {NoId} /\ req[c].upTo \in Nat /\ emitted \in Nat
  BY DEF TypeInv, Requests
<1> QED
  BY <1>1, NoIdAssumption DEF ClientCursor

LEMMA CursorStep == TypeInv /\ WorkerInv /\ CursorInv /\ [Next]_vars => CursorInv'
<1> SUFFICES ASSUME TypeInv, WorkerInv, CursorInv, [Next]_vars PROVE CursorInv'
  OBVIOUS
<1>1. /\ emitted \in Nat /\ emitted <= MaxSnippets /\ row.cursor <= emitted /\ row.cursor \in Nat
      /\ MaxSnippets \in Nat
      /\ \A c \in Clients : ClientCursor(c)
  BY CursorParts, BoundAssumption DEF TypeInv
<1>2. CursorInv' <=> /\ emitted' <= MaxSnippets /\ row'.cursor <= emitted'
                     /\ \A c \in Clients : ClientCursor(c)'
  BY DEF CursorInv, ClientCursor, ShownWithoutGaps
<1>3. ASSUME UNCHANGED clientVars, emitted' \in Nat, emitted <= emitted'
      PROVE  \A c \in Clients : ClientCursor(c)'
  BY <1>1, <1>3, ClientKept DEF clientVars
<1>4. ASSUME NEW state, NEW done, UpdateDocProgress(state, done) PROVE row'.cursor = row.cursor
  BY <1>4 DEF UpdateDocProgress, TypeInv
<1>5. ASSUME Work PROVE CursorInv'
  <2>1. row'.cursor = row.cursor
    BY <1>4, <1>5 DEF Work, ClaimNextDocTask, MarkFailed, AppendDocSnippet, ReportRunning,
                      Complete, TypeInv
  <2>2. emitted' \in Nat /\ emitted <= emitted' /\ emitted' <= MaxSnippets
    <3>1. emitted' = emitted \/ (emitted < MaxSnippets /\ emitted' = emitted + 1)
      BY <1>5 DEF Work, ClaimNextDocTask, MarkFailed, AppendDocSnippet, ReportRunning, Complete
    <3> QED
      BY <1>1, <3>1
  <2>3. UNCHANGED clientVars
    BY <1>5 DEF Work, ClaimNextDocTask, MarkFailed, AppendDocSnippet, ReportRunning, Complete
  <2> QED
    BY <1>1, <1>2, <1>3, <2>1, <2>2, <2>3
<1>6. ASSUME WorkerEnds \/ UNCHANGED vars PROVE CursorInv'
  BY <1>1, <1>2, <1>3, <1>6 DEF WorkerEnds, vars
<1>7. ASSUME NEW c \in Clients, emitted' = emitted,
             \A d \in Clients \ {c} : /\ pc'[d] = pc[d] /\ lastId'[d] = lastId[d]
                                     /\ req'[d] = req[d] /\ shown'[d] = shown[d]
      PROVE  \A d \in Clients \ {c} : ClientCursor(d)'
  BY <1>1, <1>7, ClientKept
<1>8. ASSUME NEW c \in Clients, NEW answered \in BOOLEAN, DocumentStatus(c, answered)
      PROVE  CursorInv'
  <2>1. ClientCursor(c)'
    <3>1. pc'[c] \notin Serving
      BY <1>8 DEF DocumentStatus, Serving, TypeInv
    <3> QED
      BY <1>1, <1>8, <3>1, ClientKept DEF DocumentStatus, Serving
  <2>2. \A d \in Clients \ {c} : ClientCursor(d)'
    BY <1>7, <1>8 DEF DocumentStatus, TypeInv
  <2> QED
    BY <1>1, <1>2, <1>8, <2>1, <2>2 DEF DocumentStatus
<1>9. ASSUME NEW c \in Clients, ReadDocTask(c) PROVE CursorInv'
  <2>1. /\ req'[c].after = After(c) /\ req'[c].upTo = After(c)
        /\ UNCHANGED <<lastId, shown, emitted>>
    BY <1>9 DEF ReadDocTask, TypeInv
  <2>2. After(c) <= emitted /\ (lastId[c] # NoId => After(c) = lastId[c])
    BY <1>1 DEF After, ClientCursor
  <2>3. ClientCursor(c)'
    BY <1>1, <2>1, <2>2 DEF ClientCursor
  <2>4. \A d \in Clients \ {c} : ClientCursor(d)'
    BY <1>7, <1>9 DEF ReadDocTask, TypeInv
  <2> QED
    BY <1>1, <1>2, <1>9, <2>3, <2>4 DEF ReadDocTask
<1>10. ASSUME NEW c \in Clients, GetDocSnippets(c) PROVE CursorInv'
  <2>1. /\ req'[c].after = req[c].after /\ req'[c].upTo \in {req[c].upTo, snippets}
        /\ UNCHANGED <<lastId, shown, emitted>>
        /\ pc[c] \in Serving /\ pc'[c] # "collecting"
    BY <1>10 DEF GetDocSnippets, TypeInv, Requests, Serving
  <2>2. snippets <= emitted
    BY <1>1 DEF WorkerInv
  <2>3. ClientCursor(c)'
    BY <1>1, <2>1, <2>2 DEF ClientCursor
  <2>4. \A d \in Clients \ {c} : ClientCursor(d)'
    BY <1>7, <1>10 DEF GetDocSnippets, TypeInv
  <2> QED
    BY <1>1, <1>2, <1>10, <2>3, <2>4 DEF GetDocSnippets
<1>11. ASSUME NEW c \in Clients, MarkDelivered(c) \/ ClearTask(c) PROVE CursorInv'
  <2>1. pc[c] \in Serving /\ pc'[c] # "collecting" /\ UNCHANGED <<lastId, shown, req, emitted>>
    BY <1>11 DEF MarkDelivered, ClearTask, Serving, TypeInv
  <2>2. \A d \in Clients \ {c} : ClientCursor(d)'
    BY <1>7, <1>11 DEF MarkDelivered, ClearTask, TypeInv
  <2>3. ClientCursor(c)'
    BY <1>1, <2>1, ClientKept
  <2>4. row'.cursor <= emitted
    <3>1. req[c].upTo <= emitted
      BY <1>1, <2>1 DEF ClientCursor
    <3> QED
      BY <1>1, <1>11, <3>1 DEF MarkDelivered, ClearTask, Absent, TypeInv
  <2> QED
    BY <1>1, <1>2, <2>1, <2>2, <2>3, <2>4
<1>12. ASSUME NEW c \in Clients, LoseAnswer(c) PROVE CursorInv'
  <2>1. pc'[c] \notin Serving /\ UNCHANGED <<lastId, shown, emitted, row>>
    BY <1>12 DEF LoseAnswer, AfterResult, Serving, TypeInv
  <2>2. ClientCursor(c)'
    BY <1>1, <2>1 DEF ClientCursor, Serving
  <2>3. \A d \in Clients \ {c} : ClientCursor(d)'
    BY <1>7, <1>12 DEF LoseAnswer, TypeInv
  <2> QED
    BY <1>1, <1>2, <2>1, <2>2, <2>3
<1>13. ASSUME NEW c \in Clients, Answer(c) PROVE CursorInv'
  <2> DEFINE a == req[c].after
             new == req[c].upTo - req[c].after
             ids == shown[c] \o [k \in 1..new |-> a + k]
  <2>1. /\ shown'[c] = ids /\ lastId'[c] = IF new > 0 THEN req[c].upTo ELSE lastId[c]
        /\ pc'[c] \notin Serving /\ UNCHANGED <<emitted, row>>
        /\ pc[c] \in Serving
    BY <1>13 DEF Answer, AfterResult, Serving, TypeInv
  <2>2. /\ a \in Nat /\ new \in Nat /\ req[c].upTo = a + new /\ req[c].upTo <= emitted
        /\ shown[c] \in Seq(Nat \ {0}) /\ req[c].upTo \in Nat
    BY <1>1, <2>1 DEF TypeInv, Requests, ClientCursor
  <2>3. /\ ids \in Seq(Nat \ {0})
        /\ Len(shown[c]) \in Nat /\ DOMAIN shown[c] = 1..Len(shown[c])
        /\ Len(ids) = Len(shown[c]) + new
        /\ DOMAIN ids = 1..(Len(shown[c]) + new)
        /\ \A k \in 1..Len(shown[c]) : ids[k] = shown[c][k]
        /\ \A k \in 1..new : ids[Len(shown[c]) + k] = a + k
    BY <2>2, Concat
  <2>4. ClientCursor(c)
    BY <1>1
  <2> HIDE DEF ids, new, a
  <2>5. ASSUME lastId'[c] = NoId => ids = <<>>,
               lastId'[c] # NoId => /\ ids # <<>> /\ lastId'[c] <= emitted
                                    /\ lastId'[c] = ids[1] + Len(ids) - 1,
               \A k \in DOMAIN ids : ids[k] = ids[1] + k - 1
        PROVE  ClientCursor(c)'
    <3>1. pc'[c] # "collecting"
      BY <2>1 DEF Serving
    <3> QED
      BY <2>1, <2>5, <3>1 DEF ClientCursor
  <2>6. ASSUME lastId[c] = NoId PROVE ClientCursor(c)'
    <3>1. shown[c] = <<>> /\ Len(shown[c]) = 0
      BY <2>4, <2>6 DEF ClientCursor
    <3>2. Len(ids) = new /\ DOMAIN ids = 1..new /\ \A k \in 1..new : ids[k] = a + k
      BY <2>2, <2>3, <3>1
    <3>3. CASE new = 0
      <4>1. ids = <<>> /\ lastId'[c] = NoId
        BY <2>1, <2>3, <2>6, <3>2, <3>3
      <4>2. \A k \in DOMAIN ids : ids[k] = ids[1] + k - 1
        BY <3>2, <3>3
      <4> QED
        BY <2>5, <4>1, <4>2
    <3>4. CASE new # 0
      <4>1. ids # <<>> /\ ids[1] = a + 1 /\ lastId'[c] = a + new
        BY <2>1, <2>2, <2>3, <3>2, <3>4
      <4>2. \A k \in DOMAIN ids : ids[k] = ids[1] + k - 1
        BY <2>2, <3>2, <4>1
      <4>3. lastId'[c] # NoId /\ lastId'[c] <= emitted /\ lastId'[c] = ids[1] + Len(ids) - 1
        BY <2>2, <3>2, <4>1, NoIdAssumption
      <4> QED
        BY <2>5, <4>1, <4>2, <4>3
    <3> QED
      BY <3>3, <3>4
  <2>7. ASSUME lastId[c] # NoId PROVE ClientCursor(c)'
    <3>1. /\ shown[c] # <<>> /\ lastId[c] = a /\ a = shown[c][1] + Len(shown[c]) - 1
          /\ \A k \in DOMAIN shown[c] : shown[c][k] = shown[c][1] + k - 1
      BY <2>1, <2>4, <2>7 DEF ClientCursor, a
    <3>2. Len(shown[c]) \in Nat \ {0} /\ shown[c][1] \in Nat /\ ids[1] = shown[c][1]
      BY <2>2, <2>3, <3>1
    <3>3. \A k \in DOMAIN ids : ids[k] = ids[1] + k - 1
      <4> SUFFICES ASSUME NEW k \in DOMAIN ids PROVE ids[k] = ids[1] + k - 1
        OBVIOUS
      <4>1. CASE k <= Len(shown[c])
        BY <2>3, <3>1, <3>2, <4>1
      <4>2. CASE k > Len(shown[c])
        <5>1. k - Len(shown[c]) \in 1..new
          BY <2>2, <2>3, <3>2, <4>2
        <5>2. ids[Len(shown[c]) + (k - Len(shown[c]))] = a + (k - Len(shown[c]))
          BY <2>3, <5>1
        <5>3. Len(shown[c]) + (k - Len(shown[c])) = k /\ k \in Nat
          BY <2>3, <3>2
        <5> QED
          BY <2>2, <3>1, <3>2, <5>2, <5>3
      <4> QED
        BY <2>3, <3>2, <4>1, <4>2
    <3>4. lastId'[c] = a + new /\ ids # <<>> /\ a + new = ids[1] + Len(ids) - 1
      <4>1. lastId'[c] = a + new
        <5>1. CASE new > 0
          BY <2>1, <2>2, <5>1
        <5>2. CASE ~(new > 0)
          <6>1. lastId'[c] = a
            BY <2>1, <3>1, <5>2
          <6> QED
            BY <2>2, <5>2, <6>1
        <5> QED
          BY <5>1, <5>2
      <4>2. Len(ids) = Len(shown[c]) + new
        BY <2>3
      <4>3. Len(ids) # 0
        BY <2>2, <3>2, <4>2
      <4>4. ids # <<>>
        BY <4>3
      <4>5. ids[1] \in Nat /\ a = ids[1] + Len(shown[c]) - 1
        BY <3>1, <3>2
      <4>6. a + new = ids[1] + Len(ids) - 1
        BY <2>2, <3>2, <4>2, <4>5, LastOfAnswer
      <4> QED
        BY <4>1, <4>4, <4>6
    <3>5. lastId'[c] # NoId /\ lastId'[c] <= emitted
      BY <2>2, <3>4, NoIdAssumption
    <3> QED
      BY <2>5, <3>3, <3>4, <3>5
  <2>8. \A d \in Clients \ {c} : ClientCursor(d)'
    BY <1>7, <1>13 DEF Answer, TypeInv
  <2> QED
    BY <1>1, <1>2, <2>1, <2>6, <2>7, <2>8
<1> QED
  BY <1>5, <1>6, <1>8, <1>9, <1>10, <1>11, <1>12, <1>13 DEF Next, Poll

-----------------------------------------------------------------------------
LEMMA CoverInit == Init => CoverInv
BY DEF Init, CoverInv, CoveredTo, Serving, Exists

(* An answer shows what was on its way.                                    *)
LEMMA AnswerShows ==
    ASSUME TypeInv, NEW c \in Clients, Answer(c), NEW i \in Nat, InShown(c, i) \/ InFlight(c, i)
    PROVE  InShown(c, i)'
<1> DEFINE a == req[c].after
           new == req[c].upTo - req[c].after
           ids == shown[c] \o [k \in 1..new |-> a + k]
<1>1. shown'[c] = ids
  BY DEF Answer, TypeInv
<1>2. a \in Nat /\ new \in Nat /\ shown[c] \in Seq(Nat \ {0}) /\ req[c].upTo = a + new
  BY DEF TypeInv, Requests
<1>3. /\ Len(shown[c]) \in Nat /\ DOMAIN shown[c] = 1..Len(shown[c])
      /\ DOMAIN ids = 1..(Len(shown[c]) + new)
      /\ \A k \in 1..Len(shown[c]) : ids[k] = shown[c][k]
      /\ \A k \in 1..new : ids[Len(shown[c]) + k] = a + k
  BY <1>2, Concat
<1>4. InFlight(c, i) => a < i /\ i <= a + new
  BY <1>2 DEF InFlight
<1> HIDE DEF a, new, ids
<1>5. \E k \in DOMAIN ids : ids[k] = i
  <2>1. CASE InShown(c, i)
    <3>1. PICK k \in DOMAIN shown[c] : shown[c][k] = i
      BY <2>1 DEF InShown
    <3>2. k \in DOMAIN ids /\ ids[k] = i
      BY <1>2, <1>3, <3>1
    <3> QED
      BY <3>2
  <2>2. CASE InFlight(c, i)
    <3>1. PICK j \in 1..new : a + j = i
      <4>1. i - a \in 1..new /\ a + (i - a) = i
        BY <1>2, <1>4, <2>2
      <4> QED
        BY <4>1
    <3>2. ids[Len(shown[c]) + j] = i
      BY <1>3, <3>1
    <3>3. Len(shown[c]) + j \in 1..(Len(shown[c]) + new)
      BY <1>2, <1>3
    <3> QED
      BY <1>3, <3>2, <3>3
  <2> QED
    BY <2>1, <2>2
<1> QED
  BY <1>1, <1>5 DEF InShown

(* As long as no answer is lost, what is covered stays covered.            *)
LEMMA CoveredKept ==
    ASSUME TypeInv, CursorInv, [Next]_vars, faults' = 0, NEW i \in Nat, Covered(i)
    PROVE  Covered(i)'
<1>1. PICK c \in Clients : InShown(c, i) \/ InFlight(c, i)
  BY DEF Covered
<1>2. SUFFICES InShown(c, i)' \/ InFlight(c, i)'
  BY DEF Covered
<1>3. ASSUME shown'[c] = shown[c], req'[c] = req[c], pc[c] \in Serving => pc'[c] \in Serving
      PROVE  InShown(c, i)' \/ InFlight(c, i)'
  BY <1>1, <1>3 DEF InShown, InFlight
<1>4. ASSUME shown'[c] = shown[c], pc[c] \notin Serving \/ req[c].upTo = req[c].after
      PROVE  InShown(c, i)' \/ InFlight(c, i)'
  <2>1. ~InFlight(c, i)
    BY <1>4 DEF InFlight, TypeInv, Requests
  <2> QED
    BY <1>1, <1>4, <2>1 DEF InShown
<1>5. CASE UNCHANGED clientVars
  BY <1>3, <1>5 DEF clientVars
<1>6. ASSUME NEW d \in Clients, d # c, Poll(d) \/ DocumentStatus(d, FALSE) \/ LoseAnswer(d)
      PROVE  InShown(c, i)' \/ InFlight(c, i)'
  BY <1>3, <1>6 DEF Poll, DocumentStatus, ReadDocTask, GetDocSnippets, MarkDelivered,
                    ClearTask, Answer, LoseAnswer, TypeInv
<1>7. ASSUME NEW answered \in BOOLEAN, DocumentStatus(c, answered)
      PROVE  InShown(c, i)' \/ InFlight(c, i)'
  BY <1>4, <1>7 DEF DocumentStatus, Serving
<1>8. CASE ReadDocTask(c)
  BY <1>4, <1>8 DEF ReadDocTask, Serving
<1>9. CASE GetDocSnippets(c)
  BY <1>4, <1>9 DEF GetDocSnippets, CursorInv
<1>10. CASE MarkDelivered(c) \/ ClearTask(c)
  BY <1>3, <1>10 DEF MarkDelivered, ClearTask, Serving, TypeInv
<1>11. CASE Answer(c)
  BY <1>1, <1>11, AnswerShows
<1>12. CASE LoseAnswer(c)
  BY <1>12 DEF LoseAnswer, Fault, TypeInv
<1>13. Work \/ WorkerEnds \/ UNCHANGED vars => UNCHANGED clientVars
  BY DEF Work, ClaimNextDocTask, MarkFailed, AppendDocSnippet, ReportRunning, Complete,
         WorkerEnds, vars
<1> QED
  BY <1>5, <1>6, <1>7, <1>8, <1>9, <1>10, <1>11, <1>12, <1>13 DEF Next, Poll

LEMMA FaultsGrow == ASSUME TypeInv, [Next]_vars, faults' = 0 PROVE faults = 0
<1>1. Work \/ UNCHANGED vars => faults' = faults
  BY DEF Work, ClaimNextDocTask, MarkFailed, AppendDocSnippet, ReportRunning, Complete, vars
<1>2. \A c \in Clients : Poll(c) => faults' = faults
  BY DEF Poll, DocumentStatus, ReadDocTask, GetDocSnippets, MarkDelivered, ClearTask, Answer
<1>3. \A c \in Clients : WorkerEnds \/ DocumentStatus(c, FALSE) \/ LoseAnswer(c) => Fault
  BY DEF WorkerEnds, DocumentStatus, LoseAnswer
<1>4. ~Fault
  BY DEF Fault, TypeInv
<1>5. WorkerEnds => Fault
  BY DEF WorkerEnds
<1> QED
  BY <1>1, <1>2, <1>3, <1>4, <1>5 DEF Next

(* The row goes in ClearTask only, and never comes back.                   *)
LEMMA RowGone ==
    ASSUME TypeInv, WorkerInv, [Next]_vars
    PROVE  /\ ~Exists => ~Exists'
           /\ Exists /\ ~Exists' => \E c \in Clients : ClearTask(c) /\ req[c].upTo >= snippets
<1>1. ASSUME NEW state \in Statuses, NEW done, UpdateDocProgress(state, done)
      PROVE  Exists' <=> Exists
  BY <1>1 DEF UpdateDocProgress, Exists, TypeInv, Statuses
<1>2. ASSUME Work PROVE Exists' <=> Exists
  <2>1. ASSUME ClaimNextDocTask PROVE Exists' <=> Exists
    BY <2>1 DEF ClaimNextDocTask, Exists, TypeInv
  <2> QED
    BY <1>1, <1>2, <2>1 DEF Work, MarkFailed, AppendDocSnippet, ReportRunning, Complete,
                            Statuses, Exists
<1>3. ASSUME row' = row PROVE Exists' <=> Exists
  BY <1>3 DEF Exists
<1>4. ASSUME NEW c \in Clients, MarkDelivered(c) PROVE Exists' <=> Exists
  BY <1>4 DEF MarkDelivered, Exists, TypeInv
<1>5. ASSUME NEW c \in Clients, ClearTask(c)
      PROVE  row' = row \/ (~Exists' /\ req[c].upTo >= snippets)
  BY <1>5 DEF ClearTask, Exists, Absent
<1>6. ASSUME NEW c \in Clients,
             \/ \E answered \in BOOLEAN : DocumentStatus(c, answered)
             \/ ReadDocTask(c) \/ GetDocSnippets(c) \/ Answer(c) \/ LoseAnswer(c)
      PROVE  row' = row
  BY <1>6 DEF DocumentStatus, ReadDocTask, GetDocSnippets, Answer, LoseAnswer
<1>7. WorkerEnds \/ UNCHANGED vars => row' = row
  BY DEF WorkerEnds, vars
<1> QED
  BY <1>2, <1>3, <1>4, <1>5, <1>6, <1>7 DEF Next, Poll

(* What CoverInv says of one client.                                       *)
Collected(c) == pc[c] \in {"marking", "clearing", "answering"}
Latest(c) == ~Exists \/ emitted <= req[c].upTo
ClientCover(c) ==
    /\ pc[c] \in Serving => CoveredTo(req[c].after)
    /\ lastId[c] # NoId => CoveredTo(lastId[c])
    /\ Collected(c) /\ (req[c].done \/ status[c] \in TerminalStates) => Latest(c)
    /\ pc[c] = "stopped" => CoveredTo(emitted)

LEMMA CoverStep ==
    TypeInv /\ WorkerInv /\ CursorInv /\ CoverInv /\ [Next]_vars => CoverInv'
<1> SUFFICES ASSUME TypeInv, WorkerInv, CursorInv, CoverInv, [Next]_vars, faults' = 0
             PROVE  /\ CoveredTo(row.cursor)'
                    /\ ~Exists' => CoveredTo(emitted)'
                    /\ \A c \in Clients : ClientCover(c)'
  BY DEF CoverInv, ClientCover, Collected, Latest
<1>1. faults = 0
  BY FaultsGrow
<1>2. /\ CoveredTo(row.cursor)
      /\ ~Exists => CoveredTo(emitted)
      /\ \A c \in Clients : ClientCover(c)
  BY <1>1 DEF CoverInv, ClientCover, Collected, Latest
<1>3. /\ row.cursor \in Nat /\ emitted \in Nat
      /\ \A c \in Clients : /\ req[c].after \in Nat /\ req[c].upTo \in Nat
                            /\ req[c].after <= req[c].upTo
                            /\ lastId[c] # NoId => lastId[c] \in Nat
  BY DEF TypeInv, Requests
<1>4. ASSUME NEW n \in Nat, CoveredTo(n) PROVE \A i \in 1..n : Covered(i)'
  BY <1>4, CoveredKept DEF CoveredTo
<1>5. ASSUME NEW c \in Clients, pc[c] \in Serving PROVE CoveredTo(req[c].upTo)
  <2>1. CoveredTo(req[c].after)
    BY <1>2, <1>5 DEF ClientCover
  <2>2. \A i \in 1..req[c].upTo : i \notin 1..req[c].after => InFlight(c, i)
    BY <1>3, <1>5 DEF InFlight
  <2> QED
    BY <2>1, <2>2 DEF CoveredTo, Covered
<1>6. /\ ~Exists => ~Exists'
      /\ Exists /\ ~Exists' => \E c \in Clients : ClearTask(c) /\ req[c].upTo >= snippets
  BY RowGone
<1>7. Over => Over' /\ emitted' = emitted
  BY OverKept
<1>8. ~Exists' => CoveredTo(emitted)'
  <2>1. CASE ~Exists
    BY <2>1, <1>2, <1>3, <1>4, <1>7 DEF Over, Exists, CoveredTo
  <2>2. CASE Exists /\ ~Exists'
    <3>1. PICK c \in Clients : ClearTask(c) /\ req[c].upTo >= snippets
      BY <1>6, <2>2
    <3>2. CoveredTo(req[c].upTo) /\ emitted <= req[c].upTo /\ emitted' = emitted
      BY <1>5, <2>2, <3>1 DEF ClearTask, Serving, WorkerInv
    <3>3. CoveredTo(emitted)
      BY <1>3, <3>2 DEF CoveredTo
    <3> QED
      BY <1>3, <1>4, <3>2, <3>3 DEF CoveredTo
  <2> QED
    BY <2>1, <2>2
<1>9. CoveredTo(row.cursor)'
  <2>1. \/ row'.cursor = row.cursor \/ row'.cursor = 0
        \/ \E c \in Clients : pc[c] \in Serving /\ row'.cursor = req[c].upTo
    <3>1. ASSUME Work PROVE row'.cursor = row.cursor
      BY <3>1 DEF Work, ClaimNextDocTask, MarkFailed, AppendDocSnippet, ReportRunning, Complete,
                  UpdateDocProgress, TypeInv
    <3>2. WorkerEnds \/ UNCHANGED vars => row' = row
      BY DEF WorkerEnds, vars
    <3>3. ASSUME NEW c \in Clients, MarkDelivered(c)
          PROVE  row' = row \/ (pc[c] \in Serving /\ row'.cursor = req[c].upTo)
      BY <3>3 DEF MarkDelivered, Serving, TypeInv
    <3>4. ASSUME NEW c \in Clients, ClearTask(c) PROVE row' = row \/ row'.cursor = 0
      BY <3>4 DEF ClearTask, Absent
    <3>5. ASSUME NEW c \in Clients,
                 \/ \E answered \in BOOLEAN : DocumentStatus(c, answered)
                 \/ ReadDocTask(c) \/ GetDocSnippets(c) \/ Answer(c) \/ LoseAnswer(c)
          PROVE  row' = row
      BY <3>5 DEF DocumentStatus, ReadDocTask, GetDocSnippets, Answer, LoseAnswer
    <3> QED
      BY <3>1, <3>2, <3>3, <3>4, <3>5 DEF Next, Poll
  <2> QED
    BY <2>1, <1>2, <1>3, <1>4, <1>5 DEF CoveredTo
<1>10. ASSUME NEW c \in Clients, pc[c] = "stopped" \/ (Collected(c) /\ req[c].done)
                                \/ status[c] \in TerminalStates
       PROVE  Over
  BY <1>10 DEF WorkerInv, Collected, Serving
<1>11. ASSUME NEW c \in Clients, lastId'[c] = lastId[c],
              pc'[c] \in Serving => pc[c] \in Serving /\ req'[c] = req[c],
              Collected(c)' /\ (req'[c].done \/ status'[c] \in TerminalStates) => Latest(c)',
              pc'[c] = "stopped" => pc[c] = "stopped" \/ ~Exists
       PROVE  ClientCover(c)'
  <2>1. ClientCover(c)
    BY <1>2
  <2>2. pc'[c] \in Serving => CoveredTo(req[c].after)' /\ req'[c].after = req[c].after
    BY <1>3, <1>4, <1>11, <2>1 DEF ClientCover, CoveredTo
  <2>3. lastId'[c] # NoId => \A i \in 1..lastId[c] : Covered(i)'
    BY <1>3, <1>4, <1>11, <2>1 DEF ClientCover
  <2>4. pc'[c] = "stopped" => \A i \in 1..emitted' : Covered(i)'
    BY <1>2, <1>3, <1>4, <1>6, <1>7, <1>8, <1>10, <1>11, <2>1 DEF ClientCover, CoveredTo
  <2> QED
    BY <1>11, <2>2, <2>3, <2>4 DEF ClientCover, CoveredTo
<1>12. ASSUME UNCHANGED clientVars PROVE \A c \in Clients : ClientCover(c)'
  <2> SUFFICES ASSUME NEW c \in Clients PROVE ClientCover(c)'
    OBVIOUS
  <2>1. UNCHANGED <<pc, req, lastId, status>>
    BY <1>12 DEF clientVars
  <2>2. Collected(c) /\ (req[c].done \/ status[c] \in TerminalStates) => Latest(c)'
    BY <1>2, <1>6, <1>7, <1>10, <2>1 DEF ClientCover, Latest
  <2> QED
    BY <1>11, <2>1, <2>2 DEF Collected
<1>13. ASSUME NEW c \in Clients,
              \A d \in Clients \ {c} : /\ pc'[d] = pc[d] /\ lastId'[d] = lastId[d]
                                      /\ req'[d] = req[d] /\ status'[d] = status[d],
              ClientCover(c)'
       PROVE  \A d \in Clients : ClientCover(d)'
  <2> SUFFICES ASSUME NEW d \in Clients, d # c PROVE ClientCover(d)'
    BY <1>13
  <2>1. Collected(d) /\ (req[d].done \/ status[d] \in TerminalStates) => Latest(d)'
    BY <1>2, <1>6, <1>7, <1>10, <1>13 DEF ClientCover, Latest
  <2> QED
    BY <1>11, <1>13, <2>1 DEF Collected
<1>14. ASSUME NEW c \in Clients, NEW answered \in BOOLEAN, DocumentStatus(c, answered)
       PROVE  \A d \in Clients : ClientCover(d)'
  <2>1. /\ pc'[c] \notin Serving /\ lastId' = lastId
        /\ pc'[c] = "stopped" => ~Exists
    BY <1>14 DEF DocumentStatus, Serving, StopsAtStatus, TypeInv
  <2>2. ClientCover(c)'
    BY <1>11, <2>1 DEF Collected, Serving
  <2> QED
    BY <1>13, <1>14, <2>2 DEF DocumentStatus, TypeInv
<1>15. ASSUME NEW c \in Clients, ReadDocTask(c) PROVE \A d \in Clients : ClientCover(d)'
  <2>1. /\ lastId' = lastId /\ req'[c].after = After(c)
        /\ pc'[c] = "collecting" \/ (pc'[c] = "stopped" /\ ~Exists)
    BY <1>15 DEF ReadDocTask, TypeInv
  <2>2. \A i \in 1..After(c) : Covered(i)'
    BY <1>2, <1>3, <1>4 DEF After, ClientCover
  <2>3. lastId'[c] # NoId => \A i \in 1..lastId[c] : Covered(i)'
    BY <1>2, <1>3, <1>4, <2>1 DEF ClientCover
  <2>4. ClientCover(c)'
    BY <1>6, <1>8, <2>1, <2>2, <2>3 DEF ClientCover, Collected, CoveredTo
  <2> QED
    BY <1>13, <1>15, <2>4 DEF ReadDocTask, TypeInv
<1>16. ASSUME NEW c \in Clients, GetDocSnippets(c) PROVE \A d \in Clients : ClientCover(d)'
  <2>1. /\ UNCHANGED <<row, snippets, emitted, lastId, status>>
        /\ pc[c] \in Serving /\ req'[c].after = req[c].after /\ req'[c].done = req[c].done
        /\ pc'[c] # "stopped"
        /\ \/ req'[c].upTo = snippets
           \/ snippets <= req[c].after /\ req' = req
    BY <1>3, <1>16 DEF GetDocSnippets, TypeInv, Requests, Serving
  <2>2. Latest(c)'
    BY <1>3, <2>1 DEF Latest, WorkerInv, Exists
  <2>3. ClientCover(c)
    BY <1>2
  <2>4. \A i \in 1..req[c].after : Covered(i)'
    BY <1>3, <1>4, <2>1, <2>3 DEF ClientCover
  <2>5. lastId'[c] # NoId => \A i \in 1..lastId[c] : Covered(i)'
    BY <1>3, <1>4, <2>1, <2>3 DEF ClientCover
  <2>6. ClientCover(c)'
    BY <2>1, <2>2, <2>4, <2>5 DEF ClientCover, CoveredTo
  <2> QED
    BY <1>13, <1>16, <2>6 DEF GetDocSnippets, TypeInv
<1>17. ASSUME NEW c \in Clients, MarkDelivered(c) \/ ClearTask(c)
       PROVE  \A d \in Clients : ClientCover(d)'
  <2>1. /\ UNCHANGED <<emitted, lastId, status, req>>
        /\ Collected(c) /\ pc[c] \in Serving /\ pc'[c] # "stopped"
    BY <1>17 DEF MarkDelivered, ClearTask, Collected, Serving, TypeInv
  <2>2. req[c].done \/ status[c] \in TerminalStates => Latest(c)'
    BY <1>2, <1>6, <2>1 DEF ClientCover, Latest
  <2>3. ClientCover(c)'
    BY <1>11, <2>1, <2>2
  <2> QED
    BY <1>13, <1>17, <2>3 DEF MarkDelivered, ClearTask, TypeInv
<1>18. ASSUME NEW c \in Clients, Answer(c) PROVE \A d \in Clients : ClientCover(d)'
  <2>1. /\ UNCHANGED <<row, emitted, status>>
        /\ pc[c] \in Serving /\ Collected(c)
        /\ lastId'[c] \in {lastId[c], req[c].upTo}
        /\ pc'[c] = "polling" \/ (pc'[c] = "stopped" /\ status[c] \in TerminalStates)
    BY <1>18 DEF Answer, AfterResult, TypeInv, Collected, Serving
  <2>2. \A i \in 1..req[c].upTo : Covered(i)'
    BY <1>3, <1>4, <1>5, <2>1
  <2>3. lastId'[c] # NoId => \A i \in 1..lastId'[c] : Covered(i)'
    BY <1>2, <1>3, <1>4, <2>1, <2>2 DEF ClientCover
  <2>4. pc'[c] = "stopped" => \A i \in 1..emitted' : Covered(i)'
    <3> SUFFICES ASSUME pc'[c] = "stopped" PROVE \A i \in 1..emitted' : Covered(i)'
      OBVIOUS
    <3>1. Latest(c)
      BY <1>2, <2>1 DEF ClientCover
    <3>2. CASE ~Exists
      BY <1>6, <1>8, <3>2 DEF CoveredTo
    <3>3. CASE emitted <= req[c].upTo
      BY <1>3, <2>1, <2>2, <3>3
    <3> QED
      BY <3>1, <3>2, <3>3 DEF Latest
  <2>5. pc'[c] \notin Serving /\ ~Collected(c)'
    BY <2>1 DEF Serving, Collected
  <2>6. ClientCover(c)'
    BY <2>3, <2>4, <2>5 DEF ClientCover, CoveredTo
  <2> QED
    BY <1>13, <1>18, <2>6 DEF Answer, TypeInv
<1>19. ASSUME NEW c \in Clients, LoseAnswer(c) PROVE FALSE
  BY <1>1, <1>19 DEF LoseAnswer, Fault
<1>20. Work \/ WorkerEnds \/ UNCHANGED vars => UNCHANGED clientVars
  BY DEF Work, ClaimNextDocTask, MarkFailed, AppendDocSnippet, ReportRunning, Complete,
         WorkerEnds, vars
<1>21. \A c \in Clients : ClientCover(c)'
  BY <1>12, <1>14, <1>15, <1>16, <1>17, <1>18, <1>19, <1>20 DEF Next, Poll
<1> QED
  BY <1>8, <1>9, <1>21

-----------------------------------------------------------------------------
LEMMA Inductive == Spec => [](TypeInv /\ WorkerInv /\ CursorInv /\ CoverInv)
<1> DEFINE Inv == TypeInv /\ WorkerInv /\ CursorInv /\ CoverInv
<1>1. Init => Inv
  BY TypeInit, WorkerInit, CursorInit, CoverInit
<1>2. Inv /\ [Next]_vars => Inv'
  BY TypeStep, WorkerStep, CursorStep, CoverStep
<1> QED
  BY <1>1, <1>2, PTL DEF Spec

(* No snippet is left behind when a client's request deletes the task: the *)
(* worker never appends to a task that is gone.                            *)
THEOREM NoOrphanSnippets == Spec => []NoOrphans
<1>1. WorkerInv => NoOrphans
  BY DEF WorkerInv, NoOrphans
<1> QED
  BY Inductive, <1>1, PTL

(* Each client shows consecutive snippets, whoever moves the shared cursor *)
(* and whichever answers are lost.                                         *)
THEOREM WithoutGaps == Spec => []ShownWithoutGaps
<1>1. CursorInv => ShownWithoutGaps
  BY DEF CursorInv
<1> QED
  BY Inductive, <1>1, PTL

(* Between them, the clients of a task that has one show every snippet     *)
(* before they stop, if no answer is lost, although they share the cursor  *)
(* and the last of them deletes the snippets.                              *)
THEOREM NothingLeftOut ==
    ASSUME Clients # {} PROVE Spec => []EverySnippetShown
<1>1. TypeInv /\ CursorInv /\ CoverInv => EverySnippetShown
  <2> SUFFICES ASSUME TypeInv, CursorInv, CoverInv,
                      \A c \in Clients : pc[c] = "stopped", faults = 0, NEW i \in 1..emitted
               PROVE  \E c \in Clients, k \in 1..MaxSnippets :
                         k \in DOMAIN shown[c] /\ shown[c][k] = i
    BY DEF EverySnippetShown
  <2>1. CoveredTo(emitted)
    BY DEF CoverInv
  <2>2. PICK c \in Clients : InShown(c, i)
    BY <2>1 DEF CoveredTo, Covered, InFlight, Serving
  <2>3. PICK k \in DOMAIN shown[c] : shown[c][k] = i
    BY <2>2 DEF InShown
  <2>4. shown[c] \in Seq(Nat \ {0}) /\ emitted <= MaxSnippets /\ MaxSnippets \in Nat
        /\ emitted \in Nat /\ shown[c][k] = shown[c][1] + k - 1
    BY BoundAssumption DEF TypeInv, CursorInv, ShownWithoutGaps
  <2>5. k \in Nat \ {0} /\ shown[c][1] \in Nat \ {0}
    BY <2>4
  <2>6. k \in 1..MaxSnippets
    BY <2>3, <2>4, <2>5
  <2> QED
    BY <2>3, <2>6
<1> QED
  BY Inductive, <1>1, PTL
=============================================================================
