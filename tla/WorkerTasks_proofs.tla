------------------------- MODULE WorkerTasks_proofs -------------------------
(***************************************************************************)
(* Proofs about WorkerTasks, for a file of any length with any number of   *)
(* hits, any number of digits, any batch size and any number of faults:    *)
(* what the order of a task's events says of progress, chunks and result.  *)
(*   TypeInv      types                                                    *)
(*   ProgressInv  what was told so far, against the task's next report     *)
(*   QuietInv     no terminal status before the task is about to end       *)
(*   ChunkInv     the unsent batch, against the chunks and the items       *)
(*   AssembledInv what a reader has assembled, against the items           *)
(*   FinalInv     what the final reports say, against what was sent        *)
(*   CountInv     the last status of compute_pi, against the digits        *)
(***************************************************************************)
EXTENDS WorkerTasks, WellFoundedInduction, TLAPS

StatusEvents == [type : {"status"}, state : {"RUNNING", "FAILED", "COMPLETED"}, current : Nat]
ChunkEvents == [type : {"chunk"}, id : Nat, data : Seq(Nat), isLast : BOOLEAN]
ResultEvents == [type : {"result"}, data : Seq(Nat) \cup Nat]
TaskEvents == StatusEvents \cup ChunkEvents \cup ResultEvents

PiStages == {"count", "digit", "exit", "unwind", "result"}
DocumentStages ==
    {"start", "scan", "snippet", "status", "exit", "unwind", "completed", "result"}

TypeInv ==
    /\ stream \in Seq(TaskEvents) /\ faults \in Nat
    /\ chunkIndex \in Nat /\ batch \in Seq(Nat) /\ emitted \in Seq(Nat)
    /\ digits \in Nat
    /\ tell \in Nat /\ hits \in SUBSET Nat
    /\ snippets \in Nat /\ bytesRead \in Nat
    /\ totalBytes \in Nat /\ fileEnd \in Nat /\ truncated \in BOOLEAN
    /\ \/ task = "compute_pi" /\ pc \in PiStages \cup Ended
       \/ task = "document_analysis" /\ pc \in DocumentStages \cup Ended

LEMMA InRead ==
    ASSUME NEW m \in Nat, NEW n \in Nat, NEW h \in m..(n - 1)
    PROVE  h \in Nat /\ m <= h /\ h < n
OBVIOUS

LEMMA MinIsLeast ==
    ASSUME NEW S \in SUBSET Nat, S # {}
    PROVE  Min(S) \in S /\ \A n \in S : Min(S) <= n
<1>1. \E m \in S : \A n \in S : m <= n
  <2> DEFINE less == {p \in Nat \X Nat : p[1] < p[2]}
  <2>1. IsWellFoundedOn(less, Nat)
    BY NatLessThanWellFounded DEF OpToRel
  <2>2. \A m, n \in Nat : n < m => <<n, m>> \in less
    OBVIOUS
  <2> HIDE DEF less
  <2>3. PICK m \in S : \A n \in S : ~ (<<n, m>> \in less)
    BY <2>1, WFMin
  <2>4. \A n \in S : ~(n < m) /\ n \in Nat /\ m \in Nat
    BY <2>2, <2>3
  <2> QED
    BY <2>4
<1> QED
  BY <1>1 DEF Min

-----------------------------------------------------------------------------
(* A call that publishes adds its event once or, after a fault, twice or   *)
(* not at all, and touches nothing that was in the stream before.          *)
Adds(event) ==
    /\ stream' \in Seq(TaskEvents) /\ faults' \in Nat /\ faults <= faults'
    /\ \A i \in DOMAIN stream : i \in DOMAIN stream' /\ stream'[i] = stream[i]
    /\ \A i \in DOMAIN stream' :
          \/ i \in DOMAIN stream
          \/ stream'[i] = event /\ \A j \in DOMAIN stream : j < i
    /\ faults' > 0 \/ \A i, j \in DOMAIN stream' \ DOMAIN stream : i = j

LEMMA PublishAdds ==
    ASSUME TypeInv, NEW event \in TaskEvents, NEW ok \in BOOLEAN, Publish(event, ok)
    PROVE  Adds(event)
<1> DEFINE n == Len(stream)
<1>1. stream \in Seq(TaskEvents) /\ faults \in Nat /\ n \in Nat
      /\ DOMAIN stream = 1..n
  BY DEF TypeInv
<1>2. CASE stream' = Append(stream, event) /\ faults' \in Nat /\ faults <= faults'
  <2>1. /\ stream' \in Seq(TaskEvents) /\ DOMAIN stream' = 1..(n + 1)
        /\ stream'[n + 1] = event
        /\ \A i \in 1..n : stream'[i] = stream[i]
    BY <1>1, <1>2
  <2> HIDE DEF n
  <2> QED
    BY <1>1, <1>2, <2>1 DEF Adds
<1>3. CASE stream' = stream \o <<event, event>> /\ faults' = faults + 1
  <2>1. /\ stream' \in Seq(TaskEvents) /\ DOMAIN stream' = 1..(n + 2)
        /\ stream'[n + 1] = event /\ stream'[n + 2] = event
        /\ \A i \in 1..n : stream'[i] = stream[i]
    BY <1>1, <1>3
  <2> HIDE DEF n
  <2> QED
    BY <1>1, <1>3, <2>1 DEF Adds
<1>4. CASE stream' = stream /\ faults' = faults + 1
  BY <1>1, <1>4 DEF Adds
<1>5. \/ stream' = Append(stream, event) /\ faults' = faults
      \/ stream' = stream \o <<event, event>> /\ faults' = faults + 1
      \/ stream' \in {stream, Append(stream, event)} /\ faults' = faults + 1
  BY DEF Publish
<1>6. faults + 1 \in Nat /\ faults <= faults + 1 /\ faults <= faults
  BY <1>1
<1> QED
  BY <1>1, <1>2, <1>3, <1>4, <1>5, <1>6

LEMMA EventTypes ==
    /\ \A s \in {"RUNNING", "FAILED", "COMPLETED"}, n \in Nat :
          /\ Status(s, n) \in TaskEvents
          /\ IsStatus(Status(s, n)) /\ Status(s, n).state = s /\ Status(s, n).current = n
    /\ \A id \in Nat, data \in Seq(Nat), isLast \in BOOLEAN :
          /\ Chunk(id, data, isLast) \in TaskEvents
          /\ ~IsStatus(Chunk(id, data, isLast))
    /\ \A data \in Seq(Nat) \cup Nat :
          Result(data) \in TaskEvents /\ Result(data).type = "result" /\ ~IsStatus(Result(data))
BY DEF Status, Chunk, Result, TaskEvents, StatusEvents, ChunkEvents, ResultEvents, IsStatus

LEMMA StatusFields ==
    ASSUME NEW e \in TaskEvents, IsStatus(e) PROVE e.current \in Nat
BY DEF TaskEvents, StatusEvents, ChunkEvents, ResultEvents, IsStatus

ReporterTypes ==
    /\ stream' \in Seq(TaskEvents) /\ faults' \in Nat
    /\ chunkIndex' \in Nat /\ batch' \in Seq(Nat) /\ emitted' \in Seq(Nat)

(* The calls of a reporter, by what they may add.                          *)
LEMMA ReportAdds ==
    ASSUME TypeInv, NEW event \in TaskEvents, NEW ok \in BOOLEAN, Report(event, ok)
    PROVE  Adds(event) /\ ReporterTypes
BY PublishAdds DEF Report, Adds, ReporterTypes, TypeInv

LEMMA FlushAdds ==
    ASSUME TypeInv, NEW items \in Seq(Nat), NEW isLast \in BOOLEAN, NEW ok \in BOOLEAN,
           Flush(items, isLast, ok)
    PROVE  /\ \E e \in TaskEvents : ~IsStatus(e) /\ Adds(e)
           /\ stream' \in Seq(TaskEvents) /\ faults' \in Nat
           /\ chunkIndex' \in Nat /\ batch' \in Seq(Nat)
<1>1. chunkIndex \in Nat
  BY DEF TypeInv
<1>2. Chunk(chunkIndex, items, isLast) \in TaskEvents
      /\ ~IsStatus(Chunk(chunkIndex, items, isLast))
  BY <1>1, EventTypes
<1>3. Adds(Chunk(chunkIndex, items, isLast))
  BY <1>2, PublishAdds DEF Flush
<1>4. chunkIndex' \in {chunkIndex, chunkIndex + 1} /\ batch' \in {<<>>, items}
  BY DEF Flush
<1>5. chunkIndex' \in Nat /\ batch' \in Seq(Nat)
  <2>1. chunkIndex + 1 \in Nat /\ <<>> \in Seq(Nat)
    BY <1>1
  <2> QED
    BY <1>1, <1>4, <2>1
<1> QED
  BY <1>2, <1>3, <1>5 DEF Adds

LEMMA EmitAdds ==
    ASSUME TypeInv, NEW item \in Nat, NEW ok \in BOOLEAN, Emit(item, ok)
    PROVE  /\ \/ UNCHANGED <<stream, faults>>
              \/ \E e \in TaskEvents : ~IsStatus(e) /\ Adds(e)
           /\ ReporterTypes
<1>1. Append(batch, item) \in Seq(Nat) /\ emitted' \in Seq(Nat)
  BY DEF TypeInv, Emit
<1>2. CASE Flush(Append(batch, item), FALSE, ok)
  BY <1>1, <1>2, FlushAdds DEF ReporterTypes
<1>3. CASE batch' = Append(batch, item) /\ UNCHANGED <<stream, chunkIndex, faults>>
  BY <1>1, <1>3 DEF ReporterTypes, TypeInv
<1> QED
  BY <1>2, <1>3 DEF Emit

LEMMA ExitAdds ==
    ASSUME TypeInv, NEW ok \in BOOLEAN, Exit(ok)
    PROVE  (\E e \in TaskEvents : ~IsStatus(e) /\ Adds(e)) /\ ReporterTypes
<1>1. batch \in Seq(Nat) /\ emitted' \in Seq(Nat)
  BY DEF TypeInv, Exit
<1> QED
  BY <1>1, FlushAdds DEF Exit, ReporterTypes

-----------------------------------------------------------------------------
(* Every status told so far is within what the task will tell next; the    *)
(* hits still to come are beyond it and before the end of what was read.   *)
Told(n) == \A i \in DOMAIN stream : IsStatus(stream[i]) => Shown(stream[i].current) <= n

PiProgress ==
    /\ pc = "count" => Told(digits)
    /\ pc = "digit" => Told(digits + 1)

DocumentProgress ==
    /\ pc = "start" => stream = <<>>
    /\ pc = "scan" => Told(tell)
    /\ pc = "snippet" => hits # {} /\ \A h \in hits : Told(h) /\ h < tell
    /\ pc = "status" => /\ Told(bytesRead) /\ bytesRead <= tell
                        /\ \A h \in hits : bytesRead <= h /\ h < tell

ProgressInv ==
    /\ task = "compute_pi" => PiProgress
    /\ task = "document_analysis" => DocumentProgress
    /\ ProgressNeverGoesBack

(* Nothing terminal is said before the task is done with everything but    *)
(* its result.                                                             *)
QuietInv ==
    /\ pc \notin {"result"} \cup Ended => \A i \in DOMAIN stream : ~Terminal(stream[i])
    /\ task = "compute_pi" => \A i \in DOMAIN stream : ~Terminal(stream[i])
    /\ TerminalStatusIsLast

ToldNext(n) == \A i \in DOMAIN stream' : IsStatus(stream'[i]) => Shown(stream'[i].current) <= n
Quiet == \A i \in DOMAIN stream : ~Terminal(stream[i])

LEMMA ShownBounds ==
    ASSUME TypeInv, NEW n \in Nat
    PROVE  /\ Shown(n) \in Nat /\ Shown(n) <= n
           /\ task = "document_analysis" => Shown(n) <= totalBytes
           /\ task = "compute_pi" => Shown(n) = n
BY DEF Shown, TypeInv

LEMMA ToldWithinTotal ==
    ASSUME TypeInv, task = "document_analysis" PROVE Told(totalBytes)
<1> SUFFICES ASSUME NEW i \in DOMAIN stream, IsStatus(stream[i])
             PROVE  Shown(stream[i].current) <= totalBytes
  BY DEF Told
<1>1. stream[i] \in TaskEvents
  BY DEF TypeInv
<1>2. stream[i].current \in Nat
  BY <1>1, StatusFields
<1> QED
  BY <1>2, ShownBounds

(* What a call that adds no status changes of all that.                    *)
LEMMA OtherAdds ==
    ASSUME TypeInv, UNCHANGED <<task, totalBytes>>, UNCHANGED <<stream, faults>>
                    \/ \E e \in TaskEvents : ~IsStatus(e) /\ Adds(e)
    PROVE  /\ \A n : Told(n) => ToldNext(n)
           /\ ProgressNeverGoesBack => ProgressNeverGoesBack'
           /\ Quiet => Quiet' /\ TerminalStatusIsLast'
<1>1. CASE UNCHANGED <<stream, faults>>
  BY <1>1 DEF Told, ToldNext, ProgressNeverGoesBack, Shown, Quiet, TerminalStatusIsLast
<1>2. ASSUME NEW e \in TaskEvents, ~IsStatus(e), Adds(e)
      PROVE  \A i \in DOMAIN stream' :
                IsStatus(stream'[i]) => i \in DOMAIN stream /\ stream'[i] = stream[i]
  BY <1>2 DEF Adds
<1>3. CASE \E e \in TaskEvents : ~IsStatus(e) /\ Adds(e)
  <2>1. \A i \in DOMAIN stream' :
           IsStatus(stream'[i]) => i \in DOMAIN stream /\ stream'[i] = stream[i]
    BY <1>2, <1>3
  <2>2. \A n : Told(n) => ToldNext(n)
    BY <2>1 DEF Told, ToldNext
  <2>3. ProgressNeverGoesBack => ProgressNeverGoesBack'
    BY <2>1 DEF ProgressNeverGoesBack, Shown
  <2>4. Quiet => \A i \in DOMAIN stream' : ~Terminal(stream'[i])
    BY <2>1 DEF Quiet, Terminal
  <2>5. Quiet => Quiet' /\ TerminalStatusIsLast'
    BY <2>4 DEF Quiet, TerminalStatusIsLast
  <2> QED
    BY <2>2, <2>3, <2>5
<1> QED
  BY <1>1, <1>3

LEMMA ResultAdds ==
    ASSUME TypeInv, TerminalStatusIsLast, NEW e \in TaskEvents, e.type = "result", Adds(e)
    PROVE  TerminalStatusIsLast' /\ (Quiet => Quiet')
<1>1. ~IsStatus(e)
  BY DEF IsStatus
<1>2. \A i \in DOMAIN stream' :
         \/ i \in DOMAIN stream /\ stream'[i] = stream[i]
         \/ stream'[i] = e /\ i \notin DOMAIN stream
  BY DEF Adds
<1>3. faults > 0 => faults' > 0
  BY DEF Adds, TypeInv
<1>4. ~Terminal(e)
  BY <1>1 DEF Terminal
<1>5. TerminalStatusIsLast'
  BY <1>2, <1>3, <1>4 DEF TerminalStatusIsLast
<1> QED
  BY <1>2, <1>4, <1>5 DEF Quiet

LEMMA StatusAdds ==
    ASSUME TypeInv, UNCHANGED <<task, totalBytes>>, ProgressNeverGoesBack, NEW s \in {"RUNNING", "FAILED", "COMPLETED"},
           NEW n \in Nat, Told(n), Adds(Status(s, n))
    PROVE  /\ ToldNext(n) /\ ProgressNeverGoesBack'
           /\ Quiet => TerminalStatusIsLast'
           /\ s = "RUNNING" => (Quiet => Quiet')
<1> DEFINE e == Status(s, n)
<1>1. IsStatus(e) /\ e.state = s /\ e.current = n /\ e \in TaskEvents
  BY EventTypes
<1> HIDE DEF e
<1>2. /\ \A i \in DOMAIN stream' :
            \/ i \in DOMAIN stream /\ stream'[i] = stream[i]
            \/ /\ i \notin DOMAIN stream /\ stream'[i] = e
               /\ \A j \in DOMAIN stream : j < i
      /\ \A i \in DOMAIN stream : i \in Nat
      /\ \A i \in DOMAIN stream' : i \in Nat
      /\ faults' > 0 \/ \A i, j \in DOMAIN stream' \ DOMAIN stream : i = j
  BY DEF Adds, e, TypeInv
<1>3. ToldNext(n)
  BY <1>1, <1>2, ShownBounds DEF Told, ToldNext
<1>4. ProgressNeverGoesBack'
  <2> SUFFICES ASSUME NEW i \in DOMAIN stream', NEW j \in DOMAIN stream', i < j,
                      IsStatus(stream'[i]), IsStatus(stream'[j])
               PROVE  Shown(stream'[i].current) <= stream'[j].current
    BY DEF ProgressNeverGoesBack, Shown
  <2>1. CASE j \in DOMAIN stream
    <3>1. i \in DOMAIN stream
      BY <1>2, <2>1
    <3> QED
      BY <1>2, <2>1, <3>1 DEF ProgressNeverGoesBack
  <2>2. CASE j \notin DOMAIN stream
    BY <1>1, <1>2, <1>3, <2>2 DEF ToldNext
  <2> QED
    BY <2>1, <2>2
<1>5. Quiet => TerminalStatusIsLast'
  <2> SUFFICES ASSUME Quiet, NEW i \in DOMAIN stream', NEW j \in DOMAIN stream', i < j,
                      Terminal(stream'[i])
               PROVE  faults' > 0 /\ stream'[j] = stream'[i]
    BY DEF TerminalStatusIsLast
  <2>1. i \notin DOMAIN stream /\ stream'[i] = e /\ \A k \in DOMAIN stream : k < i
    BY <1>2 DEF Quiet
  <2>2. j \notin DOMAIN stream /\ stream'[j] = e
    BY <1>2, <2>1
  <2>3. i # j
    BY <1>2
  <2> QED
    BY <1>2, <2>1, <2>2, <2>3
<1>6. s = "RUNNING" => (Quiet => Quiet')
  BY <1>1, <1>2 DEF Quiet, Terminal
<1> QED
  BY <1>3, <1>4, <1>5, <1>6

-----------------------------------------------------------------------------
Inv == TypeInv /\ ProgressInv /\ QuietInv

LEMMA InitInv == Init => Inv
<1> SUFFICES ASSUME Init PROVE Inv
  OBVIOUS
<1>0. /\ stream = <<>> /\ fileEnd \in Nat /\ batch = <<>> /\ emitted = <<>> /\ faults = 0
      /\ chunkIndex = 0 /\ digits = 0 /\ tell = 0 /\ hits = {} /\ snippets = 0 /\ bytesRead = 0
      /\ totalBytes = 0 /\ truncated = FALSE
  BY DocumentAssumption DEF Init, ReporterInit, PiInit, DocumentInit, ScanInit
<1>1. stream = <<>> /\ TypeInv
  <2>1. \/ task = "compute_pi" /\ pc \in PiStages
        \/ task = "document_analysis" /\ pc \in DocumentStages
    BY DEF Init, PiInit, DocumentInit, PiStages, DocumentStages
  <2>2. stream \in Seq(TaskEvents) /\ batch \in Seq(Nat) /\ emitted \in Seq(Nat)
    BY <1>0
  <2>3. truncated \in BOOLEAN
    BY <1>0
  <2> QED
    BY <1>0, <2>1, <2>2, <2>3 DEF TypeInv
<1>2. task = "compute_pi" => PiProgress
  BY <1>1 DEF PiProgress, Told
<1>3. task = "document_analysis" => DocumentProgress
  BY <1>1 DEF Init, DocumentInit, DocumentProgress
<1>4. ProgressNeverGoesBack /\ TerminalStatusIsLast /\ \A i \in DOMAIN stream : ~Terminal(stream[i])
  BY <1>1 DEF ProgressNeverGoesBack, TerminalStatusIsLast
<1> QED
  BY <1>1, <1>2, <1>3, <1>4 DEF Inv, ProgressInv, QuietInv

(* The steps of compute_pi.                                                *)
LEMMA PiStep ==
    ASSUME Inv, task = "compute_pi", ComputePi, UNCHANGED <<scan, task>> PROVE Inv'
<1>0. /\ TypeInv /\ PiProgress /\ Quiet /\ ProgressNeverGoesBack /\ TerminalStatusIsLast
      /\ digits \in Nat /\ UNCHANGED <<task, totalBytes>>
  BY DEF Inv, ProgressInv, QuietInv, Quiet, TypeInv, scan
<1>1. ASSUME ReporterTypes, digits' \in Nat, pc' \in PiStages \cup Ended
      PROVE  TypeInv'
  BY <1>0, <1>1 DEF ReporterTypes, TypeInv, scan
<1>2. ASSUME TypeInv', PiProgress', ProgressNeverGoesBack', Quiet', TerminalStatusIsLast'
      PROVE  Inv'
  BY <1>2 DEF Inv, ProgressInv, QuietInv, Quiet
<1>3. ASSUME NEW ok \in BOOLEAN, CountDigit(ok) PROVE Inv'
  <2> DEFINE e == Status("RUNNING", digits + 1)
  <2>1. e \in TaskEvents /\ digits + 1 \in Nat /\ pc = "count" /\ Told(digits + 1)
    <3>1. \A i \in DOMAIN stream : IsStatus(stream[i]) => Shown(stream[i].current) \in Nat
      BY <1>0, StatusFields, ShownBounds DEF TypeInv
    <3> QED
      BY <1>0, <1>3, <3>1, EventTypes DEF CountDigit, PiProgress, Told
  <2>2. Adds(e) /\ ReporterTypes
    BY <1>0, <1>3, <2>1, ReportAdds DEF CountDigit
  <2>3. ToldNext(digits + 1) /\ ProgressNeverGoesBack' /\ Quiet' /\ TerminalStatusIsLast'
    BY <1>0, <2>1, <2>2, StatusAdds
  <2>4. digits' = digits /\ pc' \in {"digit", "unwind"}
    BY <1>3 DEF CountDigit, Continue
  <2>5. PiProgress'
    BY <1>0, <2>3, <2>4 DEF PiProgress, Told, ToldNext, Shown
  <2> QED
    BY <1>0, <1>1, <1>2, <2>2, <2>3, <2>4, <2>5 DEF PiStages
<1>4. ASSUME NEW ok \in BOOLEAN, EmitDigit(ok) PROVE Inv'
  <2>1. digits + 1 \in Nat /\ pc = "digit" /\ Told(digits + 1)
    BY <1>0, <1>4 DEF EmitDigit, PiProgress
  <2>2. /\ UNCHANGED <<stream, faults>> \/ \E e \in TaskEvents : ~IsStatus(e) /\ Adds(e)
        /\ ReporterTypes
    BY <1>0, <1>4, <2>1, EmitAdds DEF EmitDigit
  <2>3. ToldNext(digits + 1) /\ ProgressNeverGoesBack' /\ Quiet' /\ TerminalStatusIsLast'
    BY <1>0, <2>1, <2>2, OtherAdds
  <2>4. digits' = digits + 1 /\ pc' \in {"count", "exit", "unwind"}
    BY <1>4 DEF EmitDigit, Continue
  <2>5. PiProgress'
    BY <1>0, <2>3, <2>4 DEF PiProgress, Told, ToldNext, Shown
  <2> QED
    BY <1>1, <1>2, <2>1, <2>2, <2>3, <2>4, <2>5 DEF PiStages
<1>5. ASSUME NEW ok \in BOOLEAN, CloseDigits(ok) PROVE Inv'
  <2>1. (\E e \in TaskEvents : ~IsStatus(e) /\ Adds(e)) /\ ReporterTypes
    BY <1>0, <1>5, ExitAdds DEF CloseDigits
  <2>2. ProgressNeverGoesBack' /\ Quiet' /\ TerminalStatusIsLast'
    BY <1>0, <2>1, OtherAdds
  <2>3. digits' = digits /\ pc' \in {"result", "raised"}
    BY <1>5 DEF CloseDigits, Continue
  <2> QED
    BY <1>0, <1>1, <1>2, <2>1, <2>2, <2>3 DEF PiStages, Ended, PiProgress
<1>6. ASSUME NEW ok \in BOOLEAN, ReportDigits(ok) PROVE Inv'
  <2> DEFINE e == Result([i \in 1..DIGITS |-> i])
  <2>1. e \in TaskEvents /\ e.type = "result" /\ ~IsStatus(e)
    <3>1. DIGITS \in Nat
      BY DigitsAssumption
    <3>2. [i \in 1..DIGITS |-> i] \in [1..DIGITS -> Nat]
      BY <3>1
    <3>3. [i \in 1..DIGITS |-> i] \in Seq(Nat)
      BY <3>1, <3>2
    <3> QED
      BY <3>3, EventTypes
  <2>2. Report(e, ok)
    BY <1>6 DEF ReportDigits
  <2> HIDE DEF e
  <2>3. Adds(e) /\ ReporterTypes
    BY <1>0, <2>1, <2>2, ReportAdds
  <2>4. ProgressNeverGoesBack' /\ Quiet' /\ TerminalStatusIsLast'
    BY <1>0, <2>1, <2>3, OtherAdds
  <2>5. digits' = digits /\ pc' \in {"returned", "raised"}
    BY <1>6 DEF ReportDigits, Continue
  <2> QED
    BY <1>0, <1>1, <1>2, <2>3, <2>4, <2>5 DEF PiStages, Ended, PiProgress
<1>7. ASSUME Crash, UNCHANGED digits PROVE Inv'
  <2>1. UNCHANGED stream /\ pc' = "crashed" /\ ReporterTypes /\ faults' = faults + 1
    BY <1>0, <1>7 DEF Crash, ReporterTypes, TypeInv
  <2>2. Quiet' /\ ProgressNeverGoesBack' /\ TerminalStatusIsLast'
    BY <1>0, <2>1 DEF Quiet, ProgressNeverGoesBack, Shown, TerminalStatusIsLast
  <2> QED
    BY <1>0, <1>1, <1>2, <1>7, <2>1, <2>2 DEF Ended, PiProgress
<1> QED
  BY <1>3, <1>4, <1>5, <1>6, <1>7 DEF ComputePi

(* The steps of document_analysis.                                         *)
LEMMA DocumentStep ==
    ASSUME Inv, task = "document_analysis", AnalyzeDocument, UNCHANGED <<digits, task>>
    PROVE  Inv'
<1>0. /\ TypeInv /\ DocumentProgress /\ ProgressNeverGoesBack /\ TerminalStatusIsLast
      /\ pc \notin {"result"} \cup Ended => Quiet
      /\ tell \in Nat /\ totalBytes \in Nat /\ fileEnd \in Nat /\ DOCUMENT_BYTES \in Nat
      /\ hits \in SUBSET Nat /\ snippets \in Nat /\ bytesRead \in Nat
      /\ task' = task
  BY DocumentAssumption DEF Inv, ProgressInv, QuietInv, Quiet, TypeInv
<1>1. ASSUME ReporterTypes, UNCHANGED scan, pc' \in DocumentStages \cup Ended
      PROVE  TypeInv'
  BY <1>0, <1>1 DEF ReporterTypes, TypeInv, scan
<1>2. ASSUME TypeInv', DocumentProgress', ProgressNeverGoesBack', TerminalStatusIsLast',
             pc' \notin {"result"} \cup Ended => Quiet'
      PROVE  Inv'
  BY <1>2 DEF Inv, ProgressInv, QuietInv, Quiet
<1>3. ASSUME NEW s \in {"FAILED", "RUNNING"}, NEW ok \in BOOLEAN, pc = "start",
             Report(Status(s, 0), ok), totalBytes' \in Nat,
             UNCHANGED <<tell, hits, snippets, bytesRead, fileEnd, truncated>>,
             pc' \in {"returned", "raised"} \/ (s = "RUNNING" /\ pc' = "scan")
      PROVE  Inv'
  <2>1. Status(s, 0) \in TaskEvents /\ stream = <<>> /\ IsStatus(Status(s, 0))
        /\ Status(s, 0).state = s /\ Status(s, 0).current = 0
    BY <1>0, <1>3, EventTypes DEF DocumentProgress
  <2>2. Adds(Status(s, 0)) /\ ReporterTypes
    BY <1>0, <1>3, <2>1, ReportAdds
  <2>3. /\ \A i \in DOMAIN stream' : stream'[i] = Status(s, 0)
        /\ faults' > 0 \/ \A i, j \in DOMAIN stream' : i = j
        /\ \A i \in DOMAIN stream' : i \in Nat
    BY <2>1, <2>2 DEF Adds
  <2>4. ProgressNeverGoesBack'
    BY <1>3, <2>1, <2>3 DEF ProgressNeverGoesBack, Shown
  <2>5. TerminalStatusIsLast' /\ (s = "RUNNING" => Quiet')
    BY <2>1, <2>3 DEF TerminalStatusIsLast, Quiet, Terminal
  <2>6. \A i \in DOMAIN stream' : IsStatus(stream'[i]) => Shown(stream[i].current)' <= tell'
    BY <1>0, <1>3, <2>1, <2>3 DEF Shown
  <2>7. DocumentProgress'
    BY <1>3, <2>6 DEF DocumentProgress, Told, Ended
  <2>8. TypeInv'
    BY <1>0, <1>3, <2>2 DEF ReporterTypes, TypeInv, DocumentStages, Ended
  <2> QED
    BY <1>2, <1>3, <2>4, <2>5, <2>7, <2>8 DEF Ended
<1>4. ASSUME NEW ok \in BOOLEAN, ReportFailed(ok) PROVE Inv'
  BY <1>0, <1>3, <1>4 DEF ReportFailed, Continue, scan
<1>5. ASSUME NEW ok \in BOOLEAN, ReportStarted(ok) PROVE Inv'
  BY <1>0, <1>3, <1>5 DEF ReportStarted, Continue
<1>6. ASSUME ReadLines PROVE Inv'
  <2>1. /\ pc = "scan" /\ UNCHANGED <<stream, faults, chunkIndex, batch, emitted>>
        /\ tell' \in (tell + 1)..fileEnd /\ hits' \in SUBSET (tell..(tell' - 1))
        /\ snippets' = 0 /\ UNCHANGED <<totalBytes, fileEnd, truncated>>
    BY <1>6 DEF ReadLines, reporter
  <2>2. tell' \in Nat /\ tell <= tell'
    BY <1>0, <2>1
  <2>3. \A h \in hits' : h \in Nat /\ tell <= h /\ h < tell'
    <3>1. tell \in Nat /\ tell' \in Nat
      BY <1>0, <2>2
    <3>2. \A h \in tell..(tell' - 1) : h \in Nat /\ tell <= h /\ h < tell'
      BY <3>1, InRead
    <3> QED
      BY <2>1, <3>2
  <2>4. \/ hits' = {} /\ pc' = "status" /\ bytesRead' = tell'
        \/ hits' # {} /\ pc' = "snippet" /\ bytesRead' = bytesRead
    BY <1>6 DEF ReadLines
  <2>5. TypeInv'
    BY <1>0, <2>1, <2>2, <2>3, <2>4 DEF TypeInv, DocumentStages
  <2>6. \A i \in DOMAIN stream : IsStatus(stream[i]) =>
           Shown(stream[i].current) \in Nat /\ Shown(stream[i].current) <= tell
    <3>1. \A i \in DOMAIN stream : stream[i] \in TaskEvents
      BY <1>0 DEF TypeInv
    <3>2. \A i \in DOMAIN stream : IsStatus(stream[i]) => stream[i].current \in Nat
      BY <3>1, StatusFields
    <3>3. Told(tell)
      BY <1>0, <2>1 DEF DocumentProgress
    <3> QED
      BY <1>0, <3>2, <3>3, ShownBounds DEF Told
  <2>7. \A i \in DOMAIN stream' : IsStatus(stream'[i]) =>
           /\ Shown(stream'[i].current) <= tell'
           /\ \A h \in hits' : Shown(stream'[i].current) <= h
    BY <1>0, <2>1, <2>2, <2>3, <2>6
  <2>8. DocumentProgress'
    BY <1>0, <2>1, <2>2, <2>3, <2>4, <2>7 DEF DocumentProgress, Told, Shown
  <2>9. Quiet' /\ ProgressNeverGoesBack' /\ TerminalStatusIsLast'
    BY <1>0, <2>1 DEF Quiet, ProgressNeverGoesBack, Shown, TerminalStatusIsLast, Ended
  <2> QED
    BY <1>2, <2>5, <2>8, <2>9
<1>7. ASSUME EndOfFile PROVE Inv'
  <2>1. /\ pc = "scan" /\ pc' = "exit"
        /\ UNCHANGED <<stream, faults, chunkIndex, batch, emitted, scan>>
    BY <1>7 DEF EndOfFile, reporter
  <2>2. TypeInv'
    BY <1>0, <1>1, <2>1 DEF ReporterTypes, TypeInv, DocumentStages
  <2>3. DocumentProgress'
    BY <2>1 DEF DocumentProgress
  <2>4. Quiet' /\ ProgressNeverGoesBack' /\ TerminalStatusIsLast'
    BY <1>0, <2>1 DEF Quiet, ProgressNeverGoesBack, Shown, TerminalStatusIsLast, Ended, scan
  <2> QED
    BY <1>2, <2>2, <2>3, <2>4
<1>8. ASSUME NEW ok \in BOOLEAN, EmitSnippet(ok) PROVE Inv'
  <2>1. pc = "snippet" /\ hits # {} /\ \A h \in hits : Told(h) /\ h < tell /\ h \in Nat
    BY <1>0, <1>8 DEF EmitSnippet, DocumentProgress
  <2>2. NextHit \in hits /\ \A h \in hits : NextHit <= h
    BY <1>0, <2>1, MinIsLeast DEF NextHit
  <2>3. NextHit \in Nat /\ NextHit < tell /\ Told(NextHit)
    BY <1>0, <2>1, <2>2
  <2> DEFINE n == IF NextHit < totalBytes THEN NextHit ELSE totalBytes
  <2>4. /\ bytesRead' = n /\ hits' = hits \ {NextHit} /\ snippets' = snippets + 1
        /\ UNCHANGED <<tell, totalBytes, fileEnd, truncated>> /\ pc' \in {"status", "unwind"}
    BY <1>8 DEF EmitSnippet, Continue
  <2>5. /\ UNCHANGED <<stream, faults>> \/ \E e \in TaskEvents : ~IsStatus(e) /\ Adds(e)
        /\ ReporterTypes
    BY <1>0, <1>8, <2>3, EmitAdds DEF EmitSnippet
  <2>6. n \in Nat /\ n <= NextHit /\ n < tell /\ Told(n)
    <3>1. Told(totalBytes)
      BY <1>0, ToldWithinTotal
    <3> QED
      BY <1>0, <2>3, <3>1
  <2>7. ToldNext(n) /\ ProgressNeverGoesBack' /\ Quiet' /\ TerminalStatusIsLast'
    BY <1>0, <2>1, <2>4, <2>5, <2>6, OtherAdds DEF Ended
  <2>8. \A h \in hits' : n <= h /\ h < tell'
    <3>1. \A h \in hits : NextHit <= h /\ h \in Nat
      BY <2>1, <2>2
    <3> QED
      BY <2>1, <2>3, <2>4, <2>6, <3>1
  <2> HIDE DEF n
  <2>9. TypeInv'
    BY <1>0, <2>4, <2>5, <2>6 DEF TypeInv, ReporterTypes, DocumentStages
  <2>10. DocumentProgress'
    <3>1. \A i \in DOMAIN stream' : IsStatus(stream'[i]) => Shown(stream[i].current)' <= bytesRead'
      BY <1>0, <2>4, <2>7 DEF ToldNext, Shown
    <3>2. n <= tell
      BY <1>0, <2>6
    <3> QED
      BY <2>4, <2>8, <3>1, <3>2 DEF DocumentProgress, Told
  <2> QED
    BY <1>2, <2>7, <2>9, <2>10
<1>9. ASSUME NEW ok \in BOOLEAN, ReportProgress(ok) PROVE Inv'
  <2>1. /\ pc = "status" /\ Told(bytesRead) /\ bytesRead <= tell
        /\ \A h \in hits : bytesRead <= h /\ h < tell /\ h \in Nat
    BY <1>0, <1>9 DEF ReportProgress, DocumentProgress
  <2>2. Status("RUNNING", bytesRead) \in TaskEvents
    BY <1>0, EventTypes
  <2>3. Adds(Status("RUNNING", bytesRead)) /\ ReporterTypes
    BY <1>0, <1>9, <2>2, ReportAdds DEF ReportProgress
  <2>4. ToldNext(bytesRead) /\ ProgressNeverGoesBack' /\ Quiet' /\ TerminalStatusIsLast'
    BY <1>0, <1>9, <2>1, <2>3, StatusAdds DEF Ended, ReportProgress, scan
  <2>5. /\ UNCHANGED <<tell, hits, snippets, bytesRead, totalBytes, fileEnd, truncated>>
        /\ pc' \in {"snippet", "scan", "unwind"} /\ (pc' = "snippet" => hits # {})
    BY <1>9 DEF ReportProgress, Continue, scan
  <2>6. \A i \in DOMAIN stream' : IsStatus(stream'[i]) =>
           Shown(stream'[i].current) \in Nat /\ Shown(stream'[i].current) <= bytesRead
    <3>1. \A i \in DOMAIN stream' : stream'[i] \in TaskEvents
      BY <2>3 DEF ReporterTypes
    <3>2. \A i \in DOMAIN stream' : IsStatus(stream'[i]) => stream'[i].current \in Nat
      BY <3>1, StatusFields
    <3> QED
      BY <1>0, <2>4, <3>2, ShownBounds DEF ToldNext
  <2>7. \A i \in DOMAIN stream' : IsStatus(stream'[i]) =>
           /\ Shown(stream'[i].current) <= tell
           /\ \A h \in hits : Shown(stream'[i].current) <= h
    <3>1. \A v \in Nat : v <= bytesRead => v <= tell /\ \A h \in hits : v <= h
      BY <1>0, <2>1
    <3> QED
      BY <2>6, <3>1
  <2>8. DocumentProgress'
    BY <1>0, <2>1, <2>5, <2>7 DEF DocumentProgress, Told, Shown
  <2> QED
    BY <1>1, <1>2, <1>9, <2>3, <2>4, <2>5, <2>8 DEF DocumentStages, scan
<1>10. ASSUME NEW ok \in BOOLEAN, CloseSnippets(ok) PROVE Inv'
  <2>1. (\E e \in TaskEvents : ~IsStatus(e) /\ Adds(e)) /\ ReporterTypes
    BY <1>0, <1>10, ExitAdds DEF CloseSnippets
  <2>2. /\ pc \in {"exit", "unwind"} /\ UNCHANGED scan
        /\ (pc' = "completed" /\ pc = "exit") \/ pc' = "raised"
    BY <1>10 DEF CloseSnippets, Continue
  <2>3. ProgressNeverGoesBack' /\ Quiet' /\ TerminalStatusIsLast'
    BY <1>0, <2>1, <2>2, OtherAdds DEF Ended, scan
  <2>4. DocumentProgress'
    BY <2>2 DEF DocumentProgress
  <2> QED
    BY <1>1, <1>2, <2>1, <2>2, <2>3, <2>4 DEF DocumentStages, Ended
<1>11. ASSUME NEW ok \in BOOLEAN, ReportCompleted(ok) PROVE Inv'
  <2>1. pc = "completed" /\ Told(totalBytes) /\ Quiet
    BY <1>0, <1>11, ToldWithinTotal DEF ReportCompleted, Ended
  <2>2. Adds(Status("COMPLETED", totalBytes)) /\ ReporterTypes
    BY <1>0, <1>11, EventTypes, ReportAdds DEF ReportCompleted
  <2>3. ProgressNeverGoesBack' /\ TerminalStatusIsLast'
    BY <1>0, <1>11, <2>1, <2>2, StatusAdds DEF ReportCompleted, scan
  <2>4. UNCHANGED scan /\ pc' \in {"result", "raised"}
    BY <1>11 DEF ReportCompleted, Continue
  <2>5. DocumentProgress'
    BY <2>4 DEF DocumentProgress
  <2> QED
    BY <1>1, <1>2, <2>2, <2>3, <2>4, <2>5 DEF DocumentStages, Ended
<1>12. ASSUME NEW ok \in BOOLEAN, ReportCount(ok) PROVE Inv'
  <2> DEFINE e == Result(Len(emitted))
  <2>1. e \in TaskEvents /\ e.type = "result" /\ ~IsStatus(e)
    <3>1. Len(emitted) \in Nat
      BY <1>0 DEF TypeInv
    <3> QED
      BY <3>1, EventTypes
  <2>2. Report(e, ok)
    BY <1>12 DEF ReportCount
  <2> HIDE DEF e
  <2>3. Adds(e) /\ ReporterTypes
    BY <1>0, <2>1, <2>2, ReportAdds
  <2>4. ProgressNeverGoesBack' /\ TerminalStatusIsLast'
    BY <1>0, <1>12, <2>1, <2>3, OtherAdds, ResultAdds DEF ReportCount, scan
  <2>5. UNCHANGED scan /\ pc' \in {"returned", "raised"}
    BY <1>12 DEF ReportCount, Continue
  <2>6. DocumentProgress'
    BY <2>5 DEF DocumentProgress
  <2> QED
    BY <1>1, <1>2, <2>3, <2>4, <2>5, <2>6 DEF Ended
<1>13. ASSUME ReadFails \/ (Crash /\ UNCHANGED scan) PROVE Inv'
  <2>1. /\ UNCHANGED <<stream, scan>> /\ ReporterTypes /\ faults' = faults + 1
        /\ pc' \in {"unwind", "crashed"} /\ (pc' = "unwind" => pc = "scan")
    BY <1>0, <1>13 DEF ReadFails, Crash, ReporterTypes, TypeInv
  <2>2. /\ ProgressNeverGoesBack' /\ TerminalStatusIsLast'
        /\ pc' = "unwind" => Quiet'
    BY <1>0, <2>1 DEF Quiet, ProgressNeverGoesBack, Shown, TerminalStatusIsLast, Ended, TypeInv,
                      scan
  <2>3. DocumentProgress'
    BY <2>1 DEF DocumentProgress
  <2> QED
    BY <1>1, <1>2, <2>1, <2>2, <2>3 DEF DocumentStages, Ended
<1> QED
  BY <1>4, <1>5, <1>6, <1>7, <1>8, <1>9, <1>10, <1>11, <1>12, <1>13 DEF AnalyzeDocument

(* Another worker's download, wherever this task is.                       *)
LEMMA DownloadChanges ==
    ASSUME TypeInv, Download
    PROVE  /\ fileEnd' \in Nat /\ truncated' \in BOOLEAN
           /\ UNCHANGED <<stream, chunkIndex, batch, emitted, faults, pc, tell, hits, snippets,
                          bytesRead, totalBytes>>
<1>1. fileEnd \in Nat /\ truncated \in BOOLEAN /\ DOCUMENT_BYTES \in Nat
  BY DocumentAssumption DEF TypeInv
<1>2. \/ fileEnd' \in (fileEnd + 1)..DOCUMENT_BYTES /\ truncated' = truncated
      \/ fileEnd' \in 0..(fileEnd - 1) /\ truncated' = (pc = "scan")
  BY DEF Download
<1>3. fileEnd' \in Nat
  BY <1>1, <1>2
<1>4. truncated' \in BOOLEAN
  BY <1>1, <1>2
<1> QED
  BY <1>3, <1>4 DEF Download, reporter

LEMMA DownloadStep ==
    ASSUME Inv, Download, UNCHANGED <<digits, task>> PROVE Inv'
<1>1. TypeInv'
  BY DownloadChanges DEF Inv, TypeInv
<1>2. ProgressInv' /\ QuietInv'
  BY DownloadChanges DEF Inv, ProgressInv, QuietInv, PiProgress, DocumentProgress, Told, Shown,
                         ProgressNeverGoesBack, TerminalStatusIsLast
<1> QED
  BY <1>1, <1>2 DEF Inv

LEMMA Inductive == Spec => []Inv
<1>1. Inv /\ UNCHANGED vars => Inv'
  BY DEF Inv, TypeInv, ProgressInv, QuietInv, PiProgress, DocumentProgress, Told, Shown,
         ProgressNeverGoesBack, TerminalStatusIsLast, vars, reporter, scan
<1>2. Inv /\ [Next]_vars => Inv'
  BY PiStep, DocumentStep, DownloadStep, <1>1 DEF Next, Work
<1> QED
  BY InitInv, <1>2, PTL DEF Spec

(* What a task reports never goes back, for a file of any length: a hit is *)
(* placed by counting characters and a chunk without hits by the position  *)
(* in the file, some hits are left out when a chunk has too many, a call   *)
(* may have put its status into the stream twice; and in a file that grows *)
(* or shrinks under the scan it goes back only from above its total.       *)
THEOREM ProgressOnlyGrows == Spec => []ProgressNeverGoesBack
<1>1. Inv => ProgressNeverGoesBack
  BY DEF Inv, ProgressInv
<1> QED
  BY Inductive, <1>1, PTL

(* After a terminal status only the result follows, or the same status a   *)
(* second time when the call that told it was retried.                     *)
THEOREM TerminalIsLast == Spec => []TerminalStatusIsLast
<1>1. Inv => TerminalStatusIsLast
  BY DEF Inv, QuietInv
<1> QED
  BY Inductive, <1>1, PTL

-----------------------------------------------------------------------------
(* Where the chunks lie in what was emitted.                               *)
Start(n) == n * BATCH_SIZE
PlacedIn(e, items) ==
    LET from == Start(e.id)
    IN /\ Len(e.data) <= BATCH_SIZE /\ from + Len(e.data) <= Len(items)
       /\ \A k \in 1..Len(e.data) : e.data[k] = items[from + k]
       /\ IF e.isLast THEN from + Len(e.data) = Len(items) ELSE Len(e.data) = BATCH_SIZE

(* What makes ChunksAssemble true, apart from the reader: a chunk's id says*)
(* where its items lie in what was emitted; no chunk comes before those it *)
(* continues; ids do not go back, repeat only after a failed call, and the *)
(* is_last chunk, which reaches to the end, is followed by none but its    *)
(* own repetition.                                                         *)
ChunksPlaced ==
    \A i \in DOMAIN stream : IsChunk(stream[i]) =>
        /\ PlacedIn(stream[i], emitted)
        /\ stream[i].id > 0 =>
              \E j \in DOMAIN stream :
                  /\ j < i /\ IsChunk(stream[j]) /\ ~stream[j].isLast
                  /\ stream[j].id + 1 = stream[i].id
        /\ \A j \in DOMAIN stream : i < j /\ IsChunk(stream[j]) =>
              /\ stream[i].id <= stream[j].id
              /\ stream[i].id = stream[j].id => faults > 0
              /\ stream[i].isLast => stream[j] = stream[i]

Closing == {"exit", "unwind"}
Beyond == {"completed", "result"} \cup Ended
Emitting == pc \notin Closing \cup Beyond

(* The batch is what was emitted and not yet flushed, full only after a    *)
(* flush that failed; chunks up to the index are there, and none is the    *)
(* last one before __exit__.                                               *)
ChunkInv ==
    /\ Len(emitted) = Start(chunkIndex) + Len(batch) /\ Len(batch) <= BATCH_SIZE
    /\ \A k \in 1..Len(batch) : batch[k] = emitted[Start(chunkIndex) + k]
    /\ Emitting => Len(batch) < BATCH_SIZE
    /\ chunkIndex > 0 =>
          \E j \in DOMAIN stream : IsChunk(stream[j]) /\ ~stream[j].isLast
                                   /\ stream[j].id + 1 = chunkIndex
    /\ \A i \in DOMAIN stream : IsChunk(stream[i]) =>
          /\ stream[i].id <= chunkIndex
          /\ pc \notin Beyond =>
                ~stream[i].isLast /\ (stream[i].id = chunkIndex => faults > 0)
    /\ ChunksPlaced

LEMMA StartProperties ==
    /\ BATCH_SIZE \in Nat \ {0} /\ Start(0) = 0
    /\ \A n \in Nat : Start(n) \in Nat /\ Start(n + 1) = Start(n) + BATCH_SIZE
BY BatchSizeAssumption DEF Start

LEMMA ChunkFields ==
    ASSUME NEW e \in TaskEvents, IsChunk(e)
    PROVE  e.id \in Nat /\ e.data \in Seq(Nat) /\ e.isLast \in BOOLEAN
BY DEF TaskEvents, StatusEvents, ChunkEvents, ResultEvents, IsChunk

LEMMA ChunkEvent ==
    ASSUME NEW id \in Nat, NEW data \in Seq(Nat), NEW isLast \in BOOLEAN
    PROVE  /\ Chunk(id, data, isLast) \in TaskEvents /\ IsChunk(Chunk(id, data, isLast))
           /\ Chunk(id, data, isLast).id = id /\ Chunk(id, data, isLast).data = data
           /\ Chunk(id, data, isLast).isLast = isLast
BY DEF Chunk, TaskEvents, ChunkEvents, IsChunk

(* An item more moves no chunk.                                            *)
LEMMA PlacedStays ==
    ASSUME NEW e \in TaskEvents, IsChunk(e), ~e.isLast, NEW items \in Seq(Nat), NEW item \in Nat,
           PlacedIn(e, items)
    PROVE  PlacedIn(e, Append(items, item))
<1> DEFINE from == Start(e.id)
           m == Len(e.data)
           n == Len(items)
<1>1. from \in Nat /\ m \in Nat /\ n \in Nat
  <2>1. e.id \in Nat /\ e.data \in Seq(Nat)
    BY ChunkFields
  <2>2. from \in Nat
    BY <2>1, StartProperties
  <2>3. m \in Nat /\ n \in Nat
    BY <2>1
  <2> QED
    BY <2>2, <2>3
<1>2. from + m <= n /\ \A k \in 1..m : e.data[k] = items[from + k]
  BY DEF PlacedIn
<1>3. Len(Append(items, item)) = n + 1 /\ \A k \in 1..n : Append(items, item)[k] = items[k]
  OBVIOUS
<1> HIDE DEF from, m, n
<1>4. from + m <= n + 1 /\ \A k \in 1..m : from + k \in 1..n
  BY <1>1, <1>2
<1>5. \A k \in 1..m : e.data[k] = Append(items, item)[from + k]
  BY <1>2, <1>3, <1>4
<1> QED
  BY <1>3, <1>4, <1>5 DEF PlacedIn, from, m, n

(* The stream after a call that published a chunk with the current index.  *)
LEMMA ChunkAdded ==
    ASSUME TypeInv, ChunkInv, pc \notin Beyond,
           NEW e \in TaskEvents, IsChunk(e), e.id = chunkIndex, Adds(e), PlacedIn(e, emitted'),
           \A c \in TaskEvents : IsChunk(c) /\ ~c.isLast /\ PlacedIn(c, emitted) =>
                                 PlacedIn(c, emitted')
    PROVE  /\ ChunksPlaced'
           /\ \A i \in DOMAIN stream' : IsChunk(stream'[i]) =>
                 /\ stream'[i].id <= chunkIndex
                 /\ stream'[i].isLast => e.isLast
<1>1. /\ \A i \in DOMAIN stream : i \in DOMAIN stream' /\ stream'[i] = stream[i]
      /\ \A i \in DOMAIN stream' :
            \/ i \in DOMAIN stream
            \/ stream'[i] = e /\ \A j \in DOMAIN stream : j < i
      /\ faults' > 0 \/ \A i, j \in DOMAIN stream' \ DOMAIN stream : i = j
      /\ faults > 0 => faults' > 0
  BY DEF Adds, TypeInv
<1>2. /\ \A i \in DOMAIN stream : i \in Nat /\ stream[i] \in TaskEvents
      /\ \A i \in DOMAIN stream' : i \in Nat
      /\ chunkIndex \in Nat
  BY DEF Adds, TypeInv
<1>3. \A i \in DOMAIN stream : IsChunk(stream[i]) =>
         /\ stream[i].id \in Nat /\ stream[i].id <= chunkIndex /\ ~stream[i].isLast
         /\ stream[i].id = chunkIndex => faults > 0
         /\ PlacedIn(stream[i], emitted)
  BY <1>2, ChunkFields DEF ChunkInv, ChunksPlaced
<1>4. ASSUME NEW i \in DOMAIN stream', IsChunk(stream'[i])
      PROVE  PlacedIn(stream'[i], emitted')
  BY <1>1, <1>2, <1>3, <1>4
<1>5. ASSUME NEW i \in DOMAIN stream', IsChunk(stream'[i]), stream'[i].id > 0
      PROVE  \E j \in DOMAIN stream' :
                /\ j < i /\ IsChunk(stream'[j]) /\ ~stream'[j].isLast
                /\ stream'[j].id + 1 = stream'[i].id
  <2>1. CASE i \in DOMAIN stream
    <3>1. PICK j \in DOMAIN stream : /\ j < i /\ IsChunk(stream[j]) /\ ~stream[j].isLast
                                     /\ stream[j].id + 1 = stream[i].id
      BY <1>1, <1>5, <2>1 DEF ChunkInv, ChunksPlaced
    <3> QED
      BY <1>1, <2>1, <3>1
  <2>2. CASE i \notin DOMAIN stream
    <3>1. stream'[i] = e /\ \A j \in DOMAIN stream : j < i
      BY <1>1, <2>2
    <3>2. PICK j \in DOMAIN stream : /\ IsChunk(stream[j]) /\ ~stream[j].isLast
                                     /\ stream[j].id + 1 = chunkIndex
      BY <1>5, <3>1 DEF ChunkInv
    <3> QED
      BY <1>1, <3>1, <3>2
  <2> QED
    BY <2>1, <2>2
<1>6. ASSUME NEW i \in DOMAIN stream', IsChunk(stream'[i]),
             NEW j \in DOMAIN stream', i < j, IsChunk(stream'[j])
      PROVE  /\ stream'[i].id <= stream'[j].id
             /\ stream'[i].id = stream'[j].id => faults' > 0
             /\ stream'[i].isLast => stream'[j] = stream'[i]
  <2>1. CASE j \in DOMAIN stream
    <3>1. i \in DOMAIN stream
      BY <1>1, <1>2, <1>6, <2>1
    <3> QED
      BY <1>1, <1>6, <2>1, <3>1 DEF ChunkInv, ChunksPlaced
  <2>2. CASE j \notin DOMAIN stream /\ i \in DOMAIN stream
    BY <1>1, <1>3, <1>6, <2>2
  <2>3. CASE j \notin DOMAIN stream /\ i \notin DOMAIN stream
    <3>1. stream'[i] = e /\ stream'[j] = e /\ i # j
      BY <1>1, <1>2, <1>6, <2>3
    <3>2. faults' > 0
      BY <1>1, <2>3, <3>1
    <3> QED
      BY <1>2, <3>1, <3>2
  <2> QED
    BY <2>1, <2>2, <2>3
<1>7. ChunksPlaced'
  BY <1>4, <1>5, <1>6 DEF ChunksPlaced
<1>8. ASSUME NEW i \in DOMAIN stream', IsChunk(stream'[i])
      PROVE  stream'[i].id <= chunkIndex /\ (stream'[i].isLast => e.isLast)
  BY <1>1, <1>2, <1>3, <1>8
<1> QED
  BY <1>7, <1>8

LEMMA PublishedIsThere ==
    ASSUME TypeInv, NEW e \in TaskEvents, Publish(e, TRUE)
    PROVE  \E i \in DOMAIN stream' : stream'[i] = e
<1> DEFINE n == Len(stream)
<1>1. stream \in Seq(TaskEvents) /\ n \in Nat
  BY DEF TypeInv
<1>2. CASE stream' = Append(stream, e)
  <2>1. n + 1 \in DOMAIN stream' /\ stream'[n + 1] = e
    BY <1>1, <1>2
  <2> QED
    BY <2>1
<1>3. CASE stream' = stream \o <<e, e>>
  <2>1. n + 1 \in DOMAIN stream' /\ stream'[n + 1] = e
    BY <1>1, <1>3
  <2> QED
    BY <2>1
<1> QED
  BY <1>2, <1>3 DEF Publish

(* A call, or a step without one, that publishes no chunk.                 *)
LEMMA NoChunkAdded ==
    ASSUME TypeInv, ChunkInv, UNCHANGED <<chunkIndex, batch, emitted>>,
           \/ stream' = stream /\ faults' \in Nat /\ faults <= faults'
           \/ \E e \in TaskEvents : ~IsChunk(e) /\ Adds(e),
           pc \in Beyond => pc' \in Beyond, Emitting' => Emitting
    PROVE  ChunkInv'
<1>1. /\ \A i \in DOMAIN stream : i \in DOMAIN stream' /\ stream'[i] = stream[i]
      /\ \A i \in DOMAIN stream' :
            IsChunk(stream'[i]) => i \in DOMAIN stream /\ stream'[i] = stream[i]
      /\ faults > 0 => faults' > 0
  <2>1. CASE stream' = stream /\ faults' \in Nat /\ faults <= faults'
    BY <2>1 DEF TypeInv
  <2>2. CASE \E e \in TaskEvents : ~IsChunk(e) /\ Adds(e)
    BY <2>2 DEF Adds, TypeInv
  <2> QED
    BY <2>1, <2>2
<1>2. ChunksPlaced'
  <2>1. ASSUME NEW i \in DOMAIN stream', IsChunk(stream'[i])
        PROVE  /\ PlacedIn(stream'[i], emitted')
               /\ stream'[i].id > 0 =>
                     \E j \in DOMAIN stream' :
                        /\ j < i /\ IsChunk(stream'[j]) /\ ~stream'[j].isLast
                        /\ stream'[j].id + 1 = stream'[i].id
               /\ \A j \in DOMAIN stream' : i < j /\ IsChunk(stream'[j]) =>
                     /\ stream'[i].id <= stream'[j].id
                     /\ stream'[i].id = stream'[j].id => faults' > 0
                     /\ stream'[i].isLast => stream'[j] = stream'[i]
    <3>1. i \in DOMAIN stream /\ stream'[i] = stream[i] /\ IsChunk(stream[i])
      BY <1>1, <2>1
    <3>2. ASSUME stream'[i].id > 0
          PROVE  \E j \in DOMAIN stream' :
                    /\ j < i /\ IsChunk(stream'[j]) /\ ~stream'[j].isLast
                    /\ stream'[j].id + 1 = stream'[i].id
      <4>1. PICK j \in DOMAIN stream : /\ j < i /\ IsChunk(stream[j]) /\ ~stream[j].isLast
                                       /\ stream[j].id + 1 = stream[i].id
        BY <3>1, <3>2 DEF ChunkInv, ChunksPlaced
      <4> QED
        BY <1>1, <3>1, <4>1
    <3>3. ASSUME NEW j \in DOMAIN stream', i < j, IsChunk(stream'[j])
          PROVE  /\ stream'[i].id <= stream'[j].id
                 /\ stream'[i].id = stream'[j].id => faults' > 0
                 /\ stream'[i].isLast => stream'[j] = stream'[i]
      BY <1>1, <3>1, <3>3 DEF ChunkInv, ChunksPlaced
    <3>4. PlacedIn(stream'[i], emitted')
      BY <3>1 DEF ChunkInv, ChunksPlaced
    <3> QED
      BY <3>2, <3>3, <3>4
  <2> QED
    BY <2>1 DEF ChunksPlaced
<1>3. chunkIndex' > 0 =>
         \E j \in DOMAIN stream' : IsChunk(stream'[j]) /\ ~stream'[j].isLast
                                   /\ stream'[j].id + 1 = chunkIndex'
  BY <1>1 DEF ChunkInv
<1>4. \A i \in DOMAIN stream' : IsChunk(stream'[i]) =>
         /\ stream'[i].id <= chunkIndex'
         /\ pc' \notin Beyond =>
               ~stream'[i].isLast /\ (stream'[i].id = chunkIndex' => faults' > 0)
  BY <1>1 DEF ChunkInv
<1> QED
  BY <1>2, <1>3, <1>4 DEF ChunkInv

LEMMA BatchGrows ==
    ASSUME NEW from \in Nat, NEW held \in Seq(Nat), NEW items \in Seq(Nat), NEW item \in Nat,
           Len(items) = from + Len(held),
           \A k \in 1..Len(held) : held[k] = items[from + k]
    PROVE  /\ Len(Append(held, item)) = Len(held) + 1
           /\ Len(Append(items, item)) = from + Len(Append(held, item))
           /\ \A k \in 1..Len(Append(held, item)) :
                 Append(held, item)[k] = Append(items, item)[from + k]
<1> DEFINE m == Len(held)
           n == Len(items)
<1>1. m \in Nat /\ n = from + m
  OBVIOUS
<1>2. /\ Len(Append(held, item)) = m + 1 /\ Append(held, item)[m + 1] = item
      /\ \A k \in 1..m : Append(held, item)[k] = held[k]
  OBVIOUS
<1>3. /\ Len(Append(items, item)) = n + 1 /\ Append(items, item)[n + 1] = item
      /\ \A k \in 1..n : Append(items, item)[k] = items[k]
  OBVIOUS
<1>4. \A k \in 1..m : held[k] = items[from + k]
  OBVIOUS
<1> HIDE DEF m, n
<1>5. \A k \in 1..m : from + k \in 1..n
  BY <1>1
<1>6. \A k \in 1..(m + 1) : k \in 1..m \/ k = m + 1
  BY <1>1
<1>7. from + (m + 1) = n + 1
  BY <1>1
<1>8. \A k \in 1..(m + 1) : Append(held, item)[k] = Append(items, item)[from + k]
  BY <1>2, <1>3, <1>4, <1>5, <1>6, <1>7
<1>9. n + 1 = from + (m + 1)
  BY <1>1
<1>10. Len(Append(held, item)) = Len(held) + 1
  BY <1>2 DEF m
<1> QED
  BY <1>2, <1>3, <1>8, <1>9, <1>10

(* What Emit puts into the batch, and possibly into a chunk.               *)
LEMMA EmitItems ==
    ASSUME TypeInv, ChunkInv, NEW item \in Nat, NEW ok \in BOOLEAN, Emit(item, ok)
    PROVE  LET items == Append(batch, item)
           IN /\ Len(items) = Len(batch) + 1 /\ items \in Seq(Nat)
              /\ Len(emitted') = Start(chunkIndex) + Len(items)
              /\ \A k \in 1..Len(items) : items[k] = emitted'[Start(chunkIndex) + k]
<1> DEFINE items == Append(batch, item)
           from == Start(chunkIndex)
<1>1. /\ chunkIndex \in Nat /\ batch \in Seq(Nat) /\ emitted \in Seq(Nat)
      /\ emitted' = Append(emitted, item)
  BY DEF TypeInv, Emit
<1>2. from \in Nat
  BY <1>1, StartProperties
<1>3. Len(emitted) = from + Len(batch) /\ \A k \in 1..Len(batch) : batch[k] = emitted[from + k]
  BY DEF ChunkInv
<1>4. items \in Seq(Nat)
  BY <1>1
<1> HIDE DEF from
<1>5. /\ Len(items) = Len(batch) + 1
      /\ Len(Append(emitted, item)) = from + Len(items)
      /\ \A k \in 1..Len(items) : items[k] = Append(emitted, item)[from + k]
  BY <1>1, <1>2, <1>3, BatchGrows
<1> QED
  BY <1>1, <1>4, <1>5 DEF from

LEMMA EmitStep ==
    ASSUME TypeInv, ChunkInv, Emitting, NEW item \in Nat, NEW ok \in BOOLEAN, Emit(item, ok),
           pc' \notin Beyond, Emitting' => ok
    PROVE  ChunkInv'
<1> DEFINE items == Append(batch, item)
           from == Start(chunkIndex)
           e == Chunk(chunkIndex, items, FALSE)
<1>1. /\ chunkIndex \in Nat /\ batch \in Seq(Nat) /\ emitted \in Seq(Nat) /\ faults \in Nat
      /\ pc \notin Beyond /\ emitted' = Append(emitted, item)
      /\ Len(batch) \in Nat
  BY DEF TypeInv, Emitting, Emit
<1>2. /\ Len(emitted) = from + Len(batch) /\ Len(batch) < BATCH_SIZE
      /\ \A k \in 1..Len(batch) : batch[k] = emitted[from + k]
  BY DEF ChunkInv
<1>3. /\ from \in Nat /\ BATCH_SIZE \in Nat \ {0}
      /\ Start(chunkIndex + 1) = from + BATCH_SIZE /\ chunkIndex + 1 \in Nat
  <2>1. from \in Nat
    BY <1>1, StartProperties
  <2>2. Start(chunkIndex + 1) = from + BATCH_SIZE
    BY <1>1, StartProperties
  <2>3. BATCH_SIZE \in Nat \ {0} /\ chunkIndex + 1 \in Nat
    BY <1>1, StartProperties
  <2> QED
    BY <2>1, <2>2, <2>3
<1>4. /\ Len(items) = Len(batch) + 1 /\ items \in Seq(Nat)
      /\ Len(emitted') = from + Len(items)
      /\ \A k \in 1..Len(items) : items[k] = emitted'[from + k]
  BY EmitItems
<1>5. /\ e \in TaskEvents /\ IsChunk(e) /\ e.id = chunkIndex /\ e.data = items /\ ~e.isLast
  BY <1>1, <1>4, ChunkEvent
<1>6. \A c \in TaskEvents : IsChunk(c) /\ ~c.isLast /\ PlacedIn(c, emitted) =>
                            PlacedIn(c, emitted')
  BY <1>1, PlacedStays
<1> HIDE DEF e
<1>7. CASE Len(batch) + 1 >= BATCH_SIZE /\ Flush(items, FALSE, ok)
  <2>1. Len(items) = BATCH_SIZE
    BY <1>1, <1>2, <1>3, <1>4, <1>7
  <2>2. PlacedIn(e, emitted')
    BY <1>3, <1>4, <1>5, <2>1 DEF PlacedIn
  <2>3. Publish(e, ok) /\ Adds(e)
    BY <1>5, <1>7, PublishAdds DEF Flush, e
  <2>4. /\ ChunksPlaced'
        /\ \A i \in DOMAIN stream' : IsChunk(stream'[i]) =>
              stream'[i].id <= chunkIndex /\ ~stream'[i].isLast
    BY <1>1, <1>5, <1>6, <2>2, <2>3, ChunkAdded
  <2> HIDE DEF items, from
  <2>5. \A i \in DOMAIN stream' : IsChunk(stream'[i]) => stream'[i].id \in Nat
    BY <2>3, ChunkFields DEF Adds
  <2>6. CASE ok
    <3>1. chunkIndex' = chunkIndex + 1 /\ batch' = <<>> /\ Len(batch') = 0
      BY <1>7, <2>6 DEF Flush
    <3>2. PICK j \in DOMAIN stream' : stream'[j] = e
      BY <1>5, <2>3, <2>6, PublishedIsThere
    <3>3. Len(emitted') = Start(chunkIndex') + Len(batch')
      BY <1>3, <1>4, <2>1, <3>1 DEF items, from
    <3>4. \A i \in DOMAIN stream' : IsChunk(stream'[i]) =>
             stream'[i].id <= chunkIndex' /\ stream'[i].id # chunkIndex'
      BY <1>1, <2>4, <2>5, <3>1
    <3>5. \E i \in DOMAIN stream' : IsChunk(stream'[i]) /\ ~stream'[i].isLast
                                    /\ stream'[i].id + 1 = chunkIndex'
      BY <1>5, <3>1, <3>2
    <3>6. Len(batch') <= BATCH_SIZE /\ Len(batch') < BATCH_SIZE
      BY <1>3, <3>1
    <3>7. \A k \in 1..Len(batch') : batch'[k] = emitted'[Start(chunkIndex') + k]
      BY <3>1
    <3> QED
      BY <2>4, <3>3, <3>4, <3>5, <3>6, <3>7 DEF ChunkInv
  <2>7. CASE ~ok
    <3>1. chunkIndex' = chunkIndex /\ batch' = items /\ ~Emitting' /\ faults' = faults + 1
      BY <1>7, <2>3, <2>7 DEF Flush, Publish
    <3>2. faults' > 0
      BY <1>1, <3>1
    <3>3. chunkIndex' > 0 =>
             \E j \in DOMAIN stream' : IsChunk(stream'[j]) /\ ~stream'[j].isLast
                                       /\ stream'[j].id + 1 = chunkIndex'
      BY <2>3, <3>1 DEF ChunkInv, Adds
    <3>4. /\ Len(emitted') = Start(chunkIndex') + Len(batch')
          /\ \A k \in 1..Len(batch') : batch'[k] = emitted'[Start(chunkIndex') + k]
      BY <1>4, <3>1 DEF from
    <3>5. Len(batch') <= BATCH_SIZE
      BY <1>3, <2>1, <3>1
    <3> QED
      BY <2>4, <3>1, <3>2, <3>3, <3>4, <3>5 DEF ChunkInv
  <2> QED
    BY <2>6, <2>7
<1>8. CASE Len(batch) + 1 < BATCH_SIZE /\ batch' = items /\ UNCHANGED <<stream, chunkIndex, faults>>
  <2>1. \A i \in DOMAIN stream : IsChunk(stream[i]) =>
           /\ stream[i] \in TaskEvents /\ ~stream[i].isLast /\ PlacedIn(stream[i], emitted)
    BY <1>1 DEF ChunkInv, ChunksPlaced, TypeInv
  <2>2. \A i \in DOMAIN stream' : IsChunk(stream'[i]) => PlacedIn(stream'[i], emitted')
    BY <1>6, <1>8, <2>1
  <2>3. ChunksPlaced'
    BY <1>8, <2>2 DEF ChunkInv, ChunksPlaced
  <2>4. Len(batch') <= BATCH_SIZE /\ Len(batch') < BATCH_SIZE
    BY <1>1, <1>3, <1>4, <1>8
  <2>5. /\ Len(emitted') = Start(chunkIndex') + Len(batch')
        /\ \A k \in 1..Len(batch') : batch'[k] = emitted'[Start(chunkIndex') + k]
    BY <1>4, <1>8
  <2> HIDE DEF items, from
  <2> QED
    BY <1>1, <1>8, <2>3, <2>4, <2>5 DEF ChunkInv
<1> QED
  BY <1>7, <1>8 DEF Emit

LEMMA ExitStep ==
    ASSUME TypeInv, ChunkInv, pc \in Closing, NEW ok \in BOOLEAN, Exit(ok), pc' \in Beyond
    PROVE  ChunkInv'
<1> DEFINE e == Chunk(chunkIndex, batch, TRUE)
<1>1. /\ chunkIndex \in Nat /\ batch \in Seq(Nat) /\ emitted' = emitted /\ pc \notin Beyond
      /\ Publish(e, ok) /\ chunkIndex' = chunkIndex /\ batch' = batch
  BY DEF TypeInv, Exit, Flush, Closing, Beyond, Ended
<1>2. e \in TaskEvents /\ IsChunk(e) /\ e.id = chunkIndex /\ e.data = batch /\ e.isLast
  BY <1>1, ChunkEvent
<1> HIDE DEF e
<1>3. Adds(e)
  BY <1>1, <1>2, PublishAdds
<1>4. /\ Len(batch) <= BATCH_SIZE /\ Len(emitted) = Start(chunkIndex) + Len(batch)
      /\ \A k \in 1..Len(batch) : batch[k] = emitted[Start(chunkIndex) + k]
  BY DEF ChunkInv
<1>5. Start(chunkIndex) + Len(batch) <= Len(emitted)
  <2>1. Start(chunkIndex) \in Nat
    BY <1>1, StartProperties
  <2>2. Len(batch) \in Nat
    BY <1>1
  <2> QED
    BY <1>4, <2>1, <2>2
<1>6. PlacedIn(e, emitted')
  BY <1>1, <1>2, <1>4, <1>5 DEF PlacedIn
<1>7. /\ ChunksPlaced'
      /\ \A i \in DOMAIN stream' : IsChunk(stream'[i]) => stream'[i].id <= chunkIndex
  BY <1>1, <1>2, <1>3, <1>6, ChunkAdded
<1>8. chunkIndex > 0 =>
         \E j \in DOMAIN stream' : IsChunk(stream'[j]) /\ ~stream'[j].isLast
                                   /\ stream'[j].id + 1 = chunkIndex
  BY <1>3 DEF ChunkInv, Adds
<1>9. ~Emitting'
  BY DEF Emitting
<1> QED
  BY <1>1, <1>4, <1>7, <1>8, <1>9 DEF ChunkInv

-----------------------------------------------------------------------------
(* What the reader has put together is all that was emitted once the chunk *)
(* with the current index is in the stream, and all but the batch before.  *)
Has(id) == \E i \in DOMAIN stream : IsChunk(stream[i]) /\ stream[i].id = id
AssembledInv ==
    /\ assembled \in Seq(Nat)
    /\ Len(assembled) = IF Has(chunkIndex) THEN Len(emitted) ELSE Start(chunkIndex)
    /\ \A k \in 1..Len(assembled) : assembled[k] = emitted[k]
    /\ Emitting => ~Has(chunkIndex)
    /\ \A i \in DOMAIN stream : IsChunk(stream[i]) /\ stream[i].isLast => stream[i].id = chunkIndex
Chunked == ChunkInv /\ AssembledInv

HasNext(id) == \E i \in DOMAIN stream' : IsChunk(stream'[i]) /\ stream'[i].id = id

(* The reader after a call that published a chunk, after one that did not. *)
LEMMA AssembleChunk ==
    ASSUME NEW e \in TaskEvents, IsChunk(e), Adds(e), Assemble
    PROVE  \/ assembled' = assembled /\ (HasNext(e.id) <=> Has(e.id))
           \/ assembled' = assembled \o e.data /\ ~Has(e.id) /\ HasNext(e.id)
<1>1. /\ \A i \in DOMAIN stream : i \in DOMAIN stream' /\ stream'[i] = stream[i]
      /\ \A i \in DOMAIN stream' \ DOMAIN stream : stream'[i] = e
  BY DEF Adds
<1>2. CASE News = {}
  <2>1. assembled' = assembled
    BY <1>2 DEF Assemble
  <2>2. HasNext(e.id) <=> Has(e.id)
    BY <1>1, <1>2 DEF News, Has, HasNext
  <2> QED
    BY <2>1, <2>2
<1>3. CASE News # {}
  <2>1. PICK i \in News : assembled' = assembled \o stream'[i].data
    BY <1>3 DEF Assemble
  <2>2. i \in DOMAIN stream' \ DOMAIN stream /\ stream'[i] = e /\ ~Has(e.id)
    BY <1>1, <2>1 DEF News, Has, HasNext
  <2>3. HasNext(e.id)
    BY <2>2 DEF Has, HasNext
  <2> QED
    BY <2>1, <2>2, <2>3
<1> QED
  BY <1>2, <1>3

LEMMA AssembledKept ==
    ASSUME TypeInv, AssembledInv, UNCHANGED <<chunkIndex, emitted>>, Assemble,
           stream' = stream \/ \E e \in TaskEvents : ~IsChunk(e) /\ Adds(e),
           Emitting' => Emitting
    PROVE  AssembledInv'
<1>1. /\ \A i \in DOMAIN stream : i \in DOMAIN stream' /\ stream'[i] = stream[i]
      /\ \A i \in DOMAIN stream' :
            IsChunk(stream'[i]) => i \in DOMAIN stream /\ stream'[i] = stream[i]
  BY DEF Adds
<1>2. assembled' = assembled
  BY <1>1 DEF Assemble, News
<1>3. HasNext(chunkIndex) <=> Has(chunkIndex)
  BY <1>1 DEF Has, HasNext
<1> QED
  BY <1>1, <1>2, <1>3 DEF AssembledInv, Has, HasNext

LEMMA Glued ==
    ASSUME NEW a \in Seq(Nat), NEW b \in Seq(Nat), NEW items \in Seq(Nat),
           Len(items) = Len(a) + Len(b), \A k \in 1..Len(a) : a[k] = items[k],
           \A k \in 1..Len(b) : b[k] = items[Len(a) + k]
    PROVE  /\ a \o b \in Seq(Nat) /\ Len(a \o b) = Len(items)
           /\ \A k \in 1..Len(a \o b) : (a \o b)[k] = items[k]
<1>1. /\ a \o b \in Seq(Nat) /\ Len(a \o b) = Len(items) /\ Len(a) \in Nat /\ Len(b) \in Nat
      /\ \A k \in 1..Len(a) : (a \o b)[k] = a[k]
      /\ \A k \in 1..Len(b) : (a \o b)[Len(a) + k] = b[k]
  OBVIOUS
<1> DEFINE m == Len(a)
           n == Len(b)
           c == a \o b
<1>2. /\ m \in Nat /\ n \in Nat /\ \A k \in 1..m : c[k] = items[k]
      /\ \A k \in 1..n : c[m + k] = items[m + k]
  BY <1>1
<1> HIDE DEF m, n, c
<1>3. ASSUME NEW k \in 1..(m + n) PROVE c[k] = items[k]
  <2>1. CASE k <= m
    BY <1>2, <2>1
  <2>2. CASE k > m
    <3>1. (k - m) \in 1..n /\ m + (k - m) = k
      BY <1>2, <2>2
    <3> QED
      BY <1>2, <3>1
  <2> QED
    BY <1>2, <2>1, <2>2
<1> QED
  BY <1>1, <1>3 DEF m, n, c

LEMMA EmitAssembles ==
    ASSUME TypeInv, Chunked, Emitting, NEW item \in Nat, NEW ok \in BOOLEAN, Emit(item, ok),
           pc' \notin Beyond, Emitting' => ok, Assemble
    PROVE  Chunked'
<1> DEFINE items == Append(batch, item)
           from == Start(chunkIndex)
           e == Chunk(chunkIndex, items, FALSE)
<1>1. /\ ChunkInv /\ ChunkInv' /\ AssembledInv /\ chunkIndex \in Nat /\ ~Has(chunkIndex)
      /\ emitted \in Seq(Nat) /\ item \in Nat /\ emitted' = Append(emitted, item)
      /\ assembled \in Seq(Nat) /\ Len(assembled) = from
      /\ \A k \in 1..Len(assembled) : assembled[k] = emitted[k]
      /\ \A i \in DOMAIN stream : IsChunk(stream[i]) => ~stream[i].isLast
  BY EmitStep DEF Chunked, AssembledInv, TypeInv, Emit, ChunkInv, Emitting
<1>2. /\ items \in Seq(Nat) /\ Len(emitted') = from + Len(items)
      /\ \A k \in 1..Len(items) : items[k] = emitted'[from + k]
  BY <1>1, EmitItems
<1>3. emitted' \in Seq(Nat) /\ \A k \in 1..Len(assembled) : assembled[k] = emitted'[k]
  <2>1. Len(emitted) = from + Len(batch) /\ Len(batch) \in Nat /\ from \in Nat
    BY <1>1, StartProperties DEF ChunkInv, TypeInv
  <2>2. \A k \in 1..from : k \in 1..Len(emitted)
    <3> HIDE DEF from
    <3> QED
      BY <2>1
  <2>3. /\ Append(emitted, item) \in Seq(Nat)
        /\ \A k \in 1..Len(emitted) : Append(emitted, item)[k] = emitted[k]
    BY <1>1
  <2> QED
    BY <1>1, <2>2, <2>3
<1>4. e \in TaskEvents /\ IsChunk(e) /\ e.id = chunkIndex /\ e.data = items /\ ~e.isLast
  BY <1>1, <1>2, ChunkEvent
<1>5. /\ assembled \o items \in Seq(Nat) /\ Len(assembled \o items) = Len(emitted')
      /\ \A k \in 1..Len(assembled \o items) : (assembled \o items)[k] = emitted'[k]
  <2>1. /\ Len(emitted') = Len(assembled) + Len(items)
        /\ \A k \in 1..Len(items) : items[k] = emitted'[Len(assembled) + k]
    BY <1>1, <1>2
  <2>2. items \in Seq(Nat) /\ assembled \in Seq(Nat)
    BY <1>1, <1>2
  <2> HIDE DEF items, from
  <2>3. assembled \o items \in Seq(Nat) /\ Len(assembled \o items) = Len(emitted')
    BY <1>3, <2>1, <2>2, Glued
  <2>4. \A k \in 1..Len(assembled \o items) : (assembled \o items)[k] = emitted'[k]
    BY <1>3, <2>1, <2>2, Glued
  <2> QED
    BY <2>3, <2>4
<1> HIDE DEF e, items, from
<1>6. CASE Flush(items, FALSE, ok)
  <2>1. Publish(e, ok) /\ Adds(e)
    BY <1>4, <1>6, PublishAdds DEF Flush, e
  <2>2. \A i \in DOMAIN stream' : IsChunk(stream'[i]) => ~stream'[i].isLast
    BY <1>1, <1>4, <2>1 DEF Adds
  <2>3. \/ assembled' = assembled /\ ~HasNext(chunkIndex)
        \/ assembled' = assembled \o items /\ HasNext(chunkIndex)
    BY <1>1, <1>4, <2>1, AssembleChunk
  <2>4. CASE ok
    <3>1. chunkIndex' = chunkIndex + 1 /\ batch' = <<>> /\ Len(batch') = 0
      BY <1>6, <2>4 DEF Flush
    <3>2. HasNext(chunkIndex)
      BY <1>4, <2>1, <2>4, PublishedIsThere DEF Has, HasNext
    <3>3. assembled' = assembled \o items
      BY <2>3, <3>2
    <3>4. Len(emitted') = Start(chunkIndex')
      <4>1. Start(chunkIndex') \in Nat
        BY <1>1, <3>1, StartProperties
      <4> QED
        BY <1>1, <3>1, <4>1 DEF ChunkInv
    <3>5. ~HasNext(chunkIndex')
      <4>1. \A i \in DOMAIN stream : IsChunk(stream[i]) => stream[i].id # chunkIndex + 1
        <5>1. \A i \in DOMAIN stream : stream[i] \in TaskEvents
          BY DEF TypeInv
        <5>2. \A i \in DOMAIN stream :
                 IsChunk(stream[i]) => stream[i].id \in Nat /\ stream[i].id <= chunkIndex
          BY <1>1, <5>1, ChunkFields DEF ChunkInv
        <5> QED
          BY <1>1, <5>2
      <4>2. chunkIndex # chunkIndex + 1
        BY <1>1
      <4>3. \A i \in DOMAIN stream' : IsChunk(stream'[i]) => stream'[i].id # chunkIndex + 1
        BY <1>4, <2>1, <4>1, <4>2 DEF Adds
      <4> QED
        BY <3>1, <4>3 DEF Has, HasNext
    <3> QED
      BY <1>1, <1>5, <2>2, <3>3, <3>4, <3>5 DEF Chunked, AssembledInv, Has, HasNext
  <2>5. CASE ~ok
    <3>1. chunkIndex' = chunkIndex /\ ~Emitting'
      BY <1>6, <2>5 DEF Flush
    <3> QED
      BY <1>1, <1>3, <1>5, <2>2, <2>3, <3>1 DEF Chunked, AssembledInv, Has, HasNext, from
  <2> QED
    BY <2>4, <2>5
<1>7. CASE UNCHANGED <<stream, chunkIndex, faults>>
  <2>1. ~HasNext(chunkIndex) /\ assembled' = assembled
    BY <1>1, <1>7 DEF Has, HasNext, Assemble, News
  <2> QED
    BY <1>1, <1>3, <1>7, <2>1 DEF Chunked, AssembledInv, Has, HasNext, from
<1> QED
  BY <1>6, <1>7 DEF Emit, items

LEMMA ExitAssembles ==
    ASSUME TypeInv, Chunked, pc \in Closing, NEW ok \in BOOLEAN, Exit(ok), pc' \in Beyond,
           Assemble
    PROVE  Chunked'
<1> DEFINE e == Chunk(chunkIndex, batch, TRUE)
           from == Start(chunkIndex)
<1>1. /\ ChunkInv /\ AssembledInv /\ chunkIndex \in Nat /\ batch \in Seq(Nat)
      /\ emitted \in Seq(Nat) /\ emitted' = emitted /\ chunkIndex' = chunkIndex
      /\ Publish(e, ok) /\ ~Emitting' /\ pc \notin Beyond
  BY DEF Chunked, TypeInv, Exit, Flush, Emitting, Closing, Beyond, Ended
<1>2. ChunkInv'
  BY <1>1, ExitStep
<1>3. e \in TaskEvents /\ IsChunk(e) /\ e.id = chunkIndex /\ e.data = batch /\ e.isLast
  BY <1>1, ChunkEvent
<1> HIDE DEF e
<1>4. Adds(e)
  BY <1>1, <1>3, PublishAdds
<1>5. \A i \in DOMAIN stream' : IsChunk(stream'[i]) /\ stream'[i].isLast =>
                                stream'[i].id = chunkIndex
  BY <1>1, <1>3, <1>4 DEF AssembledInv, Adds
<1>6. CASE assembled' = assembled /\ (HasNext(chunkIndex) <=> Has(chunkIndex))
  BY <1>1, <1>2, <1>5, <1>6 DEF Chunked, AssembledInv, Has, HasNext
<1>7. CASE assembled' = assembled \o batch /\ ~Has(chunkIndex) /\ HasNext(chunkIndex)
  <2>1. /\ assembled \in Seq(Nat) /\ Len(assembled) = from
        /\ \A k \in 1..Len(assembled) : assembled[k] = emitted[k]
    BY <1>1, <1>7 DEF AssembledInv
  <2>2. Len(emitted) = from + Len(batch) /\ \A k \in 1..Len(batch) : batch[k] = emitted[from + k]
    BY <1>1 DEF ChunkInv
  <2> HIDE DEF from
  <2>3. /\ Len(emitted) = Len(assembled) + Len(batch)
        /\ \A k \in 1..Len(batch) : batch[k] = emitted[Len(assembled) + k]
    BY <2>1, <2>2
  <2>4. assembled \o batch \in Seq(Nat) /\ Len(assembled \o batch) = Len(emitted)
    BY <1>1, <2>1, <2>3, Glued
  <2>5. \A k \in 1..Len(assembled \o batch) : (assembled \o batch)[k] = emitted[k]
    BY <1>1, <2>1, <2>3, Glued
  <2> QED
    BY <1>1, <1>2, <1>5, <1>7, <2>4, <2>5 DEF Chunked, AssembledInv, Has, HasNext
<1> QED
  BY <1>3, <1>4, <1>6, <1>7, AssembleChunk

-----------------------------------------------------------------------------
LEMMA ChunkInit == Init => Chunked
<1> SUFFICES ASSUME Init PROVE Chunked
  OBVIOUS
<1>1. /\ stream = <<>> /\ chunkIndex = 0 /\ batch = <<>> /\ emitted = <<>>
      /\ DOMAIN stream = {} /\ Len(batch) = 0 /\ Len(emitted) = 0 /\ assembled = <<>>
  BY DEF Init, ReporterInit
<1>2. ChunksPlaced
  BY <1>1 DEF ChunksPlaced
<1>3. Len(emitted) = Start(chunkIndex) + Len(batch)
  BY <1>1, StartProperties
<1>4. Len(batch) <= BATCH_SIZE /\ Len(batch) < BATCH_SIZE
  BY <1>1, StartProperties
<1>5. \A k \in 1..Len(batch) : batch[k] = emitted[Start(chunkIndex) + k]
  BY <1>1
<1>6. /\ ~(chunkIndex > 0)
      /\ \A i \in DOMAIN stream : IsChunk(stream[i]) => FALSE
  BY <1>1
<1>7. ChunkInv
  BY <1>2, <1>3, <1>4, <1>5, <1>6 DEF ChunkInv
<1>8. AssembledInv
  BY <1>1, StartProperties DEF AssembledInv, Has
<1> QED
  BY <1>7, <1>8 DEF Chunked

LEMMA OtherEvents ==
    /\ \A s \in {"RUNNING", "FAILED", "COMPLETED"}, n \in Nat : ~IsChunk(Status(s, n))
    /\ \A data \in Seq(Nat) \cup Nat : ~IsChunk(Result(data))
BY DEF Status, Result, IsChunk

(* Steps that publish no chunk: report_status, report_result and the rest. *)
LEMMA NoChunkStep ==
    ASSUME TypeInv, Chunked, Assemble, UNCHANGED <<chunkIndex, batch, emitted, stream>>,
           faults' \in Nat, faults <= faults', pc \in Beyond => pc' \in Beyond,
           Emitting' => Emitting
    PROVE  Chunked'
BY NoChunkAdded, AssembledKept DEF Chunked

LEMMA ReportStep ==
    ASSUME TypeInv, Chunked, Assemble, NEW event \in TaskEvents, ~IsChunk(event),
           NEW ok \in BOOLEAN, Report(event, ok),
           pc \in Beyond => pc' \in Beyond, Emitting' => Emitting
    PROVE  Chunked'
BY ReportAdds, NoChunkAdded, AssembledKept DEF Report, Chunked

LEMMA PiChunks ==
    ASSUME TypeInv, Chunked, task = "compute_pi", ComputePi, Assemble PROVE Chunked'
<1>1. digits \in Nat /\ digits + 1 \in Nat /\ faults \in Nat
  BY DEF TypeInv
<1>2. ASSUME NEW ok \in BOOLEAN, CountDigit(ok) PROVE Chunked'
  <2> DEFINE e == Status("RUNNING", digits + 1)
  <2>1. e \in TaskEvents /\ ~IsChunk(e) /\ Report(e, ok)
    BY <1>1, <1>2, EventTypes, OtherEvents DEF CountDigit
  <2>2. pc = "count" /\ pc' \in {"digit", "unwind"}
    BY <1>2 DEF CountDigit, Continue
  <2>3. Emitting /\ pc \notin Beyond
    BY <2>2 DEF Emitting, Closing, Beyond, Ended
  <2> HIDE DEF e
  <2> QED
    BY <2>1, <2>3, ReportStep
<1>3. ASSUME NEW ok \in BOOLEAN, EmitDigit(ok) PROVE Chunked'
  <2>1. pc = "digit" /\ pc' \in {"count", "exit", "unwind"} /\ (~ok => pc' = "unwind")
    BY <1>3 DEF EmitDigit, Continue
  <2>2. Emitting /\ pc' \notin Beyond /\ (Emitting' => ok)
    BY <2>1 DEF Emitting, Closing, Beyond, Ended
  <2>3. Emit(digits + 1, ok)
    BY <1>3 DEF EmitDigit
  <2> QED
    BY <1>1, <2>2, <2>3, EmitAssembles
<1>4. ASSUME NEW ok \in BOOLEAN, CloseDigits(ok) PROVE Chunked'
  <2>1. pc \in Closing /\ pc' \in Beyond /\ Exit(ok)
    BY <1>4 DEF CloseDigits, Continue, Closing, Beyond, Ended
  <2> QED
    BY <2>1, ExitAssembles
<1>5. ASSUME NEW ok \in BOOLEAN, ReportDigits(ok) PROVE Chunked'
  <2> DEFINE e == Result([i \in 1..DIGITS |-> i])
  <2>1. e \in TaskEvents /\ ~IsChunk(e)
    <3>1. DIGITS \in Nat
      BY DigitsAssumption
    <3>2. [i \in 1..DIGITS |-> i] \in [1..DIGITS -> Nat]
      BY <3>1
    <3>3. [i \in 1..DIGITS |-> i] \in Seq(Nat)
      BY <3>1, <3>2
    <3> QED
      BY <3>3, EventTypes, OtherEvents
  <2>2. Report(e, ok)
    BY <1>5 DEF ReportDigits
  <2>3. pc' \in Beyond /\ ~Emitting'
    BY <1>5 DEF ReportDigits, Continue, Emitting, Beyond, Ended
  <2> HIDE DEF e
  <2> QED
    BY <2>1, <2>2, <2>3, ReportStep
<1>6. ASSUME Crash PROVE Chunked'
  <2>1. /\ UNCHANGED <<chunkIndex, batch, emitted, stream>>
        /\ faults' = faults + 1 /\ pc' = "crashed"
    BY <1>6 DEF Crash
  <2>2. faults' \in Nat /\ faults <= faults' /\ pc' \in Beyond /\ ~Emitting'
    BY <1>1, <2>1 DEF Emitting, Beyond, Ended
  <2> QED
    BY <2>1, <2>2, NoChunkStep
<1> QED
  BY <1>2, <1>3, <1>4, <1>5, <1>6 DEF ComputePi

LEMMA DocumentChunks ==
    ASSUME Inv, Chunked, task = "document_analysis", AnalyzeDocument, Assemble
    PROVE  Chunked'
<1>1. /\ TypeInv /\ DocumentProgress /\ faults \in Nat /\ bytesRead \in Nat
      /\ hits \in SUBSET Nat /\ totalBytes \in Nat /\ emitted \in Seq(Nat)
  BY DEF Inv, ProgressInv, TypeInv
<1>2. ASSUME NEW ok \in BOOLEAN, ReportFailed(ok) \/ ReportStarted(ok) PROVE Chunked'
  <2>1. PICK s \in {"RUNNING", "FAILED"} : Report(Status(s, 0), ok)
    BY <1>2 DEF ReportFailed, ReportStarted
  <2>2. Status(s, 0) \in TaskEvents /\ ~IsChunk(Status(s, 0))
    BY EventTypes, OtherEvents
  <2>3. Emitting /\ pc \notin Beyond
    BY <1>2 DEF ReportFailed, ReportStarted, Emitting, Closing, Beyond, Ended
  <2> QED
    BY <1>1, <2>1, <2>2, <2>3, ReportStep
<1>3. ASSUME NEW ok \in BOOLEAN, EmitSnippet(ok) PROVE Chunked'
  <2>1. pc = "snippet" /\ pc' \in {"status", "unwind"} /\ (~ok => pc' = "unwind")
    BY <1>3 DEF EmitSnippet, Continue
  <2>2. Emitting /\ pc' \notin Beyond /\ (Emitting' => ok)
    BY <2>1 DEF Emitting, Closing, Beyond, Ended
  <2>3. NextHit \in Nat
    BY <1>1, <2>1, MinIsLeast DEF NextHit, DocumentProgress
  <2>4. Emit(NextHit, ok)
    BY <1>3 DEF EmitSnippet
  <2> QED
    BY <1>1, <2>2, <2>3, <2>4, EmitAssembles
<1>4. ASSUME NEW ok \in BOOLEAN, ReportProgress(ok) PROVE Chunked'
  <2>1. Status("RUNNING", bytesRead) \in TaskEvents /\ ~IsChunk(Status("RUNNING", bytesRead))
    BY <1>1, EventTypes, OtherEvents
  <2>2. Report(Status("RUNNING", bytesRead), ok)
    BY <1>4 DEF ReportProgress
  <2>3. Emitting /\ pc \notin Beyond
    BY <1>4 DEF ReportProgress, Emitting, Closing, Beyond, Ended
  <2> QED
    BY <1>1, <2>1, <2>2, <2>3, ReportStep
<1>5. ASSUME NEW ok \in BOOLEAN, CloseSnippets(ok) PROVE Chunked'
  <2>1. pc \in Closing /\ pc' \in Beyond /\ Exit(ok)
    BY <1>5 DEF CloseSnippets, Continue, Closing, Beyond, Ended
  <2> QED
    BY <1>1, <2>1, ExitAssembles
<1>6. ASSUME NEW ok \in BOOLEAN, ReportCompleted(ok) \/ ReportCount(ok) PROVE Chunked'
  <2>1. pc' \in Beyond /\ ~Emitting'
    BY <1>6 DEF ReportCompleted, ReportCount, Continue, Emitting, Beyond, Ended
  <2>2. Len(emitted) \in Nat
    BY <1>1
  <2>3. PICK e \in {Status("COMPLETED", totalBytes), Result(Len(emitted))} : Report(e, ok)
    BY <1>6 DEF ReportCompleted, ReportCount
  <2>4. e \in TaskEvents /\ ~IsChunk(e)
    BY <1>1, <2>2, <2>3, EventTypes, OtherEvents
  <2> QED
    BY <1>1, <2>1, <2>3, <2>4, ReportStep
<1>7. ASSUME ReadLines \/ EndOfFile \/ ReadFails PROVE Chunked'
  <2>1. /\ pc = "scan" /\ UNCHANGED <<chunkIndex, batch, emitted, stream>>
        /\ faults' \in {faults, faults + 1}
    BY <1>7 DEF ReadLines, EndOfFile, ReadFails, reporter
  <2>2. Emitting /\ pc \notin Beyond
    BY <2>1 DEF Emitting, Closing, Beyond, Ended
  <2>3. faults' \in Nat /\ faults <= faults'
    BY <1>1, <2>1
  <2> QED
    BY <1>1, <2>1, <2>2, <2>3, NoChunkStep
<1>8. ASSUME Crash PROVE Chunked'
  <2>1. /\ UNCHANGED <<chunkIndex, batch, emitted, stream>>
        /\ faults' = faults + 1 /\ pc' = "crashed"
    BY <1>8 DEF Crash
  <2>2. faults' \in Nat /\ faults <= faults' /\ pc' \in Beyond /\ ~Emitting'
    BY <1>1, <2>1 DEF Emitting, Beyond, Ended
  <2> QED
    BY <1>1, <2>1, <2>2, NoChunkStep
<1> QED
  BY <1>2, <1>3, <1>4, <1>5, <1>6, <1>7, <1>8 DEF AnalyzeDocument

LEMMA ChunksInductive == Spec => []Chunked
<1>1. Inv /\ Chunked /\ [Next]_vars => Chunked'
  <2> SUFFICES ASSUME Inv, Chunked, [Next]_vars PROVE Chunked'
    OBVIOUS
  <2>1. TypeInv
    BY DEF Inv
  <2>2. CASE task = "compute_pi" /\ ComputePi /\ Assemble
    BY <2>1, <2>2, PiChunks
  <2>3. CASE task = "document_analysis" /\ AnalyzeDocument /\ Assemble
    BY <2>3, DocumentChunks
  <2>4. CASE UNCHANGED <<reporter, pc, assembled>>
    BY <2>4 DEF Chunked, AssembledInv, Has, ChunkInv, ChunksPlaced, PlacedIn, Emitting, reporter
  <2> QED
    BY <2>2, <2>3, <2>4 DEF Next, Work, Download, vars
<1> QED
  BY Inductive, ChunkInit, <1>1, PTL DEF Spec

(* Where the items of each chunk lie, whatever calls failed or were        *)
(* retried and wherever the task stopped: every chunk's items are those    *)
(* emitted at id * BATCH_SIZE, no chunk is there without the one before    *)
(* it, and the is_last chunk, which __exit__ flushes also for a task that  *)
(* raised, ends where the emitted items end.                               *)
THEOREM ChunksInPlace == Spec => []ChunksPlaced
<1>1. Chunked => ChunksPlaced
  BY DEF Chunked, ChunkInv
<1> QED
  BY ChunksInductive, <1>1, PTL

LEMMA PrefixByItems ==
    ASSUME NEW a \in Seq(Nat), NEW b \in Seq(Nat), Len(a) <= Len(b),
           \A k \in 1..Len(a) : a[k] = b[k]
    PROVE  IsPrefix(a, b) /\ (Len(a) = Len(b) => a = b)
<1>1. SubSeq(a, 1, Len(a)) = SubSeq(b, 1, Len(a))
  OBVIOUS
<1> QED
  BY <1>1 DEF IsPrefix

LEMMA AssembledFacts ==
    ASSUME TypeInv, Chunked PROVE AssembledIsPrefix
<1>1. /\ assembled \in Seq(Nat) /\ emitted \in Seq(Nat) /\ batch \in Seq(Nat) /\ chunkIndex \in Nat
      /\ \A k \in 1..Len(assembled) : assembled[k] = emitted[k]
      /\ Len(emitted) = Start(chunkIndex) + Len(batch)
      /\ Len(assembled) = IF Has(chunkIndex) THEN Len(emitted) ELSE Start(chunkIndex)
  BY DEF TypeInv, Chunked, AssembledInv, ChunkInv
<1>2. Len(assembled) <= Len(emitted)
  <2>1. Start(chunkIndex) \in Nat /\ Len(batch) \in Nat
    BY <1>1, StartProperties
  <2> QED
    BY <1>1, <2>1
<1>3. Closed => Has(chunkIndex)
  BY DEF Closed, Has, Chunked, AssembledInv
<1> QED
  BY <1>1, <1>2, <1>3, PrefixByItems DEF AssembledIsPrefix

(* What whoever reads the stream assembles, for any task, batch size and   *)
(* faults: always a prefix of what was emitted, without a hole, and all of *)
(* it once an is_last chunk has come, in numbered chunks that repeat only  *)
(* after a failed call.                                                    *)
THEOREM StreamAssembles == Spec => []ChunksAssemble
<1>1. TypeInv /\ Chunked => ChunksAssemble
  <2> SUFFICES ASSUME TypeInv, Chunked PROVE ChunksInOrder
    BY AssembledFacts DEF ChunksAssemble
  <2>1. /\ ChunksPlaced /\ \A i \in DOMAIN stream : i \in Nat /\ stream[i] \in TaskEvents
        /\ \A i \in DOMAIN stream : \A j \in 1..(i - 1) : j \in DOMAIN stream /\ j < i
        /\ \A i, j \in DOMAIN stream : j < i => j \in 1..(i - 1)
    BY DEF TypeInv, Chunked, ChunkInv
  <2>2. \A i \in DOMAIN stream : IsChunk(stream[i]) => stream[i].id \in Nat
    BY <2>1, ChunkFields
  <2>3. ASSUME NEW i \in DOMAIN stream, IsChunk(stream[i]), stream[i].id > 0
        PROVE  \E j \in 1..(i - 1) : IsChunk(stream[j]) /\ stream[j].id + 1 = stream[i].id
    BY <2>1, <2>3 DEF ChunksPlaced
  <2>4. ASSUME NEW i \in DOMAIN stream, NEW j \in 1..(i - 1), IsChunk(stream[i]),
               IsChunk(stream[j])
        PROVE  /\ stream[j].id < stream[i].id \/ (stream[j].id = stream[i].id /\ faults > 0)
               /\ stream[j].isLast => stream[i] = stream[j]
    <3>1. /\ stream[j].id <= stream[i].id /\ (stream[j].id = stream[i].id => faults > 0)
          /\ stream[j].isLast => stream[i] = stream[j]
      BY <2>1, <2>4 DEF ChunksPlaced
    <3> QED
      BY <2>1, <2>2, <2>4, <3>1
  <2> QED
    BY <2>3, <2>4 DEF ChunksInOrder
<1>2. Inv => TypeInv
  BY DEF Inv
<1> QED
  BY Inductive, ChunksInductive, <1>1, <1>2, PTL
-----------------------------------------------------------------------------
(* The final reports, against what was emitted.                            *)
Final(e) == e.type = "result" \/ (IsStatus(e) /\ e.state = "COMPLETED")
ReadAll == truncated \/ tell >= totalBytes
FinalIn(e) ==
    IF e.type = "result"
    THEN e.data = (IF task = "compute_pi" THEN emitted ELSE Len(emitted))
    ELSE ReadAll

(* A result, and COMPLETED, comes after the is_last chunk; the result is   *)
(* what was emitted, or its length, and COMPLETED stands for the whole file.*)
FinalAgrees ==
    \A i \in DOMAIN stream : Final(stream[i]) =>
        /\ \E j \in DOMAIN stream : j < i /\ IsChunk(stream[j]) /\ stream[j].isLast
        /\ FinalIn(stream[i])

(* No result before the task ends, and no final report without the is_last *)
(* chunk, all digits and the end of the file.                              *)
NoResult == \A i \in DOMAIN stream : stream[i].type # "result"
Reaches == truncated \/ totalBytes <= fileEnd
FinalInv ==
    /\ pc \in {"completed", "result"} => Closed
    /\ pc \notin Ended => NoResult
    /\ task = "compute_pi" =>
          /\ emitted = [i \in 1..digits |-> i]
          /\ pc \in {"count", "digit"} => digits < DIGITS
          /\ pc \in {"exit", "result"} => digits = DIGITS
    /\ pc = "start" => totalBytes = 0
    /\ Reaches
    /\ task = "document_analysis" /\ pc \in {"exit", "completed", "result"} => ReadAll
    /\ FinalAgrees

LEMMA NotFinal ==
    /\ \A n \in Nat : ~Final(Status("RUNNING", n)) /\ ~Final(Status("FAILED", n))
    /\ \A id \in Nat, data \in Seq(Nat), isLast \in BOOLEAN : ~Final(Chunk(id, data, isLast))
BY DEF Final, Status, Chunk, IsStatus

LEMMA FinalStays ==
    ASSUME TypeInv, FinalAgrees, UNCHANGED task,
           stream' = stream \/ \E e \in TaskEvents : ~Final(e) /\ Adds(e),
           NoResult \/ UNCHANGED emitted, Quiet \/ (ReadAll => ReadAll')
    PROVE  FinalAgrees' /\ (Closed => Closed') /\ (NoResult => NoResult')
<1>1. /\ \A i \in DOMAIN stream : i \in DOMAIN stream' /\ stream'[i] = stream[i]
      /\ \A i \in DOMAIN stream' :
            Final(stream'[i]) => i \in DOMAIN stream /\ stream'[i] = stream[i]
  BY DEF Adds
<1>2. ASSUME NEW i \in DOMAIN stream', Final(stream'[i])
      PROVE  /\ \E j \in DOMAIN stream' : j < i /\ IsChunk(stream'[j]) /\ stream'[j].isLast
             /\ IF stream'[i].type = "result"
                THEN stream'[i].data = (IF task' = "compute_pi" THEN emitted' ELSE Len(emitted'))
                ELSE ReadAll'
  <2>1. i \in DOMAIN stream /\ stream'[i] = stream[i] /\ Final(stream[i])
    BY <1>1, <1>2
  <2>2. /\ \E j \in DOMAIN stream : j < i /\ IsChunk(stream[j]) /\ stream[j].isLast
        /\ FinalIn(stream[i])
    BY <2>1 DEF FinalAgrees
  <2>3. CASE stream[i].type = "result"
    <3>1. UNCHANGED emitted
      BY <2>1, <2>3 DEF NoResult
    <3> QED
      BY <1>1, <2>1, <2>2, <2>3, <3>1 DEF FinalIn
  <2>4. CASE stream[i].type # "result"
    <3>1. ReadAll => ReadAll'
      BY <2>1, <2>4 DEF Quiet, Terminal, Final
    <3> QED
      BY <1>1, <2>1, <2>2, <2>4, <3>1 DEF FinalIn
  <2> QED
    BY <2>3, <2>4
<1>3. FinalAgrees'
  BY <1>2 DEF FinalAgrees, FinalIn
<1>4. Closed => Closed'
  BY <1>1 DEF Closed
<1>5. NoResult => NoResult'
  BY <1>1 DEF NoResult, Final
<1> QED
  BY <1>3, <1>4, <1>5

LEMMA FinalAdded ==
    ASSUME TypeInv, FinalAgrees, Closed, UNCHANGED <<task, emitted, scan>>,
           NEW e \in TaskEvents, FinalIn(e), Adds(e)
    PROVE  /\ FinalAgrees' /\ Closed'
           /\ e.type # "result" => (NoResult => NoResult')
<1>1. /\ \A i \in DOMAIN stream : i \in DOMAIN stream' /\ stream'[i] = stream[i]
      /\ \A i \in DOMAIN stream' :
            \/ i \in DOMAIN stream /\ stream'[i] = stream[i]
            \/ stream'[i] = e /\ \A j \in DOMAIN stream : j < i
  BY DEF Adds
<1>2. ASSUME NEW i \in DOMAIN stream', Final(stream'[i])
      PROVE  /\ \E j \in DOMAIN stream' : j < i /\ IsChunk(stream'[j]) /\ stream'[j].isLast
             /\ FinalIn(stream'[i])
  BY <1>1, <1>2 DEF FinalAgrees, Closed
<1>3. FinalAgrees'
  BY <1>2 DEF FinalAgrees, FinalIn, ReadAll, scan
<1>4. Closed'
  BY <1>1 DEF Closed
<1>5. e.type # "result" => (NoResult => NoResult')
  BY <1>1 DEF NoResult
<1> QED
  BY <1>3, <1>4, <1>5

(* A chunk is no final report, and the one of __exit__ is the last one.    *)
LEMMA FlushSends ==
    ASSUME TypeInv, NEW items \in Seq(Nat), NEW isLast \in BOOLEAN, NEW ok \in BOOLEAN,
           Flush(items, isLast, ok)
    PROVE  (\E e \in TaskEvents : ~Final(e) /\ Adds(e)) /\ (ok /\ isLast => Closed')
<1> DEFINE e == Chunk(chunkIndex, items, isLast)
<1>1. chunkIndex \in Nat
  BY DEF TypeInv
<1>2. e \in TaskEvents /\ ~Final(e) /\ IsChunk(e) /\ e.isLast = isLast
  BY <1>1, ChunkEvent, NotFinal
<1>3. Publish(e, ok)
  BY DEF Flush
<1> HIDE DEF e
<1>4. Adds(e)
  BY <1>2, <1>3, PublishAdds
<1>5. ok /\ isLast => Closed'
  BY <1>2, <1>3, PublishedIsThere DEF Closed
<1> QED
  BY <1>2, <1>4, <1>5

LEMMA EmitSends ==
    ASSUME TypeInv, NEW item \in Nat, NEW ok \in BOOLEAN, Emit(item, ok)
    PROVE  stream' = stream \/ \E e \in TaskEvents : ~Final(e) /\ Adds(e)
<1>1. Append(batch, item) \in Seq(Nat)
  BY DEF TypeInv
<1> QED
  BY <1>1, FlushSends DEF Emit

LEMMA ExitSends ==
    ASSUME TypeInv, NEW ok \in BOOLEAN, Exit(ok)
    PROVE  /\ (\E e \in TaskEvents : ~Final(e) /\ Adds(e)) /\ (ok => Closed')
           /\ UNCHANGED emitted
<1>1. batch \in Seq(Nat)
  BY DEF TypeInv
<1> QED
  BY <1>1, FlushSends DEF Exit

LEMMA FinalInit == Init => FinalInv
<1> SUFFICES ASSUME Init PROVE FinalInv
  OBVIOUS
<1>1. /\ stream = <<>> /\ DOMAIN stream = {} /\ emitted = <<>>
      /\ \/ task = "compute_pi" /\ pc = "count" /\ digits = 0
         \/ task = "document_analysis" /\ pc = "start"
      /\ Reaches /\ totalBytes = 0
  BY DocumentAssumption DEF Init, Reaches, ReporterInit, PiInit, DocumentInit, ScanInit
<1>2. FinalAgrees /\ NoResult
  BY <1>1 DEF FinalAgrees, NoResult
<1>3. digits = 0 => <<>> = [i \in 1..digits |-> i] /\ digits < DIGITS
  BY DigitsAssumption
<1> QED
  BY <1>1, <1>2, <1>3 DEF FinalInv

LEMMA PiFinal ==
    ASSUME Inv, FinalInv, task = "compute_pi", ComputePi, UNCHANGED <<scan, task>>
    PROVE  FinalInv'
<1>1. /\ TypeInv /\ digits \in Nat /\ digits + 1 \in Nat /\ DIGITS \in Nat
      /\ UNCHANGED <<scan, task, tell, totalBytes, fileEnd, truncated>> /\ FinalAgrees
      /\ emitted = [i \in 1..digits |-> i] /\ (ReadAll => ReadAll') /\ Reaches'
      /\ emitted \in Seq(Nat)
  BY DigitsAssumption DEF Inv, TypeInv, scan, FinalInv, ReadAll, Reaches
<1>2. ASSUME NEW ok \in BOOLEAN, CountDigit(ok) PROVE FinalInv'
  <2> DEFINE e == Status("RUNNING", digits + 1)
  <2>1. e \in TaskEvents /\ ~Final(e) /\ Report(e, ok)
    BY <1>1, <1>2, EventTypes, NotFinal DEF CountDigit
  <2>2. Adds(e) /\ UNCHANGED emitted
    BY <1>1, <2>1, ReportAdds DEF Report
  <2> HIDE DEF e
  <2>3. pc = "count" /\ pc' \in {"digit", "unwind"} /\ digits' = digits
    BY <1>2 DEF CountDigit, Continue
  <2>4. FinalAgrees' /\ (NoResult => NoResult')
    BY <1>1, <2>1, <2>2, FinalStays
  <2> QED
    BY <1>1, <2>2, <2>3, <2>4 DEF FinalInv, Ended
<1>3. ASSUME NEW ok \in BOOLEAN, EmitDigit(ok) PROVE FinalInv'
  <2>1. /\ pc = "digit" /\ digits' = digits + 1 /\ Emit(digits + 1, ok)
        /\ pc' \in {"count", "exit", "unwind"}
        /\ pc' = "count" => digits + 1 < DIGITS
        /\ pc' = "exit" => ~(digits + 1 < DIGITS)
    BY <1>3 DEF EmitDigit, Continue
  <2>2. digits < DIGITS /\ NoResult
    BY <2>1 DEF FinalInv, Ended
  <2>3. emitted' = [i \in 1..digits' |-> i]
    <3>1. emitted' = Append(emitted, digits + 1)
      BY <2>1 DEF Emit
    <3>2. Append(emitted, digits + 1) = [i \in 1..(digits + 1) |-> i]
      BY <1>1
    <3> QED
      BY <2>1, <3>1, <3>2
  <2>4. FinalAgrees' /\ NoResult'
    BY <1>1, <2>1, <2>2, EmitSends, FinalStays
  <2>5. pc' = "exit" => digits' = DIGITS
    BY <1>1, <2>1, <2>2
  <2> QED
    BY <1>1, <2>1, <2>3, <2>4, <2>5 DEF FinalInv
<1>4. ASSUME NEW ok \in BOOLEAN, CloseDigits(ok) PROVE FinalInv'
  <2>1. /\ pc \in {"exit", "unwind"} /\ Exit(ok) /\ digits' = digits
        /\ pc' = "raised" \/ (pc' = "result" /\ pc = "exit" /\ ok)
    BY <1>4 DEF CloseDigits, Continue
  <2>2. /\ (\E e \in TaskEvents : ~Final(e) /\ Adds(e)) /\ (ok => Closed')
        /\ UNCHANGED emitted
    BY <1>1, <2>1, ExitSends
  <2>3. NoResult
    BY <2>1 DEF FinalInv, Ended
  <2>4. FinalAgrees' /\ NoResult'
    BY <1>1, <2>2, <2>3, FinalStays
  <2> QED
    BY <1>1, <2>1, <2>2, <2>4 DEF FinalInv
<1>5. ASSUME NEW ok \in BOOLEAN, ReportDigits(ok) PROVE FinalInv'
  <2> DEFINE e == Result([i \in 1..DIGITS |-> i])
  <2>1. pc = "result" /\ Report(e, ok) /\ pc' \in {"returned", "raised"} /\ digits' = digits
    BY <1>5 DEF ReportDigits, Continue
  <2>2. digits = DIGITS /\ Closed
    BY <1>1, <2>1 DEF FinalInv
  <2>3. e = Result(emitted)
    BY <1>1, <2>2
  <2>4. e \in TaskEvents /\ FinalIn(e)
    BY <1>1, <2>3, EventTypes DEF FinalIn, Result
  <2> HIDE DEF e
  <2>5. Adds(e) /\ UNCHANGED emitted
    BY <1>1, <2>1, <2>4, ReportAdds DEF Report
  <2>6. FinalAgrees' /\ Closed'
    BY <1>1, <2>2, <2>4, <2>5, FinalAdded
  <2> QED
    BY <1>1, <2>1, <2>5, <2>6 DEF FinalInv, Ended
<1>6. ASSUME Crash, UNCHANGED digits PROVE FinalInv'
  <2>1. UNCHANGED <<stream, emitted, digits>> /\ pc' = "crashed"
    BY <1>6 DEF Crash
  <2>2. FinalAgrees'
    BY <1>1, <2>1, FinalStays
  <2> QED
    BY <1>1, <2>1, <2>2 DEF FinalInv, Ended
<1> QED
  BY <1>2, <1>3, <1>4, <1>5, <1>6 DEF ComputePi

LEMMA DocumentFinal ==
    ASSUME Inv, FinalInv, task = "document_analysis", AnalyzeDocument, UNCHANGED <<digits, task>>
    PROVE  FinalInv'
<1>1. /\ TypeInv /\ FinalAgrees /\ totalBytes \in Nat /\ bytesRead \in Nat
      /\ task' = "document_analysis" /\ task = "document_analysis"
      /\ pc \notin {"result"} \cup Ended => Quiet
      /\ hits \in SUBSET Nat /\ (pc = "snippet" => hits # {}) /\ emitted \in Seq(Nat)
      /\ Reaches
  BY DEF Inv, TypeInv, FinalInv, QuietInv, Quiet, ProgressInv, DocumentProgress,
         Reaches
<1>2. ASSUME NEW ok \in BOOLEAN, NEW e \in TaskEvents, ~Final(e), Report(e, ok), Quiet,
             Reaches', pc \notin Ended, pc' \notin {"start", "exit", "completed", "result"}
      PROVE  FinalInv'
  <2>1. Adds(e) /\ UNCHANGED emitted
    BY <1>1, <1>2, ReportAdds DEF Report
  <2>2. FinalAgrees' /\ NoResult'
    BY <1>1, <1>2, <2>1, FinalStays DEF FinalInv
  <2> QED
    BY <1>1, <1>2, <2>2 DEF FinalInv, Reaches
<1>3. ASSUME NEW ok \in BOOLEAN, ReportFailed(ok) \/ ReportStarted(ok) PROVE FinalInv'
  <2>1. PICK s \in {"RUNNING", "FAILED"} : Report(Status(s, 0), ok)
    BY <1>3 DEF ReportFailed, ReportStarted
  <2>2. Status(s, 0) \in TaskEvents /\ ~Final(Status(s, 0))
    BY EventTypes, NotFinal
  <2>3. /\ pc = "start" /\ pc' \in {"returned", "raised", "scan"} /\ UNCHANGED <<fileEnd, truncated>>
        /\ totalBytes' \in {totalBytes, fileEnd}
    BY <1>3 DEF ReportFailed, ReportStarted, Continue, scan
  <2>4. Reaches'
    BY <1>1, <2>3 DEF Reaches, TypeInv
  <2> QED
    BY <1>1, <1>2, <2>1, <2>2, <2>3, <2>4 DEF Ended
<1>4. ASSUME NEW ok \in BOOLEAN, ReportProgress(ok) PROVE FinalInv'
  <2>1. /\ Status("RUNNING", bytesRead) \in TaskEvents
        /\ ~Final(Status("RUNNING", bytesRead))
    BY <1>1, EventTypes, NotFinal
  <2>2. /\ Report(Status("RUNNING", bytesRead), ok) /\ UNCHANGED scan
        /\ pc = "status" /\ pc' \in {"snippet", "scan", "unwind"}
    BY <1>4 DEF ReportProgress, Continue, scan
  <2> QED
    BY <1>1, <1>2, <2>1, <2>2 DEF Ended, Reaches, scan
<1>5. ASSUME NEW ok \in BOOLEAN, EmitSnippet(ok) PROVE FinalInv'
  <2>1. /\ pc = "snippet" /\ pc' \in {"status", "unwind"} /\ Emit(NextHit, ok)
        /\ UNCHANGED <<totalBytes, fileEnd, truncated>>
    BY <1>5 DEF EmitSnippet, Continue
  <2>2. NextHit \in Nat
    BY <1>1, <2>1, MinIsLeast DEF NextHit
  <2>3. NoResult
    BY <2>1 DEF FinalInv, Ended
  <2>4. FinalAgrees' /\ NoResult'
    BY <1>1, <2>1, <2>2, <2>3, EmitSends, FinalStays DEF Ended
  <2> QED
    BY <1>1, <2>1, <2>4 DEF FinalInv, Reaches
<1>6. ASSUME NEW ok \in BOOLEAN, CloseSnippets(ok) PROVE FinalInv'
  <2>1. /\ pc \in {"exit", "unwind"} /\ Exit(ok) /\ UNCHANGED scan
        /\ pc' = "raised" \/ (pc' = "completed" /\ pc = "exit" /\ ok)
    BY <1>6 DEF CloseSnippets, Continue, scan
  <2>2. /\ (\E e \in TaskEvents : ~Final(e) /\ Adds(e)) /\ (ok => Closed')
        /\ UNCHANGED emitted
    BY <1>1, <2>1, ExitSends
  <2>3. NoResult
    BY <2>1 DEF FinalInv, Ended
  <2>4. FinalAgrees' /\ NoResult'
    BY <1>1, <2>1, <2>2, <2>3, FinalStays DEF Ended
  <2> QED
    BY <1>1, <2>1, <2>2, <2>4 DEF FinalInv, Reaches, ReadAll, scan
<1>7. ASSUME NEW ok \in BOOLEAN, ReportCompleted(ok) PROVE FinalInv'
  <2> DEFINE e == Status("COMPLETED", totalBytes)
  <2>1. /\ pc = "completed" /\ Report(e, ok) /\ UNCHANGED scan
        /\ pc' \in {"result", "raised"}
    BY <1>7 DEF ReportCompleted, Continue, scan
  <2>2. Closed /\ NoResult /\ ReadAll
    BY <1>1, <2>1 DEF FinalInv, Ended
  <2>3. e \in TaskEvents /\ e.type = "status"
    BY <1>1, EventTypes DEF Status
  <2> HIDE DEF e
  <2>4. FinalIn(e)
    BY <2>2, <2>3 DEF FinalIn
  <2>5. Adds(e) /\ UNCHANGED emitted
    BY <1>1, <2>1, <2>3, ReportAdds DEF Report
  <2>6. FinalAgrees' /\ Closed' /\ NoResult'
    BY <1>1, <2>1, <2>2, <2>3, <2>4, <2>5, FinalAdded
  <2> QED
    BY <1>1, <2>1, <2>2, <2>6 DEF FinalInv, Reaches, ReadAll, scan
<1>8. ASSUME NEW ok \in BOOLEAN, ReportCount(ok) PROVE FinalInv'
  <2> DEFINE e == Result(Len(emitted))
  <2>1. /\ pc = "result" /\ Report(e, ok) /\ UNCHANGED scan
        /\ pc' \in {"returned", "raised"}
    BY <1>8 DEF ReportCount, Continue, scan
  <2>2. Closed
    BY <2>1 DEF FinalInv
  <2>3. Len(emitted) \in Nat
    BY <1>1
  <2>4. e \in TaskEvents /\ FinalIn(e)
    BY <1>1, <2>3, EventTypes DEF FinalIn, Result
  <2> HIDE DEF e
  <2>5. Adds(e) /\ UNCHANGED emitted
    BY <1>1, <2>1, <2>4, ReportAdds DEF Report
  <2>6. FinalAgrees'
    BY <1>1, <2>1, <2>2, <2>4, <2>5, FinalAdded
  <2> QED
    BY <1>1, <2>1, <2>6 DEF FinalInv, Reaches, scan, Ended
<1>9. ASSUME ReadLines \/ EndOfFile \/ ReadFails PROVE FinalInv'
  <2>1. /\ pc = "scan" /\ UNCHANGED <<stream, emitted, totalBytes, fileEnd, truncated>>
        /\ \/ pc' \in {"status", "snippet", "unwind"}
           \/ pc' = "exit" /\ tell >= fileEnd /\ UNCHANGED tell
    BY <1>9 DEF ReadLines, EndOfFile, ReadFails, reporter, scan
  <2>2. NoResult /\ Quiet
    BY <1>1, <2>1 DEF FinalInv, Ended
  <2>3. FinalAgrees' /\ NoResult'
    BY <1>1, <2>1, <2>2, FinalStays
  <2>4. pc' = "exit" => ReadAll'
    BY <1>1, <2>1 DEF Reaches, ReadAll, TypeInv
  <2> QED
    BY <1>1, <2>1, <2>3, <2>4 DEF FinalInv, Reaches
<1>10. ASSUME Crash, UNCHANGED scan PROVE FinalInv'
  <2>1. /\ UNCHANGED <<stream, emitted, totalBytes, fileEnd, truncated>> /\ pc' = "crashed"
        /\ ReadAll => ReadAll'
    BY <1>10 DEF Crash, scan, ReadAll
  <2>2. FinalAgrees'
    BY <1>1, <2>1, FinalStays
  <2> QED
    BY <1>1, <2>1, <2>2 DEF FinalInv, Reaches, Ended
<1> QED
  BY <1>3, <1>4, <1>5, <1>6, <1>7, <1>8, <1>9, <1>10 DEF AnalyzeDocument

(* Another worker's download: before COMPLETED, and without a result.      *)
LEMMA DownloadFinal ==
    ASSUME Inv, FinalInv, task = "document_analysis", Download, UNCHANGED <<digits, task>>
    PROVE  FinalInv'
<1>1. /\ pc \in {"start", "scan"} /\ UNCHANGED <<stream, emitted, pc, totalBytes>>
      /\ \/ fileEnd < fileEnd' /\ truncated' = truncated
         \/ truncated' = (pc = "scan")
  BY DocumentAssumption DEF Download, reporter, Inv, TypeInv
<1>2. TypeInv /\ FinalAgrees /\ Quiet /\ NoResult /\ Reaches
  BY <1>1 DEF Inv, QuietInv, Quiet, FinalInv, Reaches, Ended
<1>3. FinalAgrees' /\ NoResult'
  BY <1>1, <1>2, FinalStays
<1>4. fileEnd \in Nat /\ fileEnd' \in Nat /\ totalBytes \in Nat
  BY <1>2, DownloadChanges DEF TypeInv
<1>5. Reaches'
  <2>1. CASE truncated' = (pc = "scan") /\ pc = "scan"
    <3>1. truncated'
      BY <2>1
    <3> QED
      BY <3>1 DEF Reaches
  <2>3. CASE fileEnd < fileEnd' /\ truncated' = truncated
    BY <1>1, <1>2, <1>4, <2>3 DEF Reaches
  <2>2. CASE pc = "start"
    BY <1>1, <1>4, <2>2 DEF Reaches, FinalInv
  <2> QED
    BY <1>1, <2>1, <2>2, <2>3
<1> QED
  BY <1>1, <1>3, <1>5 DEF FinalInv, Reaches

LEMMA FinalInductive == Spec => []FinalInv
<1>1. Inv /\ FinalInv /\ [Next]_vars => FinalInv'
  <2> SUFFICES ASSUME Inv, FinalInv, [Next]_vars PROVE FinalInv'
    OBVIOUS
  <2>1. CASE task = "compute_pi" /\ ComputePi /\ UNCHANGED <<scan, task>>
    BY <2>1, PiFinal
  <2>2. CASE task = "document_analysis" /\ AnalyzeDocument /\ UNCHANGED <<digits, task>>
    BY <2>2, DocumentFinal
  <2>3. CASE UNCHANGED vars
    BY <2>3 DEF FinalInv, FinalAgrees, FinalIn, ReadAll, Reaches, Closed, NoResult, vars, reporter,
                scan
  <2>4. CASE task = "document_analysis" /\ Download /\ UNCHANGED <<digits, task>>
    BY <2>4, DownloadFinal
  <2> QED
    BY <2>1, <2>2, <2>3, <2>4 DEF Next, Work
<1> QED
  BY Inductive, FinalInit, <1>1, PTL DEF Spec

(* What report_result carries is what was emitted before the is_last chunk *)
(* that precedes it, and COMPLETED is told only at the end of the file.    *)
THEOREM ResultInPlace == Spec => []FinalAgrees
<1>1. FinalInv => FinalAgrees
  BY DEF FinalInv
<1> QED
  BY FinalInductive, <1>1, PTL
-----------------------------------------------------------------------------
(* The last status of compute_pi, against the digits emitted: it is one    *)
(* ahead only while the digit to come fits into the batch.                 *)
Counts(n) ==
    /\ n = digits \/ (n = digits + 1 /\ Len(batch) < BATCH_SIZE)
    /\ pc = "digit" => n = digits + 1
CountInv ==
    task = "compute_pi" =>
        \A i \in DOMAIN stream : LastStatus(i) => Counts(stream[i].current)

LEMMA LastStays ==
    ASSUME TypeInv, stream' = stream \/ \E e \in TaskEvents : ~IsStatus(e) /\ Adds(e)
    PROVE  \A i \in DOMAIN stream' : LastStatus(i)' =>
              i \in DOMAIN stream /\ LastStatus(i) /\ stream'[i] = stream[i]
BY DEF Adds, LastStatus

(* A call, or a step without one, that adds no status and no digit.        *)
LEMMA CountStays ==
    ASSUME TypeInv, CountInv, UNCHANGED <<task, digits, batch>>, pc' # "digit",
           stream' = stream \/ \E e \in TaskEvents : ~IsStatus(e) /\ Adds(e)
    PROVE  CountInv'
BY LastStays DEF CountInv, Counts

LEMMA PiCounts ==
    ASSUME Inv, ChunkInv, CountInv, task = "compute_pi", ComputePi, UNCHANGED task
    PROVE  CountInv'
<1>1. /\ TypeInv /\ digits \in Nat /\ digits + 1 \in Nat /\ batch \in Seq(Nat)
      /\ Len(batch) \in Nat /\ (pc = "count" => Told(digits))
  BY DEF Inv, ProgressInv, PiProgress, TypeInv
<1>2. ASSUME NEW ok \in BOOLEAN, CountDigit(ok) PROVE CountInv'
  <2> DEFINE e == Status("RUNNING", digits + 1)
  <2>1. /\ pc = "count" /\ Report(e, ok) /\ digits' = digits /\ batch' = batch
        /\ pc' = IF ok THEN "digit" ELSE "unwind"
    BY <1>2 DEF CountDigit, Continue, Report
  <2>2. e \in TaskEvents /\ IsStatus(e) /\ e.current = digits + 1
    BY <1>1, EventTypes
  <2>3. Len(batch) < BATCH_SIZE
    BY <2>1 DEF ChunkInv, Emitting, Closing, Beyond, Ended
  <2> HIDE DEF e
  <2>4. Adds(e)
    BY <1>1, <2>1, <2>2, ReportAdds
  <2>5. ASSUME NEW i \in DOMAIN stream', LastStatus(i)' PROVE Counts(stream[i].current)'
    <3>1. CASE stream'[i] = e
      BY <2>1, <2>2, <2>3, <3>1 DEF Counts
    <3>2. CASE stream'[i] # e
      <4>1. /\ i \in DOMAIN stream /\ stream'[i] = stream[i]
            /\ \A k \in DOMAIN stream' : k \in DOMAIN stream \/ (k > i /\ stream'[k] = e)
        BY <2>4, <3>2 DEF Adds
      <4>2. \A k \in DOMAIN stream' : k \in DOMAIN stream
        BY <2>2, <2>5, <4>1 DEF LastStatus
      <4>3. LastStatus(i)
        BY <2>4, <2>5, <4>1 DEF LastStatus, Adds
      <4>4. ~ok
        <5>1. ASSUME ok PROVE FALSE
          <6>1. PICK k \in DOMAIN stream' : stream'[k] = e
            BY <1>1, <2>1, <2>2, <5>1, PublishedIsThere DEF Report
          <6>2. k \in DOMAIN stream /\ stream[k] = e
            BY <2>4, <4>2, <6>1 DEF Adds
          <6>3. digits + 1 <= digits
            BY <1>1, <2>1, <2>2, <6>2 DEF Told, Shown
          <6> QED
            BY <1>1, <6>3
        <5> QED
          BY <5>1
      <4>5. Counts(stream[i].current)
        BY <4>1, <4>3 DEF CountInv
      <4> QED
        BY <2>1, <4>1, <4>4, <4>5 DEF Counts
    <3> QED
      BY <3>1, <3>2
  <2> QED
    BY <2>5 DEF CountInv
<1>3. ASSUME NEW ok \in BOOLEAN, EmitDigit(ok) PROVE CountInv'
  <2>1. /\ pc = "digit" /\ pc' # "digit" /\ digits' = digits + 1 /\ Emit(digits + 1, ok)
    BY <1>3 DEF EmitDigit, Continue
  <2>2. stream' = stream \/ \E e \in TaskEvents : ~IsStatus(e) /\ Adds(e)
    BY <1>1, <2>1, EmitAdds
  <2>3. \A i \in DOMAIN stream' : LastStatus(i)' =>
           i \in DOMAIN stream /\ LastStatus(i) /\ stream'[i] = stream[i]
    BY <1>1, <2>2, LastStays
  <2> QED
    BY <2>1, <2>3 DEF CountInv, Counts
<1>4. ASSUME NEW ok \in BOOLEAN, CloseDigits(ok) PROVE CountInv'
  <2>1. Exit(ok) /\ UNCHANGED digits /\ batch' = batch /\ pc' # "digit"
    BY <1>4 DEF CloseDigits, Continue, Exit, Flush
  <2> QED
    BY <1>1, <2>1, ExitAdds, CountStays
<1>5. ASSUME NEW ok \in BOOLEAN, ReportDigits(ok) PROVE CountInv'
  <2> DEFINE e == Result([i \in 1..DIGITS |-> i])
  <2>1. Report(e, ok) /\ UNCHANGED <<digits, batch>> /\ pc' # "digit"
    BY <1>5 DEF ReportDigits, Continue, Report
  <2>2. [i \in 1..DIGITS |-> i] \in Seq(Nat)
    BY DigitsAssumption
  <2>3. e \in TaskEvents /\ ~IsStatus(e)
    BY <2>2, EventTypes
  <2> HIDE DEF e
  <2> QED
    BY <1>1, <2>1, <2>3, ReportAdds, CountStays
<1>6. ASSUME Crash, UNCHANGED digits PROVE CountInv'
  <2>1. UNCHANGED <<stream, batch, digits>> /\ pc' = "crashed"
    BY <1>6 DEF Crash
  <2> QED
    BY <1>1, <2>1, CountStays
<1> QED
  BY <1>2, <1>3, <1>4, <1>5, <1>6 DEF ComputePi

LEMMA CountInductive == Spec => []CountInv
<1>1. Init => CountInv
  BY DEF Init, ReporterInit, CountInv
<1>2. Inv /\ ChunkInv /\ CountInv /\ [Next]_vars => CountInv'
  <2> SUFFICES ASSUME Inv, ChunkInv, CountInv, [Next]_vars PROVE CountInv'
    OBVIOUS
  <2>1. CASE task = "compute_pi" /\ ComputePi /\ UNCHANGED <<scan, task>>
    BY <2>1, PiCounts
  <2>2. CASE task = "document_analysis" /\ UNCHANGED task
    BY <2>2 DEF CountInv
  <2>3. CASE UNCHANGED vars
    BY <2>3 DEF CountInv, Counts, LastStatus, vars, reporter
  <2> QED
    BY <2>1, <2>2, <2>3 DEF Next, Work
<1>3. Chunked => ChunkInv
  BY DEF Chunked
<1> QED
  BY Inductive, ChunksInductive, <1>1, <1>2, <1>3, PTL DEF Spec

(* Statuses, COMPLETED and the result agree with what the stream assembles *)
(* to: a digit is counted before it is seen, and no further ahead than the *)
(* batch; the two ways to obtain a result give the same one.               *)
THEOREM ReportsMatchStream == Spec => []ReportsAgree
<1>1. TypeInv /\ Chunked /\ FinalInv /\ CountInv => StatusLeadsDigits
  <2> SUFFICES ASSUME TypeInv, Chunked, FinalInv, CountInv, task = "compute_pi",
                      NEW i \in DOMAIN stream, LastStatus(i)
               PROVE  /\ Len(assembled) <= stream[i].current
                      /\ stream[i].current <= Len(assembled) + BATCH_SIZE
    BY DEF StatusLeadsDigits
  <2> DEFINE n == stream[i].current
             m == Len(batch)
             from == Start(chunkIndex)
  <2>1. digits \in Nat /\ m \in Nat /\ from \in Nat /\ BATCH_SIZE \in Nat \ {0}
    <3>1. digits \in Nat /\ batch \in Seq(Nat) /\ chunkIndex \in Nat
      BY DEF TypeInv
    <3>2. from \in Nat /\ BATCH_SIZE \in Nat \ {0}
      BY <3>1, StartProperties
    <3> QED
      BY <3>1, <3>2
  <2>2. Len(emitted) = digits
    BY <2>1 DEF FinalInv
  <2>3. /\ digits = from + m /\ m <= BATCH_SIZE
        /\ Len(assembled) \in {digits, from}
    BY <2>2 DEF Chunked, ChunkInv, AssembledInv
  <2>4. n = digits \/ (n = digits + 1 /\ m < BATCH_SIZE)
    BY DEF CountInv, Counts
  <2> HIDE DEF n, m, from
  <2> QED
    BY <2>1, <2>3, <2>4 DEF n
<1>2. TypeInv /\ Chunked /\ FinalInv => ResultAgreesWithChunks
  <2> SUFFICES ASSUME TypeInv, Chunked, FinalInv, NEW i \in DOMAIN stream, Final(stream[i])
               PROVE  /\ Closed
                      /\ stream[i].type = "result" =>
                            stream[i].data = IF task = "compute_pi" THEN assembled
                                             ELSE Len(assembled)
                      /\ stream[i].type # "result" => ReadAll
    BY DEF ResultAgreesWithChunks, Final, IsStatus, ReadAll
  <2>1. Closed /\ FinalIn(stream[i])
    BY DEF FinalInv, FinalAgrees, Closed
  <2>2. assembled = emitted
    BY <2>1, AssembledFacts DEF AssembledIsPrefix
  <2> QED
    BY <2>1, <2>2 DEF FinalIn
<1>3. Inv => TypeInv
  BY DEF Inv
<1>4. StatusLeadsDigits /\ ResultAgreesWithChunks => ReportsAgree
  BY DEF ReportsAgree
<1> QED
  BY Inductive, ChunksInductive, FinalInductive, CountInductive, <1>1, <1>2, <1>3, <1>4, PTL
=============================================================================
