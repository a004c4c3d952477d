------------------------ MODULE EventPipeline_proofs ------------------------
(***************************************************************************)
(* Every step of the pipeline is a step of StreamConsumer or leaves its    *)
(* variables alone, so what is proved of StreamConsumer holds of the whole *)
(* pipeline, with the real handlers in the place of an arbitrary outcome.  *)
(* On top of that, layer by layer:                                         *)
(*   SourceInv        the stream holds each task's script, in order        *)
(*   HandlerInv       types, and what a handler knows between its steps    *)
(*   ShownDispatched  what clients saw was dispatched by some process      *)
(*   RowInv           one process: where a task's row comes from           *)
(*   KeepsUpInv       one process: the row against the last status shown   *)
(***************************************************************************)
EXTENDS EventPipeline, StreamConsumer_proofs

LEMMA PipelineStep == [PipelineNext]_pipelineVars => [Next]_vars
<1> SUFFICES ASSUME [PipelineNext]_pipelineVars PROVE [Next]_vars
  OBVIOUS
<1>1. ASSUME NEW t \in Tasks, PublishNext(t) PROVE Next
  BY <1>1 DEF PublishNext, Next, Kinds
<1>2. ASSUME NEW c \in Consumers, NEW ok \in BOOLEAN, Dispatch(c, ok) PROVE Next
  BY <1>2 DEF Next
<1>3. ASSUME NEW c \in Consumers, NEW ok \in BOOLEAN, Handler(c, ok) PROVE [Next]_vars
  <2>1. CASE StoreStatus(c, ok)
    <3>1. UNCHANGED vars \/ Dispatch(c, FALSE)
      BY <2>1 DEF StoreStatus, Leaves
    <3> QED
      BY <3>1, <1>2
  <2>2. CASE BroadcastStatus(c, ok) \/ StoreResult(c, ok) \/ BroadcastChunk(c, ok)
    <3>1. Dispatch(c, ok)
      BY <2>2 DEF BroadcastStatus, StoreResult, BroadcastChunk, Leaves
    <3> QED
      BY <3>1, <1>2
  <2> QED
    BY <1>3, <2>1, <2>2 DEF Handler
<1>4. ASSUME NEW c \in Consumers, ConsumerLoop(c) PROVE Next
  BY <1>4 DEF ConsumerLoop, ConsumerProceeds, Next
<1>5. ASSUME NEW c \in Consumers, LoseMemory(c) PROVE Next
  BY <1>5 DEF LoseMemory, Next
<1>6. ASSUME LoseStream PROVE Next
  BY <1>6 DEF LoseStream, Next
<1>7. ASSUME UNCHANGED pipelineVars PROVE UNCHANGED vars
  BY <1>7 DEF pipelineVars
<1> QED
  BY <1>1, <1>3, <1>4, <1>5, <1>6, <1>7 DEF PipelineNext

(* By construction: a handler stands in the place of a dispatch that       *)
(* returns or raises.                                                      *)
LEMMA PipelineIsConsumer == PipelineSpec => Spec
<1>1. PipelineInit => Init
  BY DEF PipelineInit
<1> QED
  BY <1>1, PipelineStep, PTL DEF PipelineSpec, Spec

(* README "Each event is processed by exactly one API instance", of the    *)
(* handlers as they are: no event is handled twice.                        *)
THEOREM PipelineHandlesOnce == PipelineSpec => [](DispatchInOrder /\ DispatchedOnce)
BY PipelineIsConsumer, InOrder, ExactlyOneInstance, PTL

(* An event whose row could not be written, or whose broadcast raised, is  *)
(* never acknowledged.                                                     *)
THEOREM PipelineAcksHandled == PipelineSpec => []AckedWasHandled
BY PipelineIsConsumer, AckAfterHandling, PTL

-----------------------------------------------------------------------------
(* What every step of the pipeline knows of the consumers below it.        *)
ConsumerInv == LoopInv /\ OrderInv

LEMMA ConsumerHolds == PipelineSpec => []ConsumerInv
BY PipelineIsConsumer, Inductive, PTL DEF ConsumerInv

(* The steps that are not a worker's and not a handler's: they leave what  *)
(* was published and dispatched alone, and at most drop a reply or fetch   *)
(* one beyond everything handed out before.                                *)
ElsewhereStep ==
    \/ \E c \in Consumers : ConsumerLoop(c) \/ LoseMemory(c)
    \/ LoseStream
    \/ UNCHANGED pipelineVars

LEMMA StepKinds ==
    ASSUME [PipelineNext]_pipelineVars
    PROVE  \/ \E t \in Tasks : PublishNext(t)
           \/ \E c \in Consumers : \E ok \in BOOLEAN : Handler(c, ok)
           \/ ElsewhereStep
BY DEF PipelineNext, ElsewhereStep

LEMMA Elsewhere ==
    ASSUME LoopInv, ElsewhereStep
    PROVE  /\ UNCHANGED <<stream, log, producers, storage, shown>>
           /\ last' \in Nat /\ last <= last'
           /\ \A d \in Consumers :
                 \/ batch'[d] = batch[d]
                 \/ batch'[d] = <<>>
                 \/ \A k \in DOMAIN batch'[d] : batch'[d][k] \in Nat /\ last < batch'[d][k]
<1>1. last \in Nat /\ Len(stream) \in Nat /\ last <= Len(stream) /\ batch \in [Consumers -> Seq(Nat)]
  BY DEF LoopInv, TypeOK
<1>2. UNCHANGED <<producers, storage, shown>>
  BY DEF ElsewhereStep, ConsumerLoop, LoseMemory, LoseStream, OutsideHandlers, pipelineVars
<1>3. UNCHANGED <<stream, log>>
  BY DEF ElsewhereStep, ConsumerLoop, ConsumerProceeds, LoseMemory, LoseStream, pipelineVars, vars,
         EnsureGroup, Reclaim, XReadGroup, Backoff, Ack, XReadGroupIdle, XReadGroupFails, AckFails,
         Stop, Crash, Leave, RedisRestart
<1>4. ASSUME NEW c \in Consumers, Deliver(c) PROVE last' \in Nat /\ last <= last'
  BY <1>1, <1>4, ReadUpToBounds DEF Deliver, LoopInv
<1>5. last' \in Nat /\ last <= last'
  BY <1>1, <1>4 DEF ElsewhereStep, ConsumerLoop, ConsumerProceeds, LoseMemory, LoseStream,
         pipelineVars, vars, server, EnsureGroup, Reclaim, XReadGroup, Backoff, Ack,
         XReadGroupIdle, XReadGroupFails, AckFails, Stop, Crash, Leave, RedisRestart
<1>6. ASSUME NEW c \in Consumers, XReadGroup(c), NEW d \in Consumers
      PROVE  \/ batch'[d] = batch[d]
             \/ \A k \in DOMAIN batch'[d] : batch'[d][k] \in Nat /\ last < batch'[d][k]
  <2> DEFINE reply == Ids(last + 1, ReadUpTo)
  <2>1. ReadUpTo \in Nat /\ last + 1 <= ReadUpTo /\ last + 1 \in Nat
    BY <1>1, <1>6, ReadUpToBounds DEF XReadGroup, Deliver, LoopInv
  <2>2. \A k \in DOMAIN reply : reply[k] \in (last + 1)..ReadUpTo
    BY <2>1, IdsProperties
  <2>3. \A k \in DOMAIN reply : reply[k] \in Nat /\ last < reply[k]
    BY <1>1, <2>1, <2>2
  <2>4. batch' = [batch EXCEPT ![c] = reply]
    BY <1>6 DEF XReadGroup
  <2> QED
    BY <1>1, <2>3, <2>4
<1>7. ASSUME NEW c \in Consumers, AckFails(c) \/ Stop(c) \/ Crash(c), NEW d \in Consumers
      PROVE  batch'[d] = batch[d] \/ batch'[d] = <<>>
  BY <1>1, <1>7 DEF AckFails, Stop, Crash, Leave
<1>8. ASSUME NEW c \in Consumers,
             EnsureGroup(c) \/ Reclaim(c) \/ Backoff(c) \/ Ack(c) \/ XReadGroupIdle(c)
             \/ XReadGroupFails(c)
      PROVE  batch' = batch
  BY <1>8 DEF EnsureGroup, Reclaim, Backoff, Ack, XReadGroupIdle, XReadGroupFails, vars, process
<1>9. ASSUME LoseStream \/ UNCHANGED pipelineVars PROVE batch' = batch
  BY <1>9 DEF LoseStream, RedisRestart, pipelineVars, vars, process
<1>10. \A d \in Consumers :
          \/ batch'[d] = batch[d]
          \/ batch'[d] = <<>>
          \/ \A k \in DOMAIN batch'[d] : batch'[d][k] \in Nat /\ last < batch'[d][k]
  BY <1>6, <1>7, <1>8, <1>9 DEF ElsewhereStep, ConsumerLoop, ConsumerProceeds, LoseMemory
<1> QED
  BY <1>2, <1>3, <1>5, <1>10

-----------------------------------------------------------------------------
(* The stream holds, of each task, events of its script in script order.   *)
Entries == [task : Tasks, event : Events]

FromScript(i) ==
    \E m \in 1..published[content[i].task] :
       content[i].event = Script[content[i].task][m]

ScriptOrder(i, j) ==
    \E m, n \in DOMAIN Script[content[i].task] :
       /\ m < n
       /\ content[i].event = Script[content[i].task][m]
       /\ content[j].event = Script[content[i].task][n]

SourceInv ==
    /\ content \in Seq(Entries) /\ Len(content) = Len(stream)
    /\ published \in [Tasks -> Nat]
    /\ \A t \in Tasks : published[t] <= Len(Script[t])
    /\ \A i \in DOMAIN content : FromScript(i)
    /\ \A i, j \in DOMAIN content :
          i < j /\ content[i].task = content[j].task => ScriptOrder(i, j)

LEMMA SourceInit == PipelineInit => SourceInv
BY ScriptAssumption DEF PipelineInit, Init, SourceInv, Entries

LEMMA SourcePublish ==
    ASSUME LoopInv, SourceInv, NEW t \in Tasks, PublishNext(t)
    PROVE  /\ SourceInv'
           /\ \A i \in DOMAIN content : i \in DOMAIN content' /\ content'[i] = content[i]
           /\ UNCHANGED <<last, batch, log, pc, memory, storage, shown>>
<1> DEFINE p == published[t] + 1
           e == [task |-> t, event |-> Script[t][p]]
           n == Len(content) + 1
<1>1. /\ stream' = Append(stream, "valid") /\ stream \in Seq(Kinds)
      /\ content' = Append(content, e)
      /\ published' = [published EXCEPT ![t] = p]
      /\ published[t] \in Nat /\ published[t] < Len(Script[t])
      /\ UNCHANGED <<last, batch, log, pc, memory, storage, shown>>
  BY DEF PublishNext, Publish, SourceInv, LoopInv, TypeOK, server, process, memory
<1>2. Script[t] \in Seq(Events) /\ Len(Script[t]) \in Nat
  BY ScriptAssumption
<1>3. p \in Nat /\ p \in 1..Len(Script[t]) /\ published[t] < p /\ p <= Len(Script[t])
  BY <1>1, <1>2
<1>4. p \in DOMAIN Script[t] /\ Script[t][p] \in Events
  BY <1>2, <1>3
<1>5. e \in Entries
  BY <1>4 DEF Entries
<1>6. content \in Seq(Entries)
  BY DEF SourceInv
<1> HIDE DEF e, p
<1>7. /\ Len(content) \in Nat
      /\ DOMAIN content' = DOMAIN content \cup {n}
      /\ content'[n] = e
      /\ \A i \in DOMAIN content : content'[i] = content[i] /\ i \in Nat /\ i <= Len(content)
      /\ content' \in Seq(Entries) /\ Len(content') = n
  BY <1>1, <1>5, <1>6, SeqAppend
<1>8. Len(stream') = Len(stream) + 1
  BY <1>1 DEF Kinds
<1>9. Len(content') = Len(stream')
  BY <1>7, <1>8 DEF SourceInv
<1>10. /\ published' \in [Tasks -> Nat] /\ published'[t] = p
       /\ \A s \in Tasks : published'[s] <= Len(Script[s]) /\ published[s] <= published'[s]
  <2>1. published' \in [Tasks -> Nat] /\ published'[t] = p
    BY <1>1, <1>3 DEF SourceInv
  <2>2. \A s \in Tasks : published[s] \in Nat /\ published[s] <= Len(Script[s])
    BY DEF SourceInv
  <2> QED
    BY <1>1, <1>3, <2>1, <2>2
<1>11. \A i \in DOMAIN content : content[i].task \in Tasks
  <2>1. \A i \in DOMAIN content : content[i] \in Entries
    BY <1>6
  <2> QED
    BY <2>1 DEF Entries
<1>12. e.task = t /\ e.event = Script[t][p]
  BY DEF e
<1>13. \A i \in DOMAIN content' : FromScript(i)'
  <2> SUFFICES ASSUME NEW i \in DOMAIN content' PROVE FromScript(i)'
    OBVIOUS
  <2>1. CASE i \in DOMAIN content
    <3>1. PICK m \in 1..published[content[i].task] :
             content[i].event = Script[content[i].task][m]
      BY <2>1 DEF SourceInv, FromScript
    <3>2. m \in 1..published'[content[i].task]
      BY <2>1, <1>10, <1>11 DEF SourceInv
    <3> QED
      BY <2>1, <3>1, <3>2, <1>7 DEF FromScript
  <2>2. CASE i = n
    <3>1. content'[i].task = t /\ content'[i].event = Script[t][p]
      BY <2>2, <1>7, <1>12
    <3>2. p \in 1..published'[t]
      BY <1>3, <1>10
    <3> QED
      BY <3>1, <3>2 DEF FromScript
  <2> QED
    BY <2>1, <2>2, <1>7
<1>14. \A i, j \in DOMAIN content' :
          i < j /\ content'[i].task = content'[j].task => ScriptOrder(i, j)'
  <2> SUFFICES ASSUME NEW i \in DOMAIN content', NEW j \in DOMAIN content', i < j,
                      content'[i].task = content'[j].task
               PROVE  ScriptOrder(i, j)'
    OBVIOUS
  <2>1. i \in DOMAIN content
    BY <1>7
  <2>2. CASE j \in DOMAIN content
    <3>1. ScriptOrder(i, j)
      BY <2>1, <2>2, <1>7 DEF SourceInv
    <3> QED
      BY <2>1, <2>2, <3>1, <1>7 DEF ScriptOrder
  <2>3. CASE j = n
    <3>1. content[i].task = t /\ content'[i] = content[i] /\ content'[j].event = Script[t][p]
      BY <2>1, <2>3, <1>7, <1>12
    <3>2. PICK m \in 1..published[t] : content[i].event = Script[t][m]
      BY <2>1, <3>1 DEF SourceInv, FromScript
    <3>3. m \in DOMAIN Script[t] /\ m < p
      BY <1>1, <1>2, <1>3, <3>2
    <3> QED
      BY <3>1, <3>2, <3>3, <1>4 DEF ScriptOrder
  <2> QED
    BY <2>2, <2>3, <1>7
<1> QED
  BY <1>1, <1>7, <1>9, <1>10, <1>13, <1>14 DEF SourceInv

LEMMA SourceStep ==
    LoopInv /\ SourceInv /\ [PipelineNext]_pipelineVars => SourceInv'
<1> SUFFICES ASSUME LoopInv, SourceInv, [PipelineNext]_pipelineVars PROVE SourceInv'
  OBVIOUS
<1>1. ASSUME NEW c \in Consumers, NEW ok \in BOOLEAN, Handler(c, ok)
      PROVE  UNCHANGED <<stream, content, published>>
  BY <1>1 DEF Handler, StoreStatus, BroadcastStatus, StoreResult, BroadcastChunk, Leaves,
              Dispatch, DispatchEnds, producers, vars
<1>2. ASSUME UNCHANGED <<stream, content, published>> PROVE SourceInv'
  BY <1>2 DEF SourceInv, FromScript, ScriptOrder
<1> QED
  BY <1>1, <1>2, StepKinds, SourcePublish, Elsewhere DEF producers

(* The entry a handler has in hand.                                        *)
LEMMA InHand ==
    ASSUME ConsumerInv, SourceInv, NEW c \in Consumers, pc[c] = "handling"
    PROVE  /\ Head(batch[c]) \in DOMAIN content /\ Head(batch[c]) \in 1..last
           /\ Head(batch[c]) \in Nat
           /\ Task(c) \in Tasks /\ Event(c) \in Events
           /\ \A k \in DOMAIN batch[c] : Head(batch[c]) <= batch[c][k]
           /\ \A d \in Consumers : \A j \in DOMAIN log[d] :
                 log[d][j].id # Head(batch[c]) /\ (d = c => log[d][j].id < Head(batch[c]))
<1>1. batch[c] \in Seq(Nat) /\ batch[c] # <<>>
  BY DEF ConsumerInv, LoopInv, TypeOK
<1>2. 1 \in DOMAIN batch[c] /\ Head(batch[c]) = batch[c][1] /\ Head(batch[c]) \in Nat
  BY <1>1, SeqTail
<1>3. Head(batch[c]) \in 1..last
  BY <1>2 DEF ConsumerInv, OrderInv
<1>4. last \in Nat /\ last <= Len(content) /\ content \in Seq(Entries) /\ Len(content) \in Nat
  BY DEF ConsumerInv, LoopInv, TypeOK, SourceInv
<1>5. Head(batch[c]) \in DOMAIN content
  BY <1>3, <1>4
<1>6. content[Head(batch[c])] \in Entries
  BY <1>4, <1>5
<1>7. Task(c) \in Tasks /\ Event(c) \in Events
  BY <1>6 DEF Entries, Task, Event
<1>8. \A k \in DOMAIN batch[c] : batch[c][1] <= batch[c][k]
  <2>1. \A k \in DOMAIN batch[c] : k \in Nat /\ (k = 1 \/ 1 < k) /\ batch[c][k] \in Nat
    BY <1>1
  <2>2. \A k \in DOMAIN batch[c] : 1 < k => batch[c][1] < batch[c][k]
    BY <1>2 DEF ConsumerInv, OrderInv
  <2> QED
    BY <1>2, <2>1, <2>2
<1>9. \A d \in Consumers : \A j \in DOMAIN log[d] :
         log[d][j].id # batch[c][1] /\ (d = c => log[d][j].id < batch[c][1])
  <2>1. \A j \in DOMAIN log[c] : log[c][j].id < batch[c][1] /\ log[c][j].id \in 1..last
    BY <1>2 DEF ConsumerInv, OrderInv
  <2>2. \A d \in Consumers : d # c => \A j \in DOMAIN log[d] : log[d][j].id # batch[c][1]
    BY <1>2 DEF ConsumerInv, OrderInv
  <2>3. \A j \in DOMAIN log[c] : log[c][j].id # batch[c][1]
    BY <1>2, <2>1
  <2> QED
    BY <2>1, <2>2, <2>3
<1> QED
  BY <1>2, <1>3, <1>5, <1>7, <1>8, <1>9

(* What a handler that returns or raises leaves of its reply, and adds to  *)
(* the history.                                                            *)
LEMMA AfterHand ==
    ASSUME ConsumerInv, NEW c \in Consumers, NEW ok \in BOOLEAN, Dispatch(c, ok)
    PROVE  /\ UNCHANGED <<stream, last>> /\ pc[c] = "handling"
           /\ \A d \in Consumers : \A k \in DOMAIN batch'[d] :
                 \E m \in DOMAIN batch[d] :
                    batch'[d][k] = batch[d][m] /\ (d = c => Head(batch[c]) < batch[d][m])
           /\ \A d \in Consumers : \A j \in DOMAIN log'[d] :
                 \/ j \in DOMAIN log[d] /\ log'[d][j] = log[d][j]
                 \/ d = c /\ log'[d][j] = [id |-> Head(batch[c]), ok |-> ok]
           /\ \A d \in Consumers : \A j \in DOMAIN log[d] :
                 j \in DOMAIN log'[d] /\ log'[d][j] = log[d][j]
           /\ \E j \in DOMAIN log'[c] : log'[c][j].id = Head(batch[c])
           /\ \A d \in Consumers \ {c} : pc'[d] = pc[d] /\ batch'[d] = batch[d]
<1> DEFINE h == Head(batch[c])
           e == [id |-> h, ok |-> ok]
<1>1. /\ batch[c] \in Seq(Nat) /\ batch[c] # <<>> /\ log[c] \in Seq(Dispatches)
      /\ batch \in [Consumers -> Seq(Nat)] /\ log \in [Consumers -> Seq(Dispatches)]
      /\ pc \in [Consumers -> Stages]
  BY DEF ConsumerInv, LoopInv, TypeOK, Dispatch, DispatchEnds
<1>2. 1 \in DOMAIN batch[c] /\ h = batch[c][1] /\ h \in Nat
  BY <1>1, SeqTail
<1>3. e \in Dispatches /\ e.id = h
  BY <1>2 DEF Dispatches
<1>4. /\ batch' = [batch EXCEPT ![c] = Tail(@)]
      /\ log' = [log EXCEPT ![c] = Append(@, e)]
      /\ UNCHANGED <<stream, last>> /\ pc[c] = "handling"
      /\ \A d \in Consumers \ {c} : pc'[d] = pc[d]
  BY <1>1 DEF Dispatch, DispatchEnds, server
<1>5. /\ batch'[c] = Tail(batch[c]) /\ \A d \in Consumers \ {c} : batch'[d] = batch[d]
      /\ log'[c] = Append(log[c], e) /\ \A d \in Consumers \ {c} : log'[d] = log[d]
  BY <1>1, <1>4
<1>6. \A k \in DOMAIN batch'[c] :
         \E m \in DOMAIN batch[c] : batch'[c][k] = batch[c][m] /\ h < batch[c][m]
  <2> SUFFICES ASSUME NEW k \in DOMAIN batch'[c]
               PROVE  \E m \in DOMAIN batch[c] : batch'[c][k] = batch[c][m] /\ h < batch[c][m]
    OBVIOUS
  <2>1. /\ k + 1 \in DOMAIN batch[c] /\ 1 < k + 1
        /\ batch'[c][k] = batch[c][k + 1]
    BY <1>1, <1>5, SeqTail
  <2>2. h < batch[c][k + 1]
    BY <1>2, <2>1 DEF ConsumerInv, OrderInv
  <2> QED
    BY <2>1, <2>2
<1> HIDE DEF e
<1>7. /\ DOMAIN log'[c] = DOMAIN log[c] \cup {Len(log[c]) + 1}
      /\ log'[c][Len(log[c]) + 1] = e
      /\ \A j \in DOMAIN log[c] : log'[c][j] = log[c][j]
  BY <1>1, <1>3, <1>5, SeqAppend
<1>8. e = [id |-> h, ok |-> ok]
  BY DEF e
<1>9. \A d \in Consumers : \A j \in DOMAIN log'[d] :
         \/ j \in DOMAIN log[d] /\ log'[d][j] = log[d][j]
         \/ d = c /\ log'[d][j] = e
  BY <1>5, <1>7
<1>10. \A d \in Consumers : \A j \in DOMAIN log[d] :
          j \in DOMAIN log'[d] /\ log'[d][j] = log[d][j]
  BY <1>5, <1>7
<1>11. \E j \in DOMAIN log'[c] : log'[c][j].id = h
  BY <1>3, <1>7
<1>12. \A d \in Consumers : \A k \in DOMAIN batch'[d] :
          \E m \in DOMAIN batch[d] :
             batch'[d][k] = batch[d][m] /\ (d = c => h < batch[d][m])
  BY <1>5, <1>6
<1> QED
  BY <1>4, <1>5, <1>8, <1>9, <1>10, <1>11, <1>12

-----------------------------------------------------------------------------
(* What the handlers keep: types, and between the transaction and the      *)
(* broadcast of a terminal status the cache has already let the task go.   *)
HandlerTypes ==
    /\ stage \in [Consumers -> {"entered", "stored"}]
    /\ cache \in [Consumers -> [Tasks -> Nat \cup {NoPct}]]
    /\ metered \in [Consumers -> SUBSET Tasks]
    /\ statusRow \in [Tasks -> Rows]
    /\ shown \in [Tasks -> Seq(Nat)]

StoredFacts(c) ==
    /\ pc[c] = "handling" /\ Event(c).type = "status"
    /\ IsTerminal(Event(c)) => cache[c][Task(c)] = NoPct

HandlerInv ==
    /\ HandlerTypes
    /\ \A c \in Consumers : stage[c] = "stored" => StoredFacts(c)

LEMMA HandlerInit == PipelineInit => HandlerInv
BY DEF PipelineInit, HandlerInv, HandlerTypes, StoredFacts, Rows, States

LEMMA StatusTypes ==
    ASSUME NEW e \in Events, e.type = "status"
    PROVE  e.state \in States /\ e.pct \in Nat
BY DEF Events, StatusEvents, ChunkEvents, ResultEvents

(* One step of a handler: the row and the cache written, or the handler    *)
(* left.                                                                   *)
LEMMA HandlerMoves ==
    ASSUME ConsumerInv, SourceInv, HandlerInv,
           NEW c \in Consumers, NEW ok \in BOOLEAN, Handler(c, ok)
    PROVE  /\ pc[c] = "handling" /\ UNCHANGED <<stream, content, published, last>>
           /\ statusRow' = statusRow \/ (Event(c).type = "status" /\ statusRow' = Written(c))
           /\ cache' = cache \/ (Event(c).type = "status" /\ Remember(c))
           /\ metered' = metered \/ (Event(c).type # "result" /\ Meter(c))
           /\ shown' = shown \/ Shows(c)
           /\ \/ /\ UNCHANGED <<batch, log, pc, metered, shown>>
                 /\ Event(c).type = "status" /\ Remember(c) /\ statusRow' = Written(c)
                 /\ stage' = [stage EXCEPT ![c] = "stored"]
              \/ /\ \E r \in BOOLEAN : Dispatch(c, r)
                 /\ stage' = [stage EXCEPT ![c] = "entered"] /\ cache' = cache
<1>1. ASSUME NEW r \in BOOLEAN, Leaves(c, r)
      PROVE  /\ UNCHANGED <<stream, last>> /\ Dispatch(c, r)
             /\ stage' = [stage EXCEPT ![c] = "entered"]
  BY <1>1 DEF Leaves, Dispatch, DispatchEnds, server
<1>2. CASE StoreStatus(c, ok)
  <2>1. /\ pc[c] = "handling" /\ Event(c).type = "status"
        /\ UNCHANGED <<content, published, shown>>
    BY <1>2 DEF StoreStatus, Handling, producers
  <2>2. CASE /\ statusRow' = Written(c) /\ Remember(c)
             /\ stage' = [stage EXCEPT ![c] = "stored"]
             /\ UNCHANGED <<vars, metered>>
    BY <2>1, <2>2 DEF vars, server, process
  <2>3. CASE /\ statusRow' \in {statusRow, Written(c)} /\ UNCHANGED cache
             /\ Meter(c) /\ Leaves(c, FALSE)
    BY <1>1, <2>1, <2>3
  <2> QED
    BY <1>2, <2>2, <2>3 DEF StoreStatus, FailedWrite
<1>4. CASE BroadcastStatus(c, ok)
  <2>1. /\ pc[c] = "handling" /\ Event(c).type = "status" /\ Meter(c) /\ Leaves(c, ok)
        /\ UNCHANGED <<content, published, cache, statusRow>> /\ (shown' = shown \/ Shows(c))
    BY <1>4 DEF BroadcastStatus, Handling, producers, storage
  <2> QED
    BY <1>1, <2>1
<1>5. CASE StoreResult(c, ok)
  <2>1. /\ pc[c] = "handling" /\ Leaves(c, ok)
        /\ UNCHANGED <<content, published, cache, metered, statusRow, shown>>
    BY <1>5 DEF StoreResult, Handling, producers
  <2> QED
    BY <1>1, <2>1
<1>6. CASE BroadcastChunk(c, ok)
  <2>1. /\ pc[c] = "handling" /\ Event(c).type = "chunk" /\ Meter(c) /\ Leaves(c, ok)
        /\ UNCHANGED <<content, published, cache, statusRow>> /\ (shown' = shown \/ Shows(c))
    BY <1>6 DEF BroadcastChunk, Handling, producers, storage
  <2> QED
    BY <1>1, <2>1
<1> QED
  BY <1>2, <1>4, <1>5, <1>6 DEF Handler

LEMMA HandlerTypesKept ==
    ASSUME ConsumerInv, SourceInv, HandlerInv,
           NEW c \in Consumers, NEW ok \in BOOLEAN, Handler(c, ok)
    PROVE  HandlerTypes'
<1>1. /\ Head(batch[c]) \in Nat /\ Task(c) \in Tasks /\ Event(c) \in Events
      /\ HandlerTypes
  BY HandlerMoves, InHand DEF HandlerInv
<1>2. stage' \in [Consumers -> {"entered", "stored"}]
  BY <1>1, HandlerMoves DEF HandlerTypes
<1>3. ASSUME Event(c).type = "status" PROVE Event(c).state \in States /\ Event(c).pct \in Nat
  BY <1>1, <1>3, StatusTypes
<1>4. cache' \in [Consumers -> [Tasks -> Nat \cup {NoPct}]]
  <2>1. ASSUME Event(c).type = "status", Remember(c)
        PROVE  cache' \in [Consumers -> [Tasks -> Nat \cup {NoPct}]]
    <3> DEFINE v == IF IsTerminal(Event(c)) THEN NoPct ELSE Event(c).pct
               r == [cache[c] EXCEPT ![Task(c)] = v]
    <3>1. v \in Nat \cup {NoPct}
      BY <2>1, <1>3
    <3>2. cache' = [cache EXCEPT ![c] = r]
      BY <2>1 DEF Remember
    <3> HIDE DEF v
    <3>3. r \in [Tasks -> Nat \cup {NoPct}]
      BY <1>1, <3>1 DEF HandlerTypes
    <3> HIDE DEF r
    <3> QED
      BY <1>1, <3>2, <3>3 DEF HandlerTypes
  <2> QED
    BY <1>1, <2>1, HandlerMoves DEF HandlerTypes
<1>5. metered' \in [Consumers -> SUBSET Tasks]
  <2>1. ASSUME Meter(c) PROVE metered' \in [Consumers -> SUBSET Tasks]
    <3> DEFINE v == IF IsTerminal(Event(c)) THEN metered[c] \ {Task(c)}
                    ELSE metered[c] \cup {Task(c)}
    <3>1. v \in SUBSET Tasks
      BY <1>1 DEF HandlerTypes
    <3>2. metered' = [metered EXCEPT ![c] = v]
      BY <2>1 DEF Meter
    <3> HIDE DEF v
    <3> QED
      BY <1>1, <3>1, <3>2 DEF HandlerTypes
  <2> QED
    BY <1>1, <2>1, HandlerMoves DEF HandlerTypes
<1>6. statusRow' \in [Tasks -> Rows]
  <2>1. ASSUME Event(c).type = "status" PROVE NewRow(c) \in Rows
    BY <2>1, <1>3 DEF NewRow, Rows
  <2> QED
    BY <1>1, <2>1, HandlerMoves DEF HandlerTypes, Written
<1>7. shown' \in [Tasks -> Seq(Nat)]
  <2>1. ASSUME Shows(c) PROVE shown' \in [Tasks -> Seq(Nat)]
    <3>1. Append(shown[Task(c)], Head(batch[c])) \in Seq(Nat)
      BY <1>1 DEF HandlerTypes
    <3> QED
      BY <1>1, <2>1, <3>1 DEF HandlerTypes, Shows
  <2> QED
    BY <1>1, <2>1, HandlerMoves DEF HandlerTypes
<1> QED
  BY <1>2, <1>4, <1>5, <1>6, <1>7 DEF HandlerTypes

(* A handler in the middle of its work is left alone by everybody else.    *)
LEMMA StoredKept ==
    ASSUME ConsumerInv, SourceInv, HandlerInv, ElsewhereStep,
           NEW c \in Consumers, stage'[c] = "stored"
    PROVE  /\ stage[c] = "stored" /\ pc'[c] = pc[c] /\ batch'[c] = batch[c]
           /\ cache'[c] = cache[c]
<1>1. /\ pc \in [Consumers -> Stages] /\ batch \in [Consumers -> Seq(Nat)]
      /\ stage \in [Consumers -> {"entered", "stored"}] /\ c \in Consumers
      /\ cache \in [Consumers -> [Tasks -> Nat \cup {NoPct}]]
  BY DEF ConsumerInv, LoopInv, TypeOK, HandlerInv, HandlerTypes
<1>2. ASSUME NEW d \in Consumers, LoseMemory(d)
      PROVE  d # c /\ stage[c] = "stored" /\ pc'[c] = pc[c] /\ batch'[c] = batch[c]
             /\ cache'[c] = cache[c]
  BY <1>1, <1>2 DEF LoseMemory, Stop, Crash, Leave
<1>3. ASSUME UNCHANGED <<stage, cache>> PROVE stage[c] = "stored" /\ pc[c] = "handling"
                                              /\ cache'[c] = cache[c]
  BY <1>3 DEF HandlerInv, StoredFacts
<1>4. ASSUME NEW d \in Consumers, ConsumerLoop(d), pc[c] = "handling"
      PROVE  pc'[c] = pc[c] /\ batch'[c] = batch[c]
  BY <1>1, <1>4 DEF ConsumerLoop, ConsumerProceeds, EnsureGroup, Reclaim, XReadGroup, Backoff,
         Ack, XReadGroupIdle, XReadGroupFails, AckFails, vars, process
<1>5. ASSUME LoseStream \/ UNCHANGED pipelineVars
      PROVE  pc' = pc /\ batch' = batch /\ UNCHANGED <<stage, cache>>
  BY <1>5 DEF LoseStream, RedisRestart, OutsideHandlers, pipelineVars, vars, process, memory
<1>6. ASSUME NEW d \in Consumers, ConsumerLoop(d) PROVE UNCHANGED <<stage, cache>>
  BY <1>6 DEF ConsumerLoop, OutsideHandlers, memory
<1> QED
  BY <1>2, <1>3, <1>4, <1>5, <1>6 DEF ElsewhereStep

LEMMA HandlerStep ==
    ConsumerInv /\ SourceInv /\ HandlerInv /\ [PipelineNext]_pipelineVars => HandlerInv'
<1> SUFFICES ASSUME ConsumerInv, SourceInv, HandlerInv, [PipelineNext]_pipelineVars
             PROVE  HandlerInv'
  OBVIOUS
<1>0. LoopInv /\ HandlerTypes
  BY DEF ConsumerInv, HandlerInv
<1>1. ASSUME NEW t \in Tasks, PublishNext(t) PROVE HandlerInv'
  <2>1. /\ \A i \in DOMAIN content : content'[i] = content[i]
        /\ UNCHANGED <<last, batch, log, pc, memory, storage, shown>>
    BY <1>0, <1>1, SourcePublish
  <2>2. HandlerTypes'
    BY <1>0, <2>1 DEF HandlerTypes, memory, storage
  <2>3. ASSUME NEW c \in Consumers, StoredFacts(c) PROVE StoredFacts(c)'
    <3>1. Head(batch[c]) \in DOMAIN content
      BY <2>3, InHand DEF StoredFacts
    <3>2. Event(c)' = Event(c) /\ Task(c)' = Task(c)
      BY <3>1, <2>1 DEF Event, Task
    <3> QED
      BY <2>3, <3>2, <2>1 DEF StoredFacts, memory, IsTerminal
  <2> QED
    BY <2>1, <2>2, <2>3 DEF HandlerInv, memory
<1>2. ASSUME NEW c \in Consumers, NEW ok \in BOOLEAN, Handler(c, ok) PROVE HandlerInv'
  <2>1. HandlerTypes'
    BY <1>2, HandlerTypesKept
  <2>2. ASSUME NEW d \in Consumers, stage'[d] = "stored" PROVE StoredFacts(d)'
    <3>1. UNCHANGED content /\ Task(c) \in Tasks /\ pc[c] = "handling"
      BY <1>2, HandlerMoves, InHand
    <3>2. CASE d # c
      <4>1. cache'[d] = cache[d]
        BY <1>2, <3>2, <1>0, HandlerMoves DEF Remember, HandlerTypes
      <4>2. stage'[d] = stage[d]
        BY <1>2, <3>2, <1>0, HandlerMoves DEF HandlerTypes
      <4>3. pc'[d] = pc[d] /\ batch'[d] = batch[d]
        <5>1. UNCHANGED <<batch, pc>> \/ \E r \in BOOLEAN : Dispatch(c, r)
          BY <1>2, HandlerMoves
        <5>2. ASSUME NEW r \in BOOLEAN, Dispatch(c, r)
              PROVE  pc'[d] = pc[d] /\ batch'[d] = batch[d]
          BY <3>2, <5>2, AfterHand
        <5> QED
          BY <5>1, <5>2
      <4>4. StoredFacts(d)
        BY <2>2, <4>2 DEF HandlerInv
      <4> QED
        BY <4>1, <4>3, <4>4, <3>1 DEF StoredFacts, Event, Task, IsTerminal
    <3>3. CASE d = c
      <4>1. stage' # [stage EXCEPT ![c] = "entered"]
        BY <2>2, <3>3, <1>0 DEF HandlerTypes
      <4>2. /\ UNCHANGED <<batch, pc>> /\ Event(c).type = "status" /\ Remember(c)
        BY <1>2, <4>1, HandlerMoves
      <4>3. IsTerminal(Event(c)) => cache'[c][Task(c)] = NoPct
        BY <1>0, <3>1, <4>2 DEF Remember, HandlerTypes
      <4> QED
        BY <3>1, <3>3, <4>2, <4>3 DEF StoredFacts, Event, Task, IsTerminal
    <3> QED
      BY <3>2, <3>3
  <2> QED
    BY <2>1, <2>2 DEF HandlerInv
<1>3. ASSUME ElsewhereStep PROVE HandlerInv'
  <2>1. UNCHANGED <<content, statusRow, shown>>
    BY <1>0, <1>3, Elsewhere DEF producers, storage
  <2>2. HandlerTypes'
    <3>1. /\ stage' \in [Consumers -> {"entered", "stored"}]
          /\ cache' \in [Consumers -> [Tasks -> Nat \cup {NoPct}]]
          /\ metered' \in [Consumers -> SUBSET Tasks]
      <4>1. ASSUME NEW c \in Consumers, LoseMemory(c)
            PROVE  /\ stage' = [stage EXCEPT ![c] = "entered"]
                   /\ cache' = [cache EXCEPT ![c] = [t \in Tasks |-> NoPct]]
                   /\ metered' = [metered EXCEPT ![c] = {}]
        BY <4>1 DEF LoseMemory
      <4>2. UNCHANGED memory \/ \E c \in Consumers : LoseMemory(c)
        BY <1>3 DEF ElsewhereStep, ConsumerLoop, LoseStream, OutsideHandlers, pipelineVars
      <4> QED
        <5>1. CASE UNCHANGED memory
          BY <1>0, <5>1 DEF memory, HandlerTypes
        <5>2. ASSUME NEW c \in Consumers, LoseMemory(c)
              PROVE  /\ stage' \in [Consumers -> {"entered", "stored"}]
                     /\ metered' \in [Consumers -> SUBSET Tasks]
          BY <1>0, <4>1, <5>2 DEF HandlerTypes
        <5>3. ASSUME NEW c \in Consumers, LoseMemory(c)
              PROVE  cache' \in [Consumers -> [Tasks -> Nat \cup {NoPct}]]
          <6>1. [t \in Tasks |-> NoPct] \in [Tasks -> Nat \cup {NoPct}]
            OBVIOUS
          <6> QED
            BY <1>0, <4>1, <5>3, <6>1 DEF HandlerTypes
        <5> QED
          BY <4>2, <5>1, <5>2, <5>3
    <3> QED
      BY <1>0, <2>1, <3>1 DEF HandlerTypes
  <2>3. ASSUME NEW c \in Consumers, stage'[c] = "stored" PROVE StoredFacts(c)'
    <3>1. stage[c] = "stored" /\ pc'[c] = pc[c] /\ batch'[c] = batch[c] /\ cache'[c] = cache[c]
      BY <1>3, <2>3, StoredKept
    <3>2. StoredFacts(c)
      BY <3>1 DEF HandlerInv
    <3> QED
      BY <2>1, <3>1, <3>2 DEF StoredFacts, Event, Task, IsTerminal
  <2> QED
    BY <2>2, <2>3 DEF HandlerInv
<1> QED
  BY <1>1, <1>2, <1>3, StepKinds

-----------------------------------------------------------------------------
LEMMA AfterTerminal ==
    ASSUME TerminalEndsScript, SourceInv, NEW i \in DOMAIN content, NEW j \in DOMAIN content,
           i < j, content[i].task = content[j].task, IsTerminal(EventAt(i))
    PROVE  EventAt(j).type = "result" \/ EventAt(j) = EventAt(i)
<1>1. ScriptOrder(i, j)
  BY DEF SourceInv
<1>2. content[i] \in Entries
  BY DEF SourceInv
<1> QED
  BY <1>1, <1>2 DEF ScriptOrder, TerminalEndsScript, EventAt, Entries

LEMMA StatusesRise ==
    ASSUME ProgressRises, SourceInv, NEW i \in DOMAIN content, NEW j \in DOMAIN content,
           i < j, content[i].task = content[j].task,
           EventAt(i).type = "status", EventAt(j).type = "status"
    PROVE  EventAt(i).pct <= EventAt(j).pct
<1>1. ScriptOrder(i, j)
  BY DEF SourceInv
<1>2. content[i] \in Entries
  BY DEF SourceInv
<1> QED
  BY <1>1, <1>2 DEF ScriptOrder, ProgressRises, EventAt, Entries

(* Event types are disjoint, and so are the results of a handler.          *)
LEMMA TerminalType == ASSUME NEW e, IsTerminal(e) PROVE e.type # "result"
BY DEF IsTerminal

(* Entries that were dispatched are in the stream, and stay what they are. *)
LEMMA DispatchedKnown ==
    ASSUME ConsumerInv, SourceInv, NEW c \in Consumers, NEW k \in DOMAIN log[c]
    PROVE  log[c][k].id \in DOMAIN content
<1>1. log[c][k].id \in 1..last /\ last \in Nat /\ last <= Len(content)
      /\ content \in Seq(Entries) /\ Len(content) \in Nat
  BY DEF ConsumerInv, LoopInv, OrderInv, TypeOK, SourceInv
<1> QED
  BY <1>1

Released(c, t) == cache[c][t] = NoPct /\ t \notin metered[c]

(* What a handler does to the memory of its process: nothing of other      *)
(* tasks, nothing at a result, and at a terminal status it only lets go.   *)
LEMMA MemoryMoves ==
    ASSUME ConsumerInv, SourceInv, HandlerInv,
           NEW c \in Consumers, NEW ok \in BOOLEAN, Handler(c, ok)
    PROVE  /\ \A d \in Consumers, t \in Tasks :
                 \/ d # c
                 \/ t # Task(c)
                 \/ Event(c).type = "result"
                 \/ IsTerminal(Event(c))
                 => (Released(d, t) => Released(d, t)')
           /\ \A t \in Tasks :
                 Dispatch(c, TRUE) /\ IsTerminal(Event(c)) /\ t = Task(c) => Released(c, t)'
<1>1. /\ Task(c) \in Tasks /\ HandlerTypes
  BY HandlerMoves, InHand DEF HandlerInv
<1>2. \A d \in Consumers, t \in Tasks :
         /\ d # c \/ t # Task(c) => cache'[d][t] = cache[d][t]
         /\ IsTerminal(Event(c)) => cache'[d][t] = NoPct \/ cache'[d][t] = cache[d][t]
         /\ Event(c).type = "result" => cache'[d][t] = cache[d][t]
  <2>1. CASE cache' = cache
    BY <2>1
  <2>2. CASE Event(c).type = "status" /\ Remember(c)
    <3> DEFINE r == [cache[c] EXCEPT ![Task(c)] = IF IsTerminal(Event(c)) THEN NoPct
                                                  ELSE Event(c).pct]
    <3>1. cache' = [cache EXCEPT ![c] = r]
      BY <2>2 DEF Remember
    <3>2. \A t \in Tasks : /\ t # Task(c) => r[t] = cache[c][t]
                           /\ IsTerminal(Event(c)) => r[t] \in {NoPct, cache[c][t]}
      BY <1>1 DEF HandlerTypes
    <3> HIDE DEF r
    <3>3. \A d \in Consumers : cache'[d] = IF d = c THEN r ELSE cache[d]
      BY <1>1, <3>1 DEF HandlerTypes
    <3> QED
      BY <2>2, <3>2, <3>3
  <2> QED
    BY <2>1, <2>2, HandlerMoves
<1>3. \A d \in Consumers, t \in Tasks :
         /\ d # c \/ t # Task(c) => (t \in metered'[d] <=> t \in metered[d])
         /\ IsTerminal(Event(c)) => (t \in metered'[d] => t \in metered[d])
         /\ Event(c).type = "result" => metered'[d] = metered[d]
  <2>1. CASE metered' = metered
    BY <2>1
  <2>2. CASE Event(c).type # "result" /\ Meter(c)
    BY <1>1, <2>2 DEF Meter, HandlerTypes
  <2> QED
    BY <2>1, <2>2, HandlerMoves
<1>4. ASSUME NEW t \in Tasks, Dispatch(c, TRUE), IsTerminal(Event(c)), t = Task(c)
      PROVE  Released(c, t)'
  <2>1. log'[c] # log[c]
    <3>1. log[c] \in Seq(Dispatches) /\ log'[c] = Append(log[c], [id |-> Head(batch[c]), ok |-> TRUE])
      BY <1>4 DEF Dispatch, DispatchEnds, ConsumerInv, LoopInv, TypeOK
    <3>2. Len(log'[c]) = Len(log[c]) + 1 /\ Len(log[c]) \in Nat
      BY <3>1
    <3> QED
      BY <3>2
  <2>2. Event(c).type = "status"
    BY <1>4 DEF IsTerminal
  <2>4. ShouldPersist(c)
    BY <1>4 DEF IsTerminal, ShouldPersist
  <2>5. BroadcastStatus(c, ok) \/ (StoreStatus(c, ok) /\ Dispatch(c, FALSE))
    BY <2>1, <2>2 DEF Handler, StoreResult, BroadcastChunk, Handling, StoreStatus, Leaves, vars
  <2>6. ~Dispatch(c, FALSE)
    <3>1. log[c] \in Seq(Dispatches) /\ log \in [Consumers -> Seq(Dispatches)]
      BY DEF ConsumerInv, LoopInv, TypeOK
    <3>2. ASSUME NEW r \in BOOLEAN, Dispatch(c, r)
          PROVE  log'[c][Len(log[c]) + 1].ok = r
      BY <3>1, <3>2 DEF Dispatch, DispatchEnds
    <3> QED
      BY <1>4, <3>2
  <2>7. BroadcastStatus(c, ok)
    BY <2>5, <2>6
  <2>8. stage[c] = "stored" /\ Meter(c) /\ UNCHANGED cache
    BY <2>4, <2>7 DEF BroadcastStatus
  <2>9. cache'[c][Task(c)] = NoPct
    BY <1>4, <2>8 DEF HandlerInv, StoredFacts
  <2>10. Task(c) \notin metered'[c]
    BY <1>1, <1>4, <2>8 DEF Meter, HandlerTypes
  <2> QED
    BY <1>4, <2>9, <2>10 DEF Released
<1>5. \A d \in Consumers, t \in Tasks :
         \/ d # c
         \/ t # Task(c)
         \/ Event(c).type = "result"
         \/ IsTerminal(Event(c))
         => (Released(d, t) => Released(d, t)')
  BY <1>2, <1>3 DEF Released
<1> QED
  BY <1>4, <1>5

LEMMA MemoryInit == PipelineInit => MemoryReleased
BY DEF PipelineInit, Init, MemoryReleased

LEMMA MemoryStep ==
    ASSUME TerminalEndsScript, ConsumerInv, SourceInv, HandlerInv, MemoryReleased,
           [PipelineNext]_pipelineVars
    PROVE  MemoryReleased'
<1>0. LoopInv /\ HandlerTypes
  BY DEF ConsumerInv, HandlerInv
<1>1. ASSUME NEW t \in Tasks, PublishNext(t) PROVE MemoryReleased'
  <2>1. /\ \A i \in DOMAIN content : content'[i] = content[i]
        /\ UNCHANGED <<log, cache, metered>>
    BY <1>0, <1>1, SourcePublish DEF memory
  <2> QED
    BY <2>1, DispatchedKnown DEF MemoryReleased, EventAt
<1>2. ASSUME NEW c \in Consumers, NEW ok \in BOOLEAN, Handler(c, ok) PROVE MemoryReleased'
  <2> DEFINE h == Head(batch[c])
  <2>1. /\ UNCHANGED content /\ pc[c] = "handling"
        /\ h \in DOMAIN content /\ h \in Nat /\ Task(c) \in Tasks
        /\ \A j \in DOMAIN log[c] : log[c][j].id < h
    BY <1>2, HandlerMoves, InHand
  <2>2. \A d \in Consumers : \A j \in DOMAIN log'[d] :
           \/ j \in DOMAIN log[d] /\ log'[d][j] = log[d][j]
           \/ d = c /\ log'[d][j].id = h /\ (log'[d][j].ok => Dispatch(c, TRUE))
    <3>1. UNCHANGED log \/ \E r \in BOOLEAN : Dispatch(c, r)
      BY <1>2, HandlerMoves
    <3>2. ASSUME NEW r \in BOOLEAN, Dispatch(c, r), NEW d \in Consumers, NEW j \in DOMAIN log'[d]
          PROVE  \/ j \in DOMAIN log[d] /\ log'[d][j] = log[d][j]
                 \/ d = c /\ log'[d][j].id = h /\ (log'[d][j].ok => Dispatch(c, TRUE))
      <4>1. \/ j \in DOMAIN log[d] /\ log'[d][j] = log[d][j]
            \/ d = c /\ log'[d][j] = [id |-> h, ok |-> r]
        BY <3>2, AfterHand
      <4>2. [id |-> h, ok |-> r].id = h /\ [id |-> h, ok |-> r].ok = r
        OBVIOUS
      <4>3. \/ j \in DOMAIN log[d] /\ log'[d][j] = log[d][j]
            \/ d = c /\ log'[d][j].id = h /\ log'[d][j].ok = r
        BY <4>1, <4>2, Zenon
      <4>4. r = TRUE \/ r = FALSE
        OBVIOUS
      <4> QED
        BY <3>2, <4>3, <4>4, Zenon
    <3> QED
      BY <3>1, <3>2
  <2> SUFFICES ASSUME NEW d \in Consumers, NEW k \in DOMAIN log'[d],
                      NEW i, i = log'[d][k].id, NEW t, t = content[i].task,
                      log'[d][k].ok, IsTerminal(EventAt(i))
               PROVE  cache'[d][t] = NoPct /\ t \notin metered'[d]
    BY <2>1 DEF MemoryReleased, EventAt
  <2>3. CASE k \in DOMAIN log[d] /\ log'[d][k] = log[d][k]
    <3>1. Released(d, t) /\ i \in DOMAIN content
      BY <2>3, DispatchedKnown DEF MemoryReleased, Released
    <3>2. t \in Tasks
      <4>1. content[i] \in Entries
        BY <3>1 DEF SourceInv
      <4> QED
        BY <4>1 DEF Entries
    <3>3. CASE d = c /\ t = Task(c)
      <4>1. i < h
        BY <2>1, <2>3, <3>3
      <4>2. Event(c) = EventAt(h) /\ Task(c) = content[h].task
        BY DEF Event, EventAt, Task
      <4>3. Event(c).type = "result" \/ IsTerminal(Event(c))
        BY <2>1, <3>1, <3>3, <4>1, <4>2, AfterTerminal
      <4> QED
        BY <1>2, <3>1, <3>2, <4>3, MemoryMoves, <2>1 DEF Released
    <3>4. CASE ~(d = c /\ t = Task(c))
      BY <1>2, <3>1, <3>2, <3>4, MemoryMoves, <2>1 DEF Released
    <3> QED
      BY <3>3, <3>4
  <2>4. CASE d = c /\ i = h /\ Dispatch(c, TRUE)
    <3>1. t = Task(c) /\ IsTerminal(Event(c))
      BY <2>4 DEF Task, Event, EventAt
    <3> QED
      BY <1>2, <2>1, <2>4, <3>1, MemoryMoves DEF Released
  <2> QED
    BY <2>2, <2>3, <2>4
<1>3. ASSUME ElsewhereStep PROVE MemoryReleased'
  <2>1. UNCHANGED <<log, content>>
    BY <1>0, <1>3, Elsewhere DEF producers
  <2>2. UNCHANGED <<cache, metered>> \/ \E c \in Consumers : LoseMemory(c)
    BY <1>3 DEF ElsewhereStep, ConsumerLoop, LoseStream, OutsideHandlers, pipelineVars, memory
  <2>3. CASE UNCHANGED <<cache, metered>>
    BY <2>1, <2>3 DEF MemoryReleased, EventAt
  <2>4. ASSUME NEW c \in Consumers, LoseMemory(c) PROVE MemoryReleased'
    <3>1. /\ cache' = [cache EXCEPT ![c] = [t \in Tasks |-> NoPct]]
          /\ metered' = [metered EXCEPT ![c] = {}]
      BY <2>4 DEF LoseMemory
    <3>2. \A d \in Consumers, t \in Tasks : Released(d, t) => Released(d, t)'
      BY <1>0, <3>1 DEF Released, HandlerTypes
    <3>3. \A d \in Consumers : \A k \in DOMAIN log[d] : content[log[d][k].id].task \in Tasks
      <4> SUFFICES ASSUME NEW d \in Consumers, NEW k \in DOMAIN log[d]
                   PROVE  content[log[d][k].id].task \in Tasks
        OBVIOUS
      <4>1. content[log[d][k].id] \in Entries
        BY DispatchedKnown DEF SourceInv
      <4> QED
        BY <4>1 DEF Entries
    <3>4. \A d \in Consumers : \A k \in DOMAIN log[d] :
             log[d][k].ok /\ IsTerminal(EventAt(log[d][k].id))
                => Released(d, content[log[d][k].id].task)
      BY DEF MemoryReleased, Released
    <3>5. \A d \in Consumers : \A k \in DOMAIN log[d] :
             LET t == content[log[d][k].id].task
             IN Released(d, t) => cache'[d][t] = NoPct /\ t \notin metered'[d]
      BY <3>2, <3>3 DEF Released
    <3> QED
      BY <2>1, <3>4, <3>5 DEF MemoryReleased, EventAt
  <2> QED
    BY <2>2, <2>3, <2>4
<1> QED
  BY <1>1, <1>2, <1>3, StepKinds

(* The layers together: what holds whatever the scripts and however many   *)
(* processes there are.                                                    *)
BaseInv == ConsumerInv /\ SourceInv /\ HandlerInv

LEMMA BaseHolds == PipelineSpec => []BaseInv
<1>1. ConsumerInv => LoopInv
  BY DEF ConsumerInv
<1> QED
  BY ConsumerHolds, SourceInit, SourceStep, HandlerInit, HandlerStep, <1>1, PTL
     DEF PipelineSpec, BaseInv

(* A process that has handled a task's terminal status keeps nothing of    *)
(* the task in _status_cache and _cpu_ws_total_ms, whatever other          *)
(* processes handle: the events that follow are no reason to keep it.      *)
THEOREM NothingKept ==
    ASSUME TerminalEndsScript PROVE PipelineSpec => []MemoryReleased
<1>1. BaseInv /\ MemoryReleased /\ [PipelineNext]_pipelineVars => MemoryReleased'
  BY MemoryStep DEF BaseInv
<1> QED
  BY BaseHolds, MemoryInit, <1>1, PTL DEF PipelineSpec

-----------------------------------------------------------------------------
(* What clients were shown was dispatched, by some process.                *)
ShownDispatched ==
    \A t \in Tasks : \A k \in DOMAIN shown[t] :
        \E c \in Consumers : \E j \in DOMAIN log[c] : log[c][j].id = shown[t][k]

ShownOnce ==
    \A t \in Tasks : \A j, k \in DOMAIN shown[t] : j # k => shown[t][j] # shown[t][k]

LEMMA ShownMoves ==
    ASSUME ConsumerInv, SourceInv, HandlerInv,
           NEW c \in Consumers, NEW ok \in BOOLEAN, Handler(c, ok), shown' # shown
    PROVE  /\ \E r \in BOOLEAN : Dispatch(c, r)
           /\ \A t \in Tasks : t # Task(c) => shown'[t] = shown[t]
           /\ \A t \in Tasks : t = Task(c) =>
                 /\ DOMAIN shown'[t] = DOMAIN shown[t] \cup {Len(shown[t]) + 1}
                 /\ Len(shown[t]) \in Nat
                 /\ shown'[t][Len(shown[t]) + 1] = Head(batch[c])
                 /\ \A k \in DOMAIN shown[t] :
                       shown'[t][k] = shown[t][k] /\ k \in Nat /\ k <= Len(shown[t])
<1>1. Shows(c) /\ \E r \in BOOLEAN : Dispatch(c, r)
  BY HandlerMoves
<1>2. Head(batch[c]) \in Nat /\ Task(c) \in Tasks /\ shown \in [Tasks -> Seq(Nat)]
  BY HandlerMoves, InHand DEF HandlerInv, HandlerTypes
<1>3. shown' = [shown EXCEPT ![Task(c)] = Append(shown[Task(c)], Head(batch[c]))]
  BY <1>1 DEF Shows
<1>4. ASSUME NEW t \in Tasks, t = Task(c)
      PROVE  shown'[t] = Append(shown[t], Head(batch[c])) /\ shown[t] \in Seq(Nat)
  BY <1>2, <1>3, <1>4
<1>5. \A t \in Tasks : t # Task(c) => shown'[t] = shown[t]
  BY <1>2, <1>3
<1> QED
  BY <1>1, <1>2, <1>4, <1>5, SeqAppend

LEMMA ShownInit == PipelineInit => ShownDispatched /\ ShownOnce /\ ShownInOrder
BY DEF PipelineInit, ShownDispatched, ShownOnce, ShownInOrder

(* Every step keeps what was dispatched, and only handlers show anything.  *)
LEMMA ShownElsewhere ==
    ASSUME BaseInv, [PipelineNext]_pipelineVars,
           \A c \in Consumers : \A ok \in BOOLEAN : ~Handler(c, ok)
    PROVE  UNCHANGED <<shown, log>>
BY StepKinds, SourcePublish, Elsewhere DEF BaseInv, ConsumerInv

LEMMA ShownStep ==
    BaseInv /\ ShownDispatched /\ ShownOnce /\ [PipelineNext]_pipelineVars
      => ShownDispatched' /\ ShownOnce'
<1> SUFFICES ASSUME BaseInv, ShownDispatched, ShownOnce, [PipelineNext]_pipelineVars
             PROVE  ShownDispatched' /\ ShownOnce'
  OBVIOUS
<1>1. ASSUME UNCHANGED <<shown, log>> PROVE ShownDispatched' /\ ShownOnce'
  BY <1>1 DEF ShownDispatched, ShownOnce
<1>2. ASSUME NEW c \in Consumers, NEW ok \in BOOLEAN, Handler(c, ok)
      PROVE  ShownDispatched' /\ ShownOnce'
  <2> DEFINE h == Head(batch[c])
  <2>0. ConsumerInv /\ SourceInv /\ HandlerInv
    BY DEF BaseInv
  <2>1. UNCHANGED log \/ \E r \in BOOLEAN : Dispatch(c, r)
    BY <1>2, <2>0, HandlerMoves
  <2>2. \A d \in Consumers : \A j \in DOMAIN log[d] :
           j \in DOMAIN log'[d] /\ log'[d][j] = log[d][j]
    BY <2>0, <2>1, AfterHand
  <2>3. CASE shown' = shown
    BY <2>2, <2>3 DEF ShownDispatched, ShownOnce
  <2>4. CASE shown' # shown
    <3>1. \A d \in Consumers : \A j \in DOMAIN log[d] : log[d][j].id # h
      BY <1>2, <2>0, HandlerMoves, InHand
    <3>2. \E j \in DOMAIN log'[c] : log'[c][j].id = h
      BY <1>2, <2>0, <2>4, ShownMoves, AfterHand
    <3> HIDE DEF h
    <3>3. \A t \in Tasks : \A k \in DOMAIN shown'[t] :
             \/ k \in DOMAIN shown[t] /\ shown'[t][k] = shown[t][k]
             \/ k = Len(shown[t]) + 1 /\ shown'[t][k] = h
      BY <1>2, <2>0, <2>4, ShownMoves DEF h
    <3>4. ShownDispatched'
      BY <2>2, <3>2, <3>3 DEF ShownDispatched
    <3>5. ShownOnce'
      BY <3>1, <3>3 DEF ShownDispatched, ShownOnce
    <3> QED
      BY <3>4, <3>5
  <2> QED
    BY <2>3, <2>4
<1> QED
  BY <1>1, <1>2, ShownElsewhere

(* README "Each event is processed by exactly one API instance", as the    *)
(* clients see it: however many processes there are, and whatever fails,   *)
(* no event is broadcast twice.                                            *)
THEOREM NeverShownTwice == PipelineSpec => []ShownOnce
BY BaseHolds, ShownInit, ShownStep, PTL DEF PipelineSpec

LEMMA ShownOrderStep ==
    ASSUME OneProcess, BaseInv, ShownDispatched, ShownInOrder, [PipelineNext]_pipelineVars
    PROVE  ShownInOrder'
<1>1. ASSUME UNCHANGED shown PROVE ShownInOrder'
  BY <1>1 DEF ShownInOrder
<1>2. ASSUME NEW c \in Consumers, NEW ok \in BOOLEAN, Handler(c, ok), shown' # shown
      PROVE  ShownInOrder'
  <2> DEFINE h == Head(batch[c])
  <2>0. ConsumerInv /\ SourceInv /\ HandlerInv
    BY DEF BaseInv
  <2>1. \A j \in DOMAIN log[c] : log[c][j].id < h
    BY <1>2, <2>0, HandlerMoves, InHand
  <2>2. \A t \in Tasks : \A k \in DOMAIN shown[t] : shown[t][k] < h
    BY <2>1 DEF ShownDispatched, OneProcess
  <2> HIDE DEF h
  <2> SUFFICES ASSUME NEW t \in Tasks, NEW j \in DOMAIN shown'[t], NEW k \in DOMAIN shown'[t],
                      j < k
               PROVE  shown'[t][j] < shown'[t][k]
    BY DEF ShownInOrder
  <2>3. CASE t # Task(c)
    BY <1>2, <2>0, <2>3, ShownMoves DEF ShownInOrder
  <2>4. CASE t = Task(c)
    <3> DEFINE n == Len(shown[t])
    <3>1. /\ DOMAIN shown'[t] = DOMAIN shown[t] \cup {n + 1}
          /\ n \in Nat
          /\ shown'[t][n + 1] = h
          /\ \A i \in DOMAIN shown[t] :
                shown'[t][i] = shown[t][i] /\ i \in Nat /\ i <= n
      BY <1>2, <2>0, <2>4, ShownMoves DEF h
    <3> HIDE DEF n
    <3>2. j \in DOMAIN shown[t]
      BY <3>1
    <3>3. CASE k = n + 1
      BY <3>1, <3>2, <3>3, <2>2
    <3>4. CASE k \in DOMAIN shown[t]
      BY <3>1, <3>2, <3>4 DEF ShownInOrder
    <3> QED
      BY <3>1, <3>3, <3>4
  <2> QED
    BY <2>3, <2>4
<1> QED
  BY <1>1, <1>2, ShownElsewhere

(* With one API process, listening clients see the events of a task in the *)
(* order the worker published them.                                        *)
THEOREM ShownAsPublished ==
    ASSUME OneProcess PROVE PipelineSpec => []ShownInOrder
<1>1. BaseInv /\ ShownDispatched /\ ShownInOrder /\ [PipelineNext]_pipelineVars => ShownInOrder'
  BY ShownOrderStep
<1> QED
  BY BaseHolds, ShownInit, ShownStep, <1>1, PTL DEF PipelineSpec

-----------------------------------------------------------------------------
(* One process: a task's row is the one the task was created with, or that *)
(* of a status event no later than anything in hand; between transaction   *)
(* and broadcast it is that of the event in hand; and the cache is never   *)
(* ahead of it.                                                            *)
RowFrom(t, i) ==
    /\ i \in 1..last
    /\ content[i].task = t /\ EventAt(i).type = "status"
    /\ statusRow[t] = [state |-> EventAt(i).state, pct |-> EventAt(i).pct]
    /\ \A c \in Consumers : \A k \in DOMAIN batch[c] : i <= batch[c][k]

RowInv ==
    /\ \A t \in Tasks :
          \/ statusRow[t] = [state |-> "QUEUED", pct |-> 0]
          \/ \E i \in DOMAIN content : RowFrom(t, i)
    /\ \A c \in Consumers : stage[c] = "stored" => statusRow[Task(c)] = NewRow(c)
    /\ \A c \in Consumers, t \in Tasks :
          cache[c][t] # NoPct => cache[c][t] <= statusRow[t].pct

OneProcessScripts == OneProcess /\ TerminalEndsScript /\ ProgressRises

LEMMA RowInit == PipelineInit => RowInv
BY DEF PipelineInit, RowInv

(* What a handler may write is no step back.                               *)
LEMMA RowRises ==
    ASSUME OneProcessScripts, BaseInv, RowInv,
           NEW c \in Consumers, NEW ok \in BOOLEAN, Handler(c, ok), NEW t \in Tasks
    PROVE  /\ statusRow[t] \in Rows /\ statusRow'[t] \in Rows
           /\ statusRow[t].pct <= statusRow'[t].pct
           /\ statusRow[t].state \in TerminalStates => statusRow'[t].state = statusRow[t].state
<1> DEFINE h == Head(batch[c])
<1>0. ConsumerInv /\ SourceInv /\ HandlerInv
  BY DEF BaseInv
<1>1. /\ pc[c] = "handling" /\ h \in DOMAIN content /\ h \in Nat
      /\ Task(c) \in Tasks /\ Event(c) \in Events
      /\ Task(c) = content[h].task /\ Event(c) = EventAt(h)
  BY <1>0, HandlerMoves, InHand DEF Task, Event, EventAt
<1>2. statusRow \in [Tasks -> Rows] /\ statusRow' \in [Tasks -> Rows]
  BY <1>0, HandlerTypesKept DEF HandlerInv, HandlerTypes
<1>3. statusRow[t].pct \in Nat /\ statusRow'[t].pct \in Nat
  BY <1>2 DEF Rows
<1>4. CASE statusRow'[t] = statusRow[t]
  BY <1>2, <1>3, <1>4
<1>5. CASE statusRow'[t] # statusRow[t]
  <2>1. /\ Event(c).type = "status" /\ t = Task(c)
        /\ statusRow'[t] = [state |-> Event(c).state, pct |-> Event(c).pct]
    BY <1>0, <1>1, <1>2, <1>5, HandlerMoves DEF Written, NewRow
  <2>2. /\ statusRow'[t].state = Event(c).state /\ statusRow'[t].pct = Event(c).pct
        /\ Event(c).pct \in Nat
    BY <2>1, <1>1, StatusTypes
  <2>3. CASE statusRow[t] = [state |-> "QUEUED", pct |-> 0]
    BY <1>2, <2>2, <2>3 DEF TerminalStates
  <2>4. ASSUME NEW i \in DOMAIN content, RowFrom(t, i)
        PROVE  /\ statusRow[t].pct <= statusRow'[t].pct
               /\ statusRow[t].state \in TerminalStates =>
                     statusRow'[t].state = statusRow[t].state
    <3>1. /\ EventAt(i).type = "status" /\ content[i].task = content[h].task
          /\ statusRow[t] = [state |-> EventAt(i).state, pct |-> EventAt(i).pct]
          /\ i \in Nat
      BY <2>1, <2>4, <1>1 DEF RowFrom, SourceInv
    <3>2. i <= h
      <4>1. batch[c] \in Seq(Nat) /\ batch[c] # <<>>
        BY <1>0, <1>1 DEF ConsumerInv, LoopInv, TypeOK
      <4> QED
        BY <2>4, <4>1, SeqTail DEF RowFrom
    <3>3. statusRow[t].state = EventAt(i).state /\ statusRow[t].pct = EventAt(i).pct
      BY <3>1
    <3>4. CASE i = h
      BY <3>4, <3>3, <2>2, <1>1, <1>3
    <3>5. CASE i < h
      <4>1. EventAt(i).pct <= EventAt(h).pct
        BY <1>0, <1>1, <2>1, <3>1, <3>5, StatusesRise DEF OneProcessScripts
      <4>2. EventAt(i).state \in TerminalStates => EventAt(h) = EventAt(i)
        BY <1>0, <1>1, <2>1, <3>1, <3>5, AfterTerminal DEF OneProcessScripts, IsTerminal
      <4> QED
        BY <4>1, <4>2, <3>3, <2>2, <1>1
    <3> QED
      BY <1>1, <3>1, <3>2, <3>4, <3>5
  <2> QED
    BY <1>2, <2>3, <2>4 DEF RowInv
<1> QED
  BY <1>4, <1>5

LEMMA RowElsewhere ==
    ASSUME BaseInv, RowInv, ElsewhereStep PROVE RowInv'
<1>0. ConsumerInv /\ SourceInv /\ HandlerInv /\ LoopInv /\ HandlerTypes
  BY DEF BaseInv, ConsumerInv, HandlerInv
<1>1. /\ UNCHANGED <<content, statusRow>>
      /\ last' \in Nat /\ last <= last' /\ last \in Nat
      /\ \A d \in Consumers :
            \/ batch'[d] = batch[d]
            \/ batch'[d] = <<>>
            \/ \A k \in DOMAIN batch'[d] : batch'[d][k] \in Nat /\ last < batch'[d][k]
  BY <1>0, Elsewhere DEF producers, storage, LoopInv, TypeOK
<1>2. ASSUME NEW t \in Tasks, NEW i \in DOMAIN content, RowFrom(t, i) PROVE RowFrom(t, i)'
  <2>1. i \in 1..last' /\ i \in Nat /\ i <= last
    BY <1>1, <1>2 DEF RowFrom
  <2>2. \A d \in Consumers : \A k \in DOMAIN batch'[d] : i <= batch'[d][k]
    BY <1>1, <1>2, <2>1 DEF RowFrom
  <2> QED
    BY <1>1, <1>2, <2>1, <2>2 DEF RowFrom, EventAt
<1>3. ASSUME NEW c \in Consumers, stage'[c] = "stored"
      PROVE  (statusRow[Task(c)] = NewRow(c))'
  <2>1. stage[c] = "stored" /\ batch'[c] = batch[c]
    BY <1>0, <1>3, StoredKept
  <2> QED
    BY <1>1, <2>1 DEF RowInv, Task, NewRow, Event
<1>4. ASSUME NEW c \in Consumers, NEW t \in Tasks, cache'[c][t] # NoPct
      PROVE  cache'[c][t] <= statusRow'[t].pct
  <2>1. ASSUME NEW d \in Consumers, LoseMemory(d) PROVE cache'[c] = cache[c]
    <3>1. cache' = [cache EXCEPT ![d] = [s \in Tasks |-> NoPct]]
      BY <2>1 DEF LoseMemory
    <3> QED
      BY <1>0, <1>4, <3>1 DEF HandlerTypes
  <2>2. UNCHANGED cache \/ \E d \in Consumers : LoseMemory(d)
    BY DEF ElsewhereStep, ConsumerLoop, LoseStream, OutsideHandlers, pipelineVars, memory
  <2> QED
    BY <1>1, <1>4, <2>1, <2>2 DEF RowInv
<1> QED
  BY <1>1, <1>2, <1>3, <1>4 DEF RowInv

LEMMA RowPublish ==
    ASSUME BaseInv, RowInv, NEW t \in Tasks, PublishNext(t) PROVE RowInv'
<1>0. ConsumerInv /\ SourceInv /\ HandlerInv /\ LoopInv
  BY DEF BaseInv, ConsumerInv
<1>1. /\ \A i \in DOMAIN content : i \in DOMAIN content' /\ content'[i] = content[i]
      /\ UNCHANGED <<last, batch, stage, cache, statusRow>>
  BY <1>0, SourcePublish DEF memory, storage
<1>2. ASSUME NEW s \in Tasks, NEW i \in DOMAIN content, RowFrom(s, i) PROVE RowFrom(s, i)'
  BY <1>1, <1>2 DEF RowFrom, EventAt
<1>3. ASSUME NEW c \in Consumers, stage'[c] = "stored"
      PROVE  (statusRow[Task(c)] = NewRow(c))'
  <2>1. Head(batch[c]) \in DOMAIN content /\ stage[c] = "stored"
    BY <1>0, <1>1, <1>3, InHand DEF HandlerInv, StoredFacts
  <2> QED
    BY <1>1, <2>1 DEF RowInv, Task, NewRow, Event
<1> QED
  BY <1>1, <1>2, <1>3 DEF RowInv

LEMMA RestOfReply ==
    ASSUME ConsumerInv, NEW c \in Consumers, \E r \in BOOLEAN : Dispatch(c, r)
    PROVE  \A d \in Consumers : \A k \in DOMAIN batch'[d] :
              \E m \in DOMAIN batch[d] : batch'[d][k] = batch[d][m]
<1> SUFFICES ASSUME NEW d \in Consumers, NEW k \in DOMAIN batch'[d]
             PROVE  \E m \in DOMAIN batch[d] : batch'[d][k] = batch[d][m]
  OBVIOUS
<1>1. PICK r \in BOOLEAN : Dispatch(c, r)
  OBVIOUS
<1> QED
  BY <1>1, AfterHand

LEMMA RowHandler ==
    ASSUME OneProcessScripts, BaseInv, RowInv,
           NEW c \in Consumers, NEW ok \in BOOLEAN, Handler(c, ok)
    PROVE  RowInv'
<1> DEFINE h == Head(batch[c])
<1>0. ConsumerInv /\ SourceInv /\ HandlerInv /\ HandlerTypes
  BY DEF BaseInv, HandlerInv
<1>1. /\ h \in DOMAIN content /\ h \in 1..last /\ h \in Nat
      /\ Task(c) \in Tasks /\ Event(c) \in Events
      /\ Task(c) = content[h].task /\ Event(c) = EventAt(h)
      /\ \A k \in DOMAIN batch[c] : h <= batch[c][k]
      /\ UNCHANGED <<content, last>>
  BY <1>0, HandlerMoves, InHand DEF Task, Event, EventAt
<1>2. \A d \in Consumers : \A k \in DOMAIN batch'[d] :
         \E m \in DOMAIN batch[d] : batch'[d][k] = batch[d][m]
  <2>1. UNCHANGED batch \/ \E r \in BOOLEAN : Dispatch(c, r)
    BY <1>0, HandlerMoves
  <2>2. CASE UNCHANGED batch
    BY <2>2
  <2>3. CASE \E r \in BOOLEAN : Dispatch(c, r)
    BY <1>0, <2>3, RestOfReply
  <2> QED
    BY <2>1, <2>2, <2>3
<1>3. ASSUME NEW t \in Tasks
      PROVE  \/ statusRow'[t] = [state |-> "QUEUED", pct |-> 0]
             \/ \E i \in DOMAIN content' : RowFrom(t, i)'
  <2>1. CASE statusRow'[t] = statusRow[t]
    <3>1. ASSUME NEW i \in DOMAIN content, RowFrom(t, i) PROVE RowFrom(t, i)'
      BY <1>1, <1>2, <2>1, <3>1 DEF RowFrom, EventAt
    <3> QED
      BY <1>1, <2>1, <3>1 DEF RowInv
  <2>2. CASE statusRow'[t] # statusRow[t]
    <3>1. /\ Event(c).type = "status" /\ t = Task(c)
          /\ statusRow'[t] = [state |-> Event(c).state, pct |-> Event(c).pct]
      BY <1>0, <1>1, <2>2, HandlerMoves DEF Written, NewRow, HandlerTypes
    <3>2. \A d \in Consumers : \A k \in DOMAIN batch'[d] : h <= batch'[d][k]
      BY <1>1, <1>2 DEF OneProcessScripts, OneProcess
    <3>3. ASSUME NEW i \in DOMAIN content, i = h PROVE RowFrom(t, i)'
      BY <1>1, <3>1, <3>2, <3>3 DEF RowFrom, EventAt
    <3> QED
      BY <1>1, <3>3
  <2> QED
    BY <2>1, <2>2
<1>4. ASSUME NEW d \in Consumers, stage'[d] = "stored"
      PROVE  (statusRow[Task(d)] = NewRow(d))'
  <2>1. d = c
    BY DEF OneProcessScripts, OneProcess
  <2>2. stage' # [stage EXCEPT ![c] = "entered"]
    BY <1>0, <1>4, <2>1 DEF HandlerTypes
  <2>3. UNCHANGED batch /\ statusRow' = Written(c)
    BY <1>0, <2>2, HandlerMoves
  <2>4. statusRow'[Task(c)] = NewRow(c)
    BY <1>0, <1>1, <2>3 DEF Written, HandlerTypes
  <2> QED
    BY <1>1, <2>1, <2>3, <2>4 DEF Task, NewRow, Event
<1>5. ASSUME NEW d \in Consumers, NEW t \in Tasks, cache'[d][t] # NoPct
      PROVE  cache'[d][t] <= statusRow'[t].pct
  <2>1. /\ statusRow[t].pct \in Nat /\ statusRow'[t].pct \in Nat
        /\ statusRow[t].pct <= statusRow'[t].pct
    BY RowRises DEF Rows
  <2>2. cache[d][t] \in Nat \cup {NoPct}
    BY <1>0 DEF HandlerTypes
  <2>3. CASE cache'[d][t] = cache[d][t]
    BY <1>5, <2>1, <2>2, <2>3 DEF RowInv
  <2>4. CASE cache'[d][t] # cache[d][t]
    <3>1. Event(c).type = "status" /\ Remember(c) /\ statusRow' = Written(c)
      BY <1>0, <2>4, HandlerMoves
    <3> DEFINE r == [cache[c] EXCEPT ![Task(c)] = IF IsTerminal(Event(c)) THEN NoPct
                                                  ELSE Event(c).pct]
    <3>2. cache' = [cache EXCEPT ![c] = r]
      BY <3>1 DEF Remember
    <3>3. \A s \in Tasks : r[s] = cache[c][s] \/ r[s] = NoPct \/ (s = Task(c) /\ r[s] = Event(c).pct)
      BY <1>0 DEF HandlerTypes
    <3> HIDE DEF r
    <3>4. t = Task(c) /\ cache'[d][t] = Event(c).pct
      BY <1>0, <1>5, <2>4, <3>2, <3>3 DEF HandlerTypes
    <3>5. statusRow'[t].pct = Event(c).pct
      BY <1>0, <1>1, <3>1, <3>4 DEF Written, NewRow, HandlerTypes
    <3> QED
      BY <2>1, <3>4, <3>5
  <2> QED
    BY <2>3, <2>4
<1> QED
  BY <1>3, <1>4, <1>5 DEF RowInv

LEMMA RowStep ==
    ASSUME OneProcessScripts, BaseInv, RowInv, [PipelineNext]_pipelineVars PROVE RowInv'
BY StepKinds, RowPublish, RowHandler, RowElsewhere

(* With one API process a task's row never goes back, although writes      *)
(* fail after they were committed, restarts empty the cache and the reply  *)
(* in hand is lost: whatever is written comes from an event at least as    *)
(* late as the one the row was written from.                               *)
THEOREM RowNeverRegresses ==
    ASSUME OneProcessScripts PROVE PipelineSpec => StatusNeverRegresses
<1> DEFINE Forward ==
        \A t \in Tasks :
           /\ statusRow'[t].pct >= statusRow[t].pct
           /\ statusRow[t].state \in TerminalStates => statusRow'[t].state = statusRow[t].state
<1>1. BaseInv /\ RowInv /\ [PipelineNext]_pipelineVars => RowInv'
  BY RowStep
<1>2. BaseInv /\ RowInv /\ [PipelineNext]_pipelineVars => [Forward]_statusRow
  <2> SUFFICES ASSUME BaseInv, RowInv, [PipelineNext]_pipelineVars, statusRow' # statusRow
               PROVE  Forward
    OBVIOUS
  <2>0. LoopInv /\ SourceInv
    BY DEF BaseInv, ConsumerInv
  <2>1. PICK c \in Consumers : \E ok \in BOOLEAN : Handler(c, ok)
    BY <2>0, StepKinds, SourcePublish, Elsewhere DEF storage
  <2>2. ASSUME NEW t \in Tasks
        PROVE  /\ statusRow[t].pct \in Nat /\ statusRow'[t].pct \in Nat
               /\ statusRow[t].pct <= statusRow'[t].pct
               /\ statusRow[t].state \in TerminalStates =>
                     statusRow'[t].state = statusRow[t].state
    BY <2>1, RowRises DEF Rows
  <2> QED
    BY <2>2
<1> QED
  BY BaseHolds, RowInit, <1>1, <1>2, PTL DEF PipelineSpec, StatusNeverRegresses

-----------------------------------------------------------------------------
(* The last status shown of a task is there, and the row is not behind it. *)
KeepsUpAt(t, k) ==
    /\ k \in ShownStatuses(t) /\ \A j \in ShownStatuses(t) : j <= k
    /\ EventAt(shown[t][k]).pct < statusRow[t].pct + STATUS_DELTA
    /\ EventAt(shown[t][k]).state \in TerminalStates =>
          statusRow[t].state = EventAt(shown[t][k]).state

KeepsUpInv ==
    \A t \in Tasks : ShownStatuses(t) = {} \/ \E k \in ShownStatuses(t) : KeepsUpAt(t, k)

LEMMA KeepsUpInit == PipelineInit => KeepsUpInv
BY DEF PipelineInit, KeepsUpInv, ShownStatuses

(* A status that is shown was just stored, or was throttled: then it is    *)
(* not terminal, and within status_delta of what this process stored.      *)
LEMMA ShownStatusFits ==
    ASSUME OneProcessScripts, BaseInv, RowInv,
           NEW c \in Consumers, NEW ok \in BOOLEAN, Handler(c, ok),
           shown' # shown, Event(c).type = "status", NEW t \in Tasks, t = Task(c)
    PROVE  /\ Event(c).pct < statusRow'[t].pct + STATUS_DELTA
           /\ Event(c).state \in TerminalStates => statusRow'[t].state = Event(c).state
<1>0. ConsumerInv /\ SourceInv /\ HandlerInv /\ HandlerTypes
  BY DEF BaseInv, HandlerInv
<1>1. BroadcastStatus(c, ok)
  BY DEF Handler, StoreStatus, StoreResult, BroadcastChunk, Handling
<1>2. statusRow' = statusRow /\ (stage[c] = "stored" \/ ~ShouldPersist(c))
  BY <1>1 DEF BroadcastStatus, storage
<1>3. Event(c).pct \in Nat /\ statusRow[t].pct \in Nat /\ STATUS_DELTA \in Nat \ {0}
  <2>1. Event(c) \in Events
    BY <1>0, HandlerMoves, InHand
  <2> QED
    BY <1>0, <2>1, StatusTypes, DeltaAssumption DEF HandlerTypes, Rows
<1>4. CASE stage[c] = "stored"
  <2>1. statusRow[t] = [state |-> Event(c).state, pct |-> Event(c).pct]
    BY <1>4 DEF RowInv, NewRow
  <2> QED
    BY <1>2, <1>3, <2>1
<1>5. CASE ~ShouldPersist(c)
  <2>1. /\ cache[c][t] # NoPct /\ Event(c).state \notin TerminalStates
        /\ ~(Distance(Event(c).pct, cache[c][t]) >= STATUS_DELTA)
    BY <1>5 DEF ShouldPersist
  <2>2. cache[c][t] \in Nat /\ cache[c][t] <= statusRow[t].pct
    BY <1>0, <2>1 DEF HandlerTypes, RowInv
  <2>3. Event(c).pct < cache[c][t] + STATUS_DELTA
    BY <1>3, <2>1, <2>2 DEF Distance
  <2> QED
    BY <1>2, <1>3, <2>1, <2>2, <2>3
<1> QED
  BY <1>2, <1>4, <1>5

LEMMA KeepsUpStep ==
    ASSUME OneProcessScripts, BaseInv, ShownDispatched, RowInv, KeepsUpInv,
           [PipelineNext]_pipelineVars
    PROVE  KeepsUpInv'
<1>0. ConsumerInv /\ SourceInv /\ HandlerInv /\ HandlerTypes /\ LoopInv
  BY DEF BaseInv, HandlerInv, ConsumerInv
<1>1. \A t \in Tasks : \A k \in DOMAIN shown[t] : shown[t][k] \in DOMAIN content
  BY <1>0, DispatchedKnown DEF ShownDispatched
<1>2. ASSUME UNCHANGED <<shown, statusRow>>,
             \A i \in DOMAIN content : content'[i] = content[i]
      PROVE  KeepsUpInv'
  <2>1. \A t \in Tasks : \A k \in DOMAIN shown[t] : EventAt(shown[t][k])' = EventAt(shown[t][k])
    BY <1>1, <1>2 DEF EventAt
  <2>2. \A t \in Tasks : ShownStatuses(t)' = ShownStatuses(t)
    BY <1>2, <2>1 DEF ShownStatuses
  <2>3. ASSUME NEW t \in Tasks, NEW k \in ShownStatuses(t), KeepsUpAt(t, k)
        PROVE  KeepsUpAt(t, k)'
    <3>1. k \in DOMAIN shown[t]
      BY DEF ShownStatuses
    <3> QED
      BY <1>2, <2>1, <2>2, <2>3, <3>1 DEF KeepsUpAt
  <2> QED
    BY <2>2, <2>3 DEF KeepsUpInv
<1>3. ASSUME NEW c \in Consumers, NEW ok \in BOOLEAN, Handler(c, ok) PROVE KeepsUpInv'
  <2>1. UNCHANGED content /\ Event(c) = EventAt(Head(batch[c])) /\ STATUS_DELTA \in Nat
    BY <1>0, <1>3, HandlerMoves, DeltaAssumption DEF Event, EventAt
  <2>2. ASSUME NEW t \in Tasks, NEW k \in ShownStatuses(t), KeepsUpAt(t, k)
        PROVE  /\ k \in DOMAIN shown[t]
               /\ EventAt(shown[t][k]).pct < statusRow'[t].pct + STATUS_DELTA
               /\ EventAt(shown[t][k]).state \in TerminalStates =>
                     statusRow'[t].state = EventAt(shown[t][k]).state
    <3>1. k \in DOMAIN shown[t] /\ EventAt(shown[t][k]).type = "status"
      BY DEF ShownStatuses
    <3>2. EventAt(shown[t][k]).pct \in Nat
      <4>1. content[shown[t][k]] \in Entries
        BY <1>0, <1>1, <3>1 DEF SourceInv
      <4>2. EventAt(shown[t][k]) \in Events
        BY <4>1 DEF Entries, EventAt
      <4> QED
        BY <3>1, <4>2, StatusTypes
    <3>3. /\ statusRow[t].pct \in Nat /\ statusRow'[t].pct \in Nat
          /\ statusRow[t].pct <= statusRow'[t].pct
          /\ statusRow[t].state \in TerminalStates => statusRow'[t].state = statusRow[t].state
      BY <1>3, RowRises DEF Rows
    <3> QED
      BY <2>1, <2>2, <3>1, <3>2, <3>3 DEF KeepsUpAt
  <2> SUFFICES ASSUME NEW t \in Tasks, ShownStatuses(t)' # {}
               PROVE  \E k \in ShownStatuses(t)' : KeepsUpAt(t, k)'
    BY DEF KeepsUpInv
  <2>3. CASE shown'[t] = shown[t]
    <3>1. ShownStatuses(t)' = ShownStatuses(t)
      BY <2>1, <2>3 DEF ShownStatuses, EventAt
    <3>2. PICK k \in ShownStatuses(t) : KeepsUpAt(t, k)
      BY <3>1 DEF KeepsUpInv
    <3>3. KeepsUpAt(t, k)'
      BY <2>1, <2>2, <2>3, <3>1, <3>2 DEF KeepsUpAt, EventAt
    <3> QED
      BY <3>1, <3>2, <3>3
  <2>4. CASE shown'[t] # shown[t]
    <3> DEFINE n == Len(shown[t]) + 1
    <3>1. shown' # shown /\ t = Task(c)
      BY <1>0, <1>3, <2>4, ShownMoves
    <3>2. /\ DOMAIN shown'[t] = DOMAIN shown[t] \cup {n} /\ Len(shown[t]) \in Nat
          /\ shown'[t][n] = Head(batch[c])
          /\ \A k \in DOMAIN shown[t] :
                shown'[t][k] = shown[t][k] /\ k \in Nat /\ k <= Len(shown[t])
      BY <1>0, <1>3, <3>1, ShownMoves
    <3>3. n \in Nat /\ \A k \in DOMAIN shown'[t] : k <= n
      BY <3>2
    <3>4. content'[shown'[t][n]].event = Event(c)
      BY <2>1, <3>2 DEF EventAt
    <3>5. \A k \in DOMAIN shown[t] : content'[shown'[t][k]].event = EventAt(shown[t][k])
      BY <2>1, <3>2 DEF EventAt
    <3>6. CASE Event(c).type = "status"
      <4>1. /\ Event(c).pct < statusRow'[t].pct + STATUS_DELTA
            /\ Event(c).state \in TerminalStates => statusRow'[t].state = Event(c).state
        BY <1>3, <3>1, <3>6, ShownStatusFits
      <4>2. ASSUME NEW k, k = n PROVE k \in ShownStatuses(t)' /\ KeepsUpAt(t, k)'
        BY <4>1, <4>2, <3>2, <3>3, <3>4, <3>6 DEF KeepsUpAt, ShownStatuses, EventAt
      <4> QED
        BY <4>2
    <3>7. CASE Event(c).type # "status"
      <4>1. ShownStatuses(t)' = ShownStatuses(t)
        BY <3>2, <3>4, <3>5, <3>7 DEF ShownStatuses, EventAt
      <4>2. PICK k \in ShownStatuses(t) : KeepsUpAt(t, k)
        BY <4>1 DEF KeepsUpInv
      <4>3. KeepsUpAt(t, k)'
        BY <2>1, <2>2, <3>2, <3>5, <4>1, <4>2 DEF KeepsUpAt, EventAt
      <4> QED
        BY <4>1, <4>2, <4>3
    <3> QED
      BY <3>6, <3>7
  <2> QED
    BY <2>3, <2>4
<1> QED
  BY <1>0, <1>2, <1>3, StepKinds, SourcePublish, Elsewhere DEF producers, storage

(* README "persisting only meaningful state transitions or periodic        *)
(* snapshots": with one API process the row a client polls is never behind *)
(* what a client that listens was shown by status_delta or more, nor by a  *)
(* terminal state.                                                         *)
THEOREM RowWithinDelta ==
    ASSUME OneProcessScripts PROVE PipelineSpec => []RowKeepsUpWithBroadcasts
<1>1. BaseInv /\ RowInv /\ [PipelineNext]_pipelineVars => RowInv'
  BY RowStep
<1>2. BaseInv /\ ShownDispatched /\ RowInv /\ KeepsUpInv /\ [PipelineNext]_pipelineVars
        => KeepsUpInv'
  BY KeepsUpStep
<1>3. KeepsUpInv => RowKeepsUpWithBroadcasts
  <2> SUFFICES ASSUME KeepsUpInv, NEW t \in Tasks, ShownStatuses(t) # {}
               PROVE  /\ LastShown(t).pct < statusRow[t].pct + STATUS_DELTA
                      /\ LastShown(t).state \in TerminalStates =>
                            statusRow[t].state = LastShown(t).state
    BY DEF RowKeepsUpWithBroadcasts
  <2>1. PICK k \in ShownStatuses(t) : KeepsUpAt(t, k)
    BY DEF KeepsUpInv
  <2> DEFINE top == CHOOSE i \in ShownStatuses(t) : \A j \in ShownStatuses(t) : j <= i
  <2>2. top \in ShownStatuses(t) /\ \A j \in ShownStatuses(t) : j <= top
    BY <2>1 DEF KeepsUpAt
  <2>3. top = k
    BY <2>1, <2>2 DEF KeepsUpAt
  <2> QED
    BY <2>1, <2>3 DEF LastShown, KeepsUpAt
<1> QED
  BY BaseHolds, ShownInit, ShownStep, RowInit, KeepsUpInit, <1>1, <1>2, <1>3, PTL
     DEF PipelineSpec
=============================================================================
