------------------------ MODULE StreamConsumer_proofs ------------------------
(***************************************************************************)
(* Proofs about StreamConsumer, for any set of processes, any COUNT and    *)
(* any bounds.  The inductive invariant is built in four layers, each      *)
(* proved from the ones before it:                                         *)
(*   LoopInv   types, and what each stage of the loop knows of its reply   *)
(*   OrderInv  replies are increasing, disjoint and ahead of every log     *)
(*   AckInv    an entry being acknowledged has been handled                *)
(*   PelInv    the pending lists hold what was handed out and not acked    *)
(* The refinement of EventDelivery rests on all four.                      *)
(***************************************************************************)
EXTENDS StreamConsumer, TLAPS

(* A process has a reply in hand exactly while it walks it, and a message  *)
(* to acknowledge only after a handler returned.                           *)
LoopInv ==
    /\ TypeOK
    /\ \A c \in Consumers :
          /\ pc[c] = "handling" => batch[c] # <<>>
          /\ pc[c] \notin {"handling", "acking"} => batch[c] = <<>>

LEMMA IdsProperties ==
    ASSUME NEW from \in Nat, NEW to \in Nat, from <= to
    PROVE  /\ Ids(from, to) \in Seq(Nat) /\ Ids(from, to) # <<>>
           /\ DOMAIN Ids(from, to) = 1..(to - from + 1)
           /\ \A k \in 1..(to - from + 1) :
                 Ids(from, to)[k] = from + k - 1 /\ Ids(from, to)[k] \in from..to
<1>1. \A k \in 1..(to - from + 1) : from + k - 1 \in Nat /\ from + k - 1 \in from..to
  OBVIOUS
<1>2. Ids(from, to) \in [1..(to - from + 1) -> Nat]
  BY <1>1 DEF Ids
<1>3. to - from + 1 \in Nat /\ to - from + 1 # 0
  OBVIOUS
<1>4. Ids(from, to) \in Seq(Nat) /\ Len(Ids(from, to)) = to - from + 1
  BY <1>2, <1>3
<1>5. Ids(from, to) # <<>>
  BY <1>3, <1>4
<1> QED
  BY <1>1, <1>2, <1>4, <1>5 DEF Ids

LEMMA ReadUpToBounds ==
    ASSUME TypeOK, last < Len(stream)
    PROVE  ReadUpTo \in Nat /\ last + 1 <= ReadUpTo /\ ReadUpTo <= Len(stream)
<1>1. Len(stream) \in Nat /\ last \in Nat
  BY DEF TypeOK
<1> QED
  BY <1>1, CountAssumption DEF ReadUpTo

LEMMA LoopInit == Init => LoopInv
<1> SUFFICES ASSUME Init PROVE LoopInv
  OBVIOUS
<1>1. TypeOK
  BY DEF Init, TypeOK, Stages
<1> QED
  BY <1>1 DEF Init, LoopInv

LEMMA LoopStep == LoopInv /\ [Next]_vars => LoopInv'
<1> SUFFICES ASSUME LoopInv, [Next]_vars PROVE LoopInv'
  OBVIOUS
<1> USE DEF LoopInv, TypeOK, Stages
<1>1. ASSUME NEW kind \in Kinds, Publish(kind) PROVE LoopInv'
  <2>1. stream' \in Seq(Kinds) /\ Len(stream') = Len(stream) + 1
    BY <1>1 DEF Publish
  <2>2. /\ last' \in 0..Len(stream') /\ since' \in 0..last'
    BY <2>1, <1>1 DEF Publish, server
  <2> QED
    BY <1>1, <2>1, <2>2 DEF Publish, server, process, bounds
<1>2. ASSUME NEW c \in Consumers, EnsureGroup(c) PROVE LoopInv'
  BY <1>2 DEF EnsureGroup, bounds
<1>3. ASSUME NEW c \in Consumers, Reclaim(c) PROVE LoopInv'
  <2>1. PICK idle \in SUBSET Pending :
           pel' = [d \in Consumers |-> IF d = c THEN pel[d] \cup idle ELSE pel[d] \ idle]
    BY <1>3 DEF Reclaim
  <2>2. idle \subseteq Nat
    BY DEF Pending
  <2>3. pel' \in [Consumers -> SUBSET Nat]
    BY <2>1, <2>2
  <2> QED
    BY <1>3, <2>3 DEF Reclaim, bounds
<1>4. ASSUME NEW c \in Consumers, Deliver(c)
      PROVE  /\ last' \in 0..Len(stream) /\ since' \in 0..last' /\ group' = group
             /\ pel' \in [Consumers -> SUBSET Nat]
  <2>1. ReadUpTo \in Nat /\ last + 1 <= ReadUpTo /\ ReadUpTo <= Len(stream)
    BY <1>4, ReadUpToBounds DEF Deliver
  <2>2. (last + 1)..ReadUpTo \subseteq Nat
    BY <2>1
  <2> QED
    BY <1>4, <2>1, <2>2 DEF Deliver
<1>5. ASSUME NEW c \in Consumers, XReadGroup(c) PROVE LoopInv'
  <2>1. Deliver(c)
    BY <1>5 DEF XReadGroup
  <2>2. ReadUpTo \in Nat /\ last + 1 <= ReadUpTo
    BY <2>1, ReadUpToBounds DEF Deliver
  <2>3. Ids(last + 1, ReadUpTo) \in Seq(Nat) /\ Ids(last + 1, ReadUpTo) # <<>>
    <3>1. last + 1 \in Nat
      OBVIOUS
    <3> QED
      BY <3>1, <2>2, IdsProperties
  <2> QED
    BY <1>5, <2>1, <1>4, <2>3 DEF XReadGroup, bounds
<1>6. ASSUME NEW c \in Consumers, XReadGroupIdle(c) PROVE LoopInv'
  BY <1>6 DEF XReadGroupIdle, vars, server, process, bounds
<1>7. ASSUME NEW c \in Consumers, XReadGroupFails(c) PROVE LoopInv'
  <2>1. CASE UNCHANGED server
    BY <1>7, <2>1 DEF XReadGroupFails, Disruption, server, bounds
  <2>2. CASE Deliver(c)
    BY <1>7, <2>2, <1>4 DEF XReadGroupFails, Disruption, server, bounds
  <2> QED
    BY <1>7, <2>1, <2>2 DEF XReadGroupFails
<1>8. ASSUME NEW c \in Consumers, Backoff(c) PROVE LoopInv'
  BY <1>8 DEF Backoff, server, bounds
<1>9. ASSUME NEW c \in Consumers, NEW ok \in BOOLEAN, Dispatch(c, ok) PROVE LoopInv'
  <2>1. batch[c] \in Seq(Nat) /\ batch[c] # <<>>
    BY <1>9 DEF Dispatch, DispatchEnds
  <2>2. Head(batch[c]) \in Nat /\ Tail(batch[c]) \in Seq(Nat)
    BY <2>1
  <2>3. [id |-> Head(batch[c]), ok |-> ok] \in Dispatches
    BY <2>2 DEF Dispatches
  <2>4. log' \in [Consumers -> Seq(Dispatches)]
    BY <1>9, <2>3 DEF Dispatch, DispatchEnds
  <2>5. batch' \in [Consumers -> Seq(Nat)] /\ cur' \in [Consumers -> Nat]
    BY <1>9, <2>2 DEF Dispatch, DispatchEnds
  <2>6. pc' \in [Consumers -> Stages]
    BY <1>9 DEF Dispatch, DispatchEnds, AfterEntry
  <2>7. \A d \in Consumers :
          /\ pc'[d] = "handling" => batch'[d] # <<>>
          /\ pc'[d] \notin {"handling", "acking"} => batch'[d] = <<>>
    BY <1>9 DEF Dispatch, DispatchEnds, AfterEntry
  <2> QED
    BY <1>9, <2>4, <2>5, <2>6, <2>7 DEF Dispatch, DispatchEnds, server, bounds
<1>10. ASSUME NEW id \in Nat, Acknowledge(id)
       PROVE  pel' \in [Consumers -> SUBSET Nat] /\ acked' \in SUBSET Nat
  BY <1>10 DEF Acknowledge
<1>11. ASSUME NEW c \in Consumers, Ack(c) PROVE LoopInv'
  BY <1>11, <1>10 DEF Ack, AfterEntry, bounds
<1>15. ASSUME NEW c \in Consumers, AckFails(c) PROVE LoopInv'
  <2>1. pel' \in [Consumers -> SUBSET Nat] /\ acked' \in SUBSET Nat
    BY <1>15, <1>10 DEF AckFails
  <2>2. /\ pc' = [pc EXCEPT ![c] = "backoff"]
        /\ batch' = [batch EXCEPT ![c] = <<>>]
        /\ cur' = [cur EXCEPT ![c] = 0]
        /\ UNCHANGED <<stream, group, last, since, log, redisRestarts>>
        /\ disruptions' = disruptions + 1
    BY <1>15 DEF AckFails, Disruption
  <2> QED
    BY <2>1, <2>2
<1>12. ASSUME NEW c \in Consumers, Leave(c) PROVE LoopInv'
  BY <1>12 DEF Leave, Disruption, server
<1>13. ASSUME RedisRestart PROVE LoopInv'
  BY <1>13 DEF RedisRestart, process
<1>14. ASSUME UNCHANGED vars PROVE LoopInv'
  BY <1>14 DEF vars, server, process, bounds
<1> QED
  BY <1>1, <1>2, <1>3, <1>5, <1>6, <1>7, <1>8, <1>9, <1>11, <1>12, <1>13, <1>14, <1>15
     DEF Next, Stop, Crash

(* Type correctness of the consumers and the server, at every step.        *)
THEOREM TypeCorrect == Spec => []TypeOK
<1>1. LoopInv => TypeOK
  BY DEF LoopInv
<1> QED
  BY LoopInit, LoopStep, <1>1, PTL DEF Spec

-----------------------------------------------------------------------------
(* Replies are increasing and handed out already; everything a process has *)
(* dispatched comes before what it has in hand; and no entry is in the     *)
(* hands, or the past, of two processes.                                   *)
OrderInv ==
    /\ \A c \in Consumers :
          /\ \A k \in DOMAIN batch[c] : batch[c][k] \in 1..last
          /\ \A j, k \in DOMAIN batch[c] : j < k => batch[c][j] < batch[c][k]
          /\ \A j \in DOMAIN log[c] : log[c][j].id \in 1..last
          /\ \A j \in DOMAIN log[c], k \in DOMAIN batch[c] : log[c][j].id < batch[c][k]
    /\ \A c, d \in Consumers : c # d =>
          /\ \A j \in DOMAIN log[c], k \in DOMAIN batch[d] : log[c][j].id # batch[d][k]
          /\ \A j \in DOMAIN batch[c], k \in DOMAIN batch[d] : batch[c][j] # batch[d][k]
    /\ DispatchInOrder
    /\ DispatchedOnce

LEMMA OrderInit == Init => OrderInv
BY DEF Init, OrderInv, DispatchInOrder, DispatchedOnce

(* A step that only moves the group's cursor on, and empties some replies. *)
LEMMA OrderKept ==
    ASSUME LoopInv, OrderInv, log' = log, last' \in Nat, last <= last',
           \A c \in Consumers : batch'[c] = batch[c] \/ batch'[c] = <<>>
    PROVE  OrderInv'
<1>1. last \in Nat
  BY DEF LoopInv, TypeOK
<1>2. \A i \in 1..last : i \in 1..last'
  BY <1>1
<1> QED
  BY <1>1, <1>2 DEF OrderInv, DispatchInOrder, DispatchedOnce

LEMMA SeqTail ==
    ASSUME NEW s \in Seq(Nat), s # <<>>
    PROVE  /\ 1 \in DOMAIN s /\ Head(s) = s[1]
           /\ \A k \in DOMAIN Tail(s) :
                 k + 1 \in DOMAIN s /\ Tail(s)[k] = s[k + 1] /\ 1 < k + 1 /\ k \in Nat
OBVIOUS

LEMMA SeqAppend ==
    ASSUME NEW S, NEW s \in Seq(S), NEW x \in S
    PROVE  /\ Len(s) \in Nat
           /\ DOMAIN Append(s, x) = DOMAIN s \cup {Len(s) + 1}
           /\ DOMAIN s = 1..Len(s)
           /\ Append(s, x)[Len(s) + 1] = x
           /\ \A k \in DOMAIN s : Append(s, x)[k] = s[k] /\ k \in Nat /\ k <= Len(s)
OBVIOUS

LEMMA OrderRead ==
    ASSUME LoopInv, OrderInv, NEW c \in Consumers, XReadGroup(c) PROVE OrderInv'
<1> DEFINE reply == Ids(last + 1, ReadUpTo)
<1>1. last \in Nat /\ last + 1 \in Nat
  BY DEF LoopInv, TypeOK
<1>2. ReadUpTo \in Nat /\ last + 1 <= ReadUpTo /\ last' = ReadUpTo
  BY ReadUpToBounds DEF XReadGroup, Deliver, LoopInv
<1>3. /\ DOMAIN reply = 1..(ReadUpTo - (last + 1) + 1)
      /\ \A k \in DOMAIN reply : reply[k] = (last + 1) + k - 1
      /\ \A k \in DOMAIN reply : reply[k] \in (last + 1)..ReadUpTo
  BY <1>1, <1>2, IdsProperties
<1>4. batch[c] = <<>>
  BY DEF LoopInv, XReadGroup
<1>5. batch' = [batch EXCEPT ![c] = reply] /\ log' = log
  BY DEF XReadGroup
<1>6. batch'[c] = reply /\ \A d \in Consumers \ {c} : batch'[d] = batch[d]
  BY <1>5 DEF LoopInv, TypeOK
<1>7. \A k \in DOMAIN reply : reply[k] \in Nat /\ reply[k] \in 1..last' /\ last < reply[k]
  BY <1>1, <1>2, <1>3
<1>8. \A i \in 1..last : i \in 1..last' /\ i <= last /\ i \in Nat
  BY <1>1, <1>2
<1>9. \A i \in 1..last : \A k \in DOMAIN reply : i < reply[k] /\ i # reply[k]
  BY <1>1, <1>7, <1>8
<1>10. \A j, k \in DOMAIN reply : j < k => reply[j] < reply[k]
  BY <1>1, <1>2, <1>3
<1> HIDE DEF reply
<1>11. \A d \in Consumers :
          /\ \A k \in DOMAIN batch'[d] : batch'[d][k] \in 1..last'
          /\ \A j, k \in DOMAIN batch'[d] : j < k => batch'[d][j] < batch'[d][k]
  BY <1>6, <1>7, <1>8, <1>10 DEF OrderInv
<1>12. \A d \in Consumers :
          /\ \A j \in DOMAIN log'[d] : log'[d][j].id \in 1..last'
          /\ \A j \in DOMAIN log'[d], k \in DOMAIN batch'[d] : log'[d][j].id < batch'[d][k]
  BY <1>5, <1>6, <1>8, <1>9 DEF OrderInv
<1>13. \A b, d \in Consumers : b # d =>
          \A j \in DOMAIN log'[b], k \in DOMAIN batch'[d] : log'[b][j].id # batch'[d][k]
  BY <1>5, <1>6, <1>9 DEF OrderInv
<1>14. \A b, d \in Consumers : b # d =>
          \A j \in DOMAIN batch'[b], k \in DOMAIN batch'[d] : batch'[b][j] # batch'[d][k]
  <2> SUFFICES ASSUME NEW b \in Consumers, NEW d \in Consumers, b # d,
                      NEW j \in DOMAIN batch'[b], NEW k \in DOMAIN batch'[d]
               PROVE  batch'[b][j] # batch'[d][k]
    OBVIOUS
  <2>1. CASE b # c /\ d # c
    BY <2>1, <1>6 DEF OrderInv
  <2>2. CASE b = c
    <3>1. batch'[d][k] \in 1..last
      BY <2>2, <1>6 DEF OrderInv
    <3> QED
      BY <2>2, <3>1, <1>6, <1>9
  <2>3. CASE d = c
    <3>1. batch'[b][j] \in 1..last
      BY <2>3, <1>6 DEF OrderInv
    <3> QED
      BY <2>3, <3>1, <1>6, <1>9
  <2> QED
    BY <2>1, <2>2, <2>3
<1>15. DispatchInOrder' /\ DispatchedOnce'
  BY <1>5 DEF OrderInv, DispatchInOrder, DispatchedOnce
<1> QED
  BY <1>11, <1>12, <1>13, <1>14, <1>15 DEF OrderInv

LEMMA OrderDispatch ==
    ASSUME LoopInv, OrderInv, NEW c \in Consumers, NEW ok \in BOOLEAN, Dispatch(c, ok)
    PROVE  OrderInv'
<1> DEFINE h == Head(batch[c])
           n == Len(log[c]) + 1
<1>1. batch[c] \in Seq(Nat) /\ batch[c] # <<>> /\ log[c] \in Seq(Dispatches)
  BY DEF LoopInv, TypeOK, Dispatch, DispatchEnds
<1>2. 1 \in DOMAIN batch[c] /\ h = batch[c][1] /\ h \in Nat /\ last \in Nat
  BY <1>1, SeqTail DEF LoopInv, TypeOK
<1>3. [id |-> h, ok |-> ok] \in Dispatches
  BY <1>2 DEF Dispatches
<1>4. /\ batch' = [batch EXCEPT ![c] = Tail(@)]
      /\ log' = [log EXCEPT ![c] = Append(@, [id |-> h, ok |-> ok])]
      /\ last' = last
  BY DEF Dispatch, DispatchEnds, server
<1>5. /\ batch'[c] = Tail(batch[c]) /\ \A d \in Consumers \ {c} : batch'[d] = batch[d]
      /\ log'[c] = Append(log[c], [id |-> h, ok |-> ok])
      /\ \A d \in Consumers \ {c} : log'[d] = log[d]
  BY <1>4 DEF LoopInv, TypeOK
<1>6. \A d \in Consumers : \A k \in DOMAIN batch'[d] :
         \E m \in DOMAIN batch[d] : batch'[d][k] = batch[d][m] /\ (d = c => 1 < m)
  <2> SUFFICES ASSUME NEW d \in Consumers, NEW k \in DOMAIN batch'[d]
               PROVE  \E m \in DOMAIN batch[d] :
                         batch'[d][k] = batch[d][m] /\ (d = c => 1 < m)
    OBVIOUS
  <2>1. CASE d # c
    BY <2>1, <1>5
  <2>2. CASE d = c
    <3>1. k \in DOMAIN Tail(batch[c])
      BY <2>2, <1>5
    <3>2. /\ k + 1 \in DOMAIN batch[c] /\ 1 < k + 1
          /\ Tail(batch[c])[k] = batch[c][k + 1]
      BY <3>1, <1>1, SeqTail
    <3> QED
      BY <2>2, <3>2, <1>5
  <2> QED
    BY <2>1, <2>2
<1>7. \A j, k \in DOMAIN batch'[c] : j < k => batch'[c][j] < batch'[c][k]
  <2> SUFFICES ASSUME NEW j \in DOMAIN batch'[c], NEW k \in DOMAIN batch'[c], j < k
               PROVE  batch'[c][j] < batch'[c][k]
    OBVIOUS
  <2>1. /\ j + 1 \in DOMAIN batch[c] /\ batch'[c][j] = batch[c][j + 1] /\ j \in Nat
        /\ k + 1 \in DOMAIN batch[c] /\ batch'[c][k] = batch[c][k + 1] /\ k \in Nat
    BY <1>1, <1>5, SeqTail
  <2>2. j + 1 < k + 1
    BY <2>1
  <2> QED
    BY <2>1, <2>2 DEF OrderInv
<1>8. \A d \in Consumers : \A j \in DOMAIN log'[d] :
         \/ j \in DOMAIN log[d] /\ log'[d][j] = log[d][j] /\ (d = c => j < n)
         \/ d = c /\ j = n /\ log'[d][j].id = h
  <2>1. \A d \in Consumers \ {c} : \A j \in DOMAIN log'[d] :
           j \in DOMAIN log[d] /\ log'[d][j] = log[d][j]
    BY <1>5
  <2>2. /\ Len(log[c]) \in Nat
        /\ DOMAIN log'[c] = DOMAIN log[c] \cup {n}
        /\ log'[c][n] = [id |-> h, ok |-> ok]
        /\ \A j \in DOMAIN log[c] : log'[c][j] = log[c][j] /\ j \in Nat /\ j <= Len(log[c])
    BY <1>1, <1>3, <1>5, SeqAppend
  <2>3. \A j \in DOMAIN log[c] : j < n
    BY <2>2
  <2> QED
    BY <2>1, <2>2, <2>3
<1>9. h \in 1..last /\ \A m \in DOMAIN batch[c] : 1 < m => h < batch[c][m]
  BY <1>2 DEF OrderInv
<1>10. \A j \in DOMAIN log[c] : log[c][j].id < h
  BY <1>2 DEF OrderInv
<1>11. \A d \in Consumers : d # c =>
          /\ \A j \in DOMAIN log[d] : log[d][j].id # h
          /\ \A k \in DOMAIN batch[d] : batch[d][k] # h
  BY <1>2 DEF OrderInv
<1>12. /\ n \in Nat
       /\ \A j \in DOMAIN log'[c] : j \in Nat /\ j <= n
  BY <1>1, <1>3, <1>5, SeqAppend
<1> HIDE DEF h, n
<1>13. \A d \in Consumers :
          /\ \A k \in DOMAIN batch'[d] : batch'[d][k] \in 1..last'
          /\ \A j, k \in DOMAIN batch'[d] : j < k => batch'[d][j] < batch'[d][k]
  BY <1>4, <1>5, <1>6, <1>7 DEF OrderInv
<1>14. \A d \in Consumers : \A j \in DOMAIN log'[d] : log'[d][j].id \in 1..last'
  BY <1>4, <1>8, <1>9 DEF OrderInv
<1>15. \A d \in Consumers : \A j \in DOMAIN log'[d], k \in DOMAIN batch'[d] :
          log'[d][j].id < batch'[d][k]
  <2> SUFFICES ASSUME NEW d \in Consumers, NEW j \in DOMAIN log'[d],
                      NEW k \in DOMAIN batch'[d]
               PROVE  log'[d][j].id < batch'[d][k]
    OBVIOUS
  <2>1. PICK m \in DOMAIN batch[d] : batch'[d][k] = batch[d][m] /\ (d = c => 1 < m)
    BY <1>6
  <2> QED
    BY <2>1, <1>8, <1>9 DEF OrderInv
<1>16. \A b, d \in Consumers : b # d =>
          /\ \A j \in DOMAIN log'[b], k \in DOMAIN batch'[d] : log'[b][j].id # batch'[d][k]
          /\ \A j \in DOMAIN batch'[b], k \in DOMAIN batch'[d] : batch'[b][j] # batch'[d][k]
  <2> SUFFICES ASSUME NEW b \in Consumers, NEW d \in Consumers, b # d,
                      NEW k \in DOMAIN batch'[d]
               PROVE  /\ \A j \in DOMAIN log'[b] : log'[b][j].id # batch'[d][k]
                      /\ \A j \in DOMAIN batch'[b] : batch'[b][j] # batch'[d][k]
    OBVIOUS
  <2>1. PICK m \in DOMAIN batch[d] : batch'[d][k] = batch[d][m]
    BY <1>6
  <2>2. \A j \in DOMAIN log'[b] : log'[b][j].id # batch'[d][k]
    BY <2>1, <1>8, <1>11 DEF OrderInv
  <2>3. \A j \in DOMAIN batch'[b] : batch'[b][j] # batch'[d][k]
    BY <2>1, <1>6 DEF OrderInv
  <2> QED
    BY <2>2, <2>3
<1>17. DispatchInOrder'
  <2> SUFFICES ASSUME NEW d \in Consumers, NEW j \in DOMAIN log'[d],
                      NEW k \in DOMAIN log'[d], j < k
               PROVE  log'[d][j].id < log'[d][k].id
    BY DEF DispatchInOrder
  <2>1. CASE d # c
    BY <2>1, <1>8 DEF OrderInv, DispatchInOrder
  <2>2. CASE d = c
    <3>1. j \in DOMAIN log[c] /\ log'[c][j] = log[c][j]
      BY <2>2, <1>8, <1>12
    <3> QED
      BY <2>2, <3>1, <1>8, <1>10 DEF OrderInv, DispatchInOrder
  <2> QED
    BY <2>1, <2>2
<1>18. DispatchedOnce'
  BY <1>8, <1>11 DEF OrderInv, DispatchedOnce
<1> QED
  BY <1>13, <1>14, <1>15, <1>16, <1>17, <1>18 DEF OrderInv

LEMMA OrderStep == LoopInv /\ OrderInv /\ [Next]_vars => OrderInv'
<1> SUFFICES ASSUME LoopInv, OrderInv, [Next]_vars PROVE OrderInv'
  OBVIOUS
<1>1. last \in Nat /\ Len(stream) \in Nat /\ last <= Len(stream)
  BY DEF LoopInv, TypeOK
<1>2. ASSUME UNCHANGED <<log, last, batch>> PROVE OrderInv'
  BY <1>1, <1>2, OrderKept
<1>3. ASSUME NEW c \in Consumers, EnsureGroup(c) PROVE OrderInv'
  BY <1>1, <1>3, OrderKept DEF EnsureGroup
<1>4. ASSUME NEW c \in Consumers, XReadGroupFails(c) PROVE OrderInv'
  <2>1. ASSUME Deliver(c) PROVE last' \in Nat /\ last <= last'
    BY <1>1, <2>1, ReadUpToBounds DEF Deliver, LoopInv
  <2>2. last' \in Nat /\ last <= last'
    BY <1>1, <1>4, <2>1 DEF XReadGroupFails, server
  <2> QED
    BY <1>4, <2>2, OrderKept DEF XReadGroupFails
<1>5. ASSUME NEW c \in Consumers, AckFails(c) \/ Leave(c) PROVE OrderInv'
  <2>1. batch' = [batch EXCEPT ![c] = <<>>] /\ log' = log /\ last' = last
    BY <1>5 DEF AckFails, Leave, server
  <2> QED
    BY <1>1, <2>1, OrderKept DEF LoopInv, TypeOK
<1>6. ASSUME NEW kind \in Kinds, Publish(kind) PROVE OrderInv'
  BY <1>2, <1>6 DEF Publish, server, process
<1>7. ASSUME NEW c \in Consumers, Reclaim(c) \/ XReadGroupIdle(c) \/ Backoff(c) \/ Ack(c)
      PROVE  OrderInv'
  BY <1>2, <1>7 DEF Reclaim, XReadGroupIdle, Backoff, Ack, vars, server, process
<1>8. ASSUME RedisRestart \/ UNCHANGED vars PROVE OrderInv'
  BY <1>2, <1>8 DEF RedisRestart, vars, server, process
<1> QED
  BY <1>3, <1>4, <1>5, <1>6, <1>7, <1>8, OrderRead, OrderDispatch DEF Next, Stop, Crash

-----------------------------------------------------------------------------
(* A message on its way to XACK is one whose handler returned.             *)
AckInv ==
    /\ AckedWasHandled
    /\ \A c \in Consumers : pc[c] = "acking" => Returned(cur[c])

LEMMA ReturnedKept ==
    ASSUME LoopInv, [Next]_vars, NEW i, Returned(i) PROVE Returned(i)'
<1>1. ASSUME log' = log PROVE Returned(i)'
  BY <1>1 DEF Returned
<1>2. ASSUME NEW c \in Consumers, NEW ok \in BOOLEAN, Dispatch(c, ok) PROVE Returned(i)'
  <2>1. PICK d \in Consumers : \E k \in DOMAIN log[d] : log[d][k] = [id |-> i, ok |-> TRUE]
    BY DEF Returned
  <2>2. PICK k \in DOMAIN log[d] : log[d][k] = [id |-> i, ok |-> TRUE]
    BY <2>1
  <2>3. CASE d # c
    BY <1>2, <2>2, <2>3 DEF Dispatch, DispatchEnds, Returned, LoopInv, TypeOK
  <2>4. CASE d = c
    <3> DEFINE e == [id |-> Head(batch[c]), ok |-> ok]
    <3>1. e \in Dispatches /\ log[c] \in Seq(Dispatches)
      BY <1>2 DEF Dispatch, DispatchEnds, LoopInv, TypeOK, Dispatches
    <3>2. log'[c] = Append(log[c], e)
      BY <1>2 DEF Dispatch, DispatchEnds, LoopInv, TypeOK
    <3> HIDE DEF e
    <3>3. k \in DOMAIN log'[c] /\ log'[c][k] = log[c][k]
      BY <2>2, <2>4, <3>1, <3>2, SeqAppend
    <3> QED
      BY <2>2, <2>4, <3>3 DEF Returned
  <2> QED
    BY <2>3, <2>4
<1>3. log' = log \/ \E c \in Consumers, ok \in BOOLEAN : Dispatch(c, ok)
  BY DEF Next, Publish, EnsureGroup, Reclaim, XReadGroup, XReadGroupIdle, XReadGroupFails,
         Backoff, Ack, AckFails, Stop, Crash, Leave, RedisRestart, vars
<1> QED
  BY <1>1, <1>2, <1>3

LEMMA AckInit == Init => AckInv
BY DEF Init, AckInv, AckedWasHandled

LEMMA AckStep == LoopInv /\ AckInv /\ [Next]_vars => AckInv'
<1> SUFFICES ASSUME LoopInv, AckInv, [Next]_vars PROVE AckInv'
  OBVIOUS
<1> DEFINE Now(i) == \E c \in Consumers : \E k \in DOMAIN log'[c] :
                        log'[c][k] = [id |-> i, ok |-> TRUE]
<1>1. \A i : Returned(i) => Now(i)
  BY ReturnedKept DEF Returned
<1>0. (\A i \in acked' : Now(i)) /\ (\A c \in Consumers : pc'[c] = "acking" => Now(cur'[c]))
         => AckInv'
  BY DEF AckInv, AckedWasHandled, Returned
<1> HIDE DEF Now
<1>2. ASSUME acked' = acked,
             \A d \in Consumers : pc'[d] = "acking" => pc[d] = "acking" /\ cur'[d] = cur[d]
      PROVE  AckInv'
  BY <1>0, <1>1, <1>2 DEF AckInv, AckedWasHandled
<1>3. ASSUME NEW kind \in Kinds, Publish(kind) PROVE AckInv'
  BY <1>2, <1>3 DEF Publish, process
<1>4. ASSUME NEW c \in Consumers,
             EnsureGroup(c) \/ Reclaim(c) \/ XReadGroup(c) \/ XReadGroupIdle(c)
                \/ XReadGroupFails(c) \/ Backoff(c) \/ Leave(c)
      PROVE  AckInv'
  <2>1. acked' = acked
    BY <1>4 DEF EnsureGroup, Reclaim, XReadGroup, XReadGroupIdle, XReadGroupFails, Backoff,
                Leave, vars
  <2>2. \A d \in Consumers : pc'[d] = "acking" => pc[d] = "acking" /\ cur'[d] = cur[d]
    BY <1>4 DEF EnsureGroup, Reclaim, XReadGroup, XReadGroupIdle, XReadGroupFails, Backoff,
                Leave, vars, process, LoopInv, TypeOK
  <2> QED
    BY <1>2, <2>1, <2>2
<1>5. ASSUME NEW c \in Consumers, NEW ok \in BOOLEAN, Dispatch(c, ok) PROVE AckInv'
  <2> DEFINE e == [id |-> Head(batch[c]), ok |-> ok]
  <2>1. batch[c] \in Seq(Nat) /\ batch[c] # <<>>
    BY <1>5 DEF Dispatch, DispatchEnds, LoopInv, TypeOK
  <2>2. e \in Dispatches /\ log[c] \in Seq(Dispatches)
    BY <2>1 DEF LoopInv, TypeOK, Dispatches
  <2>3. log'[c] = Append(log[c], e)
    BY <1>5 DEF Dispatch, DispatchEnds, LoopInv, TypeOK
  <2>4. Len(log[c]) + 1 \in DOMAIN log'[c] /\ log'[c][Len(log[c]) + 1] = e
    BY <2>2, <2>3, SeqAppend
  <2>5. ok => Now(Head(batch[c]))
    <3>1. ok => e = [id |-> Head(batch[c]), ok |-> TRUE]
      OBVIOUS
    <3>2. SUFFICES ASSUME ok PROVE \E k \in DOMAIN log'[c] :
                         log'[c][k] = [id |-> Head(batch[c]), ok |-> TRUE]
      BY DEF Now
    <3> QED
      BY <2>4, <3>1, <3>2
  <2>6. acked' = acked
    BY <1>5 DEF Dispatch, DispatchEnds
  <2>7. \A d \in Consumers : pc'[d] = "acking" => Now(cur'[d])
    <3> SUFFICES ASSUME NEW d \in Consumers, pc'[d] = "acking" PROVE Now(cur'[d])
      OBVIOUS
    <3>1. CASE d # c
      <4>1. pc[d] = "acking" /\ cur'[d] = cur[d]
        BY <1>5, <3>1 DEF Dispatch, DispatchEnds, LoopInv, TypeOK
      <4> QED
        BY <4>1, <1>1 DEF AckInv
    <3>2. CASE d = c
      <4>1. ok
        BY <1>5, <3>2 DEF Dispatch, DispatchEnds, LoopInv, TypeOK, AfterEntry
      <4>2. cur'[d] = Head(batch[c])
        BY <1>5, <3>2, <4>1 DEF Dispatch, DispatchEnds, LoopInv, TypeOK
      <4> QED
        BY <4>1, <4>2, <2>5
    <3> QED
      BY <3>1, <3>2
  <2> QED
    BY <2>6, <2>7, <1>0, <1>1 DEF AckInv, AckedWasHandled
<1>6. ASSUME NEW c \in Consumers, Ack(c) \/ AckFails(c) PROVE AckInv'
  <2>1. Returned(cur[c])
    BY <1>6 DEF Ack, AckFails, AckInv
  <2>2. acked' \subseteq acked \cup {cur[c]}
    BY <1>6 DEF Ack, AckFails, Acknowledge
  <2>3. \A d \in Consumers : pc'[d] = "acking" => pc[d] = "acking" /\ cur'[d] = cur[d]
    BY <1>6 DEF Ack, AckFails, AfterEntry, LoopInv, TypeOK
  <2> QED
    BY <2>1, <2>2, <2>3, <1>0, <1>1 DEF AckInv, AckedWasHandled
<1>7. ASSUME RedisRestart \/ UNCHANGED vars PROVE AckInv'
  BY <1>2, <1>7 DEF RedisRestart, vars, process
<1> QED
  BY <1>3, <1>4, <1>5, <1>6, <1>7 DEF Next, Stop, Crash

-----------------------------------------------------------------------------
(* PendingUntilAcked, with the ranges it needs: acknowledged entries were  *)
(* handed out, and no list outlives its group.                             *)
PelInv ==
    /\ PendingUntilAcked
    /\ group # "live" => Pending = {}

LEMMA AckedBelowLast ==
    ASSUME OrderInv, AckInv PROVE \A i \in acked : i \in 1..last
<1> SUFFICES ASSUME NEW i \in acked PROVE i \in 1..last
  OBVIOUS
<1>1. PICK c \in Consumers : \E k \in DOMAIN log[c] : log[c][k] = [id |-> i, ok |-> TRUE]
  BY DEF AckInv, AckedWasHandled, Returned
<1>2. PICK k \in DOMAIN log[c] : log[c][k] = [id |-> i, ok |-> TRUE]
  BY <1>1
<1>3. log[c][k].id = i
  BY <1>2
<1> QED
  BY <1>3 DEF OrderInv

LEMMA PelInit == Init => PelInv
BY DEF Init, PelInv, PendingUntilAcked, Pending

(* Handing entries out keeps the lists exact.                              *)
LEMMA PelDeliver ==
    ASSUME LoopInv, OrderInv, AckInv, PelInv, NEW c \in Consumers, Deliver(c), acked' = acked
    PROVE  PelInv'
<1>1. last \in Nat /\ since \in Nat /\ since <= last
  BY DEF LoopInv, TypeOK
<1>2. ReadUpTo \in Nat /\ last + 1 <= ReadUpTo
  BY ReadUpToBounds DEF LoopInv, Deliver
<1>3. /\ last' = ReadUpTo /\ since' = since /\ group = "live" /\ group' = "live"
      /\ pel' = [pel EXCEPT ![c] = @ \cup (last + 1)..ReadUpTo]
  BY DEF Deliver
<1>4. \A i \in (last + 1)..ReadUpTo : i \notin acked /\ i \notin Pending
  <2>1. \A i \in acked : i \in 1..last
    BY AckedBelowLast
  <2>2. \A i \in Pending : i \in (since + 1)..last
    BY <1>3 DEF PelInv, PendingUntilAcked
  <2> QED
    BY <1>1, <2>1, <2>2
<1>5. \A d \in Consumers :
         pel'[d] = IF d = c THEN pel[c] \cup (last + 1)..ReadUpTo ELSE pel[d]
  BY <1>3 DEF LoopInv, TypeOK
<1>6. Pending' = Pending \cup (last + 1)..ReadUpTo
  BY <1>5 DEF Pending
<1>7. (since + 1)..ReadUpTo = ((since + 1)..last) \cup ((last + 1)..ReadUpTo)
  BY <1>1, <1>2
<1>8. Pending' = ((since' + 1)..last') \ acked'
  BY <1>3, <1>4, <1>6, <1>7 DEF PelInv, PendingUntilAcked
<1>9. \A b, d \in Consumers : b # d => pel'[b] \cap pel'[d] = {}
  <2> SUFFICES ASSUME NEW b \in Consumers, NEW d \in Consumers, b # d, NEW i,
                      i \in pel'[b], i \in pel'[d]
               PROVE  FALSE
    OBVIOUS
  <2>1. \A e \in Consumers : pel[e] \subseteq Pending
    BY DEF Pending
  <2>2. i \in pel[b] \/ i \in pel[d]
    BY <1>5
  <2>3. i \notin (last + 1)..ReadUpTo
    BY <1>4, <2>1, <2>2
  <2>4. i \in pel[b] /\ i \in pel[d]
    BY <1>5, <2>3
  <2> QED
    BY <2>4, <1>3 DEF PelInv, PendingUntilAcked
<1> QED
  BY <1>3, <1>8, <1>9 DEF PelInv, PendingUntilAcked

(* Acknowledging an entry takes it out of whichever list it is in.         *)
LEMMA PelAcknowledge ==
    ASSUME LoopInv, PelInv, NEW id, Acknowledge(id), UNCHANGED <<group, last, since>>
    PROVE  PelInv'
<1>1. \A d \in Consumers : pel'[d] = pel[d] \ {id}
  BY DEF Acknowledge
<1>2. Pending' = Pending \ {id} /\ acked' = acked \cup {id}
  BY <1>1 DEF Pending, Acknowledge
<1>3. \A b, d \in Consumers : pel[b] \cap pel[d] = {} => pel'[b] \cap pel'[d] = {}
  BY <1>1
<1> QED
  BY <1>2, <1>3 DEF PelInv, PendingUntilAcked

LEMMA PelStep == LoopInv /\ OrderInv /\ AckInv /\ PelInv /\ [Next]_vars => PelInv'
<1> SUFFICES ASSUME LoopInv, OrderInv, AckInv, PelInv, [Next]_vars PROVE PelInv'
  OBVIOUS
<1>1. ASSUME UNCHANGED <<server, acked>> PROVE PelInv'
  BY <1>1 DEF server, PelInv, PendingUntilAcked, Pending
<1>2. ASSUME NEW kind \in Kinds, Publish(kind) PROVE PelInv'
  BY <1>1, <1>2 DEF Publish
<1>3. ASSUME NEW c \in Consumers, EnsureGroup(c) PROVE PelInv'
  <2>1. CASE group = "live"
    BY <1>3, <2>1 DEF EnsureGroup, PelInv, PendingUntilAcked, Pending
  <2>2. CASE group # "live"
    <3>1. Pending' = {} /\ last' \in Nat /\ since' = last'
      BY <1>3, <2>2 DEF EnsureGroup, PelInv, Pending, LoopInv, TypeOK
    <3>2. (since' + 1)..last' = {}
      <4>1. \A n \in Nat : (n + 1)..n = {}
        OBVIOUS
      <4> QED
        BY <3>1, <4>1
    <3>3. \A b, d \in Consumers : b # d => pel'[b] \cap pel'[d] = {}
      BY <3>1 DEF Pending
    <3> QED
      BY <3>1, <3>2, <3>3 DEF PelInv, PendingUntilAcked
  <2> QED
    BY <2>1, <2>2
<1>4. ASSUME NEW c \in Consumers, Reclaim(c) PROVE PelInv'
  <2>1. PICK idle \in SUBSET Pending :
           pel' = [d \in Consumers |-> IF d = c THEN pel[d] \cup idle ELSE pel[d] \ idle]
    BY <1>4 DEF Reclaim
  <2>2. Pending' = Pending
    BY <2>1 DEF Pending
  <2>3. \A b, d \in Consumers : b # d /\ pel[b] \cap pel[d] = {} => pel'[b] \cap pel'[d] = {}
    BY <2>1
  <2>4. UNCHANGED <<group, last, since, acked>>
    BY <1>4 DEF Reclaim
  <2> QED
    BY <2>2, <2>3, <2>4 DEF PelInv, PendingUntilAcked
<1>5. ASSUME NEW c \in Consumers, XReadGroup(c) PROVE PelInv'
  BY <1>5, PelDeliver DEF XReadGroup
<1>6. ASSUME NEW c \in Consumers, XReadGroupFails(c) PROVE PelInv'
  BY <1>1, <1>6, PelDeliver DEF XReadGroupFails
<1>7. ASSUME NEW c \in Consumers, Ack(c) PROVE PelInv'
  BY <1>7, PelAcknowledge DEF Ack
<1>8. ASSUME NEW c \in Consumers, AckFails(c) PROVE PelInv'
  <2>1. CASE Acknowledge(cur[c])
    BY <1>8, <2>1, PelAcknowledge DEF AckFails
  <2>2. CASE UNCHANGED <<pel, acked>>
    BY <1>8, <2>2, <1>1 DEF AckFails, server
  <2> QED
    BY <1>8, <2>1, <2>2 DEF AckFails
<1>9. ASSUME NEW c \in Consumers,
             XReadGroupIdle(c) \/ Backoff(c) \/ Leave(c) \/ \E ok \in BOOLEAN : Dispatch(c, ok)
      PROVE  PelInv'
  BY <1>1, <1>9 DEF XReadGroupIdle, Backoff, Leave, Dispatch, DispatchEnds, vars
<1>10. ASSUME RedisRestart PROVE PelInv'
  <2>1. Pending' = {} /\ group' # "live"
    BY <1>10 DEF RedisRestart, Pending
  <2> QED
    BY <2>1 DEF PelInv, PendingUntilAcked
<1>11. ASSUME UNCHANGED vars PROVE PelInv'
  BY <1>1, <1>11 DEF vars
<1> QED
  BY <1>2, <1>3, <1>4, <1>5, <1>6, <1>7, <1>8, <1>9, <1>10, <1>11 DEF Next, Stop, Crash

-----------------------------------------------------------------------------
LEMMA Inductive == Spec => [](LoopInv /\ OrderInv /\ AckInv /\ PelInv)
<1> DEFINE Inv == LoopInv /\ OrderInv /\ AckInv /\ PelInv
<1>1. Init => Inv
  BY LoopInit, OrderInit, AckInit, PelInit
<1>2. Inv /\ [Next]_vars => Inv'
  BY LoopStep, OrderStep, AckStep, PelStep
<1> QED
  BY <1>1, <1>2, PTL DEF Spec

(* Each process dispatches its entries in stream order and none twice,     *)
(* across exceptions, failed acks, stops and crashes (consumer.py _run).   *)
THEOREM InOrder == Spec => []DispatchInOrder
<1>1. OrderInv => DispatchInOrder
  BY DEF OrderInv
<1> QED
  BY Inductive, <1>1, PTL

(* No entry is dispatched by two API processes, whatever XAUTOCLAIM moves. *)
THEOREM ExactlyOneInstance == Spec => []DispatchedOnce
<1>1. OrderInv => DispatchedOnce
  BY DEF OrderInv
<1> QED
  BY Inductive, <1>1, PTL

(* XACK is only ever sent for an entry whose handler returned.             *)
THEOREM AckAfterHandling == Spec => []AckedWasHandled
<1>1. AckInv => AckedWasHandled
  BY DEF AckInv
<1> QED
  BY Inductive, <1>1, PTL

(* As long as the group lives, Redis lists as pending exactly the entries  *)
(* handed out and not acknowledged, each for one process.                  *)
THEOREM PendingExact == Spec => []PendingUntilAcked
<1>1. PelInv => PendingUntilAcked
  BY DEF PelInv
<1> QED
  BY Inductive, <1>1, PTL

-----------------------------------------------------------------------------
(* The refinement of EventDelivery.  Besides the invariants above it needs *)
(* the bound of the stream.                                                *)
BoundInv == Len(stream) <= MaxEvents

LEMMA BoundStep == LoopInv /\ BoundInv /\ [Next]_vars => BoundInv'
<1> SUFFICES ASSUME LoopInv, BoundInv, [Next]_vars PROVE BoundInv'
  OBVIOUS
<1>1. ASSUME NEW kind \in Kinds, Publish(kind) PROVE BoundInv'
  BY <1>1, BoundAssumption DEF Publish, BoundInv, LoopInv, TypeOK
<1>2. stream' = stream \/ \E kind \in Kinds : Publish(kind)
  BY DEF Next, EnsureGroup, Reclaim, XReadGroup, XReadGroupIdle, XReadGroupFails, Backoff,
         Dispatch, DispatchEnds, Ack, AckFails, Stop, Crash, Leave, RedisRestart, vars
<1> QED
  BY <1>1, <1>2 DEF BoundInv

PipelineInv == LoopInv /\ OrderInv /\ AckInv /\ BoundInv

Held(i) == \E c \in Consumers : i \in InBatch(c)

(* What the invariants say of an entry that was handed out: it is at most  *)
(* one of returned, raised and held, and an acknowledged entry returned.   *)
LEMMA Exclusive ==
    ASSUME PipelineInv, NEW i
    PROVE  /\ ~(Returned(i) /\ Raised(i))
           /\ Held(i) => ~Returned(i) /\ ~Raised(i)
           /\ Returned(i) \/ Raised(i) \/ Held(i) => i \in 1..last
           /\ i \in acked => Returned(i)
<1>1. ASSUME Returned(i), Raised(i) PROVE FALSE
  <2>1. PICK c \in Consumers : \E k \in DOMAIN log[c] : log[c][k] = [id |-> i, ok |-> TRUE]
    BY <1>1 DEF Returned
  <2>2. PICK k \in DOMAIN log[c] : log[c][k] = [id |-> i, ok |-> TRUE]
    BY <2>1
  <2>3. PICK d \in Consumers : \E m \in DOMAIN log[d] : log[d][m] = [id |-> i, ok |-> FALSE]
    BY <1>1 DEF Raised
  <2>4. PICK m \in DOMAIN log[d] : log[d][m] = [id |-> i, ok |-> FALSE]
    BY <2>3
  <2>5. log[c][k].id = i /\ log[d][m].id = i /\ log[c][k].ok # log[d][m].ok
    BY <2>2, <2>4
  <2>6. c = d
    BY <2>5 DEF PipelineInv, OrderInv, DispatchedOnce
  <2>7. log[c] \in Seq(Dispatches)
    BY DEF PipelineInv, LoopInv, TypeOK
  <2>8. k \in Nat /\ m \in Nat /\ k # m
    BY <2>5, <2>6, <2>7
  <2>9. k < m \/ m < k
    BY <2>8
  <2>10. i \in 1..last
    BY <2>5 DEF PipelineInv, OrderInv
  <2> QED
    BY <2>5, <2>6, <2>9, <2>10 DEF PipelineInv, OrderInv, DispatchInOrder
<1>2. ASSUME NEW c \in Consumers, NEW k \in DOMAIN log[c], log[c][k].id = i
      PROVE  ~Held(i) /\ i \in 1..last
  <2>1. i \in 1..last
    BY <1>2 DEF PipelineInv, OrderInv
  <2>2. \A d \in Consumers : \A m \in DOMAIN batch[d] : batch[d][m] # i
    BY <1>2, <2>1 DEF PipelineInv, OrderInv
  <2> QED
    BY <2>1, <2>2 DEF Held, InBatch
<1>3. Returned(i) \/ Raised(i) => ~Held(i) /\ i \in 1..last
  <2>1. Returned(i) \/ Raised(i) =>
           \E c \in Consumers : \E k \in DOMAIN log[c] : log[c][k].id = i
    BY DEF Returned, Raised
  <2> QED
    BY <1>2, <2>1
<1>4. Held(i) => i \in 1..last
  BY DEF Held, InBatch, PipelineInv, OrderInv
<1> QED
  BY <1>1, <1>3, <1>4 DEF PipelineInv, AckInv, AckedWasHandled

(* Fate, one value at a time.                                              *)
FateFacts ==
    \A i \in 1..MaxEvents :
        /\ Fate(i) = "absent" <=> Len(stream) < i
        /\ Fate(i) = "queued" <=> last < i /\ i <= Len(stream)
        /\ Fate(i) = "acknowledged" <=> i \in acked
        /\ Fate(i) = "handled" <=> Returned(i) /\ i \notin acked
        /\ Fate(i) = "rejected" <=> Raised(i)
        /\ Fate(i) = "held" <=> Held(i)
        /\ Fate(i) = "stranded" <=> i <= last /\ ~Returned(i) /\ ~Raised(i) /\ ~Held(i)
        /\ Fate(i) \in {"absent", "queued", "held", "handled", "rejected",
                        "acknowledged", "stranded"}

LEMMA FateIs == PipelineInv => FateFacts
<1> SUFFICES ASSUME PipelineInv PROVE FateFacts
  OBVIOUS
<1>1. last \in Nat /\ Len(stream) \in Nat /\ last <= Len(stream)
  BY DEF PipelineInv, LoopInv, TypeOK
<1> SUFFICES ASSUME NEW i \in 1..MaxEvents
             PROVE  /\ Fate(i) = "absent" <=> Len(stream) < i
                    /\ Fate(i) = "queued" <=> last < i /\ i <= Len(stream)
                    /\ Fate(i) = "acknowledged" <=> i \in acked
                    /\ Fate(i) = "handled" <=> Returned(i) /\ i \notin acked
                    /\ Fate(i) = "rejected" <=> Raised(i)
                    /\ Fate(i) = "held" <=> Held(i)
                    /\ Fate(i) = "stranded" <=>
                          i <= last /\ ~Returned(i) /\ ~Raised(i) /\ ~Held(i)
                    /\ Fate(i) \in {"absent", "queued", "held", "handled", "rejected",
                                    "acknowledged", "stranded"}
  BY DEF FateFacts
<1>2. /\ ~(Returned(i) /\ Raised(i))
      /\ Held(i) => ~Returned(i) /\ ~Raised(i)
      /\ Returned(i) \/ Raised(i) \/ Held(i) => i \in 1..last
      /\ i \in acked => Returned(i)
  BY Exclusive
<1>4. i \in Nat
  BY BoundAssumption
<1> QED
  BY <1>1, <1>2, <1>4 DEF Fate, Held

(* Each step of the program is a step of EventDelivery, or none, in the    *)
(* fates of the entries.                                                   *)
bar == [i \in 1..MaxEvents |-> Fate(i)]

DeliveryNext == Delivery!Next \/ UNCHANGED bar

LEMMA Stutters ==
    ASSUME \A i \in 1..MaxEvents : Fate(i)' = Fate(i)
    PROVE  DeliveryNext
<1>1. bar' = bar
  BY DEF bar
<1> QED
  BY <1>1 DEF DeliveryNext

LEMMA Publishes ==
    ASSUME NEW n \in 1..MaxEvents, Fate(n) = "absent",
           \A j \in 1..MaxEvents : j < n => Fate(j) # "absent",
           \A i \in 1..MaxEvents : Fate(i)' = IF i = n THEN "queued" ELSE Fate(i)
    PROVE  DeliveryNext
<1>1. Delivery!Publish(n)
  BY DEF Delivery!Publish, Delivery!Becomes
<1> QED
  BY <1>1 DEF DeliveryNext, Delivery!Next

LEMMA HandsOut ==
    ASSUME NEW S \in SUBSET (1..MaxEvents), NEW f \in {"held", "stranded"},
           S # {}, \A i \in S : Fate(i) = "queued",
           \A i \in S, j \in (1..MaxEvents) \ S : Fate(j) = "queued" => i < j,
           \A i \in 1..MaxEvents : Fate(i)' = IF i \in S THEN f ELSE Fate(i)
    PROVE  DeliveryNext
<1>1. Delivery!HandOut(S, f)
  BY DEF Delivery!HandOut, Delivery!Becomes, Delivery!With
<1> QED
  BY <1>1 DEF DeliveryNext, Delivery!Next

LEMMA Finishes ==
    ASSUME NEW n \in 1..MaxEvents, NEW f \in {"handled", "rejected"}, Fate(n) = "held",
           \A i \in 1..MaxEvents : Fate(i)' = IF i = n THEN f ELSE Fate(i)
    PROVE  DeliveryNext
<1>1. Delivery!Finish(n, f)
  BY DEF Delivery!Finish, Delivery!Becomes
<1> QED
  BY <1>1 DEF DeliveryNext, Delivery!Next

LEMMA Abandons ==
    ASSUME NEW S \in SUBSET (1..MaxEvents), \A i \in S : Fate(i) = "held",
           \A i \in 1..MaxEvents : Fate(i)' = IF i \in S THEN "stranded" ELSE Fate(i)
    PROVE  DeliveryNext
<1>1. CASE S = {}
  BY <1>1, Stutters
<1>2. CASE S # {}
  <2>1. Delivery!Abandon(S)
    BY <1>2 DEF Delivery!Abandon, Delivery!Becomes, Delivery!With
  <2> QED
    BY <2>1 DEF DeliveryNext, Delivery!Next
<1> QED
  BY <1>1, <1>2

LEMMA Acknowledges ==
    ASSUME NEW n \in 1..MaxEvents, Fate(n) = "handled",
           NEW S \in SUBSET (1..MaxEvents), \A i \in S : Fate(i) = "held",
           \A i \in 1..MaxEvents :
              Fate(i)' = IF i = n THEN "acknowledged"
                         ELSE IF i \in S THEN "stranded" ELSE Fate(i)
    PROVE  DeliveryNext
<1>1. Delivery!Acknowledge(n, S)
  BY DEF Delivery!Acknowledge, Delivery!Becomes, Delivery!With
<1> QED
  BY <1>1 DEF DeliveryNext, Delivery!Next

(* What a step that leaves the logs, or the replies, alone leaves alone.   *)
LEMMA LogKept ==
    ASSUME log' = log
    PROVE  \A i : (Returned(i)' <=> Returned(i)) /\ (Raised(i)' <=> Raised(i))
BY DEF Returned, Raised

LEMMA RepliesKept ==
    ASSUME batch' = batch
    PROVE  \A i : Held(i)' <=> Held(i)
BY DEF Held, InBatch

LEMMA ReplyDropped ==
    ASSUME PipelineInv, NEW c \in Consumers, batch' = [batch EXCEPT ![c] = <<>>]
    PROVE  \A i : Held(i)' <=> Held(i) /\ i \notin InBatch(c)
<1>1. \A d \in Consumers : InBatch(d)' = IF d = c THEN {} ELSE InBatch(d)
  BY DEF InBatch, PipelineInv, LoopInv, TypeOK
<1>2. \A d \in Consumers \ {c} : \A i \in InBatch(d) : i \notin InBatch(c)
  BY DEF InBatch, PipelineInv, OrderInv
<1> QED
  BY <1>1, <1>2 DEF Held

LEMMA Bounds ==
    ASSUME PipelineInv
    PROVE  last \in Nat /\ Len(stream) \in Nat /\ last <= Len(stream)
           /\ Len(stream) <= MaxEvents /\ MaxEvents \in Nat
BY BoundAssumption DEF PipelineInv, LoopInv, TypeOK, BoundInv

LEMMA RefinePublish ==
    ASSUME PipelineInv, PipelineInv', FateFacts, FateFacts', NEW kind \in Kinds, Publish(kind)
    PROVE  DeliveryNext
<1> DEFINE n == Len(stream) + 1
<1>1. /\ last \in Nat /\ Len(stream) \in Nat /\ last <= Len(stream) /\ Len(stream) < MaxEvents
      /\ MaxEvents \in Nat
  BY Bounds DEF Publish
<1>2. Len(stream') = n /\ last' = last /\ acked' = acked /\ log' = log /\ batch' = batch
  BY DEF Publish, server, process, PipelineInv, LoopInv, TypeOK
<1>3. n \in 1..MaxEvents
  BY <1>1
<1>4. Fate(n) = "absent" /\ \A j \in 1..MaxEvents : j < n => Fate(j) # "absent"
  BY <1>1, <1>3 DEF FateFacts
<1>5. ASSUME NEW i \in 1..MaxEvents PROVE Fate(i)' = IF i = n THEN "queued" ELSE Fate(i)
  <2>1. (Returned(i)' <=> Returned(i)) /\ (Raised(i)' <=> Raised(i)) /\ (Held(i)' <=> Held(i))
    BY <1>2, LogKept, RepliesKept
  <2> QED
    BY <1>1, <1>2, <2>1 DEF FateFacts
<1> HIDE DEF n
<1> QED
  BY <1>3, <1>4, <1>5, Publishes

(* The cursor moves on to `to`: the entries it passes go to the reply of   *)
(* process c, or are stranded.                                             *)
LEMMA RefineHandOut ==
    ASSUME PipelineInv, PipelineInv', FateFacts, FateFacts', NEW f \in {"held", "stranded"},
           log' = log, acked' = acked, stream' = stream, last <= last',
           \A i : Held(i)' <=> Held(i) \/ (f = "held" /\ i \in (last + 1)..last')
    PROVE  DeliveryNext
<1> DEFINE S == (last + 1)..last'
<1>1. /\ last \in Nat /\ Len(stream) \in Nat /\ last <= Len(stream) /\ Len(stream) <= MaxEvents
      /\ MaxEvents \in Nat /\ last' \in Nat /\ last' <= Len(stream)
  <2>1. last' \in Nat /\ last' <= Len(stream')
    BY DEF PipelineInv, LoopInv, TypeOK
  <2> QED
    BY <2>1, Bounds
<1>2. S \in SUBSET (1..MaxEvents)
  BY <1>1
<1>3. /\ \A i \in S : Fate(i) = "queued"
      /\ \A i \in S, j \in (1..MaxEvents) \ S : Fate(j) = "queued" => i < j
  BY <1>1 DEF FateFacts
<1>4. ASSUME NEW i \in 1..MaxEvents PROVE Fate(i)' = IF i \in S THEN f ELSE Fate(i)
  <2>1. (Returned(i)' <=> Returned(i)) /\ (Raised(i)' <=> Raised(i))
    BY LogKept
  <2>2. i \in S => ~Returned(i) /\ ~Raised(i) /\ ~Held(i) /\ i \notin acked
    BY <1>1, Exclusive
  <2> QED
    BY <1>1, <2>1, <2>2 DEF FateFacts
<1> HIDE DEF S
<1>5. CASE S = {}
  BY <1>4, <1>5, Stutters
<1>6. CASE S # {}
  BY <1>2, <1>3, <1>4, <1>6, HandsOut
<1> QED
  BY <1>5, <1>6

LEMMA RefineRead ==
    ASSUME PipelineInv, PipelineInv', FateFacts, FateFacts',
           NEW c \in Consumers, XReadGroup(c)
    PROVE  DeliveryNext
<1> DEFINE reply == Ids(last + 1, ReadUpTo)
<1>1. last \in Nat /\ last + 1 \in Nat
  BY Bounds
<1>2. ReadUpTo \in Nat /\ last + 1 <= ReadUpTo /\ last' = ReadUpTo
  BY ReadUpToBounds DEF XReadGroup, Deliver, PipelineInv, LoopInv
<1>3. \A i : (\E k \in DOMAIN reply : reply[k] = i) <=> i \in (last + 1)..ReadUpTo
  <2>1. /\ DOMAIN reply = 1..(ReadUpTo - (last + 1) + 1)
        /\ \A k \in DOMAIN reply : reply[k] = (last + 1) + k - 1
        /\ \A k \in DOMAIN reply : reply[k] \in (last + 1)..ReadUpTo
    BY <1>1, <1>2, IdsProperties
  <2>2. ASSUME NEW i \in (last + 1)..ReadUpTo PROVE \E k \in DOMAIN reply : reply[k] = i
    <3>1. i - last \in DOMAIN reply /\ reply[i - last] = i
      BY <1>1, <1>2, <2>1
    <3> QED
      BY <3>1
  <2> QED
    BY <2>1, <2>2
<1>4. /\ batch[c] = <<>>
      /\ batch'[c] = reply /\ \A d \in Consumers \ {c} : batch'[d] = batch[d]
  BY DEF XReadGroup, PipelineInv, LoopInv, TypeOK
<1> HIDE DEF reply
<1>5. \A d \in Consumers : \A i :
         i \in InBatch(d)' <=> i \in InBatch(d) \/ (d = c /\ i \in (last + 1)..last')
  <2>1. \A i : i \in InBatch(c)' <=> i \in (last + 1)..last'
    BY <1>2, <1>3, <1>4 DEF InBatch
  <2>2. InBatch(c) = {} /\ \A d \in Consumers \ {c} : InBatch(d)' = InBatch(d)
    BY <1>4 DEF InBatch
  <2> QED
    BY <2>1, <2>2
<1>6. \A i : Held(i)' <=> Held(i) \/ i \in (last + 1)..last'
  BY <1>5 DEF Held
<1> QED
  BY <1>1, <1>2, <1>6, RefineHandOut DEF XReadGroup

(* A reply lost on the way, or the group created anew at "$".              *)
LEMMA RefineSkip ==
    ASSUME PipelineInv, PipelineInv', FateFacts, FateFacts',
           log' = log, acked' = acked, stream' = stream, batch' = batch, last <= last'
    PROVE  DeliveryNext
BY RepliesKept, RefineHandOut

LEMMA RefineDrop ==
    ASSUME PipelineInv, PipelineInv', FateFacts, FateFacts', NEW c \in Consumers,
           batch' = [batch EXCEPT ![c] = <<>>],
           log' = log, acked' = acked, stream' = stream, last' = last
    PROVE  DeliveryNext
<1> DEFINE S == {i \in 1..MaxEvents : i \in InBatch(c)}
<1>1. \A i \in S : Fate(i) = "held"
  BY DEF FateFacts, Held
<1>2. ASSUME NEW i \in 1..MaxEvents PROVE Fate(i)' = IF i \in S THEN "stranded" ELSE Fate(i)
  <2>1. (Returned(i)' <=> Returned(i)) /\ (Raised(i)' <=> Raised(i))
    BY LogKept
  <2>2. Held(i)' <=> Held(i) /\ i \notin InBatch(c)
    BY ReplyDropped
  <2>3. i \in S => i <= last /\ ~Returned(i) /\ ~Raised(i)
    BY Bounds, Exclusive DEF Held
  <2> QED
    BY <2>1, <2>2, <2>3, Bounds DEF FateFacts, Held
<1> HIDE DEF S
<1>3. S \in SUBSET (1..MaxEvents)
  BY DEF S
<1> QED
  BY <1>1, <1>2, <1>3, Abandons

(* XACK of a handled entry; S is what a failed call makes of the reply.    *)
LEMMA RefineAck ==
    ASSUME PipelineInv, PipelineInv', FateFacts, FateFacts', NEW c \in Consumers,
           pc[c] = "acking", acked' = acked \cup {cur[c]},
           batch' = batch \/ batch' = [batch EXCEPT ![c] = <<>>],
           log' = log, stream' = stream, last' = last
    PROVE  DeliveryNext
<1> DEFINE S == {i \in 1..MaxEvents : i \in InBatch(c) /\ batch' # batch}
           n == cur[c]
<1>1. Returned(n) /\ n \in 1..MaxEvents /\ n <= last
  <2>1. Returned(n)
    BY DEF PipelineInv, AckInv
  <2>2. n \in 1..last
    BY <2>1, Exclusive
  <2> QED
    BY <2>1, <2>2, Bounds
<1>2. \A i \in S : Fate(i) = "held"
  BY DEF FateFacts, Held
<1>3. ASSUME NEW i \in 1..MaxEvents
      PROVE  Fate(i)' = IF i = n THEN "acknowledged"
                        ELSE IF i \in S THEN "stranded" ELSE Fate(i)
  <2>1. (Returned(i)' <=> Returned(i)) /\ (Raised(i)' <=> Raised(i))
    BY LogKept
  <2>2. Held(i)' <=> Held(i) /\ i \notin S
    BY ReplyDropped, RepliesKept
  <2>3. i \in S => i <= last /\ ~Returned(i) /\ ~Raised(i) /\ i \notin acked
    BY Bounds, Exclusive DEF Held
  <2> HIDE DEF S, n
  <2>4. CASE i = n
    BY <2>4, Bounds DEF FateFacts, n
  <2>5. CASE i # n
    <3>1. i \in acked' <=> i \in acked
      BY <2>5 DEF n
    <3> QED
      BY <2>1, <2>2, <2>3, <2>5, <3>1, Bounds DEF FateFacts, Held
  <2> QED
    BY <2>4, <2>5
<1>4. S \in SUBSET (1..MaxEvents)
  OBVIOUS
<1> HIDE DEF S, n
<1>5. CASE n \in acked
  <2>1. \A i \in 1..MaxEvents : Fate(i)' = IF i \in S THEN "stranded" ELSE Fate(i)
    BY <1>1, <1>2, <1>3, <1>5 DEF FateFacts
  <2> QED
    BY <1>2, <1>4, <2>1, Abandons
<1>6. CASE n \notin acked
  <2>1. Fate(n) = "handled"
    BY <1>1, <1>6 DEF FateFacts
  <2> QED
    BY <1>1, <1>2, <1>3, <1>4, <2>1, Acknowledges
<1> QED
  BY <1>5, <1>6

(* The outcome of the entry at the head of the reply, and of no other.     *)
LEMMA RefineDispatch ==
    ASSUME PipelineInv, PipelineInv', FateFacts, FateFacts',
           NEW c \in Consumers, NEW ok \in BOOLEAN, Dispatch(c, ok)
    PROVE  DeliveryNext
<1> DEFINE n == Head(batch[c])
           e == [id |-> n, ok |-> ok]
           f == IF ok THEN "handled" ELSE "rejected"
<1>1. batch[c] \in Seq(Nat) /\ batch[c] # <<>> /\ log[c] \in Seq(Dispatches)
  BY DEF PipelineInv, LoopInv, TypeOK, Dispatch, DispatchEnds
<1>2. 1 \in DOMAIN batch[c] /\ n = batch[c][1] /\ n \in Nat
  BY <1>1, SeqTail
<1>3. e \in Dispatches
  BY <1>2 DEF Dispatches
<1>4. /\ batch'[c] = Tail(batch[c]) /\ \A d \in Consumers \ {c} : batch'[d] = batch[d]
      /\ log'[c] = Append(log[c], e) /\ \A d \in Consumers \ {c} : log'[d] = log[d]
      /\ last' = last /\ acked' = acked /\ stream' = stream
  BY DEF Dispatch, DispatchEnds, server, PipelineInv, LoopInv, TypeOK
<1>5. n \in InBatch(c) /\ Held(n) /\ n \in 1..MaxEvents /\ n <= last
  <2>1. n \in InBatch(c) /\ n \in 1..last
    BY <1>2 DEF InBatch, PipelineInv, OrderInv
  <2> QED
    BY <2>1, Bounds DEF Held
<1>6. \A i : i \in InBatch(c)' <=> i \in InBatch(c) /\ i # n
  <2>1. \A k \in DOMAIN batch[c] : k = 1 \/ (k - 1 \in DOMAIN Tail(batch[c])
                                             /\ Tail(batch[c])[k - 1] = batch[c][k])
    BY <1>1
  <2>2. \A k \in DOMAIN Tail(batch[c]) :
           k + 1 \in DOMAIN batch[c] /\ Tail(batch[c])[k] = batch[c][k + 1] /\ 1 < k + 1
    BY <1>1, SeqTail
  <2>3. \A k \in DOMAIN batch[c] : 1 < k => batch[c][k] # n
    <3>1. \A k \in DOMAIN batch[c] : 1 < k => n < batch[c][k]
      BY <1>2 DEF PipelineInv, OrderInv
    <3> QED
      BY <1>2, <3>1
  <2>4. ASSUME NEW i, i \in InBatch(c)' PROVE i \in InBatch(c) /\ i # n
    <3>1. PICK k \in DOMAIN Tail(batch[c]) : Tail(batch[c])[k] = i
      BY <1>4, <2>4 DEF InBatch
    <3> QED
      BY <3>1, <2>2, <2>3 DEF InBatch
  <2>5. ASSUME NEW i, i \in InBatch(c), i # n PROVE i \in InBatch(c)'
    <3>1. PICK k \in DOMAIN batch[c] : batch[c][k] = i
      BY <2>5 DEF InBatch
    <3>2. k - 1 \in DOMAIN Tail(batch[c]) /\ Tail(batch[c])[k - 1] = i
      BY <1>2, <2>1, <2>5, <3>1
    <3> QED
      BY <1>4, <3>2 DEF InBatch
  <2> QED
    BY <2>4, <2>5
<1>7. \A i : Held(i)' <=> Held(i) /\ i # n
  <2>1. \A d \in Consumers \ {c} : n \notin InBatch(d) /\ InBatch(d)' = InBatch(d)
    BY <1>2, <1>4 DEF InBatch, PipelineInv, OrderInv
  <2> QED
    BY <1>6, <2>1 DEF Held
<1>8. /\ DOMAIN log'[c] = DOMAIN log[c] \cup {Len(log[c]) + 1}
      /\ log'[c][Len(log[c]) + 1] = e
      /\ \A j \in DOMAIN log[c] : log'[c][j] = log[c][j]
  BY <1>1, <1>3, <1>4, SeqAppend
<1>9. \A i, b : (\E d \in Consumers : \E k \in DOMAIN log'[d] : log'[d][k] = [id |-> i, ok |-> b])
                <=> \/ \E d \in Consumers : \E k \in DOMAIN log[d] : log[d][k] = [id |-> i, ok |-> b]
                    \/ i = n /\ b = ok
  <2>1. \A i, b : e = [id |-> i, ok |-> b] <=> i = n /\ b = ok
    OBVIOUS
  <2> HIDE DEF e, n
  <2>2. \A i, b : (\E k \in DOMAIN log'[c] : log'[c][k] = [id |-> i, ok |-> b])
                  <=> \/ \E k \in DOMAIN log[c] : log[c][k] = [id |-> i, ok |-> b]
                      \/ i = n /\ b = ok
    BY <1>8, <2>1
  <2> QED
    BY <1>4, <2>2
<1>10. ASSUME NEW i
       PROVE  /\ Returned(i)' <=> Returned(i) \/ (i = n /\ ok)
              /\ Raised(i)' <=> Raised(i) \/ (i = n /\ ~ok)
  <2> HIDE DEF n
  <2>1. Returned(i)' <=> Returned(i) \/ (i = n /\ TRUE = ok)
    BY <1>9, Zenon DEF Returned
  <2>2. Raised(i)' <=> Raised(i) \/ (i = n /\ FALSE = ok)
    BY <1>9, Zenon DEF Raised
  <2> QED
    BY <2>1, <2>2
<1> HIDE DEF n, e
<1>11. ASSUME NEW i \in 1..MaxEvents PROVE Fate(i)' = IF i = n THEN f ELSE Fate(i)
  <2>1. CASE i = n
    <3>1. ~Returned(i) /\ ~Raised(i) /\ i \notin acked
      BY <2>1, <1>5, Exclusive
    <3> QED
      BY <2>1, <1>4, <1>10, <3>1 DEF FateFacts
  <2>2. CASE i # n
    <3>1. /\ Returned(i)' <=> Returned(i)
          /\ Raised(i)' <=> Raised(i)
          /\ Held(i)' <=> Held(i)
      BY <2>2, <1>7, <1>10
    <3> QED
      BY <2>2, <3>1, <1>4, Bounds DEF FateFacts
  <2> QED
    BY <2>1, <2>2
<1>12. Fate(n) = "held" /\ f \in {"handled", "rejected"}
  BY <1>5 DEF FateFacts
<1> HIDE DEF f
<1> QED
  BY <1>5, <1>11, <1>12, Finishes

LEMMA RefineStep ==
    PipelineInv /\ PipelineInv' /\ [Next]_vars => DeliveryNext
<1> SUFFICES ASSUME PipelineInv, PipelineInv', [Next]_vars PROVE DeliveryNext
  OBVIOUS
<1>1. FateFacts
  BY FateIs
<1>2. FateFacts'
  <2>1. PipelineInv' => FateFacts'
    BY FateIs, PTL
  <2> QED
    BY <2>1
<1>3. last \in Nat /\ Len(stream) \in Nat /\ last <= Len(stream)
  BY Bounds
<1>4. ASSUME UNCHANGED <<log, acked, stream, batch, last>> PROVE DeliveryNext
  BY <1>1, <1>2, <1>3, <1>4, RefineSkip
<1>5. ASSUME NEW kind \in Kinds, Publish(kind) PROVE DeliveryNext
  BY <1>1, <1>2, <1>5, RefinePublish
<1>6. ASSUME NEW c \in Consumers, EnsureGroup(c) PROVE DeliveryNext
  <2>1. UNCHANGED <<log, acked, stream, batch>> /\ last <= last'
    BY <1>3, <1>6 DEF EnsureGroup
  <2> QED
    BY <1>1, <1>2, <2>1, RefineSkip
<1>7. ASSUME NEW c \in Consumers, XReadGroupFails(c) PROVE DeliveryNext
  <2>1. Deliver(c) => last <= last'
    BY <1>3, ReadUpToBounds DEF Deliver, PipelineInv, LoopInv
  <2>2. UNCHANGED <<log, acked, stream, batch>> /\ last <= last'
    BY <1>3, <1>7, <2>1 DEF XReadGroupFails, server
  <2> QED
    BY <1>1, <1>2, <2>2, RefineSkip
<1>8. ASSUME NEW c \in Consumers, XReadGroup(c) \/ \E ok \in BOOLEAN : Dispatch(c, ok)
      PROVE  DeliveryNext
  BY <1>1, <1>2, <1>8, RefineRead, RefineDispatch
<1>9. ASSUME NEW c \in Consumers, Ack(c) PROVE DeliveryNext
  BY <1>1, <1>2, <1>9, RefineAck DEF Ack, Acknowledge
<1>10. ASSUME NEW c \in Consumers, AckFails(c) PROVE DeliveryNext
  <2>1. CASE Acknowledge(cur[c])
    BY <1>1, <1>2, <1>10, <2>1, RefineAck DEF AckFails, Acknowledge
  <2>2. CASE UNCHANGED <<pel, acked>>
    BY <1>1, <1>2, <1>10, <2>2, RefineDrop DEF AckFails
  <2> QED
    BY <1>10, <2>1, <2>2 DEF AckFails
<1>11. ASSUME NEW c \in Consumers, Leave(c) PROVE DeliveryNext
  BY <1>1, <1>2, <1>11, RefineDrop DEF Leave, server
<1>12. ASSUME NEW c \in Consumers, Reclaim(c) \/ XReadGroupIdle(c) \/ Backoff(c)
       PROVE  DeliveryNext
  BY <1>4, <1>12 DEF Reclaim, XReadGroupIdle, Backoff, vars, server, process
<1>13. ASSUME RedisRestart \/ UNCHANGED vars PROVE DeliveryNext
  BY <1>4, <1>13 DEF RedisRestart, vars, server, process
<1> QED
  BY <1>5, <1>6, <1>7, <1>8, <1>9, <1>10, <1>11, <1>12, <1>13 DEF Next, Stop, Crash

(* The streams package implements EventDelivery: seen through the fate of  *)
(* each entry, every XADD, XREADGROUP, dispatch, XACK, failure and restart *)
(* is a step EventDelivery allows, or none.                                *)
THEOREM Refinement == Spec => ImplementsDelivery
<1>1. Init => BoundInv /\ Delivery!Init
  <2>1. ASSUME Init PROVE Len(stream) = 0
    BY <2>1 DEF Init
  <2>2. ASSUME Init, NEW i \in 1..MaxEvents PROVE Fate(i) = "absent"
    BY <2>1, <2>2, BoundAssumption DEF Fate
  <2> QED
    BY <2>1, <2>2, BoundAssumption DEF BoundInv, Delivery!Init
<1>2. (LoopInv /\ OrderInv /\ AckInv) /\ BoundInv => PipelineInv
  BY DEF PipelineInv
<1>3. DeliveryNext => [Delivery!Next]_([i \in 1..MaxEvents |-> Fate(i)])
  BY DEF DeliveryNext, bar
<1> QED
  BY <1>1, <1>2, <1>3, Inductive, BoundStep, RefineStep, PTL
     DEF Spec, ImplementsDelivery, Delivery!Spec
=============================================================================
