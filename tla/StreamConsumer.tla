--------------------------- MODULE StreamConsumer ---------------------------
(***************************************************************************)
(* The Redis stream "tasks:events", the consumer group "api" on it, and    *)
(* one StreamsConsumer per API process (infrastructure/streams).           *)
(*                                                                         *)
(* Entries are numbered by their position in `stream`.  What a handler     *)
(* does with an event is left to EventPipeline: here a dispatch either     *)
(* returns or raises.  Each action is the code between two awaits of       *)
(* consumer.py: the reply to XREADGROUP, one dispatch, one XACK.           *)
(***************************************************************************)
EXTENDS Naturals, Sequences

CONSTANTS
    Consumers,        \* the API processes, each with one StreamsConsumer
    COUNT,            \* StreamSettings.COUNT: entries per XREADGROUP
    RECLAIM_PENDING,  \* StreamSettings.RECLAIM_PENDING
    MaxEvents,        \* bound: entries published
    MaxDisruptions,   \* bound: process stops, crashes, lost replies, failed acks
    MaxRedisRestarts  \* bound: restarts of the server, which keeps nothing

ASSUME CountAssumption == COUNT \in Nat \ {0}
ASSUME ReclaimAssumption == RECLAIM_PENDING \in BOOLEAN
ASSUME BoundAssumption == /\ MaxEvents \in Nat
                          /\ MaxDisruptions \in Nat
                          /\ MaxRedisRestarts \in Nat

VARIABLES
    stream,       \* kinds of the entries ever XADDed, in order
    group,        \* "none" (never created), "live" or "lost" (server restarted)
    last,         \* the group's last-delivered-id
    since,        \* the id the live group was created at
    pel,          \* pending entries list, by the consumer that owns them
    pc,           \* what each consumer's coroutine awaits
    batch,        \* entries of the current reply still to be dispatched
    cur,          \* message_id being acknowledged, 0 when there is none
    log,          \* history: dispatches by each process slot and their outcome
    acked,        \* history: entries XACKed
    disruptions,
    redisRestarts

server == <<group, last, since, pel>>
process == <<pc, batch, cur>>
bounds == <<disruptions, redisRestarts>>
vars == <<stream, server, process, log, acked, bounds>>

Kinds == {"valid", "invalid"}       \* does decode_event accept the fields?
Stages == {"down", "reclaiming", "reading", "handling", "acking", "backoff"}
Dispatches == [id : Nat, ok : BOOLEAN]

\* Ids from..to as a sequence: the entries of one XREADGROUP reply.
Ids(from, to) == [k \in 1..(to - from + 1) |-> from + k - 1]

Pending == UNION {pel[c] : c \in Consumers}
InBatch(c) == {batch[c][k] : k \in DOMAIN batch[c]}
Dispatched == UNION {{log[c][k].id : k \in DOMAIN log[c]} : c \in Consumers}

TypeOK ==
    /\ stream \in Seq(Kinds)
    /\ group \in {"none", "live", "lost"}
    /\ last \in 0..Len(stream) /\ since \in 0..last
    /\ pel \in [Consumers -> SUBSET Nat]
    /\ pc \in [Consumers -> Stages]
    /\ batch \in [Consumers -> Seq(Nat)]
    /\ cur \in [Consumers -> Nat]
    /\ log \in [Consumers -> Seq(Dispatches)]
    /\ acked \in SUBSET Nat
    /\ disruptions \in Nat /\ redisRestarts \in Nat

Init ==
    /\ stream = <<>> /\ group = "none" /\ last = 0 /\ since = 0
    /\ pel = [c \in Consumers |-> {}]
    /\ pc = [c \in Consumers |-> "down"]
    /\ batch = [c \in Consumers |-> <<>>]
    /\ cur = [c \in Consumers |-> 0]
    /\ log = [c \in Consumers |-> <<>>]
    /\ acked = {}
    /\ disruptions = 0 /\ redisRestarts = 0

Disruption == /\ disruptions < MaxDisruptions
              /\ disruptions' = disruptions + 1
              /\ UNCHANGED redisRestarts

-----------------------------------------------------------------------------
(* Publishing: one XADD per event.  Workers only run tasks that an API     *)
(* process enqueued, so no entry precedes the first start of an API.       *)
Publish(kind) ==
    /\ group # "none" /\ Len(stream) < MaxEvents
    /\ stream' = Append(stream, kind)
    /\ UNCHANGED <<server, process, log, acked, bounds>>

\* Mutant: the group is set back to the first entry at every start.
EnsureGroupFromStart(c) ==
    /\ pc[c] = "down"
    /\ pc' = [pc EXCEPT ![c] = "reading"]
    /\ group' = "live" /\ last' = 0 /\ since' = 0
    /\ UNCHANGED <<stream, pel, batch, cur, log, acked, bounds>>

\* Mutant: the group is moved on to "$" at every start.
EnsureGroupAtEnd(c) ==
    /\ pc[c] = "down"
    /\ pc' = [pc EXCEPT ![c] = "reading"]
    /\ group' = "live" /\ last' = Len(stream) /\ UNCHANGED since
    /\ UNCHANGED <<stream, pel, batch, cur, log, acked, bounds>>

(* start(): ensure_consumer_group.  XGROUP CREATE with id "$" starts a new *)
(* group after the last entry; BUSYGROUP leaves an existing one alone.     *)
EnsureGroup(c) ==
    /\ pc[c] = "down"
    /\ pc' = [pc EXCEPT ![c] = IF RECLAIM_PENDING THEN "reclaiming" ELSE "reading"]
    /\ group' = "live"
    /\ IF group = "live" THEN UNCHANGED <<last, since>>
       ELSE last' = Len(stream) /\ since' = Len(stream)
    /\ UNCHANGED <<stream, pel, batch, cur, log, acked, bounds>>

(* start(): _reclaim.  XAUTOCLAIM moves the entries that have been idle    *)
(* long enough (any set) to this consumer's list; its reply, the claimed   *)
(* entries, is discarded, and an error is only logged (nothing claimed).   *)
Reclaim(c) ==
    /\ pc[c] = "reclaiming"
    /\ \E idle \in SUBSET Pending :
          pel' = [d \in Consumers |-> IF d = c THEN pel[d] \cup idle ELSE pel[d] \ idle]
    /\ pc' = [pc EXCEPT ![c] = "reading"]
    /\ UNCHANGED <<stream, group, last, since, batch, cur, log, acked, bounds>>

-----------------------------------------------------------------------------
\* Mutant: COUNT entries, there or not.
ReadPastEnd == last + COUNT

(* _run: what the server does with XREADGROUP ">" COUNT: hand out the next *)
(* entries, once, and list them as pending.                                *)
ReadUpTo == IF Len(stream) - last < COUNT THEN Len(stream) ELSE last + COUNT

\* Mutant: XREADGROUP NOACK.
DeliverNoAck(c) ==
    /\ group = "live" /\ last < Len(stream)
    /\ last' = ReadUpTo
    /\ UNCHANGED <<group, since, pel>>

Deliver(c) ==
    /\ group = "live" /\ last < Len(stream)
    /\ last' = ReadUpTo
    /\ pel' = [pel EXCEPT ![c] = @ \cup (last + 1)..ReadUpTo]
    /\ UNCHANGED <<group, since>>

XReadGroup(c) ==
    /\ pc[c] = "reading"
    /\ Deliver(c)
    /\ batch' = [batch EXCEPT ![c] = Ids(last + 1, ReadUpTo)]
    /\ pc' = [pc EXCEPT ![c] = "handling"]
    /\ UNCHANGED <<stream, cur, log, acked, bounds>>

(* An empty reply after BLOCK_MS: continue.                                *)
XReadGroupIdle(c) ==
    /\ pc[c] = "reading"
    /\ group = "live" /\ last = Len(stream)
    /\ UNCHANGED vars

(* The call raises RedisError: the group is missing (NOGROUP), or the      *)
(* connection failed before the server executed it or before its reply.    *)
XReadGroupFails(c) ==
    /\ pc[c] = "reading"
    /\ \/ group = "lost" /\ UNCHANGED <<server, bounds>>
       \/ UNCHANGED server /\ Disruption
       \/ Deliver(c) /\ Disruption
    /\ pc' = [pc EXCEPT ![c] = "backoff"]
    /\ UNCHANGED <<stream, batch, cur, log, acked>>

(* except RedisError: asyncio.sleep(backoff), then read again.             *)
Backoff(c) ==
    /\ pc[c] = "backoff"
    /\ pc' = [pc EXCEPT ![c] = "reading"]
    /\ UNCHANGED <<stream, server, batch, cur, log, acked, bounds>>

-----------------------------------------------------------------------------
(* _handle_response: the loop over the entries of one reply.               *)
AfterEntry(rest) == IF rest = <<>> THEN "reading" ELSE "handling"

(* One entry: decode_event and dispatch return (ok) or raise; the entry is *)
(* acknowledged next, or not, and the rest of the reply goes on.           *)
DispatchEnds(c, ok, acks, rest) ==
    /\ pc[c] = "handling"
    /\ ok => stream[Head(batch[c])] = "valid"
    /\ log' = [log EXCEPT ![c] = Append(@, [id |-> Head(batch[c]), ok |-> ok])]
    /\ batch' = [batch EXCEPT ![c] = rest]
    /\ cur' = [cur EXCEPT ![c] = IF acks THEN Head(batch[c]) ELSE 0]
    /\ pc' = [pc EXCEPT ![c] = IF acks THEN "acking" ELSE AfterEntry(rest)]
    /\ UNCHANGED <<stream, server, acked, bounds>>

\* Mutants: XACK in a finally; an exception ends the loop.
DispatchAcksAll(c, ok) == DispatchEnds(c, ok, TRUE, Tail(batch[c]))
DispatchBreaks(c, ok) ==
    DispatchEnds(c, ok, ok, IF ok THEN Tail(batch[c]) ELSE <<>>)

(* An exception is logged, and the loop continues without acknowledging    *)
(* the entry.                                                              *)
Dispatch(c, ok) == DispatchEnds(c, ok, ok, Tail(batch[c]))

(* What XACK does, whoever owns the entry now.                             *)
Acknowledge(id) ==
    /\ pel' = [d \in Consumers |-> pel[d] \ {id}]
    /\ acked' = acked \cup {id}

Ack(c) ==
    /\ pc[c] = "acking"
    /\ Acknowledge(cur[c])
    /\ cur' = [cur EXCEPT ![c] = 0]
    /\ pc' = [pc EXCEPT ![c] = AfterEntry(batch[c])]
    /\ UNCHANGED <<stream, group, last, since, batch, log, bounds>>

(* XACK is outside the try: its RedisError, raised before or after the     *)
(* server executed it, leaves _handle_response, and the rest of the reply  *)
(* with it.                                                                *)
AckFails(c) ==
    /\ pc[c] = "acking" /\ Disruption
    /\ Acknowledge(cur[c]) \/ UNCHANGED <<pel, acked>>
    /\ cur' = [cur EXCEPT ![c] = 0]
    /\ batch' = [batch EXCEPT ![c] = <<>>]
    /\ pc' = [pc EXCEPT ![c] = "backoff"]
    /\ UNCHANGED <<stream, group, last, since, log>>

-----------------------------------------------------------------------------
(* stop() cancels the coroutine at whatever it awaits; a crash ends the    *)
(* process anywhere.  Both drop the reply held in memory.                  *)
Leave(c) ==
    /\ Disruption
    /\ pc' = [pc EXCEPT ![c] = "down"]
    /\ batch' = [batch EXCEPT ![c] = <<>>]
    /\ cur' = [cur EXCEPT ![c] = 0]
    /\ UNCHANGED <<stream, server, log, acked>>

Stop(c) == pc[c] \notin {"down", "reclaiming"} /\ Leave(c)

Crash(c) == pc[c] # "down" /\ Leave(c)

(* docker-compose.yml gives Redis no volume and no persistence: a restart  *)
(* loses the entries, the group and its pending lists.                     *)
RedisRestart ==
    /\ group = "live" /\ redisRestarts < MaxRedisRestarts
    /\ redisRestarts' = redisRestarts + 1
    /\ group' = "lost"
    /\ pel' = [c \in Consumers |-> {}]
    /\ UNCHANGED <<stream, last, since, process, log, acked, disruptions>>

Next ==
    \/ \E kind \in Kinds : Publish(kind)
    \/ \E c \in Consumers :
          \/ EnsureGroup(c) \/ Reclaim(c)
          \/ XReadGroup(c) \/ XReadGroupIdle(c) \/ XReadGroupFails(c)
          \/ Backoff(c)
          \/ \E ok \in BOOLEAN : Dispatch(c, ok)
          \/ Ack(c) \/ AckFails(c)
          \/ Stop(c) \/ Crash(c)
    \/ RedisRestart

Spec == Init /\ [][Next]_vars

(* The event loop of a running process resumes the coroutine, and docker   *)
(* restarts the API (restart: unless-stopped).                             *)
Scheduled(c) ==
    \/ EnsureGroup(c) \/ Reclaim(c) \/ XReadGroup(c) \/ Backoff(c)
    \/ \E ok \in BOOLEAN : Dispatch(c, ok)
    \/ Ack(c)

FairSpec == Spec /\ \A c \in Consumers : WF_vars(Scheduled(c))

-----------------------------------------------------------------------------
(* Did some process's handler return, or raise, for entry i?               *)
Returned(i) == \E c \in Consumers : \E k \in DOMAIN log[c] :
                  log[c][k] = [id |-> i, ok |-> TRUE]
Raised(i) == \E c \in Consumers : \E k \in DOMAIN log[c] :
                log[c][k] = [id |-> i, ok |-> FALSE]

(* Each process handles the entries it is given in stream order, none of   *)
(* them twice, through exceptions, failed acks and restarts (_run asks for *)
(* ">" only, and _handle_response walks the reply in order).               *)
DispatchInOrder ==
    \A c \in Consumers : \A j, k \in DOMAIN log[c] :
        j < k => log[c][j].id < log[c][k].id

(* README "Each event is processed by exactly one API instance": no entry  *)
(* is dispatched by two processes, reclaimed or not.                       *)
DispatchedOnce ==
    \A c, d \in Consumers : c # d =>
        \A j \in DOMAIN log[c], k \in DOMAIN log[d] : log[c][j].id # log[d][k].id

(* An entry is acknowledged only after its handler returned: never on an   *)
(* exception, and never for an entry of an abandoned reply.                *)
AckedWasHandled ==
    \A i \in acked : Returned(i)

(* README "Persist events until acknowledged": as long as the group lives, *)
(* its pending lists hold exactly the entries it handed out and that were  *)
(* not acknowledged, each in one list, whichever reply or ack was lost.    *)
PendingUntilAcked ==
    group = "live" =>
        /\ Pending = ((since + 1)..last) \ acked
        /\ \A c, d \in Consumers : c # d => pel[c] \cap pel[d] = {}

(* Every entry published while there is a group is handed out, and pending *)
(* or acknowledged, although processes stop, crash and lose connections: a *)
(* restarted process skips nothing.  When the server has lost the group,   *)
(* the next process to start creates it again, at "$" (client.py:44): what *)
(* is skipped for ever is what was published in between.  Until a process  *)
(* starts, the running ones get NOGROUP (consumer.py:91).                  *)
EveryEntryDelivered ==
    /\ \A i \in 1..MaxEvents :
          (group = "live" /\ since < i /\ i <= Len(stream))
              ~> (i \in Pending \cup acked \/ group = "lost" \/ i <= since)
    /\ (group = "lost" /\ \E c \in Consumers : pc[c] = "down")
          ~> group = "live"

(* While nothing is disrupted every published entry is handled and         *)
(* acknowledged, or its handler raised: nothing is stranded.               *)
EveryEntryHandled ==
    \A i \in 1..MaxEvents :
        (i <= Len(stream)) ~>
            (i \in acked \/ Raised(i) \/ disruptions + redisRestarts > 0)

-----------------------------------------------------------------------------
(* What the pipeline promises of an entry (EventDelivery), and the fate of *)
(* entry i in this state.                                                  *)
Fate(i) ==
    IF i > Len(stream) THEN "absent"
    ELSE IF i > last THEN "queued"
    ELSE IF i \in acked THEN "acknowledged"
    ELSE IF Returned(i) THEN "handled"
    ELSE IF Raised(i) THEN "rejected"
    ELSE IF \E c \in Consumers : i \in InBatch(c) THEN "held"
    ELSE "stranded"

Delivery == INSTANCE EventDelivery WITH
                Entries <- 1..MaxEvents,
                fate <- [i \in 1..MaxEvents |-> Fate(i)]

(* The streams package implements EventDelivery: entries leave the queue   *)
(* in order and at most once, and the handler's outcome decides the ack.   *)
ImplementsDelivery == Delivery!Spec

-----------------------------------------------------------------------------
(* What the documentation says and the code does not do.                   *)

(* consumer.py:121 "Reclaim pending messages idle past the configured      *)
(* threshold": what is pending when a restarted process reclaims is        *)
(* handled after all.                                                      *)
ReclaimedEntriesHandled ==
    \A c \in Consumers, i \in 1..MaxEvents :
        (pc[c] = "reclaiming" /\ i \in Pending) ~> (i \in Dispatched)
=============================================================================
