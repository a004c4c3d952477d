---------------------------- MODULE EventDelivery ----------------------------
(***************************************************************************)
(* What the event pipeline promises of each published entry, whichever     *)
(* processes, batches and connections carry it: entries leave the queue in *)
(* the order they were published, each is handed out at most once and      *)
(* handled at most once, and only a handled entry is acknowledged.  It     *)
(* does not promise that an entry handed out is handled: a process that    *)
(* leaves, a lost reply or a failed ack strands what it held.              *)
(***************************************************************************)
EXTENDS Naturals

CONSTANT Entries    \* 1..N, in publication order

VARIABLE fate    \* of each entry, one of Fates

Fates == {"absent", "queued", "held", "handled", "rejected",
          "acknowledged", "stranded"}

With(f) == {i \in Entries : fate[i] = f}
Becomes(S, f) == [i \in Entries |-> IF i \in S THEN f ELSE fate[i]]

Init == fate = [i \in Entries |-> "absent"]

Publish(i) ==
    /\ fate[i] = "absent"
    /\ \A j \in Entries : j < i => fate[j] # "absent"
    /\ fate' = Becomes({i}, "queued")

(* The oldest entries of the queue are handed to one process, or lost on   *)
(* the way to it.                                                          *)
HandOut(S, f) ==
    /\ S # {} /\ S \subseteq With("queued")
    /\ \A i \in S, j \in With("queued") \ S : i < j
    /\ f \in {"held", "stranded"}
    /\ fate' = Becomes(S, f)

Finish(i, f) ==
    /\ fate[i] = "held" /\ f \in {"handled", "rejected"}
    /\ fate' = Becomes({i}, f)

(* An ack that succeeds on the server may fail on the client, which then   *)
(* abandons the entries S of the same reply.                               *)
Acknowledge(i, S) ==
    /\ fate[i] = "handled" /\ S \subseteq With("held")
    /\ fate' = [Becomes(S, "stranded") EXCEPT ![i] = "acknowledged"]

Abandon(S) ==
    /\ S # {} /\ S \subseteq With("held")
    /\ fate' = Becomes(S, "stranded")

Next ==
    \/ \E i \in Entries : Publish(i)
    \/ \E S \in SUBSET Entries :
          \/ \E f \in {"held", "stranded"} : HandOut(S, f)
          \/ Abandon(S)
          \/ \E i \in Entries : Acknowledge(i, S)
    \/ \E i \in Entries, f \in {"handled", "rejected"} : Finish(i, f)

Spec == Init /\ [][Next]_fate
=============================================================================
