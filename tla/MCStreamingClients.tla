-------------------------- MODULE MCStreamingClients --------------------------
(* Instances of StreamingClients for TLC: a demo page with two clients and a *)
(* card of the dashboard, whose task fails before it has a chunk.            *)
EXTENDS StreamingClients, TLC

CONSTANTS t1, t2, s1, s2, s3

TwoTasks == {t1, t2}
ThreeSockets == {s1, s2, s3}
Subscriptions == (s1 :> t1) @@ (s2 :> t1) @@ (s3 :> t2)
DashboardTasks == {t2}
Outcomes ==
    (t1 :> <<Chunk(0, FALSE), Chunk(1, TRUE)>>) @@ (t2 :> <<Status("FAILED")>>)
=============================================================================
