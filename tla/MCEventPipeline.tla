--------------------------- MODULE MCEventPipeline ---------------------------
(* Instances of EventPipeline for TLC.  The scripts have the shapes that    *)
(* ComputePiTask and DocumentAnalysisTask publish.  Percentages are in      *)
(* steps of 1, and status_delta is 2 steps: neighbours are throttled.       *)
EXTENDS EventPipeline

CONSTANTS api1, api2, pi, doc

OneApi == {api1}
TwoApis == {api1, api2}
OneTask == {doc}
TwoTasks == {pi, doc}

LOCAL S(state, pct) == [type |-> "status", state |-> state, pct |-> pct]
LOCAL C(id) == [type |-> "chunk", id |-> id]
LOCAL R == [type |-> "result"]

PiScript == <<S("RUNNING", 2), C(0), R>>
DocScript == <<S("RUNNING", 1), S("RUNNING", 2), S("COMPLETED", 4), R>>

DocOnly == [t \in {doc} |-> DocScript]
PiAndDoc == [t \in {pi, doc} |-> IF t = pi THEN PiScript ELSE DocScript]

ASSUME ScriptsFit == TerminalEndsScript /\ ProgressRises
=============================================================================
