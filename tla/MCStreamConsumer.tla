--------------------------- MODULE MCStreamConsumer ---------------------------
(* Instances of StreamConsumer for TLC. *)
EXTENDS StreamConsumer

CONSTANTS api1, api2

OneApi == {api1}
TwoApis == {api1, api2}
=============================================================================
