---------------------------- MODULE ComputePiTask ----------------------------
(***************************************************************************)
(* worker/tasks/compute_pi.py: the Celery task that streams the digits of  *)
(* pi, one RUNNING status and one chunk per digit.  Digits are 1..DIGITS.  *)
(***************************************************************************)
EXTENDS TaskReporter

CONSTANT DIGITS     \* len(pi)
ASSUME DigitsAssumption == DIGITS \in Nat \ {0}

VARIABLE digits     \* digits emitted

PiInit == pc = "count" /\ digits = 0

(* report_status of the digit to come; an exception inside the with-block  *)
(* goes through __exit__.                                                  *)
CountDigit(ok) ==
    /\ pc = "count"
    /\ Report(Status("RUNNING", digits + 1), ok)
    /\ Continue(ok, "digit", "unwind")
    /\ UNCHANGED digits

EmitDigit(ok) ==
    /\ pc = "digit"
    /\ Emit(digits + 1, ok)
    /\ digits' = digits + 1
    /\ Continue(ok, IF digits + 1 < DIGITS THEN "count" ELSE "exit", "unwind")

CloseDigits(ok) ==
    /\ pc \in {"exit", "unwind"}
    /\ Exit(ok)
    /\ Continue(ok /\ pc = "exit", "result", "raised")
    /\ UNCHANGED digits

ReportDigits(ok) ==
    /\ pc = "result"
    /\ Report(Result([i \in 1..DIGITS |-> i]), ok)
    /\ Continue(ok, "returned", "raised")
    /\ UNCHANGED digits

ComputePi ==
    \/ \E ok \in BOOLEAN :
          CountDigit(ok) \/ EmitDigit(ok) \/ CloseDigits(ok) \/ ReportDigits(ok)
    \/ Crash /\ UNCHANGED digits
=============================================================================
