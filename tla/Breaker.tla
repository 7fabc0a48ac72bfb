------------------------------ MODULE Breaker ------------------------------
(***************************************************************************)
(* The circuit breaker of services/main/shared/circuit_breaker.py as a     *)
(* pure state machine: the value of a CircuitBreaker object and what each  *)
(* of its methods makes of it.  Modules that hold a breaker keep such a    *)
(* value in a variable.  The clock is read only to compare the age of      *)
(* opened_at with recovery_timeout, so opened_at is "none", "recent"       *)
(* (younger than recovery_timeout) or "elapsed".                           *)
(***************************************************************************)
EXTENDS Naturals

CONSTANTS FailureThreshold, \* failure_threshold
          SuccessThreshold  \* success_threshold

ASSUME BreakerAssumption ==
    /\ FailureThreshold \in Nat \ {0}
    /\ SuccessThreshold \in Nat \ {0}

CircuitState == {"CLOSED", "OPEN", "HALF_OPEN"}

Breakers == [state     : CircuitState,
             failures  : Nat,
             successes : Nat,
             opened_at : {"none", "recent", "elapsed"}]

NewBreaker ==
    [state |-> "CLOSED", failures |-> 0, successes |-> 0, opened_at |-> "none"]

ShouldAttemptReset(b) == b.state = "OPEN" /\ b.opened_at = "elapsed"

\* call() lets the protected function run.
Admits(b) == b.state # "OPEN" \/ ShouldAttemptReset(b)

Reset(b) == [b EXCEPT !.state = "HALF_OPEN", !.failures = 0, !.successes = 0]

Open(b) == [b EXCEPT !.state = "OPEN", !.opened_at = "recent"]

Close(b) == NewBreaker

\* The breaker once call() has admitted a request.
Admitted(b) == IF ShouldAttemptReset(b) THEN Reset(b) ELSE b

OnSuccess(b) ==
    LET r == [b EXCEPT !.failures = 0]
        s == [r EXCEPT !.successes = @ + 1]
    IN  IF b.state # "HALF_OPEN" THEN r
        ELSE IF s.successes >= SuccessThreshold THEN Close(s) ELSE s

OnFailure(b) ==
    LET f == [b EXCEPT !.failures = @ + 1]
    IN  IF f.failures >= FailureThreshold THEN Open(f) ELSE f

\* recovery_timeout seconds have gone by since opened_at.
Elapsed(b) == [b EXCEPT !.opened_at = "elapsed"]
=============================================================================
