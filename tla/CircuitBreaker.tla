--------------------------- MODULE CircuitBreaker ---------------------------
(***************************************************************************)
(* A CircuitBreaker object that several threads call at once.  Its methods *)
(* take no lock; what is atomic is what the interpreter makes so.  The     *)
(* services run on CPython 3.10 (their Dockerfiles), where a thread gives  *)
(* way at a call or at a jump, never between assignments: _reset and       *)
(* _close, once their log line is written, assign all of their fields at   *)
(* once, and an increment is never torn; _open calls time.time() between   *)
(* its two.  Naming a member of an Enum is a call, so a state may be stale *)
(* when it is compared.  Module Breaker is what a call does when no other  *)
(* overlaps it.                                                            *)
(***************************************************************************)
EXTENDS Breaker, FiniteSets

CONSTANT Threads

ASSUME ThreadsAssumption == IsFiniteSet(Threads)

VARIABLES b,     \* the object's fields, a value of Breaker
          phase, \* per thread: where in call() it is
          solo   \* {the value Breaker predicts}, {} once two calls have overlapped

vars == <<b, phase, solo>>

\* About to read the state again, whether there is a date, and the date; to
\* reset; in the protected function; to count a success, close; to compare the
\* failures, open, note the date.
Phases == {"idle", "check", "dated", "age", "reset", "func", "count", "close",
           "failed", "open", "stamp"}

Quiet == \A t \in Threads : phase[t] = "idle"

\* Thread t makes value of the object and is in phase to afterwards.
Goes(t, from, value, to) ==
    /\ phase[t] = from
    /\ phase' = [phase EXCEPT ![t] = to]
    /\ b' = value

Starts(t, to) ==
    /\ Goes(t, "idle", b, to)
    /\ solo' = IF Quiet THEN {IF Admits(b) THEN Admitted(b) ELSE b} ELSE {}

\* Mutant: the state is not looked at.
Call_Always(t) == Starts(t, "func")

Call(t) == Starts(t, IF b.state = "OPEN" THEN "check" ELSE "func")

\* _should_attempt_reset.  When opened_at becomes None between its two reads the
\* subtraction raises a TypeError, which leaves call() as a refusal does.
ShouldReset(t) ==
    /\ \/ Goes(t, "check", b, IF b.state = "OPEN" THEN "dated" ELSE "idle")
       \/ Goes(t, "dated", b, IF b.opened_at = "none" THEN "idle" ELSE "age")
       \/ Goes(t, "age", b, IF b.opened_at = "elapsed" THEN "reset" ELSE "idle")
    /\ UNCHANGED solo

\* Mutant: HALF_OPEN keeps the failures that opened the circuit.
ResetCircuit_KeepsFailures(t) ==
    /\ Goes(t, "reset", [Reset(b) EXCEPT !.failures = b.failures], "func")
    /\ UNCHANGED solo

ResetCircuit(t) == Goes(t, "reset", Reset(b), "func") /\ UNCHANGED solo

\* The protected function returns; _on_success up to its test of the state.
FuncReturns(t) ==
    /\ Goes(t, "func", [b EXCEPT !.failures = 0], IF b.state = "HALF_OPEN" THEN "count" ELSE "idle")
    /\ solo' = {OnSuccess(x) : x \in solo}

CountSuccess(t) ==
    /\ Goes(t, "count", [b EXCEPT !.successes = @ + 1],
            IF b.successes + 1 >= SuccessThreshold THEN "close" ELSE "idle")
    /\ UNCHANGED solo

CloseCircuit(t) == Goes(t, "close", Close(b), "idle") /\ UNCHANGED solo

\* It raises expected_exception; _on_failure up to time.time().
FuncFails(t) ==
    /\ Goes(t, "func", [b EXCEPT !.failures = @ + 1], "failed")
    /\ solo' = {OnFailure(x) : x \in solo}

\* It raises another exception, which call() lets through.
FuncRaises(t) == Goes(t, "func", b, "idle") /\ UNCHANGED solo

Trips(t, threshold) ==
    /\ Goes(t, "failed", b, IF b.failures >= threshold THEN "open" ELSE "idle")
    /\ UNCHANGED solo

\* Mutant: one failure more than failure_threshold.
Failed_OneMore(t) == Trips(t, FailureThreshold + 1)

Failed(t) == Trips(t, FailureThreshold)

\* Mutant: the date is noted before the state is set.
OpenCircuit_DateFirst(t) ==
    /\ \/ Goes(t, "open", [b EXCEPT !.opened_at = "recent"], "stamp")
       \/ Goes(t, "stamp", [b EXCEPT !.state = "OPEN"], "idle")
    /\ UNCHANGED solo

OpenCircuit(t) ==
    /\ \/ Goes(t, "open", [b EXCEPT !.state = "OPEN"], "stamp")
       \/ Goes(t, "stamp", [b EXCEPT !.opened_at = "recent"], "idle")
    /\ UNCHANGED solo

Elapse == b.opened_at = "recent" /\ b' = Elapsed(b) /\ solo' = {} /\ UNCHANGED phase

Init == b = NewBreaker /\ phase = [t \in Threads |-> "idle"] /\ solo = {}

Step(t) ==
    \/ Call(t) \/ ShouldReset(t) \/ ResetCircuit(t)
    \/ FuncReturns(t) \/ CountSuccess(t) \/ CloseCircuit(t)
    \/ FuncFails(t) \/ Failed(t) \/ OpenCircuit(t)
    \/ FuncRaises(t)

Next == Elapse \/ \E t \in Threads : Step(t)

Spec == Init /\ [][Next]_vars

-----------------------------------------------------------------------------
(* Properties *)

\* The count of failures exceeds the threshold only by the calls that were
\* under way when it was reached: the breaker does stop calls.
TypeOK ==
    /\ b \in Breakers
    /\ b.failures < FailureThreshold + Cardinality(Threads)
    /\ phase \in [Threads -> Phases]
    /\ solo \subseteq Breakers

\* However the calls interleave, a breaker that has counted enough failures is
\* open once they are over: who takes it out of OPEN also resets the count.
CountedOutIsOpen == Quiet /\ b.failures >= FailureThreshold => b.state = "OPEN"

\* A call that no other overlaps does to the object what Breaker says, which
\* is what OrderSaga is built on.
SoloCallsAreAtomic == Quiet => \A x \in solo : b = x

\* No interleaving leaves a circuit that is open for ever: an open circuit
\* knows since when, or no timeout would ever let a trial request through.
OpenIsTemporary == Quiet /\ b.state = "OPEN" => b.opened_at # "none"

\* documentation/07-resilience.md:32: when the trial request of a half-open
\* circuit fails, the circuit is open again for the recovery timeout.
FailedTrialReopens == Quiet /\ b.state = "HALF_OPEN" => b.failures = 0
=============================================================================
