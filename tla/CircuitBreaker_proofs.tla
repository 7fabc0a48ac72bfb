----------------------- MODULE CircuitBreaker_proofs -----------------------
(***************************************************************************)
(* What overlapping calls can never do to a CircuitBreaker, for any number *)
(* of threads and any thresholds, and what a call does that no other       *)
(* overlaps.  None of the properties is inductive: between calls nothing   *)
(* is left of the thread that was about to open the circuit.               *)
(***************************************************************************)
EXTENDS CircuitBreaker, FiniteSetTheorems, TLAPS

Typed == b \in Breakers /\ phase \in [Threads -> Phases]

\* While the count is reached and the circuit not open, a thread is on its way
\* to open it.
OpenerExists ==
    b.failures >= FailureThreshold /\ b.state # "OPEN" =>
        \E t \in Threads : phase[t] \in {"failed", "open"}

\* While an open circuit has no date, a thread is about to note it.
StamperExists ==
    b.state = "OPEN" /\ b.opened_at = "none" => \E t \in Threads : phase[t] = "stamp"

IInv == Typed /\ OpenerExists /\ StamperExists

\* What Breaker's operators make of the fields.
LEMMA BreakerFields ==
    ASSUME NEW x \in Breakers
    PROVE  /\ Reset(x) \in Breakers /\ Reset(x).failures = 0 /\ Reset(x).state = "HALF_OPEN"
           /\ Close(x) \in Breakers /\ Close(x).failures = 0 /\ Close(x).state = "CLOSED"
           /\ Elapsed(x) \in Breakers /\ Elapsed(x).failures = x.failures
           /\ Elapsed(x).state = x.state /\ Elapsed(x).opened_at = "elapsed"
BY DEF Breakers, Reset, Close, NewBreaker, Elapsed, CircuitState

LEMMA InitInv == Init => IInv
<1> SUFFICES ASSUME Init PROVE IInv
  OBVIOUS
<1>1. b \in Breakers /\ b.failures = 0 /\ b.state = "CLOSED"
  BY DEF Init, NewBreaker, Breakers, CircuitState
<1>2. phase \in [Threads -> Phases]
  BY DEF Init, Phases
<1> QED
  BY <1>1, <1>2, BreakerAssumption DEF BreakerAssumption, IInv, Typed, OpenerExists, StamperExists

\* A thread's step that keeps the type keeps the witnesses of the others.
LEMMA GoesKeeps ==
    ASSUME Typed, NEW t \in Threads, NEW from, NEW value \in Breakers, NEW to \in Phases,
           Goes(t, from, value, to)
    PROVE  /\ Typed' /\ b' = value /\ phase[t] = from /\ phase'[t] = to
           /\ \A u \in Threads : phase[u] # from => phase'[u] = phase[u]
BY DEF Goes, Typed

\* So a step that changes no field and leaves no witness's phase is harmless,
LEMMA IdleStep ==
    ASSUME IInv, NEW t \in Threads, NEW from, NEW to \in Phases, Goes(t, from, b, to),
           from \notin {"failed", "open", "stamp"}
    PROVE  IInv'
<1>1. /\ Typed' /\ b' = b
      /\ \A u \in Threads : phase[u] # from => phase'[u] = phase[u]
  BY GoesKeeps DEF IInv, Typed
<1>2. OpenerExists'
  BY <1>1 DEF IInv, OpenerExists
<1>3. StamperExists'
  BY <1>1 DEF IInv, StamperExists
<1> QED
  BY <1>1, <1>2, <1>3 DEF IInv

\* and so is one that resets the count of failures and does not open.
LEMMA ResetStep ==
    ASSUME IInv, NEW t \in Threads, NEW from, NEW value \in Breakers, NEW to \in Phases,
           Goes(t, from, value, to), from # "stamp", value.failures = 0,
           value.state = "OPEN" => b.state = "OPEN" /\ value.opened_at = b.opened_at
    PROVE  IInv'
<1>1. /\ Typed' /\ b' = value
      /\ \A u \in Threads : phase[u] # from => phase'[u] = phase[u]
  BY GoesKeeps DEF IInv
<1>2. OpenerExists'
  BY <1>1, BreakerAssumption DEF BreakerAssumption, OpenerExists
<1>3. StamperExists'
  BY <1>1 DEF IInv, StamperExists
<1> QED
  BY <1>1, <1>2, <1>3 DEF IInv

LEMMA StepInv == ASSUME IInv, NEW t \in Threads, Step(t) PROVE IInv'
<1>b. b \in Breakers
  BY DEF IInv, Typed
<1>1. CASE Call(t) \/ ShouldReset(t) \/ FuncRaises(t)
  BY <1>1, IdleStep DEF Call, Starts, ShouldReset, FuncRaises, Phases
<1>2. CASE ResetCircuit(t) \/ CloseCircuit(t)
  BY <1>2, <1>b, BreakerFields, ResetStep DEF ResetCircuit, CloseCircuit, Phases
<1>3. CASE FuncReturns(t)
  <2> DEFINE v == [b EXCEPT !.failures = 0]
  <2>1. v \in Breakers /\ v.failures = 0 /\ v.state = b.state /\ v.opened_at = b.opened_at
    BY <1>b DEF Breakers
  <2>2. Goes(t, "func", v, IF b.state = "HALF_OPEN" THEN "count" ELSE "idle")
    BY <1>3 DEF FuncReturns
  <2> HIDE DEF v
  <2> QED
    BY <2>1, <2>2, ResetStep DEF Phases
<1>4. CASE CountSuccess(t)
  <2> DEFINE v == [b EXCEPT !.successes = b.successes + 1]
  <2>1. /\ v \in Breakers /\ v.failures = b.failures /\ v.state = b.state
        /\ v.opened_at = b.opened_at
    BY <1>b DEF Breakers
  <2>2. PICK to \in Phases : Goes(t, "count", v, to)
    BY <1>4 DEF CountSuccess, Phases
  <2> HIDE DEF v
  <2>3. /\ Typed' /\ b' = v
        /\ \A u \in Threads : phase[u] # "count" => phase'[u] = phase[u]
    BY <2>1, <2>2, GoesKeeps DEF IInv
  <2> QED
    BY <2>1, <2>3 DEF IInv, OpenerExists, StamperExists
<1>5. CASE FuncFails(t)
  <2> DEFINE v == [b EXCEPT !.failures = b.failures + 1]
  <2>1. v \in Breakers /\ v.state = b.state /\ v.opened_at = b.opened_at
    BY <1>b DEF Breakers
  <2>2. Goes(t, "func", v, "failed")
    BY <1>5 DEF FuncFails
  <2> HIDE DEF v
  <2>3. /\ Typed' /\ b' = v /\ phase'[t] = "failed"
        /\ \A u \in Threads : phase[u] # "func" => phase'[u] = phase[u]
    BY <2>1, <2>2, GoesKeeps DEF IInv, Phases
  <2> QED
    BY <2>1, <2>3 DEF IInv, OpenerExists, StamperExists
<1>6. CASE Failed(t)
  <2> DEFINE to == IF b.failures >= FailureThreshold THEN "open" ELSE "idle"
  <2>1. Goes(t, "failed", b, to) /\ to \in Phases
    BY <1>6 DEF Failed, Trips, Phases
  <2>2. b.failures >= FailureThreshold => to = "open"
    OBVIOUS
  <2> HIDE DEF to
  <2>3. /\ Typed' /\ b' = b /\ phase'[t] = to
        /\ \A u \in Threads : phase[u] # "failed" => phase'[u] = phase[u]
    BY <1>b, <2>1, GoesKeeps DEF IInv
  <2> QED
    BY <2>2, <2>3 DEF IInv, OpenerExists, StamperExists
<1>7. CASE Goes(t, "open", [b EXCEPT !.state = "OPEN"], "stamp")
  <2> DEFINE v == [b EXCEPT !.state = "OPEN"]
  <2>1. v \in Breakers /\ v.state = "OPEN"
    BY <1>b DEF Breakers, CircuitState
  <2> HIDE DEF v
  <2>2. Goes(t, "open", v, "stamp")
    BY <1>7 DEF v
  <2>3. Typed' /\ b' = v /\ phase'[t] = "stamp"
    BY <2>1, <2>2, GoesKeeps DEF IInv, Phases
  <2> QED
    BY <2>1, <2>3 DEF IInv, OpenerExists, StamperExists
<1>8. CASE Goes(t, "stamp", [b EXCEPT !.opened_at = "recent"], "idle")
  <2> DEFINE v == [b EXCEPT !.opened_at = "recent"]
  <2>1. /\ v \in Breakers /\ v.opened_at = "recent" /\ v.failures = b.failures
        /\ v.state = b.state
    BY <1>b DEF Breakers
  <2> HIDE DEF v
  <2>2. Goes(t, "stamp", v, "idle")
    BY <1>8 DEF v
  <2>3. /\ Typed' /\ b' = v
        /\ \A u \in Threads : phase[u] # "stamp" => phase'[u] = phase[u]
    BY <2>1, <2>2, GoesKeeps DEF IInv, Phases
  <2> QED
    BY <2>1, <2>3 DEF IInv, OpenerExists, StamperExists
<1> QED
  BY <1>1, <1>2, <1>3, <1>4, <1>5, <1>6, <1>7, <1>8 DEF Step, OpenCircuit

LEMMA NextInv == IInv /\ [Next]_vars => IInv'
<1> SUFFICES ASSUME IInv, [Next]_vars PROVE IInv'
  OBVIOUS
<1>1. CASE Elapse
  <2>1. b' = Elapsed(b) /\ UNCHANGED phase
    BY <1>1 DEF Elapse
  <2>2. b \in Breakers
    BY DEF IInv, Typed
  <2> QED
    BY <2>1, <2>2, BreakerFields DEF IInv, Typed, OpenerExists, StamperExists
<1>2. CASE UNCHANGED vars
  BY <1>2 DEF vars, IInv, Typed, OpenerExists, StamperExists
<1> QED
  BY <1>1, <1>2, StepInv DEF Next

LEMMA Inductive == Spec => []IInv
BY InitInv, NextInv, PTL DEF Spec

\* However many calls overlap, when they are over a breaker that has counted
\* failure_threshold failures is open (_on_failure against _reset, _close and
\* _on_success of other threads).
THEOREM CountedOut == Spec => []CountedOutIsOpen
<1>1. IInv => CountedOutIsOpen
  BY DEF IInv, OpenerExists, CountedOutIsOpen, Quiet
<1> QED
  BY <1>1, Inductive, PTL

\* However many calls overlap, when they are over an open circuit has the date
\* that _should_attempt_reset needs to try it again (_open against _close).
THEOREM NeverStuckOpen == Spec => []OpenIsTemporary
<1>1. IInv => OpenIsTemporary
  BY DEF IInv, StamperExists, OpenIsTemporary, Quiet
<1> QED
  BY <1>1, Inductive, PTL

-----------------------------------------------------------------------------
(* SoloCallsAreAtomic *)

\* What the call that is at a step will have made of the object, if no other
\* call overlaps it, is x.
Due(step, x) ==
    /\ step = "idle" => x = b
    /\ step \in {"check", "dated", "age"} =>
           b.state = "OPEN" /\ x = IF b.opened_at = "elapsed" THEN Reset(b) ELSE b
    /\ step = "age" => b.opened_at # "none"
    /\ step = "reset" => x = Reset(b)
    /\ step = "func" => x = b
    /\ step = "count" =>
           x = IF b.successes + 1 >= SuccessThreshold THEN NewBreaker
               ELSE [b EXCEPT !.successes = b.successes + 1]
    /\ step = "close" => x = NewBreaker
    /\ step = "failed" => x = IF b.failures >= FailureThreshold THEN Open(b) ELSE b
    /\ step = "open" => x = Open(b)
    /\ step = "stamp" => x = [b EXCEPT !.opened_at = "recent"]

\* As long as a value is predicted, one call at most is under way.
SoloInv ==
    /\ solo \subseteq Breakers
    /\ \A x \in solo :
           /\ \A t, u \in Threads : phase[t] # "idle" /\ phase[u] # "idle" => t = u
           /\ Quiet => x = b
           /\ \A t \in Threads : phase[t] # "idle" => Due(phase[t], x)

\* What Breaker predicts, field by field.
LEMMA BreakerOutcomes ==
    ASSUME NEW x \in Breakers
    PROVE  /\ OnSuccess(x) = IF x.state # "HALF_OPEN" THEN [x EXCEPT !.failures = 0]
                             ELSE IF x.successes + 1 >= SuccessThreshold THEN NewBreaker
                             ELSE [x EXCEPT !.failures = 0, !.successes = x.successes + 1]
           /\ OnFailure(x) = IF x.failures + 1 >= FailureThreshold
                             THEN [x EXCEPT !.failures = x.failures + 1, !.state = "OPEN",
                                            !.opened_at = "recent"]
                             ELSE [x EXCEPT !.failures = x.failures + 1]
           /\ OnSuccess(x) \in Breakers /\ OnFailure(x) \in Breakers
<1>1. OnSuccess(x) = IF x.state # "HALF_OPEN" THEN [x EXCEPT !.failures = 0]
                     ELSE IF x.successes + 1 >= SuccessThreshold THEN NewBreaker
                     ELSE [x EXCEPT !.failures = 0, !.successes = x.successes + 1]
  BY DEF OnSuccess, Close, Breakers
<1>2. OnFailure(x) = IF x.failures + 1 >= FailureThreshold
                     THEN [x EXCEPT !.failures = x.failures + 1, !.state = "OPEN",
                                    !.opened_at = "recent"]
                     ELSE [x EXCEPT !.failures = x.failures + 1]
  BY DEF OnFailure, Open, Breakers
<1>3. OnSuccess(x) \in Breakers
  <2>1. [x EXCEPT !.failures = 0] \in Breakers /\ NewBreaker \in Breakers
    BY DEF Breakers, NewBreaker, CircuitState
  <2>2. [x EXCEPT !.failures = 0, !.successes = x.successes + 1] \in Breakers
    <3>1. PICK n \in Nat : n = x.successes + 1
      BY DEF Breakers
    <3>2. [x EXCEPT !.failures = 0, !.successes = n] \in Breakers
      BY DEF Breakers
    <3> QED
      BY <3>1, <3>2
  <2> QED
    BY <1>1, <2>1, <2>2
<1>4. OnFailure(x) \in Breakers
  <2>1. [x EXCEPT !.failures = x.failures + 1] \in Breakers
    BY DEF Breakers
  <2>2. [x EXCEPT !.failures = x.failures + 1, !.state = "OPEN", !.opened_at = "recent"] \in Breakers
    <3>1. PICK n \in Nat : n = x.failures + 1
      BY DEF Breakers
    <3>2. [x EXCEPT !.failures = n, !.state = "OPEN", !.opened_at = "recent"] \in Breakers
      BY DEF Breakers, CircuitState
    <3> QED
      BY <3>1, <3>2
  <2> QED
    BY <1>2, <2>1, <2>2
<1> QED
  BY <1>1, <1>2, <1>3, <1>4

\* A thread's step after which the predicted values are xs, each of them due.
LEMMA SoloStep ==
    ASSUME Typed, SoloInv, NEW t \in Threads, NEW from, NEW value \in Breakers, NEW to \in Phases,
           Goes(t, from, value, to), solo' \subseteq Breakers,
           \A x \in solo' : Due(to, x)',
           from = "idle" => Quiet \/ solo' = {},
           from # "idle" => (solo = {} => solo' = {})
    PROVE  SoloInv'
<1>1. /\ phase[t] = from /\ phase'[t] = to /\ b' = value
      /\ \A u \in Threads : u # t => phase'[u] = phase[u]
  BY DEF Goes, Typed
<1> SUFFICES ASSUME NEW x \in solo'
             PROVE  /\ \A u, v \in Threads : phase'[u] # "idle" /\ phase'[v] # "idle" => u = v
                    /\ Quiet' => x = b'
                    /\ \A u \in Threads : phase'[u] # "idle" => Due(phase[u], x)'
  BY DEF SoloInv
<1>2. \A u \in Threads : u # t => phase[u] = "idle"
  BY <1>1 DEF SoloInv, Quiet
<1>3. \A u \in Threads : phase'[u] # "idle" => u = t
  BY <1>1, <1>2
<1>4. Due(to, x)'
  OBVIOUS
<1>5. Quiet' => x = b'
  BY <1>1, <1>4 DEF Quiet, Due
<1> QED
  BY <1>1, <1>3, <1>4, <1>5

LEMMA CallSolo ==
    ASSUME Typed, SoloInv, NEW t \in Threads, Call(t)
    PROVE  SoloInv'
<1>1. PICK to \in Phases : Goes(t, "idle", b, to) /\ to = IF b.state = "OPEN" THEN "check" ELSE "func"
  BY DEF Call, Starts, Phases
<1>2. solo' = IF Quiet THEN {IF Admits(b) THEN Admitted(b) ELSE b} ELSE {}
  BY DEF Call, Starts
<1>3. b \in Breakers /\ Admitted(b) \in Breakers /\ b' = b
  BY <1>1, BreakerFields DEF Typed, Admitted, Goes
<1>4. \A x \in solo' : Due(to, x)'
  BY <1>1, <1>2, <1>3 DEF Due, Admits, Admitted, ShouldAttemptReset
<1> QED
  BY <1>1, <1>2, <1>3, <1>4, SoloStep

LEMMA ShouldResetSolo ==
    ASSUME Typed, SoloInv, NEW t \in Threads, ShouldReset(t)
    PROVE  SoloInv'
<1>1. PICK from \in {"check", "dated", "age"}, to \in Phases :
          /\ Goes(t, from, b, to) /\ solo' = solo
          /\ to = CASE from = "check" -> IF b.state = "OPEN" THEN "dated" ELSE "idle"
                    [] from = "dated" -> IF b.opened_at = "none" THEN "idle" ELSE "age"
                    [] from = "age" -> IF b.opened_at = "elapsed" THEN "reset" ELSE "idle"
  BY DEF ShouldReset, Phases
<1>2. b \in Breakers /\ b' = b /\ phase[t] = from
  BY <1>1 DEF Typed, Goes
<1>3. \A x \in solo : Due(from, x)
  BY <1>1, <1>2 DEF SoloInv
<1>4. \A x \in solo' : Due(to, x)'
  BY <1>1, <1>2, <1>3 DEF Due
<1> QED
  BY <1>1, <1>2, <1>4, SoloStep DEF SoloInv

\* The steps after which the predicted value stays, and is due.
LEMMA KeepsSolo ==
    ASSUME Typed, SoloInv, NEW t \in Threads, NEW from \in Phases \ {"idle"}, NEW to \in Phases,
           NEW value \in Breakers, Goes(t, from, value, to), solo' = solo,
           \A x \in Breakers : Due(from, x) => Due(to, x)'
    PROVE  SoloInv'
<1>1. phase[t] = from
  BY DEF Goes
<1>2. \A x \in solo' : Due(to, x)'
  BY <1>1 DEF SoloInv
<1> QED
  BY <1>2, SoloStep DEF SoloInv

LEMMA SuccessSolo ==
    ASSUME Typed, SoloInv, NEW t \in Threads, FuncReturns(t) \/ CountSuccess(t) \/ CloseCircuit(t)
    PROVE  SoloInv'
<1>b. b \in Breakers
  BY DEF Typed
<1>1. CASE FuncReturns(t)
  <2>1. PICK v \in Breakers, to \in Phases :
            /\ v = [b EXCEPT !.failures = 0] /\ Goes(t, "func", v, to)
            /\ to = IF b.state = "HALF_OPEN" THEN "count" ELSE "idle"
    BY <1>1, <1>b DEF FuncReturns, Phases, Breakers
  <2>2. b' = v /\ phase[t] = "func"
    BY <2>1 DEF Goes
  <2>3. \A x \in solo : x = b
    BY <2>2 DEF SoloInv, Due
  <2>4. PICK y \in Breakers : y = OnSuccess(b)
    BY <1>b, BreakerOutcomes
  <2>5. solo' = {OnSuccess(x) : x \in solo}
    BY <1>1 DEF FuncReturns
  <2>6. \A x \in solo' : x = y
    BY <2>3, <2>4, <2>5
  <2>7. Due(to, y)'
    BY <1>b, <2>1, <2>2, <2>4, BreakerOutcomes DEF Due, Breakers
  <2>8. solo' \subseteq Breakers /\ (solo = {} => solo' = {}) /\ \A x \in solo' : Due(to, x)'
    BY <2>4, <2>5, <2>6, <2>7
  <2> QED
    BY <2>1, <2>8, SoloStep
<1>2. CASE CountSuccess(t)
  <2>1. PICK v \in Breakers, to \in Phases :
            /\ v = [b EXCEPT !.successes = b.successes + 1] /\ Goes(t, "count", v, to)
            /\ to = IF b.successes + 1 >= SuccessThreshold THEN "close" ELSE "idle"
    BY <1>2, <1>b DEF CountSuccess, Phases, Breakers
  <2>2. b' = v /\ solo' = solo
    BY <1>2, <2>1 DEF CountSuccess, Goes
  <2>3. \A x \in Breakers : Due("count", x) => Due(to, x)'
    BY <2>1, <2>2 DEF Due
  <2> QED
    BY <2>1, <2>2, <2>3, KeepsSolo DEF Phases
<1>3. CASE CloseCircuit(t)
  <2>1. Close(b) \in Breakers /\ Goes(t, "close", Close(b), "idle") /\ b' = NewBreaker /\ solo' = solo
    BY <1>3, <1>b, BreakerFields DEF CloseCircuit, Goes, Close
  <2>2. \A x \in Breakers : Due("close", x) => Due("idle", x)'
    BY <2>1 DEF Due
  <2> QED
    BY <2>1, <2>2, KeepsSolo DEF Phases
<1> QED
  BY <1>1, <1>2, <1>3

LEMMA FailureSolo ==
    ASSUME Typed, SoloInv, NEW t \in Threads, FuncFails(t) \/ Failed(t) \/ OpenCircuit(t)
    PROVE  SoloInv'
<1>b. b \in Breakers
  BY DEF Typed
<1>1. CASE FuncFails(t)
  <2>1. PICK v \in Breakers : v = [b EXCEPT !.failures = b.failures + 1] /\ Goes(t, "func", v, "failed")
    BY <1>1, <1>b DEF FuncFails, Breakers
  <2>2. b' = v /\ phase[t] = "func"
    BY <2>1 DEF Goes
  <2>3. \A x \in solo : x = b
    BY <2>2 DEF SoloInv, Due
  <2>4. PICK y \in Breakers : y = OnFailure(b)
    BY <1>b, BreakerOutcomes
  <2>5. solo' = {OnFailure(x) : x \in solo}
    BY <1>1 DEF FuncFails
  <2>6. \A x \in solo' : x = y
    BY <2>3, <2>4, <2>5
  <2>7. Due("failed", y)'
    BY <1>b, <2>1, <2>2, <2>4, BreakerOutcomes DEF Due, Breakers, Open
  <2>8. solo' \subseteq Breakers /\ (solo = {} => solo' = {}) /\ \A x \in solo' : Due("failed", x)'
    BY <2>4, <2>5, <2>6, <2>7
  <2> QED
    BY <2>1, <2>8, SoloStep DEF Phases
<1>2. CASE Failed(t)
  <2>1. PICK to \in Phases :
            /\ Goes(t, "failed", b, to)
            /\ to = IF b.failures >= FailureThreshold THEN "open" ELSE "idle"
    BY <1>2 DEF Failed, Trips, Phases
  <2>2. b' = b /\ solo' = solo
    BY <1>2, <2>1 DEF Failed, Trips, Goes
  <2>3. \A x \in Breakers : Due("failed", x) => Due(to, x)'
    BY <2>1, <2>2 DEF Due
  <2> QED
    BY <1>b, <2>1, <2>2, <2>3, KeepsSolo DEF Phases
<1>3. CASE Goes(t, "open", [b EXCEPT !.state = "OPEN"], "stamp") /\ UNCHANGED solo
  <2> DEFINE v == [b EXCEPT !.state = "OPEN"]
  <2>1. v \in Breakers /\ Goes(t, "open", v, "stamp") /\ b' = v /\ solo' = solo
    BY <1>3, <1>b DEF Goes, Breakers, CircuitState
  <2>2. \A x \in Breakers : Due("open", x) => Due("stamp", x)'
    BY <1>b, <2>1 DEF Due, Open, Breakers
  <2> HIDE DEF v
  <2> QED
    BY <2>1, <2>2, KeepsSolo DEF Phases
<1>4. CASE Goes(t, "stamp", [b EXCEPT !.opened_at = "recent"], "idle") /\ UNCHANGED solo
  <2> DEFINE v == [b EXCEPT !.opened_at = "recent"]
  <2>1. v \in Breakers /\ Goes(t, "stamp", v, "idle") /\ b' = v /\ solo' = solo
    BY <1>4, <1>b DEF Goes, Breakers
  <2>2. \A x \in Breakers : Due("stamp", x) => Due("idle", x)'
    BY <2>1 DEF Due
  <2> HIDE DEF v
  <2> QED
    BY <2>1, <2>2, KeepsSolo DEF Phases
<1> QED
  BY <1>1, <1>2, <1>3, <1>4 DEF OpenCircuit

LEMMA SoloNext == Typed /\ SoloInv /\ [Next]_vars => SoloInv'
<1> SUFFICES ASSUME Typed, SoloInv, [Next]_vars PROVE SoloInv'
  OBVIOUS
<1>1. CASE Elapse
  BY <1>1 DEF Elapse, SoloInv
<1>2. ASSUME NEW t \in Threads, ResetCircuit(t) PROVE SoloInv'
  <2>1. Reset(b) \in Breakers /\ Goes(t, "reset", Reset(b), "func") /\ b' = Reset(b) /\ solo' = solo
    BY <1>2, BreakerFields DEF Typed, ResetCircuit, Goes
  <2>2. \A x \in Breakers : Due("reset", x) => Due("func", x)'
    BY <2>1 DEF Due
  <2> QED
    BY <2>1, <2>2, KeepsSolo DEF Phases
<1>3. ASSUME NEW t \in Threads, FuncRaises(t) PROVE SoloInv'
  <2>1. b \in Breakers /\ Goes(t, "func", b, "idle") /\ b' = b /\ solo' = solo
    BY <1>3 DEF Typed, FuncRaises, Goes
  <2>2. \A x \in Breakers : Due("func", x) => Due("idle", x)'
    BY <2>1 DEF Due
  <2> QED
    BY <2>1, <2>2, KeepsSolo DEF Phases
<1>4. CASE UNCHANGED vars
  BY <1>4 DEF vars, SoloInv, Due, Quiet
<1> QED
  BY <1>1, <1>2, <1>3, <1>4, CallSolo, ShouldResetSolo, SuccessSolo, FailureSolo DEF Next, Step

\* A call that no other overlaps leaves the object as Breaker, on which OrderSaga
\* is built, says (call, _on_success and _on_failure of circuit_breaker.py).
THEOREM SoloCallsMatchBreaker == Spec => []SoloCallsAreAtomic
<1>1. Init => SoloInv
  BY DEF Init, SoloInv
<1>2. IInv => Typed
  BY DEF IInv
<1>3. SoloInv => SoloCallsAreAtomic
  BY DEF SoloInv, SoloCallsAreAtomic
<1> QED
  BY <1>1, <1>2, <1>3, Inductive, SoloNext, PTL DEF Spec

-----------------------------------------------------------------------------
(* TypeOK *)

Failing == {t \in Threads : phase[t] \in {"failed", "open"}}

Outside == {t \in Threads : phase[t] # "func"}

\* Until the circuit is open, who counted a failure beyond the threshold is about
\* to open it; afterwards nobody is let in who was not in before.
Counted == IF b.state = "OPEN" THEN Outside ELSE Failing

Contained == b.failures < FailureThreshold + Cardinality(Counted)

LEMMA CountsType ==
    ASSUME NEW S, S \subseteq Threads
    PROVE  /\ IsFiniteSet(S) /\ Cardinality(S) \in Nat
           /\ Cardinality(S) <= Cardinality(Threads) /\ Cardinality(Threads) \in Nat
BY ThreadsAssumption, FS_Subset, FS_CardinalityType DEF ThreadsAssumption

LEMMA CountedType == Counted \subseteq Threads /\ Counted' \subseteq Threads
BY DEF Counted, Outside, Failing

\* What was counted is counted still.
LEMMA MoreCounted ==
    ASSUME Contained, b \in Breakers, b' \in Breakers, b'.failures <= b.failures,
           Counted \subseteq Counted'
    PROVE  Contained'
<1>1. /\ IsFiniteSet(Counted) /\ Cardinality(Counted) \in Nat
      /\ IsFiniteSet(Counted') /\ Cardinality(Counted') \in Nat
  BY CountedType, CountsType
<1>2. Cardinality(Counted) <= Cardinality(Counted')
  BY <1>1, FS_Subset
<1> QED
  BY <1>1, <1>2, BreakerAssumption DEF Contained, Breakers, BreakerAssumption

\* One failure more, and one more thread that counted it.
LEMMA OneMoreCounted ==
    ASSUME Contained, b \in Breakers, b' \in Breakers, b'.failures = b.failures + 1,
           NEW t \in Counted', t \notin Counted, Counted \subseteq Counted'
    PROVE  Contained'
<1>1. /\ IsFiniteSet(Counted) /\ Cardinality(Counted) \in Nat
      /\ IsFiniteSet(Counted') /\ Cardinality(Counted') \in Nat
  BY CountedType, CountsType
<1>2. IsFiniteSet(Counted \cup {t}) /\ Cardinality(Counted \cup {t}) = Cardinality(Counted) + 1
  BY <1>1, FS_AddElement
<1>3. Cardinality(Counted \cup {t}) <= Cardinality(Counted')
  BY <1>1, FS_Subset
<1> QED
  BY <1>1, <1>2, <1>3, BreakerAssumption DEF Contained, Breakers, BreakerAssumption

\* Few failures need nobody to have counted them.
LEMMA FewFailures ==
    ASSUME b' \in Breakers, b'.failures < FailureThreshold
    PROVE  Contained'
<1>1. Cardinality(Counted') \in Nat
  BY CountedType, CountsType
<1> QED
  BY <1>1, BreakerAssumption DEF Contained, Breakers, BreakerAssumption

LEMMA ContainedStep ==
    ASSUME Typed, Contained, NEW t \in Threads, Step(t)
    PROVE  Contained'
<1>b. b \in Breakers /\ phase \in [Threads -> Phases]
  BY DEF Typed
<1>1. CASE Call(t) \/ ShouldReset(t)
  <2>1. PICK from \in {"idle", "check", "dated", "age"}, to \in Phases :
            Goes(t, from, b, to) /\ (to = "func" => b.state # "OPEN")
    BY <1>1 DEF Call, Starts, ShouldReset, Phases
  <2>2. b' = b /\ Counted \subseteq Counted'
    BY <1>b, <2>1 DEF Goes, Counted, Outside, Failing
  <2> QED
    BY <1>b, <2>2, MoreCounted DEF Breakers
<1>2. CASE ResetCircuit(t) \/ CloseCircuit(t)
  <2>1. b' \in Breakers /\ b'.failures = 0
    BY <1>b, <1>2, BreakerFields DEF ResetCircuit, CloseCircuit, Goes
  <2> QED
    BY <2>1, FewFailures, BreakerAssumption DEF BreakerAssumption
<1>3. CASE FuncReturns(t)
  <2>1. b' \in Breakers /\ b'.failures = 0
    BY <1>b, <1>3 DEF FuncReturns, Goes, Breakers
  <2> QED
    BY <2>1, FewFailures, BreakerAssumption DEF BreakerAssumption
<1>4. CASE CountSuccess(t) \/ FuncRaises(t)
  <2>1. PICK from \in {"count", "func"}, to \in {"close", "idle"}, v \in Breakers :
            Goes(t, from, v, to) /\ v.failures = b.failures /\ v.state = b.state
    BY <1>b, <1>4 DEF CountSuccess, FuncRaises, Breakers
  <2>2. b' = v /\ Counted \subseteq Counted'
    BY <1>b, <2>1 DEF Goes, Counted, Outside, Failing
  <2> QED
    BY <1>b, <2>1, <2>2, MoreCounted DEF Breakers
<1>5. CASE FuncFails(t)
  <2>1. PICK v \in Breakers : Goes(t, "func", v, "failed") /\ v.failures = b.failures + 1 /\ v.state = b.state
    BY <1>b, <1>5 DEF FuncFails, Breakers
  <2>2. b' = v /\ Counted \subseteq Counted' /\ t \notin Counted /\ t \in Counted'
    BY <1>b, <2>1 DEF Goes, Counted, Outside, Failing
  <2> QED
    BY <1>b, <2>1, <2>2, OneMoreCounted
<1>6. CASE Failed(t)
  <2>1. PICK to \in {"open", "idle"} :
            Goes(t, "failed", b, to) /\ to = IF b.failures >= FailureThreshold THEN "open" ELSE "idle"
    BY <1>6 DEF Failed, Trips
  <2>2. b' = b
    BY <2>1 DEF Goes
  <2>3. CASE b.failures >= FailureThreshold
    <3>1. Counted \subseteq Counted'
      BY <1>b, <2>1, <2>3 DEF Goes, Counted, Outside, Failing
    <3> QED
      BY <1>b, <2>2, <3>1, MoreCounted DEF Breakers
  <2>4. CASE b.failures < FailureThreshold
    BY <1>b, <2>2, <2>4, FewFailures
  <2> QED
    BY <1>b, <2>3, <2>4, BreakerAssumption DEF Breakers, BreakerAssumption
<1>7. CASE OpenCircuit(t)
  <2>1. PICK from \in {"open", "stamp"}, to \in {"stamp", "idle"}, v \in Breakers :
            /\ Goes(t, from, v, to) /\ v.failures = b.failures
            /\ v.state = IF from = "open" THEN "OPEN" ELSE b.state
    BY <1>b, <1>7 DEF OpenCircuit, Breakers, CircuitState
  <2>2. b' = v /\ Counted \subseteq Counted'
    BY <1>b, <2>1 DEF Goes, Counted, Outside, Failing
  <2> QED
    BY <1>b, <2>1, <2>2, MoreCounted DEF Breakers
<1> QED
  BY <1>1, <1>2, <1>3, <1>4, <1>5, <1>6, <1>7 DEF Step

LEMMA ContainedNext == Typed /\ Contained /\ [Next]_vars => Contained'
<1> SUFFICES ASSUME Typed, Contained, [Next]_vars PROVE Contained'
  OBVIOUS
<1>1. CASE Elapse \/ UNCHANGED vars
  <2>1. b \in Breakers /\ b' \in Breakers /\ b'.failures = b.failures /\ b'.state = b.state /\ phase' = phase
    BY <1>1, BreakerFields DEF Typed, Elapse, vars
  <2>2. Counted \subseteq Counted'
    BY <2>1 DEF Counted, Outside, Failing
  <2> QED
    BY <2>1, <2>2, MoreCounted DEF Breakers
<1> QED
  BY <1>1, ContainedStep DEF Next

\* However many calls overlap, failures are counted beyond failure_threshold only
\* for calls that were let in before: the circuit does stop calls (_on_failure).
THEOREM TypeCorrect == Spec => []TypeOK
<1>1. Init => SoloInv
  BY DEF Init, SoloInv
<1>2. Init => Contained
  <2> SUFFICES ASSUME Init PROVE Contained
    OBVIOUS
  <2>1. b.failures = 0
    BY DEF Init, NewBreaker
  <2> QED
    BY <2>1, CountedType, CountsType, BreakerAssumption DEF Contained, BreakerAssumption
<1>3. IInv => Typed
  BY DEF IInv
<1>4. Typed /\ SoloInv /\ Contained => TypeOK
  BY CountedType, CountsType, BreakerAssumption DEF Typed, SoloInv, Contained, TypeOK, Breakers, BreakerAssumption
<1> QED
  BY <1>1, <1>2, <1>3, <1>4, Inductive, SoloNext, ContainedNext, PTL DEF Spec
=============================================================================
