---------------------------- MODULE CircuitBreaker ----------------------------
(***************************************************************************)
(* src/resilience/circuit_breaker.py: concurrent calls to a service that   *)
(* may be down go through one breaker.  A call takes the lock twice, once  *)
(* to be admitted and once to report, and runs without it in between, so   *)
(* results arrive in states of the circuit other than the one that         *)
(* admitted the call.                                                      *)
(*                                                                         *)
(* Time is kept as ages: how long the circuit has been open, how long ago  *)
(* each failure happened.  Statistics that decide nothing are left out.    *)
(***************************************************************************)
EXTENDS Naturals, Sequences, Ages

CONSTANTS
    Callers,            \* tasks that use the breaker
    FailureThreshold,   \* failures in the window that open the circuit
    RecoveryTimeout,    \* age at which an open circuit admits a call
    FailureWindow,      \* age at which a failure is forgotten
    HalfOpenRequests,   \* successes that close a half-open circuit
    MaxForces           \* bound: how often an operator forces the circuit

ASSUME BreakerAssumption ==
    /\ FailureThreshold \in Nat \ {0}
    /\ RecoveryTimeout \in Nat \ {0}
    /\ FailureWindow \in Nat \ {0}
    /\ HalfOpenRequests \in Nat \ {0}
    /\ MaxForces \in Nat

VARIABLES
    circuit,        \* _state
    openFor,        \* age of _opened_at, up to RecoveryTimeout
    failureAges,    \* ages of _failure_times, oldest first
    trials,         \* _stats.half_open_successes
    calling,        \* callers whose function is running
    serviceDown,    \* whether calls to the service may fail
    forces

breakerVars == <<circuit, openFor, failureAges, trials, calling, serviceDown, forces>>

BreakerTypeOK ==
    /\ circuit \in {"closed", "open", "half_open"}
    /\ openFor \in 0 .. RecoveryTimeout
    /\ failureAges \in Seq(0 .. FailureWindow - 1)
    /\ trials \in 0 .. HalfOpenRequests
    /\ calling \subseteq Callers
    /\ serviceDown \in BOOLEAN
    /\ forces \in 0 .. MaxForces

BreakerInit ==
    /\ circuit = "closed"
    /\ openFor = 0
    /\ failureAges = <<>>
    /\ trials = 0
    /\ calling = {}
    /\ serviceDown = TRUE
    /\ forces = 0

\* Mutated: closing the circuit keeps the failures known.
TransitionTo_KeepFailures(state, ages) ==
    /\ circuit' = state
    /\ openFor' = IF state = "open" THEN 0 ELSE openFor
    /\ failureAges' = ages
    /\ trials' = IF state = "half_open" THEN 0 ELSE trials

\* _transition_to, where ages are the failure times known at that moment.
TransitionTo(state, ages) ==
    /\ circuit' = state
    /\ openFor' = IF state = "open" THEN 0 ELSE openFor
    /\ failureAges' = IF state = "closed" THEN <<>> ELSE ages
    /\ trials' = IF state = "half_open" THEN 0 ELSE trials

ShouldAttemptReset == openFor >= RecoveryTimeout

\* Mutated: only the call that half-opens the circuit is let through.
AdmitCall_OneTrial(c) ==
    /\ c \notin calling
    /\ \/ /\ circuit = "closed"
          /\ UNCHANGED <<circuit, openFor, failureAges, trials>>
       \/ /\ circuit = "open"
          /\ ShouldAttemptReset
          /\ TransitionTo("half_open", failureAges)
    /\ calling' = calling \cup {c}
    /\ UNCHANGED <<serviceDown, forces>>

\* call, first use of the lock.  A rejected call changes nothing that counts.
AdmitCall(c) ==
    /\ c \notin calling
    /\ \/ /\ circuit # "open"
          /\ UNCHANGED <<circuit, openFor, failureAges, trials>>
       \/ /\ circuit = "open"
          /\ ShouldAttemptReset
          /\ TransitionTo("half_open", failureAges)
    /\ calling' = calling \cup {c}
    /\ UNCHANGED <<serviceDown, forces>>

\* _record_success
CallSucceeds(c) ==
    /\ c \in calling
    /\ calling' = calling \ {c}
    /\ \/ /\ circuit = "half_open"
          /\ trials + 1 >= HalfOpenRequests
          /\ TransitionTo("closed", failureAges)
       \/ /\ circuit = "half_open"
          /\ trials + 1 < HalfOpenRequests
          /\ trials' = trials + 1
          /\ UNCHANGED <<circuit, openFor, failureAges>>
       \/ /\ circuit # "half_open"
          /\ UNCHANGED <<circuit, openFor, failureAges, trials>>
    /\ UNCHANGED <<serviceDown, forces>>

\* What a failure that is just being recorded makes of the circuit.
AfterFailure(ages) ==
    \/ /\ \/ circuit = "half_open"
          \/ circuit = "closed" /\ Len(ages) >= FailureThreshold
       /\ TransitionTo("open", ages)
    \/ /\ \/ circuit = "open"
          \/ circuit = "closed" /\ Len(ages) < FailureThreshold
       /\ failureAges' = ages
       /\ UNCHANGED <<circuit, openFor, trials>>

\* _record_failure.  _cleanup_old_failures has been done by ServiceTick.
CallFails(c) ==
    /\ c \in calling
    /\ serviceDown
    /\ calling' = calling \ {c}
    /\ AfterFailure(Append(failureAges, 0))
    /\ UNCHANGED <<serviceDown, forces>>

\* A cancelled task raises CancelledError, which `except Exception` does not
\* catch: the call ends and reports nothing.
CallCancelled(c) ==
    /\ c \in calling
    /\ calling' = calling \ {c}
    /\ UNCHANGED <<circuit, openFor, failureAges, trials, serviceDown, forces>>

\* force_open, force_close
ForceTo(state) ==
    /\ forces < MaxForces
    /\ TransitionTo(state, failureAges)
    /\ forces' = forces + 1
    /\ UNCHANGED <<calling, serviceDown>>

ServiceRecovers ==
    /\ serviceDown
    /\ serviceDown' = FALSE
    /\ UNCHANGED <<circuit, openFor, failureAges, trials, calling, forces>>

\* Failures outside the window are removed when the next one is recorded.
ServiceTick ==
    /\ openFor' = IF openFor < RecoveryTimeout THEN openFor + 1 ELSE openFor
    /\ \E n \in 0 .. Len(failureAges) :
          /\ Leave(n, failureAges, FailureWindow - 1)
          /\ failureAges' = Aged(failureAges, n)
    /\ UNCHANGED <<circuit, trials, calling, serviceDown, forces>>

CallReturns(c) == CallSucceeds(c) \/ CallFails(c) \/ CallCancelled(c)

BreakerNext ==
    \/ \E c \in Callers : AdmitCall(c) \/ CallReturns(c)
    \/ \E state \in {"open", "closed"} : ForceTo(state)
    \/ ServiceRecovers
    \/ ServiceTick

BreakerSpec == BreakerInit /\ [][BreakerNext]_breakerVars

-----------------------------------------------------------------------------
(* Properties *)

\* Failures recorded while the circuit was open or half-open, by whatever late
\* call, are forgotten when it closes: a closed circuit is never one that should
\* be open (_record_failure, _transition_to).
ClosedBelowThreshold ==
    circuit = "closed" => Len(failureAges) < FailureThreshold

\* Once the service has recovered, the circuit closes, whatever calls of the
\* time before still report.
CircuitRecovers == ~serviceDown ~> circuit = "closed"
=============================================================================
