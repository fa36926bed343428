------------------------------- MODULE Breaker -------------------------------
(****************************************************************************)
(* CircuitBreakerProvider: the breaker around one market data provider and  *)
(* the threads that call through it.  The lock makes _allow_call,           *)
(* _record_success, _record_failure and reset atomic; the call to the       *)
(* provider is outside it, so calls that began before the breaker opened    *)
(* may end at any later time.                                               *)
(*                                                                          *)
(* Abstractions.                                                            *)
(*  - A call fails (any exception), answers, or answers nothing: None for   *)
(*    an unknown symbol, no bars for a range.  get_quote and get_history    *)
(*    treat these alike.                                                    *)
(*  - Monotonic time is counted from the moment the breaker opened.         *)
(*  - consecutive_failures is counted up to FailureThreshold, where it      *)
(*    stops mattering.  Counters for display are left out.                  *)
(****************************************************************************)
EXTENDS Integers, Sequences, FiniteSets

CONSTANTS
  Threads,              \* callers
  FailureThreshold,     \* consecutive failures that open the breaker
  WindowSize,           \* results remembered
  RateNum, RateDen,     \* failure_rate_threshold
  OpenSeconds,          \* time before a probe is allowed
  AnswersNothing        \* whether the provider may answer nothing

VARIABLES
  state,        \* _health.state
  consecutive,  \* _health.consecutive_failures
  recent,       \* _health.recent_results, oldest first
  waited,       \* time since _health.opened_at, up to OpenSeconds
  calling,      \* threads inside the provider
  probing       \* the ones that were let in to probe

vars == <<state, consecutive, recent, waited, calling, probing>>

ASSUME BreakerAssumption ==
  /\ FailureThreshold \in Nat \ {0} /\ WindowSize \in Nat \ {0}
  /\ RateNum \in Nat /\ RateDen \in Nat \ {0} /\ RateNum <= RateDen
  /\ OpenSeconds \in Nat
  /\ AnswersNothing \in BOOLEAN

Failures(window) == Cardinality({i \in DOMAIN window : ~window[i]})

\* deque(maxlen = WindowSize).append
Remember(window, ok) ==
  IF Len(window) < WindowSize THEN Append(window, ok)
  ELSE Append(Tail(window), ok)

\* should_open of _record_failure: enough failures in a row, or too many of
\* the remembered results.
Cause(n, window) ==
  \/ n >= FailureThreshold
  \/ Failures(window) * RateDen > Len(window) * RateNum

Init ==
  /\ state = "closed" /\ consecutive = 0 /\ recent = <<>> /\ waited = 0
  /\ calling = {} /\ probing = {}

\* Mutant of Call: an OPEN breaker never probes.
CallWhenClosed(t) ==
  /\ t \notin calling
  /\ state = "closed"
  /\ calling' = calling \cup {t}
  /\ UNCHANGED <<state, consecutive, recent, waited, probing>>

\* _allow_call lets a call through: freely when CLOSED, as a probe when OPEN
\* for long enough.
Call(t) ==
  /\ t \notin calling
  /\ \/ /\ state = "closed"
        /\ UNCHANGED <<state, probing>>
     \/ /\ state = "open" /\ waited >= OpenSeconds
        /\ state' = "half_open"
        /\ probing' = probing \cup {t}
  /\ calling' = calling \cup {t}
  /\ UNCHANGED <<consecutive, recent, waited>>

Leave(t) == calling' = calling \ {t} /\ probing' = probing \ {t}

\* The provider answers: _record_success closes the breaker, whoever calls.
Succeed(t) ==
  /\ t \in calling /\ Leave(t)
  /\ consecutive' = 0 /\ recent' = Remember(recent, TRUE)
  /\ state' = "closed" /\ waited' = 0

\* The call raises: _record_failure.
Fail(t) ==
  /\ t \in calling /\ Leave(t)
  /\ consecutive' = IF consecutive < FailureThreshold THEN consecutive + 1
                    ELSE consecutive
  /\ recent' = Remember(recent, FALSE)
  /\ IF Cause(consecutive', recent') /\ state # "open"
     THEN state' = "open" /\ waited' = 0
     ELSE UNCHANGED <<state, waited>>

\* The provider answers nothing: nothing is recorded.
AnswerNothing(t) ==
  /\ AnswersNothing
  /\ t \in calling /\ Leave(t)
  /\ UNCHANGED <<state, consecutive, recent, waited>>

\* Mutant of Reset: the breaker stays as it is.
ResetCountersOnly ==
  /\ consecutive' = 0 /\ recent' = <<>>
  /\ UNCHANGED <<state, waited, calling, probing>>

\* reset, by an operator.
Reset ==
  /\ state' = "closed" /\ consecutive' = 0 /\ recent' = <<>> /\ waited' = 0
  /\ UNCHANGED <<calling, probing>>

\* Time passes; it only matters while the breaker is OPEN.
Wait ==
  /\ state = "open" /\ waited < OpenSeconds
  /\ waited' = waited + 1
  /\ UNCHANGED <<state, consecutive, recent, calling, probing>>

Return(t) == Succeed(t) \/ Fail(t) \/ AnswerNothing(t)

Next == Reset \/ Wait \/ \E t \in Threads : Call(t) \/ Return(t)

Spec == Init /\ [][Next]_vars

\* Time passes, providers have timeouts, and the feed is polled for ever.
FairSpec ==
  /\ Spec
  /\ WF_vars(Wait)
  /\ \A t \in Threads : WF_vars(Return(t))
  /\ WF_vars(\E t \in Threads : Call(t))

-----------------------------------------------------------------------------
(* Properties *)

TypeOK ==
  /\ state \in {"closed", "open", "half_open"}
  /\ consecutive \in 0..FailureThreshold
  /\ recent \in Seq(BOOLEAN) /\ Len(recent) <= WindowSize
  /\ waited \in 0..OpenSeconds
  /\ calling \subseteq Threads /\ probing \subseteq calling

\* "On failure it re-opens" (health.py 12): _record_failure asks for a cause
\* also when a probe fails, and there is one, because what opened the breaker
\* cannot have gone away: late failures only add to it and any success or
\* reset closes the breaker.  The window may drop an old result meanwhile.
CauseStands == state # "closed" => Cause(consecutive, recent)

\* A failed probe re-opens the breaker for a whole period, whatever calls
\* that began before it opened returned meanwhile.
FailedProbeReopens ==
  [][ \A t \in Threads : Fail(t) /\ state = "half_open" =>
        state' = "open" /\ waited' = 0 ]_vars

\* The provider is tried again and again, however often it fails.
AlwaysRetried == []<>(state # "open")

\* "After open_seconds, one probe is allowed.  On success the breaker closes;
\* on failure it re-opens" (health.py 11-12): HALF_OPEN is left by the probe
\* it waits for, so there is one.
ProbeInFlight == state = "half_open" => probing # {}
=============================================================================
