------------------------------ MODULE Backoff ------------------------------
(***************************************************************************)
(* How a supervised Dev Tunnels process is retried: the backoff of         *)
(* retry.rs and the network changes of network.rs, as the loop of host.rs  *)
(* uses them (the broker loop of client.rs follows the same protocol for   *)
(* its connector).  Time is a number; steps happen at an instant, and      *)
(* timers may fire late but never early.                                   *)
(***************************************************************************)
EXTENDS Integers

CONSTANTS
    FirstDelay,     \* 30 seconds
    MaxDelay,       \* 300 seconds
    StableTime,     \* 300 seconds of readiness reset the delay
    SettleTime,     \* SETTLE_TIME, 2 seconds
    EarlyInterval,  \* EARLY_RETRY_INTERVAL, 30 seconds
    PermanentDelay, \* least pause after a permanent error, 60 seconds
    Horizon         \* bound: the clock stops here

ASSUME BackoffAssumption ==
    /\ FirstDelay \in Nat \ {0}
    /\ MaxDelay \in Nat /\ FirstDelay <= MaxDelay
    /\ StableTime \in Nat \ {0}
    /\ SettleTime \in Nat
    /\ EarlyInterval \in Nat \ {0}
    /\ PermanentDelay \in Nat
    /\ Horizon \in Nat

\* Option::None of an instant.
NoTime == -1
Instants == Nat \cup {NoTime}

VARIABLES
    now,         \* the clock
    retryPhase,  \* "attempt", "ready", "closing", "waiting", "sleeping", "stopped"
    delay,       \* Retry.delay
    readySince,  \* Retry.ready_since
    event,       \* the watch channel: instant of the last network change
    unseen,      \* it was not looked at yet
    pending,     \* NetworkChanges.pending
    nextAllowed, \* NetworkChanges.next_allowed
    deadline,    \* when the timed retry is due
    watchedFrom, \* history: the last begin_wait
    lastStart,   \* history: the last attempt
    prevStart,   \* history: the attempt before it
    lastEarly    \* history: the last early retry

retryVars == <<delay, readySince>>
networkVars == <<event, unseen, pending, nextAllowed, watchedFrom>>
historyVars == <<lastStart, prevStart, lastEarly>>
backoffVars == <<now, retryPhase, delay, readySince, event, unseen, pending, nextAllowed,
                 deadline, watchedFrom, lastStart, prevStart, lastEarly>>

Larger(a, b) == IF a >= b THEN a ELSE b
Smaller(a, b) == IF a <= b THEN a ELSE b

\* Everything is new, the first attempt starts at once.
BackoffInit ==
    /\ now = 0
    /\ retryPhase = "attempt"
    /\ delay = FirstDelay
    /\ readySince = NoTime
    /\ event = 0
    /\ unseen = FALSE
    /\ pending = NoTime
    /\ nextAllowed = 0
    /\ deadline = 0
    /\ watchedFrom = 0
    /\ lastStart = 0
    /\ prevStart = NoTime
    /\ lastEarly = NoTime

-----------------------------------------------------------------------------
\* NetworkChanges::begin_wait forgets the changes so far.
BeginWait ==
    /\ pending' = NoTime
    /\ unseen' = FALSE
    /\ watchedFrom' = now
    /\ UNCHANGED event

\* Mutant of FailedDelay: any readiness resets the delay.
ResetByAnyReadiness == IF readySince # NoTime THEN FirstDelay ELSE delay

\* The delay that Retry::failed returns.
FailedDelay ==
    IF readySince # NoTime /\ now - readySince >= StableTime THEN FirstDelay ELSE delay

\* Retry::failed doubles the delay up to its limit.
Failed ==
    /\ readySince' = NoTime
    /\ delay' = Smaller(2 * FailedDelay, MaxDelay)

\* attempt() fails.  Errors that need the user are slept on, the others wait for
\* the deadline or a network change, including one during the attempt.
AttemptFails(permanent) ==
    /\ retryPhase = "attempt"
    /\ Failed
    /\ deadline' = now + IF permanent THEN Larger(FailedDelay, PermanentDelay)
                                      ELSE FailedDelay
    /\ retryPhase' = IF permanent THEN "sleeping" ELSE "waiting"
    /\ UNCHANGED <<now, networkVars, historyVars>>

\* attempt() succeeds: Retry::ready.
BecomesReady ==
    /\ retryPhase = "attempt"
    /\ retryPhase' = "ready"
    /\ readySince' = IF readySince = NoTime THEN now ELSE readySince
    /\ UNCHANGED <<now, delay, networkVars, deadline, historyVars>>

\* The process exits, or the broker stops its connector for a forwarding failure:
\* earlier network changes do not count.
ProcessEnds ==
    /\ retryPhase = "ready"
    /\ retryPhase' = "closing"
    /\ BeginWait
    /\ UNCHANGED <<now, retryVars, nextAllowed, deadline, historyVars>>

\* It is gone (at once in host.rs, where it has exited before).
Closed ==
    /\ retryPhase = "closing"
    /\ Failed
    /\ deadline' = now + FailedDelay
    /\ retryPhase' = "waiting"
    /\ UNCHANGED <<now, networkVars, historyVars>>

\* The operating system reports a change.
NetworkChange ==
    /\ event' = now
    /\ unseen' = TRUE
    /\ UNCHANGED <<now, retryPhase, retryVars, pending, nextAllowed, deadline, watchedFrom,
                   historyVars>>

\* The top of the loop: the next attempt.
StartAttempt ==
    /\ retryPhase' = "attempt"
    /\ BeginWait
    /\ lastStart' = now
    /\ prevStart' = lastStart
    /\ UNCHANGED <<now, retryVars, deadline>>

\* wait_until: its first arm, the deadline.
TimedRetry ==
    /\ retryPhase \in {"waiting", "sleeping"}
    /\ now >= deadline
    /\ StartAttempt
    /\ UNCHANGED <<nextAllowed, lastEarly>>

\* wait_until: its second arm, a change restarts the settling time.
SeeChange ==
    /\ retryPhase = "waiting"
    /\ now < deadline
    /\ unseen
    /\ pending' = event
    /\ unseen' = FALSE
    /\ UNCHANGED <<now, retryPhase, retryVars, event, nextAllowed, deadline, watchedFrom,
                   historyVars>>

\* Mutants of EarlyRetry: the interval is not kept; the earlier of the two
\* conditions is enough.
EarlyRetryUnlimited ==
    /\ retryPhase = "waiting"
    /\ now < deadline
    /\ ~unseen
    /\ pending # NoTime
    /\ now >= pending + SettleTime
    /\ lastEarly' = now
    /\ UNCHANGED nextAllowed
    /\ StartAttempt

EarlyRetrySooner ==
    /\ retryPhase = "waiting"
    /\ now < deadline
    /\ ~unseen
    /\ pending # NoTime
    /\ now >= Smaller(pending + SettleTime, nextAllowed)
    /\ nextAllowed' = now + EarlyInterval
    /\ lastEarly' = now
    /\ StartAttempt

\* wait_until: its third arm, the change has settled and an early retry is allowed.
EarlyRetry ==
    /\ retryPhase = "waiting"
    /\ now < deadline
    /\ ~unseen
    /\ pending # NoTime
    /\ now >= Larger(pending + SettleTime, nextAllowed)
    /\ nextAllowed' = now + EarlyInterval
    /\ lastEarly' = now
    /\ StartAttempt

\* The server is shut down.
CancelRetries ==
    /\ retryPhase # "stopped"
    /\ retryPhase' = "stopped"
    /\ UNCHANGED <<now, retryVars, networkVars, deadline, historyVars>>

\* Time passes.
Tick ==
    /\ now < Horizon
    /\ now' = now + 1
    /\ UNCHANGED <<retryPhase, retryVars, networkVars, deadline, historyVars>>

BackoffNext ==
    \/ \E permanent \in BOOLEAN : AttemptFails(permanent)
    \/ BecomesReady \/ ProcessEnds \/ Closed \/ NetworkChange
    \/ TimedRetry \/ SeeChange \/ EarlyRetry \/ CancelRetries \/ Tick

BackoffSpec == BackoffInit /\ [][BackoffNext]_backoffVars

-----------------------------------------------------------------------------
(* Properties                                                              *)

\* Every variable keeps its type; the delay stays between its first and its
\* largest value.
BackoffTypeOK ==
    /\ now \in Nat
    /\ retryPhase \in {"attempt", "ready", "closing", "waiting", "sleeping", "stopped"}
    /\ delay \in FirstDelay .. MaxDelay
    /\ readySince \in Instants
    /\ event \in Nat
    /\ unseen \in BOOLEAN
    /\ pending \in Instants
    /\ nextAllowed \in Nat
    /\ deadline \in Nat
    /\ watchedFrom \in Nat
    /\ lastStart \in Nat
    /\ prevStart \in Instants
    /\ lastEarly \in Instants

\* Among three attempts in a row, the first and the last are at least the first
\* delay or the early interval apart, whichever is smaller: network changes,
\* failures and readiness cannot combine into a retry storm.
NoRetryStorm ==
    [][retryPhase # "attempt" /\ retryPhase' = "attempt" /\ prevStart # NoTime
        => now - prevStart >= Smaller(FirstDelay, EarlyInterval)]_backoffVars

\* Two early retries are at least the early interval apart, whatever happens
\* between them ("allows at most one early retry every 30 seconds"), and each
\* answers a network change that came after the process had ended or its attempt
\* had begun, with the network quiet since for the settling time ("waits for 2
\* seconds without another change").
EarlyRetriesSpaced ==
    [][lastEarly' # lastEarly =>
         /\ lastEarly # NoTime => now - lastEarly >= EarlyInterval
         /\ now >= event + SettleTime /\ event >= watchedFrom]_backoffVars

\* The delay goes back only if the stable time has passed since the process was
\* ready (test only_continuous_stable_readiness_resets_backoff).
ResetNeedsStableTime ==
    [][delay' < delay => readySince # NoTime /\ now - readySince >= StableTime]_backoffVars
=============================================================================
