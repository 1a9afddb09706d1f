---------------------------- MODULE RateLimiter ----------------------------
(***************************************************************************)
(* The token bucket of internal/middleware/rate_limit.go, one for all      *)
(* clients of the router.                                                  *)
(*                                                                         *)
(* Allow reads the monotonic clock and updates the bucket under one lock,  *)
(* so that a request is one step. Time is in ticks of 1/K second and the   *)
(* bucket in K-ths of a token, for any K: a tick then adds Rate units. The *)
(* rounding of float64 is left out.                                        *)
(***************************************************************************)
EXTENDS Integers

CONSTANTS
    K,          \* ticks in a second, and units in a token
    Rate,       \* ratePerSecond
    Capacity,   \* tokens the bucket can hold
    MaxTime     \* bound on the clock

ASSUME RateAssumption ==
    /\ K \in Nat \ {0}
    /\ Rate \in Nat
    /\ Capacity \in Nat
    /\ MaxTime \in Nat

Cap == Capacity * K

VARIABLES
    now,        \* the clock
    lastCheck, tokens,
    answer,     \* what the middleware did with the request of this instant
    from,       \* history: when the observed window began
    admitted,   \* history: the requests admitted in the window
    full,       \* history: when the bucket was full last
    since       \* history: the requests admitted since then

bucketVars == <<lastCheck, tokens>>
rvars == <<now, bucketVars, answer, from, admitted, full, since>>

RateTypeOK ==
    /\ now \in 0 .. MaxTime
    /\ lastCheck \in 0 .. now
    /\ tokens \in 0 .. Cap
    /\ answer \in {"none", "next", "refused"}
    /\ from \in 0 .. now
    /\ admitted \in Nat
    /\ full \in 0 .. now
    /\ since \in Nat

(* NewRateLimiter: the bucket is full. *)
RateInit ==
    /\ now = 0
    /\ lastCheck = now
    /\ tokens = Cap
    /\ answer = "none"
    /\ from = 0
    /\ admitted = 0
    /\ full = 0
    /\ since = 0

-----------------------------------------------------------------------------
(* What the bucket holds once the time since lastCheck is paid in. *)
Paid == tokens + (now - lastCheck) * Rate

(* A bug: no cap. *)
BugRefilledUncapped == Paid

Refilled == IF Paid > Cap THEN Cap ELSE Paid

(* The history variables of a check: whether the bucket was full, and      *)
(* whether the request is admitted.                                        *)
Record(admits) ==
    LET n == IF admits THEN 1 ELSE 0
    IN  /\ full' = IF Paid > Cap THEN now ELSE full
        /\ since' = n + IF Paid > Cap THEN 0 ELSE since
        /\ admitted' = admitted + n
        /\ UNCHANGED <<now, from>>

(* A bug: lastCheck stays, and the same time is paid in again. *)
BugAllowKeepsCheck ==
    /\ Refilled >= K
    /\ tokens' = Refilled - K
    /\ answer' = "next"
    /\ UNCHANGED lastCheck
    /\ Record(TRUE)

(* Allow returns true and the handler runs. *)
Allow ==
    /\ Refilled >= K
    /\ tokens' = Refilled - K
    /\ lastCheck' = now
    /\ answer' = "next"
    /\ Record(TRUE)

(* A bug: a refused request loses the part of a token paid in for it. *)
BugRefuseLosesPart ==
    /\ Refilled < K
    /\ lastCheck' = now
    /\ answer' = "refused"
    /\ UNCHANGED tokens
    /\ Record(FALSE)

(* Allow returns false: status 429. What was paid in is kept. *)
Refuse ==
    /\ Refilled < K
    /\ tokens' = Refilled
    /\ lastCheck' = now
    /\ answer' = "refused"
    /\ Record(FALSE)

(* /health and /metrics do not reach the limiter. *)
Skip ==
    /\ answer' = "next"
    /\ UNCHANGED <<now, bucketVars, from, admitted, full, since>>

(* Time passes. *)
Tick ==
    /\ now < MaxTime
    /\ now' = now + 1
    /\ answer' = "none"
    /\ UNCHANGED <<bucketVars, from, admitted, full, since>>

(* An observer begins to count: the properties hold of every window. *)
OpenWindow ==
    /\ from' = now
    /\ admitted' = 0
    /\ UNCHANGED <<now, bucketVars, answer, full, since>>

RateNext ==
    \/ Allow
    \/ Refuse
    \/ Skip
    \/ Tick
    \/ OpenWindow

RateSpec == RateInit /\ [][RateNext]_rvars

-----------------------------------------------------------------------------
(* In a window of any length, begun at any time, no more requests are      *)
(* admitted than the capacity and what the rate pays for its length        *)
(* (rate_limit.go:31-53).                                                  *)
WindowBound == admitted * K <= Cap + (now - from) * Rate

(* A request is refused only if the bound above leaves no room for it in   *)
(* the window since the bucket was full last: how often and when the       *)
(* limiter was asked in between does not matter (rate_limit.go:38-52).     *)
RefusalJustified ==
    answer = "refused" => (since + 1) * K > Cap + (now - full) * Rate
=============================================================================
