---------------------------- MODULE ObjectRetrier ----------------------------
(***************************************************************************)
(* ObjectRetrierWraps of utilities/__init__.py: one call through a wrapped *)
(* client.  The service may carry the request out and the call still raise *)
(* (an answer that is lost), so the effects on the service are counted.    *)
(***************************************************************************)
EXTENDS Naturals, FiniteSets, FiniteSetsExt

CONSTANTS
  Configs,     \* the __kwargs to consider: records of the fields used below;
               \* retry_exceptions is a set, or {"any"} for None
  Exceptions,  \* exceptions the wrapped call may raise
  NeverRetry   \* NEVER_RETRY_EXCEPTIONS

ASSUME RetrierAssumption ==
  /\ NeverRetry \subseteq Exceptions
  /\ \A c \in Configs :
       /\ {c.num_retries, c.max_interval, c.total_wait} \subseteq Nat
       /\ {c.initial_interval, c.backoff} \subseteq Nat \ {0}
       /\ c.retry_exceptions = {"any"} \/ c.retry_exceptions \subseteq Exceptions

VARIABLES
  kwargs,       \* the configuration
  rpc,          \* "call", "sleep", "returned" or "raised"
  retry,        \* failed attempts that were to be retried
  wait,         \* next interval
  wait_so_far,  \* time slept
  calls,        \* calls made of the wrapped object
  effects,      \* calls that the service carried out
  error         \* exception of the last call, or "none"

rvars == <<kwargs, rpc, retry, wait, wait_so_far, calls, effects, error>>

RInit ==
  /\ kwargs \in Configs
  /\ rpc = "call"
  /\ retry = 0 /\ wait = kwargs.initial_interval /\ wait_so_far = 0
  /\ calls = 0 /\ effects = 0
  /\ error = "none"

FirstOnly(e) == e \notin NeverRetry /\ retry = 0

\* Whether the exception is one that a call is repeated for.
Retriable(e) ==
  /\ e \notin NeverRetry
  /\ kwargs.retry_exceptions = {"any"} \/ e \in kwargs.retry_exceptions

ExceededLate(n) == n > kwargs.num_retries + 1

Exceeded(n) == n > kwargs.num_retries

\* return obj(*args, **kwargs).
CallReturns ==
  /\ rpc = "call"
  /\ rpc' = "returned"
  /\ calls' = calls + 1 /\ effects' = effects + 1
  /\ UNCHANGED <<kwargs, retry, wait, wait_so_far, error>>

\* The call raises, before or after it took effect; the handler raises the
\* exception again or goes on to time.sleep.
CallRaises(e) ==
  /\ rpc = "call"
  /\ error' = e
  /\ calls' = calls + 1
  /\ effects' \in {effects, effects + 1}
  /\ retry' = IF Retriable(e) THEN retry + 1 ELSE retry
  /\ rpc' = IF Retriable(e) /\ ~Exceeded(retry') THEN "sleep" ELSE "raised"
  /\ UNCHANGED <<kwargs, wait, wait_so_far>>

WaitedEnough(t) == t >= kwargs.total_wait

\* The next interval: the last one times the backoff, cut at max_interval.
NextWait == Min({wait * kwargs.backoff, kwargs.max_interval})

\* time.sleep, then the test of the total and the next interval.
Sleep ==
  /\ rpc = "sleep"
  /\ wait_so_far' = wait_so_far + wait
  /\ IF WaitedEnough(wait_so_far')
       THEN rpc' = "raised" /\ UNCHANGED wait
       ELSE rpc' = "call" /\ wait' = NextWait
  /\ UNCHANGED <<kwargs, retry, calls, effects, error>>

RTerminated == rpc \in {"returned", "raised"} /\ UNCHANGED rvars

RNext == CallReturns \/ (\E e \in Exceptions : CallRaises(e)) \/ Sleep \/ RTerminated

RSpec == RInit /\ [][RNext]_rvars

-----------------------------------------------------------------------------
\* The wrapped call is made, and so the request carried out, at most once more
\* than num_retries allows retries, whatever the mixture of exceptions.
CallsBounded == effects <= calls /\ calls <= kwargs.num_retries + 1

\* What __init__ documents to be retried.
Listed(e) == kwargs.retry_exceptions = {"any"} \/ e \in kwargs.retry_exceptions

\* A call that gives up has used all its retries or all its time, unless its
\* last exception is one not to be retried.
GivesUpOnlyWhenSpent ==
  rpc = "raised" /\ error \notin NeverRetry /\ Listed(error) =>
    calls = kwargs.num_retries + 1 \/ wait_so_far >= kwargs.total_wait
=============================================================================
