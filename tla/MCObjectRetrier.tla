--------------------------- MODULE MCObjectRetrier ---------------------------
(***************************************************************************)
(* ObjectRetrier with the defaults of __init__ (in units of 5 seconds:     *)
(* interval 1, maximum 3, total 6) and the values around each limit.       *)
(***************************************************************************)
EXTENDS ObjectRetrier

Kwargs(num, initial, backoff, total, lists) ==
  [num_retries : num, initial_interval : initial, backoff : backoff,
   max_interval : {3}, total_wait : total, retry_exceptions : lists]

\* retry_on_connect_failure passes {"ConnectFailure"}, its callers' lists may
\* hold more.
RetryLists == {{"any"}, {"ConnectFailure"}, {"ConnectFailure", "KeyError"}}

\* Also an initial interval above the maximum, which is then slept once.
MCConfigs == Kwargs(0..3, 1..4, 1..3, {0, 1, 5, 6, 7}, RetryLists)
=============================================================================
