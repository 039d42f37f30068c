----------------------- MODULE CollectionsProperties -----------------------
EXTENDS Collections

Methods == Writes \cup Reads \cup {"none"}
Results == {"none", "ok", "found", "failed", "broken", "KeyError", "ValueError", "HTTPError"}
Calling == [by : Clients \cup {None}, n : Nat, late : BOOLEAN]
Requests == [by : Clients, n : Nat, op : Writes, keys : SUBSET Keys]

\* The variables have their types, and no request is attempted more often than
\* the retrier was made for.
TypeOK ==
  /\ present \subseteq Keys /\ late \subseteq Requests
  /\ writer \in [Keys -> Calling]
  /\ pc \in [Clients -> {"idle", "sent", "returned"}]
  /\ op \in [Clients -> Methods]
  /\ keys \in [Clients -> SUBSET Keys]
  /\ start \in [Clients -> Nat] /\ total \in [Clients -> Nat]
  /\ tries \in [Clients -> Nat] /\ \A c \in Clients : tries[c] <= MaxAttempts(c)
  /\ extra \in [Clients -> Nat]
  /\ result \in [Clients -> Results]
  /\ always \in [Clients -> SUBSET Keys] /\ ever \in [Clients -> SUBSET Keys]
  /\ acked \in [Clients -> [Keys -> Nat]] /\ calls \in [Clients -> Nat]

\* A count that other clients disturb, page by page and attempt by attempt, is at
\* least the number of keys that were there all the time, and at most the number
\* of keys that were there at some time (_batch adds each page once).
CountInBetween ==
  \A c \in Clients : (pc[c] = "returned" /\ op[c] = "count" /\ result[c] = "ok") =>
    /\ Cardinality(always[c]) <= total[c]
    /\ total[c] <= Cardinality(ever[c])

\* A get that finds its key, or reports that there is none, says what was the case
\* at some time of the call.
GetWasSo ==
  \A c \in Clients : (pc[c] = "returned" /\ op[c] = "get") =>
    /\ result[c] = "found" => keys[c] \subseteq ever[c]
    /\ result[c] = "KeyError" => ~ keys[c] \subseteq always[c]

\* A write that returned was served: what an earlier call of the same client wrote
\* comes back only with a request of it that was under way all the time.
AckedHolds ==
  \A c \in Clients, k \in Keys :
    /\ acked[c][k] > 0 => writer[k] # Nobody
    /\ writer[k].by = c => writer[k].n >= acked[c][k] \/ writer[k].late

\* The retrier gives up only after all the attempts it was made for, or, with a
\* limit of time, if the attempts and the jitter took more than three quarters of
\* the limit: the exponential waits before the last attempt leave at least that
\* much of it (_create_retrier's formula).  How many attempts the retrier is made
\* for is RetriedAsGiven's question.
AttemptsAsConfigured ==
  \A c \in Clients : (pc[c] = "returned" /\ result[c] = "failed") =>
    \/ tries[c] = MaxAttempts(c)
    \/ ~OnlyRetries(c) /\ extra[c] >= 3 * Power2[MaxAttempts(c) - 1]

\* "max_retries (int): The number of time idempotent requests may be retried", the
\* docstring of HubstorageClient (client.py:78): with a max_retries, whatever the
\* max_retry_time, a request is attempted at most once more than that.
RetriedAsGiven == \A c \in Clients : MaxRetries[c] # None => tries[c] <= MaxRetries[c] + 1

\* Every call ends, a count of many pages too: each client is idle again and again.
CallsEnd == \A c \in Clients : []<>(pc[c] = "idle")
=============================================================================
