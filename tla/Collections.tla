---------------------------- MODULE Collections ----------------------------
(***************************************************************************)
(* A collection of a project: hubstorage/collectionsrt.py and Collection   *)
(* of client/collections.py, over the retrier that hubstorage/client.py    *)
(* makes of max_retries and max_retry_time.  All of its requests are said  *)
(* to be idempotent, so each goes through the retrier; a request whose     *)
(* answer did not come may have been served, or be served later.           *)
(***************************************************************************)
EXTENDS Integers, FiniteSets

CONSTANTS
  Clients,     \* client objects, each with one call at a time
  N,           \* keys are 1..N, in the order in which the server counts them
  Batches,     \* sets of keys that callers write together
  PageSize,    \* keys that one request of a count covers
  MaxRetries,  \* the argument max_retries of each client, None if not given
  DefaultRetries,  \* RETRY_DEFAULT_MAX_RETRIES
  Timed,       \* clients created with max_retry_time
  None,
  Delays,      \* what a failed attempt may take, and
  Jitters,     \* what wait_jitter_max may add to a wait, both in units of the
               \* multiplier of the exponential wait (where a limit counts them)
  Codes,       \* statuses that are not retried
  MaxCalls,    \* bound: calls that each client starts
  MaxLate      \* bound: requests under way whose client waits no more

ASSUME CollectionsAssumption ==
  /\ N \in Nat /\ PageSize \in Nat \ {0} /\ Batches \subseteq SUBSET (1..N)
  /\ MaxRetries \in [Clients -> Nat \cup {None}] /\ Timed \subseteq Clients
  /\ None \notin Nat /\ DefaultRetries \in Nat /\ Codes \subseteq 400..599 \ {404}
  /\ 0 \in Delays /\ Delays \subseteq Nat /\ 0 \in Jitters /\ Jitters \subseteq Nat
  /\ MaxCalls \in [Clients -> Nat] /\ MaxLate \in Nat

Keys == 1..N

VARIABLES
  present,  \* server: the keys that are set
  writer,   \* history: the call that last wrote each key
  late,     \* requests under way whose client waits no more
  pc,       \* a client's call: "idle", "sent", "returned"
  op,       \* the method called
  keys,     \* the keys it names
  start,    \* getparams['start'] of a count
  total,    \* total of a count
  tries,    \* failed attempts of the current request
  spent,    \* time since its first attempt
  extra,    \* history: how much of it the attempts and the jitter took
  result,   \* how the call ended
  always,   \* history: keys that were set all the time of the call
  ever,     \* history: keys that were set at some time of the call (both for reads)
  acked,    \* history: each client's last call that wrote a key and returned
  calls     \* how many calls were started

serverVars == <<present, writer, late>>
callVars   == <<pc, op, keys, start, total, calls, acked>>
retryVars  == <<tries, spent, extra, result>>
seenVars   == <<always, ever>>
vars == <<serverVars, callVars, retryVars, seenVars>>

Nobody == [by |-> None, n |-> 0, late |-> FALSE]

Init ==
  /\ present = {} /\ writer = [k \in Keys |-> Nobody] /\ late = {}
  /\ pc = [c \in Clients |-> "idle"] /\ op = [c \in Clients |-> "none"]
  /\ keys = [c \in Clients |-> {}]
  /\ start = [c \in Clients |-> 1] /\ total = [c \in Clients |-> 0]
  /\ tries = total /\ spent = total /\ calls = total
  /\ extra = total /\ result = op
  /\ always = keys /\ ever = keys
  /\ acked = [c \in Clients |-> [k \in Keys |-> 0]]

(***************************************************************************)
(* HubstorageClient._create_retrier.  A max_retries of 0 is false: with a  *)
(* max_retry_time it means the default.  The unit of time is the           *)
(* multiplier, of which the given (or default) time has MaxDelay.          *)
(***************************************************************************)
OnlyRetries(c) == MaxRetries[c] # None /\ c \notin Timed

MaxAttempts(c) ==
  IF OnlyRetries(c) \/ MaxRetries[c] \notin {None, 0}
  THEN MaxRetries[c] + 1
  ELSE DefaultRetries + 1

Power2[n \in Nat] == IF n = 0 THEN 1 ELSE 2 * Power2[n - 1]

\* The wait is such that the retries fit in the delay; a mutant does not count
\* the first attempt.
DelayOfRetries(c) == Power2[MaxAttempts(c) - 1] - 2
MaxDelay(c) == Power2[MaxAttempts(c) + 1] - 2

\* After an attempt that failed t after the first began.
StopRetrying(c, t) ==
  \/ tries[c] + 1 >= MaxAttempts(c)
  \/ ~OnlyRetries(c) /\ t >= MaxDelay(c)

Wait(c) == Power2[tries[c] + 1]

(***************************************************************************)
(* Calls.                                                                  *)
(***************************************************************************)
\* Retrying counts the attempts of one call(func).
NewCount(c) ==
  /\ tries' = [tries EXCEPT ![c] = 0]
  /\ spent' = [spent EXCEPT ![c] = 0]
  /\ extra' = [extra EXCEPT ![c] = 0]

Request(c) == pc' = [pc EXCEPT ![c] = "sent"] /\ NewCount(c)

Writes == {"set", "delete", "truncate"}
Reads == {"get", "count"}

Begin(c, method, K) ==
  /\ pc[c] = "idle" /\ calls[c] < MaxCalls[c]
  /\ Request(c)
  /\ op' = [op EXCEPT ![c] = method] /\ keys' = [keys EXCEPT ![c] = K]
  /\ start' = [start EXCEPT ![c] = 1] /\ total' = [total EXCEPT ![c] = 0]
  /\ always' = [always EXCEPT ![c] = IF method \in Writes THEN {} ELSE present]
  /\ ever' = [ever EXCEPT ![c] = IF method \in Writes THEN {} ELSE present]
  /\ calls' = [calls EXCEPT ![c] = @ + 1]
  /\ UNCHANGED <<serverVars, result, acked>>

Set(c, K) == Begin(c, "set", K)
Delete(c, K) == Begin(c, "delete", K)
Truncate(c) == Begin(c, "truncate", Keys)
Get(c, k) == Begin(c, "get", {k})
Count(c) == Begin(c, "count", Keys)

Sent(c, methods) == pc[c] = "sent" /\ op[c] \in methods

Return(c, how) ==
  /\ pc' = [pc EXCEPT ![c] = "returned"]
  /\ result' = [result EXCEPT ![c] = how]

(***************************************************************************)
(* An attempt that fails with an error to retry: the next one is made      *)
(* after the wait, or the error is raised.  A mutant returns instead.      *)
(***************************************************************************)
Swallowed(c) == IF op[c] \in Writes THEN "ok" ELSE "failed"
GivenUp(c) == "failed"

Acknowledged(c, how) ==
  acked' = IF op[c] \in Writes /\ how = "ok"
           THEN [acked EXCEPT ![c] = [k \in Keys |-> IF k \in keys[c] THEN calls[c] ELSE @[k]]]
           ELSE acked

AttemptFails(c) ==
  \E d \in Delays, j \in Jitters :
    LET t == spent[c] + d IN
    /\ OnlyRetries(c) => d = 0 /\ j = 0
    /\ tries' = [tries EXCEPT ![c] = @ + 1]
    /\ IF StopRetrying(c, t)
       THEN /\ Return(c, GivenUp(c)) /\ Acknowledged(c, GivenUp(c))
            /\ spent' = [spent EXCEPT ![c] = 0]
            /\ extra' = [extra EXCEPT ![c] = @ + d]
       ELSE /\ spent' = [spent EXCEPT ![c] = t + Wait(c) + j]
            /\ extra' = [extra EXCEPT ![c] = @ + d + j]
            /\ UNCHANGED <<pc, result, acked>>
    /\ UNCHANGED <<op, keys, start, total, calls>>

\* The server serves a write of call n of client c.
Effect(c, n, method, K, isLate) ==
  /\ present' = IF method = "set" THEN present \cup K ELSE present \ K
  /\ writer' = [k \in Keys |-> IF k \in K THEN [by |-> c, n |-> n, late |-> isLate]
                                         ELSE writer[k]]
  /\ always' = [x \in Clients |-> IF Sent(x, Reads) THEN always[x] \cap present' ELSE always[x]]
  /\ ever' = [x \in Clients |-> IF Sent(x, Reads) THEN ever[x] \cup present' ELSE ever[x]]

\* A write is served, and answered or not.
ServeWrite(c) ==
  /\ Sent(c, Writes)
  /\ Effect(c, calls[c], op[c], keys[c], FALSE)
  /\ \/ /\ Return(c, "ok") /\ Acknowledged(c, "ok")
        /\ NewCount(c) /\ UNCHANGED <<op, keys, start, total, calls>>
     \/ AttemptFails(c)
  /\ UNCHANGED late

\* It arrives after the client stopped waiting for its answer.
Delay(c) ==
  /\ Sent(c, Writes) /\ Cardinality(late) < MaxLate
  /\ late' = late \cup {[by |-> c, n |-> calls[c], op |-> op[c], keys |-> keys[c]]}
  /\ AttemptFails(c)
  /\ UNCHANGED <<present, writer, seenVars>>

ServeLate ==
  \E r \in late :
    /\ late' = late \ {r}
    /\ Effect(r.by, r.n, r.op, r.keys, TRUE)
    /\ UNCHANGED <<callVars, retryVars>>

Lose(c) ==
  /\ pc[c] = "sent" /\ AttemptFails(c)
  /\ UNCHANGED <<serverVars, seenVars>>

\* The body of the answer breaks: the exception is none of those that are retried.
AnswerBreaks(c) ==
  /\ pc[c] = "sent" /\ Return(c, "broken")
  /\ IF op[c] \in Writes
     THEN Effect(c, calls[c], op[c], keys[c], FALSE)
     ELSE UNCHANGED <<present, writer, seenVars>>
  /\ NewCount(c) /\ UNCHANGED <<late, op, keys, start, total, calls, acked>>

(***************************************************************************)
(* Collections.get: 404 is a KeyError, 400 a ValueError (a NotFound and a  *)
(* BadRequest of client/exceptions.py under client/collections.py);        *)
(* _batch: pages of a count until an answer has no nextstart.              *)
(***************************************************************************)
\* A mutant takes every status for a missing key.
AnyIsMissing(method, code) == "KeyError"
ErrorOf(method, code) ==
  CASE code = 404 /\ method = "get" -> "KeyError"
    [] code = 400 /\ method \in {"get", "set", "count"} -> "ValueError"
    [] code = 413 /\ method = "set" -> "ValueError"
    [] OTHER -> "HTTPError"

Answered(c, how) ==
  /\ Return(c, how)
  /\ NewCount(c) /\ UNCHANGED <<serverVars, op, keys, start, total, calls, acked, seenVars>>

ServeGet(c) ==
  /\ Sent(c, {"get"})
  /\ Answered(c, IF keys[c] \subseteq present THEN "found" ELSE ErrorOf(op[c], 404))

\* A status that is not retried.
Refuse(c, code) ==
  /\ pc[c] = "sent"
  /\ Answered(c, ErrorOf(op[c], code))

Page(c) == {k \in Keys : start[c] <= k /\ k < start[c] + PageSize}
NextStart(c) ==
  IF \E k \in present : k >= start[c] + PageSize THEN start[c] + PageSize ELSE None

\* Mutants: the total of the last page only; the same page again and again.
LastOnly(c, n) == n
Total(c, n) == total[c] + n
Unmoved(c, next) == start[c]
Moved(c, next) == next

ServeCount(c) ==
  LET next == NextStart(c) IN
  /\ Sent(c, {"count"})
  /\ total' = [total EXCEPT ![c] = Total(c, Cardinality(present \cap Page(c)))]
  /\ IF next = None
     THEN Return(c, "ok") /\ NewCount(c) /\ UNCHANGED start
     ELSE /\ start' = [start EXCEPT ![c] = Moved(c, next)]
          /\ Request(c) /\ UNCHANGED result
  /\ UNCHANGED <<serverVars, op, keys, calls, acked, seenVars>>

Leave(c) ==
  /\ pc[c] = "returned"
  /\ pc' = [pc EXCEPT ![c] = "idle"] /\ op' = [op EXCEPT ![c] = "none"]
  /\ keys' = [keys EXCEPT ![c] = {}] /\ result' = [result EXCEPT ![c] = "none"]
  /\ start' = [start EXCEPT ![c] = 1] /\ total' = [total EXCEPT ![c] = 0]
  /\ NewCount(c)
  /\ always' = [always EXCEPT ![c] = {}] /\ ever' = [ever EXCEPT ![c] = {}]
  /\ UNCHANGED <<serverVars, calls, acked>>

----------------------------------------------------------------------------
Calls(c) ==
  \/ \E K \in Batches : Set(c, K) \/ Delete(c, K)
  \/ \E k \in Keys : Get(c, k)
  \/ Truncate(c) \/ Count(c)

InCall(c) ==
  \/ ServeWrite(c) \/ ServeGet(c) \/ ServeCount(c) \/ Lose(c) \/ Delay(c)
  \/ AnswerBreaks(c) \/ Leave(c)
  \/ \E code \in Codes : Refuse(c, code)

Next == ServeLate \/ \E c \in Clients : Calls(c) \/ InCall(c)

Spec == Init /\ [][Next]_vars

\* A request has a timeout, and a thread inside a call is scheduled.
Fairness == \A c \in Clients : WF_vars(InCall(c))
FairSpec == Spec /\ Fairness
=============================================================================
