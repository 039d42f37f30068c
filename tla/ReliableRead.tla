---------------------------- MODULE ReliableRead ----------------------------
(***************************************************************************)
(* Reading the items of a job: hubstorage/resourcetype.py (_retry and its  *)
(* two users iter_json and iter_msgpack), the request retrier of           *)
(* hubstorage/client.py under it, Items.list_iter of client/items.py above *)
(* it, and the older reader of legacy.py, Job.items.                       *)
(*                                                                         *)
(* The item at position i of the job is the number i.  Job.items and the   *)
(* json reader receive a line, which is an item, at a time.  The msgpack   *)
(* reader receives chunks of bytes; item i is the bytes 2i and 2i+1, so    *)
(* that a chunk may end inside an item.                                    *)
(***************************************************************************)
EXTENDS Integers, Sequences

CONSTANTS
  Formats,       \* the readers that are used, of "json", "msgpack", "legacy"
  StreamFaults,  \* the readers whose connection may break inside a response
  Timed,         \* the readers whose requests have a timeout: those of the hubstorage
                 \* client, and Job.items if its Connection was given one
  MaxItems,      \* bound: the items a job can come to have
  MaxAttempts,   \* MAX_RETRIES
  MaxRequests,   \* the retrier's stop_max_attempt_number
  MaxChunk,      \* bound: the bytes of a chunk
  Firsts,        \* the start positions callers ask for
  Limits,        \* the counts they ask for
  Widths,        \* the chunk sizes list_iter is called with
  Unlimited      \* stands for the count of a caller that gives none: never reached

ASSUME ReaderAssumption ==
  /\ Formats \subseteq {"json", "msgpack", "legacy"} /\ StreamFaults \subseteq Formats
  /\ Formats \ {"legacy"} \subseteq Timed /\ Timed \subseteq Formats
  /\ MaxItems \in Nat /\ MaxAttempts \in Nat \ {0} /\ MaxRequests \in Nat \ {0}
  /\ MaxChunk \in Nat \ {0} /\ Firsts \subseteq Nat
  /\ Limits \subseteq Nat \ {0} /\ Widths \subseteq Nat \ {0}
  /\ Unlimited \in Nat /\ Unlimited > MaxItems /\ \A n \in Widths : Unlimited > MaxItems + n

VARIABLES
  size,       \* server: how many items the job has by now
  fmt,        \* the reader of the call
  first, limit,   \* the call's start and count
  had,        \* history: size when the call was made
  width,      \* list_iter: chunksize, 0 for a plain iter
  start, processed,   \* list_iter: its two counters
  got,        \* what the current iter has produced
  out,        \* list_iter: the lists it has yielded, concatenated
  gaveup,     \* history: an iter ended for want of attempts
  params,     \* _retry: the apiparams start, startafter and count
  attempt,    \* _retry: attempts that failed
  last,       \* _retry: the key of the last line, NoLine for none
  retrieved,  \* Job.items: lines of this attempt
  tries,      \* Retrying: requests of this attempt that failed
  body,       \* what the response has yet to deliver
  buffer,     \* mpdecode: the unpacker's bytes of an item not complete yet
  pc          \* where the call stands

callVars  == <<fmt, first, limit, had>>
chunkVars == <<width, start, processed, out>>
retryVars == <<params, attempt, last, retrieved, tries>>
vars == <<size, callVars, chunkVars, got, gaveup, retryVars, body, buffer, pc>>

NoLine == -1
Torn == -1          \* what the bytes of two different items decode to
NoParams == [start |-> 0, after |-> NoLine, count |-> Unlimited]

Lesser(a, b) == IF a < b THEN a ELSE b
Greater(a, b) == IF a > b THEN a ELSE b
Consecutive(s, a) == \A i \in 1..Len(s) : s[i] = a + i - 1

\* The server: count items at most, none if that is 0, from start on and after
\* startafter.
From(p) == Greater(p.start, p.after + 1)
Served(p) == [i \in 1..Greater(0, Lesser(p.count, size - From(p))) |-> From(p) + i - 1]

\* msgpack: the bytes of items, and the items that bytes decode to.
Packed(s) == [k \in 1..(2 * Len(s)) |-> 2 * s[(k + 1) \div 2] + (IF k % 2 = 1 THEN 0 ELSE 1)]
Whole(b, j) == b[2 * j - 1] % 2 = 0 /\ b[2 * j] = b[2 * j - 1] + 1
Unpacked(b) ==
  [j \in 1..(Len(b) \div 2) |-> IF Whole(b, j) THEN b[2 * j] \div 2 ELSE Torn]
Incomplete(b) == SubSeq(b, 2 * (Len(b) \div 2) + 1, Len(b))

Init ==
  /\ size \in 0..MaxItems
  /\ fmt \in Formats /\ first = 0 /\ limit = Unlimited /\ had = 0
  /\ width = 0 /\ start = 0 /\ processed = 0 /\ out = <<>>
  /\ got = <<>> /\ gaveup = FALSE
  /\ params = NoParams /\ attempt = 0 /\ last = NoLine /\ retrieved = 0 /\ tries = 0
  /\ body = <<>> /\ buffer = <<>>
  /\ pc = "idle"

\* The job is still running.
ItemArrives ==
  /\ size < MaxItems
  /\ size' = size + 1
  /\ UNCHANGED <<callVars, chunkVars, got, gaveup, retryVars, body, buffer, pc>>

\* A new generator: its own parameters, attempts and unpacker.
Begin(from, count) ==
  /\ params' = [start |-> from, after |-> NoLine, count |-> count]
  /\ attempt' = 0 /\ last' = NoLine
  /\ got' = <<>> /\ buffer' = <<>>
  /\ pc' = "attempt"

Calls(a, n) ==
  /\ pc = "idle"
  /\ first' = a /\ limit' = n /\ had' = size

Iter(a, n) ==
  /\ Calls(a, n)
  /\ Begin(a, n)
  /\ UNCHANGED <<size, fmt, chunkVars, gaveup, retrieved, tries, body>>

ListIter(a, n, c) ==
  /\ Calls(a, n) /\ fmt # "legacy"
  /\ width' = c /\ start' = a /\ pc' = "chunk"
  /\ UNCHANGED <<size, fmt, processed, out, got, gaveup, retryVars, body, buffer>>

(***************************************************************************)
(* _retry                                                                  *)
(***************************************************************************)
\* _add_resume_param: after the last line, from wherever the first attempt
\* started if there is none.  A mutant leaves the parameters as they are.
NotResumed(p) == p
Resumed(p) ==
  IF last = NoLine THEN p ELSE [p EXCEPT !.after = last, !.start = 0]

\* The head of `for attempt in range(MAX_RETRIES)`, and its else clause, which
\* logs an error and ends the iteration as if all had been read.
Attempt ==
  /\ pc = "attempt"
  /\ IF attempt < MaxAttempts
     THEN /\ pc' = "request" /\ UNCHANGED gaveup
          /\ params' = IF fmt = "json" THEN Resumed(params) ELSE params
          /\ tries' = 0 /\ retrieved' = 0
     ELSE pc' = "ended" /\ gaveup' = TRUE /\ UNCHANGED <<params, tries, retrieved>>
  /\ UNCHANGED <<size, callVars, chunkVars, got, attempt, last, body, buffer>>

\* The except clause.  Job.items moves its offset and its count by what this
\* attempt brought, the count as far as 0; a mutant forgets the count.
CountLeftAlone(p) == p.count
CountLeft(p) == p.count - retrieved

\* A mutant does not count the attempts.
AttemptForgotten == attempt
NextAttempt == attempt + 1

Retry ==
  /\ attempt' = NextAttempt
  /\ params' = IF fmt = "legacy"
               THEN [start |-> params.start + retrieved, after |-> NoLine,
                     count |-> CountLeft(params)]
               ELSE params
  /\ pc' = "attempt"

StreamFails ==
  /\ pc = "stream" /\ fmt \in StreamFaults
  /\ Retry
  /\ UNCHANGED <<size, callVars, chunkVars, got, gaveup, last, retrieved, tries, body, buffer>>

(***************************************************************************)
(* HubstorageClient.request under the retrier                              *)
(***************************************************************************)
RequestServed ==
  /\ pc = "request" /\ pc' = "stream"
  /\ body' = IF fmt = "msgpack" THEN Packed(Served(params)) ELSE Served(params)
  /\ UNCHANGED <<size, callVars, chunkVars, got, gaveup, retryVars, buffer>>

\* A status worth a retry ("busy"), any other error status ("status"), a failed
\* or timed out connection ("connection"), another RequestException ("other").
RetryOnException(why) == why \in {"busy", "connection"}

RequestAgain(why) ==
  /\ pc = "request" /\ fmt # "legacy"
  /\ RetryOnException(why) /\ tries + 1 < MaxRequests
  /\ tries' = tries + 1
  /\ UNCHANGED <<size, callVars, chunkVars, got, gaveup, params, attempt, last, retrieved,
                 body, buffer, pc>>

\* The retrier lets the exception through: not one to retry, the attempts are
\* used up, or stop_max_delay has passed.  _retry raises an HTTPError again.
RequestFails(why) ==
  /\ pc = "request"
  /\ IF why \in {"busy", "status"}
     THEN pc' = "raised" /\ UNCHANGED <<attempt, params>>
     ELSE Retry
  /\ UNCHANGED <<size, callVars, chunkVars, got, gaveup, last, retrieved, tries, body, buffer>>

\* Connection._decode_response raises for 404 and for 500 to 599 only.  The body
\* of any other error is taken for lines of items: what is no JSON raises a
\* ValueError, which Job.items retries; an error object is yielded like an item,
\* and an empty body ends the iteration.  What such a call goes on to deliver is
\* not followed further, and nothing is promised of it ("astray").
ErrorDecoded ==
  /\ pc = "request" /\ fmt = "legacy"
  /\ Retry \/ (pc' = "astray" /\ UNCHANGED <<attempt, params>>)
  /\ UNCHANGED <<size, callVars, chunkVars, got, gaveup, last, retrieved, tries, body, buffer>>

(***************************************************************************)
(* The response                                                            *)
(***************************************************************************)
ReceiveLine ==
  /\ pc = "stream" /\ fmt # "msgpack" /\ body # <<>>
  /\ got' = Append(got, Head(body)) /\ last' = Head(body)
  /\ body' = Tail(body)
  /\ retrieved' = retrieved + 1
  /\ UNCHANGED <<size, callVars, chunkVars, gaveup, params, attempt, tries, buffer, pc>>

ReceiveBytes(n) ==
  LET fed == buffer \o SubSeq(body, 1, n) IN
  /\ pc = "stream" /\ fmt = "msgpack" /\ n <= Len(body)
  /\ got' = got \o Unpacked(fed)
  /\ buffer' = Incomplete(fed)
  /\ body' = SubSeq(body, n + 1, Len(body))
  /\ UNCHANGED <<size, callVars, chunkVars, gaveup, retryVars, pc>>

StreamEnds ==
  /\ pc = "stream" /\ body = <<>>
  /\ pc' = "ended"
  /\ UNCHANGED <<size, callVars, chunkVars, got, gaveup, retryVars, body, buffer>>

(***************************************************************************)
(* The caller's side: a plain iter is over, list_iter yields its list and  *)
(* goes on.                                                                *)
(***************************************************************************)
EndIter ==
  /\ pc = "ended" /\ width = 0
  /\ pc' = "done"
  /\ UNCHANGED <<size, callVars, chunkVars, got, gaveup, retryVars, body, buffer>>

\* Mutants stop when the next list would be the last one, and go on by the length
\* that was asked for.
EnoughEarly == processed' + width >= limit
Enough == processed' >= limit
AdvanceByWidth == width
Advance == Len(got)

EndChunk ==
  /\ pc = "ended" /\ width > 0
  /\ out' = out \o got
  /\ processed' = processed + Len(got)
  /\ start' = start + Advance
  /\ pc' = IF Enough \/ Len(got) < width THEN "done" ELSE "chunk"
  /\ UNCHANGED <<size, callVars, width, got, gaveup, retryVars, body, buffer>>

NextChunk ==
  /\ pc = "chunk"
  /\ width' = Lesser(width, limit - processed)
  /\ Begin(start, width')
  /\ UNCHANGED <<size, callVars, start, processed, out, gaveup, retrieved, tries, body>>

Reader ==
  \/ Attempt \/ StreamFails \/ RequestServed
  \/ \E why \in {"busy", "status", "connection", "other"} :
       RequestAgain(why) \/ RequestFails(why)
  \/ ErrorDecoded
  \/ ReceiveLine \/ (\E n \in 1..MaxChunk : ReceiveBytes(n)) \/ StreamEnds
  \/ EndIter \/ EndChunk \/ NextChunk

Next ==
  \/ \E a \in Firsts, n \in Limits \cup {Unlimited} : Iter(a, n)
  \/ \E a \in Firsts, n \in Limits \cup {Unlimited}, c \in Widths : ListIter(a, n, c)
  \/ Reader
  \/ ItemArrives

Spec == Init /\ [][Next]_vars

\* A request with a timeout comes to an end; without one it may block for ever.
FairSpec == Spec /\ WF_vars(fmt \in Timed /\ Reader)
=============================================================================
