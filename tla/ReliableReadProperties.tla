----------------------- MODULE ReliableReadProperties -----------------------
(***************************************************************************)
(* What the readers of ReliableRead.tla promise their caller.              *)
(***************************************************************************)
EXTENDS ReliableRead

\* The types of the variables.
Params == [start : Nat, after : Nat \cup {NoLine}, count : Nat]
CallTypes ==
  /\ size \in 0..MaxItems /\ had \in 0..MaxItems
  /\ fmt \in Formats /\ first \in Nat /\ limit \in Nat \ {0}
  /\ width \in Nat /\ start \in Nat /\ processed \in Nat /\ out \in Seq(Int)
  /\ pc \in {"idle", "attempt", "request", "stream", "ended", "chunk", "done", "raised",
            "astray"}
ReadTypes ==
  /\ got \in Seq(Int) /\ gaveup \in BOOLEAN
  /\ attempt \in 0..MaxAttempts /\ last \in Nat \cup {NoLine}
  /\ retrieved \in Nat /\ tries \in 0..(MaxRequests - 1)
  /\ body \in Seq(Nat) /\ buffer \in Seq(Nat)
ParamTypes == params \in Params
TypeOK == CallTypes /\ ReadTypes /\ ParamTypes

\* What the caller of the current call holds: of a list_iter, whole lists only.
Delivered == IF width = 0 THEN got ELSE out

\* However often the connection failed and wherever it broke, the caller has the
\* items from the position it asked for on, in order, none twice, none left out and
\* none made of the bytes of two; a Job.items that takes the body of an error for
\* items, up to there.
InOrder == Consecutive(Delivered, first)

\* When the iteration ends as if all had been read, no retries ran out and no error
\* was taken for items, the caller has every item the job had when it called, up to
\* its count.
CompleteAtEnd ==
  pc = "done" /\ ~gaveup => Len(Delivered) >= Lesser(limit, had - first)

\* "limit amount of elements": never more items than the caller's count.
AtMostCount == Len(Delivered) <= limit

\* Readers that do not resume after a line, or that lower the count as they resume,
\* keep to the caller's count through any number of failures.
CountKept == fmt # "json" => AtMostCount

\* A call whose requests have a timeout ends, however the server behaves: attempts,
\* requests and lists are bounded.
CallsEnd == (fmt \in Timed /\ pc # "idle") ~> (pc \in {"done", "raised", "astray"})
----------------------------------------------------------------------------
\* The reader of the call resumes after a failure, or its connection does not break.
Recovers == fmt = "msgpack" => fmt \notin StreamFaults

\* Where each part of a call stands; with these InOrder and CountKept are inductive
\* if the reader recovers.
Base == IF width = 0 THEN first ELSE start
Asked == IF width = 0 THEN limit ELSE width
Due == Base + Len(got)
Reading == {"attempt", "request", "stream"}

\* The lists yielded so far, and the one being read.
ListsInOrder ==
  width > 0 => Consecutive(out, first) /\ start = first + Len(out)
CurrentInOrder ==
  pc \in Reading \cup {"ended", "raised"} \/ width = 0 => Consecutive(got, Base)

\* The json reader resumes right after its last line.
JsonResumes ==
  fmt = "json" /\ pc \in Reading =>
    /\ last = IF got = <<>> THEN NoLine ELSE Due - 1
    /\ got = <<>> => params.start = Base /\ params.after = NoLine
    /\ pc = "request" => From(params) = Due
    /\ pc = "stream" => Consecutive(body, Due)

\* Job.items asks for what is left from its offset on.
LegacyResumes ==
  fmt = "legacy" /\ pc \in Reading =>
    /\ params.after = NoLine
    /\ params.start + (IF pc = "attempt" THEN 0 ELSE retrieved) = Due
    /\ pc = "request" => retrieved = 0
    /\ pc = "stream" => Consecutive(body, Due)

\* The msgpack reader has but one response, and its bytes are those of the items due.
MsgpackOnce ==
  fmt = "msgpack" /\ pc \in Reading =>
    /\ params.after = NoLine /\ params.start = Base
    /\ pc # "stream" => got = <<>> /\ buffer = <<>>
    /\ pc = "stream" => Consecutive(buffer \o body, 2 * Due)

OrderInv == ListsInOrder /\ CurrentInOrder /\ JsonResumes /\ LegacyResumes /\ MsgpackOnce
\* The counters of a call: with these TypeOK and CountKept are inductive.
AttemptsLeft == pc \in {"request", "stream"} => attempt < MaxAttempts
ListsLeft ==
  /\ pc = "idle" => width = 0 /\ start = 0 /\ processed = 0 /\ got = <<>> /\ out = <<>>
  /\ fmt = "legacy" => width = 0
  /\ width > 0 => processed = Len(out)
  /\ pc = "chunk" => processed < limit /\ width > 0
  /\ pc \in Reading \cup {"ended"} /\ width > 0 => processed + width <= limit
LegacyCounts ==
  fmt = "legacy" /\ pc \in Reading =>
    /\ Len(got) - (IF pc = "attempt" THEN 0 ELSE retrieved) + params.count = limit
    /\ pc = "request" => retrieved = 0
    /\ pc = "stream" => retrieved + Len(body) <= params.count
CountersInv == TypeOK /\ AttemptsLeft /\ ListsLeft /\ LegacyCounts

MsgpackCounts ==
  fmt = "msgpack" /\ pc \in Reading =>
    /\ params.count = Asked
    /\ pc = "stream" => 2 * Len(got) + Len(buffer \o body) <= 2 * Asked
GotKept ==
  fmt # "json" =>
    /\ (pc \in Reading \cup {"ended", "raised"} \/ width = 0) => Len(got) <= Asked
    /\ width > 0 => Len(out) <= limit
CountInv == MsgpackCounts /\ GotKept

\* What the response and what was received before it amount to, in halves of items:
\* with these CompleteAtEnd is inductive, also for the msgpack reader, which after a
\* failure receives more items than are due, and wrong ones, but not fewer.
Needed == Lesser(Asked, had - Base)
Coming == IF fmt = "msgpack" THEN 2 * Len(got) + Len(buffer) + Len(body)
                             ELSE 2 * (Len(got) + Len(body))
AsksAll ==
  pc \in Reading =>
    /\ fmt # "legacy" => params.count = Asked
    /\ fmt = "msgpack" => params.start = Base /\ params.after = NoLine
NothingForgotten ==
  /\ had <= size /\ Len(buffer) <= 1
  /\ width > 0 => start = first + Len(out)
  /\ pc = "stream" => Coming >= 2 * Needed
  /\ pc = "ended" /\ ~gaveup => Len(got) >= Needed
CompleteInv == AsksAll /\ NothingForgotten /\ CompleteAtEnd

\* Only what the job has is received: with these no item is delivered that is not there.
Existing ==
  /\ pc = "stream" /\ Coming > 0 => 2 * Base + Coming <= 2 * size
  /\ (pc \in Reading \cup {"ended"} \/ width = 0) /\ got # <<>> => Due <= size
  /\ out # <<>> => first + Len(out) <= size
ReadInv ==
  CountersInv /\ CompleteInv /\ (Recovers => OrderInv /\ CountInv /\ Existing)
----------------------------------------------------------------------------
(***************************************************************************)
(* The reader as a ReadCall.  A call of which the connection breaks under  *)
(* the reader that does not resume is none: it promises nothing.           *)
(***************************************************************************)
CallStatus ==
  IF Recovers THEN (IF pc \in {"idle", "done", "raised", "astray"} THEN pc ELSE "reading")
              ELSE "idle"
CallMade ==
  IF CallStatus = "idle"
  THEN [first |-> 0, limit |-> 0, exact |-> TRUE, had |-> 0]
  ELSE [first |-> first, limit |-> limit, exact |-> fmt # "json", had |-> had]

Promise == INSTANCE ReadCall WITH
  Limits <- Limits \cup {Unlimited}, call <- CallMade, status <- CallStatus,
  got <- IF Recovers THEN Delivered ELSE <<>>, gaveup <- Recovers /\ gaveup

\* Whatever fails, resumes or is read again in lists, each step of a reader hands its
\* caller the next items of the job, or none; it goes on to its end only with all that
\* was there, after giving up, or, Job.items, after it took an error for items (resourcetype.py _retry, items.py list_iter, legacy.py).
ImplementsReadCall == Promise!Spec
=============================================================================
