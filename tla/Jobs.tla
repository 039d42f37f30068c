-------------------------------- MODULE Jobs --------------------------------
(***************************************************************************)
(* The job queue as its clients drive it: hubstorage/jobq.py, the Jobs and *)
(* Job of client/jobs.py, and the JobSet and Job of legacy.py.  The server *)
(* keeps the jobs; a client sends one request per call and reads the       *)
(* answer.  Requests that change jobs are not idempotent, so none of them  *)
(* goes through the retrier: when no answer comes the caller is told so.   *)
(***************************************************************************)
EXTENDS Integers, FiniteSets

CONSTANTS
  Clients,    \* client objects, each of one project, with one call at a time
  Keys,       \* the job keys there can be
  ProjectOf,  \* ProjectOf[k], and of a client: parse_job_key(k).project_id
  Existing,   \* the jobs that are pending when the clients start
  Uniques,    \* values of push's unique parameter
  None,       \* no unique, "not loaded"
  Codes,      \* HTTP statuses with which the server refuses a request
  MaxTries,   \* stop_max_attempt_number of the retrier
  MaxCalls    \* bound: how many calls and loops each client starts

ASSUME JobsAssumption ==
  /\ ProjectOf \in [Keys \cup Clients -> Nat]
  /\ None \notin Uniques /\ (\A K \in SUBSET Keys : K # None)
  /\ Existing \subseteq Keys
  /\ Codes \subseteq 400..499
  /\ MaxTries \in Nat \ {0} /\ MaxCalls \in [Clients -> Nat]

VARIABLES
  state,      \* server: state of each job, "none" before it is pushed
  unique,     \* server: the unique it was pushed with
  pc,         \* a client's call: "idle", "sent", "answered"
  op,         \* the method called
  args,       \* its arguments
  tries,      \* failed attempts of its request
  answer,     \* the answer to it
  effects,    \* history: <<job, from, to>> of all the server did for the call
  jobset,     \* JobSet._jobs: the jobs its iterator still has, None if not loaded
  loop,       \* the loop of the JobSet that is under way, "no" if none
  loaded,     \* history: the jobs the JobSet was loaded with
  asked,      \* history: the jobs for which its loops sent a request
  twice,      \* history: a loop sent the same request for a job again
  broke,      \* history: the answer that a JobSet was loaded from broke in a loop
  calls       \* how many calls were started

serverVars == <<state, unique>>
callVars   == <<pc, op, args, tries, answer, effects, calls>>
setVars    == <<jobset, loop, loaded, asked, twice, broke>>
vars == <<serverVars, callVars, setVars>>

NoArgs == [keys |-> {}, to |-> "none", unique |-> None]
NoAnswer == [code |-> 0, error |-> "no", lines |-> {}]

Init ==
  /\ state = [k \in Keys |-> IF k \in Existing THEN "pending" ELSE "none"]
  /\ unique = [k \in Keys |-> None]
  /\ pc = [c \in Clients |-> "idle"] /\ op = [c \in Clients |-> "none"]
  /\ args = [c \in Clients |-> NoArgs] /\ answer = [c \in Clients |-> NoAnswer]
  /\ tries = [c \in Clients |-> 0] /\ calls = tries
  /\ effects = [c \in Clients |-> {}]
  /\ jobset = [c \in Clients |-> None] /\ loop = [c \in Clients |-> "no"]
  /\ loaded = [c \in Clients |-> {}] /\ asked = loaded
  /\ twice = {} /\ broke = {}

Own(c) == {k \in Keys : ProjectOf[k] = ProjectOf[c]}
Live(K) == {k \in K : state[k] \notin {"none", "deleted"}}
Active(K) == {k \in K : state[k] \in {"pending", "running"}}

(***************************************************************************)
(* Calls.  A call whose arguments are refused raises at once and is no     *)
(* step: get and cancel take well-formed keys of the project only, run     *)
(* needs a spider, update_tags lists of tags.  JobQ checks no keys, so its *)
(* callers may hand it those of other projects.                            *)
(***************************************************************************)
Send(c, m, a) ==
  /\ pc[c] = "idle"
  /\ pc' = [pc EXCEPT ![c] = "sent"]
  /\ op' = [op EXCEPT ![c] = m]
  /\ args' = [args EXCEPT ![c] = a]
  /\ effects' = [effects EXCEPT ![c] = {}]
  /\ UNCHANGED <<tries, answer, serverVars>>

Begin(c, m, a) ==
  /\ loop[c] = "no" /\ calls[c] < MaxCalls[c]
  /\ Send(c, m, a)
  /\ calls' = [calls EXCEPT ![c] = @ + 1]
  /\ UNCHANGED setVars

\* JobQ.push, Project.push_job and Jobs.run, Project.schedule of legacy.py.
Push(c, u) == Begin(c, "push", [NoArgs EXCEPT !.unique = u])
Run(c, u) == Begin(c, "run", [NoArgs EXCEPT !.unique = u])

\* JobQ.start without a job: the server chooses.
StartNext(c) == Begin(c, "startjob", NoArgs)

\* JobQ.update, start, finish and delete take a job or a list of jobs; Job.update,
\* start, finish and delete move one.
UpdateJobs(c, K, to) == Begin(c, "update", [NoArgs EXCEPT !.keys = K, !.to = to])
MoveJob(c, k, to) == Begin(c, "move", [NoArgs EXCEPT !.keys = {k}, !.to = to])

\* JobQ.request_cancel and Job.cancel: k is the key with the job's last parts in the
\* queue's project.
RequestCancel(c, k) == Begin(c, "cancel", [NoArgs EXCEPT !.keys = {k}])

\* Jobs.cancel refuses keys of other projects; a mutant is content with one good key.
SomeOwned(c, K) == \E k \in K : ProjectOf[k] = ProjectOf[c]
AllOwned(c, K) == \A k \in K : ProjectOf[k] = ProjectOf[c]

CancelKeys(c, K) ==
  K # {} /\ AllOwned(c, K) /\ Begin(c, "cancel", [NoArgs EXCEPT !.keys = K])

\* Jobs.update_tags for the jobs of a spider, Job.update_tags for one; the update
\* of a legacy JobSet and Job send the same.  Tags themselves are left out.
UpdateTags(c, K) == Begin(c, "tags", [NoArgs EXCEPT !.keys = K])
UpdateJobTags(c, k) == UpdateTags(c, {k})

\* Jobs.iter and list over JobQ.list; the others read the same jobs and differ in
\* the form of the answer.
List(c) == Begin(c, "list", NoArgs)
Count(c) == List(c)
Summary(c) == List(c)
IterLast(c) == List(c)

(***************************************************************************)
(* The server, and the ways a request can end.                             *)
(***************************************************************************)
\* Only requests said to be idempotent go through the retrier; a mutant sends
\* every request through it.
RetriesAll(c) == tries[c] + 1 < MaxTries
Retries(c) == op[c] = "list" /\ tries[c] + 1 < MaxTries

\* No answer comes: the request is sent again, or the call ends so (code 0, or 500).
NoAnswerComes(c) ==
  IF Retries(c)
  THEN tries' = [tries EXCEPT ![c] = @ + 1] /\ UNCHANGED <<pc, answer>>
  ELSE /\ pc' = [pc EXCEPT ![c] = "answered"]
       /\ \E code \in {0, 500} : answer' = [answer EXCEPT ![c].code = code]
       /\ UNCHANGED tries

AnswerWith(c, a) ==
  /\ pc' = [pc EXCEPT ![c] = "answered"]
  /\ answer' = [answer EXCEPT ![c] = a]
  /\ UNCHANGED tries

\* The server has served a request by doing `done`; its answer may be lost.
Served(c, done) ==
  /\ effects' = [effects EXCEPT ![c] = @ \cup done]
  /\ AnswerWith(c, [code |-> 200, error |-> "no", lines |-> done]) \/ NoAnswerComes(c)
  /\ UNCHANGED <<op, args, calls, setVars>>

Sent(c, m) == pc[c] = "sent" /\ op[c] = m

Duplicate(c) == \E k \in Active(Own(c)) : args[c].unique # None /\ unique[k] = args[c].unique

ServePush(c) ==
  /\ Sent(c, "push") \/ Sent(c, "run")
  /\ ~Duplicate(c)
  /\ \E k \in Own(c) :
       /\ state[k] = "none"
       /\ state' = [state EXCEPT ![k] = "pending"]
       /\ unique' = [unique EXCEPT ![k] = args[c].unique]
       /\ Served(c, {<<k, "none", "pending">>})

ServeStart(c) ==
  /\ Sent(c, "startjob")
  /\ \/ /\ \A k \in Own(c) : state[k] # "pending"
        /\ Served(c, {}) /\ UNCHANGED state
     \/ \E k \in Own(c) :
          /\ state[k] = "pending"
          /\ state' = [state EXCEPT ![k] = "running"]
          /\ Served(c, {<<k, "pending", "running">>})
  /\ UNCHANGED unique

\* A line with the previous state for each job that is there.
ServeUpdate(c) ==
  LET K == Live(args[c].keys) IN
  /\ Sent(c, "update") \/ Sent(c, "move")
  /\ state' = [k \in Keys |-> IF k \in K THEN args[c].to ELSE state[k]]
  /\ Served(c, {<<k, state[k], args[c].to>> : k \in K})
  /\ UNCHANGED unique

\* A pending job is finished at once, a running one is asked to stop.
ServeCancel(c) ==
  LET K == Active(args[c].keys) IN
  /\ Sent(c, "cancel")
  /\ state' = [k \in Keys |-> IF k \in K /\ state[k] = "pending" THEN "finished" ELSE state[k]]
  /\ Served(c, {<<k, state[k], state'[k]>> : k \in K})
  /\ UNCHANGED unique

ServeTags(c) ==
  LET K == Live(args[c].keys) IN
  /\ Sent(c, "tags")
  /\ Served(c, {<<k, state[k], state[k]>> : k \in K})
  /\ UNCHANGED serverVars

ServeList(c) ==
  /\ Sent(c, "list") \/ Sent(c, "load")
  /\ Served(c, {<<k, state[k], state[k]>> : k \in Live(Own(c))})
  /\ UNCHANGED serverVars

\* The request is refused: a duplicate by a line of the answer ("run": by a status
\* with a message) or by 409, anything by another status or an error line.
Refuse(c, code, error) ==
  /\ pc[c] = "sent"
  /\ error \in {"Active job", "already scheduled"} =>
       Duplicate(c) /\ op[c] = IF error = "Active job" THEN "push" ELSE "run"
  /\ code = 409 => op[c] = "push" /\ Duplicate(c)
  /\ error = "other" => op[c] \in {"push", "run", "tags"}
  /\ AnswerWith(c, [code |-> code, error |-> error, lines |-> {}])
  /\ UNCHANGED <<op, args, effects, calls, serverVars, setVars>>

RequestLost(c) ==
  /\ pc[c] = "sent" /\ NoAnswerComes(c)
  /\ UNCHANGED <<op, args, effects, calls, serverVars, setVars>>

(***************************************************************************)
(* What the caller is told.                                                *)
(***************************************************************************)
WrapHttpErrors(code) ==
  CASE code = 400 -> "BadRequest"
    [] code = 401 -> "Unauthorized"
    [] code = 403 -> "Forbidden"
    [] code = 404 -> "NotFound"
    [] code = 413 -> "ValueTooLarge"
    [] code \in ({402} \cup 405..499) \ {413} -> "ScrapinghubAPIError"
    [] code \in 500..599 -> "ServerError"
    [] OTHER -> "ConnectionError"

\* run and tags go through the older Connection, which looks at the status for these
\* two and then decodes the body, an error document.
DecodeError(code) ==
  IF code = 404 \/ code \in {0} \cup 500..599 THEN WrapHttpErrors(code) ELSE "BadRequest"

ErrorStatus(c) ==
  IF op[c] \in {"run", "tags"} THEN DecodeError(answer[c].code) ELSE WrapHttpErrors(answer[c].code)

\* The error line of push and the status of run; a mutant does not look at lines.
ErrorNotSeen(error) == "returned"
ErrorSeen(error) ==
  CASE error = "Active job" -> "DuplicateJobError"
    [] error = "already scheduled" -> "DuplicateJobError"
    [] error = "other" -> "HTTPError"
    [] OTHER -> "returned"

\* Job.update of client/jobs.py raises when there is no line for its job.
Outcome(c) ==
  LET a == answer[c] IN
  IF a.code # 200 THEN ErrorStatus(c)
  ELSE IF op[c] = "move" /\ a.lines = {} THEN "NotFound"
  ELSE ErrorSeen(a.error)

Raised(c) == Outcome(c) # "returned"

Finish(c) ==
  /\ pc[c] = "answered"
  /\ pc' = [pc EXCEPT ![c] = "idle"] /\ op' = [op EXCEPT ![c] = "none"]
  /\ args' = [args EXCEPT ![c] = NoArgs] /\ answer' = [answer EXCEPT ![c] = NoAnswer]
  /\ tries' = [tries EXCEPT ![c] = 0] /\ effects' = [effects EXCEPT ![c] = {}]
  /\ UNCHANGED <<calls, serverVars>>

Return(c) ==
  /\ Finish(c) /\ op[c] # "load" /\ loop[c] = "no"
  /\ UNCHANGED setVars

(***************************************************************************)
(* JobSet: an iterator over the answer of one request, shared by all loops *)
(* over the set; stop and delete send one request for each job it yields.  *)
(***************************************************************************)
BeginLoop(c, what) ==
  /\ pc[c] = "idle" /\ loop[c] = "no" /\ calls[c] < MaxCalls[c]
  /\ loop' = [loop EXCEPT ![c] = what]
  /\ IF jobset[c] = None
     THEN Send(c, "load", NoArgs)
     ELSE UNCHANGED <<serverVars, pc, op, args, tries, answer, effects>>
  /\ calls' = [calls EXCEPT ![c] = @ + 1]
  /\ UNCHANGED <<jobset, loaded, asked, twice, broke>>

\* The status line comes first; a mutant takes a job's line for it.
FirstIsStatus(K) == IF K = {} THEN K ELSE K \ {CHOOSE k \in K : TRUE}
AfterStatus(K) == K

LoadJobs(c) ==
  LET K == {x[1] : x \in answer[c].lines} IN
  /\ Finish(c) /\ op[c] = "load"
  /\ IF Raised(c)
     THEN /\ loop' = [loop EXCEPT ![c] = "no"]
          /\ UNCHANGED <<jobset, loaded>>
     ELSE /\ jobset' = [jobset EXCEPT ![c] = AfterStatus(K)]
          /\ loaded' = [loaded EXCEPT ![c] = K]
          /\ UNCHANGED loop
  /\ UNCHANGED <<asked, twice, broke>>

\* The iterator is consumed; a mutant begins anew.
Restarted(K, k) == K
Consumed(K, k) == K \ {k}

LoopJob(c) ==
  /\ loop[c] # "no" /\ pc[c] = "idle" /\ jobset[c] # None
  /\ \E k \in jobset[c] :
       /\ Send(c, IF loop[c] = "stop" THEN "cancel" ELSE "update",
               [NoArgs EXCEPT !.keys = {k}, !.to = IF loop[c] = "stop" THEN "none" ELSE "deleted"])
       /\ jobset' = [jobset EXCEPT ![c] = Consumed(@, k)]
       /\ asked' = [asked EXCEPT ![c] = @ \cup {k}]
       /\ twice' = IF k \in asked[c] THEN twice \cup {c} ELSE twice
  /\ UNCHANGED <<calls, loop, loaded, broke>>

\* An exception leaves the loop and the iterator where it is.
LoopReturn(c) ==
  /\ Finish(c) /\ op[c] # "load" /\ loop[c] # "no"
  /\ loop' = IF Raised(c) THEN [loop EXCEPT ![c] = "no"] ELSE loop
  /\ UNCHANGED <<jobset, loaded, asked, twice, broke>>

\* The session streams its responses.  If this one breaks, the exception leaves the
\* loop and ends the iterator: the next loop finds no more jobs.
LoopBreaks(c) ==
  /\ loop[c] # "no" /\ pc[c] = "idle" /\ jobset[c] \notin {None, {}}
  /\ loop' = [loop EXCEPT ![c] = "no"]
  /\ jobset' = [jobset EXCEPT ![c] = {}]
  /\ broke' = broke \cup {c}
  /\ UNCHANGED <<loaded, asked, twice, callVars, serverVars>>

LoopEnds(c) ==
  /\ loop[c] # "no" /\ pc[c] = "idle" /\ jobset[c] = {}
  /\ loop' = [loop EXCEPT ![c] = "no"]
  /\ UNCHANGED <<jobset, loaded, asked, twice, broke, callVars, serverVars>>

----------------------------------------------------------------------------
Calls(c) ==
  \/ \E u \in Uniques \cup {None} : Push(c, u) \/ Run(c, u)
  \/ StartNext(c) \/ List(c) \/ Count(c) \/ Summary(c) \/ IterLast(c)
  \/ \E K \in SUBSET Keys, to \in {"running", "finished", "deleted"} : UpdateJobs(c, K, to)
  \/ \E k \in Own(c), to \in {"running", "finished", "deleted"} : MoveJob(c, k, to)
  \/ \E k \in Own(c) : RequestCancel(c, k) \/ UpdateJobTags(c, k)
  \/ \E K \in SUBSET Keys : CancelKeys(c, K)
  \/ \E K \in SUBSET Own(c) : UpdateTags(c, K)
  \/ \E what \in {"stop", "delete"} : BeginLoop(c, what)

Server(c) ==
  \/ ServePush(c) \/ ServeStart(c) \/ ServeUpdate(c) \/ ServeCancel(c) \/ ServeTags(c)
  \/ ServeList(c) \/ RequestLost(c)
  \/ \E code \in Codes : Refuse(c, code, "no")
  \/ \E error \in {"Active job", "already scheduled", "other"} : Refuse(c, 200, error)

Client(c) == Return(c) \/ LoadJobs(c) \/ LoopJob(c) \/ LoopReturn(c) \/ LoopBreaks(c)
             \/ LoopEnds(c)

Next == \E c \in Clients : Calls(c) \/ Server(c) \/ Client(c)

Spec == Init /\ [][Next]_vars
=============================================================================
