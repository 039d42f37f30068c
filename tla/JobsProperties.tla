--------------------------- MODULE JobsProperties ---------------------------
EXTENDS Jobs

States == {"none", "pending", "running", "finished", "deleted"}
Lines == Keys \X States \X States

Methods == {"none", "push", "run", "startjob", "update", "move", "cancel", "tags", "list",
            "load"}
Args == [keys : SUBSET Keys, to : States, unique : Uniques \cup {None}]
Answers == [code : {0, 200, 500} \cup Codes,
            error : {"no", "Active job", "already scheduled", "other"}, lines : SUBSET Lines]

\* The variables have their types.
TypeOK ==
  /\ state \in [Keys -> States] /\ unique \in [Keys -> Uniques \cup {None}]
  /\ pc \in [Clients -> {"idle", "sent", "answered"}]
  /\ op \in [Clients -> Methods] /\ args \in [Clients -> Args]
  /\ tries \in [Clients -> 0..MaxTries - 1] /\ calls \in [Clients -> Nat]
  /\ answer \in [Clients -> Answers]
  /\ effects \in [Clients -> SUBSET Lines]
  /\ jobset \in [Clients -> {None} \cup SUBSET Keys]
  /\ loop \in [Clients -> {"no", "stop", "delete"}]
  /\ loaded \in [Clients -> SUBSET Keys] /\ asked \in [Clients -> SUBSET Keys]
  /\ twice \subseteq Clients /\ broke \subseteq Clients

\* A call that returns has told its caller everything the server did for it: no
\* job was pushed, started or moved by an earlier attempt of which the caller
\* does not know (jobq.py: the requests that change jobs are not retried).
ReturnTellsAll ==
  \A c \in Clients :
    (pc[c] = "answered" /\ ~Raised(c) /\ op[c] # "list") => effects[c] = answer[c].lines

\* A push or a run that is told it succeeded has made a job, and one that is told
\* of a duplicate, or that the job does not exist, has done nothing.
PushTells ==
  \A c \in Clients : pc[c] = "answered" =>
    /\ (op[c] \in {"push", "run"} /\ ~Raised(c)) =>
         \E k \in Keys : effects[c] = {<<k, "none", "pending">>}
    /\ (op[c] # "list" /\ Outcome(c) \in {"DuplicateJobError", "NotFound"}) => effects[c] = {}

\* A client changes a job of another project only by naming it to JobQ.update, finish
\* or delete, which check no key.  All else that it calls stays in its project: one
\* foreign key makes cancel refuse the whole list, and the loops over a JobSet ask for
\* jobs of the project it was loaded from.
StaysInProject ==
  [][\A c \in Clients : (pc[c] = "sent" /\ effects'[c] # effects[c]) =>
       \A k \in Keys \ Own(c) :
         state'[k] = state[k] \/ (op[c] = "update" /\ loop[c] = "no" /\ k \in args[c].keys)]_vars

\* However many loops go over a JobSet, and whether exceptions leave them, no job
\* of it is asked twice.
JobSetAsksOnce == twice = {}

\* When the iterator of a JobSet is at its end, its loops have asked for every job
\* that it was loaded with, those of loops that an exception left included, unless
\* the answer it reads broke.
JobSetAsksAll ==
  \A c \in Clients : jobset[c] = {} => asked[c] = loaded[c] \/ c \in broke
=============================================================================
