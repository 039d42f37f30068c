--------------------------- MODULE ResourceWriters ---------------------------
(***************************************************************************)
(* The resources that write through the client's one batch uploader:       *)
(* items, logs, samples and requests of a job (hubstorage/resourcetype.py, *)
(* job.py) and the slots of a frontier (hubstorage/frontier.py,            *)
(* client/frontiers.py).  A resource makes its writer at the first write   *)
(* and keeps it; the uploader calls a slot back with the server's answer.  *)
(*                                                                         *)
(* Seen from here the worker takes a batch, uploads it, calls back and     *)
(* marks the items done; BatchUploader has its steps one by one.           *)
(***************************************************************************)
EXTENDS Integers, Sequences, FiniteSets

CONSTANTS
  Threads,     \* the callers' threads
  Resources,   \* the objects that write
  Uses,        \* Uses[t]: those that thread t has
  Slots,       \* those that are slots of the frontier
  Deleters,    \* bound: the threads that delete slots
  Appending,   \* those that are Logs in append mode
  Targets,     \* where their items go: streams of the storage server
  Target,      \* Target[r]: two objects for one job write to one stream
  JobWriters,  \* the resources through which the users of a job object write
  Closes,      \* the resources that the close_writers of that object closes
  Items,       \* the fingerprints that are added to slots
  None,        \* "no item", "no resource", "no answer"
  Writers,     \* numbers of the _BatchWriter objects
  Size,        \* most items in a batch
  MaxTries,    \* BatchUploader.worker_max_retries
  MaxItems     \* bound: no write starts when this many items have been put
               \* (nor when all Writers are or may be made)

ASSUME ResourceAssumption ==
  /\ Slots \subseteq Resources /\ Appending \subseteq Resources \ Slots
  /\ Target \in [Resources -> Targets] /\ Uses \in [Threads -> SUBSET Resources]
  /\ JobWriters \subseteq Resources /\ Closes \subseteq Resources
  /\ None \notin Resources \cup Items \cup Nat
  /\ Writers \subseteq Nat \ {0} /\ IsFiniteSet(Writers)
  /\ Size \in Nat \ {0} /\ MaxTries \in Nat \ {0} /\ MaxItems \in Nat

VARIABLES
  closed,      \* BatchUploader.closed
  ref,         \* ItemsResourceType._writer, Frontier._writers[key]; 0 for none
  newcount,    \* _HSFrontier.newcount[key], 0 where there is none
  owner,       \* the resource that a writer was made for
  log,         \* the items put on a writer's queue
  head,        \* how many of them the worker has got
  unfinished,  \* the queue's count of items not yet task_done
  offset,      \* _BatchWriter.offset
  wclosed,     \* _BatchWriter.closed
  wpc,         \* where the worker stands
  cur, taken,  \* _checkpoint: its writer, and how many items it got
  tries,       \* _tryupload: failed attempts on this batch
  answer,      \* _writer_callback: "newcount" of the response
  base,        \* _writer_callback: newcount[key] as read
  pc,          \* where a caller's thread stands, "idle" between calls
  on, item,    \* the resource and the item of its call
  mine,        \* the writer it holds
  start,       \* the start it will create a writer with
  todo, size,  \* the writers its loop has still to wait for; len(_writers)
  stored,      \* server: <<stream, position, writer, index of the item>>
  slot,        \* server: the fingerprints a slot has
  reported,    \* history: newcounts answered for a slot since the last pop
  lost,        \* history: the streams of the batches that were given up
  torn,        \* history: the slots whose count may hold answers from before the
               \* server last deleted them
  raced,       \* history: the slots whose last pop a callback under way undid
  fresh,       \* history: the writers made when the stream had no other open
  seen         \* history: the writers made when the worker found its deque empty, until
               \* it goes on

uploadVars == <<wpc, cur, taken, tries, answer, base>>
writerVars == <<owner, log, head, unfinished, offset, wclosed>>
callVars   == <<pc, on, item, mine, start, todo, size>>
serverVars == <<stored, slot, reported, lost, torn, raced, fresh, seen>>
vars == <<closed, ref, newcount, writerVars, uploadVars, callVars, serverVars>>

Init ==
  /\ closed = FALSE
  /\ ref = [r \in Resources |-> 0] /\ newcount = [s \in Slots |-> 0]
  /\ owner = [w \in Writers |-> None] /\ log = [w \in Writers |-> <<>>]
  /\ head = [w \in Writers |-> 0] /\ unfinished = head /\ offset = head
  /\ wclosed = [w \in Writers |-> FALSE]
  /\ wpc = "pick" /\ cur = 0 /\ taken = 0 /\ tries = 0 /\ answer = None /\ base = 0
  /\ pc = [t \in Threads |-> "idle"]
  /\ on = [t \in Threads |-> None] /\ item = on
  /\ mine = [t \in Threads |-> 0] /\ start = mine /\ size = mine
  /\ todo = [t \in Threads |-> {}]
  /\ stored = {} /\ slot = [s \in Slots |-> {}] /\ reported = newcount
  /\ lost = {} /\ torn = {} /\ raced = {} /\ fresh = {} /\ seen = {}

Made == {w \in Writers : owner[w] # None}
Refs(R) == {ref[r] : r \in R} \ {0}
Queued(w) == Len(log[w]) - head[w]

(***************************************************************************)
(* Discipline of the callers: a call that closes overlaps no other call    *)
(* and nothing is written after.                                           *)
(***************************************************************************)
Alone(t) == \A u \in Threads \ {t} : pc[u] = "idle"
NobodyCloses == \A u \in Threads : pc[u] \notin {"close", "closejob", "shut"}

Goto(t, from, to) == pc[t] = from /\ pc' = [pc EXCEPT ![t] = to]

Return(t, from) ==
  /\ Goto(t, from, "idle")
  /\ on' = [on EXCEPT ![t] = None] /\ item' = [item EXCEPT ![t] = None]
  /\ mine' = [mine EXCEPT ![t] = 0] /\ start' = [start EXCEPT ![t] = 0]
  /\ todo' = [todo EXCEPT ![t] = {}] /\ size' = [size EXCEPT ![t] = 0]

(***************************************************************************)
(* ItemsResourceType.write, Logs.log, Requests.add, Frontier.add and the   *)
(* proxies over them: get the writer, making it if there is none, and put. *)
(***************************************************************************)
PutItems == UNION {{w} \X (1..Len(log[w])) : w \in Writers}
WriterLeft ==
  Cardinality({u \in Threads : pc[u] \in {"start", "create"}}) < Cardinality(Writers \ Made)

Write(t, r, d) ==
  /\ Goto(t, "idle", IF ref[r] # 0 THEN "put" ELSE IF r \in Appending THEN "start" ELSE "create")
  /\ ~closed
  /\ Cardinality(PutItems) < MaxItems /\ (ref[r] = 0 => WriterLeft)
  /\ on' = [on EXCEPT ![t] = r] /\ item' = [item EXCEPT ![t] = d]
  /\ mine' = [mine EXCEPT ![t] = ref[r]]
  /\ UNCHANGED <<closed, ref, newcount, start, todo, size, writerVars, uploadVars, serverVars>>

\* FrontierSlotFingerprints.add, FrontierSlotQueue.add: one item of the list given.
AddToSlot(t, s, d) == Write(t, s, d)

\* Logs.log and its levels, Requests.add, write of items and samples.
WriteRecord(t, r) == Write(t, r, None)

\* stats()["totals"]["input_values"], counted by the server.
InputValues(r) == Cardinality({x[2] : x \in {y \in stored : y[1] = Target[r]}})

\* batch_write_start; a mutant has Logs start at 0 always.
StartAtZero(r) == 0
BatchWriteStart(r) == IF r \in Appending THEN InputValues(r) ELSE 0

ReadStart(t) ==
  /\ Goto(t, "start", "create")
  /\ start' = [start EXCEPT ![t] = BatchWriteStart(on[t])]
  /\ UNCHANGED <<closed, ref, newcount, on, item, mine, todo, size,
                 writerVars, uploadVars, serverVars>>

OpenOn(r) == {w \in Made : Target[owner[w]] = Target[r] /\ ~(wclosed[w] /\ unfinished[w] = 0)}

CreateWriter(t) ==
  \E w \in Writers \ Made :
    /\ Goto(t, "create", "assign")
    /\ \A v \in Writers \ Made : w <= v
    /\ owner' = [owner EXCEPT ![w] = on[t]]
    /\ offset' = [offset EXCEPT ![w] = start[t]]
    /\ mine' = [mine EXCEPT ![t] = w]
    /\ fresh' = IF on[t] \notin Slots /\ OpenOn(on[t]) = {} THEN fresh \cup {w} ELSE fresh
    /\ UNCHANGED <<closed, ref, newcount, log, head, unfinished, wclosed, on, item, start,
                   todo, size, uploadVars, stored, slot, reported, lost, torn, raced, seen>>

AssignWriter(t) ==
  /\ Goto(t, "assign", "put")
  /\ ref' = [ref EXCEPT ![on[t]] = mine[t]]
  /\ UNCHANGED <<closed, newcount, on, item, mine, start, todo, size,
                 writerVars, uploadVars, serverVars>>

\* The property of ItemsResourceType returns what it then finds in self._writer,
\* the frontier's method the writer it has made.  The assertion on a closed
\* writer raises; otherwise the item is put.
PutItem(t) ==
  LET w == IF on[t] \in Slots THEN mine[t] ELSE ref[on[t]] IN
  /\ Return(t, "put")
  /\ IF wclosed[w]
     THEN UNCHANGED <<log, unfinished>>
     ELSE /\ log' = [log EXCEPT ![w] = Append(@, item[t])]
          /\ unfinished' = [unfinished EXCEPT ![w] = @ + 1]
  /\ UNCHANGED <<closed, ref, newcount, owner, head, offset, wclosed, uploadVars, serverVars>>

(***************************************************************************)
(* flush and close.  A loop over Frontier._writers raises at its next step *)
(* if a writer was added to the dictionary meanwhile.                      *)
(***************************************************************************)
Loop(t, to, R) ==
  /\ Goto(t, "idle", to)
  /\ todo' = [todo EXCEPT ![t] = Refs(R)]
  /\ size' = IF to = "flushall" THEN [size EXCEPT ![t] = Cardinality(Refs(Slots))] ELSE size
  /\ UNCHANGED <<closed, ref, newcount, on, item, mine, start, writerVars, uploadVars, serverVars>>

\* A resource or a slot by itself, or the whole frontier.
Flush(t, r) == Loop(t, "flush", {r})
FlushSlot(t, s) == Flush(t, s)
FlushFrontier(t) == Slots \cap Uses[t] # {} /\ Loop(t, "flushall", Slots)

\* close(block=True) of a resource, or of all slots one after the other.
Close(t, r) == Alone(t) /\ Loop(t, "close", {r})
CloseFrontier(t) == Alone(t) /\ Slots \cap Uses[t] # {} /\ Loop(t, "close", Slots)

\* The first loop of close_writers, which waits for nothing.
CloseJobWriters(t) ==
  /\ Alone(t) /\ Goto(t, "idle", "closejob") /\ JobWriters \subseteq Uses[t]
  /\ wclosed' = [w \in Writers |-> wclosed[w] \/ w \in Refs(Closes)]
  /\ todo' = [todo EXCEPT ![t] = Refs(Closes)]
  /\ UNCHANGED <<closed, ref, newcount, on, item, mine, start, size, owner, log, head, unfinished,
                 offset, uploadVars, serverVars>>

InLoop(t) == pc[t] \in {"flush", "flushall", "close", "closejob"}
Changed(t) == pc[t] = "flushall" /\ size[t] # Cardinality(Refs(Slots))

NextWriter(t) ==
  /\ InLoop(t) /\ mine[t] = 0 /\ ~Changed(t)
  /\ \E w \in todo[t] :
       /\ mine' = [mine EXCEPT ![t] = w]
       /\ todo' = [todo EXCEPT ![t] = @ \ {w}]
       /\ wclosed' = IF pc[t] = "close" THEN [wclosed EXCEPT ![w] = TRUE] ELSE wclosed
  /\ UNCHANGED <<closed, ref, newcount, owner, log, head, unfinished, offset, pc, on, item,
                 start, size, uploadVars, serverVars>>

\* _waitforq joins the queue; a mutant of the second loop of close_writers waits
\* for nothing.
NoWait(w) == TRUE
Joined(w) == unfinished[w] = 0

JoinWriter(t) ==
  /\ InLoop(t) /\ mine[t] # 0 /\ Joined(mine[t])
  /\ mine' = [mine EXCEPT ![t] = 0]
  /\ UNCHANGED <<closed, ref, newcount, pc, on, item, start, todo, size,
                 writerVars, uploadVars, serverVars>>

LoopEnds(t) ==
  /\ InLoop(t) /\ mine[t] = 0
  /\ todo[t] = {} \/ Changed(t)
  /\ Return(t, pc[t])
  /\ UNCHANGED <<closed, ref, newcount, writerVars, uploadVars, serverVars>>

\* HubstorageClient.close: the uploader's flag, then the join of its thread.
CloseClient(t) ==
  /\ Alone(t) /\ Made # {} /\ ~closed
  /\ Goto(t, "idle", "shut")
  /\ closed' = TRUE
  /\ UNCHANGED <<ref, newcount, on, item, mine, start, todo, size,
                 writerVars, uploadVars, serverVars>>

JoinThread(t) ==
  /\ wpc = "stopped" /\ Return(t, "shut")
  /\ UNCHANGED <<closed, ref, newcount, writerVars, uploadVars, serverVars>>

(***************************************************************************)
(* FrontierSlot.delete: the request, then the pop of the count, whatever   *)
(* of the slot is still queued, on its way or being counted.               *)
(***************************************************************************)
DeleteSlot(t, s) ==
  /\ Goto(t, "idle", "delete")
  /\ on' = [on EXCEPT ![t] = s]
  /\ UNCHANGED <<closed, ref, newcount, item, mine, start, todo, size,
                 writerVars, uploadVars, serverVars>>

CallbackDue(s) == wpc \in {"callback", "count"} /\ owner[cur] = s

ServerDeletes(s) ==
  /\ slot' = [slot EXCEPT ![s] = {}]
  /\ torn' = IF newcount[s] > 0 \/ CallbackDue(s) THEN torn \cup {s} ELSE torn

SlotDeleted(t) ==
  /\ Goto(t, "delete", "pop")
  /\ ServerDeletes(on[t])
  /\ UNCHANGED <<closed, ref, newcount, on, item, mine, start, todo, size,
                 writerVars, uploadVars, stored, reported, lost, raced, fresh, seen>>

\* The last attempt failed, whether or not one of them was served.
DeleteRaises(t, served) ==
  /\ Return(t, "delete")
  /\ IF served THEN ServerDeletes(on[t]) ELSE UNCHANGED <<slot, torn>>
  /\ UNCHANGED <<closed, ref, newcount, writerVars, uploadVars, stored, reported, lost,
                 raced, fresh, seen>>

\* A mutant leaves the count.
CountLeft(s) == newcount[s]
CountPopped(s) == 0

\* What the worker was answered for a slot and has not counted yet.
Uncounted(s) == IF CallbackDue(s) /\ answer # None THEN answer ELSE 0

\* A callback that has read the count writes it back.
PopCount(t) ==
  LET s == on[t] IN
  /\ Return(t, "pop")
  /\ newcount' = [newcount EXCEPT ![s] = CountPopped(s)]
  /\ reported' = [reported EXCEPT ![s] = Uncounted(s)]
  /\ torn' = IF CallbackDue(s) THEN torn ELSE torn \ {s}
  /\ raced' = IF CallbackDue(s) /\ wpc = "count" /\ base > 0 THEN raced \cup {s}
                                                           ELSE raced \ {s}
  /\ UNCHANGED <<closed, ref, writerVars, uploadVars, stored, slot, lost, fresh, seen>>

(***************************************************************************)
(* The worker.                                                             *)
(***************************************************************************)
\* iterqueue stops at size.
BatchLength(w) == IF Queued(w) < Size THEN Queued(w) ELSE Size

\* Any writer with items may be next: it is asked to flush, closed, long enough
\* or its interval has passed.
TakeBatch(w) ==
  /\ wpc = "pick" /\ w \in Made /\ Queued(w) > 0
  /\ wpc' = "upload" /\ cur' = w
  /\ taken' = BatchLength(w)
  /\ head' = [head EXCEPT ![w] = @ + BatchLength(w)]
  /\ UNCHANGED <<closed, ref, newcount, owner, log, unfinished, offset, wclosed,
                 tries, answer, base, callVars, serverVars>>

BatchIndexes == head[cur] - taken + 1 .. head[cur]
BatchItems == {log[cur][i] : i \in BatchIndexes}
\* The items of a batch go where the writer's offset is; a mutant counts from the
\* writer's first item wherever the log ended when the writer was made.
PlacedFromZero ==
  {<<Target[owner[cur]], head[cur] - taken + i - 1, cur, head[cur] - taken + i>> : i \in 1..taken}
Placed == {<<Target[owner[cur]], offset[cur] + i - 1, cur, head[cur] - taken + i>> : i \in 1..taken}

ServerApplies ==
  IF owner[cur] \in Slots
  THEN /\ slot' = [slot EXCEPT ![owner[cur]] = @ \cup BatchItems]
       /\ UNCHANGED stored
  ELSE stored' = stored \cup Placed /\ UNCHANGED slot

\* The offset moves on whatever became of the batch; only slots have a callback.
AfterUpload ==
  /\ wpc' = IF owner[cur] \in Slots THEN "callback" ELSE "done"
  /\ offset' = [offset EXCEPT ![cur] = @ + taken]
  /\ tries' = 0
  /\ UNCHANGED <<closed, ref, newcount, owner, log, head, wclosed, cur, taken, base,
                 callVars, torn, raced, fresh, seen>>

\* The mutant marks a slot's items done before the callback.
DoneAtOnce == taken
DoneBeforeCallback == 0

UploadAnswered ==
  /\ wpc = "upload" /\ ServerApplies /\ AfterUpload
  /\ unfinished' = [unfinished EXCEPT ![cur] = @ - DoneBeforeCallback]
  /\ IF owner[cur] \in Slots
     THEN LET n == Cardinality(BatchItems \ slot[owner[cur]]) IN
          answer' = n /\ reported' = [reported EXCEPT ![owner[cur]] = @ + n]
     ELSE UNCHANGED <<answer, reported>>
  /\ UNCHANGED lost

\* An attempt without an answer, and the next one.
UploadAgain(served) ==
  /\ wpc = "upload" /\ tries + 1 < MaxTries
  /\ tries' = tries + 1
  /\ IF served THEN ServerApplies ELSE UNCHANGED <<stored, slot>>
  /\ UNCHANGED <<closed, ref, newcount, writerVars, wpc, cur, taken, answer, base, callVars,
                 reported, lost, torn, raced, fresh, seen>>

\* The last attempt: None is what the callback gets, and raises on.
UploadGivenUp(served) ==
  /\ wpc = "upload" /\ tries + 1 = MaxTries /\ AfterUpload
  /\ IF served THEN ServerApplies ELSE UNCHANGED <<stored, slot>>
  /\ unfinished' = [unfinished EXCEPT ![cur] = @ - DoneBeforeCallback]
  /\ lost' = lost \cup {Target[r] : r \in {owner[cur]} \ Slots}
  /\ UNCHANGED <<answer, reported>>

\* newcount[key] += response.json()["newcount"]: a read and a write.
CallbackReads ==
  /\ wpc = "callback"
  /\ wpc' = IF answer = None THEN "done" ELSE "count"
  /\ base' = newcount[owner[cur]]
  /\ UNCHANGED <<closed, ref, newcount, writerVars, cur, taken, tries, answer, callVars, serverVars>>

\* A mutant counts what was sent.
CountSent(n) == n + taken
Counted(n) == n + answer

CallbackWrites ==
  /\ wpc = "count" /\ wpc' = "done"
  /\ newcount' = [newcount EXCEPT ![owner[cur]] = Counted(base)]
  /\ answer' = None /\ base' = 0
  /\ UNCHANGED <<closed, ref, writerVars, cur, taken, tries, callVars, serverVars>>

\* task_done, once for each item; a mutant calls it once.
OneDone == 1
TasksDone == taken

MarkDone ==
  /\ wpc = "done" /\ wpc' = "pick"
  /\ unfinished' = [unfinished EXCEPT ![cur] = @ - (TasksDone - DoneBeforeCallback)]
  /\ cur' = 0 /\ taken' = 0 /\ base' = 0
  /\ UNCHANGED <<closed, ref, newcount, owner, log, head, offset, wclosed, tries, answer,
                 callVars, serverVars>>

\* The deque is found empty when every writer in it was closed, by its users or,
\* once the uploader is closed, by the worker, and emptied; only then is closed read
\* and the thread stops or goes on.  A mutant looks only at the writers resources
\* refer to.
InUse == Refs(Resources)
InDeque == Made

DequeEmpty ==
  /\ wpc = "pick" /\ wpc' = "look"
  /\ \A w \in InDeque : Queued(w) = 0 /\ (wclosed[w] \/ closed)
  /\ wclosed' = [w \in Writers |-> wclosed[w] \/ w \in Made]
  /\ seen' = Made
  /\ UNCHANGED <<closed, ref, newcount, owner, log, head, unfinished, offset,
                 cur, taken, tries, answer, base, callVars, stored, slot, reported, lost,
                 torn, raced, fresh>>

StopOrGoOn ==
  /\ wpc = "look"
  /\ IF closed THEN wpc' = "stopped" /\ UNCHANGED seen ELSE wpc' = "pick" /\ seen' = {}
  /\ UNCHANGED <<closed, ref, newcount, writerVars, cur, taken, tries, answer, base,
                 callVars, stored, slot, reported, lost, torn, raced, fresh>>

----------------------------------------------------------------------------
Starts(t) == NobodyCloses /\
  \/ \E s \in Uses[t] \cap Slots :
       \/ FlushSlot(t, s) \/ \E d \in Items : AddToSlot(t, s, d)
       \/ t \in Deleters /\ DeleteSlot(t, s)
  \/ \E r \in Uses[t] \ Slots : WriteRecord(t, r) \/ Flush(t, r) \/ Close(t, r)
  \/ FlushFrontier(t) \/ CloseFrontier(t) \/ CloseJobWriters(t) \/ CloseClient(t)

Continues(t) ==
  \/ ReadStart(t) \/ CreateWriter(t) \/ AssignWriter(t) \/ PutItem(t)
  \/ NextWriter(t) \/ JoinWriter(t) \/ LoopEnds(t) \/ JoinThread(t)
  \/ SlotDeleted(t) \/ PopCount(t)
  \/ \E served \in BOOLEAN : DeleteRaises(t, served)

Worker ==
  \/ \E w \in Writers : TakeBatch(w)
  \/ UploadAnswered
  \/ \E served \in BOOLEAN : UploadAgain(served) \/ UploadGivenUp(served)
  \/ CallbackReads \/ CallbackWrites \/ MarkDone \/ DequeEmpty \/ StopOrGoOn

Next == (\E t \in Threads : Starts(t) \/ Continues(t)) \/ Worker

Spec == Init /\ [][Next]_vars

\* The worker and a thread inside a call are scheduled.
Fairness ==
  /\ WF_vars(Worker)
  /\ \A t \in Threads : WF_vars(Continues(t))

FairSpec == Spec /\ Fairness
=============================================================================
