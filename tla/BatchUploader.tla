--------------------------- MODULE BatchUploader ---------------------------
(***************************************************************************)
(* scrapinghub/hubstorage/batchuploader.py: one daemon worker thread that  *)
(* drains the queues of many batch writers and POSTs their items to the    *)
(* storage server, each batch with the offset of its first item.  Callers' *)
(* threads create writers and write to, flush and close them.              *)
(*                                                                         *)
(* A writer's queue is kept as the history `log` of all items ever put on  *)
(* it and the number `head` of items the worker has got from it: the       *)
(* queue's contents are the items of log after head.                       *)
(***************************************************************************)
EXTENDS Integers, Sequences, FiniteSets

CONSTANTS
  Threads,     \* the callers' threads
  Writers,     \* the writers they may create
  Data,        \* encoded items
  None,        \* "no writer", "no item"
  Users,       \* Users[w]: the threads that hold a reference to writer w
  Start,       \* create_writer's start: offset of the first item
  Size,        \* create_writer's size: most items in a batch
  QSize,       \* create_writer's qsize: capacity of a queue, 0 for no limit
  MaxRetries,  \* BatchUploader.worker_max_retries
  CtrPeriod,   \* the loop counter is kept modulo this; see PeriodAssumption
  Faults,      \* what may go wrong: "retry", "status", "fatal" uploads, "encoding"
  Careful,     \* TRUE: no call to close overlaps another thread's calls
  MaxItems     \* bound: no write starts on a queue that has been put this many

ASSUME ConstantsAssumption ==
  /\ None \notin Writers /\ None \notin Data
  /\ Users \in [Writers -> SUBSET Threads]
  /\ Start \in Nat /\ Size \in Nat \ {0} /\ QSize \in Nat
  /\ MaxRetries \in Nat \ {0} /\ MaxItems \in Nat
  /\ Faults \subseteq {"retry", "status", "fatal", "encoding"}
  /\ Careful \in BOOLEAN

\* next(ctr) % len(self._writers) is the same for ctr and ctr % CtrPeriod.
ASSUME PeriodAssumption ==
  /\ CtrPeriod \in Nat \ {0}
  /\ \A n \in 1..Cardinality(Writers) : CtrPeriod % n = 0

VARIABLES
  closed,      \* BatchUploader.closed
  event,       \* BatchUploader._wait_event is set
  rotation,    \* BatchUploader._writers, the deque
  wpc,         \* where the worker thread stands
  ctr,         \* _worker: the loop counter
  cur,         \* _worker: the writer w taken from the deque
  batch,       \* _checkpoint: the items got from w's queue
  tries,       \* _tryupload: failed attempts on this batch
  made,        \* the writers that create_writer has returned
  unknown,     \* the writers created with an unknown content_encoding
  log, head,   \* _BatchWriter.itemsq, see above
  unfinished,  \* itemsq's count of items put and not yet task_done
  offset,      \* _BatchWriter.offset
  nextid,      \* _BatchWriter._nextid
  wclosed,     \* _BatchWriter.closed
  flushme,     \* _BatchWriter.flushme
  due,         \* _BatchWriter.checkpoint is more than an interval ago
  pc,          \* where a caller's thread stands, "idle" between calls
  on,          \* the writer of the thread's current call
  item,        \* the item of the thread's current write
  stored,      \* server: every <<writer, position, item>> it has applied
  late,        \* server: what failed attempts may have delivered, not yet applied
  discarded    \* history: positions of the batches _tryupload gave up

dequeVars  == <<rotation, made, unknown>>
loopVars   == <<closed, event, dequeVars>>
localVars  == <<ctr, cur, batch, tries>>
workerVars == <<wpc, localVars>>
queueVars  == <<log, head, unfinished>>
writerVars == <<offset, nextid, wclosed, flushme, due>>
callVars   == <<pc, on, item>>
serverVars == <<stored, late, discarded>>
vars == <<loopVars, workerVars, queueVars, writerVars, callVars, serverVars>>

QueueSize(w) == Len(log[w]) - head[w]
Empty(w) == QueueSize(w) = 0
Full(w) == QSize > 0 /\ QueueSize(w) >= QSize

\* count(start) hands out the first id; a mutant starts at 0.
FirstIdZero == 0
FirstId == Start

Init ==
  /\ closed = FALSE /\ event = FALSE /\ rotation = <<>> /\ made = {} /\ unknown = {}
  /\ wpc = "top" /\ ctr = 0 /\ cur = None /\ batch = <<>> /\ tries = 0
  /\ log = [w \in Writers |-> <<>>]
  /\ head = [w \in Writers |-> 0] /\ unfinished = head
  /\ offset = [w \in Writers |-> Start] /\ nextid = [w \in Writers |-> FirstId]
  /\ wclosed = [w \in Writers |-> FALSE] /\ flushme = wclosed /\ due = wclosed
  /\ pc = [t \in Threads |-> "idle"]
  /\ on = [t \in Threads |-> None] /\ item = on
  /\ stored = {} /\ late = {} /\ discarded = {}

(***************************************************************************)
(* Callers.  A call that raises (a closed uploader or writer, a value too  *)
(* large) changes nothing and is not a step.                               *)
(***************************************************************************)
Goto(t, from, to) == pc[t] = from /\ pc' = [pc EXCEPT ![t] = to]

Call(t, to, w, d) ==
  /\ Goto(t, "idle", to)
  /\ t \in Users[w]
  /\ on' = [on EXCEPT ![t] = w]
  /\ item' = [item EXCEPT ![t] = d]

Return(t, from) ==
  /\ Goto(t, from, "idle")
  /\ on' = [on EXCEPT ![t] = None]
  /\ item' = [item EXCEPT ![t] = None]

\* The discipline of careful callers: once close() is called on the uploader
\* nobody starts a write, and a close overlaps no other thread's call.
OpenFor(t) == Careful => ~closed
Alone(t) == Careful => \A u \in Threads \ {t} : pc[u] = "idle"

\* create_writer: the assertion, then (later) the append to the deque.
CreateWriter(t, w, known) ==
  /\ ~closed /\ w \notin made /\ \A u \in Threads : on[u] # w
  /\ known \/ "encoding" \in Faults
  /\ Call(t, "append", w, None)
  /\ unknown' = IF known THEN unknown ELSE unknown \cup {w}
  /\ UNCHANGED <<closed, event, rotation, made, workerVars, queueVars, writerVars, serverVars>>

AppendWriter(t) ==
  /\ Return(t, "append")
  /\ rotation' = Append(rotation, on[t])
  /\ made' = made \cup {on[t]}
  /\ UNCHANGED <<closed, event, unknown, workerVars, queueVars, writerVars, serverVars>>

\* _BatchWriter.write: the assertion; the put, which blocks while the queue is
\* full; the interrupt of the worker if the queue is full now, and the id.
Write(t, w, d) ==
  /\ w \in made /\ ~wclosed[w] /\ OpenFor(t)
  /\ Len(log[w]) < MaxItems
  /\ Call(t, "put", w, d)
  /\ UNCHANGED <<loopVars, workerVars, queueVars, writerVars, serverVars>>

Put(t) ==
  LET w == on[t] IN
  /\ Goto(t, "put", "id")
  /\ ~Full(w)
  /\ log' = [log EXCEPT ![w] = Append(@, item[t])]
  /\ unfinished' = [unfinished EXCEPT ![w] = @ + 1]
  /\ UNCHANGED <<head, on, item, loopVars, workerVars, writerVars, serverVars>>

ReturnId(t) ==
  LET w == on[t] IN
  /\ Return(t, "id")
  /\ event' = (event \/ Full(w))
  /\ nextid' = [nextid EXCEPT ![w] = @ + 1]
  /\ UNCHANGED <<closed, dequeVars, offset, wclosed, flushme, due,
                 workerVars, queueVars, serverVars>>

\* _BatchWriter.flush: the flag, the interrupt, the join, the flag again.
Flush(t, w) ==
  /\ w \in made
  /\ Call(t, "flush", w, None)
  /\ flushme' = [flushme EXCEPT ![w] = TRUE]
  /\ UNCHANGED <<offset, nextid, wclosed, due, loopVars, workerVars, queueVars, serverVars>>

EndFlush(t) ==
  /\ Return(t, "unflag")
  /\ flushme' = [flushme EXCEPT ![on[t]] = FALSE]
  /\ UNCHANGED <<offset, nextid, wclosed, due, loopVars, workerVars, queueVars, serverVars>>

\* _BatchWriter.close, with block=True or (nothing after the flag) block=False.
CloseWriter(t, w, block) ==
  /\ w \in made /\ Alone(t)
  /\ wclosed' = [wclosed EXCEPT ![w] = TRUE]
  /\ IF block THEN Call(t, "close", w, None)
              ELSE pc[t] = "idle" /\ t \in Users[w] /\ UNCHANGED callVars
  /\ UNCHANGED <<offset, nextid, flushme, due, loopVars, workerVars, queueVars, serverVars>>

\* BatchUploader.close: the flag, the interrupt, the join of the thread.
Close(t) ==
  /\ Goto(t, "idle", "shut") /\ Alone(t)
  /\ closed' = TRUE
  /\ UNCHANGED <<event, dequeVars, on, item, workerVars, queueVars, writerVars, serverVars>>

\* BatchUploader.interrupt.
Interrupt(t, from, to) ==
  /\ Goto(t, from, to)
  /\ event' = TRUE
  /\ UNCHANGED <<closed, dequeVars, on, item, workerVars, queueVars, writerVars, serverVars>>

\* itemsq.join(): flush goes on to reset its flag, close returns.  A mutant waits
\* for the queue to be empty.
QueueDrained(w) == Empty(w)
AllDone(w) == unfinished[w] = 0

JoinQueueFlush(t) ==
  /\ Goto(t, "joinflush", "unflag") /\ AllDone(on[t])
  /\ UNCHANGED <<on, item, loopVars, workerVars, queueVars, writerVars, serverVars>>

JoinQueueClose(t) ==
  /\ Return(t, "joinclose") /\ AllDone(on[t])
  /\ UNCHANGED <<loopVars, workerVars, queueVars, writerVars, serverVars>>

JoinThread(t) ==
  /\ Return(t, "jointhread") /\ wpc \in {"stopped", "died"}
  /\ UNCHANGED <<loopVars, workerVars, queueVars, writerVars, serverVars>>

(***************************************************************************)
(* The worker thread: the loop.                                            *)
(***************************************************************************)
WGoto(from, to) == wpc = from /\ wpc' = to

\* `if not self._writers`, and when there are some the loop counter.
LoopTop ==
  /\ wpc = "top"
  /\ IF rotation = <<>>
     THEN wpc' = "nowriters" /\ UNCHANGED ctr
     ELSE /\ ctr' = IF ctr + 1 = CtrPeriod THEN 0 ELSE ctr + 1
          /\ wpc' = IF ctr % Len(rotation) = 0 /\ ~closed THEN "delay" ELSE "pop"
  /\ UNCHANGED <<cur, batch, tries, loopVars, queueVars, writerVars, callVars, serverVars>>

\* The deque was empty when it was looked at; closed is read only now.
StopOrIdle ==
  /\ WGoto("nowriters", IF closed THEN "stopped" ELSE "idle")
  /\ UNCHANGED <<localVars, loopVars, queueVars, writerVars, callVars, serverVars>>

\* _interruptable_sleep: the wait ends by the event or by its timeout, which may
\* come at any time, so that the step has no guard; then the event is cleared,
\* whether or not it was what ended the wait.
Wait(from, to) ==
  /\ WGoto(from, to)
  /\ UNCHANGED <<localVars, loopVars, queueVars, writerVars, callVars, serverVars>>

Clear(from, to) ==
  /\ WGoto(from, to)
  /\ event' = FALSE
  /\ UNCHANGED <<closed, dequeVars, localVars, queueVars, writerVars, callVars, serverVars>>

\* Past the idle sleep the loop starts over; a mutant falls through to popleft.
IdleFallsThrough == "pop"
AfterIdle == "top"

\* An open writer is closed when the uploader is; a mutant leaves it open.
ClosedByItsUsers(w) == wclosed[w]
ClosedNow(w) == wclosed[w] \/ closed

PopWriter ==
  LET w == Head(rotation) IN
  /\ WGoto("pop", "look")
  /\ cur' = w /\ rotation' = Tail(rotation)
  /\ wclosed' = [wclosed EXCEPT ![w] = ClosedNow(w)]
  /\ UNCHANGED <<closed, event, made, unknown, ctr, batch, tries, offset, nextid, flushme, due,
                 queueVars, callVars, serverVars>>

\* Mutants do without the interval.
EligibleWithoutInterval(w) == QueueSize(w) >= Size \/ wclosed[w] \/ flushme[w]
Eligible(w) == QueueSize(w) >= Size \/ wclosed[w] \/ flushme[w] \/ due[w]

\* An unknown content encoding raises before anything is got from the queue,
\* and nothing catches it: the thread is gone.
LookAtWriter ==
  /\ wpc = "look"
  /\ IF Eligible(cur)
     THEN /\ wpc' = IF cur \in unknown THEN "died" ELSE "drain"
          /\ due' = [due EXCEPT ![cur] = FALSE]
     ELSE wpc' = "requeue" /\ UNCHANGED due
  /\ UNCHANGED <<localVars, offset, nextid, wclosed, flushme,
                 loopVars, queueVars, callVars, serverVars>>

\* "Re-queue pending or open writers"; mutants drop the pending and the open ones.
FinishedWhenClosed(w) == wclosed[w]
FinishedWhenEmpty(w) == Empty(w)
Finished(w) == wclosed[w] /\ Empty(w)

RequeueWriter ==
  /\ WGoto("requeue", "top")
  /\ rotation' = IF Finished(cur) THEN rotation ELSE Append(rotation, cur)
  /\ cur' = None
  /\ UNCHANGED <<closed, event, made, unknown, ctr, batch, tries, queueVars, writerVars, callVars,
                 serverVars>>

(***************************************************************************)
(* The worker thread: _checkpoint and _tryupload.                          *)
(***************************************************************************)
\* iterqueue: one get_nowait at a time while callers go on putting.
TakeItem ==
  /\ wpc = "drain" /\ Len(batch) < Size /\ ~Empty(cur)
  /\ batch' = Append(batch, log[cur][head[cur] + 1])
  /\ head' = [head EXCEPT ![cur] = @ + 1]
  /\ UNCHANGED <<wpc, ctr, cur, tries, log, unfinished, loopVars, writerVars, callVars,
                 serverVars>>

EndBatch ==
  /\ WGoto("drain", IF batch = <<>> THEN "requeue" ELSE "upload")
  /\ Len(batch) = Size \/ Empty(cur)
  /\ UNCHANGED <<localVars, loopVars, queueVars, writerVars, callVars, serverVars>>

\* The items of the batch at the positions the request gives them.
Placed == {<<cur, offset[cur] + i - 1, batch[i]>> : i \in 1..Len(batch)}
GivenUp == {<<cur, offset[cur] + i - 1>> : i \in 1..Len(batch)}

UploadStored ==
  /\ WGoto("upload", "advance")
  /\ stored' = stored \cup Placed
  /\ UNCHANGED <<localVars, late, discarded, loopVars, queueVars, writerVars, callVars>>

\* socket.error, a RequestException or a 4xx/5xx status: the same request again
\* after a pause, at most worker_max_retries times.  The server may still have
\* applied the request, or parts of it, or do so later.
UploadFails ==
  /\ wpc = "upload" /\ "retry" \in Faults
  /\ late' = late \cup Placed
  /\ tries' = tries + 1
  /\ IF tries + 1 < MaxRetries
     THEN UNCHANGED <<wpc, discarded>>
     ELSE wpc' = "advance" /\ discarded' = discarded \cup GivenUp
  /\ UNCHANGED <<ctr, cur, batch, stored, loopVars, queueVars, writerVars, callVars>>

\* A status outside 2xx that raise_for_status lets pass ("status"), or any other
\* exception ("fatal"): no further attempt.
UploadGivenUp(why) ==
  /\ WGoto("upload", "advance")
  /\ why \in Faults
  /\ late' = IF why = "fatal" THEN late \cup Placed ELSE late
  /\ discarded' = discarded \cup GivenUp
  /\ UNCHANGED <<localVars, stored, loopVars, queueVars, writerVars, callVars>>

\* w.offset += qiter.count; a mutant adds the size asked for.
OffsetBySize(n) == n + Size
OffsetByCount(n) == n + Len(batch)

\* Whatever became of the batch, the offset moves past it; then the callback.
AdvanceOffset ==
  /\ WGoto("advance", "taskdone")
  /\ offset' = [offset EXCEPT ![cur] = OffsetByCount(@)]
  /\ tries' = 0
  /\ UNCHANGED <<ctr, cur, batch, nextid, wclosed, flushme, due, loopVars, queueVars,
                 callVars, serverVars>>

\* The task_done calls, one for each item got; a mutant calls it once a batch.
\* Only the last of them can bring the count to zero.
OneTaskDone == 1
TasksDone == Len(batch)

TaskDone ==
  /\ WGoto("taskdone", "requeue")
  /\ unfinished' = [unfinished EXCEPT ![cur] = @ - TasksDone]
  /\ batch' = <<>>
  /\ UNCHANGED <<ctr, cur, tries, log, head, loopVars, writerVars, callVars, serverVars>>

(***************************************************************************)
(* Time and the server.                                                    *)
(***************************************************************************)
IntervalPasses(w) ==
  /\ w \in made /\ ~due[w]
  /\ due' = [due EXCEPT ![w] = TRUE]
  /\ UNCHANGED <<offset, nextid, wclosed, flushme, loopVars, workerVars, queueVars,
                 callVars, serverVars>>

\* The server may commit one request as many smaller ones.
LateApply(x) ==
  /\ x \notin stored
  /\ stored' = stored \cup {x}
  /\ UNCHANGED <<late, discarded, loopVars, workerVars, queueVars, writerVars, callVars>>

----------------------------------------------------------------------------
Starts(t) ==
  \/ \E w \in Writers, known \in BOOLEAN : CreateWriter(t, w, known)
  \/ \E w \in Writers, d \in Data : Write(t, w, d)
  \/ \E w \in Writers : Flush(t, w)
  \/ \E w \in Writers, block \in BOOLEAN : CloseWriter(t, w, block)
  \/ Close(t)

Continues(t) ==
  \/ AppendWriter(t) \/ Put(t) \/ ReturnId(t) \/ EndFlush(t)
  \/ Interrupt(t, "flush", "joinflush") \/ Interrupt(t, "close", "joinclose")
  \/ Interrupt(t, "shut", "jointhread")
  \/ JoinQueueFlush(t) \/ JoinQueueClose(t) \/ JoinThread(t)

Worker ==
  \/ LoopTop \/ StopOrIdle
  \/ Wait("idle", "idlewoken") \/ Clear("idlewoken", AfterIdle)
  \/ Wait("delay", "delaywoken") \/ Clear("delaywoken", "pop")
  \/ PopWriter \/ LookAtWriter \/ RequeueWriter
  \/ TakeItem \/ EndBatch
  \/ UploadStored \/ UploadFails \/ UploadGivenUp("status") \/ UploadGivenUp("fatal")
  \/ AdvanceOffset \/ TaskDone

Next ==
  \/ \E t \in Threads : Starts(t) \/ Continues(t)
  \/ Worker
  \/ \E w \in Writers : IntervalPasses(w)
  \/ \E x \in late : LateApply(x)

Spec == Init /\ [][Next]_vars

\* The threads are scheduled and time passes; nobody has to start a call, the
\* server has to apply nothing late and no upload has to succeed.
Fairness ==
  /\ WF_vars(Worker)
  /\ \A t \in Threads : WF_vars(Continues(t))
  /\ \A w \in Writers : WF_vars(IntervalPasses(w))

FairSpec == Spec /\ Fairness
=============================================================================
