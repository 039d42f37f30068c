---------------------- MODULE BatchUploaderProperties ----------------------
(***************************************************************************)
(* What BatchUploader.tla promises its callers and the server.             *)
(***************************************************************************)
EXTENDS BatchUploader

WorkerAt == {"top", "nowriters", "stopped", "died", "idle", "idlewoken", "delay",
             "delaywoken", "pop", "look", "requeue", "drain", "upload", "advance",
             "taskdone"}
CallerAt == {"idle", "append", "put", "id", "flush", "joinflush", "unflag", "close",
             "joinclose", "shut", "jointhread"}
OnWriter == {"append", "put", "id", "flush", "joinflush", "unflag", "close", "joinclose"}
HasWriter == {"look", "requeue", "drain", "upload", "advance", "taskdone"}

\* The types of the variables, where a caller or the worker has a writer, and that
\* popleft and get_nowait find what was seen before them.
LoopTypes ==
  /\ closed \in BOOLEAN /\ event \in BOOLEAN
  /\ rotation \in Seq(Writers) /\ made \subseteq Writers /\ unknown \subseteq Writers
WorkerTypes ==
  /\ wpc \in WorkerAt /\ ctr \in 0..(CtrPeriod - 1)
  /\ cur \in Writers \cup {None} /\ (wpc \in HasWriter => cur \in Writers)
  /\ batch \in Seq(Data) /\ tries \in Nat
QueueTypes ==
  /\ log \in [Writers -> Seq(Data)]
  /\ head \in [Writers -> Nat] /\ unfinished \in [Writers -> Int]
  /\ \A w \in Writers : head[w] <= Len(log[w])
WriterTypes ==
  /\ offset \in [Writers -> Nat] /\ nextid \in [Writers -> Nat]
  /\ wclosed \in [Writers -> BOOLEAN] /\ flushme \in [Writers -> BOOLEAN]
  /\ due \in [Writers -> BOOLEAN]
CallTypes ==
  /\ pc \in [Threads -> CallerAt]
  /\ on \in [Threads -> Writers \cup {None}]
  /\ item \in [Threads -> Data \cup {None}]
  /\ \A t \in Threads : /\ pc[t] \in OnWriter => on[t] \in Writers
                        /\ pc[t] = "put" => item[t] \in Data
ServerTypes ==
  /\ stored \subseteq Writers \X Nat \X Data
  /\ late \subseteq Writers \X Nat \X Data
  /\ discarded \subseteq Writers \X Nat
PopFinds == wpc \in {"delay", "delaywoken", "pop"} => rotation # <<>>
TypeOK ==
  LoopTypes /\ WorkerTypes /\ QueueTypes /\ WriterTypes /\ CallTypes /\ ServerTypes /\ PopFinds

----------------------------------------------------------------------------
\* Every item the server holds, and every item a failed attempt may still
\* deliver, is the item that was put on that writer at that position: no
\* retry, lost response, late delivery, discarded batch or item that arrives
\* while a batch is being drained shifts, overwrites or mixes up the data.
RightPlace(x) ==
  /\ Start <= x[2] /\ x[2] < Start + Len(log[x[1]])
  /\ x[3] = log[x[1]][x[2] - Start + 1]
EveryItemInItsPlace == \A x \in stored \cup late : RightPlace(x)

\* The number of w's items in the worker's hands, got from the queue but not
\* yet counted by task_done.
InHand(w) == IF w = cur THEN Len(batch) ELSE 0

\* queue.join() waits for exactly the items that are queued or in the batch the
\* worker holds: task_done is called once for each item that is got.
JoinCountsPending ==
  \A w \in Writers : unfinished[w] = QueueSize(w) + InHand(w)

Settled(w, p) ==
  <<w, p>> \in discarded \/ \E d \in Data : <<w, p, d>> \in stored

\* Every position below the offset of the next batch was stored by the server or
\* was part of a batch given up: the offset never skips an item.
OffsetCoversSettled ==
  \A w \in Writers : \A p \in Start..(offset[w] - 1) : Settled(w, p)

\* The worker's batch is the last items got from its writer's queue, in order; the
\* offset counts the items got from a queue, but for those of a batch whose upload
\* is not over; a batch whose upload is over is settled.  With this the three
\* invariants above are inductive.
Busy == {"drain", "upload", "advance", "taskdone"}
BatchTracks ==
  /\ wpc \notin Busy => batch = <<>>
  /\ cur \in Writers =>
       /\ Len(batch) <= head[cur]
       /\ \A i \in 1..Len(batch) : batch[i] = log[cur][head[cur] - Len(batch) + i]
InFlight(w) == IF w = cur /\ wpc # "taskdone" THEN Len(batch) ELSE 0
OffsetTracks == \A w \in Writers : offset[w] = Start + head[w] - InFlight(w)
OutcomeKnown ==
  wpc = "advance" => \A i \in 1..Len(batch) : Settled(cur, offset[cur] + i - 1)
SafetyInv ==
  /\ TypeOK /\ BatchTracks /\ OffsetTracks /\ OutcomeKnown
  /\ EveryItemInItsPlace /\ JoinCountsPending /\ OffsetCoversSettled

\* When the join of a flush or a close lets its caller go, every item put on the
\* writer by then, by whatever thread, was stored or was given up.
JoinIsABarrier ==
  [][\A t \in Threads :
       pc[t] \in {"joinflush", "joinclose"} /\ pc'[t] # pc[t] =>
         \A i \in 1..Len(log[on[t]]) : Settled(on[t], Start + i - 1)]_vars

\* A writer that only one thread uses hands out the position of the item in the
\* stream as the id of the write.
SoleUser(w) == \A t, u \in Users[w] : t = u
IdIsPosition ==
  \A w \in Writers : SoleUser(w) =>
    nextid[w] = Start + Len(log[w])
                - (IF \E t \in Users[w] : pc[t] = "id" /\ on[t] = w THEN 1 ELSE 0)

\* The uploader implements the abstract upload log of UploadLog.tla: what a writer
\* was told to upload is settled in order, and only what was accepted is stored.
SettledCount == [w \in Writers |-> offset[w] - Start]
Abstract == INSTANCE UploadLog WITH settled <- SettledCount
ImplementsUploadLog == Abstract!Spec

\* The thread is there: it has neither stopped nor died of an exception.
Alive == wpc \notin {"stopped", "died"}

\* Every writer that create_writer returned and that is open or has items queued
\* is in the worker's rotation exactly once or in its hands, never in both.
Times(w) == Cardinality({i \in 1..Len(rotation) : rotation[i] = w})
            + (IF cur = w THEN 1 ELSE 0)
ServedOnce ==
  \A w \in made : IF wclosed[w] /\ Empty(w) THEN Times(w) <= 1 ELSE Times(w) = 1

\* "Stop thread if closed and idle": the thread never stops with writers left in
\* the deque.
StopsOnlyWhenIdle == wpc = "stopped" => rotation = <<>>

\* When the thread stopped with no writer left in the deque, every item whose
\* write returned was stored or given up.
NothingLeftBehind ==
  wpc = "stopped" /\ rotation = <<>> =>
    \A w \in Writers : \A i \in 1..Len(log[w]) : Settled(w, Start + i - 1)

----------------------------------------------------------------------------
\* With a worker that is there to serve it a flush or a close that waits for the
\* queue returns.
JoinReturns ==
  \A t \in Threads :
    (pc[t] \in {"joinflush", "joinclose"}) ~>
      (pc[t] \notin {"joinflush", "joinclose"} \/ ~Alive)

\* A write that waits for room in a full queue gets it.
PutReturns == \A t \in Threads : (pc[t] = "put") ~> (pc[t] # "put" \/ ~Alive)

\* Nobody has to flush: every item that was put is stored or given up in the end.
ItemsSettle ==
  \A w \in Writers : \A n \in 1..MaxItems :
    (Len(log[w]) >= n) ~> (offset[w] >= Start + n \/ ~Alive)

\* BatchUploader.close lets the worker stop however many writers are still open.
CloseStopsWorker == closed ~> ~Alive
=============================================================================
