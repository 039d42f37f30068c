---------------------- MODULE ResourceWritersProperties ----------------------
EXTENDS ResourceWriters

\* The variables have their types.
TypeOK ==
  /\ closed \in BOOLEAN
  /\ ref \in [Resources -> Writers \cup {0}] /\ newcount \in [Slots -> Nat]
  /\ owner \in [Writers -> Resources \cup {None}]
  /\ log \in [Writers -> Seq(Items \cup {None})]
  /\ head \in [Writers -> Nat] /\ unfinished \in [Writers -> Int]
  /\ offset \in [Writers -> Nat] /\ wclosed \in [Writers -> BOOLEAN]
  /\ wpc \in {"pick", "upload", "callback", "count", "done", "look", "stopped"}
  /\ cur \in Writers \cup {0} /\ taken \in 0..Size /\ tries \in 0..MaxTries - 1
  /\ answer \in 0..Size \cup {None} /\ base \in Nat
  /\ pc \in [Threads -> {"idle", "start", "create", "assign", "put", "flush", "flushall",
                         "close", "closejob", "shut", "delete", "pop"}]
  /\ on \in [Threads -> Resources \cup {None}] /\ item \in [Threads -> Items \cup {None}]
  /\ mine \in [Threads -> Writers \cup {0}] /\ start \in [Threads -> Nat]
  /\ todo \in [Threads -> SUBSET Writers] /\ size \in [Threads -> Nat]
  /\ slot \in [Slots -> SUBSET Items] /\ reported \in [Slots -> Nat]
  /\ torn \subseteq Slots /\ raced \subseteq Slots
  /\ fresh \subseteq Writers /\ seen \subseteq Writers

\* newcount of a slot is what the server reported since it was last popped, with
\* what was reported but not counted then, whoever made its writers and whatever
\* was retried; only a pop between a callback's read and its write is undone by it
\* (client/frontiers.py _writer_callback against delete).
CountIsReported == \A s \in Slots \ raced : newcount[s] + Uncounted(s) = reported[s]

\* A slot counts no more new fingerprints than the server holds in it: repeated
\* requests and repeated fingerprints are not counted, and a delete resets the
\* count.  Not so if the delete raised after it may have been served, or if answers
\* from before it are counted after the pop.
CountBounded ==
  \A s \in Slots \ torn : newcount[s] + Uncounted(s) <= Cardinality(slot[s])

\* Joining a slot's writer, as flush and close do, ends only after the callbacks
\* of all that was put on it before (_checkpoint calls back before task_done).
FlushCounts ==
  [][\A t \in Threads, s \in Slots :
       (InLoop(t) /\ mine[t] # 0 /\ mine'[t] = 0 /\ owner[mine[t]] = s) =>
          (cur = mine[t] => wpc = "pick") /\ Queued(mine[t]) = 0]_vars

\* Logs in append mode go on after what earlier writers stored, provided that
\* those were closed and nothing of theirs was given up (job.py batch_write_start).
AppendContinues ==
  \A x, y \in stored :
    (x[1] = y[1] /\ x[3] \in fresh /\ y[3] < x[3] /\ x[1] \notin lost
       /\ owner[x[3]] \in Appending) => y[2] < x[2]

(***************************************************************************)
(* The writers of records (items, logs, samples, requests) as an UploadLog. *)
(* An item is settled when it was marked done, which is what a join of the *)
(* queue waits for; its position counts from where its writer began; it    *)
(* was dropped if the writer is past it and the server never got it.       *)
(***************************************************************************)
\* How many of a writer's items its offset has moved past, and where it began.
Sent(w) == head[w] - (IF cur = w /\ wpc = "upload" THEN taken ELSE 0)
Begins(w) == offset[w] - Sent(w)

Recorders == {w \in Made : owner[w] \notin Slots}
Has(w, i) == \E x \in stored : x[3] = w /\ x[4] = i
MayLose(w) == Target[owner[w]] \in lost

RecordLog == [w \in Writers |-> IF w \in Recorders THEN log[w] ELSE <<>>]
Settled == [w \in Writers |-> IF w \in Recorders THEN Len(log[w]) - unfinished[w] ELSE 0]
Received == {<<x[3], x[2] - Begins(x[3]), log[x[3]][x[4]]>> : x \in stored}
Dropped ==
  {z \in UNION {{w} \X (0..Sent(w) - 1) : w \in Recorders} :
     MayLose(z[1]) /\ ~Has(z[1], z[2] + 1)}

Records == INSTANCE UploadLog WITH
  Data <- Items \cup {None}, Start <- 0,
  log <- RecordLog, settled <- Settled, stored <- Received, discarded <- Dropped

\* The writers of records keep the promise that the batch uploader makes for one
\* writer: whoever makes them, and whatever is retried or given up, what was
\* settled is stored at its own position, or was dropped on a stream on which an
\* upload was given up (resourcetype.py write, batchuploader.py _checkpoint).
ImplementsUploadLog == Records!Spec

\* When close_writers returns, everything put through the writers of the job's
\* resources has been settled (job.py close_writers).
CloseWritersDrains ==
  [][\A t \in Threads : (pc[t] = "closejob" /\ pc'[t] = "idle") =>
       \A r \in JobWriters : ref[r] # 0 => unfinished[ref[r]] = 0]_vars

\* When the client is closed, every writer is drained, those too that a resource
\* lost because two threads made its writer at once (resourcetype.py writer); but
\* none that was made after the worker found its deque empty and before it read
\* closed, which then can be no writer of a client that was closed at that look.
ClientCloseDrains ==
  [][\A t \in Threads : (pc[t] = "shut" /\ pc'[t] = "idle") =>
       \A w \in Made : w \in seen => unfinished[w] = 0 /\ Queued(w) = 0]_vars

\* flush, close, close_writers, the client's close and every other call return,
\* whatever fails, unless they wait for a writer that the worker left behind as it
\* stopped: each thread is outside of a call again and again.
CallsReturn ==
  \A t \in Threads :
    []<>(pc[t] = "idle" \/ (wpc = "stopped" /\ mine[t] \notin seen \cup {0}))
=============================================================================
