# TLA+ models of python-scrapinghub

python-scrapinghub is the client library of a job and storage service. Most of
it turns a method call into one HTTP request. What is hard is kept in a few
places: a background thread that uploads the items of many writers, readers
that resume broken downloads, a retrier under every idempotent request, local
copies of remote mappings, and counters fed by callbacks. This directory models
those places, checks them with TLC on small instances and proves the main
properties with TLAPS for every instance.

## Inventory

| Component | State | Operations | What is hard |
|---|---|---|---|
| Batch uploader (`hubstorage/batchuploader.py`, `iterqueue` of `hubstorage/utils.py`) | deque of writers, event, closed flag; per writer a bounded queue, offset, id counter, flags | `create_writer`, `write`, `flush`, `close` (of a writer, of the uploader), the worker thread | callers' threads against the worker, lost and repeated requests, full queues, shutdown |
| Readers (`hubstorage/resourcetype.py` `_retry`, `client/items.py` `list_iter`, `client/proxy.py` `iter`, `legacy.py` `Job.items`) | request parameters, last line, counters | iterate, iterate in lists | responses that break in the middle, jobs that grow, counts |
| Request retrier (`hubstorage/client.py`) | attempts of one request | `request` | what may be retried, how often |
| Mappings (`MappingResourceType`, `JobMeta`, `Settings`, `_MappingProxy`) | cached copy, pending deletions | read, set, delete, `save`, `expire`, `update_metadata`; `get`, `set`, `update`, `delete` of a proxy | stale copies, saves that fail halfway, several clients |
| Lazily created writers (`ItemsResourceType`, `Logs`, `Job.close_writers`) | one writer per resource | `write`, `flush`, `close` | creation without a lock, order of closing, where an appended log goes on |
| Frontier (`hubstorage/frontier.py`, `client/frontiers.py`) | writers and new counts per slot | `add`, `flush`, `close`, `delete`, `newcount` | counts updated by the worker's callback, slots that are deleted |
| Job queue and jobs (`hubstorage/jobq.py`, `client/jobs.py`) | none; the server's job states | `push`, `run`, `start`, `update`, `cancel`, `finish`, `delete`, `update_tags`, lists | requests that must not be repeated, duplicates, errors that are not recognised |
| Collections (`hubstorage/collectionsrt.py`, `client/collections.py`) | the start and the total of a count | `get`, `set`, `delete`, `truncate`, `count` by pages | pages under concurrent writes, writes that are repeated or late |
| Facade (`client/__init__.py`, projects, spiders, activity, samples, requests, logs) | none | one request each | parameter handling |
| Keys, credentials, errors (`client/utils.py`, `client/exceptions.py`, `hubstorage/utils.py`) | none | `parse_job_key`, `parse_auth`, `apipoll` | edge cases |
| Legacy client (`legacy.py`) | one-shot response iterators | XML-RPC style calls, `JobSet`, `Job.items` | retries of `Job.items`, loops that an exception leaves |

Resources write through writers that the client's one batch uploader serves;
the worker calls the resources back (`Frontier`). Reads and mapping changes go
through `HubstorageClient.request` and its retrier. `client/*` wraps the
objects of `hubstorage/*` in proxies.

The properties that make each component correct:

* uploader: items reach the server at their own positions whatever is retried;
  `flush` and `close` return after, and only after, all that was put has been
  settled; nothing is stranded by a shutdown; the thread stops when told to;
* readers: consecutive items, none twice, none missing, no more than asked for;
* mappings: a save that returns has synchronised the copy; a field of the
  platform is changed only by who names it, and no stale copy of it is posted;
* writers of resources: what closes or flushes returns after its writers are
  drained and their callbacks were made; a log in append mode goes on where the
  one before it ended;
* frontier: a slot's count is the sum of what the server reported since the
  slot was deleted, where no callback was under way then;
* jobs: a call that returns has told its caller all that the server did for it;
  a client changes jobs of other projects only where it names one to a call that
  checks no key; a loop over a JobSet asks for each job once;
* collections: a count under concurrent writes is between what was there all
  along and what was there at some time; what a get tells was so; a write that
  returned holds; the retrier uses up the attempts it was made for unless the
  time runs out.

`PROJECT.json` lists the hazards line by line with the properties that cover
them.

## Modules

**BatchUploader.tla**, the uploader. A writer's queue is its history `log` and
the number `head` of items got from it. The variables carry the names of the
attributes they stand for (`closed`, `_wait_event` is `event`, `_writers` is
`rotation`, `flushme`, `offset`, `_nextid`; `due` says that the checkpoint is
an interval ago). One action per step that another thread can come between:
`write` is `Write` (the assertion), `Put`, `ReturnId`; `flush` is `Flush`,
`Interrupt`, `JoinQueueFlush`, `EndFlush`; the worker's loop is `LoopTop`,
`StopOrIdle`, `Wait`, `Clear`, `PopWriter`, `LookAtWriter`, `RequeueWriter`,
and a checkpoint is `TakeItem` (a `get_nowait`), `EndBatch`, the outcomes of
`_tryupload`, `AdvanceOffset`, `TaskDone`. The server is the set `stored` of
`<<writer, position, item>>`, and `late`, what failed attempts may yet deliver.
`Careful` restricts callers to those that close when no other call is under way
and start no write after: what the library asks of its users without saying so.
`Faults` selects what may go wrong.

**UploadLog.tla** is what the uploader promises, in four actions: accept,
store, give up, settle. `BatchUploaderProperties.tla` states the properties and
the refinement mapping (`settled` is `offset - Start`), `MCBatchUploader.tla`
the instances. `ResourceWritersProperties.tla` maps the writers of records to
the same four actions.

**ReliableRead.tla**, the readers. One call: a plain `iter`, a `list_iter`, or
the older `Job.items`, over a job to which items may be added meanwhile.
`_retry` is `Attempt` (which resumes), `StreamFails` and `StreamEnds`; under it
are `RequestServed`, `RequestAgain`, `RequestFails` of the retrier;
`ReceiveLine` and `ReceiveBytes` deliver a response, the latter in chunks that
may end inside an item, which `mpdecode` keeps in `buffer`. The item at
position i is the number i; its msgpack form is the two bytes 2i and 2i+1.
`StreamFaults` says under which reader connections may break inside a response,
after its last line too: then `count`, which `Job.items` lowers by what it got,
is 0 and is sent again, and the server is taken to answer it with no items.
`Timed` are the readers whose requests have a timeout: the hubstorage client's
always, a legacy `Connection`'s only if it was given one. `ErrorDecoded` is what
the older reader does with most errors: `_decode_response` raises for 404 and
5xx and takes any other body for lines of items. If the body is no JSON the read
is tried again. If it is, the call goes `"astray"`: an error object is yielded as
an item, an empty body ends the iteration, and the model promises nothing more.
`ReliableReadProperties.tla` states the properties, the invariants of the
proofs and the refinement mapping to **ReadCall.tla**, what one call of a
reader promises: each step hands the caller the next items that the job has, or
none, and the call ends with all it asked for, after giving up, by an exception,
or astray.

**Mapping.tla**, the mappings. Handles have a copy (`cached`) and pending
deletions (`deleted`); `save` is `Save` or `UpdateMetadata`, a `DeleteNext` for
each deletion in any order, and `PostRest`. Proxies have none: `SetOrDelete`,
`Update`. Each request ends in `Answer`, `Again` (retried) or `Raise`; the last
two whether or not the server served it; the serving of an answered request and
its return are one step, as nothing of the caller changes between them.
`Platform` changes the fields that `JobMeta.ignore_fields` names. Users may set
and delete any key, these fields too, as the code does not look: `save` filters
them out of what it posts and not out of its deletions, and a proxy's `set` and
`delete` filter nothing. A handle may start with part of the mapping, as those
from `Project.get_jobs` do. `unseen` and `own` are history.

**ResourceWriters.tla**, the resources over the uploader: it composes what
BatchUploader has one by one. `ref[r]` is the writer a resource or slot keeps,
`owner[w]` the resource a writer was made for. A first `Write` reads where to
start (`ReadStart`, for a log in append mode), makes the writer
(`CreateWriter`) and keeps it (`AssignWriter`) in three steps, so that two
threads may make two; `PutItem` then puts on what `self._writer` is by now (a
resource) or on the one just made (a slot). `Loop` begins a flush or a close,
`NextWriter` and `JoinWriter` take it through its writers, and a frontier's
loop ends early if `_writers` changed size (`Changed`: the exception of a
dictionary that is iterated). The worker is coarser than in BatchUploader: one
step takes a batch, one uploads it (`UploadAnswered`, `UploadAgain`,
`UploadGivenUp`), and the callback is a read and a write (`CallbackReads`,
`CallbackWrites`) before `MarkDone`. `slot` and `stored` are the server's.
`JobWriters` and `Closes` are the resources through which the users of a job
object write and those its `close_writers` closes: for a hubstorage `Job` they
are the same, for one of `client/jobs.py` they are not. The worker ends in two
looks, `DequeEmpty` and `StopOrGoOn`; `seen` keeps the writers there were at the
first, and one that is made between the two is left behind, as in
`up_stop_race`. Callers are disciplined as in BatchUploader: a closing call
overlaps no other. A slot is deleted (`DeleteSlot`, `SlotDeleted`, `PopCount`)
by any thread of `Deleters`, whatever is queued, on its way or being counted.
Two histories say what that does to the count: `torn`, the slots whose count may
hold answers from before the server deleted them, and `raced`, those whose pop
came between a callback's read and its write.

**Jobs.tla**, the job queue and its clients. The server has the state of each
job; a client has at most one request, which is served, refused or lost
(`Served`, `Refuse`, `RequestLost`), and whose answer may be lost as well. Only
lists go through the retrier (`Retries`). `UpdateJobs`, the calls of `JobQ`,
take keys of any project, for `JobQ` checks none, and the server is taken to
serve them; `CancelKeys` checks the keys it is given. `Outcome` is what the
caller gets: `WrapHttpErrors`, or for `run` and tags, which go through the
legacy connection, what `DecodeError` makes of the body, and the error lines.
Calls that read the job list and differ in the form of the answer (`Count`,
`Summary`, `IterLast`) are the request of `List`. A `JobSet` is `jobset`, the
jobs its one-shot iterator still has; `LoopJob` and `LoopReturn` are an
iteration of its `stop` or `delete`, and `LoopBreaks` the end of the streamed
answer by an exception. `effects` is what the server has done for the call.

**Collections.tla**, a collection and the retrier. Time is in units of the
multiplier that `_create_retrier` computes, so that the limit is `MaxDelay`; a
failed attempt takes a time of its own out of `Delays`, and a wait is longer by
a jitter out of `Jitters`. `extra` adds up these two, which the computed waits
do not allow for. An attempt may be lost,
served without an answer, or served later, even after its client gave up
(`Delay`, `ServeLate`). A count is a request per page, each with a retrier of
its own. `always` and `ever` record what was set during a call.
Each of the two has its properties in a module `...Properties.tla` and its
instance in a module `MC....tla`, as has ResourceWriters.

BatchUploader, ReliableRead, Mapping, Jobs and Collections use no common state:
the library shares the retrier's code among them and not its state, and each
module has the retrier's outcomes in its own actions. ResourceWriters shares
the uploader, and contains it in the coarser form described above.

## Runs

| Run | Instance | Shows |
|---|---|---|
| `up_shared` | 2 threads, 1 writer, size 2, queue of 1, statuses that discard | joins wait for exactly what is pending and return, puts return, a careful shutdown leaves nothing |
| `up_faults` | 1 thread, 1 writer, 2 items, all faults, 3 writes | items in their places, the offset covers what is settled, ids are positions, UploadLog is implemented |
| `up_rotation` | 1 thread, 2 writers, size and queue of 1, 2 writes to each | each writer served in one place, items settle, close stops the thread |
| `up_stop_race` | 1 thread, one write | the shutdown race, below |
| `read_faults` | all readers, up to 4 items, 3 attempts, 2 requests each, lists of 1 and 2, counts 1, 3 and none; json and older connections break, the older has no timeout | order, completeness, count, termination, ReadCall is implemented |
| `read_msgpack` | the msgpack reader alone | the divergence, below |
| `meta_shared` | a handle, a proxy, a field, a platform field, 2 values, 2 attempts | saves synchronise, platform fields change only by who names them |
| `writers` | 2 threads, a slot that both use and one deletes, 2 objects for one log in append mode, 2 writers, 2 items, 2 attempts | counts are what was reported, appending goes on after what is stored, UploadLog is implemented, flush and close drain, also writers that were lost in a race |
| `close_writers` | 1 thread, the items of a job and of another object for it | the divergence, below |
| `jobs` | 2 clients with 2 calls and 1, 2 jobs of their project, 1 of another, a unique, 2 attempts, statuses 404 and 409 | what is told is what was done, loops over a JobSet, projects kept apart where the code looks |
| `collections` | a client with `max_retries=1` and one with `max_retries=0` and a time limit, 2 keys, pages of 1, a late request, attempts and jitter that take nothing or nearly the limit | counts, gets and acknowledged writes under concurrency, attempts made |
| `retry_zero` | as `collections` | the divergence, below |

Bounds. A write after the third meets a writer in a state that a shorter
history has too: its queue, batch and offset only move on; three items with a
size of two give a full batch, a partial one and one that grows while it is
drained. Two attempts are one that fails and one that is the last; three
attempts of a read are one before, at and after progress. Four items allow a
list, a break inside it, a resumed list and a job that grows afterwards.
`CtrPeriod` folds the loop counter: only its remainder by the number of writers
is used, and TLC evaluates the assumption that says so. With two values a field
can hold what is stale, what is new or nothing; several deletions in a save are
covered by the proof. In `writers` two writers are what a race, or a log after
a log, makes; a slot that is deleted and written again uses the same writer. In
`jobs` one call of the other client is enough to push a job between two calls
or two steps of a loop, and a JobSet with two jobs has one that is left behind.
In `collections` two pages are the first and the last; the second client may
write between them. The batches `{1}` and `{1, 2}` overlap, and the late
request is one that both outlives its call and meets a later one. All
configurations turn deadlock checking off: callers may stop calling, the worker
stops after a close, a call ends.

Fairness. The worker and a caller inside a call take steps while they can
(operating system threads), and time passes (`IntervalPasses`). Nothing is
assumed of callers that are idle, of late deliveries or of the success of an
upload: the liveness of the uploader rests on its bounded retries. A read makes
progress because attempts are bounded and, for the readers in `Timed`, because
a request has a timeout; nothing is claimed of the others: a legacy `Connection`
has none by default and may block for ever. For the same reason nothing is
claimed of the end of calls in Jobs. A worker that died of an unknown encoding
serves nobody, hence `Alive` in the properties. In Collections nothing is
assumed of the server but that every request ends, by its answer or its
timeout (the hubstorage client always passes one); calls, late deliveries and
the success of a request are not assumed.

### Divergences the runs show

* `up_stop_race`: the deque is found empty, then a writer is created, filled
  and closed with the uploader, then `closed` is read: the thread stops and the
  items are lost, against the comment "Stop thread if closed and idle".
* `read_msgpack`: the msgpack reader restarts at the first item and feeds the
  new response to the old unpacker.
* `retry_zero`: with `max_retries=0` and a `max_retry_time` the retrier repeats
  requests as often as by default (`client.py:140`), against "The number of time
  idempotent requests may be retried".
* `close_writers`: `Job.close_writers` of `client/jobs.py` closes the writers
  of `self._job`, while `job.items`, `job.logs`, `job.requests` and
  `job.samples` write through origins of their own. The same property holds in
  `writers`, where both are one object.

### Others, seen while modelling and not run

* A `write` that passed its assertion may put its item after the worker has
  dropped the closed writer (`batchuploader.py:226` and 234).
* `_add_resume_param` keeps the caller's `count` (`resourcetype.py:107`): a json
  read that is resumed may deliver more.
* `expire` keeps the pending deletions of the copy it forgets
  (`resourcetype.py:259`).
* `_MappingProxy.update` stores all elements as it read them (`proxy.py:152`),
  though its docstring speaks of partial updates.
* `jobq.py:30` never makes a `DuplicateJobError` of a 409: a `Response` with an
  error status is false. In the model a 409 is a `ScrapinghubAPIError` at the
  client.
* `client/collections.py` `iter` passes `requests_params` through
  `update_kwargs`, which encodes a dictionary to JSON.
* `Jobs.cancel(count=...)` returns the raw answer, not a dictionary.
* `Job.update_tags` sends a request even with no tags to change.
* The docstring of `Job.close_writers` says that `ScrapinghubClient.close` calls
  it; it does not.
* The computed wait allows for neither the jitter nor the time of the attempts:
  with a small `max_retry_time` the retrier may give up with attempts left, which
  `AttemptsAsConfigured` names.
* With several writers the worker may delay in the middle of a round, after the
  deque shrank (`batchuploader.py:98`), though the comment says "Delay once all
  writers are processed". The event is cleared after the wait, so an interrupt
  that a flush sent meanwhile is lost and the flush waits for one more delay.
* `_decode_response` (`legacy.py:145`) takes the body of a 400, 401, 403 or 429
  for lines of items when `Job.items` reads.
* `__setitem__`, `__delitem__` and the proxies' `set` and `delete` do not look at
  `ignore_fields`: a user may delete the platform's fields, and by a proxy set
  them, if the server lets him.
* A slot's `delete` between a callback's read and write of `newcount` is undone by
  the write; one between an upload and its callback leaves a count of what was
  deleted (`client/frontiers.py:46` and 282).
* An idempotent write that is delayed may undo a later one that was
  acknowledged: `AckedHolds` names this exception.
* The legacy session streams (`legacy.py:91`): if the list of jobs breaks inside
  a loop over a `JobSet`, the next `stop` or `delete` does nothing and says so
  to nobody. `JobSetAsksAll` names this exception.
* An answer whose body breaks is not among the failures that are retried
  (`client.py:25`), so that an idempotent request then raises at once.

## Proofs

Assumed are only the constants' assumptions (`ConstantsAssumption`,
`PeriodAssumption`, `ReaderAssumption`, `MappingAssumption`, `JobsAssumption`,
`CollectionsAssumption`, `ResourceAssumption`), which TLC evaluates in the runs.

*BatchUploaderProofs* proves `TypeOK`, then `SafetyInv`. What the server holds
is right because what will be sent is: `BatchTracks` says that the worker's
batch is the last items got from its queue, `OffsetTracks` that the offset
counts the items got except those in flight, `OutcomeKnown` that a batch past
its upload is settled. Steps are first sorted by what they may touch
(`StepKinds`), so that each invariant is argued only for the few steps that can
disturb it. From `SafetyInv` follow `EveryItemInItsPlace`, `JoinCountsPending`
and `OffsetCoversSettled`, and with `DoneIsSettled` the action property
`JoinIsABarrier`. *BatchUploaderRefinement* proves that every step maps to a
step of UploadLog or to a stutter. None of this needs fairness or `Careful`, or
bounds threads, writers or items. `IdIsPosition` follows from `CallsFit`: a
thread in a call is a user of the writer it is on. `ServedOnce` and
`NothingLeftBehind` are proved for careful callers from `RotationInv`: a writer
is in the rotation at most once and not while the worker has it (`OnceEach`),
nobody writes to what is closed (`WritesOpen`), and a writer leaves only closed
and empty (`KeptUntilDone`). `NothingLeftBehind` speaks of a worker that stopped
with an empty rotation; `up_stop_race` shows that it may stop with another.

*ReliableReadProofs* proves `TypeOK` with the counters' invariant
(`CountersInv`), and `InOrder` and `CountKept` for every call of which
`Recovers` holds: it is not a msgpack read of which the connection may break.
`read_msgpack` shows that the proviso is needed for `InOrder`. Both speak of
what was delivered until a call ends or goes astray. `OrderInv` says, reader by
reader, that the next request asks for the item that is due (`JsonResumes`,
`LegacyResumes`) and that bytes not yet decoded are those of the items due
(`MsgpackOnce`). `CompleteAtEnd` is proved without that proviso, for calls that
end and did not go astray: after a break the msgpack reader gets more items
than are due, and wrong ones, but not fewer. `CompleteInv` says so: while a
response is received, what came and what is still coming are at least what is
needed of the items the job had at the call (`NothingForgotten`), because each
request asks for all of these (`AsksAll`). `ReadersRefine` proves that the
readers implement ReadCall, again for calls of which `Recovers` holds (any
other is mapped to a call that is never made). It needs one more fact,
`Existing`: what came and what is still coming of a response are items that the
job has. `HandedOver` is the heart of it: what a step adds to what the caller
holds are the next items, because the caller holds consecutive items before it
and after it.

*MappingProofs* proves `TypeOK`, `SaveSynchronises` and `PlatformFieldsKept`.
What only the server still has was added by others (`unseen`) or is in the
deletions the handle still has to send (`Unsent`): `DeletionsKept`. It is
inductive because a handle sends only the requests of its save
(`RequestsOfSave`) and a save that raises keeps all its deletions.
`PlatformFieldsKept` follows from `RequestsKeep`: a request under way changes a
platform's field only if its user named it.

*JobsProofs* proves `TypeOK`, the four invariants of `jobs` and its action
property `StaysInProject`, for any clients, jobs and projects. `ReturnTellsAll`
and `PushTells` rest on one fact: while a request that changes jobs is sent it
has had no earlier attempt, so the server has done nothing for it yet. The two
of the JobSet rest on another: what its iterator still has and what its loops
have asked for are disjoint and are together what it was loaded with.
`StaysInProject` holds because the keys of every changing request but those of
`JobQ`'s `update`, `finish` and `delete`, and the jobs of a JobSet, are of the
client's project (`ProjectInv`): a job has its project's, `cancel` has looked, and
a JobSet was loaded so.

*CollectionsProofs* proves `TypeOK`, `CountInBetween`, `GetWasSo` and
`AckedHolds`. For a count, the total lies between the numbers of keys below its
start that were set all along and that were set at some time; a page adds the
keys set at that moment, which are among the one and include the other. For
`AckedHolds` a request under way is of a call no later than the client's last,
and a key of a call that is acknowledged was written by it or by another since.
`AttemptsAsConfigured` is arithmetic: the waits before attempt n add up to
2^n - 2 multipliers, the time limit is 2^(m+1) - 2 for the m attempts the retrier
is made for, and so a retrier that gives up early has spent at least three
quarters of the limit on attempts and jitter. How many attempts it is made for
is the code's own formula here; that the formula is not what the docstring says
is `retry_zero`. The powers are a
recursive function, `Power2`; that it has a solution on all naturals is proved
from the least number at which a partial solution would fail, without the
library's induction theorems.

*ResourceWritersProofs* proves `TypeOK` and the safety properties of `writers`,
for any threads, resources and writers, in layers. `Books` says that what a
writer has unfinished is queued or held by the worker, and that a writer, a
reference to it and the call that made it name one resource. `ClosingBooks`
adds that a call that closes has the resources to itself, that nobody writes
once the uploader is closed, and that the writers the worker saw at its last
look are closed and empty (`ClosedBooks`): so the client's close returns with
those drained (`ClientCloseDrains`), and what `close_writers` has found is still
to be waited for or done: `CloseWritersDrains` follows if the resources it
closes are those written through, the proviso that `close_writers.cfg` shows the
code not to meet. `FlushCounts` follows from `Books`. `CountBooks` has the two
properties of the counts and what makes them inductive against a callback that
a delete overlaps: the callback's base is still the count unless a pop came in
between (`BaseRead`, excepting `raced`), and the count stays within what the
slot holds also if the callback goes on from its base (`Bounded`, excepting
`torn`).

`AppendContinues` follows from `AppendBooks`: on a stream on which nothing was
given up, the positions stored are an initial segment (`InitialSegment`), so
that their number, which is what a log in append mode asks for, is the position
after the last. That is inductive because a writer whose predecessors were
closed when it was made has its stream to itself (`FreshBook`), because what was
closed by then has nothing left to upload (`ClosedDrained`), and because the
offset of such a writer is the number of positions stored (`StartBook`,
`OffsetBook`). The property's own proviso, that earlier writers were closed and
nothing was given up, is all it needs.

*ResourceWritersRefinement* proves that the writers of records implement
UploadLog as well, each as a log of its own: whoever makes them, lost ones
included, and wherever in the stream they begin. An item is settled when it was
marked done, which is what a join waits for, so `settled` is the length of the
log less `unfinished`; a position counts from where the writer began
(`Begins`); an item was discarded if its writer's offset is past it, the server
never got it, and an upload was given up on its stream. `RecordBooks` ties the
three counters of a writer together (`IndexBook`: what is stored under an index
is at the offset that belongs to it; `SentBook`: whatever the offset is past
was stored, or its stream is marked as one that lost something). A discarded
item of UploadLog is discarded for ever, so the proof has to show that the
server never gets an item later that was counted as dropped: indexes of a batch
under way are beyond what was sent.

What is only model-checked are the liveness properties: `JoinReturns`,
`PutReturns`, `ItemsSettle`, `CloseStopsWorker`, `CallsReturn` and the two
`CallsEnd`. They need fairness and ENABLED, which
the prover does not handle. Every safety property of a passing run is stated by
a theorem. The four divergences are counterexamples, found by TLC. `TypeOK` of
ReliableRead, Mapping, Jobs, Collections and ResourceWriters is proved and not
listed in a run.

## Not modelled

In the uploader: the encoding of items, the limit on an item's size (`write`
raises), the length of pauses. A call that raises before it changes anything is
not a step. In the readers: parameters other than `start` and `count`, filters,
the `_key` bookkeeping, the pauses. In the mappings: requests that the server
serves after they were given up; `None` as a value. In the writers of
resources: queues that are full, a close with `block=False` by callers, a sum
over `newcount` while the callback inserts a key, and two threads that make the
uploader itself at once (`client.py:160`). In the jobs: filters and parameters
of lists, the contents of tags, metadata, which jobs `count` and `summary`
select, `cancel` by a count, which leaves the choice of jobs to the server, and
the `JobQ` without a project of `hubstorage/client.py:88`. In the collections:
`iter` and `list` (the readers above), `create_writer` (a writer of the
uploader), versions and expiry. The facade, spiders, projects, activity and
samples make one request each and keep nothing. `parse_auth`, `urlpathjoin` and
the formatting of filters are pure functions of strings.

## What is left

1. A refinement of ResourceWriters' worker by BatchUploader's own steps. Both
   implement UploadLog, which says what a caller can tell of either.
2. The safety lemmas under the liveness properties: a bound on the worker's
   steps that decreases until a join returns.
