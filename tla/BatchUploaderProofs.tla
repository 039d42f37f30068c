----------------------- MODULE BatchUploaderProofs ------------------------
(***************************************************************************)
(* Proofs that BatchUploader.tla has the safety properties of              *)
(* BatchUploaderProperties.tla for any number of threads, writers and      *)
(* items, any sizes and any failures.                                      *)
(***************************************************************************)
EXTENDS BatchUploaderProperties, FiniteSetTheorems, SequenceTheorems, TLAPS

\* The initial states are of the right types.
LEMMA InitTypeOK == Init => TypeOK
<1> SUFFICES ASSUME Init PROVE TypeOK OBVIOUS
<1> USE ConstantsAssumption, PeriodAssumption, EmptySeq DEF Init
<1>1. LoopTypes BY DEF LoopTypes
<1>2. WorkerTypes BY DEF WorkerTypes, WorkerAt, HasWriter
<1>3. QueueTypes BY DEF QueueTypes
<1>4. WriterTypes BY DEF WriterTypes, FirstId
<1>5. CallTypes BY DEF CallTypes, CallerAt, OnWriter
<1>6. ServerTypes BY DEF ServerTypes
<1>7. PopFinds BY DEF PopFinds
<1> QED BY <1>1, <1>2, <1>3, <1>4, <1>5, <1>6, <1>7 DEF TypeOK

\* The triples a request places on the server are of the right types.
LEMMA PlacedTypes ==
  ASSUME WorkerTypes, WriterTypes, wpc = "upload"
  PROVE  Placed \subseteq Writers \X Nat \X Data /\ GivenUp \subseteq Writers \X Nat
  BY ConstantsAssumption DEF WorkerTypes, WriterTypes, HasWriter, Placed, GivenUp

\* Every step preserves the types.
LEMMA NextTypeOK == TypeOK /\ [Next]_vars => TypeOK'
<1> SUFFICES ASSUME TypeOK, [Next]_vars PROVE TypeOK' OBVIOUS
<1> USE ConstantsAssumption, PeriodAssumption DEF TypeOK
<1>1. ASSUME NEW t \in Threads, NEW w \in Writers, NEW known \in BOOLEAN,
             CreateWriter(t, w, known) PROVE TypeOK'
  <2>1. LoopTypes' BY <1>1 DEF CreateWriter, LoopTypes, dequeVars
  <2>2. CallTypes' BY <1>1 DEF CreateWriter, CallTypes, CallerAt, OnWriter, Call, Goto
  <2>3. PopFinds' BY <1>1 DEF CreateWriter, PopFinds, workerVars
  <2>4. WorkerTypes' /\ QueueTypes' /\ WriterTypes' /\ ServerTypes'
    BY <1>1 DEF CreateWriter, WorkerTypes, QueueTypes, WriterTypes, ServerTypes, workerVars, localVars, queueVars, writerVars, serverVars
  <2> QED BY <2>1, <2>2, <2>3, <2>4
<1>2. ASSUME NEW t \in Threads, AppendWriter(t) PROVE TypeOK'
  <2>1. LoopTypes' BY <1>2 DEF AppendWriter, LoopTypes, CallTypes, OnWriter, Return, Goto
  <2>2. CallTypes' BY <1>2 DEF AppendWriter, CallTypes, CallerAt, OnWriter, Return, Goto
  <2>3. PopFinds' BY <1>2 DEF AppendWriter, PopFinds, LoopTypes, CallTypes, OnWriter, Return, Goto, workerVars
  <2>4. WorkerTypes' /\ QueueTypes' /\ WriterTypes' /\ ServerTypes'
    BY <1>2 DEF AppendWriter, WorkerTypes, QueueTypes, WriterTypes, ServerTypes, workerVars, localVars, queueVars, writerVars, serverVars
  <2> QED BY <2>1, <2>2, <2>3, <2>4
<1>3. ASSUME NEW t \in Threads, NEW w \in Writers, NEW d \in Data, Write(t, w, d) PROVE TypeOK'
  <2>1. CallTypes' BY <1>3 DEF Write, CallTypes, CallerAt, OnWriter, Call, Goto
  <2>2. LoopTypes' /\ WorkerTypes' /\ QueueTypes' /\ WriterTypes' /\ ServerTypes' /\ PopFinds'
    BY <1>3 DEF Write, LoopTypes, WorkerTypes, QueueTypes, WriterTypes, ServerTypes, PopFinds, loopVars, dequeVars, workerVars, localVars, queueVars, writerVars, serverVars
  <2> QED BY <2>1, <2>2
<1>4. ASSUME NEW t \in Threads, Put(t) PROVE TypeOK'
  <2>1. QueueTypes' BY <1>4 DEF Put, QueueTypes, CallTypes, OnWriter, Goto
  <2>2. CallTypes' BY <1>4 DEF Put, CallTypes, CallerAt, OnWriter, Goto
  <2>3. LoopTypes' /\ WorkerTypes' /\ WriterTypes' /\ ServerTypes' /\ PopFinds'
    BY <1>4 DEF Put, LoopTypes, WorkerTypes, WriterTypes, ServerTypes, PopFinds, loopVars, dequeVars, workerVars, localVars, writerVars, serverVars
  <2> QED BY <2>1, <2>2, <2>3
<1>5. ASSUME NEW t \in Threads, ReturnId(t) PROVE TypeOK'
  <2>1. LoopTypes' BY <1>5 DEF ReturnId, LoopTypes, Full, dequeVars
  <2>2. WriterTypes' BY <1>5 DEF ReturnId, WriterTypes, CallTypes, OnWriter, Return, Goto
  <2>3. CallTypes' BY <1>5 DEF ReturnId, CallTypes, CallerAt, OnWriter, Return, Goto
  <2>4. PopFinds' BY <1>5 DEF ReturnId, PopFinds, workerVars, dequeVars
  <2>5. WorkerTypes' /\ QueueTypes' /\ ServerTypes'
    BY <1>5 DEF ReturnId, WorkerTypes, QueueTypes, ServerTypes, workerVars, localVars, queueVars, serverVars
  <2> QED BY <2>1, <2>2, <2>3, <2>4, <2>5
<1>6. ASSUME NEW t \in Threads, NEW w \in Writers, Flush(t, w) PROVE TypeOK'
  <2>1. WriterTypes' BY <1>6 DEF Flush, WriterTypes
  <2>2. CallTypes' BY <1>6 DEF Flush, CallTypes, CallerAt, OnWriter, Call, Goto
  <2>3. LoopTypes' /\ WorkerTypes' /\ QueueTypes' /\ ServerTypes' /\ PopFinds'
    BY <1>6 DEF Flush, LoopTypes, WorkerTypes, QueueTypes, ServerTypes, PopFinds, loopVars, dequeVars, workerVars, localVars, queueVars, serverVars
  <2> QED BY <2>1, <2>2, <2>3
<1>7. ASSUME NEW t \in Threads, EndFlush(t) PROVE TypeOK'
  <2>1. WriterTypes' BY <1>7 DEF EndFlush, WriterTypes, CallTypes, OnWriter, Return, Goto
  <2>2. CallTypes' BY <1>7 DEF EndFlush, CallTypes, CallerAt, OnWriter, Return, Goto
  <2>3. LoopTypes' /\ WorkerTypes' /\ QueueTypes' /\ ServerTypes' /\ PopFinds'
    BY <1>7 DEF EndFlush, LoopTypes, WorkerTypes, QueueTypes, ServerTypes, PopFinds, loopVars, dequeVars, workerVars, localVars, queueVars, serverVars
  <2> QED BY <2>1, <2>2, <2>3
<1>8. ASSUME NEW t \in Threads, NEW w \in Writers, NEW block \in BOOLEAN,
             CloseWriter(t, w, block) PROVE TypeOK'
  <2>1. WriterTypes' BY <1>8 DEF CloseWriter, WriterTypes
  <2>2. CallTypes' BY <1>8 DEF CloseWriter, CallTypes, CallerAt, OnWriter, Call, Goto, callVars
  <2>3. LoopTypes' /\ WorkerTypes' /\ QueueTypes' /\ ServerTypes' /\ PopFinds'
    BY <1>8 DEF CloseWriter, LoopTypes, WorkerTypes, QueueTypes, ServerTypes, PopFinds, loopVars, dequeVars, workerVars, localVars, queueVars, serverVars
  <2> QED BY <2>1, <2>2, <2>3
<1>9. ASSUME NEW t \in Threads, Close(t) PROVE TypeOK'
  <2>1. LoopTypes' BY <1>9 DEF Close, LoopTypes, dequeVars
  <2>2. CallTypes' BY <1>9 DEF Close, CallTypes, CallerAt, OnWriter, Goto
  <2>3. PopFinds' BY <1>9 DEF Close, PopFinds, workerVars, dequeVars
  <2>4. WorkerTypes' /\ QueueTypes' /\ WriterTypes' /\ ServerTypes'
    BY <1>9 DEF Close, WorkerTypes, QueueTypes, WriterTypes, ServerTypes, workerVars, localVars, queueVars, writerVars, serverVars
  <2> QED BY <2>1, <2>2, <2>3, <2>4
<1>10. ASSUME NEW t \in Threads,
             \/ Interrupt(t, "flush", "joinflush")
             \/ Interrupt(t, "close", "joinclose")
             \/ Interrupt(t, "shut", "jointhread") PROVE TypeOK'
  <2>1. LoopTypes' BY <1>10 DEF Interrupt, LoopTypes, dequeVars
  <2>2. CallTypes' BY <1>10 DEF Interrupt, CallTypes, CallerAt, OnWriter, Goto
  <2>3. PopFinds' BY <1>10 DEF Interrupt, PopFinds, workerVars, dequeVars
  <2>4. WorkerTypes' /\ QueueTypes' /\ WriterTypes' /\ ServerTypes'
    BY <1>10 DEF Interrupt, WorkerTypes, QueueTypes, WriterTypes, ServerTypes, workerVars, localVars, queueVars, writerVars, serverVars
  <2> QED BY <2>1, <2>2, <2>3, <2>4
<1>11. ASSUME NEW t \in Threads, JoinQueueFlush(t) PROVE TypeOK'
  <2>1. CallTypes' BY <1>11 DEF JoinQueueFlush, CallTypes, CallerAt, OnWriter, Goto
  <2>2. LoopTypes' /\ WorkerTypes' /\ QueueTypes' /\ WriterTypes' /\ ServerTypes' /\ PopFinds'
    BY <1>11 DEF JoinQueueFlush, LoopTypes, WorkerTypes, QueueTypes, WriterTypes, ServerTypes, PopFinds, loopVars, dequeVars, workerVars, localVars, queueVars, writerVars, serverVars
  <2> QED BY <2>1, <2>2
<1>12. ASSUME NEW t \in Threads, JoinQueueClose(t) PROVE TypeOK'
  <2>1. CallTypes' BY <1>12 DEF JoinQueueClose, CallTypes, CallerAt, OnWriter, Return, Goto
  <2>2. LoopTypes' /\ WorkerTypes' /\ QueueTypes' /\ WriterTypes' /\ ServerTypes' /\ PopFinds'
    BY <1>12 DEF JoinQueueClose, LoopTypes, WorkerTypes, QueueTypes, WriterTypes, ServerTypes, PopFinds, loopVars, dequeVars, workerVars, localVars, queueVars, writerVars, serverVars
  <2> QED BY <2>1, <2>2
<1>13. ASSUME NEW t \in Threads, JoinThread(t) PROVE TypeOK'
  <2>1. CallTypes' BY <1>13 DEF JoinThread, CallTypes, CallerAt, OnWriter, Return, Goto
  <2>2. LoopTypes' /\ WorkerTypes' /\ QueueTypes' /\ WriterTypes' /\ ServerTypes' /\ PopFinds'
    BY <1>13 DEF JoinThread, LoopTypes, WorkerTypes, QueueTypes, WriterTypes, ServerTypes, PopFinds, loopVars, dequeVars, workerVars, localVars, queueVars, writerVars, serverVars
  <2> QED BY <2>1, <2>2
<1>14. CASE LoopTop
  <2>1. WorkerTypes' BY <1>14 DEF LoopTop, WorkerTypes, WorkerAt, HasWriter
  <2>2. PopFinds' BY <1>14 DEF LoopTop, PopFinds, loopVars, dequeVars
  <2>3. LoopTypes' /\ QueueTypes' /\ WriterTypes' /\ CallTypes' /\ ServerTypes'
    BY <1>14 DEF LoopTop, LoopTypes, QueueTypes, WriterTypes, CallTypes, ServerTypes, loopVars, dequeVars, queueVars, writerVars, callVars, serverVars
  <2> QED BY <2>1, <2>2, <2>3
<1>15. CASE StopOrIdle
  <2>1. WorkerTypes' BY <1>15 DEF StopOrIdle, WorkerTypes, WorkerAt, HasWriter, WGoto, localVars
  <2>2. PopFinds' BY <1>15 DEF StopOrIdle, PopFinds, WGoto
  <2>3. LoopTypes' /\ QueueTypes' /\ WriterTypes' /\ CallTypes' /\ ServerTypes'
    BY <1>15 DEF StopOrIdle, LoopTypes, QueueTypes, WriterTypes, CallTypes, ServerTypes, loopVars, dequeVars, queueVars, writerVars, callVars, serverVars
  <2> QED BY <2>1, <2>2, <2>3
<1>16. CASE Wait("idle", "idlewoken") \/ Wait("delay", "delaywoken")
  <2>1. WorkerTypes' BY <1>16 DEF Wait, WorkerTypes, WorkerAt, HasWriter, WGoto, localVars
  <2>2. PopFinds' BY <1>16 DEF Wait, PopFinds, WGoto, loopVars, dequeVars
  <2>3. LoopTypes' /\ QueueTypes' /\ WriterTypes' /\ CallTypes' /\ ServerTypes'
    BY <1>16 DEF Wait, LoopTypes, QueueTypes, WriterTypes, CallTypes, ServerTypes, loopVars, dequeVars, queueVars, writerVars, callVars, serverVars
  <2> QED BY <2>1, <2>2, <2>3
<1>17. CASE Clear("idlewoken", AfterIdle) \/ Clear("delaywoken", "pop")
  <2>1. LoopTypes' BY <1>17 DEF Clear, LoopTypes, dequeVars
  <2>2. WorkerTypes' BY <1>17 DEF Clear, WorkerTypes, WorkerAt, HasWriter, WGoto, localVars, AfterIdle
  <2>3. PopFinds' BY <1>17 DEF Clear, PopFinds, WGoto, AfterIdle, dequeVars
  <2>4. QueueTypes' /\ WriterTypes' /\ CallTypes' /\ ServerTypes'
    BY <1>17 DEF Clear, QueueTypes, WriterTypes, CallTypes, ServerTypes, queueVars, writerVars, callVars, serverVars
  <2> QED BY <2>1, <2>2, <2>3, <2>4
<1>18. CASE PopWriter
  <2>1. LoopTypes' BY <1>18, HeadTailProperties DEF PopWriter, LoopTypes, PopFinds, WGoto
  <2>2. WorkerTypes' BY <1>18, HeadTailProperties DEF PopWriter, LoopTypes, PopFinds, WorkerTypes, WorkerAt, HasWriter, WGoto
  <2>3. WriterTypes' BY <1>18, HeadTailProperties DEF PopWriter, LoopTypes, PopFinds, WriterTypes, ClosedNow, WGoto
  <2>4. PopFinds' BY <1>18 DEF PopWriter, PopFinds, WGoto
  <2>5. QueueTypes' /\ CallTypes' /\ ServerTypes'
    BY <1>18 DEF PopWriter, QueueTypes, CallTypes, ServerTypes, queueVars, callVars, serverVars
  <2> QED BY <2>1, <2>2, <2>3, <2>4, <2>5
<1>19. CASE LookAtWriter
  <2>1. WorkerTypes' BY <1>19 DEF LookAtWriter, WorkerTypes, WorkerAt, HasWriter, localVars
  <2>2. WriterTypes' BY <1>19 DEF LookAtWriter, WriterTypes, WorkerTypes
  <2>3. PopFinds' BY <1>19 DEF LookAtWriter, PopFinds
  <2>4. LoopTypes' /\ QueueTypes' /\ CallTypes' /\ ServerTypes'
    BY <1>19 DEF LookAtWriter, LoopTypes, QueueTypes, CallTypes, ServerTypes, loopVars, dequeVars, queueVars, callVars, serverVars
  <2> QED BY <2>1, <2>2, <2>3, <2>4
<1>20. CASE RequeueWriter
  <2>1. LoopTypes' BY <1>20 DEF RequeueWriter, LoopTypes, WorkerTypes, WGoto, HasWriter
  <2>2. WorkerTypes' BY <1>20 DEF RequeueWriter, WorkerTypes, WorkerAt, HasWriter, WGoto
  <2>3. PopFinds' BY <1>20 DEF RequeueWriter, PopFinds, WGoto
  <2>4. QueueTypes' /\ WriterTypes' /\ CallTypes' /\ ServerTypes'
    BY <1>20 DEF RequeueWriter, QueueTypes, WriterTypes, CallTypes, ServerTypes, queueVars, writerVars, callVars, serverVars
  <2> QED BY <2>1, <2>2, <2>3, <2>4
<1>21. CASE TakeItem
  <2>1. WorkerTypes' BY <1>21 DEF TakeItem, WorkerTypes, WorkerAt, HasWriter, QueueTypes, Empty, QueueSize
  <2>2. QueueTypes' BY <1>21 DEF TakeItem, QueueTypes, WorkerTypes, HasWriter, Empty, QueueSize
  <2>3. PopFinds' BY <1>21 DEF TakeItem, PopFinds
  <2>4. LoopTypes' /\ WriterTypes' /\ CallTypes' /\ ServerTypes'
    BY <1>21 DEF TakeItem, LoopTypes, WriterTypes, CallTypes, ServerTypes, loopVars, dequeVars, writerVars, callVars, serverVars
  <2> QED BY <2>1, <2>2, <2>3, <2>4
<1>22. CASE EndBatch
  <2>1. WorkerTypes' BY <1>22 DEF EndBatch, WorkerTypes, WorkerAt, HasWriter, WGoto, localVars
  <2>2. PopFinds' BY <1>22 DEF EndBatch, PopFinds, WGoto
  <2>3. LoopTypes' /\ QueueTypes' /\ WriterTypes' /\ CallTypes' /\ ServerTypes'
    BY <1>22 DEF EndBatch, LoopTypes, QueueTypes, WriterTypes, CallTypes, ServerTypes, loopVars, dequeVars, queueVars, writerVars, callVars, serverVars
  <2> QED BY <2>1, <2>2, <2>3
<1>23. CASE UploadStored
  <2>1. WorkerTypes' BY <1>23 DEF UploadStored, WorkerTypes, WorkerAt, HasWriter, WGoto, localVars
  <2>2. ServerTypes' BY <1>23, PlacedTypes DEF UploadStored, ServerTypes, WGoto
  <2>3. PopFinds' BY <1>23 DEF UploadStored, PopFinds, WGoto
  <2>4. LoopTypes' /\ QueueTypes' /\ WriterTypes' /\ CallTypes'
    BY <1>23 DEF UploadStored, LoopTypes, QueueTypes, WriterTypes, CallTypes, loopVars, dequeVars, queueVars, writerVars, callVars
  <2> QED BY <2>1, <2>2, <2>3, <2>4
<1>24. CASE UploadFails
  <2>1. WorkerTypes' BY <1>24 DEF UploadFails, WorkerTypes, WorkerAt, HasWriter
  <2>2. ServerTypes' BY <1>24, PlacedTypes DEF UploadFails, ServerTypes
  <2>3. PopFinds' BY <1>24 DEF UploadFails, PopFinds
  <2>4. LoopTypes' /\ QueueTypes' /\ WriterTypes' /\ CallTypes'
    BY <1>24 DEF UploadFails, LoopTypes, QueueTypes, WriterTypes, CallTypes, loopVars, dequeVars, queueVars, writerVars, callVars
  <2> QED BY <2>1, <2>2, <2>3, <2>4
<1>25. ASSUME NEW why \in {"status", "fatal"}, UploadGivenUp(why) PROVE TypeOK'
  <2>1. WorkerTypes' BY <1>25 DEF UploadGivenUp, WorkerTypes, WorkerAt, HasWriter, WGoto, localVars
  <2>2. ServerTypes' BY <1>25, PlacedTypes DEF UploadGivenUp, ServerTypes, WGoto
  <2>3. PopFinds' BY <1>25 DEF UploadGivenUp, PopFinds, WGoto
  <2>4. LoopTypes' /\ QueueTypes' /\ WriterTypes' /\ CallTypes'
    BY <1>25 DEF UploadGivenUp, LoopTypes, QueueTypes, WriterTypes, CallTypes, loopVars, dequeVars, queueVars, writerVars, callVars
  <2> QED BY <2>1, <2>2, <2>3, <2>4
<1>26. CASE AdvanceOffset
  <2>1. WorkerTypes' BY <1>26 DEF AdvanceOffset, WorkerTypes, WorkerAt, HasWriter, WGoto
  <2>2. WriterTypes' BY <1>26 DEF AdvanceOffset, WriterTypes, WorkerTypes, WGoto, HasWriter, OffsetByCount
  <2>3. PopFinds' BY <1>26 DEF AdvanceOffset, PopFinds, WGoto
  <2>4. LoopTypes' /\ QueueTypes' /\ CallTypes' /\ ServerTypes'
    BY <1>26 DEF AdvanceOffset, LoopTypes, QueueTypes, CallTypes, ServerTypes, loopVars, dequeVars, queueVars, callVars, serverVars
  <2> QED BY <2>1, <2>2, <2>3, <2>4
<1>27. CASE TaskDone
  <2>1. WorkerTypes' BY <1>27, EmptySeq DEF TaskDone, WorkerTypes, WorkerAt, HasWriter, WGoto
  <2>2. QueueTypes' BY <1>27 DEF TaskDone, QueueTypes, WorkerTypes, WGoto, HasWriter, TasksDone
  <2>3. PopFinds' BY <1>27 DEF TaskDone, PopFinds, WGoto
  <2>4. LoopTypes' /\ WriterTypes' /\ CallTypes' /\ ServerTypes'
    BY <1>27 DEF TaskDone, LoopTypes, WriterTypes, CallTypes, ServerTypes, loopVars, dequeVars, writerVars, callVars, serverVars
  <2> QED BY <2>1, <2>2, <2>3, <2>4
<1>28. ASSUME NEW w \in Writers, IntervalPasses(w) PROVE TypeOK'
  <2>1. WriterTypes' BY <1>28 DEF IntervalPasses, WriterTypes
  <2>2. LoopTypes' /\ WorkerTypes' /\ QueueTypes' /\ CallTypes' /\ ServerTypes' /\ PopFinds'
    BY <1>28 DEF IntervalPasses, LoopTypes, WorkerTypes, QueueTypes, CallTypes, ServerTypes, PopFinds, loopVars, dequeVars, workerVars, localVars, queueVars, callVars, serverVars
  <2> QED BY <2>1, <2>2
<1>29. ASSUME NEW x \in late, LateApply(x) PROVE TypeOK'
  <2>1. ServerTypes' BY <1>29 DEF LateApply, ServerTypes
  <2>2. LoopTypes' /\ WorkerTypes' /\ QueueTypes' /\ WriterTypes' /\ CallTypes' /\ PopFinds'
    BY <1>29 DEF LateApply, LoopTypes, WorkerTypes, QueueTypes, WriterTypes, CallTypes, PopFinds, loopVars, dequeVars, workerVars, localVars, queueVars, writerVars, callVars
  <2> QED BY <2>1, <2>2
<1>30. CASE UNCHANGED vars
  <2>1. LoopTypes' /\ WorkerTypes' /\ QueueTypes' /\ WriterTypes' /\ CallTypes' /\ ServerTypes' /\ PopFinds'
    BY <1>30 DEF vars, LoopTypes, WorkerTypes, QueueTypes, WriterTypes, CallTypes, ServerTypes, PopFinds, loopVars, dequeVars, workerVars, localVars, queueVars, writerVars, callVars, serverVars
  <2> QED BY <2>1
<1> QED
  BY <1>1, <1>2, <1>3, <1>4, <1>5, <1>6, <1>7, <1>8, <1>9, <1>10, <1>11, <1>12, <1>13, <1>14, <1>15, <1>16, <1>17, <1>18, <1>19, <1>20, <1>21, <1>22, <1>23, <1>24, <1>25, <1>26, <1>27, <1>28, <1>29, <1>30
  DEF Next, Starts, Continues, Worker

\* Every variable keeps its type, a write in progress has an item, and the worker
\* never takes a writer from an empty deque.
THEOREM TypeCorrect == Spec => []TypeOK
  BY InitTypeOK, NextTypeOK, PTL DEF Spec

----------------------------------------------------------------------------
(***************************************************************************)
(* The safety invariant.  For its parts only these kinds of steps differ:  *)
(* quiet ones, those that take up or put back a writer between batches,    *)
(* and the steps of a put, of the drain and of the upload.                 *)
(***************************************************************************)
Quiet ==
  /\ UNCHANGED <<queueVars, offset, cur, batch, serverVars>>
  /\ wpc' = wpc \/ (wpc \notin Busy /\ wpc' \notin Busy \ {"drain"})
Swap ==
  /\ UNCHANGED <<queueVars, offset, batch, serverVars>>
  /\ wpc \notin Busy /\ wpc' \notin Busy

StepKind ==
  \/ Quiet \/ Swap \/ TakeItem \/ EndBatch \/ UploadStored \/ UploadFails
  \/ AdvanceOffset \/ TaskDone
  \/ \E t \in Threads : Put(t)
  \/ \E why \in {"status", "fatal"} : UploadGivenUp(why)
  \/ \E x \in late : LateApply(x)

\* Every step is of one of the kinds.
LEMMA StepKinds == TypeOK /\ [Next]_vars => StepKind
<1> SUFFICES ASSUME TypeOK, [Next]_vars PROVE StepKind OBVIOUS
<1> USE DEF StepKind, Quiet, Swap, Busy, loopVars, dequeVars, localVars, workerVars,
            queueVars, writerVars, callVars, serverVars
<1>1. ASSUME NEW t \in Threads, Starts(t) PROVE StepKind
  BY <1>1 DEF Starts, CreateWriter, Write, Flush, CloseWriter, Close
<1>2. ASSUME NEW t \in Threads, Continues(t) PROVE StepKind
  BY <1>2 DEF Continues, AppendWriter, ReturnId, EndFlush, Interrupt, JoinQueueFlush,
              JoinQueueClose, JoinThread
<1>3. CASE LoopTop BY <1>3 DEF LoopTop
<1>4. CASE StopOrIdle BY <1>4 DEF StopOrIdle, WGoto
<1>5. CASE Wait("idle", "idlewoken") \/ Wait("delay", "delaywoken")
  BY <1>5 DEF Wait, WGoto
<1>6. CASE Clear("idlewoken", AfterIdle) \/ Clear("delaywoken", "pop")
  BY <1>6 DEF Clear, WGoto, AfterIdle
<1>7. CASE PopWriter BY <1>7 DEF PopWriter, WGoto
<1>8. CASE LookAtWriter BY <1>8 DEF LookAtWriter
<1>9. CASE RequeueWriter BY <1>9 DEF RequeueWriter, WGoto
<1>10. ASSUME NEW w \in Writers, IntervalPasses(w) PROVE StepKind
  BY <1>10 DEF IntervalPasses
<1>11. CASE UNCHANGED vars BY <1>11 DEF vars
<1> QED
  BY <1>1, <1>2, <1>3, <1>4, <1>5, <1>6, <1>7, <1>8, <1>9, <1>10, <1>11
  DEF Next, Worker

\* A put leaves the items before it where they are.
LEMMA PutKeeps ==
  ASSUME TypeOK, NEW t \in Threads, Put(t)
  PROVE  \A w \in Writers :
           /\ Len(log[w]) \in Nat /\ Len(log'[w]) \in Nat /\ Len(log'[w]) >= Len(log[w])
           /\ \A i \in 1..Len(log[w]) : log'[w][i] = log[w][i]
<1>1. /\ on[t] \in Writers /\ item[t] \in Data /\ log \in [Writers -> Seq(Data)]
      /\ log' = [log EXCEPT ![on[t]] = Append(log[on[t]], item[t])]
  BY DEF Put, Goto, TypeOK, QueueTypes, CallTypes, OnWriter
<1>2. TAKE w \in Writers
<1>3. CASE w = on[t]
  <2>1. log'[w] = Append(log[w], item[t]) BY <1>1, <1>3
  <2> QED BY <1>1, <2>1, AppendProperties
<1>4. CASE w # on[t]
  <2>1. log'[w] = log[w] BY <1>1, <1>4
  <2> QED BY <1>1, <2>1
<1> QED BY <1>3, <1>4

\* The worker's batch and the offset keep track of what was got from the queue.
LEMMA NextTracks ==
  TypeOK /\ TypeOK' /\ BatchTracks /\ OffsetTracks /\ [Next]_vars
    => BatchTracks' /\ OffsetTracks'
<1> SUFFICES ASSUME TypeOK, TypeOK', BatchTracks, OffsetTracks, [Next]_vars
             PROVE  BatchTracks' /\ OffsetTracks'
  OBVIOUS
<1> USE ConstantsAssumption
    DEF TypeOK, WorkerTypes, QueueTypes, WriterTypes, BatchTracks, OffsetTracks, InFlight,
        Busy, HasWriter
<1>1. CASE Quiet BY <1>1 DEF Quiet, queueVars
<1>2. CASE Swap
  <2>1. batch = <<>> /\ batch' = <<>> BY <1>2 DEF Swap
  <2> QED BY <1>2, <2>1 DEF Swap, queueVars
<1>3. CASE TakeItem
  <2> DEFINE n == Len(batch)
  <2>1. /\ cur \in Writers /\ cur' = cur /\ log' = log /\ offset' = offset
        /\ wpc = "drain" /\ wpc' = wpc
    BY <1>3 DEF TakeItem, loopVars, writerVars
  <2>2. /\ n \in Nat /\ head[cur] + 1 \in 1..Len(log[cur])
        /\ log[cur][head[cur] + 1] \in Data
    BY <1>3, <2>1 DEF TakeItem, Empty, QueueSize
  <2>3. /\ Len(batch') = n + 1 /\ batch'[n + 1] = log[cur][head[cur] + 1]
        /\ \A i \in 1..n : batch'[i] = batch[i]
    BY <1>3, <2>2 DEF TakeItem
  <2>4. /\ head' = [head EXCEPT ![cur] = head[cur] + 1]
        /\ head'[cur] = head[cur] + 1 /\ head[cur] \in Nat
    BY <1>3, <2>1 DEF TakeItem
  <2>5. ASSUME NEW i \in 1..Len(batch')
        PROVE  batch'[i] = log[cur][head'[cur] - Len(batch') + i]
    <3>1. CASE i = n + 1
      <4>1. head'[cur] - Len(batch') + i = head[cur] + 1 BY <2>2, <2>3, <2>4, <3>1
      <4> QED BY <2>3, <3>1, <4>1
    <3>2. CASE i # n + 1
      <4>1. i \in 1..n BY <2>2, <2>3, <3>2
      <4>2. head'[cur] - Len(batch') + i = head[cur] - n + i BY <2>2, <2>3, <2>4, <4>1
      <4>3. batch[i] = log[cur][head[cur] - n + i] BY <2>1, <4>1
      <4> QED BY <2>3, <4>1, <4>2, <4>3
    <3> QED BY <3>1, <3>2
  <2>6. Len(batch') <= head'[cur] BY <2>1, <2>2, <2>3, <2>4
  <2>7. BatchTracks' BY <2>1, <2>5, <2>6
  <2>8. ASSUME NEW w \in Writers PROVE offset'[w] = Start + head'[w] - InFlight(w)'
    <3>1. CASE w = cur
      <4>1. offset[w] = Start + head[w] - n BY <2>1, <3>1
      <4> QED BY <2>1, <2>2, <2>3, <2>4, <3>1, <4>1
    <3>2. CASE w # cur
      <4>1. offset[w] = Start + head[w] BY <3>2
      <4> QED BY <2>1, <2>4, <3>2, <4>1
    <3> QED BY <3>1, <3>2
  <2> QED BY <2>7, <2>8
<1>4. CASE EndBatch
  <2>1. /\ UNCHANGED <<log, head, offset, cur, batch>>
        /\ wpc = "drain" /\ wpc' = IF batch = <<>> THEN "requeue" ELSE "upload"
    BY <1>4 DEF EndBatch, WGoto, localVars, queueVars, writerVars
  <2> QED BY <2>1
<1>5. CASE UploadStored
  <2>1. /\ UNCHANGED <<log, head, offset, cur, batch>>
        /\ wpc = "upload" /\ wpc' = "advance"
    BY <1>5 DEF UploadStored, WGoto, localVars, queueVars, writerVars
  <2> QED BY <2>1
<1>6. CASE UploadFails BY <1>6 DEF UploadFails, queueVars, writerVars
<1>7. ASSUME NEW why \in {"status", "fatal"}, UploadGivenUp(why)
      PROVE  BatchTracks' /\ OffsetTracks'
  BY <1>7 DEF UploadGivenUp, WGoto, localVars, queueVars, writerVars
<1>8. CASE AdvanceOffset
  BY <1>8 DEF AdvanceOffset, WGoto, OffsetByCount, queueVars
<1>9. CASE TaskDone BY <1>9 DEF TaskDone, WGoto, writerVars
<1>10. ASSUME NEW t \in Threads, Put(t) PROVE BatchTracks' /\ OffsetTracks'
  <2>1. UNCHANGED <<wpc, cur, batch, head, offset>>
    BY <1>10 DEF Put, Goto, workerVars, localVars, writerVars
  <2>2. \A w \in Writers : \A i \in 1..Len(log[w]) : log'[w][i] = log[w][i]
    BY <1>10, PutKeeps
  <2>3. ASSUME cur \in Writers, NEW i \in 1..Len(batch)
        PROVE  head[cur] - Len(batch) + i \in 1..Len(log[cur])
    <3>1. Len(batch) \in Nat /\ head[cur] \in Nat /\ Len(log[cur]) \in Nat
      BY <2>3, LenProperties
    <3>2. Len(batch) <= head[cur] BY <2>3
    <3>3. head[cur] <= Len(log[cur]) BY <2>3
    <3>4. i \in Nat /\ 1 <= i /\ i <= Len(batch) BY <2>3, <3>1
    <3> HIDE DEF TypeOK, BatchTracks, OffsetTracks
    <3> QED BY <3>1, <3>2, <3>3, <3>4
  <2>4. ASSUME cur \in Writers, NEW i \in 1..Len(batch)
        PROVE  batch[i] = log'[cur][head[cur] - Len(batch) + i]
    <3> DEFINE k == head[cur] - Len(batch) + i
    <3>1. batch[i] = log[cur][k] BY <2>4
    <3>2. k \in 1..Len(log[cur]) BY <2>3, <2>4
    <3> QED BY <2>2, <2>4, <3>1, <3>2
  <2>5. BatchTracks' BY <2>1, <2>4
  <2>6. OffsetTracks' BY <2>1
  <2> QED BY <2>5, <2>6
<1>11. ASSUME NEW x \in late, LateApply(x) PROVE BatchTracks' /\ OffsetTracks'
  BY <1>11 DEF LateApply, workerVars, localVars, queueVars, writerVars
<1> QED
  BY StepKinds, <1>1, <1>2, <1>3, <1>4, <1>5, <1>6, <1>7, <1>8, <1>9, <1>10, <1>11
  DEF StepKind


\* A request gives every item of the batch the position at which it was put.
LEMMA PlacedRight ==
  ASSUME TypeOK, BatchTracks, OffsetTracks, wpc = "upload"
  PROVE  \A x \in Placed : RightPlace(x)
<1>1. /\ cur \in Writers /\ Len(batch) \in Nat /\ head[cur] \in Nat /\ Start \in Nat
      /\ Len(log[cur]) \in Nat /\ head[cur] <= Len(log[cur]) /\ Len(batch) <= head[cur]
      /\ offset[cur] = Start + head[cur] - Len(batch)
  BY ConstantsAssumption
  DEF TypeOK, WorkerTypes, QueueTypes, HasWriter, BatchTracks, OffsetTracks, InFlight
<1>2. SUFFICES ASSUME NEW i \in 1..Len(batch)
               PROVE  RightPlace(<<cur, offset[cur] + i - 1, batch[i]>>)
  BY DEF Placed
<1>3. i \in Nat /\ 1 <= i /\ i <= Len(batch) BY <1>1
<1>4. /\ Start <= offset[cur] + i - 1 /\ offset[cur] + i - 1 < Start + Len(log[cur])
      /\ (offset[cur] + i - 1) - Start + 1 = head[cur] - Len(batch) + i
  BY <1>1, <1>3
<1>5. batch[i] = log[cur][head[cur] - Len(batch) + i] BY <1>1 DEF BatchTracks
<1> QED BY <1>4, <1>5 DEF RightPlace

\* The server holds every item at its place, and nothing late can change that.
LEMMA NextPlace ==
  TypeOK /\ BatchTracks /\ OffsetTracks /\ EveryItemInItsPlace /\ [Next]_vars
    => EveryItemInItsPlace'
<1> SUFFICES ASSUME TypeOK, BatchTracks, OffsetTracks, EveryItemInItsPlace, [Next]_vars
             PROVE  EveryItemInItsPlace'
  OBVIOUS
<1>1. ASSUME UNCHANGED log, stored' \subseteq stored \cup late \cup Placed,
             late' \subseteq late \cup Placed, wpc = "upload"
      PROVE  EveryItemInItsPlace'
  BY <1>1, PlacedRight DEF EveryItemInItsPlace, RightPlace
<1>2. ASSUME UNCHANGED log, stored' \subseteq stored \cup late, UNCHANGED late
      PROVE  EveryItemInItsPlace'
  BY <1>2 DEF EveryItemInItsPlace, RightPlace
<1>3. CASE Quiet \/ Swap BY <1>2, <1>3 DEF Quiet, Swap, queueVars, serverVars
<1>4. CASE TakeItem BY <1>2, <1>4 DEF TakeItem, serverVars
<1>5. CASE EndBatch BY <1>2, <1>5 DEF EndBatch, queueVars, serverVars
<1>6. CASE UploadStored BY <1>1, <1>6 DEF UploadStored, WGoto, queueVars
<1>7. CASE UploadFails BY <1>1, <1>7 DEF UploadFails, queueVars
<1>8. ASSUME NEW why \in {"status", "fatal"}, UploadGivenUp(why)
      PROVE  EveryItemInItsPlace'
  BY <1>1, <1>8 DEF UploadGivenUp, WGoto, queueVars
<1>9. CASE AdvanceOffset BY <1>2, <1>9 DEF AdvanceOffset, queueVars, serverVars
<1>10. CASE TaskDone BY <1>2, <1>10 DEF TaskDone, serverVars
<1>11. ASSUME NEW t \in Threads, Put(t) PROVE EveryItemInItsPlace'
  <2>1. UNCHANGED <<stored, late>> BY <1>11 DEF Put, serverVars
  <2>2. SUFFICES ASSUME NEW x \in stored \cup late PROVE RightPlace(x)'
    BY <2>1 DEF EveryItemInItsPlace
  <2>3. x \in Writers \X Nat \X Data BY DEF TypeOK, ServerTypes
  <2>4. x[1] \in Writers /\ x[2] \in Nat BY <2>3
  <2>5. RightPlace(x) BY DEF EveryItemInItsPlace
  <2>6. /\ Len(log[x[1]]) \in Nat /\ Len(log'[x[1]]) \in Nat
        /\ Len(log'[x[1]]) >= Len(log[x[1]])
    BY <1>11, <2>4, PutKeeps
  <2>7. x[2] - Start + 1 \in 1..Len(log[x[1]])
    BY <2>4, <2>5, <2>6, ConstantsAssumption DEF RightPlace
  <2>8. log'[x[1]][x[2] - Start + 1] = log[x[1]][x[2] - Start + 1]
    BY <1>11, <2>4, <2>7, PutKeeps
  <2>9. x[2] < Start + Len(log'[x[1]])
    BY <2>4, <2>5, <2>6, ConstantsAssumption DEF RightPlace
  <2> QED BY <2>5, <2>8, <2>9 DEF RightPlace
<1>12. ASSUME NEW x \in late, LateApply(x) PROVE EveryItemInItsPlace'
  BY <1>2, <1>12 DEF LateApply, queueVars
<1> QED
  BY StepKinds, <1>3, <1>4, <1>5, <1>6, <1>7, <1>8, <1>9, <1>10, <1>11, <1>12
  DEF StepKind

\* join() waits for exactly the items that are queued or in the worker's hands.
LEMMA NextJoinCounts ==
  TypeOK /\ BatchTracks /\ JoinCountsPending /\ [Next]_vars => JoinCountsPending'
<1> SUFFICES ASSUME TypeOK, BatchTracks, JoinCountsPending, [Next]_vars,
                    NEW w \in Writers
             PROVE  (unfinished[w] = QueueSize(w) + InHand(w))'
  BY DEF JoinCountsPending
<1> DEFINE G == (unfinished[w] = QueueSize(w) + InHand(w))'
<1>1. /\ unfinished[w] = QueueSize(w) + InHand(w) /\ unfinished[w] \in Int
      /\ Len(log[w]) \in Nat /\ head[w] \in Nat /\ Len(batch) \in Nat
      /\ unfinished \in [Writers -> Int] /\ head \in [Writers -> Nat]
  BY DEF JoinCountsPending, TypeOK, QueueTypes, WorkerTypes
<1> USE DEF QueueSize, InHand
<1>2. CASE Quiet BY <1>1, <1>2 DEF Quiet, queueVars
<1>3. CASE Swap
  <2>1. batch = <<>> /\ batch' = <<>> /\ UNCHANGED <<log, head, unfinished>>
    BY <1>3 DEF Swap, queueVars, BatchTracks
  <2> QED BY <1>1, <2>1
<1>4. CASE TakeItem
  <2>1. /\ UNCHANGED <<log, unfinished, cur>> /\ cur \in Writers
        /\ head' = [head EXCEPT ![cur] = head[cur] + 1]
    BY <1>4 DEF TakeItem, TypeOK, WorkerTypes, HasWriter
  <2>2. log[cur][head[cur] + 1] \in Data
    BY <1>4, <2>1 DEF TakeItem, Empty, TypeOK, QueueTypes
  <2>3. Len(batch') = Len(batch) + 1
    BY <1>4, <2>2, AppendProperties DEF TakeItem, TypeOK, WorkerTypes
  <2> QED BY <1>1, <2>1, <2>3
<1>5. CASE EndBatch BY <1>1, <1>5 DEF EndBatch, localVars, queueVars
<1>6. CASE UploadStored BY <1>1, <1>6 DEF UploadStored, localVars, queueVars
<1>7. CASE UploadFails BY <1>1, <1>7 DEF UploadFails, queueVars
<1>8. ASSUME NEW why \in {"status", "fatal"}, UploadGivenUp(why) PROVE G
  BY <1>1, <1>8 DEF UploadGivenUp, localVars, queueVars
<1>9. CASE AdvanceOffset BY <1>1, <1>9 DEF AdvanceOffset, queueVars
<1>10. CASE TaskDone
  <2>1. /\ UNCHANGED <<log, head, cur>> /\ batch' = <<>> /\ Len(batch') = 0
        /\ unfinished' = [unfinished EXCEPT ![cur] = unfinished[cur] - Len(batch)]
    BY <1>10 DEF TaskDone, TasksDone
  <2> QED BY <1>1, <2>1
<1>11. ASSUME NEW t \in Threads, Put(t) PROVE G
  <2>1. /\ UNCHANGED <<head, cur, batch>> /\ on[t] \in Writers /\ item[t] \in Data
        /\ log' = [log EXCEPT ![on[t]] = Append(log[on[t]], item[t])]
        /\ unfinished' = [unfinished EXCEPT ![on[t]] = unfinished[on[t]] + 1]
    BY <1>11 DEF Put, Goto, workerVars, localVars, TypeOK, CallTypes, OnWriter
  <2>2. CASE w = on[t]
    <3>1. log'[w] = Append(log[w], item[t]) /\ unfinished'[w] = unfinished[w] + 1
      BY <1>1, <2>1, <2>2 DEF TypeOK, QueueTypes
    <3>2. Len(log'[w]) = Len(log[w]) + 1
      BY <2>1, <3>1, AppendProperties DEF TypeOK, QueueTypes
    <3>3. head'[w] = head[w] BY <2>1
    <3>4. InHand(w)' = InHand(w) /\ InHand(w) \in Int BY <1>1, <2>1
    <3>5. QueueSize(w)' = QueueSize(w) + 1 /\ QueueSize(w) \in Int BY <1>1, <3>2, <3>3
    <3> HIDE DEF QueueSize, InHand
    <3> QED BY <1>1, <3>1, <3>4, <3>5
  <2>3. CASE w # on[t]
    <3>1. log'[w] = log[w] /\ unfinished'[w] = unfinished[w]
      BY <1>1, <2>1, <2>3 DEF TypeOK, QueueTypes
    <3> QED BY <1>1, <2>1, <3>1
  <2> QED BY <2>2, <2>3
<1>12. ASSUME NEW x \in late, LateApply(x) PROVE G
  BY <1>1, <1>12 DEF LateApply, workerVars, localVars, queueVars
<1> QED
  BY StepKinds, <1>2, <1>3, <1>4, <1>5, <1>6, <1>7, <1>8, <1>9, <1>10, <1>11, <1>12
  DEF StepKind

\* What was stored or given up stays so.
LEMMA SettledStays ==
  ASSUME TypeOK, [Next]_vars, NEW w, NEW p, Settled(w, p)
  PROVE  Settled(w, p)'
<1>1. CASE Quiet \/ Swap BY <1>1 DEF Quiet, Swap, serverVars, Settled
<1>2. CASE TakeItem \/ EndBatch \/ AdvanceOffset \/ TaskDone
  BY <1>2 DEF TakeItem, EndBatch, AdvanceOffset, TaskDone, serverVars, Settled
<1>3. CASE UploadStored BY <1>3 DEF UploadStored, Settled
<1>4. CASE UploadFails BY <1>4 DEF UploadFails, Settled
<1>5. ASSUME NEW why \in {"status", "fatal"}, UploadGivenUp(why) PROVE Settled(w, p)'
  BY <1>5 DEF UploadGivenUp, Settled
<1>6. ASSUME NEW t \in Threads, Put(t) PROVE Settled(w, p)'
  BY <1>6 DEF Put, serverVars, Settled
<1>7. ASSUME NEW x \in late, LateApply(x) PROVE Settled(w, p)'
  BY <1>7 DEF LateApply, Settled
<1> QED
  BY StepKinds, <1>1, <1>2, <1>3, <1>4, <1>5, <1>6, <1>7 DEF StepKind

\* When the upload of a batch is over each of its items is stored or given up.
LEMMA NextOutcome ==
  TypeOK /\ OutcomeKnown /\ [Next]_vars => OutcomeKnown'
<1> SUFFICES ASSUME TypeOK, OutcomeKnown, [Next]_vars, wpc' = "advance",
                    NEW i \in 1..Len(batch')
             PROVE  Settled(cur, offset[cur] + i - 1)'
  BY DEF OutcomeKnown
<1> DEFINE G == Settled(cur, offset[cur] + i - 1)'
<1>1. ASSUME wpc = "advance", UNCHANGED <<cur, offset, batch>> PROVE G
  BY <1>1, SettledStays DEF OutcomeKnown
<1>2. ASSUME GivenUp \subseteq discarded', UNCHANGED <<cur, offset, batch>> PROVE G
  BY <1>2 DEF GivenUp, Settled
<1>3. CASE Quiet BY <1>1, <1>3 DEF Quiet, Busy
<1>4. CASE Swap \/ TakeItem \/ EndBatch \/ AdvanceOffset \/ TaskDone
  BY <1>4 DEF Swap, TakeItem, EndBatch, AdvanceOffset, TaskDone, WGoto, Busy
<1>5. CASE UploadStored
  <2>1. /\ UNCHANGED <<cur, offset, batch>> /\ Placed \subseteq stored' /\ i \in 1..Len(batch)
    BY <1>5 DEF UploadStored, localVars, writerVars
  <2>2. batch[i] \in Data BY <2>1 DEF TypeOK, WorkerTypes
  <2> QED BY <2>1, <2>2 DEF Placed, Settled
<1>6. CASE UploadFails
  <2>1. UNCHANGED <<cur, offset, batch>> BY <1>6 DEF UploadFails, writerVars
  <2>2. GivenUp \subseteq discarded' BY <1>6 DEF UploadFails
  <2> QED BY <1>2, <2>1, <2>2
<1>7. ASSUME NEW why \in {"status", "fatal"}, UploadGivenUp(why) PROVE G
  BY <1>2, <1>7 DEF UploadGivenUp, localVars, writerVars
<1>8. ASSUME NEW t \in Threads, Put(t) PROVE G
  BY <1>1, <1>8 DEF Put, workerVars, localVars, writerVars
<1>9. ASSUME NEW x \in late, LateApply(x) PROVE G
  BY <1>1, <1>9 DEF LateApply, workerVars, localVars, writerVars
<1> QED
  BY StepKinds, <1>3, <1>4, <1>5, <1>6, <1>7, <1>8, <1>9 DEF StepKind

\* The offset never moves past an item that is neither stored nor given up.
LEMMA NextCovers ==
  TypeOK /\ OutcomeKnown /\ OffsetCoversSettled /\ [Next]_vars => OffsetCoversSettled'
<1> SUFFICES ASSUME TypeOK, OutcomeKnown, OffsetCoversSettled, [Next]_vars,
                    NEW w \in Writers, NEW p \in Start..(offset'[w] - 1)
             PROVE  Settled(w, p)'
  BY DEF OffsetCoversSettled
<1>1. ASSUME UNCHANGED offset PROVE Settled(w, p)'
  BY <1>1, SettledStays DEF OffsetCoversSettled
<1>2. CASE AdvanceOffset
  <2>1. /\ cur \in Writers /\ wpc = "advance" /\ Len(batch) \in Nat /\ Start \in Nat
        /\ offset \in [Writers -> Nat]
        /\ offset' = [offset EXCEPT ![cur] = offset[cur] + Len(batch)]
    BY <1>2, ConstantsAssumption
    DEF AdvanceOffset, OffsetByCount, WGoto, TypeOK, WorkerTypes, WriterTypes, HasWriter
  <2>2. CASE p < offset[w]
    BY <2>1, <2>2, SettledStays DEF OffsetCoversSettled
  <2>3. CASE ~(p < offset[w])
    <3> DEFINE i == p - offset[w] + 1
    <3>1. w = cur BY <2>1, <2>3
    <3>2. i \in 1..Len(batch) /\ p = offset[cur] + i - 1 BY <2>1, <2>3, <3>1
    <3>3. Settled(w, p) BY <2>1, <3>1, <3>2 DEF OutcomeKnown
    <3> QED BY <3>3, SettledStays
  <2> QED BY <2>2, <2>3
<1>3. CASE Quiet \/ Swap \/ TakeItem \/ EndBatch \/ UploadStored \/ UploadFails \/ TaskDone
  BY <1>1, <1>3
  DEF Quiet, Swap, TakeItem, EndBatch, UploadStored, UploadFails, TaskDone, writerVars
<1>4. ASSUME NEW why \in {"status", "fatal"}, UploadGivenUp(why) PROVE Settled(w, p)'
  BY <1>1, <1>4 DEF UploadGivenUp, writerVars
<1>5. ASSUME NEW t \in Threads, Put(t) PROVE Settled(w, p)'
  BY <1>1, <1>5 DEF Put, writerVars
<1>6. ASSUME NEW x \in late, LateApply(x) PROVE Settled(w, p)'
  BY <1>1, <1>6 DEF LateApply, writerVars
<1> QED BY StepKinds, <1>2, <1>3, <1>4, <1>5, <1>6 DEF StepKind

----------------------------------------------------------------------------
\* The initial states satisfy the safety invariant.
LEMMA InitSafety == Init => SafetyInv
<1> SUFFICES ASSUME Init PROVE SafetyInv OBVIOUS
<1>1. TypeOK BY InitTypeOK
<1>2. BatchTracks BY ConstantsAssumption DEF Init, BatchTracks
<1>3. OffsetTracks BY ConstantsAssumption DEF Init, OffsetTracks, InFlight
<1>4. OutcomeKnown BY DEF Init, OutcomeKnown
<1>5. EveryItemInItsPlace BY DEF Init, EveryItemInItsPlace
<1>6. JoinCountsPending
  BY ConstantsAssumption DEF Init, JoinCountsPending, QueueSize, InHand
<1>7. OffsetCoversSettled BY ConstantsAssumption DEF Init, OffsetCoversSettled
<1> QED BY <1>1, <1>2, <1>3, <1>4, <1>5, <1>6, <1>7 DEF SafetyInv

\* Every step preserves it.
LEMMA NextSafety == SafetyInv /\ [Next]_vars => SafetyInv'
  BY NextTypeOK, NextTracks, NextOutcome, NextPlace, NextJoinCounts, NextCovers
  DEF SafetyInv

\* The safety invariant holds in every reachable state.
THEOREM Safety == Spec => []SafetyInv
  BY InitSafety, NextSafety, PTL DEF Spec

\* The server never holds an item at another position than the one at which it
\* was put on its writer, whatever is retried, lost, late or given up.
THEOREM ItemsInTheirPlaces == Spec => []EveryItemInItsPlace
<1>1. SafetyInv => EveryItemInItsPlace BY DEF SafetyInv
<1> QED BY Safety, <1>1, PTL

\* join() waits for exactly the items queued or in the worker's hands.
THEOREM JoinCounts == Spec => []JoinCountsPending
<1>1. SafetyInv => JoinCountsPending BY DEF SafetyInv
<1> QED BY Safety, <1>1, PTL

\* The offset of the next batch covers settled positions only.
THEOREM OffsetCovers == Spec => []OffsetCoversSettled
<1>1. SafetyInv => OffsetCoversSettled BY DEF SafetyInv
<1> QED BY Safety, <1>1, PTL

\* A queue that join() finds done has all its items settled.
LEMMA DoneIsSettled ==
  ASSUME SafetyInv, NEW w \in Writers, AllDone(w), NEW i \in 1..Len(log[w])
  PROVE  Settled(w, Start + i - 1)
<1>1. /\ Len(log[w]) \in Nat /\ head[w] \in Nat /\ Len(batch) \in Nat /\ Start \in Nat
      /\ head[w] <= Len(log[w]) /\ unfinished[w] = 0
  BY ConstantsAssumption DEF SafetyInv, TypeOK, QueueTypes, WorkerTypes, AllDone
<1>2. Len(log[w]) - head[w] + InHand(w) = 0 /\ InHand(w) \in Nat
  BY <1>1 DEF SafetyInv, JoinCountsPending, QueueSize, InHand
<1>3. head[w] = Len(log[w]) /\ InHand(w) = 0 BY <1>1, <1>2
<1>4. InFlight(w) = 0 BY <1>3 DEF InFlight, InHand
<1>5. offset[w] = Start + Len(log[w]) BY <1>1, <1>3, <1>4 DEF SafetyInv, OffsetTracks
<1>6. Start + i - 1 \in Start..(offset[w] - 1) BY <1>1, <1>5
<1> QED BY <1>6 DEF SafetyInv, OffsetCoversSettled

\* When flush or a blocking close returns to its caller, all that was put on the
\* writer by then is settled.
THEOREM JoinBarrier == Spec => JoinIsABarrier
<1> DEFINE Released(t) == pc[t] \in {"joinflush", "joinclose"} /\ pc'[t] # pc[t]
           All(t) == \A i \in 1..Len(log[on[t]]) : Settled(on[t], Start + i - 1)
           B == \A t \in Threads : Released(t) => All(t)
<1>1. SafetyInv /\ [Next]_vars => [B]_vars
  <2> SUFFICES ASSUME SafetyInv, [Next]_vars, NEW t \in Threads, Released(t)
               PROVE  All(t)
    OBVIOUS
  <2>1. JoinQueueFlush(t) \/ JoinQueueClose(t)
    <3>1. pc \in [Threads -> CallerAt] BY DEF SafetyInv, TypeOK, CallTypes
    <3>2. ~ UNCHANGED pc OBVIOUS
    <3>3. ~ Worker
      BY <3>2 DEF Worker, LoopTop, StopOrIdle, Wait, Clear, PopWriter, LookAtWriter,
        RequeueWriter, TakeItem, EndBatch, UploadStored, UploadFails, UploadGivenUp,
        AdvanceOffset, TaskDone, callVars
    <3>4. \A w \in Writers : ~ IntervalPasses(w) BY <3>2 DEF IntervalPasses, callVars
    <3>5. \A x \in late : ~ LateApply(x) BY <3>2 DEF LateApply, callVars
    <3>6. ~ UNCHANGED vars BY <3>2 DEF vars, callVars
    <3>7. PICK u \in Threads : Starts(u) \/ Continues(u)
      BY <3>3, <3>4, <3>5, <3>6 DEF Next
    <3>8. ~ Starts(u)
      BY <3>1 DEF Starts, CreateWriter, Write, Flush, CloseWriter, Close, Call, Goto, callVars
    <3>9. u = t
      BY <3>1, <3>7, <3>8 DEF Continues, AppendWriter, Put, ReturnId, EndFlush, Interrupt,
        JoinQueueFlush, JoinQueueClose, JoinThread, Return, Goto
    <3> QED
      BY <3>7, <3>8, <3>9 DEF Continues, AppendWriter, Put, ReturnId, EndFlush, Interrupt,
        JoinThread, Return, Goto
  <2>2. on[t] \in Writers BY DEF SafetyInv, TypeOK, CallTypes, OnWriter
  <2>3. AllDone(on[t]) BY <2>1 DEF JoinQueueFlush, JoinQueueClose
  <2> QED BY <2>2, <2>3, DoneIsSettled
<1> QED BY Safety, <1>1, PTL DEF Spec, JoinIsABarrier

----------------------------------------------------------------------------
(***************************************************************************)
(* Who uses which writer: a writer that is being made is known to its      *)
(* maker only, and every other call is on a writer that was made.          *)
(***************************************************************************)
CallFits(t) ==
  /\ pc[t] \notin OnWriter => on[t] = None
  /\ pc[t] \in OnWriter => t \in Users[on[t]]
  /\ pc[t] \in OnWriter \ {"append"} => on[t] \in made
  /\ pc[t] = "append" => on[t] \notin made /\ \A u \in Threads \ {t} : on[u] # on[t]
CallsFit ==
  /\ \A t \in Threads : CallFits(t)
  /\ \A w \in Writers \ made : log[w] = <<>>

\* Careful callers are not writing while anything is closed.
WritesOpen == Careful => \A t \in Threads : pc[t] = "put" => ~closed /\ ~wclosed[on[t]]

LEMMA NextCallsFit ==
  ASSUME TypeOK, CallsFit, [Next]_vars
  PROVE  CallsFit'
<1> USE DEF TypeOK, CallTypes, OnWriter, CallerAt
<1>1. ASSUME NEW t \in Threads,
             \A u \in Threads \ {t} : /\ pc'[u] = pc[u] /\ on'[u] = on[u]
                                      /\ pc[u] = "append" => on'[t] # on[u],
             CallFits(t)', made' = made \/ (pc[t] = "append" /\ made' = made \cup {on[t]})
      PROVE  \A u \in Threads : CallFits(u)'
  <2> SUFFICES ASSUME NEW u \in Threads \ {t} PROVE CallFits(u)' BY <1>1
  <2>1. CallFits(u) /\ CallFits(t) BY DEF CallsFit
  <2>2. pc[u] = "append" => on[u] \notin made'
    BY <1>1, <2>1 DEF CallFits
  <2>3. pc[u] = "append" => \A v \in Threads \ {u} : on'[v] # on'[u]
    BY <1>1, <2>1 DEF CallFits
  <2> QED BY <1>1, <2>1, <2>2, <2>3 DEF CallFits
<1>2. ASSUME NEW t \in Threads, NEW w \in Writers, NEW known \in BOOLEAN, CreateWriter(t, w, known)
      PROVE  CallsFit'
  <2>1. /\ pc'[t] = "append" /\ on'[t] = w /\ made' = made /\ log' = log /\ pc[t] = "idle"
        /\ t \in Users[w] /\ w \notin made /\ \A u \in Threads : on[u] # w
        /\ \A u \in Threads \ {t} : pc'[u] = pc[u] /\ on'[u] = on[u]
    BY <1>2 DEF CreateWriter, Call, Goto, queueVars
  <2>2. CallFits(t)' BY <2>1 DEF CallFits
  <2> QED BY <1>1, <2>1, <2>2 DEF CallsFit
<1>3. ASSUME NEW t \in Threads, NEW w \in Writers,
             \/ \E d \in Data : Write(t, w, d)
             \/ Flush(t, w)
             \/ CloseWriter(t, w, TRUE)
      PROVE  CallsFit'
  <2>1. pc'[t] \in {"put", "flush", "close"} /\ on'[t] = w /\ made' = made /\ log' = log
        /\ t \in Users[w] /\ w \in made
        /\ \A u \in Threads \ {t} : pc'[u] = pc[u] /\ on'[u] = on[u]
    BY <1>3 DEF Write, Flush, CloseWriter, Call, Goto, queueVars, loopVars, dequeVars
  <2>2. CallFits(t)' BY <2>1 DEF CallFits
  <2>3. \A u \in Threads \ {t} : pc[u] = "append" => on[u] # w BY <2>1 DEF CallsFit, CallFits
  <2> QED BY <1>1, <2>1, <2>2, <2>3 DEF CallsFit
<1>4. ASSUME NEW t \in Threads,
             Close(t) \/ Interrupt(t, "shut", "jointhread") \/ JoinThread(t)
      PROVE  CallsFit'
  <2>1. pc[t] \in {"idle", "shut", "jointhread"} /\ pc'[t] \in {"idle", "shut", "jointhread"}
        /\ on'[t] \in {on[t], None} /\ made' = made /\ log' = log
        /\ \A u \in Threads \ {t} : pc'[u] = pc[u] /\ on'[u] = on[u]
    BY <1>4 DEF Close, Interrupt, JoinThread, Return, Goto, queueVars, loopVars, dequeVars
  <2>2. CallFits(t)' BY <2>1 DEF CallsFit, CallFits
  <2>3. \A u \in Threads \ {t} : pc[u] = "append" => on'[t] # on[u]
    BY <2>1, ConstantsAssumption DEF CallsFit, CallFits
  <2> QED BY <1>1, <2>1, <2>2, <2>3 DEF CallsFit
<1>5. ASSUME NEW t \in Threads, AppendWriter(t) PROVE CallsFit'
  <2>1. pc[t] = "append" /\ pc'[t] = "idle" /\ on'[t] = None /\ made' = made \cup {on[t]} /\ log' = log
        /\ \A u \in Threads \ {t} : pc'[u] = pc[u] /\ on'[u] = on[u]
    BY <1>5 DEF AppendWriter, Return, Goto, queueVars
  <2>2. CallFits(t)' BY <2>1 DEF CallFits
  <2>3. \A u \in Threads \ {t} : pc[u] = "append" => on'[t] # on[u]
    BY <2>1, ConstantsAssumption
  <2> QED BY <1>1, <2>1, <2>2, <2>3 DEF CallsFit
<1>6. ASSUME NEW t \in Threads,
             \/ Put(t) \/ Interrupt(t, "flush", "joinflush") \/ Interrupt(t, "close", "joinclose")
             \/ JoinQueueFlush(t)
      PROVE  CallsFit'
  <2>1. pc[t] \in OnWriter \ {"append"} /\ pc'[t] \in OnWriter \ {"append"} /\ on' = on /\ made' = made
        /\ \A u \in Threads \ {t} : pc'[u] = pc[u]
    BY <1>6 DEF Put, Interrupt, JoinQueueFlush, Goto, loopVars, dequeVars
  <2>2. CallFits(t)' BY <2>1 DEF CallsFit, CallFits
  <2>3. \A u \in Threads \ {t} : pc[u] = "append" => on'[t] # on[u]
    BY <2>1 DEF CallsFit, CallFits
  <2>4. \A w \in Writers \ made : log'[w] = log[w]
    BY <1>6, <2>1 DEF CallsFit, CallFits, Put, Interrupt, JoinQueueFlush, queueVars, QueueTypes
  <2> QED BY <1>1, <2>1, <2>2, <2>3, <2>4 DEF CallsFit
<1>7. ASSUME NEW t \in Threads, ReturnId(t) \/ EndFlush(t) \/ JoinQueueClose(t) PROVE CallsFit'
  <2>1. pc'[t] = "idle" /\ on'[t] = None /\ made' = made /\ log' = log
        /\ \A u \in Threads \ {t} : pc'[u] = pc[u] /\ on'[u] = on[u]
    BY <1>7 DEF ReturnId, EndFlush, JoinQueueClose, Return, Goto, queueVars, loopVars, dequeVars
  <2>2. CallFits(t)' BY <2>1 DEF CallFits
  <2>3. \A u \in Threads \ {t} : pc[u] = "append" => on'[t] # on[u]
    BY <2>1, ConstantsAssumption
  <2> QED BY <1>1, <2>1, <2>2, <2>3 DEF CallsFit
<1>8. ASSUME UNCHANGED <<made, log, pc, on>> PROVE CallsFit' BY <1>8 DEF CallsFit, CallFits
<1>9. CASE Worker \/ (\E w \in Writers : IntervalPasses(w)) \/ (\E x \in late : LateApply(x))
           \/ UNCHANGED vars
  BY <1>8, <1>9
     DEF Worker, LoopTop, StopOrIdle, Wait, Clear, PopWriter, LookAtWriter, RequeueWriter, TakeItem,
         EndBatch, UploadStored, UploadFails, UploadGivenUp, AdvanceOffset, TaskDone, IntervalPasses,
         LateApply, vars, callVars, queueVars, loopVars, dequeVars
<1>10. ASSUME NEW t \in Threads, NEW w \in Writers, CloseWriter(t, w, FALSE) PROVE CallsFit'
  BY <1>8, <1>10 DEF CloseWriter, callVars, queueVars, loopVars, dequeVars
<1>11. ASSUME NEW t \in Threads, Starts(t) PROVE CallsFit'
  BY <1>2, <1>3, <1>4, <1>10, <1>11 DEF Starts
<1>12. ASSUME NEW t \in Threads, Continues(t) PROVE CallsFit'
  BY <1>4, <1>5, <1>6, <1>7, <1>12 DEF Continues
<1> QED BY <1>9, <1>11, <1>12 DEF Next

\* No write is under way on what is closed.
LEMMA NextWritesOpen ==
  ASSUME TypeOK, CallsFit, WritesOpen, Careful, [Next]_vars
  PROVE  WritesOpen'
<1> USE DEF TypeOK, CallTypes, CallerAt, WriterTypes
<1>1. ASSUME UNCHANGED <<pc, on, closed, wclosed>> PROVE WritesOpen'
  BY <1>1 DEF WritesOpen
<1>2. ASSUME NEW t \in Threads, \A u \in Threads \ {t} : pc'[u] = pc[u] /\ on'[u] = on[u],
             pc'[t] # "put", UNCHANGED <<closed, wclosed>>
      PROVE  WritesOpen'
  BY <1>2 DEF WritesOpen
<1>3. ASSUME NEW t \in Threads, \A u \in Threads \ {t} : pc[u] = "idle",
             \A u \in Threads \ {t} : pc'[u] = pc[u], pc'[t] # "put"
      PROVE  WritesOpen'
  BY <1>3 DEF WritesOpen
<1>4. ASSUME NEW t \in Threads, Starts(t) PROVE WritesOpen'
  <2>1. ASSUME NEW w \in Writers, NEW known \in BOOLEAN, CreateWriter(t, w, known) PROVE WritesOpen'
    BY <1>2, <2>1 DEF CreateWriter, Call, Goto, writerVars
  <2>2. ASSUME NEW w \in Writers, NEW d \in Data, Write(t, w, d) PROVE WritesOpen'
    <3>1. ~closed /\ ~wclosed[w] /\ on'[t] = w /\ UNCHANGED <<closed, wclosed>>
          /\ \A u \in Threads \ {t} : pc'[u] = pc[u] /\ on'[u] = on[u]
      BY <2>2 DEF Write, OpenFor, Call, Goto, loopVars, writerVars
    <3> QED BY <3>1 DEF WritesOpen
  <2>3. ASSUME NEW w \in Writers, Flush(t, w) PROVE WritesOpen'
    BY <1>2, <2>3 DEF Flush, Call, Goto, loopVars
  <2>4. ASSUME NEW w \in Writers, NEW block \in BOOLEAN, CloseWriter(t, w, block) PROVE WritesOpen'
    <3>1. pc[t] = "idle" /\ pc'[t] \in {"idle", "close"} /\ \A u \in Threads \ {t} : pc[u] = "idle" /\ pc'[u] = pc[u]
      BY <2>4 DEF CloseWriter, Alone, Call, Goto, callVars
    <3> QED BY <1>3, <3>1
  <2>5. CASE Close(t)
    <3>1. pc'[t] = "shut" /\ \A u \in Threads \ {t} : pc[u] = "idle" /\ pc'[u] = pc[u]
      BY <2>5 DEF Close, Alone, Goto
    <3> QED BY <1>3, <3>1
  <2> QED BY <1>4, <2>1, <2>2, <2>3, <2>4, <2>5 DEF Starts
<1>5. ASSUME NEW t \in Threads, Continues(t) PROVE WritesOpen'
  <2>1. /\ \A u \in Threads \ {t} : pc'[u] = pc[u] /\ on'[u] = on[u]
        /\ pc'[t] # "put" /\ UNCHANGED <<closed, wclosed>>
    BY <1>5 DEF Continues, AppendWriter, Put, ReturnId, EndFlush, Interrupt, JoinQueueFlush,
                JoinQueueClose, JoinThread, Return, Goto, loopVars, writerVars
  <2> QED BY <1>2, <2>1
<1>6. CASE PopWriter
  <2>1. closed' = closed /\ pc' = pc /\ on' = on
        /\ wclosed' = [wclosed EXCEPT ![Head(rotation)] = wclosed[Head(rotation)] \/ closed]
    BY <1>6 DEF PopWriter, ClosedNow, callVars
  <2> QED BY <2>1 DEF WritesOpen, OnWriter
<1>7. CASE (Worker /\ ~PopWriter) \/ (\E w \in Writers : IntervalPasses(w))
           \/ (\E x \in late : LateApply(x)) \/ UNCHANGED vars
  BY <1>1, <1>7
     DEF Worker, LoopTop, StopOrIdle, Wait, Clear, LookAtWriter, RequeueWriter, TakeItem,
         EndBatch, UploadStored, UploadFails, UploadGivenUp, AdvanceOffset, TaskDone, IntervalPasses,
         LateApply, vars, callVars, writerVars, loopVars
<1> QED BY <1>4, <1>5, <1>6, <1>7 DEF Next

(***************************************************************************)
(* The rotation.                                                           *)
(***************************************************************************)
InRotation(w) == \E i \in 1..Len(rotation) : rotation[i] = w
OnceEach ==
  /\ \A i, j \in 1..Len(rotation) : rotation[i] = rotation[j] => i = j
  /\ \A i \in 1..Len(rotation) : rotation[i] \in made /\ rotation[i] # cur
  /\ cur \in made \cup {None}
  /\ wpc \notin HasWriter \cup {"died"} => cur = None
KeptUntilDone ==
  Careful => \A w \in made : (wclosed[w] /\ Empty(w)) \/ cur = w \/ InRotation(w)

LEMMA NextOnceEach ==
  ASSUME TypeOK, CallsFit, OnceEach, [Next]_vars
  PROVE  OnceEach'
<1>0. rotation \in Seq(Writers) /\ Len(rotation) \in Nat BY DEF TypeOK, LoopTypes
<1>1. ASSUME UNCHANGED <<rotation, made, cur>>,
             wpc' \notin HasWriter \cup {"died"} => wpc \notin HasWriter \cup {"died"}
      PROVE  OnceEach'
  BY <1>1 DEF OnceEach
<1>2. CASE PopWriter
  <2> DEFINE r == Tail(rotation)
  <2>1. rotation # <<>> BY <1>2 DEF PopWriter, WGoto, TypeOK, PopFinds
  <2>2. /\ Len(r) = Len(rotation) - 1 /\ Head(rotation) = rotation[1] /\ Len(rotation) > 0
        /\ \A i \in 1..Len(r) : r[i] = rotation[i + 1]
    BY <1>0, <2>1, HeadTailProperties, EmptySeq
  <2>3. rotation' = r /\ cur' = rotation[1] /\ made' = made /\ wpc' = "look"
    BY <1>2, <2>2 DEF PopWriter, WGoto
  <2> HIDE DEF r
  <2>4. \A i, j \in 1..Len(r) : r[i] = r[j] => i = j BY <1>0, <2>2 DEF OnceEach
  <2>5. \A i \in 1..Len(r) : r[i] \in made /\ r[i] # rotation[1] BY <1>0, <2>2 DEF OnceEach
  <2>6. rotation[1] \in made BY <1>0, <2>2 DEF OnceEach
  <2> QED BY <2>3, <2>4, <2>5, <2>6 DEF OnceEach, HasWriter
<1>3. ASSUME NEW w \in Writers, rotation' = Append(rotation, w), \A i \in 1..Len(rotation) : rotation[i] # w,
             cur' # w, cur' \in {cur, None}, w \in made', made \subseteq made',
             wpc' \notin HasWriter \cup {"died"} => cur' = None
      PROVE  OnceEach'
  <2> DEFINE r == Append(rotation, w)
  <2>1. /\ Len(r) = Len(rotation) + 1 /\ r[Len(rotation) + 1] = w
        /\ \A i \in 1..Len(rotation) : r[i] = rotation[i]
    BY <1>0, AppendProperties
  <2>2. rotation' = r BY <1>3
  <2>3. None \notin made BY ConstantsAssumption DEF TypeOK, LoopTypes
  <2> HIDE DEF r
  <2>4. \A i \in 1..Len(r) : i \in 1..Len(rotation) \/ i = Len(rotation) + 1 BY <1>0, <2>1
  <2>5. \A i, j \in 1..Len(r) : r[i] = r[j] => i = j BY <1>0, <1>3, <2>1, <2>4 DEF OnceEach
  <2>6. \A i \in 1..Len(r) : r[i] \in made' /\ r[i] # cur'
    BY <1>0, <1>3, <2>1, <2>3, <2>4 DEF OnceEach
  <2> QED BY <1>3, <2>2, <2>5, <2>6 DEF OnceEach
<1>4. CASE RequeueWriter
  <2>1. cur \in Writers /\ wpc = "requeue" BY <1>4 DEF RequeueWriter, WGoto, TypeOK, WorkerTypes, HasWriter
  <2>2. cur' = None /\ made' = made /\ wpc' = "top" /\ rotation' \in {rotation, Append(rotation, cur)}
    BY <1>4 DEF RequeueWriter, WGoto
  <2>3. cur \in made /\ cur # None BY <2>1, ConstantsAssumption DEF OnceEach
  <2>4. None \notin made BY ConstantsAssumption DEF TypeOK, LoopTypes
  <2>5. CASE rotation' = rotation BY <2>2, <2>4, <2>5 DEF OnceEach, HasWriter
  <2>6. CASE rotation' = Append(rotation, cur) BY <1>3, <2>1, <2>2, <2>3, <2>6 DEF OnceEach
  <2> QED BY <2>2, <2>5, <2>6
<1>5. ASSUME NEW t \in Threads, AppendWriter(t) PROVE OnceEach'
  <2>1. pc[t] = "append" /\ on[t] \in Writers /\ rotation' = Append(rotation, on[t])
        /\ made' = made \cup {on[t]} /\ cur' = cur /\ wpc' = wpc
    BY <1>5 DEF AppendWriter, Return, Goto, workerVars, localVars, TypeOK, CallTypes, OnWriter
  <2>2. on[t] \notin made /\ on[t] # None
    BY <2>1, ConstantsAssumption DEF CallsFit, CallFits
  <2> QED BY <1>3, <2>1, <2>2 DEF OnceEach
<1>6. ASSUME NEW t \in Threads, Starts(t) \/ (Continues(t) /\ ~AppendWriter(t)) PROVE OnceEach'
  BY <1>1, <1>6
     DEF Starts, Continues, CreateWriter, Write, Flush, CloseWriter, Close, Put, ReturnId, EndFlush,
         Interrupt, JoinQueueFlush, JoinQueueClose, JoinThread, loopVars, dequeVars, workerVars,
         localVars
<1>7. CASE (\E w \in Writers : IntervalPasses(w)) \/ (\E x \in late : LateApply(x)) \/ UNCHANGED vars
  BY <1>1, <1>7 DEF IntervalPasses, LateApply, vars, loopVars, dequeVars, workerVars, localVars
<1>8. CASE Worker /\ ~PopWriter /\ ~RequeueWriter
  <2>1. UNCHANGED <<rotation, made, cur>>
    BY <1>8
       DEF Worker, LoopTop, StopOrIdle, Wait, Clear, LookAtWriter, TakeItem, EndBatch, UploadStored,
           UploadFails, UploadGivenUp, AdvanceOffset, TaskDone, loopVars, dequeVars, localVars
  <2>2. wpc' \notin HasWriter \cup {"died"} => wpc \notin HasWriter \cup {"died"}
    BY <1>8
       DEF Worker, LoopTop, StopOrIdle, Wait, Clear, LookAtWriter, TakeItem, EndBatch, UploadStored,
           UploadFails, UploadGivenUp, AdvanceOffset, TaskDone, WGoto, AfterIdle, HasWriter
  <2> QED BY <1>1, <2>1, <2>2
<1> QED BY <1>2, <1>4, <1>5, <1>6, <1>7, <1>8 DEF Next

LEMMA NextKept ==
  ASSUME TypeOK, CallsFit, OnceEach, WritesOpen, KeptUntilDone, Careful, [Next]_vars
  PROVE  KeptUntilDone'
<1>0. rotation \in Seq(Writers) /\ Len(rotation) \in Nat /\ made \subseteq Writers /\ None \notin made
  BY ConstantsAssumption DEF TypeOK, LoopTypes
<1>1. ASSUME UNCHANGED <<rotation, made, cur>>,
             \A w \in made : w # cur /\ wclosed[w] /\ Empty(w) => wclosed'[w] /\ Empty(w)'
      PROVE  KeptUntilDone'
  BY <1>1 DEF KeptUntilDone, InRotation
<1>2. CASE PopWriter
  <2> DEFINE r == Tail(rotation)
  <2>1. rotation # <<>> /\ cur = None
    BY <1>2 DEF PopWriter, WGoto, TypeOK, PopFinds, OnceEach, HasWriter
  <2>2. /\ Len(r) = Len(rotation) - 1 /\ Head(rotation) = rotation[1] /\ Len(rotation) > 0
        /\ \A i \in 1..Len(r) : r[i] = rotation[i + 1]
    BY <1>0, <2>1, HeadTailProperties, EmptySeq
  <2>3. rotation' = r /\ cur' = rotation[1] /\ made' = made /\ log' = log /\ head' = head
    BY <1>2, <2>2 DEF PopWriter, WGoto, queueVars
  <2>4. \A w \in Writers : wclosed[w] => wclosed'[w]
    BY <1>2 DEF PopWriter, ClosedNow, TypeOK, WriterTypes
  <2> HIDE DEF r
  <2>5. ASSUME NEW w \in made, InRotation(w) PROVE rotation[1] = w \/ \E i \in 1..Len(r) : r[i] = w
    <3>1. PICK i \in 1..Len(rotation) : rotation[i] = w BY <2>5 DEF InRotation
    <3>2. CASE i = 1 BY <3>1, <3>2
    <3>3. CASE i # 1
      <4>1. i - 1 \in 1..Len(r) /\ r[i - 1] = w BY <1>0, <2>2, <3>1, <3>3
      <4> QED BY <4>1
    <3> QED BY <3>2, <3>3
  <2> QED BY <1>0, <2>1, <2>3, <2>4, <2>5 DEF KeptUntilDone, InRotation, Empty, QueueSize
<1>3. ASSUME NEW v \in Writers, rotation' = Append(rotation, v)
      PROVE  /\ \E i \in 1..Len(rotation') : rotation'[i] = v
             /\ \A w : InRotation(w) => InRotation(w)'
  <2>1. /\ Len(rotation') = Len(rotation) + 1 /\ rotation'[Len(rotation) + 1] = v
        /\ \A i \in 1..Len(rotation) : rotation'[i] = rotation[i]
    BY <1>0, <1>3, AppendProperties
  <2>2. Len(rotation) + 1 \in 1..Len(rotation') BY <1>0, <2>1
  <2>3. \A i \in 1..Len(rotation) : i \in 1..Len(rotation') BY <1>0, <2>1
  <2> QED BY <2>1, <2>2, <2>3 DEF InRotation
<1>4. CASE RequeueWriter
  <2>1. cur \in Writers /\ cur' = None /\ UNCHANGED <<made, wclosed, log, head>>
        /\ rotation' = IF Finished(cur) THEN rotation ELSE Append(rotation, cur)
    BY <1>4 DEF RequeueWriter, WGoto, TypeOK, WorkerTypes, HasWriter, writerVars, queueVars
  <2>2. \A w : InRotation(w) => InRotation(w)' BY <1>3, <2>1 DEF InRotation
  <2>3. Finished(cur) \/ \E i \in 1..Len(rotation') : rotation'[i] = cur BY <1>3, <2>1
  <2> QED BY <2>1, <2>2, <2>3 DEF KeptUntilDone, InRotation, Finished, Empty, QueueSize
<1>5. ASSUME NEW t \in Threads, AppendWriter(t) PROVE KeptUntilDone'
  <2>1. on[t] \in Writers /\ rotation' = Append(rotation, on[t]) /\ made' = made \cup {on[t]}
        /\ UNCHANGED <<cur, wclosed, log, head>>
    BY <1>5 DEF AppendWriter, Return, Goto, workerVars, localVars, TypeOK, CallTypes, OnWriter,
                writerVars, queueVars
  <2>2. /\ \E i \in 1..Len(rotation') : rotation'[i] = on[t]
        /\ \A w : InRotation(w) => InRotation(w)'
    BY <1>3, <2>1
  <2> QED BY <2>1, <2>2 DEF KeptUntilDone, InRotation, Empty, QueueSize
<1>6. ASSUME NEW t \in Threads, Put(t) PROVE KeptUntilDone'
  <2>1. pc[t] = "put" /\ on[t] \in Writers /\ ~wclosed[on[t]]
        /\ UNCHANGED <<rotation, made, cur, wclosed, head>>
    BY <1>6 DEF Put, Goto, WritesOpen, TypeOK, CallTypes, OnWriter, loopVars, dequeVars, workerVars,
                localVars, writerVars
  <2>2. \A w \in Writers \ {on[t]} : log'[w] = log[w] BY <1>6 DEF Put, TypeOK, QueueTypes
  <2> QED BY <1>0, <1>1, <2>1, <2>2 DEF Empty, QueueSize
<1>7. ASSUME NEW t \in Threads, Starts(t) \/ (Continues(t) /\ ~AppendWriter(t) /\ ~Put(t))
      PROVE  KeptUntilDone'
  <2>1. UNCHANGED <<rotation, made, cur, log, head>>
    BY <1>7
       DEF Starts, Continues, CreateWriter, Write, Flush, CloseWriter, Close, ReturnId, EndFlush,
           Interrupt, JoinQueueFlush, JoinQueueClose, JoinThread, loopVars, dequeVars, workerVars,
           localVars, queueVars
  <2>2. wclosed' = wclosed \/ \E w : wclosed' = [wclosed EXCEPT ![w] = TRUE]
    BY <1>7
       DEF Starts, Continues, CreateWriter, Write, Flush, CloseWriter, Close, ReturnId, EndFlush,
           Interrupt, JoinQueueFlush, JoinQueueClose, JoinThread, writerVars
  <2>3. \A w \in Writers : wclosed[w] => wclosed'[w] BY <2>2 DEF TypeOK, WriterTypes
  <2> QED BY <1>0, <1>1, <2>1, <2>3 DEF Empty, QueueSize
<1>8. CASE TakeItem
  <2>1. UNCHANGED <<rotation, made, cur, log, wclosed>> /\ head' = [head EXCEPT ![cur] = @ + 1]
    BY <1>8 DEF TakeItem, loopVars, dequeVars, writerVars
  <2>2. \A w \in Writers \ {cur} : head'[w] = head[w] BY <2>1 DEF TypeOK, QueueTypes
  <2> QED BY <1>0, <1>1, <2>1, <2>2 DEF Empty, QueueSize
<1>9. CASE (Worker /\ ~PopWriter /\ ~RequeueWriter /\ ~TakeItem) \/ (\E w \in Writers : IntervalPasses(w))
           \/ (\E x \in late : LateApply(x)) \/ UNCHANGED vars
  <2>1. UNCHANGED <<rotation, made, cur, log, head, wclosed>>
    BY <1>9
       DEF Worker, LoopTop, StopOrIdle, Wait, Clear, LookAtWriter, EndBatch, UploadStored,
           UploadFails, UploadGivenUp, AdvanceOffset, TaskDone, IntervalPasses, LateApply, vars,
           loopVars, dequeVars, localVars, workerVars, queueVars, writerVars
  <2> QED BY <1>1, <2>1 DEF Empty, QueueSize
<1> QED BY <1>2, <1>4, <1>5, <1>6, <1>7, <1>8, <1>9 DEF Next

RotationInv == CallsFit /\ OnceEach /\ WritesOpen /\ KeptUntilDone

LEMMA RotationAlways ==
  ASSUME Careful
  PROVE  Spec => [](SafetyInv /\ RotationInv)
<1>1. Init => RotationInv
  <2> SUFFICES ASSUME Init PROVE RotationInv OBVIOUS
  <2>1. Len(rotation) = 0 BY DEF Init
  <2>2. OnceEach BY <2>1 DEF Init, OnceEach
  <2> QED BY <2>2 DEF Init, RotationInv, CallsFit, CallFits, OnWriter, WritesOpen, KeptUntilDone
<1>2. SafetyInv /\ RotationInv /\ [Next]_vars => RotationInv'
  BY NextCallsFit, NextOnceEach, NextWritesOpen, NextKept DEF SafetyInv, RotationInv
<1> QED BY <1>1, <1>2, Safety, PTL DEF Spec

\* How often a writer is in the rotation or in the worker's hands.
LEMMA CountTimes ==
  ASSUME TypeOK, OnceEach, NEW w \in made
  PROVE  Times(w) = IF cur = w \/ InRotation(w) THEN 1 ELSE 0
<1> DEFINE I == {i \in 1..Len(rotation) : rotation[i] = w}
<1>1. CASE InRotation(w)
  <2>1. PICK i \in 1..Len(rotation) : rotation[i] = w BY <1>1 DEF InRotation
  <2>2. I = {i} BY <2>1 DEF OnceEach
  <2>3. cur # w BY <2>1 DEF OnceEach
  <2>4. Cardinality(I) = 1 BY <2>2, FS_Singleton
  <2> QED BY <1>1, <2>3, <2>4 DEF Times
<1>2. CASE ~InRotation(w)
  <2>1. I = {} BY <1>2 DEF InRotation
  <2>2. Cardinality(I) = 0 BY <2>1, FS_EmptySet
  <2> QED BY <1>2, <2>2 DEF Times
<1> QED BY <1>1, <1>2

\* Between batches every writer that is open or has items is in the deque once.
THEOREM ServedOnceHolds ==
  ASSUME Careful
  PROVE  Spec => []ServedOnce
<1>1. SafetyInv /\ RotationInv => ServedOnce
  BY CountTimes DEF SafetyInv, RotationInv, KeptUntilDone, ServedOnce
<1> QED BY <1>1, RotationAlways, PTL

\* A thread that stopped with an empty deque has settled all that was put.
THEOREM NothingLeftBehindHolds ==
  ASSUME Careful
  PROVE  Spec => []NothingLeftBehind
<1>1. ASSUME SafetyInv, RotationInv, wpc = "stopped", rotation = <<>>,
             NEW w \in Writers, NEW i \in 1..Len(log[w])
      PROVE  Settled(w, Start + i - 1)
  <2>1. Len(rotation) = 0 /\ cur = None
    BY <1>1 DEF RotationInv, OnceEach, HasWriter
  <2>2. Empty(w)
    <3>1. CASE w \in made
      BY <1>1, <2>1, <3>1, ConstantsAssumption DEF RotationInv, KeptUntilDone, InRotation
    <3>2. CASE w \notin made
      <4>1. log[w] = <<>> BY <1>1, <3>2 DEF RotationInv, CallsFit
      <4>2. Len(log[w]) = 0 BY <4>1
      <4> QED BY <1>1, <4>2
    <3> QED BY <3>1, <3>2
  <2>3. InHand(w) = 0 BY <2>1, ConstantsAssumption DEF InHand
  <2>4. unfinished[w] = 0
    BY <1>1, <2>2, <2>3 DEF SafetyInv, JoinCountsPending, Empty
  <2> QED BY <1>1, <2>4, DoneIsSettled DEF AllDone
<1>2. SafetyInv /\ RotationInv => NothingLeftBehind BY <1>1 DEF NothingLeftBehind
<1> QED BY <1>2, RotationAlways, PTL

(***************************************************************************)
(* The ids of the writes.                                                  *)
(***************************************************************************)
IdPending(w) == \E t \in Users[w] : pc[t] = "id" /\ on[t] = w

LEMMA NextIds ==
  ASSUME TypeOK, CallsFit, IdIsPosition, [Next]_vars
  PROVE  IdIsPosition'
<1>0. \A w \in Writers : Users[w] \subseteq Threads BY ConstantsAssumption
<1>1. ASSUME UNCHANGED <<log, nextid>>, \A w \in Writers : IdPending(w)' = IdPending(w)
      PROVE  IdIsPosition'
  BY <1>1 DEF IdIsPosition, IdPending
<1>2. ASSUME NEW t \in Threads, \A u \in Threads \ {t} : pc'[u] = pc[u] /\ on'[u] = on[u],
             pc[t] # "id", pc'[t] # "id", NEW w \in Writers
      PROVE  IdPending(w)' = IdPending(w)
  BY <1>0, <1>2 DEF IdPending
<1>3. ASSUME NEW t \in Threads, Put(t) PROVE IdIsPosition'
  <2> DEFINE w == on[t]
  <2>1. /\ pc[t] = "put" /\ w \in Writers /\ item[t] \in Data /\ on' = on /\ nextid' = nextid
        /\ pc' = [pc EXCEPT ![t] = "id"] /\ log' = [log EXCEPT ![w] = Append(log[w], item[t])]
    BY <1>3 DEF Put, Goto, TypeOK, CallTypes, OnWriter, writerVars
  <2>2. t \in Users[w] BY <2>1 DEF CallsFit, CallFits, OnWriter
  <2>3. pc'[t] = "id" /\ \A u \in Threads \ {t} : pc'[u] = pc[u]
    BY <2>1 DEF TypeOK, CallTypes
  <2> SUFFICES ASSUME NEW v \in Writers, SoleUser(v)
               PROVE  nextid[v] = Start + Len(log'[v]) - (IF IdPending(v)' THEN 1 ELSE 0)
    BY <2>1 DEF IdIsPosition, IdPending, SoleUser
  <2>4. nextid[v] = Start + Len(log[v]) - (IF IdPending(v) THEN 1 ELSE 0)
    BY DEF IdIsPosition, IdPending
  <2>5. log[v] \in Seq(Data) /\ Len(log[v]) \in Nat BY DEF TypeOK, QueueTypes
  <2>6. CASE v = w
    <3>1. ~IdPending(v) BY <2>1, <2>2, <2>6 DEF IdPending, SoleUser
    <3>2. IdPending(v)' BY <2>1, <2>2, <2>3, <2>6 DEF IdPending
    <3>3. log'[v] = Append(log[v], item[t]) BY <2>1, <2>6 DEF TypeOK, QueueTypes
    <3>4. Len(log'[v]) = Len(log[v]) + 1 BY <2>1, <2>5, <3>3, AppendProperties
    <3> QED BY <2>4, <2>5, <3>1, <3>2, <3>4, ConstantsAssumption
  <2>7. CASE v # w
    <3>1. IdPending(v)' = IdPending(v) BY <1>0, <2>1, <2>3, <2>7 DEF IdPending
    <3>2. log'[v] = log[v] BY <2>1, <2>7 DEF TypeOK, QueueTypes
    <3> QED BY <2>4, <3>1, <3>2
  <2> QED BY <2>6, <2>7
<1>4. ASSUME NEW t \in Threads, ReturnId(t) PROVE IdIsPosition'
  <2> DEFINE w == on[t]
  <2>1. pc[t] = "id" /\ w \in Writers /\ log' = log /\ nextid' = [nextid EXCEPT ![w] = nextid[w] + 1]
    BY <1>4 DEF ReturnId, Return, Goto, TypeOK, CallTypes, OnWriter, queueVars
  <2>2. t \in Users[w] BY <2>1 DEF CallsFit, CallFits, OnWriter
  <2>3. pc'[t] = "idle" /\ \A u \in Threads \ {t} : pc'[u] = pc[u] /\ on'[u] = on[u]
    BY <1>4 DEF ReturnId, Return, Goto, TypeOK, CallTypes
  <2> SUFFICES ASSUME NEW v \in Writers, SoleUser(v)
               PROVE  nextid'[v] = Start + Len(log[v]) - (IF IdPending(v)' THEN 1 ELSE 0)
    BY <2>1 DEF IdIsPosition, IdPending, SoleUser
  <2>4. nextid[v] = Start + Len(log[v]) - (IF IdPending(v) THEN 1 ELSE 0)
    BY DEF IdIsPosition, IdPending
  <2>5. nextid[v] \in Nat /\ Len(log[v]) \in Nat BY DEF TypeOK, WriterTypes, QueueTypes
  <2>6. CASE v = w
    <3>1. IdPending(v) BY <2>1, <2>2, <2>6 DEF IdPending
    <3>2. ~IdPending(v)' BY <2>2, <2>3, <2>6 DEF IdPending, SoleUser
    <3>3. nextid'[v] = nextid[v] + 1 BY <2>1, <2>6 DEF TypeOK, WriterTypes
    <3> QED BY <2>4, <2>5, <3>1, <3>2, <3>3, ConstantsAssumption
  <2>7. CASE v # w
    <3>1. IdPending(v)' = IdPending(v) BY <1>0, <2>3, <2>7 DEF IdPending
    <3>2. nextid'[v] = nextid[v] BY <2>1, <2>7 DEF TypeOK, WriterTypes
    <3> QED BY <2>4, <3>1, <3>2
  <2> QED BY <2>6, <2>7
<1>5. ASSUME NEW t \in Threads, Starts(t) \/ (Continues(t) /\ ~Put(t) /\ ~ReturnId(t)) PROVE IdIsPosition'
  <2>1. UNCHANGED <<log, nextid>>
    BY <1>5
       DEF Starts, Continues, CreateWriter, AppendWriter, Write, Flush, CloseWriter, Close, EndFlush,
           Interrupt, JoinQueueFlush, JoinQueueClose, JoinThread, queueVars, writerVars
  <2>2. \/ /\ \A u \in Threads \ {t} : pc'[u] = pc[u] /\ on'[u] = on[u]
           /\ pc[t] # "id" /\ pc'[t] # "id"
        \/ UNCHANGED <<pc, on>>
    <3>1. CASE Starts(t)
      BY <3>1
         DEF Starts, CreateWriter, Write, Flush, CloseWriter, Close, Call, Goto, TypeOK, CallTypes,
             callVars
    <3>2. CASE Continues(t) /\ ~Put(t) /\ ~ReturnId(t)
      BY <3>2
         DEF Continues, AppendWriter, EndFlush, Interrupt, JoinQueueFlush, JoinQueueClose, JoinThread,
             Return, Goto, TypeOK, CallTypes
    <3> QED BY <1>5, <3>1, <3>2
  <2>3. UNCHANGED <<pc, on>> => \A w \in Writers : IdPending(w)' = IdPending(w) BY DEF IdPending
  <2> QED BY <1>1, <1>2, <2>1, <2>2, <2>3
<1>6. CASE Worker \/ (\E w \in Writers : IntervalPasses(w)) \/ (\E x \in late : LateApply(x))
           \/ UNCHANGED vars
  <2>1. UNCHANGED <<log, nextid, pc, on>>
    BY <1>6
       DEF Worker, LoopTop, StopOrIdle, Wait, Clear, PopWriter, LookAtWriter, RequeueWriter, TakeItem,
           EndBatch, UploadStored, UploadFails, UploadGivenUp, AdvanceOffset, TaskDone, IntervalPasses,
           LateApply, vars, callVars, queueVars, writerVars
  <2> QED BY <1>1, <2>1 DEF IdPending
<1> QED BY <1>3, <1>4, <1>5, <1>6 DEF Next

\* A writer that one thread uses alone returns the positions of the items as ids.
THEOREM IdIsPositionHolds == Spec => []IdIsPosition
<1>1. Init => CallsFit /\ IdIsPosition
  <2> SUFFICES ASSUME Init PROVE CallsFit /\ IdIsPosition OBVIOUS
  <2>1. CallsFit BY DEF Init, CallsFit, CallFits, OnWriter
  <2>2. ASSUME NEW w \in Writers
        PROVE  /\ nextid[w] = Start /\ Len(log[w]) = 0
               /\ ~IdPending(w)
    <3>1. nextid[w] = Start /\ log[w] = <<>> BY DEF Init, FirstId
    <3>2. Len(log[w]) = 0 BY <3>1
    <3>3. \A t \in Users[w] : pc[t] = "idle" BY ConstantsAssumption DEF Init
    <3> QED BY <3>1, <3>2, <3>3 DEF IdPending
  <2>3. Start \in Nat BY ConstantsAssumption
  <2>4. \A w \in Writers : nextid[w] = Start + Len(log[w]) - (IF IdPending(w) THEN 1 ELSE 0)
    <3> SUFFICES ASSUME NEW w \in Writers
                 PROVE  nextid[w] = Start + Len(log[w]) - (IF IdPending(w) THEN 1 ELSE 0)
      OBVIOUS
    <3>1. nextid[w] = Start /\ Len(log[w]) = 0 BY <2>2
    <3>2. (IF IdPending(w) THEN 1 ELSE 0) = 0 BY <2>2
    <3>3. nextid[w] = Start + 0 - 0 BY <2>3, <3>1
    <3> QED BY <3>1, <3>2, <3>3
  <2>5. IdIsPosition BY <2>4 DEF IdIsPosition, IdPending
  <2> QED BY <2>1, <2>5
<1>2. TypeOK /\ CallsFit /\ IdIsPosition /\ [Next]_vars => CallsFit' /\ IdIsPosition'
  BY NextCallsFit, NextIds
<1> QED BY <1>1, <1>2, TypeCorrect, PTL DEF Spec
=============================================================================
