---------------------- MODULE BatchUploaderRefinement ----------------------
(***************************************************************************)
(* Proof that BatchUploader.tla implements UploadLog.tla.                  *)
(***************************************************************************)
EXTENDS BatchUploaderProofs

\* The indices in the log of the items of the worker's batch.
BatchIndices == head[cur] - Len(batch) + 1 .. head[cur]

\* What is known of the batch while it is uploaded.
LEMMA BatchFacts ==
  ASSUME SafetyInv, wpc \in {"upload", "advance"}
  PROVE  /\ cur \in Writers /\ Start \in Nat /\ Len(batch) \in Nat /\ head[cur] \in Nat
         /\ Len(log[cur]) \in Nat /\ head[cur] <= Len(log[cur]) /\ Len(batch) <= head[cur]
         /\ offset[cur] = Start + head[cur] - Len(batch)
         /\ SettledCount[cur] = head[cur] - Len(batch)
         /\ BatchIndices \in SUBSET (1..Len(log[cur]))
<1>1. /\ cur \in Writers /\ Start \in Nat /\ Len(batch) \in Nat /\ head[cur] \in Nat
      /\ Len(log[cur]) \in Nat /\ head[cur] <= Len(log[cur]) /\ Len(batch) <= head[cur]
      /\ offset[cur] = Start + head[cur] - Len(batch)
  BY ConstantsAssumption
  DEF SafetyInv, TypeOK, WorkerTypes, QueueTypes, HasWriter, BatchTracks, OffsetTracks,
      InFlight
<1>2. SettledCount[cur] = head[cur] - Len(batch) BY <1>1 DEF SettledCount
<1>3. BatchIndices \in SUBSET (1..Len(log[cur])) BY <1>1 DEF BatchIndices
<1> QED BY <1>1, <1>2, <1>3

\* A request carries the logged items at the batch's indices.
LEMMA PlacedIsBatch ==
  ASSUME SafetyInv, wpc = "upload"
  PROVE  /\ Placed = {<<cur, Start + i - 1, log[cur][i]>> : i \in BatchIndices}
         /\ GivenUp = {<<cur, Start + i - 1>> : i \in BatchIndices}
<1> DEFINE n == Len(batch)
           h == head[cur]
<1>1. ASSUME NEW i \in 1..n
      PROVE  /\ h - n + i \in BatchIndices
             /\ offset[cur] + i - 1 = Start + (h - n + i) - 1
             /\ batch[i] = log[cur][h - n + i]
  <2>1. h - n + i \in BatchIndices /\ offset[cur] + i - 1 = Start + (h - n + i) - 1
    BY BatchFacts DEF BatchIndices
  <2>2. batch[i] = log[cur][h - n + i] BY BatchFacts DEF SafetyInv, BatchTracks
  <2> QED BY <2>1, <2>2
<1>2. ASSUME NEW i \in BatchIndices
      PROVE  /\ i - h + n \in 1..n
             /\ h - n + (i - h + n) = i
  BY BatchFacts DEF BatchIndices
<1>3. Placed = {<<cur, Start + i - 1, log[cur][i]>> : i \in BatchIndices}
  <2>1. ASSUME NEW x \in Placed
        PROVE  x \in {<<cur, Start + i - 1, log[cur][i]>> : i \in BatchIndices}
    BY <1>1 DEF Placed
  <2>2. ASSUME NEW i \in BatchIndices
        PROVE  <<cur, Start + i - 1, log[cur][i]>> \in Placed
    <3> DEFINE j == i - h + n
    <3>1. j \in 1..n /\ h - n + j = i BY <1>2
    <3>2. offset[cur] + j - 1 = Start + i - 1 /\ batch[j] = log[cur][i] BY <1>1, <3>1
    <3> QED BY <3>1, <3>2 DEF Placed
  <2> QED BY <2>1, <2>2
<1>4. GivenUp = {<<cur, Start + i - 1>> : i \in BatchIndices}
  <2>1. ASSUME NEW x \in GivenUp
        PROVE  x \in {<<cur, Start + i - 1>> : i \in BatchIndices}
    BY <1>1 DEF GivenUp
  <2>2. ASSUME NEW i \in BatchIndices PROVE <<cur, Start + i - 1>> \in GivenUp
    <3> DEFINE j == i - h + n
    <3>1. j \in 1..n /\ h - n + j = i BY <1>2
    <3>2. offset[cur] + j - 1 = Start + i - 1 BY <1>1, <3>1
    <3> QED BY <3>1, <3>2 DEF GivenUp
  <2> QED BY <2>1, <2>2
<1> QED BY <1>3, <1>4

\* The initial states map to initial states.
LEMMA InitRefines == Init => Abstract!Init
  BY ConstantsAssumption DEF Init, Abstract!Init, SettledCount

\* Every step maps to a step of the abstract log or to none.
LEMMA NextRefines ==
  SafetyInv /\ [Next]_vars => [Abstract!Next]_(Abstract!vars)
<1> SUFFICES ASSUME SafetyInv, [Next]_vars
             PROVE  Abstract!Next \/ UNCHANGED Abstract!vars
  OBVIOUS
<1> DEFINE G == Abstract!Next \/ UNCHANGED Abstract!vars
<1>1. ASSUME UNCHANGED <<log, offset, stored, discarded>> PROVE G
  BY <1>1 DEF Abstract!vars, SettledCount
<1>2. CASE Quiet \/ Swap \/ TakeItem \/ EndBatch \/ TaskDone
  BY <1>1, <1>2
  DEF Quiet, Swap, TakeItem, EndBatch, TaskDone, queueVars, writerVars, serverVars
<1>3. CASE UploadStored
  <2>1. /\ stored' = stored \cup Placed /\ UNCHANGED <<log, offset, discarded>>
        /\ wpc = "upload"
    BY <1>3 DEF UploadStored, WGoto, queueVars, writerVars
  <2>2. Abstract!Store(cur, BatchIndices)
    BY <2>1, PlacedIsBatch DEF Abstract!Store, SettledCount
  <2> QED BY <2>1, <2>2, BatchFacts DEF Abstract!Next
<1>4. ASSUME wpc = "upload", UNCHANGED <<log, offset, stored>>,
             discarded' = discarded \cup GivenUp
      PROVE  G
  <2>1. \A i \in BatchIndices : i > SettledCount[cur]
    BY <1>4, BatchFacts DEF BatchIndices
  <2>2. Abstract!GiveUp(cur, BatchIndices)
    BY <1>4, <2>1, PlacedIsBatch DEF Abstract!GiveUp, SettledCount
  <2> QED BY <1>4, <2>2, BatchFacts DEF Abstract!Next
<1>5. CASE UploadFails
  BY <1>1, <1>4, <1>5 DEF UploadFails, queueVars, writerVars
<1>6. ASSUME NEW why \in {"status", "fatal"}, UploadGivenUp(why) PROVE G
  BY <1>4, <1>6 DEF UploadGivenUp, WGoto, queueVars, writerVars
<1>7. CASE AdvanceOffset
  <2>1. /\ wpc = "advance" /\ UNCHANGED <<log, stored, discarded>>
        /\ offset' = [offset EXCEPT ![cur] = offset[cur] + Len(batch)]
    BY <1>7 DEF AdvanceOffset, WGoto, OffsetByCount, queueVars, serverVars
  <2>2. /\ head[cur] >= SettledCount[cur] /\ head[cur] \in 0..Len(log[cur])
        /\ cur \in Writers
    BY <2>1, BatchFacts
  <2>3. SettledCount' = [SettledCount EXCEPT ![cur] = head[cur]]
    <3>1. offset \in [Writers -> Nat] BY DEF SafetyInv, TypeOK, WriterTypes
    <3>2. offset'[cur] - Start = head[cur] BY <2>1, <3>1, BatchFacts
    <3>3. ASSUME NEW w \in Writers
          PROVE  offset'[w] - Start
                   = [SettledCount EXCEPT ![cur] = head[cur]][w]
      <4>1. CASE w = cur BY <2>2, <3>2, <4>1 DEF SettledCount
      <4>2. CASE w # cur BY <2>1, <3>1, <4>2 DEF SettledCount
      <4> QED BY <4>1, <4>2
    <3> QED BY <3>3 DEF SettledCount
  <2>4. ASSUME NEW i \in SettledCount[cur] + 1..head[cur]
        PROVE  \/ <<cur, Start + i - 1, log[cur][i]>> \in stored
               \/ <<cur, Start + i - 1>> \in discarded
    <3> DEFINE j == i - SettledCount[cur]
    <3>1. /\ j \in 1..Len(batch) /\ offset[cur] + j - 1 = Start + i - 1
          /\ (Start + i - 1) - Start + 1 = i
      BY <2>1, BatchFacts
    <3>2. Settled(cur, Start + i - 1) BY <2>1, <3>1 DEF SafetyInv, OutcomeKnown
    <3>3. ASSUME NEW d \in Data, <<cur, Start + i - 1, d>> \in stored
          PROVE  d = log[cur][i]
      <4>1. RightPlace(<<cur, Start + i - 1, d>>)
        BY <3>3 DEF SafetyInv, EveryItemInItsPlace
      <4> QED BY <3>1, <4>1 DEF RightPlace
    <3> QED BY <3>2, <3>3 DEF Settled
  <2>5. Abstract!Settle(cur, head[cur])
    BY <2>1, <2>2, <2>3, <2>4 DEF Abstract!Settle
  <2> QED BY <2>2, <2>5 DEF Abstract!Next
<1>8. ASSUME NEW t \in Threads, Put(t) PROVE G
  <2>1. /\ on[t] \in Writers /\ item[t] \in Data /\ UNCHANGED <<offset, stored, discarded>>
        /\ log' = [log EXCEPT ![on[t]] = Append(log[on[t]], item[t])]
    BY <1>8 DEF Put, Goto, writerVars, serverVars, SafetyInv, TypeOK, CallTypes, OnWriter
  <2>2. Abstract!Accept(on[t], item[t]) BY <2>1 DEF Abstract!Accept, SettledCount
  <2> QED BY <2>1, <2>2 DEF Abstract!Next
<1>9. ASSUME NEW x \in late, LateApply(x) PROVE G
  <2> DEFINE i == x[2] - Start + 1
  <2>1. stored' = stored \cup {x} /\ UNCHANGED <<log, offset, discarded>>
    BY <1>9 DEF LateApply, queueVars, writerVars
  <2>2. x \in Writers \X Nat \X Data BY DEF SafetyInv, TypeOK, ServerTypes
  <2>3. x[1] \in Writers /\ x[2] \in Nat /\ x = <<x[1], x[2], x[3]>> BY <2>2
  <2>4. RightPlace(x) BY DEF SafetyInv, EveryItemInItsPlace
  <2>5. Len(log[x[1]]) \in Nat BY <2>3 DEF SafetyInv, TypeOK, QueueTypes
  <2>6. /\ i \in 1..Len(log[x[1]]) /\ Start + i - 1 = x[2]
    BY <2>3, <2>4, <2>5, ConstantsAssumption DEF RightPlace
  <2>7. x = <<x[1], Start + i - 1, log[x[1]][i]>> BY <2>3, <2>4, <2>6 DEF RightPlace
  <2>8. {x} = {<<x[1], Start + k - 1, log[x[1]][k]>> : k \in {i}} BY <2>7
  <2>9. Abstract!Store(x[1], {i}) BY <2>1, <2>8 DEF Abstract!Store, SettledCount
  <2>10. {i} \in SUBSET (1..Len(log[x[1]])) BY <2>6
  <2> QED BY <2>3, <2>9, <2>10 DEF Abstract!Next
<1> QED
  <2>1. StepKind BY StepKinds DEF SafetyInv
  <2> QED BY <2>1, <1>2, <1>3, <1>5, <1>6, <1>7, <1>8, <1>9 DEF StepKind

\* The uploader implements the abstract upload log.
THEOREM Refinement == Spec => ImplementsUploadLog
<1>1. Init => Abstract!Init BY InitRefines
<1>2. SafetyInv /\ [Next]_vars => [Abstract!Next]_(Abstract!vars) BY NextRefines
<1> QED BY Safety, <1>1, <1>2, PTL DEF Spec, ImplementsUploadLog, Abstract!Spec
=============================================================================
